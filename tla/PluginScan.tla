----------------------------- MODULE PluginScan -----------------------------
(***************************************************************************)
(* scan_entrypoints of ai.backend.plugin.entrypoint: the entry points of   *)
(* one group, first those declared in BUILD files (merged by name in a     *)
(* dict, the last declaration of a name winning), then those of the        *)
(* installed package metadata, filtered by the blocklist and checked for   *)
(* duplicate names.  One step is one entry consumed by one of the loops.   *)
(* Names and implementation references are model values; the BUILD files  *)
(* are given as the sequence of entries their parse yields, in glob order. *)
(***************************************************************************)
EXTENDS Naturals, Sequences, Functions

CONSTANTS
    Name,        \* extension names
    Value,       \* implementation references ("module:object")
    MaxEntries,  \* longest list of entries per source
    MaxDepth     \* deepest working directory (the root has depth 0)

ASSUME MaxEntriesAssumption == MaxEntries \in Nat \ {0}
ASSUME MaxDepthAssumption == MaxDepth \in Nat

EntryPoint == [name : Name, value : Value]
Lists(n) == UNION {[1..k -> EntryPoint] : k \in 0..n}

VARIABLES
    cwd,          \* depth of the directory find_build_root is looking at
    marked,       \* depths of the ancestors holding a BUILD_ROOT file
    build,        \* the entries the BUILD files declare, in glob order
    b,            \* BUILD entries read into the dict so far
    entrypoints,  \* the dict of scan_entrypoint_from_buildscript, in order
    package,      \* entries of entry_points().get(group_name)
    blocklist,
    stream,       \* the chained stream not yet consumed by scan_entrypoints
    existing_names, \* the entries recorded, one per name, in order
    yielded,      \* what scan_entrypoints has yielded
    phase,        \* "find", "build", "scan", "done", or the exception raised
    conflict      \* the two values named by the duplicate-name error

vars == <<cwd, marked, build, b, entrypoints, package, blocklist, stream,
          existing_names, yielded, phase, conflict>>

Names(s) == {s[k].name : k \in DOMAIN s}

Phase == {"find", "build", "scan", "done", "RuntimeError", "UnboundLocalError"}

TypeOK ==
    /\ cwd \in 0..MaxDepth
    /\ marked \subseteq 0..MaxDepth
    /\ build \in Seq(EntryPoint)
    /\ b \in 0..Len(build)
    /\ entrypoints \in Seq(EntryPoint)
    /\ package \in Seq(EntryPoint)
    /\ blocklist \subseteq Name
    /\ stream \in Seq(EntryPoint)
    /\ existing_names \in Seq(EntryPoint)
    /\ yielded \in Seq(EntryPoint)
    /\ phase \in Phase
    /\ conflict \in Seq(Value)

Init ==
    /\ cwd \in 0..MaxDepth
    /\ marked \in SUBSET (0..cwd)
    /\ build \in Lists(MaxEntries)
    /\ b = 0
    /\ package \in Lists(MaxEntries - 1)
    /\ blocklist \in SUBSET Name
    /\ entrypoints = <<>>
    /\ stream = <<>>
    /\ existing_names = <<>>
    /\ yielded = <<>>
    /\ phase = "find"
    /\ conflict = <<>>

\* find_build_root: the directory holds BUILD_ROOT; it is the build root.
FindBuildRootFound ==
    /\ phase = "find"
    /\ cwd \in marked
    /\ phase' = "build"
    /\ UNCHANGED <<cwd, marked, build, b, entrypoints, package, blocklist,
                   stream, existing_names, yielded, conflict>>

\* find_build_root: move to the parent (the root, depth 0, is its own
\* parent); stop with ValueError once the new directory is the root.  The
\* caller's `except ValueError: yield from []` falls through to the next
\* line, which reads the unbound src_path.
FindBuildRootAscend ==
    /\ phase = "find"
    /\ cwd \notin marked
    /\ cwd' = IF cwd = 0 THEN 0 ELSE cwd - 1
    /\ phase' = IF cwd' = 0 THEN "UnboundLocalError" ELSE "find"
    /\ UNCHANGED <<marked, build, b, entrypoints, package, blocklist, stream,
                   existing_names, yielded, conflict>>

\* Mutant: an entry of an already-declared name is dropped, not replaced.
dict_set_keep_first(d, e) ==
    IF \E k \in DOMAIN d : d[k].name = e.name THEN d ELSE Append(d, e)

\* entrypoints[entrypoint.name] = entrypoint: replace the value in place if
\* the name is present, otherwise append at the end.
dict_set(d, e) ==
    IF \E k \in DOMAIN d : d[k].name = e.name
    THEN [k \in DOMAIN d |-> IF d[k].name = e.name THEN e ELSE d[k]]
    ELSE Append(d, e)

\* One entry of a BUILD file read into the dict (both glob loops).
ReadBuildEntry ==
    /\ phase = "build"
    /\ b < Len(build)
    /\ entrypoints' = dict_set(entrypoints, build[b + 1])
    /\ b' = b + 1
    /\ UNCHANGED <<cwd, marked, build, package, blocklist, stream,
                   existing_names, yielded, phase, conflict>>

\* All BUILD files read: the dict's values, then the package metadata.
ChainSources ==
    /\ phase = "build"
    /\ b = Len(build)
    /\ stream' = entrypoints \o package
    /\ phase' = "scan"
    /\ UNCHANGED <<cwd, marked, build, b, entrypoints, package, blocklist,
                   existing_names, yielded, conflict>>

\* A blocklisted entry: continue.
ScanBlocked ==
    /\ phase = "scan"
    /\ stream # <<>>
    /\ Head(stream).name \in blocklist
    /\ stream' = Tail(stream)
    /\ UNCHANGED <<cwd, marked, build, b, entrypoints, package, blocklist,
                   existing_names, yielded, phase, conflict>>

\* existing_names.get(name)
Recorded(x) == existing_names[CHOOSE k \in DOMAIN existing_names :
                                  existing_names[k].name = x]

\* A name already recorded: raise RuntimeError naming both values.
ScanDuplicate ==
    LET e == Head(stream) IN
    /\ phase = "scan"
    /\ stream # <<>>
    /\ e.name \notin blocklist
    /\ e.name \in Names(existing_names)
    /\ conflict' = <<Recorded(e.name).value, e.value>>
    /\ phase' = "RuntimeError"
    /\ UNCHANGED <<cwd, marked, build, b, entrypoints, package, blocklist, stream,
                   existing_names, yielded>>

\* Mutant: the blocklist is not consulted.
ScanYield_unfiltered ==
    LET e == Head(stream) IN
    /\ phase = "scan"
    /\ stream # <<>>
    /\ e.name \notin Names(existing_names)
    /\ existing_names' = Append(existing_names, e)
    /\ yielded' = Append(yielded, e)
    /\ stream' = Tail(stream)
    /\ UNCHANGED <<cwd, marked, build, b, entrypoints, package, blocklist, phase,
                   conflict>>

\* A new name: record it and yield the entry.
ScanYield ==
    LET e == Head(stream) IN
    /\ phase = "scan"
    /\ stream # <<>>
    /\ e.name \notin blocklist
    /\ e.name \notin Names(existing_names)
    /\ existing_names' = Append(existing_names, e)
    /\ yielded' = Append(yielded, e)
    /\ stream' = Tail(stream)
    /\ UNCHANGED <<cwd, marked, build, b, entrypoints, package, blocklist, phase,
                   conflict>>

\* The chained stream is exhausted: the generator returns.
ScanDone ==
    /\ phase = "scan"
    /\ stream = <<>>
    /\ phase' = "done"
    /\ UNCHANGED <<cwd, marked, build, b, entrypoints, package, blocklist, stream,
                   existing_names, yielded, conflict>>

\* The generator has returned or raised.
Stopped ==
    /\ phase \in {"done", "RuntimeError", "UnboundLocalError"}
    /\ UNCHANGED vars

Next ==
    \/ FindBuildRootFound \/ FindBuildRootAscend \/ ReadBuildEntry \/ ChainSources
    \/ ScanBlocked \/ ScanDuplicate \/ ScanYield \/ ScanDone \/ Stopped

Spec == Init /\ [][Next]_vars


-----------------------------------------------------------------------------
(* What discovery should produce (spec sections 4.6 and 8.7), stated       *)
(* without the loops.                                                      *)

\* The value of the last BUILD declaration of name x.
LastBuildValue(x) ==
    build[CHOOSE k \in DOMAIN build :
              /\ build[k].name = x
              /\ \A l \in DOMAIN build : build[l].name = x => l <= k].value

\* The entries a successful scan yields: the last BUILD value of each BUILD
\* name, and the package entries, minus the blocklisted names.
Expected ==
    {e \in {[name |-> x, value |-> LastBuildValue(x)] : x \in Names(build)}
             \cup Range(package) : e.name \notin blocklist}

\* Some name outside the blocklist is declared both in a BUILD file and in
\* the package metadata, or twice in the package metadata.
Clash ==
    \E x \in Name \ blocklist :
        \/ x \in Names(build) /\ x \in Names(package)
        \/ \E k, l \in DOMAIN package : k < l /\ package[k].name = x
                                              /\ package[l].name = x

\* Every entry scan_entrypoints yields, at any point of the lazy iteration,
\* has a name outside the blocklist and no name is yielded twice.
YieldedFiltered ==
    /\ Names(yielded) \cap blocklist = {}
    /\ \A k, l \in DOMAIN yielded : k # l => yielded[k].name # yielded[l].name

\* When the BUILD scan runs, scan_entrypoints either returns having yielded
\* exactly the expected entries (a later BUILD declaration of a name
\* overriding an earlier one), or raises the duplicate-name error, and
\* raises it only when a non-blocklisted name really occurs twice.
ScanOutcome ==
    /\ phase = "done" => Range(yielded) = Expected
    /\ phase = "RuntimeError" => Clash

\* Spec 8.7: the same name with identical implementation references yields
\* one entry; the duplicate-name error names two different references.
IdenticalDuplicateTolerated ==
    phase = "RuntimeError" => conflict[1] # conflict[2]

\* Spec 4.6: a missing build root means no BUILD entries, never an error.
MissingBuildRootTolerated ==
    phase # "UnboundLocalError"

\* Spec 4.6: find_build_root fails only when no ancestor of the working
\* directory, the filesystem root included, holds BUILD_ROOT.
MarkedBuildRootFound ==
    phase = "UnboundLocalError" => marked = {}


-----------------------------------------------------------------------------
(* The inductive invariant, checked by TLC and proved in PluginScanProofs: *)
(* after b BUILD entries the dict holds, once per name, the last value     *)
(* declared among them; during the scan the stream is the unconsumed      *)
(* suffix of the chained sources and the yielded entries are the consumed *)
(* ones outside the blocklist.                                             *)

\* The value of the last declaration of x among the first n BUILD entries.
LastIn(n, x) ==
    build[CHOOSE k \in 1..n :
              /\ build[k].name = x
              /\ \A l \in 1..n : build[l].name = x => l <= k].value

\* The dict the first n BUILD entries make, as a set of entries.
BuildDict(n) ==
    {[name |-> x, value |-> LastIn(n, x)] : x \in {build[k].name : k \in 1..n}}

\* The chained stream of ChainSources and how much of it has been consumed.
Chained == entrypoints \o package
Consumed == Len(Chained) - Len(stream)

\* Before the scan nothing has been consumed or yielded.
PreScan ==
    phase \in {"find", "build", "UnboundLocalError"} =>
        stream = <<>> /\ yielded = <<>>

\* Before the build root is found no BUILD entry has been read.
NoDict == phase \in {"find", "UnboundLocalError"} => b = 0 /\ entrypoints = <<>>

\* The dict holds each name of the BUILD entries read once, with its last value.
DictInv ==
    phase \in {"build", "scan", "done", "RuntimeError"} =>
        /\ Range(entrypoints) = BuildDict(b)
        /\ \A k, l \in DOMAIN entrypoints :
              k # l => entrypoints[k].name # entrypoints[l].name

\* The stream is what remains of the chained sources, and what was yielded
\* is what was consumed outside the blocklist.
StreamInv ==
    phase \in {"scan", "done", "RuntimeError"} =>
        /\ b = Len(build)
        /\ Len(stream) <= Len(Chained)
        /\ \A i \in 1..Len(stream) : stream[i] = Chained[Consumed + i]
        /\ Range(yielded) = {Chained[q] : q \in {q \in 1..Consumed :
                                              Chained[q].name \notin blocklist}}

ScanInv ==
    /\ TypeOK
    /\ existing_names = yielded
    /\ PreScan
    /\ NoDict
    /\ DictInv
    /\ StreamInv
    /\ phase = "done" => stream = <<>>
    /\ ScanOutcome

=============================================================================
