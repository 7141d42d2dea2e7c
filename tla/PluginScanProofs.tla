--------------------------- MODULE PluginScanProofs --------------------------
(***************************************************************************)
(* Proofs about PluginScan for every set of names and values and every     *)
(* bound: the type invariant, and that scan_entrypoints never yields a     *)
(* blocklisted name or one name twice (YieldedFiltered).                   *)
(***************************************************************************)
EXTENDS PluginScan, SequenceTheorems, TLAPS

\* existing_names and the yielded entries are the same list: the loop
\* records an entry exactly when it yields it.
RecordedIsYielded == existing_names = yielded

FilterInv == TypeOK /\ RecordedIsYielded /\ YieldedFiltered

-----------------------------------------------------------------------------
(* Type correctness.                                                       *)

LEMMA TypeInit == Init => TypeOK
<1> SUFFICES ASSUME Init PROVE TypeOK
    OBVIOUS
<1>1. \A n \in 0..MaxEntries : Lists(n) \subseteq Seq(EntryPoint)
    BY DEF Lists
<1>2. MaxEntries - 1 \in 0..MaxEntries
    BY MaxEntriesAssumption
<1>3. QED
    BY <1>1, <1>2, MaxEntriesAssumption, MaxDepthAssumption
    DEF Init, TypeOK, Phase

\* dict_set keeps the dict a list of entry points.
LEMMA DictSetType ==
    ASSUME NEW d \in Seq(EntryPoint), NEW e \in EntryPoint
    PROVE  dict_set(d, e) \in Seq(EntryPoint)
BY DEF dict_set

\* The two values of the duplicate-name error are implementation references.
LEMMA RecordedType ==
    ASSUME TypeOK, NEW x \in Names(existing_names)
    PROVE  Recorded(x) \in EntryPoint
<1>1. \E k \in DOMAIN existing_names : existing_names[k].name = x
    BY DEF Names
<1>2. QED
    BY <1>1 DEF Recorded, TypeOK

LEMMA TypeStep == TypeOK /\ [Next]_vars => TypeOK'
<1> SUFFICES ASSUME TypeOK, [Next]_vars PROVE TypeOK'
    OBVIOUS
<1> USE DEF TypeOK, Phase
<1>1. CASE FindBuildRootFound
    BY <1>1 DEF FindBuildRootFound
<1>2. CASE FindBuildRootAscend
    <2>1. cwd' \in 0..MaxDepth
        BY <1>2, MaxDepthAssumption DEF FindBuildRootAscend
    <2>2. phase' \in Phase
        BY <1>2 DEF FindBuildRootAscend
    <2>3. QED
        BY <1>2, <2>1, <2>2 DEF FindBuildRootAscend
<1>3. CASE ReadBuildEntry
    <2>1. build[b + 1] \in EntryPoint
        <3>1. b + 1 \in 1..Len(build)
            BY <1>3 DEF ReadBuildEntry
        <3>2. QED
            BY <3>1, ElementOfSeq
    <2>2. entrypoints' \in Seq(EntryPoint)
        BY <1>3, <2>1, DictSetType DEF ReadBuildEntry
    <2>3. b' \in 0..Len(build')
        BY <1>3 DEF ReadBuildEntry
    <2>4. QED
        BY <1>3, <2>2, <2>3 DEF ReadBuildEntry
<1>4. CASE ChainSources
    BY <1>4, ConcatProperties DEF ChainSources
<1>5. CASE ScanBlocked
    BY <1>5, HeadTailProperties DEF ScanBlocked
<1>6. CASE ScanDuplicate
    <2>1. Recorded(Head(stream).name) \in EntryPoint
        BY <1>6, RecordedType DEF ScanDuplicate
    <2>2. Head(stream) \in EntryPoint
        BY <1>6, HeadTailProperties DEF ScanDuplicate
    <2>3. QED
        BY <1>6, <2>1, <2>2 DEF ScanDuplicate, EntryPoint
<1>7. CASE ScanYield
    <2>1. Head(stream) \in EntryPoint /\ Tail(stream) \in Seq(EntryPoint)
        BY <1>7, HeadTailProperties DEF ScanYield
    <2>2. QED
        BY <1>7, <2>1, AppendProperties DEF ScanYield
<1>8. CASE ScanDone
    BY <1>8 DEF ScanDone
<1>9. CASE Stopped \/ UNCHANGED vars
    BY <1>9 DEF Stopped, vars
<1>10. QED
    BY <1>1, <1>2, <1>3, <1>4, <1>5, <1>6, <1>7, <1>8, <1>9 DEF Next

\* Every reachable state of the discovery generator is well typed.
THEOREM TypeCorrect == Spec => []TypeOK
BY TypeInit, TypeStep, PTL DEF Spec

-----------------------------------------------------------------------------
(* The yielded entries are filtered.                                       *)

LEMMA FilterInit == Init => FilterInv
BY TypeInit DEF Init, FilterInv, RecordedIsYielded, YieldedFiltered, Names

\* The one step that yields: the entry's name is outside the blocklist and
\* not among the names recorded, which are the names yielded.
LEMMA FilterYield ==
    ASSUME FilterInv, TypeOK', ScanYield
    PROVE  FilterInv'
<1> DEFINE e == Head(stream)
<1>1. /\ e.name \notin blocklist
      /\ e.name \notin Names(yielded)
      /\ yielded' = Append(yielded, e)
      /\ existing_names' = Append(existing_names, e)
      /\ blocklist' = blocklist
    BY DEF ScanYield, FilterInv, RecordedIsYielded
<1>2. RecordedIsYielded'
    BY <1>1 DEF FilterInv, RecordedIsYielded
<1>3. /\ e \in EntryPoint
      /\ Len(yielded') = Len(yielded) + 1
      /\ \A k \in 1..Len(yielded) : yielded'[k] = yielded[k]
      /\ yielded'[Len(yielded) + 1] = e
      /\ DOMAIN yielded' = 1..Len(yielded) + 1
      /\ DOMAIN yielded = 1..Len(yielded)
    BY <1>1, HeadTailProperties, AppendProperties DEF ScanYield, FilterInv, TypeOK
<1>4. \A k \in DOMAIN yielded : yielded[k].name # e.name
    BY <1>1 DEF Names
<1>6. Names(yielded') \cap blocklist' = {}
    BY <1>1, <1>3 DEF FilterInv, YieldedFiltered, Names
<1>7. \A k, l \in DOMAIN yielded' : k # l => yielded'[k].name # yielded'[l].name
    BY <1>3, <1>4 DEF FilterInv, YieldedFiltered
<1>8. QED
    BY <1>2, <1>6, <1>7 DEF FilterInv, YieldedFiltered

LEMMA FilterStep == FilterInv /\ [Next]_vars => FilterInv'
<1> SUFFICES ASSUME FilterInv, [Next]_vars PROVE FilterInv'
    OBVIOUS
<1>1. TypeOK'
    BY TypeStep DEF FilterInv
<1>2. CASE ScanYield
    BY <1>1, <1>2, FilterYield
<1>3. CASE ~ScanYield
    <2>1. UNCHANGED <<existing_names, yielded, blocklist>>
        BY <1>3 DEF Next, FindBuildRootFound, FindBuildRootAscend,
                    ReadBuildEntry, ChainSources, ScanBlocked, ScanDuplicate,
                    ScanDone, Stopped, vars
    <2>2. QED
        BY <1>1, <2>1 DEF FilterInv, RecordedIsYielded, YieldedFiltered, Names
<1>4. QED
    BY <1>2, <1>3

\* scan_entrypoints never yields a blocklisted name and never yields a name
\* twice, at any point of the lazy iteration: the property the run
\* MC_PluginScan checks, for every set of names, values and bounds.
THEOREM FilteredYield == Spec => []YieldedFiltered
<1>1. Init => FilterInv
    BY FilterInit
<1>2. FilterInv /\ [Next]_vars => FilterInv'
    BY FilterStep
<1>3. FilterInv => YieldedFiltered
    BY DEF FilterInv
<1>4. QED
    BY <1>1, <1>2, <1>3, PTL DEF Spec


-----------------------------------------------------------------------------
(* The outcome of a scan.                                                  *)

\* dict_set, as a set of entries: the entries of the name are replaced by
\* the new one.
LEMMA DictSetRange ==
    ASSUME NEW d \in Seq(EntryPoint), NEW e \in EntryPoint
    PROVE  Range(dict_set(d, e)) = {r \in Range(d) : r.name # e.name} \cup {e}
<1>1. CASE \E k \in DOMAIN d : d[k].name = e.name
    <2>1. dict_set(d, e) = [k \in DOMAIN d |-> IF d[k].name = e.name THEN e ELSE d[k]]
        BY <1>1 DEF dict_set
    <2>2. QED
        BY <1>1, <2>1 DEF Range
<1>2. CASE ~\E k \in DOMAIN d : d[k].name = e.name
    <2>1. dict_set(d, e) = Append(d, e)
        BY <1>2 DEF dict_set
    <2>2. /\ Len(Append(d, e)) = Len(d) + 1
          /\ \A i \in 1..Len(d) : Append(d, e)[i] = d[i]
          /\ Append(d, e)[Len(d) + 1] = e
          /\ DOMAIN Append(d, e) = 1..Len(d) + 1
          /\ DOMAIN d = 1..Len(d)
          /\ Len(d) \in Nat
        BY AppendProperties, LenProperties
    <2>3. \A r \in Range(d) : r.name # e.name
        BY <1>2 DEF Range
    <2>4. QED
        BY <2>1, <2>2, <2>3 DEF Range
<1>3. QED
    BY <1>1, <1>2

\* dict_set keeps the names of the dict distinct.
LEMMA DictSetDistinct ==
    ASSUME NEW d \in Seq(EntryPoint), NEW e \in EntryPoint,
           \A k, l \in DOMAIN d : k # l => d[k].name # d[l].name
    PROVE  LET d2 == dict_set(d, e) IN
           \A k, l \in DOMAIN d2 : k # l => d2[k].name # d2[l].name
<1>1. CASE \E k \in DOMAIN d : d[k].name = e.name
    BY <1>1 DEF dict_set
<1>2. CASE ~\E k \in DOMAIN d : d[k].name = e.name
    <2>1. /\ Len(Append(d, e)) = Len(d) + 1
          /\ \A i \in 1..Len(d) : Append(d, e)[i] = d[i]
          /\ Append(d, e)[Len(d) + 1] = e
          /\ DOMAIN Append(d, e) = 1..Len(d) + 1
          /\ DOMAIN d = 1..Len(d)
          /\ Len(d) \in Nat
        BY AppendProperties, LenProperties
    <2>2. QED
        BY <1>2, <2>1 DEF dict_set
<1>3. QED
    BY <1>1, <1>2

\* Reading one more BUILD entry: the dict of the longer prefix is that of
\* the shorter one with the new entry's name rebound to the new entry.
LEMMA BuildDictStep ==
    ASSUME NEW n \in Nat, build \in Seq(EntryPoint), n < Len(build)
    PROVE  BuildDict(n + 1) =
              {r \in BuildDict(n) : r.name # build[n + 1].name} \cup {build[n + 1]}
<1> DEFINE e == build[n + 1]
           N0 == {build[k].name : k \in 1..n}
<1>1. e \in EntryPoint
    BY ElementOfSeq
<1>2. e = [name |-> e.name, value |-> e.value]
    BY <1>1 DEF EntryPoint
<1>3. {build[k].name : k \in 1..n + 1} = N0 \cup {e.name}
    OBVIOUS
<1>4. LastIn(n + 1, e.name) = e.value
    <2>1. \A k \in 1..n + 1 :
             (/\ build[k].name = e.name
              /\ \A l \in 1..n + 1 : build[l].name = e.name => l <= k)
             <=> k = n + 1
        OBVIOUS
    <2>2. (CHOOSE k \in 1..n + 1 :
              /\ build[k].name = e.name
              /\ \A l \in 1..n + 1 : build[l].name = e.name => l <= k) = n + 1
        BY <2>1
    <2>3. QED
        BY <2>2 DEF LastIn
<1>5. ASSUME NEW x \in N0, x # e.name
      PROVE  LastIn(n + 1, x) = LastIn(n, x)
    <2>1. \A k :
             (/\ k \in 1..n + 1
              /\ build[k].name = x
              /\ \A l \in 1..n + 1 : build[l].name = x => l <= k)
             <=>
             (/\ k \in 1..n
              /\ build[k].name = x
              /\ \A l \in 1..n : build[l].name = x => l <= k)
        BY <1>5
    <2>2. (CHOOSE k \in 1..n + 1 :
              /\ build[k].name = x
              /\ \A l \in 1..n + 1 : build[l].name = x => l <= k)
          = (CHOOSE k \in 1..n :
              /\ build[k].name = x
              /\ \A l \in 1..n : build[l].name = x => l <= k)
        BY <2>1, Zenon
    <2>3. QED
        BY <2>2 DEF LastIn
<1>6. QED
    BY <1>2, <1>3, <1>4, <1>5 DEF BuildDict



\* The facts about the chained stream that the scan steps use.
LEMMA ChainFacts ==
    ASSUME TypeOK, StreamInv, phase \in {"scan", "done", "RuntimeError"}
    PROVE  /\ Chained \in Seq(EntryPoint)
           /\ Len(Chained) = Len(entrypoints) + Len(package)
           /\ \A i \in 1..Len(Chained) :
                 Chained[i] = IF i <= Len(entrypoints) THEN entrypoints[i]
                              ELSE package[i - Len(entrypoints)]
           /\ Consumed \in 0..Len(Chained)
           /\ Len(stream) \in Nat
           /\ Len(stream) = Len(Chained) - Consumed
           /\ \A i \in 1..Len(stream) : stream[i] = Chained[Consumed + i]
<1>1. /\ Chained \in Seq(EntryPoint)
      /\ Len(Chained) = Len(entrypoints) + Len(package)
      /\ \A i \in 1..Len(entrypoints) + Len(package) :
            Chained[i] = IF i <= Len(entrypoints) THEN entrypoints[i]
                         ELSE package[i - Len(entrypoints)]
    BY ConcatProperties DEF TypeOK, Chained
<1>2. Len(stream) \in Nat /\ Len(Chained) \in Nat
    BY <1>1, LenProperties DEF TypeOK
<1>3. QED
    BY <1>1, <1>2 DEF StreamInv, Consumed

\* A duplicate the scan reports is a real one: the name it meets again is
\* outside the blocklist and is declared in a BUILD file and in the package
\* metadata, or twice in the package metadata (the dict keeps BUILD names
\* apart).
LEMMA DuplicateClash ==
    ASSUME ScanInv, ScanDuplicate
    PROVE  Clash
<1> DEFINE E == entrypoints
           P == package
           C == Chained
           c == Consumed
           e == Head(stream)
           x == e.name
<1>1. /\ phase = "scan" /\ stream # <<>>
      /\ x \notin blocklist /\ x \in Names(yielded)
    BY DEF ScanDuplicate, ScanInv
<1>2. /\ C \in Seq(EntryPoint)
      /\ Len(C) = Len(E) + Len(P)
      /\ \A i \in 1..Len(C) : C[i] = IF i <= Len(E) THEN E[i] ELSE P[i - Len(E)]
      /\ c \in 0..Len(C)
      /\ Len(stream) = Len(C) - c
      /\ \A i \in 1..Len(stream) : stream[i] = C[c + i]
    BY <1>1, ChainFacts DEF ScanInv
<1>3. Len(stream) >= 1 /\ e = stream[1]
    BY <1>1, EmptySeq, LenProperties DEF ScanInv, TypeOK
<1>4. c + 1 \in 1..Len(C) /\ e = C[c + 1]
    BY <1>2, <1>3
<1>5. e \in EntryPoint /\ x \in Name
    <2>1. e \in EntryPoint
        BY <1>1, HeadTailProperties DEF ScanInv, TypeOK
    <2>2. QED
        BY <2>1 DEF EntryPoint
<1>6. Range(yielded) = {C[q] : q \in {q \in 1..c : C[q].name \notin blocklist}}
    BY <1>1 DEF ScanInv, StreamInv
<1>7. PICK q \in 1..c : C[q].name = x
    <2>1. PICK k \in DOMAIN yielded : yielded[k].name = x
        BY <1>1 DEF Names
    <2>2. yielded[k] \in Range(yielded)
        BY DEF Range
    <2>3. QED
        BY <2>1, <2>2, <1>6
<1>8. /\ Len(E) \in Nat /\ Len(P) \in Nat
      /\ DOMAIN E = 1..Len(E) /\ DOMAIN P = 1..Len(P)
    BY LenProperties DEF ScanInv, TypeOK
<1>9. CASE c + 1 <= Len(E)
    <2>1. q \in DOMAIN E /\ c + 1 \in DOMAIN E /\ q # c + 1
        BY <1>2, <1>4, <1>8, <1>9
    <2>2. E[q].name = E[c + 1].name
        BY <1>2, <1>4, <1>7, <1>9
    <2>3. QED
        BY <1>1, <2>1, <2>2 DEF ScanInv, DictInv
<1>10. CASE c + 1 > Len(E)
    <2> DEFINE l == c + 1 - Len(E)
    <2>0. l \in DOMAIN P /\ C[c + 1] = P[l]
        <3>1. l \in 1..Len(P)
            BY <1>2, <1>4, <1>8, <1>10
        <3>2. C[c + 1] = P[l]
            BY <1>2, <1>4, <1>10
        <3>3. QED
            BY <1>8, <3>1, <3>2
    <2>1. l \in DOMAIN P /\ P[l].name = x
        BY <2>0, <1>4
    <2>2. CASE q <= Len(E)
        <3>1. E[q] \in Range(E) /\ E[q].name = x
            BY <1>2, <1>4, <1>7, <1>8, <2>2 DEF Range
        <3>2. Range(E) = BuildDict(Len(build))
            BY <1>1 DEF ScanInv, DictInv, StreamInv
        <3>3. \A r \in BuildDict(Len(build)) : r.name \in Names(build)
            BY LenProperties DEF BuildDict, Names, ScanInv, TypeOK
        <3>4. x \in Names(build) /\ x \in Names(P)
            BY <2>1, <3>1, <3>2, <3>3 DEF Names
        <3>5. QED
            BY <1>1, <1>5, <3>4 DEF Clash
    <2>3. CASE q > Len(E)
        <3>1. q - Len(E) \in DOMAIN P /\ q - Len(E) < l /\ P[q - Len(E)].name = x
            BY <1>2, <1>4, <1>7, <1>8, <2>3
        <3>2. QED
            BY <1>1, <1>5, <2>1, <3>1 DEF Clash
    <2>4. QED
        BY <2>2, <2>3
<1>11. QED
    BY <1>2, <1>8, <1>9, <1>10

\* The scan that exhausts its stream has yielded the expected entries.
LEMMA DoneExpected ==
    ASSUME ScanInv, phase = "scan", stream = <<>>
    PROVE  Range(yielded) = Expected
<1> DEFINE E == entrypoints
           P == package
           C == Chained
<1>1. /\ C \in Seq(EntryPoint)
      /\ Len(C) = Len(E) + Len(P)
      /\ \A i \in 1..Len(C) : C[i] = IF i <= Len(E) THEN E[i] ELSE P[i - Len(E)]
      /\ Consumed = Len(C)
    BY ChainFacts, EmptySeq DEF ScanInv
<1>2. Range(yielded) = {r \in {C[q] : q \in 1..Len(C)} : r.name \notin blocklist}
    BY <1>1 DEF ScanInv, StreamInv
<1>3. /\ Len(E) \in Nat /\ Len(P) \in Nat
      /\ DOMAIN E = 1..Len(E) /\ DOMAIN P = 1..Len(P)
      /\ DOMAIN build = 1..Len(build)
    BY LenProperties DEF ScanInv, TypeOK
<1>4. {C[q] : q \in 1..Len(C)} = Range(E) \cup Range(P)
    <2>1. ASSUME NEW q \in 1..Len(C) PROVE C[q] \in Range(E) \cup Range(P)
        <3>1. CASE q <= Len(E)
            <4>1. q \in DOMAIN E /\ C[q] = E[q]
                BY <1>1, <1>3, <3>1
            <4>2. QED
                BY <4>1 DEF Range
        <3>2. CASE q > Len(E)
            <4>1. q - Len(E) \in DOMAIN P /\ C[q] = P[q - Len(E)]
                BY <1>1, <1>3, <3>2
            <4>2. QED
                BY <4>1 DEF Range
        <3>3. QED
            BY <1>3, <3>1, <3>2
    <2>2. \A k \in 1..Len(E) : E[k] = C[k]
        BY <1>1, <1>3
    <2>3. \A k \in 1..Len(P) : P[k] = C[Len(E) + k]
        BY <1>1, <1>3
    <2>4. Range(E) \cup Range(P) \subseteq {C[q] : q \in 1..Len(C)}
        <3>1. ASSUME NEW k \in 1..Len(E) PROVE E[k] \in {C[q] : q \in 1..Len(C)}
            BY <1>1, <1>3, <2>2
        <3>2. ASSUME NEW k \in 1..Len(P) PROVE P[k] \in {C[q] : q \in 1..Len(C)}
            <4>1. Len(E) + k \in 1..Len(C)
                BY <1>1, <1>3
            <4>2. QED
                BY <4>1, <2>3
        <3>3. QED
            BY <1>3, <3>1, <3>2 DEF Range
    <2>5. QED
        BY <2>1, <2>4
<1>5. \A x : LastIn(Len(build), x) = LastBuildValue(x)
    BY <1>3 DEF LastIn, LastBuildValue
<1>6. Range(E) = {[name |-> x, value |-> LastBuildValue(x)] : x \in Names(build)}
    <2>1. Range(E) = BuildDict(Len(build))
        BY DEF ScanInv, DictInv, StreamInv
    <2>2. QED
        BY <1>3, <1>5, <2>1 DEF BuildDict, Names
<1>7. QED
    BY <1>2, <1>4, <1>6 DEF Expected



\* Steps that leave the BUILD entries and the dict alone keep the dict
\* invariant.
LEMMA DictFrozen ==
    ASSUME DictInv, phase \in {"build", "scan", "done", "RuntimeError"},
           build' = build, b' = b, entrypoints' = entrypoints
    PROVE  DictInv'
<1>1. BuildDict(b)' = BuildDict(b)
    BY DEF BuildDict, LastIn
<1>2. Range(entrypoints') = Range(entrypoints)
    BY DEF Range
<1>3. QED
    BY <1>1, <1>2 DEF DictInv

\* Steps that consume nothing keep the stream invariant.
LEMMA StreamFrozen ==
    ASSUME StreamInv, phase \in {"scan", "done", "RuntimeError"},
           UNCHANGED <<build, b, entrypoints, package, stream, yielded, blocklist>>
    PROVE  StreamInv'
BY DEF StreamInv, Chained, Consumed

\* Consuming the head of the stream: it is the next entry of the chained
\* sources, and the tail is the rest.
LEMMA ConsumeFacts ==
    ASSUME ScanInv, phase = "scan", stream # <<>>
    PROVE  /\ Consumed + 1 \in 1..Len(Chained)
           /\ Head(stream) = Chained[Consumed + 1]
           /\ Tail(stream) \in Seq(EntryPoint)
           /\ Len(Tail(stream)) = Len(stream) - 1
           /\ Len(Tail(stream)) <= Len(Chained)
           /\ Len(Chained) - Len(Tail(stream)) = Consumed + 1
           /\ \A i \in 1..Len(Tail(stream)) :
                 Tail(stream)[i] = Chained[Consumed + 1 + i]
<1>1. /\ Chained \in Seq(EntryPoint)
      /\ Consumed \in 0..Len(Chained)
      /\ Len(stream) \in Nat
      /\ Len(stream) = Len(Chained) - Consumed
      /\ \A i \in 1..Len(stream) : stream[i] = Chained[Consumed + i]
    BY ChainFacts DEF ScanInv
<1>2. /\ Tail(stream) \in Seq(EntryPoint)
      /\ Len(Tail(stream)) = Len(stream) - 1
      /\ \A i \in 1..Len(Tail(stream)) : Tail(stream)[i] = stream[i + 1]
      /\ Len(stream) >= 1
      /\ Head(stream) = stream[1]
    BY HeadTailProperties, EmptySeq, LenProperties DEF ScanInv, TypeOK
<1>3. Consumed + 1 \in 1..Len(Chained) /\ Head(stream) = Chained[Consumed + 1]
    BY <1>1, <1>2
<1>4. /\ Len(Tail(stream)) <= Len(Chained)
      /\ Len(Chained) - Len(Tail(stream)) = Consumed + 1
    BY <1>1, <1>2
<1>5. ASSUME NEW i \in 1..Len(Tail(stream))
      PROVE  Tail(stream)[i] = Chained[Consumed + 1 + i]
    <2>1. i + 1 \in 1..Len(stream) /\ Consumed + (i + 1) = Consumed + 1 + i
        BY <1>1, <1>2
    <2>2. QED
        BY <1>1, <1>2, <2>1
<1>6. QED
    BY <1>2, <1>3, <1>4, <1>5

LEMMA ScanInit == Init => ScanInv
BY TypeInit DEF Init, ScanInv, PreScan, NoDict, DictInv, StreamInv, ScanOutcome

LEMMA FoundStep ==
    ASSUME ScanInv, TypeOK', FindBuildRootFound
    PROVE  ScanInv'
<1>1. /\ phase = "find" /\ phase' = "build"
      /\ b = 0 /\ entrypoints = <<>> /\ stream = <<>> /\ yielded = <<>>
      /\ UNCHANGED <<build, b, entrypoints, stream, existing_names, yielded>>
    BY DEF ScanInv, PreScan, NoDict, FindBuildRootFound
<1>2. DictInv'
    <2>1. Range(entrypoints') = {}
        BY <1>1 DEF Range
    <2>2. BuildDict(b)' = {}
        BY <1>1 DEF BuildDict
    <2>3. QED
        BY <1>1, <2>1, <2>2 DEF DictInv
<1>3. QED
    BY <1>1, <1>2 DEF ScanInv, PreScan, NoDict, StreamInv, ScanOutcome

LEMMA AscendStep ==
    ASSUME ScanInv, TypeOK', FindBuildRootAscend
    PROVE  ScanInv'
BY DEF ScanInv, PreScan, NoDict, DictInv, StreamInv, ScanOutcome,
       FindBuildRootAscend

LEMMA ReadStep ==
    ASSUME ScanInv, TypeOK', ReadBuildEntry
    PROVE  ScanInv'
<1> DEFINE e == build[b + 1]
<1>1. /\ phase = "build" /\ phase' = "build"
      /\ b \in Nat /\ b < Len(build) /\ b' = b + 1
      /\ entrypoints' = dict_set(entrypoints, e)
      /\ UNCHANGED <<build, stream, existing_names, yielded>>
    BY DEF ReadBuildEntry, ScanInv, TypeOK
<1>2. e \in EntryPoint /\ build \in Seq(EntryPoint) /\ entrypoints \in Seq(EntryPoint)
    BY <1>1, ElementOfSeq DEF ScanInv, TypeOK
<1>3. Range(entrypoints) = BuildDict(b)
    BY <1>1 DEF ScanInv, DictInv
<1>4. Range(entrypoints') = BuildDict(b + 1)
    BY <1>1, <1>2, <1>3, DictSetRange, BuildDictStep
<1>5. BuildDict(b)' = BuildDict(b + 1)
    BY <1>1 DEF BuildDict, LastIn
<1>6. \A k, l \in DOMAIN entrypoints' :
         k # l => entrypoints'[k].name # entrypoints'[l].name
    <2>1. \A k, l \in DOMAIN entrypoints :
             k # l => entrypoints[k].name # entrypoints[l].name
        BY <1>1 DEF ScanInv, DictInv
    <2>2. QED
        BY <1>1, <1>2, <2>1, DictSetDistinct
<1>7. QED
    BY <1>1, <1>4, <1>5, <1>6 DEF ScanInv, PreScan, NoDict, DictInv, StreamInv,
                                  ScanOutcome

LEMMA ChainStep ==
    ASSUME ScanInv, TypeOK', ChainSources
    PROVE  ScanInv'
<1>1. /\ phase = "build" /\ phase' = "scan"
      /\ b = Len(build) /\ stream' = Chained /\ yielded = <<>>
      /\ UNCHANGED <<build, b, entrypoints, package, blocklist, existing_names, yielded>>
    BY DEF ChainSources, ScanInv, PreScan, Chained
<1>2. Chained' = Chained /\ Chained \in Seq(EntryPoint)
    BY <1>1, ConcatProperties DEF Chained, ScanInv, TypeOK
<1>3. Len(Chained) \in Nat /\ Consumed' = 0
    BY <1>1, <1>2, LenProperties DEF Consumed
<1>4. StreamInv'
    <2>1. Range(yielded') = {}
        BY <1>1 DEF Range
    <2>2. {q \in 1..Consumed' : Chained'[q].name \notin blocklist'} = {}
        BY <1>3
    <2>3. QED
        BY <1>1, <1>2, <1>3, <2>1, <2>2 DEF StreamInv
<1>5. DictInv'
    BY <1>1, DictFrozen DEF ScanInv
<1>6. QED
    BY <1>1, <1>4, <1>5 DEF ScanInv, PreScan, NoDict, ScanOutcome



LEMMA BlockedStep ==
    ASSUME ScanInv, TypeOK', ScanBlocked
    PROVE  ScanInv'
<1>1. /\ phase = "scan" /\ phase' = "scan" /\ stream # <<>>
      /\ Head(stream).name \in blocklist /\ stream' = Tail(stream)
      /\ UNCHANGED <<build, b, entrypoints, package, blocklist, existing_names, yielded>>
    BY DEF ScanBlocked
<1>2. Chained' = Chained /\ Consumed' = Consumed + 1
    BY <1>1, ConsumeFacts DEF Chained, Consumed
<1>3. {q \in 1..Consumed + 1 : Chained[q].name \notin blocklist}
        = {q \in 1..Consumed : Chained[q].name \notin blocklist}
    <2>1. Consumed \in Nat /\ Chained[Consumed + 1].name \in blocklist
        BY <1>1, ConsumeFacts, ChainFacts DEF ScanInv
    <2>2. QED
        BY <2>1
<1>4. StreamInv'
    <2>1. Range(yielded') = Range(yielded)
        BY <1>1 DEF Range
    <2>2. Range(yielded) = {Chained[q] : q \in {q \in 1..Consumed :
                                              Chained[q].name \notin blocklist}}
        BY <1>1 DEF ScanInv, StreamInv
    <2>3. Range(yielded') = {Chained[q] : q \in {q \in 1..Consumed + 1 :
                                               Chained[q].name \notin blocklist}}
        BY <1>3, <2>1, <2>2
    <2>4. b' = Len(build')
        BY <1>1 DEF ScanInv, StreamInv
    <2>5. /\ Len(stream') <= Len(Chained')
          /\ \A i \in 1..Len(stream') : stream'[i] = Chained'[Consumed' + i]
        BY <1>1, <1>2, ConsumeFacts
    <2>6. QED
        BY <1>1, <1>2, <2>3, <2>4, <2>5 DEF StreamInv
<1>5. DictInv'
    BY <1>1, DictFrozen DEF ScanInv
<1>6. QED
    BY <1>1, <1>4, <1>5 DEF ScanInv, PreScan, NoDict, ScanOutcome

LEMMA YieldStep ==
    ASSUME ScanInv, TypeOK', ScanYield
    PROVE  ScanInv'
<1> DEFINE h == Head(stream)
<1>1. /\ phase = "scan" /\ phase' = "scan" /\ stream # <<>>
      /\ h.name \notin blocklist /\ stream' = Tail(stream)
      /\ yielded' = Append(yielded, h) /\ existing_names' = Append(existing_names, h)
      /\ UNCHANGED <<build, b, entrypoints, package, blocklist>>
    BY DEF ScanYield
<1>2. Chained' = Chained /\ Consumed' = Consumed + 1
    BY <1>1, ConsumeFacts DEF Chained, Consumed
<1>3. {q \in 1..Consumed + 1 : Chained[q].name \notin blocklist}
        = {q \in 1..Consumed : Chained[q].name \notin blocklist} \cup {Consumed + 1}
    <2>1. Consumed \in Nat /\ Chained[Consumed + 1] = h
        BY <1>1, ConsumeFacts, ChainFacts DEF ScanInv
    <2>2. QED
        BY <1>1, <2>1
<1>4. Range(yielded') = Range(yielded) \cup {h}
    <2>1. /\ h \in EntryPoint /\ yielded \in Seq(EntryPoint)
        BY <1>1, HeadTailProperties DEF ScanInv, TypeOK
    <2>2. /\ Len(yielded') = Len(yielded) + 1
          /\ \A i \in 1..Len(yielded) : yielded'[i] = yielded[i]
          /\ yielded'[Len(yielded) + 1] = h
          /\ DOMAIN yielded' = 1..Len(yielded) + 1
          /\ DOMAIN yielded = 1..Len(yielded)
          /\ Len(yielded) \in Nat
        BY <1>1, <2>1, AppendProperties, LenProperties
    <2>3. QED
        BY <2>2 DEF Range
<1>5. StreamInv'
    <2>1. Chained[Consumed + 1] = h
        BY <1>1, ConsumeFacts
    <2>2. Range(yielded) = {Chained[q] : q \in {q \in 1..Consumed :
                                              Chained[q].name \notin blocklist}}
        BY <1>1 DEF ScanInv, StreamInv
    <2>3. Range(yielded') = {Chained[q] : q \in {q \in 1..Consumed + 1 :
                                               Chained[q].name \notin blocklist}}
        BY <1>3, <1>4, <2>1, <2>2
    <2>4. QED
        BY <1>1, <1>2, <2>3, ConsumeFacts DEF ScanInv, StreamInv
<1>6. DictInv'
    BY <1>1, DictFrozen DEF ScanInv
<1>7. existing_names' = yielded'
    BY <1>1 DEF ScanInv
<1>8. QED
    BY <1>1, <1>5, <1>6, <1>7 DEF ScanInv, PreScan, NoDict, ScanOutcome

LEMMA DuplicateStep ==
    ASSUME ScanInv, TypeOK', ScanDuplicate
    PROVE  ScanInv'
<1>1. /\ phase = "scan" /\ phase' = "RuntimeError"
      /\ UNCHANGED <<build, b, entrypoints, package, blocklist, stream,
                     existing_names, yielded>>
    BY DEF ScanDuplicate
<1>2. Clash'
    <2>1. Clash
        BY DuplicateClash
    <2>2. QED
        BY <1>1, <2>1 DEF Clash, Names
<1>3. StreamInv'
    BY <1>1, StreamFrozen DEF ScanInv
<1>4. DictInv'
    BY <1>1, DictFrozen DEF ScanInv
<1>5. QED
    BY <1>1, <1>2, <1>3, <1>4 DEF ScanInv, PreScan, NoDict, ScanOutcome

LEMMA DoneStep ==
    ASSUME ScanInv, TypeOK', ScanDone
    PROVE  ScanInv'
<1>1. /\ phase = "scan" /\ phase' = "done" /\ stream = <<>>
      /\ UNCHANGED <<build, b, entrypoints, package, blocklist, stream,
                     existing_names, yielded>>
    BY DEF ScanDone
<1>2. Range(yielded') = Expected'
    <2>1. Range(yielded) = Expected
        BY <1>1, DoneExpected
    <2>2. Expected' = Expected
        BY <1>1 DEF Expected, LastBuildValue, Names, Range
    <2>3. Range(yielded') = Range(yielded)
        BY <1>1 DEF Range
    <2>4. QED
        BY <2>1, <2>2, <2>3
<1>3. StreamInv'
    BY <1>1, StreamFrozen DEF ScanInv
<1>4. DictInv'
    BY <1>1, DictFrozen DEF ScanInv
<1>5. QED
    BY <1>1, <1>2, <1>3, <1>4 DEF ScanInv, PreScan, NoDict, ScanOutcome

LEMMA ScanStep == ScanInv /\ [Next]_vars => ScanInv'
<1> SUFFICES ASSUME ScanInv, [Next]_vars PROVE ScanInv'
    OBVIOUS
<1>1. TypeOK'
    BY TypeStep DEF ScanInv
<1>2. CASE Stopped \/ UNCHANGED vars
    <2>1. UNCHANGED vars
        BY <1>2 DEF Stopped
    <2>2. Range(entrypoints') = Range(entrypoints) /\ Range(yielded') = Range(yielded)
        BY <2>1 DEF vars, Range
    <2>3. BuildDict(b)' = BuildDict(b) /\ Chained' = Chained /\ Consumed' = Consumed
        BY <2>1 DEF vars, BuildDict, LastIn, Chained, Consumed
    <2>4. Expected' = Expected /\ Clash' = Clash
        BY <2>1 DEF vars, Expected, LastBuildValue, Names, Range, Clash
    <2>5. QED
        BY <1>1, <2>1, <2>2, <2>3, <2>4
        DEF vars, ScanInv, PreScan, NoDict, DictInv, StreamInv, ScanOutcome
<1>3. QED
    BY <1>1, <1>2, FoundStep, AscendStep, ReadStep, ChainStep, BlockedStep,
       YieldStep, DuplicateStep, DoneStep DEF Next

\* Whatever the BUILD files, the package metadata and the blocklist, a scan
\* that returns has yielded exactly the last BUILD value of every BUILD
\* name and the package entries, minus the blocklisted names; and a scan
\* that raises the duplicate-name error does so only when a name outside
\* the blocklist is declared in both sources or twice in the package
\* metadata: the property the run MC_PluginScan checks, for every set of
\* names and values and every bound.
THEOREM ScanCorrect == Spec => []ScanOutcome
<1>1. Init => ScanInv
    BY ScanInit
<1>2. ScanInv /\ [Next]_vars => ScanInv'
    BY ScanStep
<1>3. ScanInv => ScanOutcome
    BY DEF ScanInv
<1>4. QED
    BY <1>1, <1>2, <1>3, PTL DEF Spec


=============================================================================
