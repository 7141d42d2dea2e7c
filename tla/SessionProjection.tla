-------------------------- MODULE SessionProjection --------------------------
(***************************************************************************)
(* ComputeSession.from_row of ai.backend.manager.models.session: the query *)
(* projection of a session row, and SessionRow.main_kernel, which it       *)
(* resolves.  The generator that collects the kernels of DEFAULT_ROLE is   *)
(* modelled one kernel per step.  parse_row evaluates row.main_kernel four *)
(* times with nothing in between that changes row.kernels, so one          *)
(* resolution stands for all four: the first raises or all return the same *)
(* kernel.  Of the copied fields the model keeps those whose value the     *)
(* function decides: the main kernel's, status_history and the            *)
(* placeholders that are always None; the others are plain copies.        *)
(***************************************************************************)
EXTENDS Naturals, Sequences, FiniteSets

CONSTANTS
    KernelId,      \* kernel ids
    Role,          \* cluster roles
    DEFAULT_ROLE,  \* the role of the main kernel
    History,       \* a non-empty status_history
    MaxKernels,    \* most kernels of a session enumerated
    None           \* Python's None

ASSUME ProjectionAssumption ==
    DEFAULT_ROLE \in Role /\ MaxKernels \in Nat /\ None \notin History

\* A KernelRow, as far as the projection reads it.
Kernel == [id : KernelId, cluster_role : Role]

\* The rows a query can load: the kernels of a session are distinct rows.
Rows ==
    [kernels : {ks \in UNION {[1..n -> Kernel] : n \in 0..MaxKernels} :
                    \A a, b \in DOMAIN ks : a # b => ks[a].id # ks[b].id},
     status_history : History \cup {None}]

EmptyDict == "{}"

\* A raised exception.
Raise(e) == [exception |-> e]

Errors == {Raise("TooManyKernelsFound"), Raise("MainKernelNotFound")}

VARIABLES
    row,     \* the argument of from_row: a SessionRow or None
    j,       \* kernels of row.kernels the generator has consumed
    kerns,   \* the kernels of DEFAULT_ROLE found so far
    done,    \* from_row has returned or raised
    result   \* the value returned, or the exception raised

vars == <<row, j, kerns, done, result>>

TypeOK ==
    /\ row \in Rows \cup {None}
    /\ j \in 0..MaxKernels
    /\ kerns \in Seq(Kernel)
    /\ done \in BOOLEAN
    /\ result \in {None} \cup Errors \cup
                  [id : KernelId, main : Kernel, status_history : History \cup {EmptyDict},
                   cluster_template : {None}, created_user_email : {None},
                   created_user_id : {None}]

Init ==
    /\ row \in Rows \cup {None}
    /\ j = 0
    /\ kerns = <<>>
    /\ done = FALSE
    /\ result = None

\* from_row: an absent row gives an absent result.
FromRowNone ==
    /\ ~done
    /\ row = None
    /\ done' = TRUE
    /\ UNCHANGED <<row, j, kerns, result>>

\* The generator's filter: kern.cluster_role == DEFAULT_ROLE.
IsMain(k) == k.cluster_role = DEFAULT_ROLE

\* The generator yields the next kernel: it has the default role.
KeepKernel ==
    /\ ~done
    /\ row # None
    /\ j < Len(row.kernels)
    /\ IsMain(row.kernels[j + 1])
    /\ kerns' = Append(kerns, row.kernels[j + 1])
    /\ j' = j + 1
    /\ UNCHANGED <<row, done, result>>

\* The generator skips the next kernel.
SkipKernel ==
    /\ ~done
    /\ row # None
    /\ j < Len(row.kernels)
    /\ ~IsMain(row.kernels[j + 1])
    /\ j' = j + 1
    /\ UNCHANGED <<row, kerns, done, result>>

\* Mutant: the check for more than one main kernel is missing.
MainKernel_no_limit(ks) ==
    IF Len(ks) = 0 THEN Raise("MainKernelNotFound") ELSE ks[1]

\* main_kernel after the tuple is built: raise, or return kerns[0].
MainKernel(ks) ==
    IF Len(ks) > 1 THEN Raise("TooManyKernelsFound")
    ELSE IF Len(ks) = 0 THEN Raise("MainKernelNotFound")
    ELSE ks[1]

\* The dict parse_row returns, given the main kernel mk.
Projection(r, mk) ==
    [id |-> mk.id,
     main |-> mk,   \* architecture, registry, service_ports
     status_history |-> IF r.status_history = None THEN EmptyDict
                        ELSE r.status_history,
     cluster_template |-> None,
     created_user_email |-> None,
     created_user_id |-> None]

\* parse_row, the tuple built: the exception of main_kernel propagates out
\* of from_row, or the projection is returned.
Resolve ==
    LET mk == MainKernel(kerns) IN
    /\ ~done
    /\ row # None
    /\ j = Len(row.kernels)
    /\ done' = TRUE
    /\ result' = IF mk \in Errors THEN mk ELSE Projection(row, mk)
    /\ UNCHANGED <<row, j, kerns>>

\* from_row has returned or raised.
Returned == done /\ UNCHANGED vars

Next == FromRowNone \/ KeepKernel \/ SkipKernel \/ Resolve \/ Returned

Spec == Init /\ [][Next]_vars

-----------------------------------------------------------------------------
(* What the projection should produce (spec sections 4.7, 4.8 and 8.8),    *)
(* stated without the generator.                                           *)

Expected(r) ==
    IF r = None THEN None
    ELSE LET main == {r.kernels[n] : n \in {n \in DOMAIN r.kernels :
                          r.kernels[n].cluster_role = DEFAULT_ROLE}}
         IN  IF main = {} THEN Raise("MainKernelNotFound")
             ELSE IF Cardinality(main) > 1 THEN Raise("TooManyKernelsFound")
             ELSE Projection(r, CHOOSE mk \in main : TRUE)

\* from_row returns None for an absent row; otherwise it raises
\* MainKernelNotFound when no kernel has the default role and
\* TooManyKernelsFound when several have it, and only then, and returns the
\* projection of the one main kernel otherwise, whatever the order and the
\* number of the session's kernels.
ProjectionMatchesReference ==
    done => result = Expected(row)

-----------------------------------------------------------------------------
(* The inductive invariant, checked by TLC and proved in                   *)
(* SessionProjectionProofs: the generator has collected, without repeats,  *)
(* exactly the kernels of the default role among those it has consumed.    *)

\* The positions among the first j kernels that hold a main kernel.
MainsSoFar == {n \in 1..j : IsMain(row.kernels[n])}

ProjInv ==
    /\ TypeOK
    /\ ~done => result = None
    /\ row = None => j = 0 /\ kerns = <<>>
    /\ row # None =>
          /\ j <= Len(row.kernels)
          /\ {kerns[x] : x \in 1..Len(kerns)} = {row.kernels[n] : n \in MainsSoFar}
          /\ \A a, b \in 1..Len(kerns) : a # b => kerns[a] # kerns[b]
    /\ ProjectionMatchesReference

=============================================================================
