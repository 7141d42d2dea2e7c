---------------------------- MODULE SessionStatus ----------------------------
(***************************************************************************)
(* aggregate_kernel_status of ai.backend.manager.models.session: the       *)
(* status of a session derived from the statuses of its kernels.  The      *)
(* for-loop is modelled step by step, one kernel per step, and its result  *)
(* is compared with a declarative statement of what it should compute.     *)
(***************************************************************************)
EXTENDS Naturals, Sequences

CONSTANTS
    MaxKernels,  \* longest list of kernel statuses enumerated
    None         \* the loop has not returned yet

ASSUME MaxKernelsAssumption == MaxKernels \in Nat

\* SessionStatus and its integer values.
SessionStatusValue ==
    [PENDING |-> 0, SCHEDULED |-> 5, PREPARING |-> 10, BUILDING |-> 20,
     PULLING |-> 21, RUNNING |-> 30, RESTARTING |-> 31, RESIZING |-> 32,
     SUSPENDED |-> 33, TERMINATING |-> 40, TERMINATED |-> 41, ERROR |-> 42,
     CANCELLED |-> 43]
SessionStatus == DOMAIN SessionStatusValue

\* KernelStatus (models/kernel.py): the same members with the same values.
KernelStatusValue == SessionStatusValue
KernelStatus == DOMAIN KernelStatusValue

\* KERNEL_SESSION_STATUS_MAPPING: each kernel status to the same-named one.
KERNEL_SESSION_STATUS_MAPPING == [s \in KernelStatus |-> s]

\* The statuses the loop folds into priority_finished_status.
Finished == {"ERROR", "TERMINATING", "CANCELLED", "TERMINATED"}

VARIABLES
    kernel_statuses,           \* the argument
    i,                         \* kernels consumed by the for-loop
    candidates,
    priority_finished_status,
    is_finished,
    result                     \* the returned SessionStatus, or None

vars == <<kernel_statuses, i, candidates, priority_finished_status,
          is_finished, result>>

Inputs == UNION {[1..k -> KernelStatus] : k \in 0..MaxKernels}

TypeOK ==
    /\ kernel_statuses \in Inputs
    /\ i \in 0..Len(kernel_statuses)
    /\ candidates \subseteq KernelStatus
    /\ priority_finished_status \in Finished
    /\ is_finished \in BOOLEAN
    /\ result \in SessionStatus \cup {None}

Init ==
    /\ kernel_statuses \in Inputs
    /\ i = 0
    /\ candidates = {}
    /\ priority_finished_status = "TERMINATED"
    /\ is_finished = TRUE
    /\ result = None

\* Mutant: the CANCELLED case forgets that TERMINATING outranks it.
cancelled_rank_low(p) == IF p # "ERROR" THEN "CANCELLED" ELSE p

\* The match arm for CANCELLED: upgrade unless ERROR or TERMINATING.
cancelled_rank(p) == IF p \notin {"ERROR", "TERMINATING"} THEN "CANCELLED" ELSE p

\* The new priority_finished_status after a finished kernel status s.
finished_rank(p, s) ==
    CASE s = "ERROR" -> "ERROR"
      [] s = "TERMINATING" -> IF p # "ERROR" THEN "TERMINATING" ELSE p
      [] s = "CANCELLED" -> cancelled_rank(p)
      [] s = "TERMINATED" ->
            IF p \notin {"ERROR", "CANCELLED", "TERMINATING"} THEN "TERMINATED" ELSE p

\* One iteration of the for-loop with a finished kernel status.
LoopFinished ==
    LET s == kernel_statuses[i + 1] IN
    /\ result = None
    /\ i < Len(kernel_statuses)
    /\ s \in Finished
    /\ priority_finished_status' = finished_rank(priority_finished_status, s)
    /\ i' = i + 1
    /\ UNCHANGED <<kernel_statuses, candidates, is_finished, result>>

\* One iteration with any other status: the `case _` arm.
LoopCandidate ==
    LET s == kernel_statuses[i + 1] IN
    /\ result = None
    /\ i < Len(kernel_statuses)
    /\ s \notin Finished
    /\ candidates' = candidates \cup {s}
    /\ is_finished' = FALSE
    /\ i' = i + 1
    /\ UNCHANGED <<kernel_statuses, priority_finished_status, result>>

\* min(candidates, key=lambda s: s.value)
LowestValued(S) == CHOOSE s \in S : \A t \in S : KernelStatusValue[s] <= KernelStatusValue[t]

\* After the loop: the finished status, or the least advanced candidate.
Return ==
    /\ result = None
    /\ i = Len(kernel_statuses)
    /\ result' = IF is_finished THEN priority_finished_status
                 ELSE KERNEL_SESSION_STATUS_MAPPING[LowestValued(candidates)]
    /\ UNCHANGED <<kernel_statuses, i, candidates, priority_finished_status,
                   is_finished>>

\* The call has returned; nothing is left to do.
Returned == result # None /\ UNCHANGED vars

Next == LoopFinished \/ LoopCandidate \/ Return \/ Returned

Spec == Init /\ [][Next]_vars

-----------------------------------------------------------------------------
(* What the function should compute, stated without the loop (the          *)
(* docstring of aggregate_kernel_status and spec section 4.7).             *)

Range(f) == {f[k] : k \in DOMAIN f}

ReferenceStatus(ks) ==
    LET live == Range(ks) \ Finished IN
    IF live # {} THEN
        CHOOSE s \in live : \A t \in live : SessionStatusValue[s] <= SessionStatusValue[t]
    ELSE IF "ERROR" \in Range(ks) THEN "ERROR"
    ELSE IF "TERMINATING" \in Range(ks) THEN "TERMINATING"
    ELSE IF "CANCELLED" \in Range(ks) THEN "CANCELLED"
    ELSE "TERMINATED"

\* aggregate_kernel_status returns the least advanced status of the kernels
\* that are not finished, and when all are finished the highest-priority
\* finished one (ERROR > TERMINATING > CANCELLED > TERMINATED), for every
\* list of kernel statuses and whatever their order.
AggregateMatchesReference ==
    result # None => result = ReferenceStatus(kernel_statuses)

-----------------------------------------------------------------------------
(* The inductive invariant, checked by TLC and proved in                   *)
(* SessionStatusProofs: the loop's variables depend only on the set of     *)
(* statuses consumed so far, whatever their order.                         *)

\* The statuses of the first i kernels.
Seen == {kernel_statuses[k] : k \in 1..i}

\* The finished status of highest priority among the statuses in S.
FinishedRank(S) ==
    IF "ERROR" \in S THEN "ERROR"
    ELSE IF "TERMINATING" \in S THEN "TERMINATING"
    ELSE IF "CANCELLED" \in S THEN "CANCELLED"
    ELSE "TERMINATED"

AggInv ==
    /\ TypeOK
    /\ candidates = Seen \ Finished
    /\ is_finished = (candidates = {})
    /\ priority_finished_status = FinishedRank(Seen)
    /\ AggregateMatchesReference

=============================================================================
