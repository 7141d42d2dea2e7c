------------------------- MODULE SessionStatusProofs -------------------------
(***************************************************************************)
(* Proofs about SessionStatus for every list of kernel statuses: the loop  *)
(* of aggregate_kernel_status computes what its docstring promises.        *)
(***************************************************************************)
EXTENDS SessionStatus, TLAPS

\* The argument is a list: its domain is 1..Len.
LEMMA InputsAreLists ==
    ASSUME NEW ks \in Inputs
    PROVE  ks \in Seq(KernelStatus) /\ DOMAIN ks = 1..Len(ks)
<1>1. PICK n \in 0..MaxKernels : ks \in [1..n -> KernelStatus]
    BY DEF Inputs
<1>2. QED
    BY <1>1, MaxKernelsAssumption

\* min(candidates, key=lambda s: s.value) is defined: a non-empty set of
\* statuses that are not finished has one of least value.
LEMMA LowestExists ==
    ASSUME NEW S \in SUBSET (KernelStatus \ Finished), S # {}
    PROVE  /\ LowestValued(S) \in S
           /\ \A t \in S : KernelStatusValue[LowestValued(S)] <= KernelStatusValue[t]
<1>1. \E s \in S : \A t \in S : KernelStatusValue[s] <= KernelStatusValue[t]
    <2>1. CASE "PENDING" \in S
        BY <2>1 DEF KernelStatusValue, SessionStatusValue, KernelStatus,
                    SessionStatus, Finished
    <2>2. CASE "PENDING" \notin S /\ "SCHEDULED" \in S
        BY <2>2 DEF KernelStatusValue, SessionStatusValue, KernelStatus,
                    SessionStatus, Finished
    <2>3. CASE "PENDING" \notin S /\ "SCHEDULED" \notin S /\ "PREPARING" \in S
        BY <2>3 DEF KernelStatusValue, SessionStatusValue, KernelStatus,
                    SessionStatus, Finished
    <2>4. CASE "PENDING" \notin S /\ "SCHEDULED" \notin S /\ "PREPARING" \notin S /\
               "BUILDING" \in S
        BY <2>4 DEF KernelStatusValue, SessionStatusValue, KernelStatus,
                    SessionStatus, Finished
    <2>5. CASE "PENDING" \notin S /\ "SCHEDULED" \notin S /\ "PREPARING" \notin S /\
               "BUILDING" \notin S /\ "PULLING" \in S
        BY <2>5 DEF KernelStatusValue, SessionStatusValue, KernelStatus,
                    SessionStatus, Finished
    <2>6. CASE "PENDING" \notin S /\ "SCHEDULED" \notin S /\ "PREPARING" \notin S /\
               "BUILDING" \notin S /\ "PULLING" \notin S /\ "RUNNING" \in S
        BY <2>6 DEF KernelStatusValue, SessionStatusValue, KernelStatus,
                    SessionStatus, Finished
    <2>7. CASE "PENDING" \notin S /\ "SCHEDULED" \notin S /\ "PREPARING" \notin S /\
               "BUILDING" \notin S /\ "PULLING" \notin S /\ "RUNNING" \notin S /\
               "RESTARTING" \in S
        BY <2>7 DEF KernelStatusValue, SessionStatusValue, KernelStatus,
                    SessionStatus, Finished
    <2>8. CASE "PENDING" \notin S /\ "SCHEDULED" \notin S /\ "PREPARING" \notin S /\
               "BUILDING" \notin S /\ "PULLING" \notin S /\ "RUNNING" \notin S /\
               "RESTARTING" \notin S /\ "RESIZING" \in S
        BY <2>8 DEF KernelStatusValue, SessionStatusValue, KernelStatus,
                    SessionStatus, Finished
    <2>9. CASE "PENDING" \notin S /\ "SCHEDULED" \notin S /\ "PREPARING" \notin S /\
               "BUILDING" \notin S /\ "PULLING" \notin S /\ "RUNNING" \notin S /\
               "RESTARTING" \notin S /\ "RESIZING" \notin S /\ "SUSPENDED" \in S
        BY <2>9 DEF KernelStatusValue, SessionStatusValue, KernelStatus,
                    SessionStatus, Finished
    <2>10. S \subseteq {"PENDING", "SCHEDULED", "PREPARING", "BUILDING", "PULLING",
                   "RUNNING", "RESTARTING", "RESIZING", "SUSPENDED"}
        BY DEF KernelStatus, KernelStatusValue, SessionStatusValue, Finished
    <2>11. \/ "PENDING" \in S
           \/ "SCHEDULED" \in S
           \/ "PREPARING" \in S
           \/ "BUILDING" \in S
           \/ "PULLING" \in S
           \/ "RUNNING" \in S
           \/ "RESTARTING" \in S
           \/ "RESIZING" \in S
           \/ "SUSPENDED" \in S
        BY <2>10
    <2>12. QED
        BY <2>11, <2>1, <2>2, <2>3, <2>4, <2>5, <2>6, <2>7, <2>8, <2>9
<1>2. QED
    BY <1>1 DEF LowestValued

-----------------------------------------------------------------------------
(* The loop computes the reference.                                        *)

LEMMA AggInit == Init => AggInv
<1> SUFFICES ASSUME Init PROVE AggInv
    OBVIOUS
<1>1. kernel_statuses \in Seq(KernelStatus)
    BY InputsAreLists DEF Init
<1>2. TypeOK
    BY <1>1 DEF Init, TypeOK, Finished
<1>3. Seen = {}
    BY DEF Init, Seen
<1>4. QED
    BY <1>2, <1>3 DEF Init, AggInv, FinishedRank, AggregateMatchesReference

\* One iteration of the for-loop adds the next status to those seen.
LEMMA SeenNext ==
    ASSUME TypeOK, i < Len(kernel_statuses), i' = i + 1,
           UNCHANGED kernel_statuses
    PROVE  Seen' = Seen \cup {kernel_statuses[i + 1]}
<1>1. kernel_statuses \in Seq(KernelStatus)
    BY InputsAreLists DEF TypeOK
<1>2. QED
    BY <1>1 DEF Seen, TypeOK

LEMMA AggStep == AggInv /\ [Next]_vars => AggInv'
<1> SUFFICES ASSUME AggInv, [Next]_vars PROVE AggInv'
    OBVIOUS
<1>0. kernel_statuses \in Seq(KernelStatus)
      /\ DOMAIN kernel_statuses = 1..Len(kernel_statuses)
    BY InputsAreLists DEF AggInv, TypeOK
<1>1. CASE LoopFinished
    <2> DEFINE st == kernel_statuses[i + 1]
    <2> USE DEF st
    <2>1. /\ i < Len(kernel_statuses) /\ i' = i + 1 /\ st \in Finished
          /\ priority_finished_status' = finished_rank(priority_finished_status, st)
          /\ UNCHANGED <<kernel_statuses, candidates, is_finished, result>>
          /\ result = None
        BY <1>1 DEF LoopFinished
    <2>2. Seen' = Seen \cup {st}
        BY <2>1, SeenNext DEF AggInv
    <2>3. priority_finished_status' = FinishedRank(Seen')
        BY <2>1, <2>2
        DEF AggInv, finished_rank, cancelled_rank, FinishedRank, Finished
    <2>4. TypeOK'
        BY <1>0, <2>1, <2>3 DEF AggInv, TypeOK, FinishedRank, Finished
    <2>5. QED
        BY <2>1, <2>2, <2>3, <2>4 DEF AggInv, AggregateMatchesReference
<1>2. CASE LoopCandidate
    <2> DEFINE st == kernel_statuses[i + 1]
    <2> USE DEF st
    <2>1. /\ i < Len(kernel_statuses) /\ i' = i + 1 /\ st \notin Finished
          /\ candidates' = candidates \cup {st} /\ is_finished' = FALSE
          /\ UNCHANGED <<kernel_statuses, priority_finished_status, result>>
          /\ result = None
        BY <1>2 DEF LoopCandidate
    <2>2. Seen' = Seen \cup {st}
        BY <2>1, SeenNext DEF AggInv
    <2>3. st \in KernelStatus
        BY <1>0, <2>1 DEF AggInv, TypeOK
    <2>4. priority_finished_status' = FinishedRank(Seen')
        BY <2>1, <2>2 DEF AggInv, FinishedRank, Finished
    <2>5. TypeOK'
        <3>1. candidates' \subseteq KernelStatus
            BY <2>1, <2>3 DEF AggInv, TypeOK
        <3>2. i' \in 0..Len(kernel_statuses')
            BY <1>0, <2>1 DEF AggInv, TypeOK
        <3>3. QED
            BY <2>1, <3>1, <3>2 DEF AggInv, TypeOK
    <2>6. QED
        BY <2>1, <2>2, <2>4, <2>5 DEF AggInv, AggregateMatchesReference
<1>3. CASE Return
    <2>1. /\ i = Len(kernel_statuses) /\ result = None
          /\ result' = IF is_finished THEN priority_finished_status
                       ELSE KERNEL_SESSION_STATUS_MAPPING[LowestValued(candidates)]
          /\ UNCHANGED <<kernel_statuses, i, candidates, priority_finished_status,
                         is_finished>>
        BY <1>3 DEF Return
    <2>2. Seen = Range(kernel_statuses) /\ Seen' = Seen
        BY <1>0, <2>1 DEF Seen, Range
    <2>3. CASE is_finished
        <3>1. Range(kernel_statuses) \ Finished = {}
            BY <2>2, <2>3 DEF AggInv
        <3>2. result' = ReferenceStatus(kernel_statuses)
            BY <2>1, <2>2, <2>3, <3>1 DEF AggInv, ReferenceStatus, FinishedRank
        <3>3. result' \in SessionStatus
            BY <2>1, <2>3 DEF AggInv, TypeOK, Finished, SessionStatus,
                              SessionStatusValue
        <3>4. QED
            BY <2>1, <2>2, <3>2, <3>3 DEF AggInv, TypeOK, AggregateMatchesReference
    <2>4. CASE ~is_finished
        <3>1. candidates \in SUBSET (KernelStatus \ Finished) /\ candidates # {}
            BY <2>4 DEF AggInv, TypeOK
        <3>2. LowestValued(candidates) \in KernelStatus
            BY <3>1, LowestExists
        <3>3. result' = LowestValued(candidates)
            BY <2>1, <2>4, <3>2 DEF KERNEL_SESSION_STATUS_MAPPING
        <3>4. candidates = Range(kernel_statuses) \ Finished
            BY <2>2 DEF AggInv
        <3>5. result' = ReferenceStatus(kernel_statuses)
            BY <3>1, <3>3, <3>4
            DEF ReferenceStatus, LowestValued, KernelStatusValue
        <3>6. result' \in SessionStatus
            BY <3>2, <3>3 DEF KernelStatus, KernelStatusValue, SessionStatus
        <3>7. QED
            BY <2>1, <2>2, <3>5, <3>6 DEF AggInv, TypeOK, AggregateMatchesReference
    <2>5. QED
        BY <2>3, <2>4
<1>4. CASE Returned \/ UNCHANGED vars
    BY <1>4 DEF Returned, vars, AggInv, TypeOK, Seen, AggregateMatchesReference
<1>5. QED
    BY <1>1, <1>2, <1>3, <1>4 DEF Next

\* aggregate_kernel_status returns the least advanced status of the kernels
\* that are not finished, and otherwise the finished status of highest
\* priority: the property the run MC_SessionStatus checks on every list of
\* up to three statuses, here for lists of every length.
THEOREM AggregateCorrect == Spec => []AggregateMatchesReference
<1>1. Init => AggInv
    BY AggInit
<1>2. AggInv /\ [Next]_vars => AggInv'
    BY AggStep
<1>3. AggInv => AggregateMatchesReference
    BY DEF AggInv
<1>4. QED
    BY <1>1, <1>2, <1>3, PTL DEF Spec

=============================================================================
