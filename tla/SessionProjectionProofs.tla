----------------------- MODULE SessionProjectionProofs -----------------------
(***************************************************************************)
(* Proofs about SessionProjection for every session row: from_row returns  *)
(* the projection of the one main kernel, or raises the error main_kernel  *)
(* raises, whatever the number and the order of the session's kernels.     *)
(***************************************************************************)
EXTENDS SessionProjection, FiniteSetTheorems, TLAPS

\* A loaded row's kernels are a list of distinct kernel rows.
LEMMA RowKernels ==
    ASSUME NEW r \in Rows
    PROVE  /\ r.kernels \in Seq(Kernel)
           /\ DOMAIN r.kernels = 1..Len(r.kernels)
           /\ Len(r.kernels) <= MaxKernels
           /\ \A a, b \in 1..Len(r.kernels) : a # b => r.kernels[a].id # r.kernels[b].id
<1>1. PICK n \in 0..MaxKernels : r.kernels \in [1..n -> Kernel]
    BY DEF Rows
<1>2. Len(r.kernels) = n
    BY <1>1, ProjectionAssumption
<1>3. QED
    BY <1>1, <1>2, ProjectionAssumption DEF Rows

\* The values of a list with n entries form a finite set.
LEMMA ListValuesFinite ==
    ASSUME NEW s, NEW n \in Nat
    PROVE  IsFiniteSet({s[x] : x \in 1..n})
<1> DEFINE f == [x \in 1..n |-> s[x]]
<1>1. f \in Surjection(1..n, {s[x] : x \in 1..n})
    BY DEF Surjection
<1>2. IsFiniteSet(1..n)
    BY FS_Interval
<1>3. QED
    BY <1>1, <1>2, FS_Surjection

-----------------------------------------------------------------------------

LEMMA ProjInit == Init => ProjInv
<1> SUFFICES ASSUME Init PROVE ProjInv
    OBVIOUS
<1>1. row # None => MainsSoFar = {}
    BY DEF Init, MainsSoFar
<1>2. row # None => 0 <= Len(row.kernels)
    BY RowKernels DEF Init
<1>3. TypeOK
    <2>1. kerns \in Seq(Kernel) /\ j \in 0..MaxKernels
        BY ProjectionAssumption DEF Init
    <2>2. QED
        BY <2>1 DEF Init, TypeOK
<1>4. QED
    BY <1>1, <1>2, <1>3 DEF Init, ProjInv, ProjectionMatchesReference

\* The generator consumes one kernel: the positions seen grow by j + 1.
LEMMA MainsNext ==
    ASSUME j \in Nat, row # None, j' = j + 1, UNCHANGED row
    PROVE  MainsSoFar' = IF IsMain(row.kernels[j + 1]) THEN MainsSoFar \cup {j + 1}
                         ELSE MainsSoFar
BY DEF MainsSoFar

\* KeepKernel and SkipKernel keep the invariant.
LEMMA ConsumeStep ==
    ASSUME ProjInv, KeepKernel \/ SkipKernel
    PROVE  ProjInv'
<1> DEFINE kn == row.kernels[j + 1]
           Seen == {row.kernels[n] : n \in MainsSoFar}
<1>1. /\ row \in Rows /\ row # None /\ ~done /\ j < Len(row.kernels)
      /\ j' = j + 1 /\ UNCHANGED <<row, done, result>>
    BY DEF KeepKernel, SkipKernel, ProjInv, TypeOK
<1>2. /\ row.kernels \in Seq(Kernel)
      /\ Len(row.kernels) <= MaxKernels
      /\ \A a, b \in 1..Len(row.kernels) : a # b => row.kernels[a].id # row.kernels[b].id
    BY <1>1, RowKernels
<1>3. /\ kn \in Kernel
      /\ j' \in 0..MaxKernels
      /\ j' <= Len(row'.kernels)
      /\ \A x \in Seen : x # kn
    <2>1. j \in Nat /\ j + 1 \in 1..Len(row.kernels)
        BY <1>1 DEF ProjInv, TypeOK
    <2>2. kn \in Kernel
        BY <1>2, <2>1
    <2>3. j' \in 0..MaxKernels /\ j' <= Len(row'.kernels)
        BY <1>1, <1>2, <2>1, ProjectionAssumption
    <2>4. ASSUME NEW x \in Seen PROVE x # kn
        <3>1. PICK n \in MainsSoFar : x = row.kernels[n]
            BY <2>4
        <3>2. n \in 1..Len(row.kernels) /\ n # j + 1
            BY <2>1 DEF MainsSoFar
        <3>3. row.kernels[n].id # kn.id
            BY <1>2, <2>1, <3>2
        <3>4. QED
            BY <3>1, <3>3
    <2>5. QED
        BY <2>2, <2>3, <2>4
<1>4. MainsSoFar' = IF IsMain(kn) THEN MainsSoFar \cup {j + 1} ELSE MainsSoFar
    BY <1>1, MainsNext DEF ProjInv, TypeOK
<1>5. CASE KeepKernel
    <2>1. IsMain(kn) /\ kerns' = Append(kerns, kn)
        BY <1>5 DEF KeepKernel
    <2>2. kerns \in Seq(Kernel) /\ kerns' \in Seq(Kernel)
          /\ Len(kerns') = Len(kerns) + 1 /\ kerns'[Len(kerns) + 1] = kn
          /\ \A x \in 1..Len(kerns) : kerns'[x] = kerns[x]
        BY <1>3, <2>1 DEF ProjInv, TypeOK
    <2>3. {kerns'[x] : x \in 1..Len(kerns')} = Seen \cup {kn}
        <3>1. {kerns[x] : x \in 1..Len(kerns)} = Seen
            BY <1>1 DEF ProjInv
        <3>2. Len(kerns) \in Nat
            BY <2>2
        <3>3. 1..Len(kerns') = (1..Len(kerns)) \cup {Len(kerns) + 1}
            BY <2>2, <3>2
        <3>4. ASSUME NEW x \in 1..Len(kerns') PROVE kerns'[x] \in Seen \cup {kn}
            BY <2>2, <3>1, <3>3
        <3>5. ASSUME NEW y \in Seen \cup {kn}
              PROVE  \E x \in 1..Len(kerns') : kerns'[x] = y
            <4>1. CASE y = kn
                BY <2>2, <3>2, <4>1
            <4>2. CASE y \in Seen
                <5>1. PICK x \in 1..Len(kerns) : kerns[x] = y
                    BY <3>1, <4>2
                <5>2. QED
                    BY <2>2, <3>3, <5>1
            <4>3. QED
                BY <4>1, <4>2
        <3>6. QED
            BY <3>4, <3>5
    <2>4. {row'.kernels[n] : n \in MainsSoFar'} = Seen \cup {kn}
        BY <1>1, <1>4, <2>1
    <2>5. \A a, b \in 1..Len(kerns') : a # b => kerns'[a] # kerns'[b]
        <3>1. \A a \in 1..Len(kerns) : kerns[a] \in Seen
            BY <1>1 DEF ProjInv
        <3>2. \A a, b \in 1..Len(kerns) : a # b => kerns[a] # kerns[b]
            BY <1>1 DEF ProjInv
        <3>3. kn \notin {kerns[a] : a \in 1..Len(kerns)}
            BY <1>3, <3>1
        <3>4. QED
            BY <2>2, <3>2, <3>3
    <2>6. TypeOK'
        BY <1>1, <1>3, <2>2 DEF ProjInv, TypeOK
    <2>7. QED
        BY <1>1, <1>3, <2>3, <2>4, <2>5, <2>6
        DEF ProjInv, ProjectionMatchesReference
<1>6. CASE SkipKernel
    <2>1. ~IsMain(kn) /\ UNCHANGED kerns
        BY <1>6 DEF SkipKernel
    <2>2. TypeOK'
        BY <1>1, <1>3, <2>1 DEF ProjInv, TypeOK
    <2>3. MainsSoFar' = MainsSoFar
        BY <1>4, <2>1
    <2>4. {kerns'[x] : x \in 1..Len(kerns')} = {row'.kernels[n] : n \in MainsSoFar'}
        BY <1>1, <2>1, <2>3 DEF ProjInv
    <2>5. \A a, b \in 1..Len(kerns') : a # b => kerns'[a] # kerns'[b]
        BY <1>1, <2>1 DEF ProjInv
    <2>6. ProjectionMatchesReference' /\ (~done => result = None)'
        BY <1>1 DEF ProjInv, ProjectionMatchesReference
    <2>7. QED
        BY <1>1, <1>3, <2>2, <2>4, <2>5, <2>6 DEF ProjInv
<1>7. QED
    BY <1>5, <1>6

\* A kernel row is not a raised exception.
LEMMA KernelNotError == \A k \in Kernel : k \notin Errors
BY DEF Kernel, Errors, Raise

\* Resolve returns what Expected prescribes.
LEMMA ResolveStep ==
    ASSUME ProjInv, Resolve
    PROVE  ProjInv'
<1> DEFINE mk == MainKernel(kerns)
           RK == {kerns[x] : x \in 1..Len(kerns)}
<1>1. /\ row \in Rows /\ row # None /\ ~done /\ j = Len(row.kernels)
      /\ done' = TRUE
      /\ result' = IF mk \in Errors THEN mk ELSE Projection(row, mk)
      /\ UNCHANGED <<row, j, kerns>>
    BY DEF Resolve, ProjInv, TypeOK
<1>2. kerns \in Seq(Kernel) /\ Len(kerns) \in Nat
      /\ \A a, b \in 1..Len(kerns) : a # b => kerns[a] # kerns[b]
    BY <1>1 DEF ProjInv, TypeOK
<1>3. {row.kernels[n] : n \in {n \in DOMAIN row.kernels :
                                  row.kernels[n].cluster_role = DEFAULT_ROLE}} = RK
    <2>1. DOMAIN row.kernels = 1..Len(row.kernels)
        BY <1>1, RowKernels
    <2>2. MainsSoFar = {n \in DOMAIN row.kernels : row.kernels[n].cluster_role = DEFAULT_ROLE}
        BY <1>1, <2>1 DEF MainsSoFar, IsMain
    <2>3. QED
        BY <1>1, <2>2 DEF ProjInv
<1>4. Expected(row) =
        IF RK = {} THEN Raise("MainKernelNotFound")
        ELSE IF Cardinality(RK) > 1 THEN Raise("TooManyKernelsFound")
        ELSE Projection(row, CHOOSE x \in RK : TRUE)
    <2> DEFINE M == {row.kernels[n] : n \in {n \in DOMAIN row.kernels :
                                             row.kernels[n].cluster_role = DEFAULT_ROLE}}
    <2>1. Expected(row) =
            IF M = {} THEN Raise("MainKernelNotFound")
            ELSE IF Cardinality(M) > 1 THEN Raise("TooManyKernelsFound")
            ELSE Projection(row, CHOOSE x \in M : TRUE)
        BY <1>1 DEF Expected
    <2>2. (CHOOSE x \in M : TRUE) = (CHOOSE x \in RK : TRUE)
        BY <1>3, Zenon
    <2>3. QED
        BY <1>3, <2>1, <2>2
<1>5. IsFiniteSet(RK)
    BY <1>2, ListValuesFinite
<1>6. result' = Expected(row)
    <2>1. CASE Len(kerns) = 0
        <3>1. RK = {} /\ mk = Raise("MainKernelNotFound")
            BY <2>1 DEF MainKernel
        <3>2. QED
            BY <1>1, <1>4, <3>1 DEF Errors
    <2>2. CASE Len(kerns) = 1
        <3>1. RK = {kerns[1]} /\ mk = kerns[1] /\ kerns[1] \in Kernel
            BY <1>2, <2>2 DEF MainKernel
        <3>2. Cardinality(RK) = 1
            BY <3>1, FS_Singleton
        <3>3. mk \notin Errors
            BY <3>1, KernelNotError
        <3>4. (CHOOSE x \in RK : TRUE) = kerns[1]
            BY <3>1
        <3>5. RK # {} /\ ~(Cardinality(RK) > 1)
            BY <3>1, <3>2
        <3>6. Expected(row) = Projection(row, kerns[1])
            BY <1>4, <3>4, <3>5, Zenon
        <3>7. result' = Projection(row, kerns[1])
            BY <1>1, <3>1, <3>3
        <3>8. QED
            BY <3>6, <3>7
    <2>3. CASE Len(kerns) > 1
        <3>1. mk = Raise("TooManyKernelsFound")
            BY <2>3 DEF MainKernel
        <3>2. /\ kerns[1] # kerns[2]
              /\ {kerns[1], kerns[2]} \subseteq RK
            BY <1>2, <2>3
        <3>3. IsFiniteSet({kerns[1]}) /\ Cardinality({kerns[1]}) = 1
            BY FS_Singleton
        <3>4. Cardinality({kerns[1], kerns[2]}) = 2
            <4>1. {kerns[1], kerns[2]} = {kerns[1]} \cup {kerns[2]}
                OBVIOUS
            <4>2. Cardinality({kerns[1]} \cup {kerns[2]}) =
                    IF kerns[2] \in {kerns[1]} THEN Cardinality({kerns[1]})
                    ELSE Cardinality({kerns[1]}) + 1
                BY <3>3, FS_AddElement
            <4>3. kerns[2] \notin {kerns[1]}
                BY <3>2
            <4>4. Cardinality({kerns[1]} \cup {kerns[2]}) = 2
                BY <3>3, <4>2, <4>3
            <4>5. QED
                BY <4>1, <4>4, Zenon
        <3>5. Cardinality({kerns[1], kerns[2]}) <= Cardinality(RK)
              /\ Cardinality(RK) \in Nat
            BY <1>5, <3>2, FS_Subset, FS_CardinalityType
        <3>6. RK # {} /\ Cardinality(RK) > 1
            BY <3>2, <3>4, <3>5
        <3>7. QED
            BY <1>1, <1>4, <3>1, <3>6 DEF Errors
    <2>4. QED
        BY <1>2, <2>1, <2>2, <2>3
<1>7. TypeOK'
    <2>1. result' \in {None} \cup Errors \cup
                  [id : KernelId, main : Kernel, status_history : History \cup {EmptyDict},
                   cluster_template : {None}, created_user_email : {None},
                   created_user_id : {None}]
        <3>1. CASE mk \in Errors
            BY <1>1, <3>1
        <3>2. CASE mk \notin Errors
            <4>1. mk \in Kernel
                BY <1>2, <3>2 DEF MainKernel, Errors
            <4>2. row.status_history \in History \cup {None}
                BY <1>1 DEF Rows
            <4>3. QED
                BY <1>1, <3>2, <4>1, <4>2 DEF Projection, Kernel
        <3>3. QED
            BY <3>1, <3>2
    <2>2. QED
        BY <1>1, <2>1 DEF ProjInv, TypeOK
<1>8. (~done => result = None)' /\ (row = None => j = 0 /\ kerns = <<>>)'
    BY <1>1
<1>9. (row # None =>
          /\ j <= Len(row.kernels)
          /\ {kerns[x] : x \in 1..Len(kerns)} = {row.kernels[n] : n \in MainsSoFar}
          /\ \A a, b \in 1..Len(kerns) : a # b => kerns[a] # kerns[b])'
    <2>1. MainsSoFar' = MainsSoFar
        BY <1>1 DEF MainsSoFar
    <2>2. QED
        BY <1>1, <2>1 DEF ProjInv
<1>10. ProjectionMatchesReference'
    BY <1>1, <1>6 DEF ProjectionMatchesReference
<1>11. QED
    BY <1>7, <1>8, <1>9, <1>10 DEF ProjInv

LEMMA ProjStep == ProjInv /\ [Next]_vars => ProjInv'
<1> SUFFICES ASSUME ProjInv, [Next]_vars PROVE ProjInv'
    OBVIOUS
<1>1. CASE FromRowNone
    <2>1. row = None /\ ~done /\ done' = TRUE /\ UNCHANGED <<row, j, kerns, result>>
        BY <1>1 DEF FromRowNone
    <2>2. result' = Expected(row')
        BY <2>1 DEF ProjInv, Expected
    <2>3. QED
        BY <2>1, <2>2 DEF ProjInv, TypeOK, ProjectionMatchesReference
<1>2. CASE KeepKernel \/ SkipKernel
    BY <1>2, ConsumeStep
<1>3. CASE Resolve
    BY <1>3, ResolveStep
<1>4. CASE Returned \/ UNCHANGED vars
    <2>1. row' = row /\ j' = j /\ kerns' = kerns /\ done' = done /\ result' = result
        BY <1>4 DEF Returned, vars
    <2>2. TypeOK'
        BY <2>1 DEF ProjInv, TypeOK
    <2>3. MainsSoFar' = MainsSoFar
        BY <2>1 DEF MainsSoFar
    <2>4. ProjectionMatchesReference'
        BY <2>1 DEF ProjInv, ProjectionMatchesReference
    <2>5. (~done => result = None)' /\ (row = None => j = 0 /\ kerns = <<>>)'
        BY <2>1 DEF ProjInv
    <2>6. (row # None =>
             /\ j <= Len(row.kernels)
             /\ {kerns[x] : x \in 1..Len(kerns)} = {row.kernels[n] : n \in MainsSoFar}
             /\ \A a, b \in 1..Len(kerns) : a # b => kerns[a] # kerns[b])'
        BY <2>1, <2>3 DEF ProjInv
    <2>7. QED
        BY <2>2, <2>4, <2>5, <2>6 DEF ProjInv
<1>5. QED
    BY <1>1, <1>2, <1>3, <1>4 DEF Next

\* from_row returns None for an absent row, raises MainKernelNotFound or
\* TooManyKernelsFound exactly when no kernel or several kernels of the
\* session have the default role, and otherwise returns the projection of
\* the one main kernel: the property the run MC_SessionProjection checks on
\* rows of up to three kernels, here for rows of every size.
THEOREM ProjectionCorrect == Spec => []ProjectionMatchesReference
<1>1. Init => ProjInv
    BY ProjInit
<1>2. ProjInv /\ [Next]_vars => ProjInv'
    BY ProjStep
<1>3. ProjInv => ProjectionMatchesReference
    BY DEF ProjInv
<1>4. QED
    BY <1>1, <1>2, <1>3, PTL DEF Spec

=============================================================================
