--------------------------- MODULE RaftFSMProofs ----------------------------
(***************************************************************************)
(* Proofs about RaftFSM for every set of nodes and every bound: the type   *)
(* invariant, and that on_request_vote grants a vote in one term to one    *)
(* candidate only (VoteOncePerTerm).                                       *)
(***************************************************************************)
EXTENDS RaftFSM, FiniteSetTheorems, TLAPS

\* The vote on_request_vote leaves after synchronizing, and whether it grants.
RVVote(m) == IF m.term > currentTerm[m.dst] THEN Nil ELSE votedFor[m.dst]
RVOk(m) == m.term >= currentTerm[m.dst] /\ RVVote(m) \in {Nil, m.src}

LEMMA PeersInNode == \A n \in Node : Peers(n) \subseteq Node
BY DEF Peers

-----------------------------------------------------------------------------
(* Type correctness.                                                       *)

LEMMA TypeInit == Init => TypeInv
BY TimeoutAssumption DEF Init, TypeInv, TypeOK, WaitBelowTimeout, PC

LEMMA TypeStep == TypeInv /\ [Next]_vars => TypeInv'
<1> SUFFICES ASSUME TypeInv, [Next]_vars PROVE TypeInv'
    OBVIOUS
<1> USE TimeoutAssumption, MaxTermAssumption, NilAssumption, PeersInNode
    DEF TypeInv, TypeOK, WaitBelowTimeout, PC, Message, Grant
<1>1. ASSUME NEW n \in Node, FollowerBranch(n) PROVE TypeInv'
    BY <1>1 DEF FollowerBranch
<1>2. ASSUME NEW n \in Node, CandidateBranch(n) PROVE TypeInv'
    BY <1>2 DEF CandidateBranch, request_vote, Candidate
<1>3. ASSUME NEW n \in Node, LeaderBranch(n) PROVE TypeInv'
    BY <1>3 DEF LeaderBranch, publish_heartbeat
<1>4. ASSUME NEW n \in Node, WaitTick(n) PROVE TypeInv'
    BY <1>4 DEF WaitTick
<1>5. ASSUME NEW n \in Node, ElectionTimeoutFires(n) PROVE TypeInv'
    BY <1>5 DEF ElectionTimeoutFires, Candidate
<1>6. ASSUME NEW n \in Node, ElectionWon(n) PROVE TypeInv'
    BY <1>6 DEF ElectionWon, Leader
<1>7. ASSUME NEW n \in Node, ElectionLost(n) PROVE TypeInv'
    BY <1>7 DEF ElectionLost
<1>8. ASSUME NEW n \in Node, CandidateRetry(n) PROVE TypeInv'
    BY <1>8 DEF CandidateRetry, request_vote, Candidate
<1>9. ASSUME NEW n \in Node, CandidateQuit(n) PROVE TypeInv'
    BY <1>9 DEF CandidateQuit
<1>10. ASSUME NEW n \in Node, HeartbeatDone(n) PROVE TypeInv'
    BY <1>10 DEF HeartbeatDone
<1>11. ASSUME NEW n \in Node, LeaderRetry(n) PROVE TypeInv'
    BY <1>11 DEF LeaderRetry, publish_heartbeat
<1>12. ASSUME NEW n \in Node, LeaderQuit(n) PROVE TypeInv'
    BY <1>12 DEF LeaderQuit
<1>13. ASSUME NEW n \in Node, NEW p \in Node, ClientTimeout(n, p) PROVE TypeInv'
    BY <1>13 DEF ClientTimeout
<1>14. ASSUME NEW m \in msgs, on_request_vote(m) PROVE TypeInv'
    <2>1. m.dst \in Node /\ m.src \in Node /\ m.term \in Nat
        OBVIOUS
    <2>2. /\ currentTerm' \in [Node -> Nat]
          /\ state' \in [Node -> {Follower, Candidate, Leader}]
        BY <1>14, <2>1 DEF on_request_vote, SyncTerm, Follower
    <2>3. /\ votedFor' \in [Node -> Node \cup {Nil}]
          /\ elapsed' \in [Node -> 0..ElectionTimeout]
        BY <1>14, <2>1 DEF on_request_vote
    <2>4. grants' \subseteq Grant
        BY <1>14, <2>1 DEF on_request_vote
    <2>5. pending' \in [Node -> SUBSET Node] /\ granted' \in [Node -> SUBSET Node]
        BY <1>14, <2>1 DEF on_request_vote
    <2>6. msgs' \subseteq Message /\ UNCHANGED <<leaderId, pc, rpcTerm>>
        BY <1>14 DEF on_request_vote
    <2>7. WaitBelowTimeout'
        BY <1>14, <2>1, <2>3, <2>6 DEF on_request_vote
    <2>8. QED
        BY <2>2, <2>3, <2>4, <2>5, <2>6, <2>7
<1>15. ASSUME NEW m \in msgs, on_append_entries_stale(m) PROVE TypeInv'
    BY <1>15 DEF on_append_entries_stale, Answered
<1>16. ASSUME NEW m \in msgs, on_append_entries(m) PROVE TypeInv'
    BY <1>16 DEF on_append_entries, SyncTerm, Answered, Follower
<1>17. CASE UNCHANGED vars
    BY <1>17 DEF vars
<1>18. ASSUME NEW n \in Node, NEW p \in Node, RpcRefused(n, p) PROVE TypeInv'
    BY <1>18 DEF RpcRefused
<1>19. QED
    BY <1>1, <1>2, <1>3, <1>4, <1>5, <1>6, <1>7, <1>8, <1>9, <1>10, <1>11,
       <1>12, <1>13, <1>14, <1>15, <1>16, <1>17, <1>18
    DEF Next, MainStep, Receive

\* The type invariant of the Raft state machine holds in every reachable state.
THEOREM TypeCorrect == Spec => []TypeOK
<1>1. Init => TypeInv
    BY TypeInit
<1>2. TypeInv /\ [Next]_vars => TypeInv'
    BY TypeStep
<1>3. TypeInv => TypeOK
    BY DEF TypeInv
<1>4. QED
    BY <1>1, <1>2, <1>3, PTL DEF Spec

-----------------------------------------------------------------------------
(* One vote per term.                                                      *)

LEMMA VoteInit == Init => VoteInv
BY TypeInit DEF Init, VoteInv, GrantsBelowTerm, GrantsAtTermVoted,
                VoteOncePerTerm

\* A step that leaves the terms, the votes and the grants alone.
LEMMA VoteUnchanged ==
    ASSUME VoteInv, TypeInv',
           UNCHANGED <<currentTerm, votedFor, grants>>
    PROVE  VoteInv'
BY DEF VoteInv, GrantsBelowTerm, GrantsAtTermVoted, VoteOncePerTerm

\* A vote on_request_vote grants is the voter's first in that term, or a
\* repeat for the same candidate.
LEMMA RVOkFree ==
    ASSUME VoteInv, NEW m \in msgs, RVOk(m)
    PROVE  \A h \in grants : h.voter = m.dst /\ h.term = m.term => h.cand = m.src
BY NilAssumption
DEF VoteInv, TypeInv, TypeOK, Message, Grant, GrantsBelowTerm,
    GrantsAtTermVoted, RVOk, RVVote

LEMMA VoteRequest ==
    ASSUME VoteInv, TypeInv', NEW m \in msgs, on_request_vote(m)
    PROVE  VoteInv'
<1>1. /\ m \in Message
      /\ currentTerm' = [currentTerm EXCEPT ![m.dst] = SyncTerm(m.dst, m.term)]
      /\ votedFor' = [votedFor EXCEPT ![m.dst] = IF RVOk(m) THEN m.src ELSE RVVote(m)]
      /\ grants' = IF RVOk(m)
                    THEN grants \cup {[voter |-> m.dst, term |-> m.term, cand |-> m.src]}
                    ELSE grants
    BY DEF VoteInv, TypeInv, TypeOK, on_request_vote, RVOk, RVVote
<1>2. GrantsBelowTerm'
    BY <1>1, NilAssumption
    DEF VoteInv, TypeInv, TypeOK, Message, Grant, GrantsBelowTerm, SyncTerm,
        RVOk, RVVote
<1>3. GrantsAtTermVoted'
    BY <1>1, NilAssumption
    DEF VoteInv, TypeInv, TypeOK, Message, Grant, GrantsBelowTerm,
        GrantsAtTermVoted, SyncTerm, RVOk, RVVote
<1>4. VoteOncePerTerm'
    <2>1. CASE ~RVOk(m)
        BY <1>1, <2>1 DEF VoteInv, VoteOncePerTerm
    <2>2. CASE RVOk(m)
        <3>1. \A h \in grants : h.voter = m.dst /\ h.term = m.term => h.cand = m.src
            BY <2>2, RVOkFree
        <3>2. QED
            BY <1>1, <2>2, <3>1 DEF VoteInv, VoteOncePerTerm
    <2>3. QED
        BY <2>1, <2>2
<1>5. QED
    BY <1>2, <1>3, <1>4 DEF VoteInv

LEMMA VoteStep == VoteInv /\ [Next]_vars => VoteInv'
<1> SUFFICES ASSUME VoteInv, [Next]_vars PROVE VoteInv'
    OBVIOUS
<1>0. TypeInv'
    BY TypeStep DEF VoteInv
<1> USE <1>0
<1>1. ASSUME NEW n \in Node, \/ CandidateBranch(n) \/ CandidateRetry(n)
      PROVE VoteInv'
    <2>1. /\ currentTerm' = [currentTerm EXCEPT ![n] = currentTerm[n] + 1]
          /\ votedFor' = [votedFor EXCEPT ![n] = Nil]
          /\ UNCHANGED grants
        BY <1>1 DEF CandidateBranch, CandidateRetry, request_vote
    <2>2. QED
        BY <2>1 DEF VoteInv, TypeInv, TypeOK, Grant, GrantsBelowTerm,
                    GrantsAtTermVoted, VoteOncePerTerm
<1>2. ASSUME NEW n \in Node,
             \/ FollowerBranch(n) \/ LeaderBranch(n) \/ WaitTick(n)
             \/ ElectionTimeoutFires(n) \/ ElectionWon(n) \/ ElectionLost(n)
             \/ CandidateQuit(n) \/ HeartbeatDone(n) \/ LeaderRetry(n)
             \/ LeaderQuit(n)
      PROVE VoteInv'
    <2>1. UNCHANGED <<currentTerm, votedFor, grants>>
        BY <1>2 DEF FollowerBranch, LeaderBranch, WaitTick,
                    ElectionTimeoutFires, ElectionWon, ElectionLost,
                    CandidateQuit, HeartbeatDone, LeaderRetry, LeaderQuit,
                    publish_heartbeat
    <2>2. QED
        BY <2>1, VoteUnchanged
<1>3. ASSUME NEW n \in Node, NEW p \in Node, ClientTimeout(n, p)
      PROVE VoteInv'
    BY <1>3, VoteUnchanged DEF ClientTimeout
<1>4. ASSUME NEW m \in msgs, on_request_vote(m) PROVE VoteInv'
    BY <1>4, VoteRequest
<1>5. ASSUME NEW m \in msgs, on_append_entries_stale(m) PROVE VoteInv'
    BY <1>5, VoteUnchanged DEF on_append_entries_stale
<1>6. ASSUME NEW m \in msgs, on_append_entries(m) PROVE VoteInv'
    <2>1. CASE m.term > currentTerm[m.dst]
        <3>1. /\ m.dst \in Node
               /\ currentTerm' = [currentTerm EXCEPT ![m.dst] = m.term]
               /\ votedFor' = [votedFor EXCEPT ![m.dst] = Nil]
               /\ UNCHANGED grants
            BY <1>6, <2>1 DEF on_append_entries, SyncTerm, VoteInv, TypeInv,
                              TypeOK, Message
        <3>2. QED
            BY <3>1, <2>1 DEF VoteInv, TypeInv, TypeOK, Grant, GrantsBelowTerm,
                              GrantsAtTermVoted, VoteOncePerTerm
    <2>2. CASE ~(m.term > currentTerm[m.dst])
        <3>1. UNCHANGED <<currentTerm, votedFor, grants>>
            BY <1>6, <2>2 DEF on_append_entries, SyncTerm, VoteInv, TypeInv,
                              TypeOK, Message
        <3>2. QED
            BY <3>1, VoteUnchanged
    <2>3. QED
        BY <2>1, <2>2
<1>7. CASE UNCHANGED vars
    BY <1>7, VoteUnchanged DEF vars
<1>8. ASSUME NEW n \in Node, NEW p \in Node, RpcRefused(n, p)
      PROVE VoteInv'
    BY <1>8, VoteUnchanged DEF RpcRefused
<1>9. QED
    BY <1>1, <1>2, <1>3, <1>4, <1>5, <1>6, <1>7, <1>8 DEF Next, MainStep, Receive

\* on_request_vote never grants two candidates a vote in the same term: the
\* property the run MC_RaftFSM checks on three nodes, for every cluster.
THEOREM VoteUniqueness == Spec => []VoteOncePerTerm
<1>1. Init => VoteInv
    BY VoteInit
<1>2. VoteInv /\ [Next]_vars => VoteInv'
    BY VoteStep
<1>3. VoteInv => VoteOncePerTerm
    BY DEF VoteInv
<1>4. QED
    BY <1>1, <1>2, <1>3, PTL DEF Spec


-----------------------------------------------------------------------------
(* Refinement of RaftVoting.                                               *)

\* Terms never pass the bound: no node's term and no request's term.
TermBound ==
    /\ \A n \in Node : currentTerm[n] <= MaxTerm
    /\ \A m \in msgs : m.term <= MaxTerm

LEMMA TermBoundStep == TypeInv /\ TermBound /\ [Next]_vars => TermBound'
<1> SUFFICES ASSUME TypeInv, TermBound, [Next]_vars PROVE TermBound'
    OBVIOUS
<1> USE MaxTermAssumption DEF TypeInv, TypeOK, TermBound, Message
<1>1. ASSUME NEW n \in Node, \/ CandidateBranch(n) \/ CandidateRetry(n)
      PROVE TermBound'
    BY <1>1 DEF CandidateBranch, CandidateRetry, request_vote
<1>2. ASSUME NEW n \in Node, \/ LeaderBranch(n) \/ LeaderRetry(n)
      PROVE TermBound'
    BY <1>2 DEF LeaderBranch, LeaderRetry, publish_heartbeat
<1>3. ASSUME NEW n \in Node,
             \/ FollowerBranch(n) \/ WaitTick(n) \/ ElectionTimeoutFires(n)
             \/ ElectionWon(n) \/ ElectionLost(n) \/ CandidateQuit(n)
             \/ HeartbeatDone(n) \/ LeaderQuit(n)
      PROVE TermBound'
    BY <1>3 DEF FollowerBranch, WaitTick, ElectionTimeoutFires, ElectionWon,
                ElectionLost, CandidateQuit, HeartbeatDone, LeaderQuit
<1>4. ASSUME NEW n \in Node, NEW p \in Node,
             ClientTimeout(n, p) \/ RpcRefused(n, p)
      PROVE TermBound'
    BY <1>4 DEF ClientTimeout, RpcRefused
<1>5. ASSUME NEW m \in msgs, Receive(m) PROVE TermBound'
    BY <1>5 DEF Receive, on_request_vote, on_append_entries_stale,
                on_append_entries, SyncTerm
<1>6. CASE UNCHANGED vars
    BY <1>6 DEF vars
<1>7. QED
    BY <1>1, <1>2, <1>3, <1>4, <1>5, <1>6 DEF Next, MainStep

\* Every step of the machine is a step of RaftVoting or leaves its terms and
\* votes alone.
LEMMA VotingStep ==
    VoteInv /\ TermBound /\ [Next]_vars => [Voting!Next]_Voting!vars
<1> SUFFICES ASSUME VoteInv, TermBound, [Next]_vars
             PROVE  [Voting!Next]_Voting!vars
    OBVIOUS
<1> USE DEF VoteInv, TypeInv, TypeOK, Message
<1>1. ASSUME NEW n \in Node, \/ CandidateBranch(n) \/ CandidateRetry(n)
      PROVE Voting!AdvanceTerm(n, currentTerm[n] + 1)
    BY <1>1 DEF CandidateBranch, CandidateRetry, request_vote,
                Voting!AdvanceTerm
<1>2. ASSUME NEW n \in Node, \/ CandidateBranch(n) \/ CandidateRetry(n)
      PROVE currentTerm[n] + 1 \in 0..MaxTerm
    BY <1>2, MaxTermAssumption DEF CandidateBranch, CandidateRetry, request_vote
<1>3. ASSUME NEW m \in msgs, on_request_vote(m), RVOk(m)
      PROVE Voting!Vote(m.dst, m.src, m.term)
    <2>1. \A h \in grants : h.voter = m.dst /\ h.term = m.term => h.cand = m.src
        BY <1>3, RVOkFree
    <2>2. m.term >= currentTerm[m.dst]
        BY <1>3 DEF RVOk
    <2>3. SyncTerm(m.dst, m.term) = m.term
        BY <2>2 DEF SyncTerm
    <2>4. currentTerm' = [currentTerm EXCEPT ![m.dst] = m.term]
        BY <1>3, <2>3 DEF on_request_vote
    <2>5. grants' = grants \cup {[voter |-> m.dst, term |-> m.term, cand |-> m.src]}
        BY <1>3 DEF on_request_vote, RVOk, RVVote
    <2>6. QED
        BY <2>1, <2>2, <2>4, <2>5 DEF Voting!Vote
<1>4. ASSUME NEW m \in msgs, on_request_vote(m), ~RVOk(m),
             m.term > currentTerm[m.dst]
      PROVE Voting!AdvanceTerm(m.dst, m.term)
    BY <1>4 DEF on_request_vote, RVOk, RVVote, SyncTerm, Voting!AdvanceTerm
<1>5. ASSUME NEW m \in msgs, on_request_vote(m), ~RVOk(m),
             ~(m.term > currentTerm[m.dst])
      PROVE UNCHANGED Voting!vars
    BY <1>5 DEF on_request_vote, RVOk, RVVote, SyncTerm, Voting!vars
<1>6. ASSUME NEW m \in msgs, on_append_entries(m), m.term > currentTerm[m.dst]
      PROVE Voting!AdvanceTerm(m.dst, m.term)
    BY <1>6 DEF on_append_entries, SyncTerm, Voting!AdvanceTerm
<1>7. ASSUME NEW m \in msgs, on_append_entries(m), ~(m.term > currentTerm[m.dst])
      PROVE UNCHANGED Voting!vars
    BY <1>7 DEF on_append_entries, SyncTerm, Voting!vars
<1>8. ASSUME NEW n \in Node,
             \/ FollowerBranch(n) \/ LeaderBranch(n) \/ WaitTick(n)
             \/ ElectionTimeoutFires(n) \/ ElectionWon(n) \/ ElectionLost(n)
             \/ CandidateQuit(n) \/ HeartbeatDone(n) \/ LeaderRetry(n)
             \/ LeaderQuit(n)
      PROVE UNCHANGED Voting!vars
    BY <1>8 DEF FollowerBranch, LeaderBranch, WaitTick, ElectionTimeoutFires,
                ElectionWon, ElectionLost, CandidateQuit, HeartbeatDone,
                LeaderRetry, LeaderQuit, publish_heartbeat, Voting!vars
<1>9. ASSUME NEW n \in Node, NEW p \in Node,
             ClientTimeout(n, p) \/ RpcRefused(n, p)
      PROVE UNCHANGED Voting!vars
    BY <1>9 DEF ClientTimeout, RpcRefused, on_append_entries_stale, Voting!vars
<1>10. ASSUME NEW m \in msgs, on_append_entries_stale(m)
       PROVE UNCHANGED Voting!vars
    BY <1>10 DEF on_append_entries_stale, Voting!vars
<1>11. CASE UNCHANGED vars
    BY <1>11 DEF vars, Voting!vars
<1>12. QED
    <2>1. ASSUME NEW n \in Node, MainStep(n) PROVE [Voting!Next]_Voting!vars
        BY <2>1, <1>1, <1>2, <1>8, MaxTermAssumption
        DEF MainStep, Voting!Next
    <2>2. ASSUME NEW m \in msgs, Receive(m) PROVE [Voting!Next]_Voting!vars
        <3>1. m.dst \in Node /\ m.src \in Node /\ m.term \in 0..MaxTerm
            BY DEF TermBound
        <3>2. QED
            BY <2>2, <3>1, <1>3, <1>4, <1>5, <1>6, <1>7, <1>10
            DEF Receive, Voting!Next
    <2>3. QED
        BY <2>1, <2>2, <1>9, <1>11 DEF Next

\* The Raft state machine implements RaftVoting under the mapping of its
\* current terms and granted votes: the refinement the run MC_RaftFSM
\* checks as VotingRefined, here for every cluster and term bound.
THEOREM Refinement == Spec => VotingRefined
<1> DEFINE Inv == VoteInv /\ TermBound
<1>1. Init => Inv
    BY VoteInit, MaxTermAssumption DEF Init, TermBound, Inv
<1>2. Inv /\ [Next]_vars => Inv'
    BY VoteStep, TermBoundStep DEF VoteInv, Inv
<1>3. Init => Voting!Init
    BY DEF Init, Voting!Init
<1>4. Inv /\ [Next]_vars => [Voting!Next]_Voting!vars
    BY VotingStep DEF Inv
<1>5. QED
    BY <1>1, <1>2, <1>3, <1>4, PTL DEF Spec, VotingRefined, Voting!Spec

-----------------------------------------------------------------------------
(* A leader was elected by a quorum.                                       *)

\* What every step does to the terms and the grants: a term never goes
\* down, and a grant once on record stays on record.
LEMMA GrowStep ==
    ASSUME TypeInv, [Next]_vars
    PROVE  /\ grants \subseteq grants'
           /\ \A n \in Node : currentTerm[n] <= currentTerm'[n]
           /\ IsFiniteSet(grants) => IsFiniteSet(grants')
<1> USE DEF TypeInv, TypeOK, Message
<1>1. ASSUME NEW n \in Node, \/ CandidateBranch(n) \/ CandidateRetry(n)
      PROVE  UNCHANGED grants /\ \A x \in Node : currentTerm[x] <= currentTerm'[x]
    BY <1>1 DEF CandidateBranch, CandidateRetry, request_vote
<1>2. ASSUME NEW n \in Node,
             \/ FollowerBranch(n) \/ LeaderBranch(n) \/ WaitTick(n)
             \/ ElectionTimeoutFires(n) \/ ElectionWon(n) \/ ElectionLost(n)
             \/ CandidateQuit(n) \/ HeartbeatDone(n) \/ LeaderRetry(n)
             \/ LeaderQuit(n)
      PROVE  UNCHANGED <<grants, currentTerm>>
    BY <1>2 DEF FollowerBranch, LeaderBranch, WaitTick, ElectionTimeoutFires,
                ElectionWon, ElectionLost, CandidateQuit, HeartbeatDone,
                LeaderRetry, LeaderQuit, publish_heartbeat
<1>3. ASSUME NEW n \in Node, NEW p \in Node,
             ClientTimeout(n, p) \/ RpcRefused(n, p)
      PROVE  UNCHANGED <<grants, currentTerm>>
    BY <1>3 DEF ClientTimeout, RpcRefused
<1>4. ASSUME NEW m \in msgs, on_request_vote(m)
      PROVE  /\ grants \subseteq grants'
             /\ \A x \in Node : currentTerm[x] <= currentTerm'[x]
             /\ IsFiniteSet(grants) => IsFiniteSet(grants')
    <2>1. \/ grants' = grants
          \/ grants' = grants \cup {[voter |-> m.dst, term |-> m.term, cand |-> m.src]}
        BY <1>4 DEF on_request_vote
    <2>2. \A x \in Node : currentTerm[x] <= currentTerm'[x]
        BY <1>4 DEF on_request_vote, SyncTerm
    <2>3. IsFiniteSet(grants) =>
            IsFiniteSet(grants \cup {[voter |-> m.dst, term |-> m.term, cand |-> m.src]})
        BY FS_AddElement
    <2>4. QED
        BY <2>1, <2>2, <2>3
<1>5. ASSUME NEW m \in msgs, on_append_entries_stale(m) \/ on_append_entries(m)
      PROVE  UNCHANGED grants /\ \A x \in Node : currentTerm[x] <= currentTerm'[x]
    BY <1>5 DEF on_append_entries_stale, on_append_entries, SyncTerm
<1>6. CASE UNCHANGED vars
    BY <1>6 DEF vars
<1>7. QED
    BY <1>1, <1>2, <1>3, <1>4, <1>5, <1>6 DEF Next, MainStep, Receive

\* Only ElectionWon makes a node LEADER.
LEMMA LeaderSource ==
    ASSUME TypeInv, [Next]_vars, NEW n \in Node, state'[n] = Leader
    PROVE  \/ state[n] = Leader
           \/ pc[n] = "vote" /\ Cardinality(granted[n]) + 1 >= quorum
<1> SUFFICES ASSUME state[n] # Leader
             PROVE  pc[n] = "vote" /\ Cardinality(granted[n]) + 1 >= quorum
    OBVIOUS
<1> USE DEF TypeInv, TypeOK, Message, Leader, Follower, Candidate
<1>1. ASSUME NEW x \in Node, ElectionWon(x) PROVE x = n
    BY <1>1 DEF ElectionWon
<1>2. ASSUME NEW x \in Node, MainStep(x), ~ElectionWon(x) PROVE FALSE
    BY <1>2 DEF MainStep, FollowerBranch, CandidateBranch, LeaderBranch,
                WaitTick, ElectionTimeoutFires, ElectionLost, CandidateRetry,
                CandidateQuit, HeartbeatDone, LeaderRetry, LeaderQuit,
                request_vote, publish_heartbeat
<1>3. ASSUME NEW x \in Node, NEW p \in Node,
             ClientTimeout(x, p) \/ RpcRefused(x, p)
      PROVE  FALSE
    BY <1>3 DEF ClientTimeout, RpcRefused
<1>4. ASSUME NEW m \in msgs, Receive(m) PROVE FALSE
    BY <1>4 DEF Receive, on_request_vote, on_append_entries_stale,
                on_append_entries
<1>5. CASE UNCHANGED vars
    BY <1>5 DEF vars
<1>6. QED
    BY <1>1, <1>2, <1>3, <1>4, <1>5 DEF Next, ElectionWon

\* A round's request term is the term the node had when it sent the round.
LEMMA RoundStep ==
    ASSUME TypeInv, RoundTermBelow, [Next]_vars
    PROVE  RoundTermBelow'
<1>0. TypeInv'
    BY TypeStep
<1>1. \A n \in Node : currentTerm[n] <= currentTerm'[n]
    BY GrowStep
<1> USE <1>0 DEF TypeInv, TypeOK, RoundTermBelow
<1>2. ASSUME NEW n \in Node, \/ CandidateBranch(n) \/ CandidateRetry(n)
      PROVE  RoundTermBelow'
    BY <1>1, <1>2 DEF CandidateBranch, CandidateRetry, request_vote
<1>3. ASSUME NEW n \in Node, \/ LeaderBranch(n) \/ LeaderRetry(n)
      PROVE  RoundTermBelow'
    BY <1>1, <1>3 DEF LeaderBranch, LeaderRetry, publish_heartbeat
<1>4. ASSUME NEW n \in Node,
             \/ FollowerBranch(n) \/ WaitTick(n) \/ ElectionTimeoutFires(n)
             \/ ElectionWon(n) \/ ElectionLost(n) \/ CandidateQuit(n)
             \/ HeartbeatDone(n) \/ LeaderQuit(n)
      PROVE  RoundTermBelow'
    BY <1>1, <1>4 DEF FollowerBranch, WaitTick, ElectionTimeoutFires,
                      ElectionWon, ElectionLost, CandidateQuit, HeartbeatDone,
                      LeaderQuit
<1>5. ASSUME NEW n \in Node, NEW p \in Node,
             ClientTimeout(n, p) \/ RpcRefused(n, p)
      PROVE  RoundTermBelow'
    BY <1>1, <1>5 DEF ClientTimeout, RpcRefused
<1>6. ASSUME NEW m \in msgs, Receive(m) PROVE RoundTermBelow'
    <2>1. UNCHANGED rpcTerm
        BY <1>6 DEF Receive, on_request_vote, on_append_entries_stale,
                    on_append_entries
    <2>2. QED
        BY <1>1, <2>1
<1>7. CASE UNCHANGED vars
    BY <1>7 DEF vars
<1>8. QED
    BY <1>2, <1>3, <1>4, <1>5, <1>6, <1>7 DEF Next, MainStep

\* The votes a gather counts are the grants on_request_vote records for it.
LEMMA GatherStep ==
    ASSUME TypeInv, GatherRecorded, [Next]_vars
    PROVE  GatherRecorded'
<1>0. grants \subseteq grants'
    BY GrowStep
<1> USE DEF TypeInv, TypeOK, Message
<1>1. ASSUME NEW n \in Node, \/ CandidateBranch(n) \/ CandidateRetry(n)
      PROVE  GatherRecorded'
    <2>1. /\ granted' = [granted EXCEPT ![n] = {}]
          /\ pc' = [pc EXCEPT ![n] = "vote"]
          /\ rpcTerm' = [rpcTerm EXCEPT ![n] = currentTerm[n]]
          /\ grants' = grants
        BY <1>1 DEF CandidateBranch, CandidateRetry, request_vote
    <2>2. ASSUME NEW k \in Node, pc'[k] = "vote", NEW v \in granted'[k]
          PROVE  [voter |-> v, term |-> rpcTerm'[k], cand |-> k] \in grants'
        <3>1. k # n
            BY <2>1, <2>2
        <3>2. pc[k] = "vote" /\ v \in granted[k] /\ rpcTerm'[k] = rpcTerm[k]
            BY <2>1, <2>2, <3>1
        <3>3. QED
            BY <2>1, <3>2 DEF GatherRecorded
    <2>3. QED
        BY <2>2 DEF GatherRecorded
<1>2. ASSUME NEW n \in Node, \/ LeaderBranch(n) \/ LeaderRetry(n)
      PROVE  GatherRecorded'
    <2>1. /\ granted' = granted
          /\ pc' = [pc EXCEPT ![n] = "beat"]
          /\ rpcTerm' = [rpcTerm EXCEPT ![n] = currentTerm[n]]
          /\ grants' = grants
        BY <1>2 DEF LeaderBranch, LeaderRetry, publish_heartbeat
    <2>2. ASSUME NEW k \in Node, pc'[k] = "vote", NEW v \in granted'[k]
          PROVE  [voter |-> v, term |-> rpcTerm'[k], cand |-> k] \in grants'
        <3>1. k # n
            BY <2>1, <2>2
        <3>2. pc[k] = "vote" /\ v \in granted[k] /\ rpcTerm'[k] = rpcTerm[k]
            BY <2>1, <2>2, <3>1
        <3>3. QED
            BY <2>1, <3>2 DEF GatherRecorded
    <2>3. QED
        BY <2>2 DEF GatherRecorded
<1>3. ASSUME NEW n \in Node, \/ ElectionTimeoutFires(n) \/ ElectionWon(n)
                             \/ ElectionLost(n) \/ CandidateQuit(n)
                             \/ HeartbeatDone(n) \/ LeaderQuit(n)
      PROVE  GatherRecorded'
    BY <1>3 DEF ElectionTimeoutFires, ElectionWon, ElectionLost,
                CandidateQuit, HeartbeatDone, LeaderQuit, GatherRecorded
<1>4. ASSUME NEW m \in msgs, on_request_vote(m) PROVE GatherRecorded'
    <2>1. CASE Answered(m) /\ RVOk(m)
        <3>1. /\ granted' = [granted EXCEPT ![m.src] = @ \cup {m.dst}]
              /\ grants' = grants \cup {[voter |-> m.dst, term |-> m.term, cand |-> m.src]}
              /\ pc[m.src] = "vote" /\ rpcTerm[m.src] = m.term
              /\ UNCHANGED <<pc, rpcTerm>>
            BY <1>4, <2>1 DEF on_request_vote, Answered, RVOk, RVVote
        <3>2. QED
            BY <3>1, <1>0 DEF GatherRecorded
    <2>2. CASE ~(Answered(m) /\ RVOk(m))
        <3>1. UNCHANGED <<granted, pc, rpcTerm>>
            BY <1>4, <2>2 DEF on_request_vote, RVOk, RVVote
        <3>2. QED
            BY <3>1, <1>0 DEF GatherRecorded
    <2>3. QED
        BY <2>1, <2>2
<1>5. ASSUME NEW n \in Node, FollowerBranch(n) \/ WaitTick(n)
      PROVE  GatherRecorded'
    BY <1>0, <1>5 DEF FollowerBranch, WaitTick, GatherRecorded
<1>6. ASSUME NEW n \in Node, NEW p \in Node,
             ClientTimeout(n, p) \/ RpcRefused(n, p)
      PROVE  GatherRecorded'
    BY <1>0, <1>6 DEF ClientTimeout, RpcRefused, GatherRecorded
<1>7. ASSUME NEW m \in msgs, on_append_entries_stale(m) \/ on_append_entries(m)
      PROVE  GatherRecorded'
    BY <1>0, <1>7 DEF on_append_entries_stale, on_append_entries, GatherRecorded
<1>8. CASE UNCHANGED vars
    BY <1>8 DEF vars, GatherRecorded
<1>9. QED
    BY <1>1, <1>2, <1>3, <1>4, <1>5, <1>6, <1>7, <1>8 DEF Next, MainStep, Receive

\* A won gather's votes are on record, and there are enough of them: its
\* granted peers plus the candidate's own vote are a strict majority.
LEMMA QuorumTally ==
    ASSUME LeaderInv, NEW n \in Node, pc[n] = "vote",
           Cardinality(granted[n]) + 1 >= quorum,
           NEW G, IsFiniteSet(G), grants \subseteq G
    PROVE  2 * (Cardinality({g \in G : g.cand = n /\ g.term = rpcTerm[n]}) + 1)
             > Cardinality(Node)
<1> DEFINE S == {g \in G : g.cand = n /\ g.term = rpcTerm[n]}
           f == [v \in granted[n] |-> [voter |-> v, term |-> rpcTerm[n], cand |-> n]]
<1>1. IsFiniteSet(S)
    BY FS_Subset
<1>2. f \in Injection(granted[n], S)
    BY DEF LeaderInv, GatherRecorded, Injection, IsInjective
<1>3. IsFiniteSet(granted[n]) /\ Cardinality(granted[n]) <= Cardinality(S)
    BY <1>1, <1>2, FS_Injection
<1>4. /\ Cardinality(granted[n]) \in Nat
      /\ Cardinality(S) \in Nat
      /\ Cardinality(Node) \in Nat
    BY <1>1, <1>3, NodeAssumption, FS_CardinalityType
<1>5. QED
    BY <1>3, <1>4 DEF quorum, membership

LEMMA LeaderInit == Init => LeaderInv
BY TypeInit, FS_EmptySet
DEF Init, LeaderInv, RoundTermBelow, GatherRecorded, LeaderElectedByQuorum,
    Leader, Follower

LEMMA LeaderStep == LeaderInv /\ [Next]_vars => LeaderInv'
<1> SUFFICES ASSUME LeaderInv, [Next]_vars PROVE LeaderInv'
    OBVIOUS
<1>1. TypeInv'
    BY TypeStep DEF LeaderInv
<1>2. /\ grants \subseteq grants'
      /\ \A n \in Node : currentTerm[n] <= currentTerm'[n]
      /\ IsFiniteSet(grants')
    BY GrowStep DEF LeaderInv
<1>3. RoundTermBelow'
    BY RoundStep DEF LeaderInv
<1>4. GatherRecorded'
    BY GatherStep DEF LeaderInv
<1>5. LeaderElectedByQuorum'
    <2> SUFFICES ASSUME NEW n \in Node, state'[n] = Leader
                 PROVE  \E r \in 0..currentTerm'[n] :
                          2 * (Cardinality({g \in grants' : g.cand = n /\ g.term = r}) + 1)
                            > Cardinality(Node)
        BY DEF LeaderElectedByQuorum
    <2>0. currentTerm[n] \in Nat /\ currentTerm'[n] \in Nat /\ rpcTerm[n] \in Nat
          /\ currentTerm[n] <= currentTerm'[n]
        BY <1>1, <1>2 DEF LeaderInv, TypeInv, TypeOK
    <2>1. CASE state[n] = Leader
        <3>1. PICK r \in 0..currentTerm[n] :
                2 * (Cardinality({g \in grants : g.cand = n /\ g.term = r}) + 1)
                  > Cardinality(Node)
            BY <2>1 DEF LeaderInv, LeaderElectedByQuorum
        <3> DEFINE Old == {g \in grants : g.cand = n /\ g.term = r}
                   New == {g \in grants' : g.cand = n /\ g.term = r}
        <3>2. Old \subseteq New
            BY <1>2
        <3>3. IsFiniteSet(New) /\ Cardinality(Old) <= Cardinality(New)
            BY <1>2, <3>2, FS_Subset
        <3>4. Cardinality(Old) \in Nat /\ Cardinality(New) \in Nat
            BY <1>2, <3>3, FS_Subset, FS_CardinalityType
        <3>5. r \in 0..currentTerm'[n]
            BY <2>0
        <3>6. 2 * (Cardinality(New) + 1) > Cardinality(Node)
            <4>1. Cardinality(Node) \in Nat
                BY NodeAssumption, FS_CardinalityType
            <4>2. QED
                BY <3>1, <3>3, <3>4, <4>1 DEF Old
        <3>7. QED
            BY <3>5, <3>6 DEF New
    <2>2. CASE pc[n] = "vote" /\ Cardinality(granted[n]) + 1 >= quorum
        <3>1. rpcTerm[n] \in 0..currentTerm'[n]
            BY <2>0 DEF LeaderInv, RoundTermBelow
        <3>2. 2 * (Cardinality({g \in grants' : g.cand = n /\ g.term = rpcTerm[n]}) + 1)
                > Cardinality(Node)
            BY <2>2, <1>2, QuorumTally
        <3>3. QED
            BY <3>1, <3>2
    <2>3. QED
        BY <2>1, <2>2, LeaderSource DEF LeaderInv
<1>6. QED
    BY <1>1, <1>2, <1>3, <1>4, <1>5 DEF LeaderInv

\* A node is LEADER only after a request_vote round in which a strict
\* majority of the cluster, counting its own vote, granted it the round's
\* term: the property the run MC_RaftFSM checks on three nodes, for every
\* cluster size and term bound.
THEOREM LeaderQuorum == Spec => []LeaderElectedByQuorum
<1>1. Init => LeaderInv
    BY LeaderInit
<1>2. LeaderInv /\ [Next]_vars => LeaderInv'
    BY LeaderStep
<1>3. LeaderInv => LeaderElectedByQuorum
    BY DEF LeaderInv
<1>4. QED
    BY <1>1, <1>2, <1>3, PTL DEF Spec


-----------------------------------------------------------------------------
(* A leader steps down only on a higher term.                              *)

LEMMA WaitInit == Init => WaitIsFollower
BY DEF Init, WaitIsFollower

LEMMA WaitStep == TypeInv /\ WaitIsFollower /\ [Next]_vars => WaitIsFollower'
<1> SUFFICES ASSUME TypeInv, WaitIsFollower, [Next]_vars PROVE WaitIsFollower'
    OBVIOUS
<1> USE DEF TypeInv, TypeOK, Message
<1>1. ASSUME NEW n \in Node, FollowerBranch(n) PROVE WaitIsFollower'
    BY <1>1 DEF FollowerBranch, WaitIsFollower
<1>2. ASSUME NEW n \in Node, \/ CandidateBranch(n) \/ CandidateRetry(n)
      PROVE  WaitIsFollower'
    BY <1>2 DEF CandidateBranch, CandidateRetry, request_vote, WaitIsFollower
<1>3. ASSUME NEW n \in Node, \/ ElectionTimeoutFires(n) \/ ElectionWon(n)
      PROVE  WaitIsFollower'
    BY <1>3 DEF ElectionTimeoutFires, ElectionWon, WaitIsFollower
<1>4. ASSUME NEW n \in Node,
             \/ LeaderBranch(n) \/ WaitTick(n) \/ ElectionLost(n)
             \/ CandidateQuit(n) \/ HeartbeatDone(n) \/ LeaderRetry(n)
             \/ LeaderQuit(n)
      PROVE  WaitIsFollower'
    <2>1. UNCHANGED state /\ \A k \in Node : pc'[k] = "wait" => pc[k] = "wait"
        BY <1>4 DEF LeaderBranch, WaitTick, ElectionLost, CandidateQuit,
                    HeartbeatDone, LeaderRetry, LeaderQuit, publish_heartbeat
    <2>2. QED
        BY <2>1 DEF WaitIsFollower
<1>5. ASSUME NEW n \in Node, NEW p \in Node, ClientTimeout(n, p) \/ RpcRefused(n, p)
      PROVE  WaitIsFollower'
    BY <1>5 DEF ClientTimeout, RpcRefused, WaitIsFollower
<1>6. ASSUME NEW m \in msgs, Receive(m) PROVE WaitIsFollower'
    \* A handler leaves pc alone and can only set the receiver to FOLLOWER.
    <2>1. /\ UNCHANGED pc
          /\ \/ UNCHANGED state
             \/ state' = [state EXCEPT ![m.dst] = Follower]
        BY <1>6 DEF Receive, on_request_vote, on_append_entries_stale,
                    on_append_entries
    <2>2. QED
        BY <2>1 DEF WaitIsFollower
<1>7. CASE UNCHANGED vars
    BY <1>7 DEF vars, WaitIsFollower
<1>8. QED
    BY <1>1, <1>2, <1>3, <1>4, <1>5, <1>6, <1>7 DEF Next, MainStep

\* The step form of LeaderStepsDownOnHigherTerm.
LEMMA StepDownStep ==
    ASSUME TypeInv, WaitIsFollower, [Next]_vars,
           NEW n \in Node, state[n] = Leader, state'[n] # Leader
    PROVE  currentTerm'[n] > currentTerm[n]
<1> USE DEF TypeInv, TypeOK, Message
<1>1. ASSUME NEW k \in Node, \/ CandidateBranch(k) \/ CandidateRetry(k)
      PROVE  FALSE
    <2>1. state[k] = Candidate /\ state' = [state EXCEPT ![k] = Candidate]
        BY <1>1 DEF CandidateBranch, CandidateRetry, request_vote
    <2>2. QED
        BY <2>1 DEF Leader, Candidate
<1>2. ASSUME NEW k \in Node, ElectionTimeoutFires(k) PROVE FALSE
    <2>1. pc[k] = "wait" /\ state' = [state EXCEPT ![k] = Candidate]
        BY <1>2 DEF ElectionTimeoutFires
    <2>2. state[k] = Follower
        BY <2>1 DEF WaitIsFollower
    <2>3. QED
        BY <2>1, <2>2 DEF Leader, Follower
<1>3. ASSUME NEW k \in Node, ElectionWon(k) PROVE FALSE
    BY <1>3 DEF ElectionWon
<1>4. ASSUME NEW k \in Node,
             \/ FollowerBranch(k) \/ LeaderBranch(k) \/ WaitTick(k)
             \/ ElectionLost(k) \/ CandidateQuit(k) \/ HeartbeatDone(k)
             \/ LeaderRetry(k) \/ LeaderQuit(k)
      PROVE  FALSE
    BY <1>4 DEF FollowerBranch, LeaderBranch, WaitTick, ElectionLost,
                CandidateQuit, HeartbeatDone, LeaderRetry, LeaderQuit
<1>5. ASSUME NEW k \in Node, NEW p \in Node, ClientTimeout(k, p) \/ RpcRefused(k, p)
      PROVE  FALSE
    BY <1>5 DEF ClientTimeout, RpcRefused
<1>6. ASSUME NEW m \in msgs, on_append_entries_stale(m) PROVE FALSE
    BY <1>6 DEF on_append_entries_stale
\* The two handlers demote the receiver exactly when its term is raised.
<1>7. ASSUME NEW m \in msgs, on_request_vote(m) \/ on_append_entries(m)
      PROVE  currentTerm'[n] > currentTerm[n]
    <2>1. m.dst \in Node /\ m.term \in Nat
        OBVIOUS
    <2>2. /\ currentTerm' = [currentTerm EXCEPT ![m.dst] = SyncTerm(m.dst, m.term)]
          /\ state' = IF m.term > currentTerm[m.dst]
                      THEN [state EXCEPT ![m.dst] = Follower] ELSE state
        BY <1>7 DEF on_request_vote, on_append_entries
    <2>3. n = m.dst /\ m.term > currentTerm[m.dst]
        BY <2>1, <2>2
    <2>4. QED
        BY <2>1, <2>2, <2>3 DEF SyncTerm
<1>8. CASE UNCHANGED vars
    BY <1>8 DEF vars
<1>9. QED
    BY <1>1, <1>2, <1>3, <1>4, <1>5, <1>6, <1>7, <1>8 DEF Next, MainStep, Receive

\* A LEADER is demoted only by a handler that has seen a higher term, never
\* by a same-term rival, a timeout or a retried round: the action property
\* the run MC_RaftFSM checks on three nodes, for every cluster and bound.
THEOREM StepDown == Spec => LeaderStepsDownOnHigherTerm
<1> DEFINE Inv == TypeInv /\ WaitIsFollower
           A == \A n \in Node : state[n] = Leader /\ state'[n] # Leader =>
                                  currentTerm'[n] > currentTerm[n]
<1>1. Init => Inv
    BY TypeInit, WaitInit
<1>2. Inv /\ [Next]_vars => Inv'
    BY TypeStep, WaitStep
<1>3. Inv /\ [Next]_vars => [A]_vars
    BY StepDownStep
<1>4. QED
    BY <1>1, <1>2, <1>3, PTL DEF Spec, LeaderStepsDownOnHigherTerm

=============================================================================
