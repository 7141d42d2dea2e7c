------------------------------ MODULE RaftFSM ------------------------------
(***************************************************************************)
(* The Raft finite state machine of ai.backend.common.distributed.raft     *)
(* (raft.py) together with the part of the gRPC client (client.py) that    *)
(* the state machine depends on: every peer call is bounded by a timeout   *)
(* and a call that does not answer in time resolves to "not granted".      *)
(*                                                                         *)
(* Each node runs one asyncio task, `main`, and serves the two protocol    *)
(* callbacks `on_append_entries` and `on_request_vote` on the same event   *)
(* loop.  A step of the model is the code between two await points of     *)
(* `main`, or one whole callback; pc[n] names the await `main` is          *)
(* suspended at.                                                           *)
(***************************************************************************)
EXTENDS Naturals, FiniteSets

CONSTANTS
    Node,             \* the replicas (peer addresses plus self)
    Nil,              \* Python None for voted_for and leader_id
    ElectionTimeout,  \* election timeout, in polls of _wait_for_election_timeout
    MaxTerm           \* bound on terms, to keep the model finite

ASSUME NodeAssumption == IsFiniteSet(Node) /\ Cardinality(Node) >= 2
ASSUME NilAssumption == Nil \notin Node
ASSUME TimeoutAssumption == ElectionTimeout \in Nat \ {0}
ASSUME MaxTermAssumption == MaxTerm \in Nat

\* RaftState
Follower == "FOLLOWER"
Candidate == "CANDIDATE"
Leader == "LEADER"

VARIABLES
    state,        \* _state
    currentTerm,  \* _current_term
    votedFor,     \* _voted_for
    leaderId,     \* _leader_id
    elapsed,      \* _elapsed_time, counted in polls
    pc,           \* where `main` is suspended
    pending,      \* peers whose reply the current gather still awaits
    granted,      \* peers that granted in the current request_vote gather
    rpcTerm,      \* the term carried by the requests of the current round
    msgs,         \* requests sent and not yet served by their receiver
    grants        \* history: every vote granted, <<voter, term, candidate>>

vars == <<state, currentTerm, votedFor, leaderId, elapsed, pc,
          pending, granted, rpcTerm, msgs, grants>>

Peers(n) == Node \ {n}

\* Mutant: quorum computed as floor(membership / 2), without the + 1.
quorum_floor == Cardinality(Node) \div 2

\* membership and quorum properties of RaftFiniteStateMachine
membership == Cardinality(Node)
quorum == membership \div 2 + 1

Message == [type : {"RequestVote", "AppendEntries"}, src : Node,
            dst : Node, term : Nat]
Grant == [voter : Node, term : Nat, cand : Node]
PC == {"top", "wait", "vote", "cand_sleep", "beat", "beat_sleep"}

TypeOK ==
    /\ state \in [Node -> {Follower, Candidate, Leader}]
    /\ currentTerm \in [Node -> Nat]
    /\ votedFor \in [Node -> Node \cup {Nil}]
    /\ leaderId \in [Node -> Node \cup {Nil}]
    /\ elapsed \in [Node -> 0..ElectionTimeout]
    /\ pc \in [Node -> PC]
    /\ pending \in [Node -> SUBSET Node]
    /\ granted \in [Node -> SUBSET Node]
    /\ rpcTerm \in [Node -> Nat]
    /\ msgs \subseteq Message
    /\ grants \subseteq Grant

\* __init__: every node starts as a FOLLOWER of term 0 with no vote.
Init ==
    /\ state = [n \in Node |-> Follower]
    /\ currentTerm = [n \in Node |-> 0]
    /\ votedFor = [n \in Node |-> Nil]
    /\ leaderId = [n \in Node |-> Nil]
    /\ elapsed = [n \in Node |-> 0]
    /\ pc = [n \in Node |-> "top"]
    /\ pending = [n \in Node |-> {}]
    /\ granted = [n \in Node |-> {}]
    /\ rpcTerm = [n \in Node |-> 0]
    /\ msgs = {}
    /\ grants = {}

-----------------------------------------------------------------------------
(* Sending side: the main loop of one node.                                *)

\* _request_vote up to its gather: synchronize to term + 1 (which makes the
\* node a FOLLOWER and clears its vote), become CANDIDATE again, and send
\* every peer a RequestVote that carries the term read before the increment.
request_vote(n) ==
    /\ currentTerm[n] < MaxTerm
    /\ currentTerm' = [currentTerm EXCEPT ![n] = @ + 1]
    /\ state' = [state EXCEPT ![n] = Candidate]
    /\ votedFor' = [votedFor EXCEPT ![n] = Nil]
    /\ msgs' = msgs \cup
         {[type |-> "RequestVote", src |-> n, dst |-> p, term |-> currentTerm[n]]
            : p \in Peers(n)}
    /\ pending' = [pending EXCEPT ![n] = Peers(n)]
    /\ granted' = [granted EXCEPT ![n] = {}]
    /\ rpcTerm' = [rpcTerm EXCEPT ![n] = currentTerm[n]]
    /\ pc' = [pc EXCEPT ![n] = "vote"]

\* _publish_heartbeat up to its wait: an empty AppendEntries to every peer.
publish_heartbeat(n) ==
    /\ msgs' = msgs \cup
         {[type |-> "AppendEntries", src |-> n, dst |-> p, term |-> currentTerm[n]]
            : p \in Peers(n)}
    /\ pending' = [pending EXCEPT ![n] = Peers(n)]
    /\ rpcTerm' = [rpcTerm EXCEPT ![n] = currentTerm[n]]
    /\ pc' = [pc EXCEPT ![n] = "beat"]

\* main, FOLLOWER branch: reset_timeout, then await the election timeout.
FollowerBranch(n) ==
    /\ pc[n] = "top"
    /\ state[n] = Follower
    /\ elapsed' = [elapsed EXCEPT ![n] = 0]
    /\ pc' = [pc EXCEPT ![n] = "wait"]
    /\ UNCHANGED <<state, currentTerm, votedFor, leaderId, pending, granted,
                   rpcTerm, msgs, grants>>

\* main, CANDIDATE branch: forget the leader and start the first round.
CandidateBranch(n) ==
    /\ pc[n] = "top"
    /\ state[n] = Candidate
    /\ leaderId' = [leaderId EXCEPT ![n] = Nil]
    /\ request_vote(n)
    /\ UNCHANGED <<elapsed, grants>>

\* main, LEADER branch: record itself as leader and send the first heartbeat.
LeaderBranch(n) ==
    /\ pc[n] = "top"
    /\ state[n] = Leader
    /\ leaderId' = [leaderId EXCEPT ![n] = n]
    /\ publish_heartbeat(n)
    /\ UNCHANGED <<state, currentTerm, votedFor, elapsed, granted, grants>>

\* Mutant: the poll loop compares with <= instead of <.
WaitTick_le(n) ==
    /\ pc[n] = "wait"
    /\ elapsed[n] + 1 <= ElectionTimeout
    /\ elapsed' = [elapsed EXCEPT ![n] = @ + 1]
    /\ UNCHANGED <<state, currentTerm, votedFor, leaderId, pc, pending,
                   granted, rpcTerm, msgs, grants>>

\* One poll of _wait_for_election_timeout that does not reach the timeout.
WaitTick(n) ==
    /\ pc[n] = "wait"
    /\ elapsed[n] + 1 < ElectionTimeout
    /\ elapsed' = [elapsed EXCEPT ![n] = @ + 1]
    /\ UNCHANGED <<state, currentTerm, votedFor, leaderId, pc, pending,
                   granted, rpcTerm, msgs, grants>>

\* The poll that reaches the timeout: execute_transition(CANDIDATE).
ElectionTimeoutFires(n) ==
    /\ pc[n] = "wait"
    /\ elapsed[n] + 1 >= ElectionTimeout
    /\ elapsed' = [elapsed EXCEPT ![n] = @ + 1]
    /\ state' = [state EXCEPT ![n] = Candidate]
    /\ pc' = [pc EXCEPT ![n] = "top"]
    /\ UNCHANGED <<currentTerm, votedFor, leaderId, pending, granted,
                   rpcTerm, msgs, grants>>

\* The request_vote gather is complete and granted votes plus its own reach
\* the quorum: execute_transition(LEADER), whatever the state is by now.
ElectionWon(n) ==
    /\ pc[n] = "vote"
    /\ pending[n] = {}
    /\ Cardinality(granted[n]) + 1 >= quorum
    /\ state' = [state EXCEPT ![n] = Leader]
    /\ pc' = [pc EXCEPT ![n] = "top"]
    /\ UNCHANGED <<currentTerm, votedFor, leaderId, elapsed, pending, granted,
                   rpcTerm, msgs, grants>>

\* The gather is complete without a quorum: sleep for an election timeout.
ElectionLost(n) ==
    /\ pc[n] = "vote"
    /\ pending[n] = {}
    /\ Cardinality(granted[n]) + 1 < quorum
    /\ pc' = [pc EXCEPT ![n] = "cand_sleep"]
    /\ UNCHANGED <<state, currentTerm, votedFor, leaderId, elapsed, pending,
                   granted, rpcTerm, msgs, grants>>

\* After the sleep, still CANDIDATE: another round.
CandidateRetry(n) ==
    /\ pc[n] = "cand_sleep"
    /\ state[n] = Candidate
    /\ request_vote(n)
    /\ UNCHANGED <<leaderId, elapsed, grants>>

\* After the sleep, demoted meanwhile: leave the loop, back to the match.
CandidateQuit(n) ==
    /\ pc[n] = "cand_sleep"
    /\ state[n] # Candidate
    /\ pc' = [pc EXCEPT ![n] = "top"]
    /\ UNCHANGED <<state, currentTerm, votedFor, leaderId, elapsed, pending,
                   granted, rpcTerm, msgs, grants>>

\* Every heartbeat call has completed or failed: sleep a heartbeat interval.
HeartbeatDone(n) ==
    /\ pc[n] = "beat"
    /\ pending[n] = {}
    /\ pc' = [pc EXCEPT ![n] = "beat_sleep"]
    /\ UNCHANGED <<state, currentTerm, votedFor, leaderId, elapsed, pending,
                   granted, rpcTerm, msgs, grants>>

\* After the sleep, still LEADER: the next heartbeat.
LeaderRetry(n) ==
    /\ pc[n] = "beat_sleep"
    /\ state[n] = Leader
    /\ publish_heartbeat(n)
    /\ UNCHANGED <<state, currentTerm, votedFor, leaderId, elapsed, granted,
                   grants>>

\* After the sleep, demoted meanwhile: back to the match.
LeaderQuit(n) ==
    /\ pc[n] = "beat_sleep"
    /\ state[n] # Leader
    /\ pc' = [pc EXCEPT ![n] = "top"]
    /\ UNCHANGED <<state, currentTerm, votedFor, leaderId, elapsed, pending,
                   granted, rpcTerm, msgs, grants>>

\* Mutant: the stub is awaited without asyncio.wait_for; no call times out.
ClientTimeout_none(n, p) == FALSE

\* GrpcRaftClient: asyncio.wait_for expires on the call to peer p, which
\* resolves to (term, False); the request itself may still be delivered.
ClientTimeout(n, p) ==
    /\ p \in pending[n]
    /\ pending' = [pending EXCEPT ![n] = @ \ {p}]
    /\ UNCHANGED <<state, currentTerm, votedFor, leaderId, elapsed, pc,
                   granted, rpcTerm, msgs, grants>>

\* The request of n's current round to peer p, as the client builds it.
Request(n, p) ==
    [type |-> IF pc[n] = "vote" THEN "RequestVote" ELSE "AppendEntries",
     src |-> n, dst |-> p, term |-> rpcTerm[n]]

\* GrpcRaftClient: the stub call fails with AioRpcError before the request
\* reaches p (the channel cannot connect); the call resolves to
\* (term, False) and the request is never delivered.
RpcRefused(n, p) ==
    /\ pc[n] \in {"vote", "beat"}
    /\ p \in pending[n]
    /\ pending' = [pending EXCEPT ![n] = @ \ {p}]
    /\ msgs' = msgs \ {Request(n, p)}
    /\ UNCHANGED <<state, currentTerm, votedFor, leaderId, elapsed, pc,
                   granted, rpcTerm, grants>>

-----------------------------------------------------------------------------
(* Receiving side: the protocol callbacks, run by the server on receipt.   *)

\* The reply to request m reaches the gather that sent it, if that gather
\* still awaits it; a reply that comes after the timeout is dropped.
Answered(m) ==
    /\ pc[m.src] = IF m.type = "RequestVote" THEN "vote" ELSE "beat"
    /\ m.dst \in pending[m.src]
    /\ rpcTerm[m.src] = m.term

\* Mutant: _synchronize_term without its `term > current_term' test.
SyncTerm_any(n, term) == term

\* _synchronize_term(term) applied to node n, as the new term of n.
SyncTerm(n, term) == IF term > currentTerm[n] THEN term ELSE currentTerm[n]

\* Mutant: on_request_vote grants without consulting voted_for.
on_request_vote_any(m) ==
    LET v == m.dst
        raised == m.term > currentTerm[v]
        vote == IF raised THEN Nil ELSE votedFor[v]
        ok == m.term >= currentTerm[v]
    IN
    /\ m \in msgs
    /\ m.type = "RequestVote"
    /\ msgs' = msgs \ {m}
    /\ currentTerm' = [currentTerm EXCEPT ![v] = SyncTerm(v, m.term)]
    /\ state' = IF raised THEN [state EXCEPT ![v] = Follower] ELSE state
    /\ votedFor' = [votedFor EXCEPT ![v] = IF ok THEN m.src ELSE vote]
    /\ elapsed' = [elapsed EXCEPT ![v] = 0]
    /\ grants' = IF ok THEN grants \cup {[voter |-> v, term |-> m.term, cand |-> m.src]}
                       ELSE grants
    /\ IF Answered(m)
          THEN /\ pending' = [pending EXCEPT ![m.src] = @ \ {v}]
               /\ granted' = IF ok THEN [granted EXCEPT ![m.src] = @ \cup {v}]
                                   ELSE granted
          ELSE UNCHANGED <<pending, granted>>
    /\ UNCHANGED <<leaderId, pc, rpcTerm>>

\* on_request_vote: synchronize, reset the timeout, then grant when the term
\* is not below the term read before synchronizing and the vote is free or
\* already this candidate's.
on_request_vote(m) ==
    LET v == m.dst
        raised == m.term > currentTerm[v]
        vote == IF raised THEN Nil ELSE votedFor[v]
        ok == m.term >= currentTerm[v] /\ vote \in {Nil, m.src}
    IN
    /\ m \in msgs
    /\ m.type = "RequestVote"
    /\ msgs' = msgs \ {m}
    /\ currentTerm' = [currentTerm EXCEPT ![v] = SyncTerm(v, m.term)]
    /\ state' = IF raised THEN [state EXCEPT ![v] = Follower] ELSE state
    /\ votedFor' = [votedFor EXCEPT ![v] = IF ok THEN m.src ELSE vote]
    /\ elapsed' = [elapsed EXCEPT ![v] = 0]
    /\ grants' = IF ok THEN grants \cup {[voter |-> v, term |-> m.term, cand |-> m.src]}
                       ELSE grants
    /\ IF Answered(m)
          THEN /\ pending' = [pending EXCEPT ![m.src] = @ \ {v}]
               /\ granted' = IF ok THEN [granted EXCEPT ![m.src] = @ \cup {v}]
                                   ELSE granted
          ELSE UNCHANGED <<pending, granted>>
    /\ UNCHANGED <<leaderId, pc, rpcTerm>>

\* on_append_entries with a term below the receiver's: reply False, no effect.
on_append_entries_stale(m) ==
    /\ m \in msgs
    /\ m.type = "AppendEntries"
    /\ m.term < currentTerm[m.dst]
    /\ msgs' = msgs \ {m}
    /\ pending' = IF Answered(m) THEN [pending EXCEPT ![m.src] = @ \ {m.dst}]
                                 ELSE pending
    /\ UNCHANGED <<state, currentTerm, votedFor, leaderId, elapsed, pc,
                   granted, rpcTerm, grants>>

\* Mutant: an accepted AppendEntries demotes the receiver even at its own term.
on_append_entries_demote(m) ==
    LET v == m.dst
        raised == m.term > currentTerm[v]
    IN
    /\ m \in msgs
    /\ m.type = "AppendEntries"
    /\ m.term >= currentTerm[v]
    /\ msgs' = msgs \ {m}
    /\ currentTerm' = [currentTerm EXCEPT ![v] = SyncTerm(v, m.term)]
    /\ state' = [state EXCEPT ![v] = Follower]
    /\ votedFor' = IF raised THEN [votedFor EXCEPT ![v] = Nil] ELSE votedFor
    /\ leaderId' = [leaderId EXCEPT ![v] = m.src]
    /\ elapsed' = [elapsed EXCEPT ![v] = 0]
    /\ pending' = IF Answered(m) THEN [pending EXCEPT ![m.src] = @ \ {v}]
                                 ELSE pending
    /\ UNCHANGED <<pc, granted, rpcTerm, grants>>

\* on_append_entries otherwise: synchronize, record the sender as leader,
\* reset the timeout and reply True.  No entry is appended.
on_append_entries(m) ==
    LET v == m.dst
        raised == m.term > currentTerm[v]
    IN
    /\ m \in msgs
    /\ m.type = "AppendEntries"
    /\ m.term >= currentTerm[v]
    /\ msgs' = msgs \ {m}
    /\ currentTerm' = [currentTerm EXCEPT ![v] = SyncTerm(v, m.term)]
    /\ state' = IF raised THEN [state EXCEPT ![v] = Follower] ELSE state
    /\ votedFor' = IF raised THEN [votedFor EXCEPT ![v] = Nil] ELSE votedFor
    /\ leaderId' = [leaderId EXCEPT ![v] = m.src]
    /\ elapsed' = [elapsed EXCEPT ![v] = 0]
    /\ pending' = IF Answered(m) THEN [pending EXCEPT ![m.src] = @ \ {v}]
                                 ELSE pending
    /\ UNCHANGED <<pc, granted, rpcTerm, grants>>

-----------------------------------------------------------------------------

MainStep(n) ==
    \/ FollowerBranch(n) \/ CandidateBranch(n) \/ LeaderBranch(n)
    \/ WaitTick(n) \/ ElectionTimeoutFires(n)
    \/ ElectionWon(n) \/ ElectionLost(n)
    \/ CandidateRetry(n) \/ CandidateQuit(n)
    \/ HeartbeatDone(n) \/ LeaderRetry(n) \/ LeaderQuit(n)

Receive(m) ==
    \/ on_request_vote(m) \/ on_append_entries_stale(m) \/ on_append_entries(m)

Next ==
    \/ \E n \in Node : MainStep(n)
    \/ \E n \in Node, p \in Node : ClientTimeout(n, p) \/ RpcRefused(n, p)
    \/ \E m \in msgs : Receive(m)

Spec == Init /\ [][Next]_vars

\* A node process stops and is started again.  Nothing is written to
\* stable storage, so __init__ runs afresh: a FOLLOWER of term 0 with no
\* vote and no round in flight.  Requests already sent to it are still
\* delivered to the new process.  (The new process draws a new uuid; the
\* model keeps the node's name as its id.)
Restart(n) ==
    /\ state' = [state EXCEPT ![n] = Follower]
    /\ currentTerm' = [currentTerm EXCEPT ![n] = 0]
    /\ votedFor' = [votedFor EXCEPT ![n] = Nil]
    /\ leaderId' = [leaderId EXCEPT ![n] = Nil]
    /\ elapsed' = [elapsed EXCEPT ![n] = 0]
    /\ pc' = [pc EXCEPT ![n] = "top"]
    /\ pending' = [pending EXCEPT ![n] = {}]
    /\ granted' = [granted EXCEPT ![n] = {}]
    /\ rpcTerm' = [rpcTerm EXCEPT ![n] = 0]
    /\ UNCHANGED <<msgs, grants>>

\* The machine with node restarts.
CrashSpec == Init /\ [][Next \/ \E n \in Node : Restart(n)]_vars

\* The asyncio event loop runs every ready task, and wait_for always expires:
\* each node's main task and each client timeout are weakly fair.  Delivery
\* of a request is not assumed.
FairSpec ==
    /\ Spec
    /\ \A n \in Node : WF_vars(MainStep(n))
    /\ \A n, p \in Node : WF_vars(ClientTimeout(n, p))

-----------------------------------------------------------------------------
(* Properties.                                                             *)

\* is_leader: the recorded leader id is the node's own id.
is_leader(n) == leaderId[n] = n

\* Vote uniqueness (on_request_vote): a node grants its vote in one term to
\* one candidate only, however requests of several candidates, retried
\* rounds and term changes interleave.
VoteOncePerTerm ==
    \A g, h \in grants : g.voter = h.voter /\ g.term = h.term => g.cand = h.cand

\* A node is LEADER only after a round of _request_vote in which a strict
\* majority of the cluster, counting its own vote, granted it: the votes of one round, all cast for
\* the same request term, are on record for it.
LeaderElectedByQuorum ==
    \A n \in Node : state[n] = Leader =>
        \E r \in 0..currentTerm[n] :
            2 * (Cardinality({g \in grants : g.cand = n /\ g.term = r}) + 1)
                > Cardinality(Node)

\* Election safety (Raft: at most one leader per term): no two nodes are
\* LEADER in the same current term.
ElectionSafety ==
    \A a, b \in Node :
        a # b /\ state[a] = Leader /\ state[b] = Leader
            => currentTerm[a] # currentTerm[b]

\* A LEADER gives up leadership only when on_request_vote or
\* on_append_entries has shown it a higher term (_synchronize_term): no
\* heartbeat of a same-term rival, election timeout or retried round demotes
\* it while its term stays the same.
LeaderStepsDownOnHigherTerm ==
    [][\A n \in Node : state[n] = Leader /\ state'[n] # Leader =>
                        currentTerm'[n] > currentTerm[n]]_vars

\* is_leader reports leadership only while the node is in the LEADER state.
IsLeaderMeansLeader == \A n \in Node : is_leader(n) => state[n] = Leader

\* Every request_vote gather and every heartbeat wait of `main` ends: the
\* client timeout keeps one unreachable peer from stalling the main loop.
RoundsComplete ==
    \A n \in Node : pc[n] \in {"vote", "beat"} ~> pc[n] \notin {"vote", "beat"}

\* The vote handling implements RaftVoting: every step of the machine leaves
\* the terms and the votes alone, raises one node's term (_synchronize_term,
\* _request_vote), or records one vote of on_request_vote at the voter's
\* term, never below a term the voter has reached and never to a second
\* candidate of that term.
Voting == INSTANCE RaftVoting WITH term <- currentTerm, votes <- grants

VotingRefined == Voting!Spec

-----------------------------------------------------------------------------
(* Inductive invariants, checked by TLC and proved in RaftFSMProofs.       *)

\* The poll loop of _wait_for_election_timeout is entered and left below
\* the timeout: the type invariant is inductive only with this conjunct.
WaitBelowTimeout == \A n \in Node : pc[n] = "wait" => elapsed[n] < ElectionTimeout

TypeInv == TypeOK /\ WaitBelowTimeout

\* A vote is never granted for a term above the voter's current term, and a
\* vote granted in the voter's current term is the one voted_for records.
GrantsBelowTerm == \A g \in grants : g.term <= currentTerm[g.voter]
GrantsAtTermVoted ==
    \A g \in grants : g.term = currentTerm[g.voter] => votedFor[g.voter] = g.cand

VoteInv == TypeInv /\ GrantsBelowTerm /\ GrantsAtTermVoted /\ VoteOncePerTerm

\* The term the requests of a node's round carry is never above the node's
\* current term, and every vote the request_vote gather in progress has
\* counted is a recorded grant to the node for that term: the votes
\* ElectionWon counts are votes on record.
\* A node waiting for the election timeout is a FOLLOWER: only the FOLLOWER
\* branch of main starts the wait, and a handler run meanwhile can only
\* demote.
WaitIsFollower == \A n \in Node : pc[n] = "wait" => state[n] = Follower

RoundTermBelow == \A n \in Node : rpcTerm[n] <= currentTerm[n]
GatherRecorded ==
    \A n \in Node : pc[n] = "vote" =>
        \A v \in granted[n] : [voter |-> v, term |-> rpcTerm[n], cand |-> n] \in grants

LeaderInv ==
    /\ TypeInv /\ IsFiniteSet(grants) /\ RoundTermBelow /\ GatherRecorded
    /\ LeaderElectedByQuorum

=============================================================================
