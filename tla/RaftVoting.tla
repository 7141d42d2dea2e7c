----------------------------- MODULE RaftVoting ------------------------------
(***************************************************************************)
(* What the vote handling of RaftFiniteStateMachine promises, without      *)
(* messages, timers or rounds: each node's term only grows, a node votes   *)
(* only in a term it has reached, and it votes for at most one candidate   *)
(* in a term.  RaftFSM implements this specification with its terms as     *)
(* `term' and its history of granted votes as `votes'.                     *)
(***************************************************************************)
EXTENDS Naturals

CONSTANTS Node, MaxTerm

VARIABLES
    term,   \* the current term of each node
    votes   \* every vote cast: [voter, term, cand]

vars == <<term, votes>>

Init ==
    /\ term = [n \in Node |-> 0]
    /\ votes = {}

\* Node n moves to a higher term.
AdvanceTerm(n, t) ==
    /\ t > term[n]
    /\ term' = [term EXCEPT ![n] = t]
    /\ UNCHANGED votes

\* Node v, moving to term t if it is behind, votes for c in t; it has voted
\* for no other candidate in t.
Vote(v, c, t) ==
    /\ t >= term[v]
    /\ \A g \in votes : g.voter = v /\ g.term = t => g.cand = c
    /\ term' = [term EXCEPT ![v] = t]
    /\ votes' = votes \cup {[voter |-> v, term |-> t, cand |-> c]}

Next ==
    \E v \in Node, t \in 0..MaxTerm :
        \/ AdvanceTerm(v, t)
        \/ \E c \in Node : Vote(v, c, t)

Spec == Init /\ [][Next]_vars

=============================================================================
