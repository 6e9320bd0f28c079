---------------------------- MODULE AgreedHistory ----------------------------
(***************************************************************************)
(* What two peers of an online match promise each other, whichever         *)
(* protocol carries their inputs: each one has a history of settled        *)
(* frames, histories only grow, and at every moment one of them is a       *)
(* prefix of the other.  The lockstep core and the rollback timelines are  *)
(* both shown to implement it.                                             *)
(***************************************************************************)
EXTENDS SequencesExt

CONSTANT Peer

VARIABLE history   \* [Peer -> sequence of settled frames]

Compatible(s, t) == IsPrefix(s, t) \/ IsPrefix(t, s)

Init == history = [p \in Peer |-> <<>>]

\* One peer settles at least one more frame, and agrees with every other peer
Settle(p) ==
    /\ IsStrictPrefix(history[p], history'[p])
    /\ \A q \in Peer \ {p} :
          history'[q] = history[q] /\ Compatible(history'[p], history[q])

Next == \E p \in Peer : Settle(p)

Spec == Init /\ [][Next]_history

=============================================================================
