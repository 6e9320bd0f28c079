----------------------------- MODULE RollbackPair -----------------------------
(***************************************************************************)
(* The two timelines of one match, each fed with the samples the other one *)
(* records, as tests/net_rollback_input_timeline.test.mjs and the runtime  *)
(* history probe pair them.  The network between them may delay, reorder,  *)
(* duplicate and lose samples: it is the set of samples ever sent, of      *)
(* which any may arrive at any time, any number of times or never.         *)
(* disconnect and dispose only end a timeline: a peer that takes no more   *)
(* steps has the same histories, so they are left to RollbackTimeline.     *)
(***************************************************************************)
EXTENDS Integers, Sequences

CONSTANTS Pad, InitialRemotePad, NoPad, StartTick, MaxTick,
          MaxPrediction, MaxHistory, MaxLookahead,
          Produced   \* the pads that the two players produce, some of Pad

\* Both peers have the same bounds, those of RollbackTimeline.
ASSUME PairAssumption ==
    /\ InitialRemotePad \in Pad /\ NoPad \notin Pad /\ Produced \subseteq Pad
    /\ StartTick \in Nat /\ MaxTick \in Nat /\ StartTick <= MaxTick
    /\ MaxPrediction \in Nat \ {0}
    /\ MaxHistory \in Nat /\ MaxHistory >= MaxPrediction + 1
    /\ MaxLookahead \in Nat \ {0}

VARIABLES
    localA, remoteA, executedA, seedA, localThroughA, contiguousA,
    simulatedA, dirtyA, planA, outstandingA, revisedA, phaseA, acceptedA,
    localB, remoteB, executedB, seedB, localThroughB, contiguousB,
    simulatedB, dirtyB, planB, outstandingB, revisedB, phaseB, acceptedB,
    sent,      \* [Peer -> (tick -> PAD)]: every sample a peer has recorded
    history    \* [Peer -> Seq(frame)]: every frame its status() confirmed

varsA == <<localA, remoteA, executedA, seedA, localThroughA, contiguousA,
           simulatedA, dirtyA, planA, outstandingA, revisedA, phaseA, acceptedA>>
varsB == <<localB, remoteB, executedB, seedB, localThroughB, contiguousB,
           simulatedB, dirtyB, planB, outstandingB, revisedB, phaseB, acceptedB>>
vars  == <<varsA, varsB, sent, history>>

Peer == {"A", "B"}

A == INSTANCE RollbackTimeline WITH
        localInputs <- localA, remoteInputs <- remoteA, executedInputs <- executedA,
        remoteSeed <- seedA, localThrough <- localThroughA,
        remoteContiguousThrough <- contiguousA, simulatedThrough <- simulatedA,
        dirtyFrom <- dirtyA, plan <- planA, outstanding <- outstandingA,
        revised <- revisedA, phase <- phaseA, accepted <- acceptedA
B == INSTANCE RollbackTimeline WITH
        localInputs <- localB, remoteInputs <- remoteB, executedInputs <- executedB,
        remoteSeed <- seedB, localThrough <- localThroughB,
        remoteContiguousThrough <- contiguousB, simulatedThrough <- simulatedB,
        dirtyFrom <- dirtyB, plan <- planB, outstanding <- outstandingB,
        revised <- revisedB, phase <- phaseB, accepted <- acceptedB

-----------------------------------------------------------------------------
Init ==
    /\ A!Init
    /\ B!Init
    /\ sent = [p \in Peer |-> A!Empty]
    /\ history = [p \in Peer |-> <<>>]

\* The ports of a settled frame are fixed: A's sample, then B's
FrameA(t) == <<executedA[t].local, executedA[t].remote>>
FrameB(t) == <<executedB[t].remote, executedB[t].local>>

\* What status() newly confirms joins the history, from the rows retained now.
\* Index i of a history is tick StartTick + i - 1.
SettledA ==
    history' = [history EXCEPT !["A"] = [i \in 1..(A!ConfirmedThrough' - StartTick + 1) |->
                   IF i <= Len(history["A"]) THEN history["A"][i]
                   ELSE FrameA(StartTick + i - 1)']]
SettledB ==
    history' = [history EXCEPT !["B"] = [i \in 1..(B!ConfirmedThrough' - StartTick + 1) |->
                   IF i <= Len(history["B"]) THEN history["B"][i]
                   ELSE FrameB(StartTick + i - 1)']]

\* A caller records its sample and sends it
Published(p, tick, pad) ==
    sent' = [sent EXCEPT ![p] = [t \in DOMAIN @ \cup {tick} |->
                                    IF t = tick THEN pad ELSE @[t]]]

RecordA(tick, pad) == A!RecordLocal(tick, pad) /\ Published("A", tick, pad)
RecordB(tick, pad) == B!RecordLocal(tick, pad) /\ Published("B", tick, pad)

ReceiveA(tick) == A!AcceptRemote(tick, sent["B"][tick]) /\ UNCHANGED sent
ReceiveB(tick) == B!AcceptRemote(tick, sent["A"][tick]) /\ UNCHANGED sent

ReceiveAgainA(tick) == A!AcceptDuplicate(tick) /\ UNCHANGED sent
ReceiveAgainB(tick) == B!AcceptDuplicate(tick) /\ UNCHANGED sent

PlanA == (A!PlanForward \/ A!PlanReplay) /\ UNCHANGED sent
PlanB == (B!PlanForward \/ B!PlanReplay) /\ UNCHANGED sent

CommitA == (A!CommitForward \/ A!CommitReplay) /\ UNCHANGED sent
CommitB == (B!CommitForward \/ B!CommitReplay) /\ UNCHANGED sent

PrefixA ==
    /\ \/ \E preFrame, confirmedEnd \in A!Tick : A!PlanConfirmedPrefix(preFrame, confirmedEnd)
       \/ A!CommitConfirmedPrefix
    /\ UNCHANGED sent

PrefixB ==
    /\ \/ \E preFrame, confirmedEnd \in B!Tick : B!PlanConfirmedPrefix(preFrame, confirmedEnd)
       \/ B!CommitConfirmedPrefix
    /\ UNCHANGED sent

\* A call of one peer settles what it newly confirms and leaves the other alone
OnA(call) == call /\ SettledA /\ UNCHANGED varsB
OnB(call) == call /\ SettledB /\ UNCHANGED varsA

RecordsA  == OnA(\E tick \in A!Tick, pad \in Produced : RecordA(tick, pad))
RecordsB  == OnB(\E tick \in B!Tick, pad \in Produced : RecordB(tick, pad))
ReceivesA == OnA(\E tick \in DOMAIN sent["B"] : ReceiveA(tick))
ReceivesB == OnB(\E tick \in DOMAIN sent["A"] : ReceiveB(tick))

Next ==
    \/ RecordsA \/ ReceivesA \/ OnA(PlanA) \/ OnA(CommitA) \/ OnA(PrefixA)
    \/ OnA(\E tick \in DOMAIN sent["B"] : ReceiveAgainA(tick))
    \/ RecordsB \/ ReceivesB \/ OnB(PlanB) \/ OnB(CommitB) \/ OnB(PrefixB)
    \/ OnB(\E tick \in DOMAIN sent["A"] : ReceiveAgainB(tick))

Spec == Init /\ [][Next]_vars

\* The caller's loop: it records whenever it may and, whatever else it does,
\* keeps planning; it commits a plan in the synchronous turn that issued it, so
\* an input that drops a plan now and then (SF) does not keep it from ever
\* committing.  A sent sample arrives.
Fairness ==
    /\ WF_vars(RecordsA)  /\ WF_vars(RecordsB)
    /\ WF_vars(ReceivesA) /\ WF_vars(ReceivesB)
    /\ SF_vars(OnA(PlanA))   /\ SF_vars(OnB(PlanB))
    /\ SF_vars(OnA(CommitA)) /\ SF_vars(OnB(CommitB))

FairSpec == Spec /\ Fairness

-----------------------------------------------------------------------------
Abstract == INSTANCE AgreedHistory

\* Two peers never settle different frames for a tick, and neither takes back
\* a settled frame, whatever the network does to the samples in between.
ImplementsAgreedHistory == Abstract!Spec

\* A settled frame holds the two samples that the players made for its tick,
\* and no prediction.
SettledIsPlayed ==
    \A p \in Peer : \A i \in DOMAIN history[p] :
        LET t == StartTick + i - 1
        IN  /\ t \in DOMAIN sent["A"] /\ t \in DOMAIN sent["B"]
            /\ history[p][i] = <<sent["A"][t], sent["B"][t]>>

\* A sample of an honest peer is never refused as too far ahead when the
\* lookahead exceeds the prediction bound by two (32 and 7 in the code).
HonestSampleFits ==
    /\ \A tick \in DOMAIN sent["B"] : A!InLookahead(tick)
    /\ \A tick \in DOMAIN sent["A"] : B!InLookahead(tick)

\* Neither peer waits forever on the other: as long as samples arrive, in
\* whatever order, both settle every tick up to the last one.
EveryTickSettles == \A p \in Peer : <>(Len(history[p]) = MaxTick - StartTick + 1)

=============================================================================
