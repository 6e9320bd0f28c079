-------------------------- MODULE RollbackPairProofs --------------------------
(***************************************************************************)
(* Proofs about RollbackPair for every value of its constants.  The two    *)
(* timelines bring what RollbackTimelineProofs proves of each of them; the *)
(* lemmas about peer B are those about peer A with the roles changed.      *)
(***************************************************************************)
EXTENDS RollbackPair, SequenceTheorems, TLAPS

AP == INSTANCE RollbackTimelineProofs WITH
        localInputs <- localA, remoteInputs <- remoteA, executedInputs <- executedA,
        remoteSeed <- seedA, localThrough <- localThroughA,
        remoteContiguousThrough <- contiguousA, simulatedThrough <- simulatedA,
        dirtyFrom <- dirtyA, plan <- planA, outstanding <- outstandingA,
        revised <- revisedA, phase <- phaseA, accepted <- acceptedA
BP == INSTANCE RollbackTimelineProofs WITH
        localInputs <- localB, remoteInputs <- remoteB, executedInputs <- executedB,
        remoteSeed <- seedB, localThrough <- localThroughB,
        remoteContiguousThrough <- contiguousB, simulatedThrough <- simulatedB,
        dirtyFrom <- dirtyB, plan <- planB, outstanding <- outstandingB,
        revised <- revisedB, phase <- phaseB, accepted <- acceptedB

Pads == Pad \X Pad

\* A peer has sent its sample of every tick up to its cursor, and still has it
SentInvA ==
    /\ DOMAIN sent["A"] = StartTick .. localThroughA
    /\ \A t \in DOMAIN sent["A"] : sent["A"][t] \in Pad
    /\ \A t \in DOMAIN localA : t \in DOMAIN sent["A"] /\ localA[t] = sent["A"][t]
SentInvB ==
    /\ DOMAIN sent["B"] = StartTick .. localThroughB
    /\ \A t \in DOMAIN sent["B"] : sent["B"][t] \in Pad
    /\ \A t \in DOMAIN localB : t \in DOMAIN sent["B"] /\ localB[t] = sent["B"][t]

\* What a peer has accepted was sent by the other one
HeardInvA == \A t \in DOMAIN acceptedA : t \in DOMAIN sent["B"] /\ acceptedA[t] = sent["B"][t]
HeardInvB == \A t \in DOMAIN acceptedB : t \in DOMAIN sent["A"] /\ acceptedB[t] = sent["A"][t]

\* A history goes up to the confirmed tick
LengthInv ==
    /\ sent = [p \in Peer |-> sent[p]]
    /\ history \in [Peer -> Seq(Pads)]
    /\ Len(history["A"]) = AP!ConfirmedThrough - StartTick + 1
    /\ Len(history["B"]) = BP!ConfirmedThrough - StartTick + 1

PairInv ==
    /\ AP!IInv /\ phaseA = "active" /\ SentInvA /\ HeardInvA
    /\ BP!IInv /\ phaseB = "active" /\ SentInvB /\ HeardInvB
    /\ LengthInv /\ SettledIsPlayed

-----------------------------------------------------------------------------
\* A sequence is a prefix of another one when they agree on its elements.
LEMMA PrefixByElements ==
    ASSUME NEW S, NEW s \in Seq(S), NEW t \in Seq(S), Len(s) <= Len(t),
           \A i \in 1 .. Len(s) : s[i] = t[i]
    PROVE  Abstract!IsPrefix(s, t)
<1>1. Len(s) \in Nat /\ Len(t) \in Nat
  OBVIOUS
<1> DEFINE n == Len(s)
<1>2. /\ SubSeq(s, 1, n) \in Seq(S) /\ Len(SubSeq(s, 1, n)) = n
      /\ \A i \in 1 .. n : SubSeq(s, 1, n)[i] = s[i]
  <2>1. \A i \in 1 .. n : s[i] \in S
    OBVIOUS
  <2>2. QED
    BY <1>1, <2>1, SubSeqProperties
<1>3. /\ SubSeq(t, 1, n) \in Seq(S) /\ Len(SubSeq(t, 1, n)) = n
      /\ \A i \in 1 .. n : SubSeq(t, 1, n)[i] = t[i]
  <2>1. \A i \in 1 .. n : t[i] \in S
    BY <1>1
  <2>2. QED
    BY <1>1, <2>1, SubSeqProperties
<1>4. SubSeq(s, 1, n) = SubSeq(t, 1, n)
  <2> HIDE DEF n
  <2> QED  BY <1>2, <1>3, SeqEqual DEF n
<1>5. QED
  BY <1>4 DEF Abstract!IsPrefix

LEMMA TimelineHolds == AP!TimelineAssumption /\ BP!TimelineAssumption
BY PairAssumption DEF AP!TimelineAssumption, BP!TimelineAssumption

\* The pair calls the actions of RollbackTimeline, under another name.
LEMMA SameActionsA ==
    /\ A!Init => AP!Init
    /\ \A tick, pad : A!RecordLocal(tick, pad) => AP!RecordLocal(tick, pad)
    /\ \A tick, pad : A!AcceptRemote(tick, pad) => AP!AcceptRemote(tick, pad)
    /\ \A tick : A!AcceptDuplicate(tick) => AP!AcceptDuplicate(tick)
    /\ A!PlanForward => AP!PlanForward
    /\ A!PlanReplay => AP!PlanReplay
    /\ \A s, t : A!PlanConfirmedPrefix(s, t) => AP!PlanConfirmedPrefix(s, t)
    /\ A!CommitForward => AP!CommitForward
    /\ A!CommitReplay => AP!CommitReplay
    /\ A!CommitConfirmedPrefix => AP!CommitConfirmedPrefix
    /\ A!ConfirmedThrough = AP!ConfirmedThrough
    /\ A!Tick = AP!Tick
<1> USE DEF A!Clean, AP!Clean, A!NoTick, AP!NoTick, A!NoPlan, AP!NoPlan, A!Empty, AP!Empty,
            A!NextTick, AP!NextTick, A!HistoryFloor, AP!HistoryFloor, A!DropPlan, AP!DropPlan,
            A!inputs, AP!inputs, A!cursors, AP!cursors
<1>1. A!Init => AP!Init
  BY DEF A!Init, AP!Init
<1>2. ASSUME NEW tick, NEW pad  PROVE A!RecordLocal(tick, pad) => AP!RecordLocal(tick, pad)
  BY DEF A!RecordLocal, AP!RecordLocal
<1>3. ASSUME NEW tick, NEW pad  PROVE A!AcceptRemote(tick, pad) => AP!AcceptRemote(tick, pad)
  BY DEF A!AcceptRemote, AP!AcceptRemote, A!InLookahead, AP!InLookahead, A!Contradicted,
         AP!Contradicted, A!ResolveRemote, AP!ResolveRemote, A!ContiguousFrom,
         AP!ContiguousFrom, A!TrimHistory, AP!TrimHistory, A!Retained, AP!Retained,
         A!Min, AP!Min, A!Max, AP!Max
<1>4. ASSUME NEW tick  PROVE A!AcceptDuplicate(tick) => AP!AcceptDuplicate(tick)
  BY DEF A!AcceptDuplicate, AP!AcceptDuplicate, A!InLookahead, AP!InLookahead
<1>5. A!PlanForward => AP!PlanForward
  BY DEF A!PlanForward, AP!PlanForward, A!CreatePlan, AP!CreatePlan, A!FramesOf, AP!FramesOf,
         A!ResolveRemote, AP!ResolveRemote, A!Max, AP!Max
<1>6. A!PlanReplay => AP!PlanReplay
  BY DEF A!PlanReplay, AP!PlanReplay, A!CreatePlan, AP!CreatePlan, A!FramesOf, AP!FramesOf,
         A!ResolveRemote, AP!ResolveRemote, A!Max, AP!Max
<1>7. ASSUME NEW s, NEW t  PROVE A!PlanConfirmedPrefix(s, t) => AP!PlanConfirmedPrefix(s, t)
  BY DEF A!PlanConfirmedPrefix, AP!PlanConfirmedPrefix, A!PrefixInterval, AP!PrefixInterval,
         A!CreatePlan, AP!CreatePlan, A!FramesOf, AP!FramesOf,
         A!ResolveRemote, AP!ResolveRemote, A!Max, AP!Max
<1>8. A!CommitForward => AP!CommitForward
  BY DEF A!CommitForward, AP!CommitForward, A!CurrentPlan, AP!CurrentPlan, A!FramesOf,
         AP!FramesOf, A!ResolveRemote, AP!ResolveRemote, A!Overwritten, AP!Overwritten,
         A!TrimHistory, AP!TrimHistory, A!Retained, AP!Retained, A!Max, AP!Max
<1>9. A!CommitReplay => AP!CommitReplay
  BY DEF A!CommitReplay, AP!CommitReplay, A!CurrentPlan, AP!CurrentPlan, A!CommitResolved,
         AP!CommitResolved, A!Overwritten, AP!Overwritten,
         A!TrimHistory, AP!TrimHistory, A!Retained, AP!Retained, A!Max, AP!Max
<1>10. A!CommitConfirmedPrefix => AP!CommitConfirmedPrefix
  BY DEF A!CommitConfirmedPrefix, AP!CommitConfirmedPrefix, A!PrefixInterval,
         AP!PrefixInterval, A!CurrentPlan, AP!CurrentPlan, A!CommitResolved,
         AP!CommitResolved, A!Overwritten, AP!Overwritten,
         A!TrimHistory, AP!TrimHistory, A!Retained, AP!Retained, A!Max, AP!Max
<1>11. A!ConfirmedThrough = AP!ConfirmedThrough /\ A!Tick = AP!Tick
  BY DEF A!ConfirmedThrough, AP!ConfirmedThrough, A!Min, AP!Min, A!Tick, AP!Tick
<1>12. QED
  BY <1>1, <1>2, <1>3, <1>4, <1>5, <1>6, <1>7, <1>8, <1>9, <1>10, <1>11

CallsA ==
    \/ RecordsA \/ ReceivesA \/ OnA(PlanA) \/ OnA(CommitA) \/ OnA(PrefixA)
    \/ OnA(\E tick \in DOMAIN sent["B"] : ReceiveAgainA(tick))

\* A call of A is a step of its timeline, and does one of three things to samples.
LEMMA CallKindsA ==
    ASSUME PairInv, CallsA
    PROVE  /\ AP!Next /\ SettledA /\ UNCHANGED varsB /\ phaseA' = "active"
           /\ \/ \E tick \in A!Tick, pad \in Pad :
                    RecordA(tick, pad)
              \/ \E tick \in DOMAIN sent["B"] : ReceiveA(tick)
              \/ /\ UNCHANGED <<sent, localThroughA, acceptedA>>
                 /\ \A t \in DOMAIN localA' : t \in DOMAIN localA /\ localA'[t] = localA[t]
<1>1. ASSUME NEW tick \in DOMAIN sent["B"]  PROVE tick \in AP!Tick /\ sent["B"][tick] \in Pad
  <2>1. localThroughB \in -1..MaxTick
    BY DEF PairInv, BP!IInv, BP!TypeOK
  <2>2. QED
    BY <2>1, PairAssumption DEF PairInv, SentInvB, AP!Tick
<1>2. CASE RecordsA
  <2>1. PICK tick \in A!Tick, pad \in Produced : RecordA(tick, pad)
    BY <1>2 DEF RecordsA, OnA
  <2>2. AP!RecordLocal(tick, pad) /\ tick \in AP!Tick /\ pad \in Pad
    BY <2>1, SameActionsA, PairAssumption DEF RecordA
  <2>3. AP!Next
    BY <2>2 DEF AP!Next
  <2>4. QED
    BY <1>2, <2>1, <2>2, <2>3 DEF RecordsA, OnA, PairInv, AP!RecordLocal
<1>3. CASE ReceivesA
  <2>1. PICK tick \in DOMAIN sent["B"] : ReceiveA(tick)
    BY <1>3 DEF ReceivesA, OnA
  <2>2. AP!AcceptRemote(tick, sent["B"][tick])
    BY <2>1, SameActionsA DEF ReceiveA
  <2>3. AP!Next
    BY <1>1, <2>2 DEF AP!Next
  <2>4. QED
    BY <1>3, <2>1, <2>2, <2>3 DEF ReceivesA, OnA, PairInv, AP!AcceptRemote
<1>4. CASE OnA(PlanA)
  <2>1. AP!PlanForward \/ AP!PlanReplay
    BY <1>4, SameActionsA DEF OnA, PlanA
  <2>2. AP!Next
    BY <2>1 DEF AP!Next
  <2>3. QED
    BY <1>4, <2>1, <2>2
       DEF OnA, PlanA, PairInv, AP!PlanForward, AP!PlanReplay, AP!inputs, AP!cursors
<1>5. CASE OnA(CommitA) \/ OnA(PrefixA)
  <2>1. \/ AP!CommitForward \/ AP!CommitReplay \/ AP!CommitConfirmedPrefix
        \/ \E s, t \in AP!Tick : AP!PlanConfirmedPrefix(s, t)
    BY <1>5, SameActionsA DEF OnA, CommitA, PrefixA
  <2>2. AP!Next
    BY <2>1 DEF AP!Next
  <2>3. /\ phaseA' = "active" /\ UNCHANGED <<localThroughA, acceptedA>>
        /\ \A t \in DOMAIN localA' : t \in DOMAIN localA /\ localA'[t] = localA[t]
    BY <2>1 DEF PairInv, AP!CommitForward, AP!CommitReplay, AP!CommitConfirmedPrefix,
                AP!CommitResolved, AP!PlanConfirmedPrefix, AP!TrimHistory, AP!Retained,
                AP!inputs, AP!cursors
  <2>4. QED
    BY <1>5, <2>2, <2>3 DEF OnA, CommitA, PrefixA
<1>6. CASE OnA(\E tick \in DOMAIN sent["B"] : ReceiveAgainA(tick))
  <2>1. PICK tick \in DOMAIN sent["B"] : ReceiveAgainA(tick)
    BY <1>6 DEF OnA
  <2>2. AP!AcceptDuplicate(tick)
    BY <2>1, SameActionsA DEF ReceiveAgainA
  <2>3. AP!Next
    BY <1>1, <2>2 DEF AP!Next
  <2>4. QED
    BY <1>6, <2>1, <2>2, <2>3
       DEF OnA, ReceiveAgainA, PairInv, AP!AcceptDuplicate, AP!inputs, AP!cursors
<1>7. QED
  BY <1>2, <1>3, <1>4, <1>5, <1>6 DEF CallsA

\* What was sent stays sent, and is what the peers hold and have heard.
LEMMA SamplesA ==
    ASSUME PairInv, CallsA
    PROVE  /\ SentInvA' /\ SentInvB' /\ HeardInvA' /\ HeardInvB'
           /\ sent' = [p \in Peer |-> sent'[p]]
           /\ \A p \in Peer : \A t \in DOMAIN sent[p] :
                 t \in DOMAIN sent'[p] /\ sent'[p][t] = sent[p][t]
<1> USE DEF Peer
<1>1. UNCHANGED varsB /\ sent = [p \in Peer |-> sent[p]]
  BY CallKindsA DEF PairInv, LengthInv
<1>2. localThroughA \in Int /\ localThroughA >= StartTick - 1
  BY PairAssumption DEF PairInv, AP!IInv, AP!TypeOK, AP!CursorInv
<1>3. CASE \E tick \in A!Tick, pad \in Pad : RecordA(tick, pad)
  <2>1. PICK tick \in AP!Tick, pad \in Pad : AP!RecordLocal(tick, pad) /\ Published("A", tick, pad)
    BY <1>3, SameActionsA DEF RecordA
  <2>2. tick = localThroughA + 1
    BY <1>2, <2>1, PairAssumption DEF AP!RecordLocal, AP!NextTick, AP!NoTick, AP!Tick
  <2>3. /\ localThroughA' = tick /\ acceptedA' = acceptedA
        /\ localA' = [t \in DOMAIN localA \cup {tick} |-> IF t = tick THEN pad ELSE localA[t]]
    BY <2>1 DEF AP!RecordLocal
  <2>4. /\ sent' = [p \in Peer |-> sent'[p]]
        /\ sent'["B"] = sent["B"]
        /\ sent'["A"] = [t \in DOMAIN sent["A"] \cup {tick} |-> IF t = tick THEN pad ELSE sent["A"][t]]
    BY <1>1, <2>1 DEF Published
  <2>5. DOMAIN sent["A"] = StartTick .. localThroughA /\ tick \notin DOMAIN sent["A"]
    BY <1>2, <2>2 DEF PairInv, SentInvA
  <2>6. DOMAIN sent'["A"] = StartTick .. localThroughA'
    BY <1>2, <2>2, <2>3, <2>4, <2>5, PairAssumption
  <2>7. SentInvA'
    <3>1. \A t \in DOMAIN sent'["A"] : sent'["A"][t] \in Pad
      BY <2>4 DEF PairInv, SentInvA
    <3>2. ASSUME NEW t \in DOMAIN localA'
          PROVE  t \in DOMAIN sent'["A"] /\ localA'[t] = sent'["A"][t]
      <4>1. CASE t = tick
        BY <2>3, <2>4, <4>1
      <4>2. CASE t # tick
        <5>1. t \in DOMAIN localA /\ localA'[t] = localA[t]
          BY <2>3, <4>2
        <5>2. localA[t] = sent["A"][t] /\ t \in DOMAIN sent["A"]
          BY <5>1 DEF PairInv, SentInvA
        <5>3. QED
          BY <2>4, <4>2, <5>1, <5>2
      <4>3. QED
        BY <4>1, <4>2
    <3>3. QED
      BY <2>6, <3>1, <3>2 DEF SentInvA
  <2>8. SentInvB' /\ HeardInvA'
    BY <1>1, <2>3, <2>4 DEF PairInv, SentInvB, HeardInvA, varsB
  <2>9. HeardInvB'
    BY <1>1, <2>4, <2>5 DEF PairInv, HeardInvB, varsB
  <2>10. \A p \in Peer : \A t \in DOMAIN sent[p] :
             t \in DOMAIN sent'[p] /\ sent'[p][t] = sent[p][t]
    BY <2>4, <2>5
  <2>11. QED
    BY <2>4, <2>7, <2>8, <2>9, <2>10
<1>4. CASE \E tick \in DOMAIN sent["B"] : ReceiveA(tick)
  <2>1. PICK tick \in DOMAIN sent["B"] : AP!AcceptRemote(tick, sent["B"][tick]) /\ sent' = sent
    BY <1>4, SameActionsA DEF ReceiveA
  <2>2. /\ localThroughA' = localThroughA
        /\ \A t \in DOMAIN localA' : t \in DOMAIN localA /\ localA'[t] = localA[t]
        /\ acceptedA' = [t \in DOMAIN acceptedA \cup {tick} |->
                            IF t = tick THEN sent["B"][tick] ELSE acceptedA[t]]
    BY <2>1 DEF AP!AcceptRemote, AP!TrimHistory, AP!Retained
  <2>3. HeardInvA'
    BY <2>1, <2>2 DEF PairInv, HeardInvA
  <2>4. SentInvA' /\ SentInvB' /\ HeardInvB'
    BY <1>1, <2>1, <2>2 DEF PairInv, SentInvA, SentInvB, HeardInvB, varsB
  <2>5. QED
    BY <1>1, <2>1, <2>3, <2>4
<1>5. CASE /\ UNCHANGED <<sent, localThroughA, acceptedA>>
           /\ \A t \in DOMAIN localA' : t \in DOMAIN localA /\ localA'[t] = localA[t]
  BY <1>1, <1>5 DEF PairInv, SentInvA, SentInvB, HeardInvA, HeardInvB, varsB
<1>6. QED
  BY <1>3, <1>4, <1>5, CallKindsA

LEMMA ConfirmedA ==
    /\ A!ConfirmedThrough' = AP!ConfirmedThrough'
    /\ AP!IInv => AP!ConfirmedThrough \in Int
    /\ AP!IInv' => AP!ConfirmedThrough' \in Int
<1>1. (A!ConfirmedThrough = AP!ConfirmedThrough)'
  BY SameActionsA, PTL
<1>2. AP!IInv => AP!ConfirmedThrough \in Int
  BY TimelineHolds, AP!ConfirmedValue
<1>3. (AP!IInv => AP!ConfirmedThrough \in Int)'
  BY <1>2, PTL
<1>4. QED
  BY <1>1, <1>2, <1>3

\* A call of A prolongs its history, by frames that both players made.
LEMMA HistoryA ==
    ASSUME PairInv, CallsA, AP!IInv'
    PROVE  /\ LengthInv' /\ SettledIsPlayed' /\ history'["B"] = history["B"]
           /\ Abstract!IsPrefix(history["A"], history'["A"])
<1>1. /\ AP!Next /\ SettledA /\ UNCHANGED varsB /\ phaseA' = "active" /\ AP!IInv
  BY CallKindsA DEF PairInv
<1>2. /\ SentInvA' /\ HeardInvA' /\ sent' = [p \in Peer |-> sent'[p]]
      /\ \A p \in Peer : \A t \in DOMAIN sent[p] :
            t \in DOMAIN sent'[p] /\ sent'[p][t] = sent[p][t]
  BY SamplesA
<1> DEFINE h == history["A"]
           Frames(t) == <<sent'["A"][t], sent'["B"][t]>>
           Sent(t) == t \in DOMAIN sent'["A"] /\ t \in DOMAIN sent'["B"]
<1>3. /\ h \in Seq(Pads) /\ history["B"] \in Seq(Pads) /\ history = [p \in Peer |-> history[p]]
  BY DEF PairInv, LengthInv, Peer
<1>4. PICK c \in Int : c = AP!ConfirmedThrough /\ Len(h) = c - StartTick + 1
  BY <1>1, ConfirmedA DEF PairInv, LengthInv
<1>5. PICK d \in Int : d = AP!ConfirmedThrough' /\ c <= d
  <2>1. AP!ConfirmedThrough' >= AP!ConfirmedThrough
    BY <1>1, TimelineHolds, AP!ConfirmedStepInv DEF AP!ConfirmedStep
  <2>2. QED
    BY <1>1, <1>4, <2>1, ConfirmedA
<1> DEFINE n == d - StartTick + 1
<1>6. n \in Nat /\ Len(h) \in Nat /\ Len(h) <= n
  BY <1>3, <1>4, <1>5, PairAssumption, SMTT(30)
<1>7. /\ history'["A"] = [i \in 1..n |-> IF i <= Len(h) THEN h[i] ELSE FrameA(StartTick + i - 1)']
      /\ history'["B"] = history["B"] /\ history' = [p \in Peer |-> history'[p]]
  BY <1>1, <1>3, <1>5, ConfirmedA DEF SettledA, Peer
<1>8. ASSUME NEW i \in 1..n, ~(i <= Len(h))
      PROVE  /\ FrameA(StartTick + i - 1)' = Frames(StartTick + i - 1)
             /\ Sent(StartTick + i - 1) /\ Frames(StartTick + i - 1) \in Pads
  <2> DEFINE t == StartTick + i - 1
  <2>1. t \in Int /\ t > c /\ t <= d
    BY <1>4, <1>6, <1>8, PairAssumption
  <2> HIDE DEF t
  <2>2. /\ t \in DOMAIN localA' /\ t \in DOMAIN acceptedA'
        /\ executedA'[t] = [local |-> localA'[t], remote |-> acceptedA'[t]]
    BY <1>1, <1>4, <1>5, <2>1, TimelineHolds, AP!SettledRows
  <2>3. /\ localA'[t] = sent'["A"][t] /\ t \in DOMAIN sent'["A"]
        /\ acceptedA'[t] = sent'["B"][t] /\ t \in DOMAIN sent'["B"]
    BY <1>2, <2>2 DEF SentInvA, HeardInvA
  <2>4. FrameA(t)' = Frames(t)
    BY <2>2, <2>3 DEF FrameA
  <2>5. Frames(t) \in Pads
    BY <2>3, SamplesA DEF Pads, SentInvA, SentInvB
  <2>6. QED
    BY <2>3, <2>4, <2>5 DEF t
<1>9. ASSUME NEW i \in 1..Len(h)
      PROVE  h[i] = Frames(StartTick + i - 1) /\ Sent(StartTick + i - 1) /\ h[i] \in Pads
  <2>1. /\ StartTick + i - 1 \in DOMAIN sent["A"] /\ StartTick + i - 1 \in DOMAIN sent["B"]
        /\ h[i] = <<sent["A"][StartTick + i - 1], sent["B"][StartTick + i - 1]>>
    BY <1>3, <1>6 DEF PairInv, SettledIsPlayed, Peer
  <2>2. h[i] \in Pads
    BY <1>3
  <2>3. QED
    BY <1>2, <2>1, <2>2 DEF Peer
<1>10. ASSUME NEW i \in 1..Len(history["B"])
       PROVE  history["B"][i] = Frames(StartTick + i - 1) /\ Sent(StartTick + i - 1)
  <2>1. /\ StartTick + i - 1 \in DOMAIN sent["A"] /\ StartTick + i - 1 \in DOMAIN sent["B"]
        /\ history["B"][i] = <<sent["A"][StartTick + i - 1], sent["B"][StartTick + i - 1]>>
    BY <1>3 DEF PairInv, SettledIsPlayed, Peer
  <2>2. QED
    BY <1>2, <2>1 DEF Peer
<1> HIDE DEF h, n, Frames, Sent
<1>11. \A i \in 1..n : /\ history'["A"][i] = Frames(StartTick + i - 1)
                       /\ Sent(StartTick + i - 1) /\ history'["A"][i] \in Pads
  <2> TAKE i \in 1..n
  <2>1. CASE i <= Len(h)
    <3>1. i \in 1..Len(h)
      BY <1>6, <2>1
    <3>2. history'["A"][i] = h[i]
      BY <1>7, <2>1
    <3>3. QED
      BY <1>9, <3>1, <3>2
  <2>2. CASE ~(i <= Len(h))
    <3>1. history'["A"][i] = FrameA(StartTick + i - 1)'
      BY <1>7, <2>2
    <3>2. QED
      BY <1>8, <2>2, <3>1
  <2>3. QED
    BY <2>1, <2>2
<1>12. history'["A"] \in Seq(Pads) /\ Len(history'["A"]) = n /\ DOMAIN history'["A"] = 1..n
  <2>1. DOMAIN history'["A"] = 1..n /\ history'["A"] = [i \in 1..n |-> history'["A"][i]]
    BY <1>7
  <2>2. history'["A"] \in [1..n -> Pads]
    BY <1>11, <2>1
  <2>3. QED
    BY <1>6, <2>1, <2>2
<1>13. LengthInv'
  <2>1. history' \in [Peer -> Seq(Pads)]
    BY <1>3, <1>7, <1>12 DEF Peer
  <2>2. Len(history'["A"]) = AP!ConfirmedThrough' - StartTick + 1
    BY <1>5, <1>12 DEF n
  <2>3. BP!ConfirmedThrough' = BP!ConfirmedThrough
    BY <1>1 DEF varsB, BP!ConfirmedThrough
  <2>4. Len(history'["B"]) = BP!ConfirmedThrough' - StartTick + 1
    BY <1>7, <2>3 DEF PairInv, LengthInv
  <2>5. QED
    BY <1>2, <2>1, <2>2, <2>4 DEF LengthInv
<1>14. SettledIsPlayed'
  <2>1. ASSUME NEW i \in DOMAIN history'["A"]
        PROVE  history'["A"][i] = Frames(StartTick + i - 1) /\ Sent(StartTick + i - 1)
    BY <1>11, <1>12
  <2>2. ASSUME NEW i \in DOMAIN history'["B"]
        PROVE  history'["B"][i] = Frames(StartTick + i - 1) /\ Sent(StartTick + i - 1)
    <3>1. history'["B"] = history["B"]
      BY <1>7
    <3>2. i \in 1..Len(history["B"])
      BY <1>3, <2>2, <3>1
    <3>3. QED
      BY <1>10, <3>1, <3>2
  <2>3. QED
    BY <2>1, <2>2 DEF SettledIsPlayed, Peer, Frames, Sent
<1>15. Abstract!IsPrefix(h, history'["A"])
  <2>1. \A i \in 1..Len(h) : h[i] = history'["A"][i]
    <3> TAKE i \in 1..Len(h)
    <3>1. i \in 1..n
      BY <1>6
    <3>2. QED
      BY <1>9, <1>11, <3>1
  <2>2. h \in Seq(Pads) /\ Len(h) <= Len(history'["A"])
    BY <1>3, <1>6, <1>12
  <2>3. QED
    BY <1>12, <2>1, <2>2, PrefixByElements
<1>16. QED
  BY <1>7, <1>13, <1>14, <1>15 DEF h

LEMMA CallsInvA == PairInv /\ CallsA => PairInv'
<1> SUFFICES ASSUME PairInv, CallsA  PROVE PairInv'
  OBVIOUS
<1>1. /\ AP!Next /\ UNCHANGED varsB /\ phaseA' = "active"
  BY CallKindsA
<1>2. AP!IInv'
  BY <1>1, TimelineHolds, AP!NextInv DEF PairInv
<1>3. BP!IInv'
  <2>1. UNCHANGED BP!vars
    BY <1>1 DEF varsB, BP!vars, BP!inputs, BP!cursors, BP!planned
  <2>2. QED
    BY <2>1, TimelineHolds, BP!NextInv DEF PairInv
<1>4. phaseB' = "active"
  BY <1>1 DEF PairInv, varsB
<1>5. QED
  BY <1>1, <1>2, <1>3, <1>4, SamplesA, HistoryA DEF PairInv

-----------------------------------------------------------------------------
\* The pair calls the actions of RollbackTimeline, under another name.
LEMMA SameActionsB ==
    /\ B!Init => BP!Init
    /\ \A tick, pad : B!RecordLocal(tick, pad) => BP!RecordLocal(tick, pad)
    /\ \A tick, pad : B!AcceptRemote(tick, pad) => BP!AcceptRemote(tick, pad)
    /\ \A tick : B!AcceptDuplicate(tick) => BP!AcceptDuplicate(tick)
    /\ B!PlanForward => BP!PlanForward
    /\ B!PlanReplay => BP!PlanReplay
    /\ \A s, t : B!PlanConfirmedPrefix(s, t) => BP!PlanConfirmedPrefix(s, t)
    /\ B!CommitForward => BP!CommitForward
    /\ B!CommitReplay => BP!CommitReplay
    /\ B!CommitConfirmedPrefix => BP!CommitConfirmedPrefix
    /\ B!ConfirmedThrough = BP!ConfirmedThrough
    /\ B!Tick = BP!Tick
<1> USE DEF B!Clean, BP!Clean, B!NoTick, BP!NoTick, B!NoPlan, BP!NoPlan, B!Empty, BP!Empty,
            B!NextTick, BP!NextTick, B!HistoryFloor, BP!HistoryFloor, B!DropPlan, BP!DropPlan,
            B!inputs, BP!inputs, B!cursors, BP!cursors
<1>1. B!Init => BP!Init
  BY DEF B!Init, BP!Init
<1>2. ASSUME NEW tick, NEW pad  PROVE B!RecordLocal(tick, pad) => BP!RecordLocal(tick, pad)
  BY DEF B!RecordLocal, BP!RecordLocal
<1>3. ASSUME NEW tick, NEW pad  PROVE B!AcceptRemote(tick, pad) => BP!AcceptRemote(tick, pad)
  BY DEF B!AcceptRemote, BP!AcceptRemote, B!InLookahead, BP!InLookahead, B!Contradicted,
         BP!Contradicted, B!ResolveRemote, BP!ResolveRemote, B!ContiguousFrom,
         BP!ContiguousFrom, B!TrimHistory, BP!TrimHistory, B!Retained, BP!Retained,
         B!Min, BP!Min, B!Max, BP!Max
<1>4. ASSUME NEW tick  PROVE B!AcceptDuplicate(tick) => BP!AcceptDuplicate(tick)
  BY DEF B!AcceptDuplicate, BP!AcceptDuplicate, B!InLookahead, BP!InLookahead
<1>5. B!PlanForward => BP!PlanForward
  BY DEF B!PlanForward, BP!PlanForward, B!CreatePlan, BP!CreatePlan, B!FramesOf, BP!FramesOf,
         B!ResolveRemote, BP!ResolveRemote, B!Max, BP!Max
<1>6. B!PlanReplay => BP!PlanReplay
  BY DEF B!PlanReplay, BP!PlanReplay, B!CreatePlan, BP!CreatePlan, B!FramesOf, BP!FramesOf,
         B!ResolveRemote, BP!ResolveRemote, B!Max, BP!Max
<1>7. ASSUME NEW s, NEW t  PROVE B!PlanConfirmedPrefix(s, t) => BP!PlanConfirmedPrefix(s, t)
  BY DEF B!PlanConfirmedPrefix, BP!PlanConfirmedPrefix, B!PrefixInterval, BP!PrefixInterval,
         B!CreatePlan, BP!CreatePlan, B!FramesOf, BP!FramesOf,
         B!ResolveRemote, BP!ResolveRemote, B!Max, BP!Max
<1>8. B!CommitForward => BP!CommitForward
  BY DEF B!CommitForward, BP!CommitForward, B!CurrentPlan, BP!CurrentPlan, B!FramesOf,
         BP!FramesOf, B!ResolveRemote, BP!ResolveRemote, B!Overwritten, BP!Overwritten,
         B!TrimHistory, BP!TrimHistory, B!Retained, BP!Retained, B!Max, BP!Max
<1>9. B!CommitReplay => BP!CommitReplay
  BY DEF B!CommitReplay, BP!CommitReplay, B!CurrentPlan, BP!CurrentPlan, B!CommitResolved,
         BP!CommitResolved, B!Overwritten, BP!Overwritten,
         B!TrimHistory, BP!TrimHistory, B!Retained, BP!Retained, B!Max, BP!Max
<1>10. B!CommitConfirmedPrefix => BP!CommitConfirmedPrefix
  BY DEF B!CommitConfirmedPrefix, BP!CommitConfirmedPrefix, B!PrefixInterval,
         BP!PrefixInterval, B!CurrentPlan, BP!CurrentPlan, B!CommitResolved,
         BP!CommitResolved, B!Overwritten, BP!Overwritten,
         B!TrimHistory, BP!TrimHistory, B!Retained, BP!Retained, B!Max, BP!Max
<1>11. B!ConfirmedThrough = BP!ConfirmedThrough /\ B!Tick = BP!Tick
  BY DEF B!ConfirmedThrough, BP!ConfirmedThrough, B!Min, BP!Min, B!Tick, BP!Tick
<1>12. QED
  BY <1>1, <1>2, <1>3, <1>4, <1>5, <1>6, <1>7, <1>8, <1>9, <1>10, <1>11

CallsB ==
    \/ RecordsB \/ ReceivesB \/ OnB(PlanB) \/ OnB(CommitB) \/ OnB(PrefixB)
    \/ OnB(\E tick \in DOMAIN sent["A"] : ReceiveAgainB(tick))

\* A call of B is a step of its timeline, and does one of three things to samples.
LEMMA CallKindsB ==
    ASSUME PairInv, CallsB
    PROVE  /\ BP!Next /\ SettledB /\ UNCHANGED varsA /\ phaseB' = "active"
           /\ \/ \E tick \in B!Tick, pad \in Pad :
                    RecordB(tick, pad)
              \/ \E tick \in DOMAIN sent["A"] : ReceiveB(tick)
              \/ /\ UNCHANGED <<sent, localThroughB, acceptedB>>
                 /\ \A t \in DOMAIN localB' : t \in DOMAIN localB /\ localB'[t] = localB[t]
<1>1. ASSUME NEW tick \in DOMAIN sent["A"]  PROVE tick \in BP!Tick /\ sent["A"][tick] \in Pad
  <2>1. localThroughA \in -1..MaxTick
    BY DEF PairInv, AP!IInv, AP!TypeOK
  <2>2. QED
    BY <2>1, PairAssumption DEF PairInv, SentInvA, BP!Tick
<1>2. CASE RecordsB
  <2>1. PICK tick \in B!Tick, pad \in Produced : RecordB(tick, pad)
    BY <1>2 DEF RecordsB, OnB
  <2>2. BP!RecordLocal(tick, pad) /\ tick \in BP!Tick /\ pad \in Pad
    BY <2>1, SameActionsB, PairAssumption DEF RecordB
  <2>3. BP!Next
    BY <2>2 DEF BP!Next
  <2>4. QED
    BY <1>2, <2>1, <2>2, <2>3 DEF RecordsB, OnB, PairInv, BP!RecordLocal
<1>3. CASE ReceivesB
  <2>1. PICK tick \in DOMAIN sent["A"] : ReceiveB(tick)
    BY <1>3 DEF ReceivesB, OnB
  <2>2. BP!AcceptRemote(tick, sent["A"][tick])
    BY <2>1, SameActionsB DEF ReceiveB
  <2>3. BP!Next
    BY <1>1, <2>2 DEF BP!Next
  <2>4. QED
    BY <1>3, <2>1, <2>2, <2>3 DEF ReceivesB, OnB, PairInv, BP!AcceptRemote
<1>4. CASE OnB(PlanB)
  <2>1. BP!PlanForward \/ BP!PlanReplay
    BY <1>4, SameActionsB DEF OnB, PlanB
  <2>2. BP!Next
    BY <2>1 DEF BP!Next
  <2>3. QED
    BY <1>4, <2>1, <2>2
       DEF OnB, PlanB, PairInv, BP!PlanForward, BP!PlanReplay, BP!inputs, BP!cursors
<1>5. CASE OnB(CommitB) \/ OnB(PrefixB)
  <2>1. \/ BP!CommitForward \/ BP!CommitReplay \/ BP!CommitConfirmedPrefix
        \/ \E s, t \in BP!Tick : BP!PlanConfirmedPrefix(s, t)
    BY <1>5, SameActionsB DEF OnB, CommitB, PrefixB
  <2>2. BP!Next
    BY <2>1 DEF BP!Next
  <2>3. /\ phaseB' = "active" /\ UNCHANGED <<localThroughB, acceptedB>>
        /\ \A t \in DOMAIN localB' : t \in DOMAIN localB /\ localB'[t] = localB[t]
    BY <2>1 DEF PairInv, BP!CommitForward, BP!CommitReplay, BP!CommitConfirmedPrefix,
                BP!CommitResolved, BP!PlanConfirmedPrefix, BP!TrimHistory, BP!Retained,
                BP!inputs, BP!cursors
  <2>4. QED
    BY <1>5, <2>2, <2>3 DEF OnB, CommitB, PrefixB
<1>6. CASE OnB(\E tick \in DOMAIN sent["A"] : ReceiveAgainB(tick))
  <2>1. PICK tick \in DOMAIN sent["A"] : ReceiveAgainB(tick)
    BY <1>6 DEF OnB
  <2>2. BP!AcceptDuplicate(tick)
    BY <2>1, SameActionsB DEF ReceiveAgainB
  <2>3. BP!Next
    BY <1>1, <2>2 DEF BP!Next
  <2>4. QED
    BY <1>6, <2>1, <2>2, <2>3
       DEF OnB, ReceiveAgainB, PairInv, BP!AcceptDuplicate, BP!inputs, BP!cursors
<1>7. QED
  BY <1>2, <1>3, <1>4, <1>5, <1>6 DEF CallsB

\* What was sent stays sent, and is what the peers hold and have heard.
LEMMA SamplesB ==
    ASSUME PairInv, CallsB
    PROVE  /\ SentInvB' /\ SentInvA' /\ HeardInvB' /\ HeardInvA'
           /\ sent' = [p \in Peer |-> sent'[p]]
           /\ \A p \in Peer : \A t \in DOMAIN sent[p] :
                 t \in DOMAIN sent'[p] /\ sent'[p][t] = sent[p][t]
<1> USE DEF Peer
<1>1. UNCHANGED varsA /\ sent = [p \in Peer |-> sent[p]]
  BY CallKindsB DEF PairInv, LengthInv
<1>2. localThroughB \in Int /\ localThroughB >= StartTick - 1
  BY PairAssumption DEF PairInv, BP!IInv, BP!TypeOK, BP!CursorInv
<1>3. CASE \E tick \in B!Tick, pad \in Pad : RecordB(tick, pad)
  <2>1. PICK tick \in BP!Tick, pad \in Pad : BP!RecordLocal(tick, pad) /\ Published("B", tick, pad)
    BY <1>3, SameActionsB DEF RecordB
  <2>2. tick = localThroughB + 1
    BY <1>2, <2>1, PairAssumption DEF BP!RecordLocal, BP!NextTick, BP!NoTick, BP!Tick
  <2>3. /\ localThroughB' = tick /\ acceptedB' = acceptedB
        /\ localB' = [t \in DOMAIN localB \cup {tick} |-> IF t = tick THEN pad ELSE localB[t]]
    BY <2>1 DEF BP!RecordLocal
  <2>4. /\ sent' = [p \in Peer |-> sent'[p]]
        /\ sent'["A"] = sent["A"]
        /\ sent'["B"] = [t \in DOMAIN sent["B"] \cup {tick} |-> IF t = tick THEN pad ELSE sent["B"][t]]
    BY <1>1, <2>1 DEF Published
  <2>5. DOMAIN sent["B"] = StartTick .. localThroughB /\ tick \notin DOMAIN sent["B"]
    BY <1>2, <2>2 DEF PairInv, SentInvB
  <2>6. DOMAIN sent'["B"] = StartTick .. localThroughB'
    BY <1>2, <2>2, <2>3, <2>4, <2>5, PairAssumption
  <2>7. SentInvB'
    <3>1. \A t \in DOMAIN sent'["B"] : sent'["B"][t] \in Pad
      BY <2>4 DEF PairInv, SentInvB
    <3>2. ASSUME NEW t \in DOMAIN localB'
          PROVE  t \in DOMAIN sent'["B"] /\ localB'[t] = sent'["B"][t]
      <4>1. CASE t = tick
        BY <2>3, <2>4, <4>1
      <4>2. CASE t # tick
        <5>1. t \in DOMAIN localB /\ localB'[t] = localB[t]
          BY <2>3, <4>2
        <5>2. localB[t] = sent["B"][t] /\ t \in DOMAIN sent["B"]
          BY <5>1 DEF PairInv, SentInvB
        <5>3. QED
          BY <2>4, <4>2, <5>1, <5>2
      <4>3. QED
        BY <4>1, <4>2
    <3>3. QED
      BY <2>6, <3>1, <3>2 DEF SentInvB
  <2>8. SentInvA' /\ HeardInvB'
    BY <1>1, <2>3, <2>4 DEF PairInv, SentInvA, HeardInvB, varsA
  <2>9. HeardInvA'
    BY <1>1, <2>4, <2>5 DEF PairInv, HeardInvA, varsA
  <2>10. \A p \in Peer : \A t \in DOMAIN sent[p] :
             t \in DOMAIN sent'[p] /\ sent'[p][t] = sent[p][t]
    BY <2>4, <2>5
  <2>11. QED
    BY <2>4, <2>7, <2>8, <2>9, <2>10
<1>4. CASE \E tick \in DOMAIN sent["A"] : ReceiveB(tick)
  <2>1. PICK tick \in DOMAIN sent["A"] : BP!AcceptRemote(tick, sent["A"][tick]) /\ sent' = sent
    BY <1>4, SameActionsB DEF ReceiveB
  <2>2. /\ localThroughB' = localThroughB
        /\ \A t \in DOMAIN localB' : t \in DOMAIN localB /\ localB'[t] = localB[t]
        /\ acceptedB' = [t \in DOMAIN acceptedB \cup {tick} |->
                            IF t = tick THEN sent["A"][tick] ELSE acceptedB[t]]
    BY <2>1 DEF BP!AcceptRemote, BP!TrimHistory, BP!Retained
  <2>3. HeardInvB'
    BY <2>1, <2>2 DEF PairInv, HeardInvB
  <2>4. SentInvB' /\ SentInvA' /\ HeardInvA'
    BY <1>1, <2>1, <2>2 DEF PairInv, SentInvB, SentInvA, HeardInvA, varsA
  <2>5. QED
    BY <1>1, <2>1, <2>3, <2>4
<1>5. CASE /\ UNCHANGED <<sent, localThroughB, acceptedB>>
           /\ \A t \in DOMAIN localB' : t \in DOMAIN localB /\ localB'[t] = localB[t]
  BY <1>1, <1>5 DEF PairInv, SentInvB, SentInvA, HeardInvB, HeardInvA, varsA
<1>6. QED
  BY <1>3, <1>4, <1>5, CallKindsB

LEMMA ConfirmedB ==
    /\ B!ConfirmedThrough' = BP!ConfirmedThrough'
    /\ BP!IInv => BP!ConfirmedThrough \in Int
    /\ BP!IInv' => BP!ConfirmedThrough' \in Int
<1>1. (B!ConfirmedThrough = BP!ConfirmedThrough)'
  BY SameActionsB, PTL
<1>2. BP!IInv => BP!ConfirmedThrough \in Int
  BY TimelineHolds, BP!ConfirmedValue
<1>3. (BP!IInv => BP!ConfirmedThrough \in Int)'
  BY <1>2, PTL
<1>4. QED
  BY <1>1, <1>2, <1>3

\* A call of B prolongs its history, by frames that both players made.
LEMMA HistoryB ==
    ASSUME PairInv, CallsB, BP!IInv'
    PROVE  /\ LengthInv' /\ SettledIsPlayed' /\ history'["A"] = history["A"]
           /\ Abstract!IsPrefix(history["B"], history'["B"])
<1>1. /\ BP!Next /\ SettledB /\ UNCHANGED varsA /\ phaseB' = "active" /\ BP!IInv
  BY CallKindsB DEF PairInv
<1>2. /\ SentInvB' /\ HeardInvB' /\ sent' = [p \in Peer |-> sent'[p]]
      /\ \A p \in Peer : \A t \in DOMAIN sent[p] :
            t \in DOMAIN sent'[p] /\ sent'[p][t] = sent[p][t]
  BY SamplesB
<1> DEFINE h == history["B"]
           Frames(t) == <<sent'["A"][t], sent'["B"][t]>>
           Sent(t) == t \in DOMAIN sent'["B"] /\ t \in DOMAIN sent'["A"]
<1>3. /\ h \in Seq(Pads) /\ history["A"] \in Seq(Pads) /\ history = [p \in Peer |-> history[p]]
  BY DEF PairInv, LengthInv, Peer
<1>4. PICK c \in Int : c = BP!ConfirmedThrough /\ Len(h) = c - StartTick + 1
  BY <1>1, ConfirmedB DEF PairInv, LengthInv
<1>5. PICK d \in Int : d = BP!ConfirmedThrough' /\ c <= d
  <2>1. BP!ConfirmedThrough' >= BP!ConfirmedThrough
    BY <1>1, TimelineHolds, BP!ConfirmedStepInv DEF BP!ConfirmedStep
  <2>2. QED
    BY <1>1, <1>4, <2>1, ConfirmedB
<1> DEFINE n == d - StartTick + 1
<1>6. n \in Nat /\ Len(h) \in Nat /\ Len(h) <= n
  BY <1>3, <1>4, <1>5, PairAssumption, SMTT(30)
<1>7. /\ history'["B"] = [i \in 1..n |-> IF i <= Len(h) THEN h[i] ELSE FrameB(StartTick + i - 1)']
      /\ history'["A"] = history["A"] /\ history' = [p \in Peer |-> history'[p]]
  BY <1>1, <1>3, <1>5, ConfirmedB DEF SettledB, Peer
<1>8. ASSUME NEW i \in 1..n, ~(i <= Len(h))
      PROVE  /\ FrameB(StartTick + i - 1)' = Frames(StartTick + i - 1)
             /\ Sent(StartTick + i - 1) /\ Frames(StartTick + i - 1) \in Pads
  <2> DEFINE t == StartTick + i - 1
  <2>1. t \in Int /\ t > c /\ t <= d
    BY <1>4, <1>6, <1>8, PairAssumption
  <2> HIDE DEF t
  <2>2. /\ t \in DOMAIN localB' /\ t \in DOMAIN acceptedB'
        /\ executedB'[t] = [local |-> localB'[t], remote |-> acceptedB'[t]]
    BY <1>1, <1>4, <1>5, <2>1, TimelineHolds, BP!SettledRows
  <2>3. /\ localB'[t] = sent'["B"][t] /\ t \in DOMAIN sent'["B"]
        /\ acceptedB'[t] = sent'["A"][t] /\ t \in DOMAIN sent'["A"]
    BY <1>2, <2>2 DEF SentInvB, HeardInvB
  <2>4. FrameB(t)' = Frames(t)
    BY <2>2, <2>3 DEF FrameB
  <2>5. Frames(t) \in Pads
    BY <2>3, SamplesB DEF Pads, SentInvB, SentInvA
  <2>6. QED
    BY <2>3, <2>4, <2>5 DEF t
<1>9. ASSUME NEW i \in 1..Len(h)
      PROVE  h[i] = Frames(StartTick + i - 1) /\ Sent(StartTick + i - 1) /\ h[i] \in Pads
  <2>1. /\ StartTick + i - 1 \in DOMAIN sent["B"] /\ StartTick + i - 1 \in DOMAIN sent["A"]
        /\ h[i] = <<sent["A"][StartTick + i - 1], sent["B"][StartTick + i - 1]>>
    BY <1>3, <1>6 DEF PairInv, SettledIsPlayed, Peer
  <2>2. h[i] \in Pads
    BY <1>3
  <2>3. QED
    BY <1>2, <2>1, <2>2 DEF Peer
<1>10. ASSUME NEW i \in 1..Len(history["A"])
       PROVE  history["A"][i] = Frames(StartTick + i - 1) /\ Sent(StartTick + i - 1)
  <2>1. /\ StartTick + i - 1 \in DOMAIN sent["B"] /\ StartTick + i - 1 \in DOMAIN sent["A"]
        /\ history["A"][i] = <<sent["A"][StartTick + i - 1], sent["B"][StartTick + i - 1]>>
    BY <1>3 DEF PairInv, SettledIsPlayed, Peer
  <2>2. QED
    BY <1>2, <2>1 DEF Peer
<1> HIDE DEF h, n, Frames, Sent
<1>11. \A i \in 1..n : /\ history'["B"][i] = Frames(StartTick + i - 1)
                       /\ Sent(StartTick + i - 1) /\ history'["B"][i] \in Pads
  <2> TAKE i \in 1..n
  <2>1. CASE i <= Len(h)
    <3>1. i \in 1..Len(h)
      BY <1>6, <2>1
    <3>2. history'["B"][i] = h[i]
      BY <1>7, <2>1
    <3>3. QED
      BY <1>9, <3>1, <3>2
  <2>2. CASE ~(i <= Len(h))
    <3>1. history'["B"][i] = FrameB(StartTick + i - 1)'
      BY <1>7, <2>2
    <3>2. QED
      BY <1>8, <2>2, <3>1
  <2>3. QED
    BY <2>1, <2>2
<1>12. history'["B"] \in Seq(Pads) /\ Len(history'["B"]) = n /\ DOMAIN history'["B"] = 1..n
  <2>1. DOMAIN history'["B"] = 1..n /\ history'["B"] = [i \in 1..n |-> history'["B"][i]]
    BY <1>7
  <2>2. history'["B"] \in [1..n -> Pads]
    BY <1>11, <2>1
  <2>3. QED
    BY <1>6, <2>1, <2>2
<1>13. LengthInv'
  <2>1. history' \in [Peer -> Seq(Pads)]
    BY <1>3, <1>7, <1>12 DEF Peer
  <2>2. Len(history'["B"]) = BP!ConfirmedThrough' - StartTick + 1
    BY <1>5, <1>12 DEF n
  <2>3. AP!ConfirmedThrough' = AP!ConfirmedThrough
    BY <1>1 DEF varsA, AP!ConfirmedThrough
  <2>4. Len(history'["A"]) = AP!ConfirmedThrough' - StartTick + 1
    BY <1>7, <2>3 DEF PairInv, LengthInv
  <2>5. QED
    BY <1>2, <2>1, <2>2, <2>4 DEF LengthInv
<1>14. SettledIsPlayed'
  <2>1. ASSUME NEW i \in DOMAIN history'["B"]
        PROVE  history'["B"][i] = Frames(StartTick + i - 1) /\ Sent(StartTick + i - 1)
    BY <1>11, <1>12
  <2>2. ASSUME NEW i \in DOMAIN history'["A"]
        PROVE  history'["A"][i] = Frames(StartTick + i - 1) /\ Sent(StartTick + i - 1)
    <3>1. history'["A"] = history["A"]
      BY <1>7
    <3>2. i \in 1..Len(history["A"])
      BY <1>3, <2>2, <3>1
    <3>3. QED
      BY <1>10, <3>1, <3>2
  <2>3. QED
    BY <2>1, <2>2 DEF SettledIsPlayed, Peer, Frames, Sent
<1>15. Abstract!IsPrefix(h, history'["B"])
  <2>1. \A i \in 1..Len(h) : h[i] = history'["B"][i]
    <3> TAKE i \in 1..Len(h)
    <3>1. i \in 1..n
      BY <1>6
    <3>2. QED
      BY <1>9, <1>11, <3>1
  <2>2. h \in Seq(Pads) /\ Len(h) <= Len(history'["B"])
    BY <1>3, <1>6, <1>12
  <2>3. QED
    BY <1>12, <2>1, <2>2, PrefixByElements
<1>16. QED
  BY <1>7, <1>13, <1>14, <1>15 DEF h

LEMMA CallsInvB == PairInv /\ CallsB => PairInv'
<1> SUFFICES ASSUME PairInv, CallsB  PROVE PairInv'
  OBVIOUS
<1>1. /\ BP!Next /\ UNCHANGED varsA /\ phaseB' = "active"
  BY CallKindsB
<1>2. BP!IInv'
  BY <1>1, TimelineHolds, BP!NextInv DEF PairInv
<1>3. AP!IInv'
  <2>1. UNCHANGED AP!vars
    BY <1>1 DEF varsA, AP!vars, AP!inputs, AP!cursors, AP!planned
  <2>2. QED
    BY <2>1, TimelineHolds, AP!NextInv DEF PairInv
<1>4. phaseA' = "active"
  BY <1>1 DEF PairInv, varsA
<1>5. QED
  BY <1>1, <1>2, <1>3, <1>4, SamplesB, HistoryB DEF PairInv

-----------------------------------------------------------------------------
LEMMA InitInv == Init => PairInv
<1> SUFFICES ASSUME Init  PROVE PairInv
  OBVIOUS
<1>1. AP!Init /\ BP!Init /\ sent = [p \in Peer |-> A!Empty] /\ history = [p \in Peer |-> <<>>]
  BY SameActionsA, SameActionsB DEF Init
<1>2. AP!IInv /\ BP!IInv
  BY <1>1, TimelineHolds, AP!InitInv, BP!InitInv
<1>3. /\ phaseA = "active" /\ SentInvA /\ HeardInvA
      /\ phaseB = "active" /\ SentInvB /\ HeardInvB
  BY <1>1, PairAssumption
     DEF AP!Init, BP!Init, A!Empty, AP!Empty, BP!Empty, Peer, SentInvA, SentInvB,
         HeardInvA, HeardInvB
<1>4. AP!ConfirmedThrough = StartTick - 1 /\ BP!ConfirmedThrough = StartTick - 1
  <2>1. AP!Min({StartTick - 1, StartTick - 1}) = StartTick - 1
    BY PairAssumption DEF AP!Min
  <2>2. QED
    BY <1>1, <2>1 DEF AP!Init, BP!Init, AP!Clean, BP!Clean, AP!Min, BP!Min,
                       AP!ConfirmedThrough, BP!ConfirmedThrough
<1>5. LengthInv /\ SettledIsPlayed
  BY <1>1, <1>4, PairAssumption DEF LengthInv, SettledIsPlayed, Peer
<1>6. QED
  BY <1>2, <1>3, <1>5 DEF PairInv

LEMMA NextInv == PairInv /\ [Next]_vars => PairInv'
<1> SUFFICES ASSUME PairInv, [Next]_vars  PROVE PairInv'
  OBVIOUS
<1>1. CASE CallsA
  BY <1>1, CallsInvA
<1>2. CASE CallsB
  BY <1>2, CallsInvB
<1>3. CASE UNCHANGED vars
  <2>1. UNCHANGED <<AP!vars, BP!vars, sent, history>>
    BY <1>3 DEF vars, varsA, varsB, AP!vars, AP!inputs, AP!cursors, AP!planned,
                BP!vars, BP!inputs, BP!cursors, BP!planned
  <2>2. AP!IInv' /\ BP!IInv'
    BY <2>1, TimelineHolds, AP!NextInv, BP!NextInv DEF PairInv
  <2>3. /\ AP!ConfirmedThrough' = AP!ConfirmedThrough
        /\ BP!ConfirmedThrough' = BP!ConfirmedThrough
    BY <1>3 DEF vars, varsA, varsB, AP!ConfirmedThrough, BP!ConfirmedThrough
  <2>4. QED
    BY <1>3, <2>2, <2>3 DEF vars, varsA, varsB, PairInv, SentInvA, SentInvB, HeardInvA,
                            HeardInvB, LengthInv, SettledIsPlayed
<1>4. QED
  BY <1>1, <1>2, <1>3 DEF Next, CallsA, CallsB

\* Two histories of frames that were both played agree as far as both go.
LEMMA PlayedAgree ==
    PairInv => Abstract!Compatible(history["A"], history["B"])
<1> SUFFICES ASSUME PairInv  PROVE Abstract!Compatible(history["A"], history["B"])
  OBVIOUS
<1>1. history["A"] \in Seq(Pads) /\ history["B"] \in Seq(Pads)
  BY DEF PairInv, LengthInv, Peer
<1>2. ASSUME NEW p \in Peer, NEW i \in 1..Len(history[p])
      PROVE  history[p][i] = <<sent["A"][StartTick + i - 1], sent["B"][StartTick + i - 1]>>
  BY <1>1 DEF PairInv, SettledIsPlayed, Peer
<1>3. \A i \in 1..Len(history["A"]) :
         i <= Len(history["B"]) => history["A"][i] = history["B"][i]
  BY <1>1, <1>2, SMTT(30) DEF Peer
<1>4. CASE Len(history["A"]) <= Len(history["B"])
  <2>1. \A i \in 1..Len(history["A"]) : history["A"][i] = history["B"][i]
    BY <1>1, <1>3, <1>4
  <2>2. QED
    BY <1>1, <1>4, <2>1, PrefixByElements DEF Abstract!Compatible
<1>5. CASE Len(history["B"]) <= Len(history["A"])
  <2>1. \A i \in 1..Len(history["B"]) : history["B"][i] = history["A"][i]
    BY <1>1, <1>3, <1>5
  <2>2. QED
    BY <1>1, <1>5, <2>1, PrefixByElements DEF Abstract!Compatible
<1>6. QED
  BY <1>1, <1>4, <1>5

\* The contiguous cursor of a peer never passes what the other one has recorded.
LEMMA ContiguousIsRecorded ==
    PairInv => contiguousA <= localThroughB /\ contiguousB <= localThroughA
<1> SUFFICES ASSUME PairInv
             PROVE  contiguousA <= localThroughB /\ contiguousB <= localThroughA
  OBVIOUS
<1>1. /\ contiguousA \in Int /\ localThroughB \in Int /\ StartTick - 1 <= localThroughB
      /\ contiguousB \in Int /\ localThroughA \in Int /\ StartTick - 1 <= localThroughA
  BY PairAssumption DEF PairInv, AP!IInv, AP!CursorInv, BP!IInv, BP!CursorInv
<1>2. StartTick..contiguousA \subseteq StartTick..localThroughB
  BY DEF PairInv, AP!IInv, AP!AcceptedInv, HeardInvA, SentInvB
<1>3. StartTick..contiguousB \subseteq StartTick..localThroughA
  BY DEF PairInv, BP!IInv, BP!AcceptedInv, HeardInvB, SentInvA
<1>4. QED
  BY <1>1, <1>2, <1>3, PairAssumption

-----------------------------------------------------------------------------
\* The inductive invariant of the pair: both timelines keep theirs, and samples,
\* histories and what was heard agree across the network.
THEOREM Invariance == Spec => []PairInv
<1>1. Init => PairInv
  BY InitInv
<1>2. PairInv /\ [Next]_vars => PairInv'
  BY NextInv
<1>3. QED
  BY <1>1, <1>2, PTL DEF Spec

\* What status() confirms is what the two players held at that tick, on both
\* sides, and never a prediction.
THEOREM SettledPlayed == Spec => []SettledIsPlayed
<1>1. PairInv => SettledIsPlayed
  BY DEF PairInv
<1>2. QED
  BY <1>1, Invariance, PTL

\* acceptRemote refuses no sample of an honest peer as too far ahead, whatever
\* was lost or delayed, when the lookahead exceeds the prediction bound by two.
THEOREM HonestFits ==
    ASSUME MaxLookahead >= MaxPrediction + 2
    PROVE  Spec => []HonestSampleFits
<1>1. PairInv => HonestSampleFits
  <2> SUFFICES ASSUME PairInv  PROVE HonestSampleFits
    OBVIOUS
  <2>1. /\ simulatedA \in Int /\ localThroughA \in Int /\ contiguousA \in Int
        /\ localThroughA <= simulatedA + 1 /\ simulatedA - contiguousA <= MaxPrediction
        /\ contiguousA <= localThroughB
    BY ContiguousIsRecorded, PairAssumption DEF PairInv, AP!IInv, AP!CursorInv
  <2>2. /\ simulatedB \in Int /\ localThroughB \in Int /\ contiguousB \in Int
        /\ localThroughB <= simulatedB + 1 /\ simulatedB - contiguousB <= MaxPrediction
        /\ contiguousB <= localThroughA
    BY ContiguousIsRecorded, PairAssumption DEF PairInv, BP!IInv, BP!CursorInv
  <2>3. ASSUME NEW tick \in DOMAIN sent["B"]  PROVE A!InLookahead(tick)
    <3>1. tick \in Int /\ tick <= localThroughB
      BY <2>2, PairAssumption DEF PairInv, SentInvB
    <3>2. A!NextTick(simulatedA) \in {A!NoTick, simulatedA + 1}
      BY DEF A!NextTick
    <3>3. QED
      BY <2>1, <2>2, <3>1, <3>2, PairAssumption DEF A!InLookahead
  <2>4. ASSUME NEW tick \in DOMAIN sent["A"]  PROVE B!InLookahead(tick)
    <3>1. tick \in Int /\ tick <= localThroughA
      BY <2>1, PairAssumption DEF PairInv, SentInvA
    <3>2. B!NextTick(simulatedB) \in {B!NoTick, simulatedB + 1}
      BY DEF B!NextTick
    <3>3. QED
      BY <2>1, <2>2, <3>1, <3>2, PairAssumption DEF B!InLookahead
  <2>5. QED
    BY <2>3, <2>4 DEF HonestSampleFits
<1>2. QED
  BY <1>1, Invariance, PTL

\* Two timelines and the network between them implement the agreed history: a
\* settled frame is never taken back, and the two peers never settle different
\* frames for a tick.
THEOREM PairImplementsAgreedHistory == Spec => ImplementsAgreedHistory
<1>1. Init => Abstract!Init
  BY DEF Init, Abstract!Init
<1>2. (PairInv => Abstract!Compatible(history["A"], history["B"]))'
  BY PlayedAgree, PTL
<1>3. PairInv /\ PairInv' /\ [Next]_vars => [Abstract!Next]_history
  <2> SUFFICES ASSUME PairInv, PairInv', [Next]_vars, history' # history
               PROVE  Abstract!Next
    OBVIOUS
  <2>1. history = [p \in Peer |-> history[p]] /\ history' = [p \in Peer |-> history'[p]]
    BY DEF PairInv, LengthInv
  <2>2. Abstract!Compatible(history'["A"], history'["B"])
    BY <1>2 DEF Abstract!Compatible, Abstract!IsPrefix
  <2>3. CASE CallsA
    <3>1. Abstract!IsPrefix(history["A"], history'["A"]) /\ history'["B"] = history["B"]
      BY <2>3, HistoryA DEF PairInv
    <3>2. history["A"] # history'["A"]
      BY <2>1, <3>1 DEF Peer
    <3>3. Abstract!Settle("A")
      BY <2>2, <3>1, <3>2 DEF Abstract!Settle, Abstract!IsStrictPrefix, Peer
    <3>4. QED
      BY <3>3 DEF Abstract!Next, Peer
  <2>4. CASE CallsB
    <3>1. Abstract!IsPrefix(history["B"], history'["B"]) /\ history'["A"] = history["A"]
      BY <2>4, HistoryB DEF PairInv
    <3>2. history["B"] # history'["B"]
      BY <2>1, <3>1 DEF Peer
    <3>3. Abstract!Compatible(history'["B"], history["A"])
      BY <2>2, <3>1 DEF Abstract!Compatible
    <3>4. Abstract!Settle("B")
      BY <3>1, <3>2, <3>3 DEF Abstract!Settle, Abstract!IsStrictPrefix, Peer
    <3>5. QED
      BY <3>4 DEF Abstract!Next, Peer
  <2>5. QED
    BY <2>3, <2>4 DEF Next, CallsA, CallsB, vars
<1>4. QED
  BY <1>1, <1>3, Invariance, PTL DEF Spec, ImplementsAgreedHistory, Abstract!Spec

==============================================================================
