---------------------------- MODULE LockstepProofs ----------------------------
(***************************************************************************)
(* Proofs about Lockstep for every match: all constants of the protocol,   *)
(* transports, callers and faults that LockstepAssumption allows.          *)
(***************************************************************************)
EXTENDS Lockstep, BoundedSets, SequenceTheorems

\* What a peer keeps: rows of its own, frames of its engine, pads and records by
\* tick
Row == [tick : InputTick, pad : Pad]
Frame == (Pad \cup {NeutralPad}) \X (Pad \cup {NeutralPad})
Rows == UNION {[D -> Pad \cup {NeutralPad}] : D \in SUBSET Int}
Records == UNION {[D -> Frame] : D \in SUBSET Int}

\* The messages of the wire, and the packets that wait for the one before them
StatePacket ==
    [type : {"state"}, sequence : Nat, ackSequence : Int, ackInput : Int, ackChecksum : Int,
     inputs : SUBSET Row, checksums : Records]
Message ==
    StatePacket \cup [type : {"hello"}, agreement : Match.agreement]
                \cup [type : {"terminal"}, kind : {"protocol", "desync"}]
Held == UNION {[D -> StatePacket] : D \in SUBSET Nat}

\* The fields of a peer
PeerType ==
    [agreement : Match.agreement, start : {"none", "preparing", "sent", "failed"},
     ready : BOOLEAN, terminal : {"none", "protocol", "desync", "disconnect"},
     local : Seq(Row), native : Rows, deferred : SUBSET InputTick, remote : Rows,
     ackInput : Int, ackChecksum : Int,
     nextSequence : Nat, expectedSequence : Nat, admittedSequence : Int,
     pending : Held, receiving : BOOLEAN, staged : Rows, changed : BOOLEAN, owed : Int,
     pushed : Seq(Frame), emitted : Nat, remoteChecksums : Records,
     compared : Nat, mismatch : Int, delayedThrough : Int]

\* The entry of a tick, as a peer publishes it
Entry(t, pad) == [tick |-> t, pad |-> pad]

\* The rows of a peer: one entry per tick, the engine has a pad for each, and
\* the ticks that wait for their release are among them
LocalInv(r) ==
    /\ \A i, j \in DOMAIN r.local : r.local[i].tick = r.local[j].tick => i = j
    /\ DOMAIN r.native = LocalTicks(r)
    /\ r.deferred \subseteq LocalTicks(r)

\* The rows and records of the other side
RemoteInv(r) ==
    /\ DOMAIN r.remote \subseteq InputTick
    /\ r.staged = NotStaged \/ DOMAIN r.staged \subseteq InputTick
    /\ DOMAIN r.remoteChecksums \subseteq Nat

\* The packets: what is answered was admitted, what is held back keeps its
\* place, and nothing is received before both peers agree
SequenceInv(r) ==
    /\ r.admittedSequence < r.expectedSequence
    /\ \A k \in DOMAIN r.pending : r.pending[k].sequence = k
    /\ r.receiving => r.ready
    /\ r.staged # NotStaged => r.receiving
    /\ -1 <= r.ackInput /\ r.ackInput <= Contiguous(LocalTicks(r))
    /\ -1 <= r.ackChecksum /\ r.ackChecksum < r.emitted

\* The frames: each one that the engine has was composed of both rows of its
\* tick, and the engine's cursors follow each other
FrameInv(p, r) ==
    /\ r.pushed # <<>> => r.ready
    /\ \A i \in DOMAIN r.pushed :
          Composable(r, i - 1) /\ r.pushed[i] = FrameAt(p, r, i - 1)
    /\ r.compared <= r.emitted /\ r.emitted <= Len(r.pushed) /\ Len(r.pushed) <= SourceTicks

\* A caller that overrides nothing gives its engine what it publishes; one
\* that adds in order has a gapless local history
CallerInv(p, r) ==
    /\ (\A f \in Match.overrides[p] : DOMAIN f = {}) =>
          \A t \in DOMAIN r.native : Entry(t, r.native[t]) \in ToSet(r.local)
    /\ Match.inOrder => \A i \in DOMAIN r.local : r.local[i].tick = i - 1
    /\ r.deferred \subseteq Match.deferTicks[p]

\* What the fields of one peer say of each other
PeerInv(p, r) ==
    /\ r \in PeerType
    /\ LocalInv(r) /\ RemoteInv(r) /\ SequenceInv(r) /\ FrameInv(p, r) /\ CallerInv(p, r)

\* A mismatch ends the peer that finds it
QuietInv(r) == r.terminal = "none" => r.mismatch = -1

\* The caller holds back so little that a batch stays inside the window
Orderly(p) == Match.inOrder /\ MaxBatch + Cardinality(Match.deferTicks[p]) <= Window + 1

\* What a message says of its sender q, whose fields are s now or were before
MessageInv(m, q, s) ==
    /\ m.type = "hello" => m.agreement = s.agreement
    /\ m.type = "state" =>
          /\ m.sequence < s.nextSequence /\ m.ackSequence <= s.admittedSequence
          /\ -1 <= m.ackInput /\ 0..m.ackInput \subseteq DOMAIN s.remote
          /\ -1 <= m.ackChecksum /\ 0..m.ackChecksum \subseteq DOMAIN s.remoteChecksums
          /\ m.inputs \subseteq ToSet(s.local)
          /\ \A e \in m.inputs : e.tick \notin s.deferred
          /\ \A t \in DOMAIN m.checksums :
                t \in Nat /\ t < s.emitted /\ m.checksums[t] = s.pushed[t + 1]
          /\ Orderly(q) =>
                /\ \A e \in m.inputs : e.tick <= s.ackInput + Window + 1
                /\ \A t \in DOMAIN m.checksums : t <= s.ackChecksum + Window + 1

\* What the fields r of a peer say of the fields s of the other peer q
LinkInv(r, q, s) ==
    /\ r.ready => r.agreement = s.agreement
    /\ \A t \in DOMAIN r.remote : Entry(t, r.remote[t]) \in ToSet(s.local)
    /\ r.staged # NotStaged =>
          \A t \in DOMAIN r.staged : Entry(t, r.staged[t]) \in ToSet(s.local)
    /\ 0..r.ackInput \subseteq DOMAIN s.remote
    /\ 0..r.ackChecksum \subseteq DOMAIN s.remoteChecksums
    /\ \A t \in DOMAIN r.remoteChecksums :
          t < s.emitted /\ r.remoteChecksums[t] = s.pushed[t + 1]
    /\ r.expectedSequence <= s.nextSequence
    /\ \A k \in DOMAIN r.pending : MessageInv(r.pending[k], q, s)

\* What DesyncIsFirst says of the two histories of frames
FirstDifference(r, s) ==
    /\ \A t \in 1..r.compared : t <= Len(s.pushed) /\ r.pushed[t] = s.pushed[t]
    /\ r.mismatch # -1 =>
          /\ r.mismatch + 1 \in DOMAIN r.pushed /\ r.mismatch + 1 \in DOMAIN s.pushed
          /\ r.pushed[r.mismatch + 1] # s.pushed[r.mismatch + 1]
          /\ \A u \in 1..r.mismatch : r.pushed[u] = s.pushed[u]

\* A peer of fields r, the other one having the fields s
Good(p, r, s) == PeerInv(p, r) /\ LinkInv(r, Other(p), s) /\ FirstDifference(r, s)

\* The inductive invariant: both peers, and every message between them
IInv ==
    /\ setup \in DOMAIN Setups
    /\ peer \in [Peer -> PeerType] /\ wire \in [Peer -> Seq(Message)]
    /\ \A p \in Peer : Good(p, peer[p], peer[Other(p)]) /\ QuietInv(peer[p])
    /\ \A p \in Peer : \A i \in DOMAIN wire[p] : MessageInv(wire[p][i], Other(p), peer[Other(p)])

\* What may become of a peer's fields r in one step: rows, records, frames and
\* cursors are only added, and no published tick is held back
Grows(r, r2) ==
    /\ r2.agreement = r.agreement
    /\ ToSet(r.local) \subseteq ToSet(r2.local)
    /\ \A t \in r2.deferred : t \in LocalTicks(r) => t \in r.deferred
    /\ DOMAIN r.remote \subseteq DOMAIN r2.remote
    /\ DOMAIN r.remoteChecksums \subseteq DOMAIN r2.remoteChecksums
    /\ Len(r.pushed) <= Len(r2.pushed)
    /\ \A i \in 1..Len(r.pushed) : r2.pushed[i] = r.pushed[i]
    /\ r.emitted <= r2.emitted
    /\ r.nextSequence <= r2.nextSequence /\ r.admittedSequence <= r2.admittedSequence
    /\ r.ackInput <= r2.ackInput /\ r.ackChecksum <= r2.ackChecksum

-----------------------------------------------------------------------------
(* The parameters of the match never change                                  *)

\* What is derived from the parameters stays as it is.
LEMMA MatchFixed ==
    ASSUME setup' = setup
    PROVE  /\ Match' = Match
           /\ InputTicks' = InputTicks /\ Delay' = Delay /\ Window' = Window
           /\ MaxBatch' = MaxBatch /\ SourceTicks' = SourceTicks /\ InputTick' = InputTick
           /\ PeerType' = PeerType /\ Message' = Message
<1>1. Match' = Match
  BY DEF Match
<1>2. /\ InputTicks' = InputTicks /\ Delay' = Delay /\ Window' = Window
      /\ MaxBatch' = MaxBatch
  BY <1>1 DEF InputTicks, Delay, Window, MaxBatch
<1>3. SourceTicks' = SourceTicks /\ InputTick' = InputTick
  BY <1>2 DEF SourceTicks, InputTick
<1>4. Row' = Row
  BY <1>3 DEF Row
<1>5. StatePacket' = StatePacket
  BY <1>4 DEF StatePacket
<1>6. Held' = Held
  BY <1>5 DEF Held
<1>7. PeerType' = PeerType /\ Message' = Message
  BY <1>1, <1>3, <1>4, <1>5, <1>6 DEF PeerType, Message
<1>8. QED
  BY <1>1, <1>2, <1>3, <1>7

\* Nor does the next state change what is said of given fields,
LEMMA GoodFixed ==
    ASSUME setup' = setup, NEW p, NEW r, NEW s
    PROVE  Good(p, r, s)' <=> Good(p, r, s)
<1> USE MatchFixed
<1>1. ASSUME NEW i  PROVE Composable(r, i)' <=> Composable(r, i)
  BY DEF Composable
<1>2. ASSUME NEW i  PROVE FrameAt(p, r, i)' = FrameAt(p, r, i)
  BY DEF FrameAt
<1>3. FrameInv(p, r)' <=> FrameInv(p, r)
  BY <1>1, <1>2 DEF FrameInv
<1>4. CallerInv(p, r)' <=> CallerInv(p, r)
  BY DEF CallerInv
<1>5. RemoteInv(r)' <=> RemoteInv(r)
  BY DEF RemoteInv
<1>6. PeerInv(p, r)' <=> PeerInv(p, r)
  BY <1>3, <1>4, <1>5 DEF PeerInv
<1>7. ASSUME NEW m, NEW q  PROVE MessageInv(m, q, s)' <=> MessageInv(m, q, s)
  BY DEF MessageInv, Orderly
<1>8. LinkInv(r, Other(p), s)' <=> LinkInv(r, Other(p), s)
  BY <1>7 DEF LinkInv
<1>9. QED
  BY <1>6, <1>8 DEF Good

\* or of a given message.
LEMMA MessageFixed ==
    ASSUME setup' = setup, NEW m, NEW q, NEW s
    PROVE  MessageInv(m, q, s)' <=> MessageInv(m, q, s)
BY MatchFixed DEF MessageInv, Orderly

\* There are two peers.
LEMMA OtherPeer ==
    ASSUME NEW p \in Peer
    PROVE  Other(p) \in Peer /\ Other(p) # p /\ Other(Other(p)) = p
           /\ \A q \in Peer : q = p \/ q = Other(p)
BY DEF Peer, Other

-----------------------------------------------------------------------------
(* The types of the fields                                                   *)

\* Each field of a peer is of its type.
LEMMA PeerFields ==
    ASSUME NEW r \in PeerType
    PROVE  /\ r.agreement \in Match.agreement /\ r.ready \in BOOLEAN
           /\ r.local \in Seq(Row) /\ r.native \in Rows /\ r.deferred \in SUBSET InputTick
           /\ r.remote \in Rows /\ r.staged \in Rows /\ r.remoteChecksums \in Records
           /\ r.ackInput \in Int /\ r.ackChecksum \in Int
           /\ r.nextSequence \in Nat /\ r.expectedSequence \in Nat /\ r.admittedSequence \in Int
           /\ r.pending \in Held /\ r.receiving \in BOOLEAN /\ r.owed \in Int
           /\ r.pushed \in Seq(Frame) /\ Len(r.pushed) \in Nat /\ r.emitted \in Nat
           /\ r.compared \in Nat /\ r.mismatch \in Int /\ r.delayedThrough \in Int
<1>1. r.pushed \in Seq(Frame)
  BY DEF PeerType
<1>2. Len(r.pushed) \in Nat
  BY <1>1
<1>3. QED
  BY <1>1, <1>2 DEF PeerType

\* Each field of a packet is of its type.
LEMMA PacketFields ==
    ASSUME NEW m \in Message, m.type = "state"
    PROVE  /\ m \in StatePacket /\ m.sequence \in Nat /\ m.ackSequence \in Int
           /\ m.ackInput \in Int /\ m.ackChecksum \in Int
           /\ m.inputs \in SUBSET Row /\ m.checksums \in Records
           /\ \A e \in m.inputs : e.tick \in Int /\ e.tick \in InputTick
<1>1. m \in StatePacket
  BY DEF Message
<1>2. m.inputs \in SUBSET Row
  BY <1>1 DEF StatePacket
<1>3. \A e \in m.inputs : e.tick \in InputTick
  BY <1>2 DEF Row
<1>4. \A e \in m.inputs : e.tick \in Int
  BY <1>3 DEF InputTick
<1>5. QED
  BY <1>1, <1>2, <1>3, <1>4 DEF StatePacket

\* What waits in the reorder window are packets.
LEMMA PendingPackets ==
    ASSUME NEW r \in PeerType
    PROVE  \A k \in DOMAIN r.pending :
              /\ k \in Nat /\ r.pending[k] \in StatePacket
              /\ r.pending[k] \in Message /\ r.pending[k].type = "state"
<1>1. PICK D \in SUBSET Nat : r.pending \in [D -> StatePacket]
  BY PeerFields DEF Held
<1>2. QED
  BY <1>1 DEF Message, StatePacket

\* The parameters of a match, as the protocol has them.
LEMMA Parameters ==
    ASSUME setup \in DOMAIN Setups
    PROVE  /\ InputTicks \in Nat \ {0} /\ Delay \in Nat /\ Window \in Nat \ {0}
           /\ MaxBatch \in Nat \ {0} /\ SourceTicks \in Nat
           /\ DOMAIN Match.overrides = Peer
           /\ Match.deferTicks \in [Peer -> SUBSET InputTick]
           /\ Match.sample \in [Peer -> [InputTick -> SUBSET Pad]]
           /\ Match.batches \subseteq SUBSET InputTick
           /\ \A p \in Peer : \A f \in Match.overrides[p] :
                 DOMAIN f \subseteq InputTick /\ \A t \in DOMAIN f : f[t] \in Pad
<1>1. InputTicks \in Nat \ {0} /\ Delay \in Nat /\ Window \in Nat \ {0} /\ MaxBatch \in Nat \ {0}
  BY LockstepAssumption DEF Match, InputTicks, Delay, Window, MaxBatch
<1>2. /\ DOMAIN Match.overrides = Peer
      /\ \A p \in Peer : \A f \in Match.overrides[p] :
            DOMAIN f \subseteq InputTick /\ \A t \in DOMAIN f : f[t] \in Pad
  BY LockstepAssumption DEF Match, InputTicks, InputTick
<1>3. /\ Match.deferTicks \in [Peer -> SUBSET InputTick]
      /\ Match.sample \in [Peer -> [InputTick -> SUBSET Pad]]
      /\ Match.batches \subseteq SUBSET InputTick
  BY LockstepAssumption DEF Match, InputTicks, InputTick
<1>4. QED
  BY <1>1, <1>2, <1>3 DEF SourceTicks

-----------------------------------------------------------------------------
(* What one peer knows of the other stays true while the other goes on       *)

\* A message stays true of its sender, as the sender only grows.
LEMMA MessageGrows ==
    ASSUME setup \in DOMAIN Setups,
           NEW m \in Message, NEW q, NEW r \in PeerType, NEW r2 \in PeerType,
           MessageInv(m, q, r), Grows(r, r2), r.emitted <= Len(r.pushed)
    PROVE  MessageInv(m, q, r2)
<1>1. CASE m.type # "state"
  BY <1>1 DEF MessageInv, Grows
<1>2. CASE m.type = "state"
  <2>1. m.sequence < r2.nextSequence /\ m.ackSequence <= r2.admittedSequence
    <3>1. m.sequence < r.nextSequence /\ m.ackSequence <= r.admittedSequence
      BY <1>2 DEF MessageInv
    <3>2. r.nextSequence <= r2.nextSequence /\ r.admittedSequence <= r2.admittedSequence
      BY DEF Grows
    <3>3. QED
      BY <1>2, <3>1, <3>2, PeerFields, PacketFields
  <2>2. /\ -1 <= m.ackInput /\ 0..m.ackInput \subseteq DOMAIN r2.remote
        /\ -1 <= m.ackChecksum /\ 0..m.ackChecksum \subseteq DOMAIN r2.remoteChecksums
    BY <1>2 DEF MessageInv, Grows
  <2>3. m.inputs \subseteq ToSet(r2.local)
    BY <1>2 DEF MessageInv, Grows
  <2>4. \A e \in m.inputs : e.tick \notin r2.deferred
    BY <1>2 DEF MessageInv, Grows, LocalTicks
  <2>5. ASSUME NEW t \in DOMAIN m.checksums
        PROVE  t \in Nat /\ t < r2.emitted /\ m.checksums[t] = r2.pushed[t + 1]
    <3>1. t \in Nat /\ t < r.emitted /\ m.checksums[t] = r.pushed[t + 1]
      BY <1>2 DEF MessageInv
    <3>2. t + 1 \in 1..Len(r.pushed)
      BY <3>1, PeerFields
    <3>3. r2.pushed[t + 1] = r.pushed[t + 1]
      BY <3>2 DEF Grows
    <3>4. QED
      BY <3>1, <3>3, PeerFields DEF Grows
  <2>6. ASSUME Orderly(q)
        PROVE  /\ \A e \in m.inputs : e.tick <= r2.ackInput + Window + 1
               /\ \A t \in DOMAIN m.checksums : t <= r2.ackChecksum + Window + 1
    <3>1. /\ \A e \in m.inputs : e.tick <= r.ackInput + Window + 1
          /\ \A t \in DOMAIN m.checksums : t <= r.ackChecksum + Window + 1
      BY <1>2, <2>6 DEF MessageInv
    <3>2. r.ackInput <= r2.ackInput /\ r.ackChecksum <= r2.ackChecksum
      BY DEF Grows
    <3>3. Window \in Nat
      BY Parameters
    <3>4. ASSUME NEW e \in m.inputs  PROVE e.tick <= r2.ackInput + Window + 1
      BY <1>2, <3>1, <3>2, <3>3, PeerFields, PacketFields
    <3>5. ASSUME NEW t \in DOMAIN m.checksums  PROVE t <= r2.ackChecksum + Window + 1
      BY <2>5, <3>1, <3>2, <3>3, PeerFields
    <3>6. QED
      BY <3>4, <3>5
  <2>7. QED
    BY <1>2, <2>1, <2>2, <2>3, <2>4, <2>5, <2>6 DEF MessageInv
<1>3. QED
  BY <1>1, <1>2

\* What a peer knows of the other one stays true as the other one grows.
LEMMA LinkGrows ==
    ASSUME setup \in DOMAIN Setups,
           NEW q, NEW o \in PeerType, NEW r \in PeerType, NEW r2 \in PeerType,
           RemoteInv(o), LinkInv(o, q, r), FirstDifference(o, r), Grows(r, r2),
           r.emitted <= Len(r.pushed)
    PROVE  LinkInv(o, q, r2) /\ FirstDifference(o, r2)
<1>1. ASSUME NEW t \in DOMAIN o.remoteChecksums
      PROVE  t < r2.emitted /\ o.remoteChecksums[t] = r2.pushed[t + 1]
  <2>1. t \in Nat /\ t < r.emitted /\ o.remoteChecksums[t] = r.pushed[t + 1]
    BY DEF LinkInv, RemoteInv
  <2>2. t + 1 \in 1..Len(r.pushed)
    BY <2>1, PeerFields
  <2>3. r2.pushed[t + 1] = r.pushed[t + 1]
    BY <2>2 DEF Grows
  <2>4. QED
    BY <2>1, <2>3, PeerFields DEF Grows
<1>2. ASSUME NEW k \in DOMAIN o.pending  PROVE MessageInv(o.pending[k], q, r2)
  BY PendingPackets, MessageGrows DEF LinkInv
<1>3. /\ o.ready => o.agreement = r2.agreement
      /\ \A t \in DOMAIN o.remote : Entry(t, o.remote[t]) \in ToSet(r2.local)
      /\ o.staged # NotStaged =>
            \A t \in DOMAIN o.staged : Entry(t, o.staged[t]) \in ToSet(r2.local)
      /\ 0..o.ackInput \subseteq DOMAIN r2.remote
      /\ 0..o.ackChecksum \subseteq DOMAIN r2.remoteChecksums
  BY DEF LinkInv, Grows
<1>4. o.expectedSequence <= r2.nextSequence
  BY PeerFields DEF LinkInv, Grows
<1>5. LinkInv(o, q, r2)
  BY <1>1, <1>2, <1>3, <1>4 DEF LinkInv
<1>6. ASSUME NEW t \in Nat \ {0}, t <= Len(r.pushed)
      PROVE  t <= Len(r2.pushed) /\ r2.pushed[t] = r.pushed[t]
  <2>1. t \in 1..Len(r.pushed)
    BY <1>6, PeerFields
  <2>2. QED
    BY <2>1, PeerFields DEF Grows
<1>7. ASSUME NEW t \in 1..o.compared
      PROVE  t <= Len(r2.pushed) /\ o.pushed[t] = r2.pushed[t]
  BY <1>6, PeerFields DEF FirstDifference
<1>8. ASSUME o.mismatch # -1
      PROVE  /\ o.mismatch + 1 \in DOMAIN o.pushed /\ o.mismatch + 1 \in DOMAIN r2.pushed
             /\ o.pushed[o.mismatch + 1] # r2.pushed[o.mismatch + 1]
             /\ \A u \in 1..o.mismatch : o.pushed[u] = r2.pushed[u]
  <2>1. /\ o.mismatch + 1 \in DOMAIN o.pushed /\ o.mismatch + 1 \in DOMAIN r.pushed
        /\ o.pushed[o.mismatch + 1] # r.pushed[o.mismatch + 1]
        /\ \A u \in 1..o.mismatch : o.pushed[u] = r.pushed[u]
    BY <1>8 DEF FirstDifference
  <2>2. DOMAIN r.pushed = 1..Len(r.pushed) /\ DOMAIN r2.pushed = 1..Len(r2.pushed)
    BY PeerFields
  <2>3. o.mismatch + 1 \in Nat \ {0} /\ o.mismatch + 1 <= Len(r.pushed)
    BY <2>1, <2>2, PeerFields
  <2>4. o.mismatch + 1 <= Len(r2.pushed) /\ r2.pushed[o.mismatch + 1] = r.pushed[o.mismatch + 1]
    BY <1>6, <2>3
  <2>5. o.mismatch + 1 \in DOMAIN r2.pushed
    BY <2>2, <2>3, <2>4, PeerFields
  <2>6. ASSUME NEW u \in 1..o.mismatch  PROVE o.pushed[u] = r2.pushed[u]
    <3>1. u \in Nat \ {0} /\ u <= Len(r.pushed)
      BY <2>3, PeerFields
    <3>2. QED
      BY <1>6, <2>1, <3>1
  <2>7. QED
    BY <2>1, <2>4, <2>5, <2>6
<1>9. QED
  BY <1>5, <1>7, <1>8 DEF FirstDifference

\* A step of several parts grows a peer when each of them does,
LEMMA GrowsTrans ==
    ASSUME NEW r \in PeerType, NEW r2 \in PeerType, NEW r3 \in PeerType,
           Grows(r, r2), Grows(r2, r3)
    PROVE  Grows(r, r3)
<1>1. /\ r3.agreement = r.agreement
      /\ ToSet(r.local) \subseteq ToSet(r3.local)
      /\ \A t \in r3.deferred : t \in LocalTicks(r) => t \in r.deferred
      /\ DOMAIN r.remote \subseteq DOMAIN r3.remote
      /\ DOMAIN r.remoteChecksums \subseteq DOMAIN r3.remoteChecksums
  BY DEF Grows, LocalTicks
<1>2. Len(r.pushed) <= Len(r2.pushed) /\ Len(r2.pushed) <= Len(r3.pushed)
  BY DEF Grows
<1>3. ASSUME NEW i \in 1..Len(r.pushed)  PROVE r3.pushed[i] = r.pushed[i]
  <2>1. i \in 1..Len(r2.pushed)
    BY <1>2, PeerFields
  <2>2. QED
    BY <2>1 DEF Grows
<1>4. r.emitted <= r2.emitted /\ r2.emitted <= r3.emitted
  BY DEF Grows
<1>5. /\ r.nextSequence <= r2.nextSequence /\ r2.nextSequence <= r3.nextSequence
      /\ r.admittedSequence <= r2.admittedSequence /\ r2.admittedSequence <= r3.admittedSequence
      /\ r.ackInput <= r2.ackInput /\ r2.ackInput <= r3.ackInput
      /\ r.ackChecksum <= r2.ackChecksum /\ r2.ackChecksum <= r3.ackChecksum
  BY DEF Grows
<1>6. Len(r.pushed) <= Len(r3.pushed) /\ r.emitted <= r3.emitted
  BY <1>2, <1>4, PeerFields
<1>7. ASSUME NEW x \in Int, NEW y \in Int, NEW z \in Int, x <= y, y <= z  PROVE x <= z
  BY <1>7
<1>8. /\ r.nextSequence <= r3.nextSequence /\ r.admittedSequence <= r3.admittedSequence
      /\ r.ackInput <= r3.ackInput /\ r.ackChecksum <= r3.ackChecksum
  <2>1. \A x \in {r, r2, r3} : /\ x.nextSequence \in Int /\ x.admittedSequence \in Int
                               /\ x.ackInput \in Int /\ x.ackChecksum \in Int
    BY PeerFields
  <2>2. QED
    BY <1>5, <1>7, <2>1
<1>9. QED
  BY <1>1, <1>3, <1>6, <1>8 DEF Grows

\* and so does a step that changes nothing.
LEMMA GrowsSelf ==
    ASSUME NEW r \in PeerType
    PROVE  Grows(r, r)
BY PeerFields DEF Grows

-----------------------------------------------------------------------------
(* A step of one peer: its fields become r2, the messages on the way to it   *)
(* become left, and it may send one message.                                 *)

\* The step of p to fields r2; it leaves these messages and may send one
Stepped(p, r2, left) ==
    /\ Becomes(p, r2)
    /\ \/ Leaves(p, left)
       \/ \E m \in Message : MessageInv(m, p, r2) /\ Sends(p, left, m)

\* Nothing new is on the way to p
Remains(p, left) ==
    left \in Seq(Message) /\ \A i \in DOMAIN left : \E j \in DOMAIN wire[p] : left[i] = wire[p][j]

\* A step of p keeps the invariant, and what p has only grows
KeptBy(p) == IInv' /\ \E r2 : Becomes(p, r2) /\ Grows(peer[p], r2)

\* Such a step keeps the invariant when its peer is good again and has grown:
\* the other peer and all messages on the way stay true of it.
LEMMA StepInv ==
    ASSUME IInv, NEW p \in Peer, NEW r2, NEW left, Remains(p, left),
           Good(p, r2, peer[Other(p)]), QuietInv(r2), Grows(peer[p], r2),
           Stepped(p, r2, left)
    PROVE  KeptBy(p)
<1> DEFINE q == Other(p)
           r == peer[p]
           s == peer[q]
<1>1. q \in Peer /\ q # p /\ Other(q) = p /\ \A x \in Peer : x = p \/ x = q
  BY OtherPeer
<1>2. setup' = setup /\ setup \in DOMAIN Setups
  BY DEF Stepped, Becomes, IInv
<1>3. r \in PeerType /\ s \in PeerType /\ r2 \in PeerType
  BY <1>1 DEF IInv, Good, PeerInv
<1>4. peer' = [peer EXCEPT ![p] = r2] /\ peer \in [Peer -> PeerType]
  BY DEF Stepped, Becomes, IInv
<1>5. peer'[p] = r2 /\ peer'[q] = s /\ peer' \in [Peer -> PeerType]
  BY <1>1, <1>3, <1>4
<1>6. Good(p, r, s) /\ Good(q, s, r) /\ QuietInv(s)
  BY <1>1 DEF IInv
<1>7. r.emitted <= Len(r.pushed)
  BY <1>6 DEF Good, PeerInv, FrameInv
<1>8. Good(q, s, r2)
  <2>1. LinkInv(s, p, r) /\ FirstDifference(s, r) /\ PeerInv(q, s) /\ RemoteInv(s)
    BY <1>1, <1>6 DEF Good, PeerInv
  <2>2. LinkInv(s, p, r2) /\ FirstDifference(s, r2)
    BY <1>2, <1>3, <1>7, <2>1, LinkGrows
  <2>3. QED
    BY <1>1, <2>1, <2>2 DEF Good
<1>9. wire \in [Peer -> Seq(Message)]
  BY DEF IInv
<1>10. /\ wire' \in [Peer -> Seq(Message)] /\ wire'[p] = left
       /\ \/ wire'[q] = wire[q]
          \/ \E m \in Message : MessageInv(m, p, r2) /\ wire'[q] = Append(wire[q], m)
  <2>1. left \in Seq(Message)
    BY DEF Remains
  <2>2. CASE Leaves(p, left)
    BY <1>1, <1>9, <2>1, <2>2 DEF Leaves
  <2>3. CASE \E m \in Message : MessageInv(m, p, r2) /\ Sends(p, left, m)
    <3>1. PICK m \in Message : MessageInv(m, p, r2) /\ Sends(p, left, m)
      BY <2>3
    <3>2. wire' = [wire EXCEPT ![p] = left, ![q] = Append(@, m)]
      BY <3>1 DEF Sends
    <3>3. Append(wire[q], m) \in Seq(Message)
      BY <1>1, <1>9
    <3>4. wire' \in [Peer -> Seq(Message)] /\ wire'[p] = left /\ wire'[q] = Append(wire[q], m)
      BY <1>1, <1>9, <2>1, <3>2, <3>3
    <3>5. QED
      BY <3>1, <3>4
  <2>4. QED
    BY <2>2, <2>3 DEF Stepped
<1>11. ASSUME NEW i \in DOMAIN wire'[p]  PROVE MessageInv(wire'[p][i], q, s)
  BY <1>1, <1>10 DEF Remains, IInv
<1>12. ASSUME NEW i \in DOMAIN wire'[q]  PROVE MessageInv(wire'[q][i], p, r2)
  <2>1. ASSUME NEW m \in Message, MessageInv(m, p, r)  PROVE MessageInv(m, p, r2)
    BY <1>2, <1>3, <1>7, <2>1, MessageGrows
  <2>2. ASSUME NEW j \in DOMAIN wire[q]  PROVE MessageInv(wire[q][j], p, r2)
    <3>1. wire[q][j] \in Message /\ MessageInv(wire[q][j], p, r)
      BY <1>1, <1>9 DEF IInv
    <3>2. QED
      BY <2>1, <3>1
  <2>3. CASE wire'[q] = wire[q]
    BY <2>2, <2>3
  <2>4. CASE \E m \in Message : MessageInv(m, p, r2) /\ wire'[q] = Append(wire[q], m)
    <3>1. PICK m \in Message : MessageInv(m, p, r2) /\ wire'[q] = Append(wire[q], m)
      BY <2>4
    <3>2. wire[q] \in Seq(Message)
      BY <1>1, <1>9
    <3>3. i \in 1..(Len(wire[q]) + 1) /\ Len(wire[q]) \in Nat /\ DOMAIN wire[q] = 1..Len(wire[q])
      BY <3>1, <3>2
    <3>4. CASE i = Len(wire[q]) + 1
      BY <3>1, <3>2, <3>4
    <3>5. CASE i # Len(wire[q]) + 1
      <4>1. i \in DOMAIN wire[q]
        BY <3>3, <3>5
      <4>2. wire'[q][i] = wire[q][i]
        BY <3>1, <3>2, <4>1
      <4>3. QED
        BY <2>2, <4>1, <4>2
    <3>6. QED
      BY <3>4, <3>5
  <2>5. QED
    BY <1>10, <2>3, <2>4
<1>13. \A x \in Peer : Good(x, peer[x], peer[Other(x)])'
  <2>1. PICK s0 : s0 = s
    OBVIOUS
  <2>2. Good(p, r2, s0) /\ Good(q, s0, r2)
    BY <1>8, <2>1
  <2>3. Good(p, r2, s0)' /\ Good(q, s0, r2)'
    BY <1>2, <2>2, GoodFixed
  <2>4. Good(p, peer[p], peer[q])' /\ Good(q, peer[q], peer[p])'
    BY <1>5, <2>1, <2>3
  <2>5. QED
    BY <1>1, <2>4
<1>14. \A x \in Peer : QuietInv(peer'[x])
  BY <1>1, <1>5, <1>6
<1>15. (\A x \in Peer : \A i \in DOMAIN wire[x] :
              MessageInv(wire[x][i], Other(x), peer[Other(x)]))'
  <2>1. PICK s0 : s0 = s
    OBVIOUS
  <2>2. ASSUME NEW i \in DOMAIN wire'[p]  PROVE MessageInv(wire[p][i], q, peer[q])'
    <3>1. PICK m : m = wire'[p][i]
      OBVIOUS
    <3>2. MessageInv(m, q, s0)
      BY <1>11, <2>1, <3>1
    <3>3. MessageInv(m, q, s0)'
      BY <1>2, <3>2, MessageFixed
    <3>4. QED
      BY <1>5, <2>1, <3>1, <3>3
  <2>3. ASSUME NEW i \in DOMAIN wire'[q]  PROVE MessageInv(wire[q][i], p, peer[p])'
    <3>1. PICK m : m = wire'[q][i]
      OBVIOUS
    <3>2. MessageInv(m, p, r2)
      BY <1>12, <3>1
    <3>3. MessageInv(m, p, r2)'
      BY <1>2, <3>2, MessageFixed
    <3>4. QED
      BY <1>5, <3>1, <3>3
  <2>4. QED
    BY <1>1, <2>2, <2>3
<1>16. IInv'
  BY <1>2, <1>5, <1>10, <1>13, <1>14, <1>15, MatchFixed DEF IInv, QuietInv
<1>17. Becomes(p, r2)
  BY DEF Stepped
<1>18. QED
  BY <1>16, <1>17 DEF KeptBy
-----------------------------------------------------------------------------
(* Steps that touch no row, record or frame                                  *)

\* Two records of fields that agree on what the invariant says
Aside(r, r2) ==
    /\ r2 \in PeerType
    /\ r2.agreement = r.agreement /\ r2.ready = r.ready
    /\ r2.local = r.local /\ r2.native = r.native /\ r2.deferred = r.deferred
    /\ r2.remote = r.remote /\ r2.staged = r.staged /\ r2.remoteChecksums = r.remoteChecksums
    /\ r2.ackInput = r.ackInput /\ r2.ackChecksum = r.ackChecksum
    /\ r2.expectedSequence = r.expectedSequence /\ r2.admittedSequence = r.admittedSequence
    /\ r2.pending = r.pending
    /\ r2.pushed = r.pushed /\ r2.emitted = r.emitted
    /\ r2.compared = r.compared /\ r2.mismatch = r.mismatch
    /\ r.nextSequence <= r2.nextSequence
    /\ r2.receiving => r.receiving
    /\ r2.staged # NotStaged => r2.receiving

\* Such a change keeps a peer good.
LEMMA AsideGood ==
    ASSUME NEW p, NEW r, NEW r2, NEW s, Good(p, r, s), Aside(r, r2)
    PROVE  Good(p, r2, s) /\ Grows(r, r2)
<1>1. r \in PeerType /\ r2 \in PeerType
  BY DEF Good, PeerInv, Aside
<1>2. LocalTicks(r2) = LocalTicks(r)
  BY DEF Aside, LocalTicks
<1>3. LocalInv(r2) /\ RemoteInv(r2)
  BY <1>2 DEF Good, PeerInv, Aside, LocalInv, RemoteInv
<1>4. SequenceInv(r2)
  BY <1>2 DEF Good, PeerInv, Aside, SequenceInv
<1>5. FrameInv(p, r2)
  <2>1. ASSUME NEW i  PROVE Composable(r2, i) = Composable(r, i)
                            /\ FrameAt(p, r2, i) = FrameAt(p, r, i)
    BY DEF Aside, Composable, FrameAt
  <2>2. QED
    BY <2>1 DEF Good, PeerInv, Aside, FrameInv
<1>6. CallerInv(p, r2)
  BY DEF Good, PeerInv, Aside, CallerInv
<1>7. LinkInv(r2, Other(p), s)
  BY DEF Good, Aside, LinkInv
<1>8. FirstDifference(r2, s)
  BY DEF Good, Aside, FirstDifference
<1>9. Grows(r, r2)
  BY <1>1, PeerFields DEF Aside, Grows
<1>10. QED
  BY <1>1, <1>3, <1>4, <1>5, <1>6, <1>7, <1>8, <1>9 DEF Good, PeerInv

\* To end a peer is such a change.
LEMMA EndedAside ==
    ASSUME NEW r \in PeerType, NEW kind \in {"protocol", "desync", "disconnect"},
           r.staged # NotStaged => r.receiving
    PROVE  Aside(r, Ended(r, kind)) /\ Ended(r, kind).terminal = kind
<1> DEFINE r2 == Ended(r, kind)
<1>1. r2 \in PeerType /\ r2.terminal = kind
  BY DEF Ended, PeerType
<1>2. /\ r2.agreement = r.agreement /\ r2.ready = r.ready
      /\ r2.local = r.local /\ r2.native = r.native /\ r2.deferred = r.deferred
      /\ r2.remote = r.remote /\ r2.staged = r.staged /\ r2.remoteChecksums = r.remoteChecksums
      /\ r2.ackInput = r.ackInput /\ r2.ackChecksum = r.ackChecksum
      /\ r2.expectedSequence = r.expectedSequence /\ r2.admittedSequence = r.admittedSequence
      /\ r2.pending = r.pending /\ r2.receiving = r.receiving
      /\ r2.pushed = r.pushed /\ r2.emitted = r.emitted
      /\ r2.compared = r.compared /\ r2.mismatch = r.mismatch
      /\ r2.nextSequence = r.nextSequence
  BY DEF Ended, PeerType
<1> HIDE DEF r2
<1>3. r.nextSequence <= r2.nextSequence
  BY <1>2, PeerFields
<1>4. QED
  BY <1>1, <1>2, <1>3 DEF Aside, r2

\* A peer that fails keeps what it has, and says so.
LEMMA FailsInv ==
    ASSUME IInv, NEW p \in Peer, NEW r, NEW left, Remains(p, left),
           NEW kind \in {"protocol", "desync"},
           Good(p, r, peer[Other(p)]), Grows(peer[p], r), Fails(p, r, kind, left)
    PROVE  KeptBy(p)
<1> DEFINE r2 == Ended(r, kind)
           m == [type |-> "terminal", kind |-> kind]
<1>1. r \in PeerType /\ peer[p] \in PeerType /\ (r.staged # NotStaged => r.receiving)
  BY DEF Good, PeerInv, SequenceInv, IInv
<1>2. Aside(r, r2) /\ r2.terminal = kind
  BY <1>1, EndedAside
<1>3. Good(p, r2, peer[Other(p)]) /\ Grows(r, r2)
  BY <1>2, AsideGood
<1>4. Grows(peer[p], r2)
  BY <1>1, <1>2, <1>3, GrowsTrans DEF Aside
<1>5. m \in Message /\ MessageInv(m, p, r2)
  BY DEF Message, MessageInv
<1>6. Stepped(p, r2, left)
  BY <1>5 DEF Fails, Stepped
<1>7. QuietInv(r2)
  BY <1>2 DEF QuietInv
<1> HIDE DEF r2
<1>8. QED
  BY <1>3, <1>4, <1>6, <1>7, StepInv

-----------------------------------------------------------------------------
(* #pumpFrames                                                               *)

\* A frame that can be composed is a pair of pads.
LEMMA ComposedFrame ==
    ASSUME setup \in DOMAIN Setups, NEW p, NEW r \in PeerType, NEW i \in Nat, Composable(r, i)
    PROVE  FrameAt(p, r, i) \in Frame
<1>1. PICK D \in SUBSET Int : r.native \in [D -> Pad \cup {NeutralPad}]
  BY PeerFields DEF Rows
<1>2. PICK E \in SUBSET Int : r.remote \in [E -> Pad \cup {NeutralPad}]
  BY PeerFields, ZenonT(60) DEF Rows
<1>3. CASE i < Delay
  BY <1>3 DEF FrameAt, Frame
<1>4. CASE ~(i < Delay)
  BY <1>1, <1>2, <1>4 DEF FrameAt, Frame, Composable
<1>5. QED
  BY <1>3, <1>4

\* The engine is given every frame that can be composed, up to some frame
LEMMA PumpedFrames ==
    ASSUME setup \in DOMAIN Setups, NEW p, NEW r \in PeerType, FrameInv(p, r)
    PROVE  \E n \in Len(r.pushed)..SourceTicks :
              /\ \A i \in Len(r.pushed)..(n - 1) : Composable(r, i)
              /\ Pumped(p, r) = [r EXCEPT !.pushed = [i \in 1..n |->
                     IF i <= Len(r.pushed) THEN r.pushed[i] ELSE FrameAt(p, r, i - 1)]]
<1> DEFINE next == Len(r.pushed)
           S == {n \in next..SourceTicks : \A i \in next..(n - 1) : Composable(r, i)}
<1>1. next \in Nat /\ SourceTicks \in Nat /\ next <= SourceTicks
  BY PeerFields, Parameters DEF FrameInv
<1>2. next \in S
  BY <1>1
<1>3. SourceTicks \in Int /\ S \in SUBSET Int /\ S # {} /\ \A x \in S : x <= SourceTicks
  BY <1>1, <1>2
<1>4. Max(S) \in S
  <2> HIDE DEF S
  <2> QED  BY <1>3, MaxInt
<1>5. Pumped(p, r) = [r EXCEPT !.pushed = [i \in 1..Max(S) |->
          IF i <= next THEN r.pushed[i] ELSE FrameAt(p, r, i - 1)]]
  BY DEF Pumped
<1>6. QED
  BY <1>4, <1>5

\* The pump keeps a peer good: it adds composed frames behind those it had.
LEMMA PumpGood ==
    ASSUME setup \in DOMAIN Setups, NEW p \in Peer, NEW r, NEW s, Good(p, r, s), r.ready
    PROVE  /\ Good(p, Pumped(p, r), s) /\ Grows(r, Pumped(p, r))
           /\ Pumped(p, r).terminal = r.terminal /\ Pumped(p, r).mismatch = r.mismatch
<1>1. r \in PeerType /\ FrameInv(p, r)
  BY DEF Good, PeerInv
<1>2. PICK n \in Len(r.pushed)..SourceTicks :
              /\ \A i \in Len(r.pushed)..(n - 1) : Composable(r, i)
              /\ Pumped(p, r) = [r EXCEPT !.pushed = [i \in 1..n |->
                     IF i <= Len(r.pushed) THEN r.pushed[i] ELSE FrameAt(p, r, i - 1)]]
  BY <1>1, PumpedFrames
<1> DEFINE f == [i \in 1..n |-> IF i <= Len(r.pushed) THEN r.pushed[i] ELSE FrameAt(p, r, i - 1)]
           r2 == Pumped(p, r)
<1>3. n \in Nat /\ Len(r.pushed) \in Nat /\ Len(r.pushed) <= n /\ n <= SourceTicks
      /\ DOMAIN r.pushed = 1..Len(r.pushed)
  BY <1>1, <1>2, PeerFields, Parameters
<1>4. ASSUME NEW i \in 1..n
      PROVE  /\ Composable(r, i - 1) /\ f[i] = FrameAt(p, r, i - 1) /\ f[i] \in Frame
             /\ i <= Len(r.pushed) => f[i] = r.pushed[i]
  <2>1. Composable(r, i - 1)
    <3>1. CASE i <= Len(r.pushed)
      BY <1>1, <1>3, <3>1 DEF FrameInv
    <3>2. CASE ~(i <= Len(r.pushed))
      <4>1. i - 1 \in Len(r.pushed)..(n - 1)
        BY <1>3, <3>2
      <4>2. QED
        BY <1>2, <4>1
    <3>3. QED
      BY <3>1, <3>2
  <2>2. f[i] = FrameAt(p, r, i - 1) /\ (i <= Len(r.pushed) => f[i] = r.pushed[i])
    <3>1. CASE i <= Len(r.pushed)
      <4>1. i \in DOMAIN r.pushed
        BY <1>3, <3>1
      <4>2. QED
        BY <1>1, <3>1, <4>1 DEF FrameInv
    <3>2. CASE ~(i <= Len(r.pushed))
      BY <3>2
    <3>3. QED
      BY <3>1, <3>2
  <2>3. i - 1 \in Nat
    BY <1>3
  <2>4. FrameAt(p, r, i - 1) \in Frame
    BY <1>1, <2>1, <2>3, ComposedFrame
  <2>5. QED
    BY <2>1, <2>2, <2>4
<1>5. f \in Seq(Frame) /\ Len(f) = n /\ DOMAIN f = 1..n
  <2>1. f \in [1..n -> Frame]
    BY <1>4
  <2>2. QED
    <3> HIDE DEF f
    <3> QED  BY <1>3, <2>1
<1>6. r2 = [r EXCEPT !.pushed = f]
  BY <1>2
<1> HIDE DEF f
<1>7. /\ r2 \in PeerType /\ r2.pushed = f
      /\ r2.agreement = r.agreement /\ r2.ready = r.ready /\ r2.terminal = r.terminal
      /\ r2.local = r.local /\ r2.native = r.native /\ r2.deferred = r.deferred
      /\ r2.remote = r.remote /\ r2.staged = r.staged /\ r2.remoteChecksums = r.remoteChecksums
      /\ r2.ackInput = r.ackInput /\ r2.ackChecksum = r.ackChecksum
      /\ r2.expectedSequence = r.expectedSequence /\ r2.admittedSequence = r.admittedSequence
      /\ r2.pending = r.pending /\ r2.receiving = r.receiving
      /\ r2.emitted = r.emitted /\ r2.compared = r.compared /\ r2.mismatch = r.mismatch
      /\ r2.nextSequence = r.nextSequence
  BY <1>1, <1>5, <1>6, ZenonT(60) DEF PeerType
<1> HIDE DEF r2
<1>8. LocalTicks(r2) = LocalTicks(r)
  BY <1>7 DEF LocalTicks
<1>9. LocalInv(r2) /\ RemoteInv(r2)
  BY <1>7, <1>8 DEF Good, PeerInv, LocalInv, RemoteInv
<1>10. SequenceInv(r2)
  BY <1>7, <1>8 DEF Good, PeerInv, SequenceInv
<1>11. FrameInv(p, r2)
  <2>1. ASSUME NEW i  PROVE Composable(r2, i) = Composable(r, i)
                            /\ FrameAt(p, r2, i) = FrameAt(p, r, i)
    BY <1>7 DEF Composable, FrameAt
  <2>2. \A i \in DOMAIN r2.pushed : Composable(r2, i - 1) /\ r2.pushed[i] = FrameAt(p, r2, i - 1)
    BY <1>4, <1>5, <1>7, <2>1
  <2>3. r.compared <= r.emitted /\ r.emitted <= Len(r.pushed)
    BY <1>1 DEF FrameInv
  <2>4. r2.compared <= r2.emitted /\ r2.emitted <= Len(r2.pushed) /\ Len(r2.pushed) <= SourceTicks
    BY <1>1, <1>3, <1>5, <1>7, <2>3, PeerFields
  <2>5. QED
    BY <1>7, <2>2, <2>4 DEF FrameInv
<1>12. CallerInv(p, r2)
  BY <1>7 DEF Good, PeerInv, CallerInv
<1>13. LinkInv(r2, Other(p), s)
  BY <1>7 DEF Good, LinkInv
<1>14. FirstDifference(r2, s)
  <2>1. r.compared \in Nat /\ r.compared <= Len(r.pushed)
    BY <1>1, <1>3, PeerFields DEF FrameInv
  <2>2. ASSUME NEW t \in 1..r.compared  PROVE t \in 1..n /\ t <= Len(r.pushed)
    BY <1>3, <2>1
  <2>3. \A t \in 1..r2.compared : t <= Len(s.pushed) /\ r2.pushed[t] = s.pushed[t]
    BY <1>4, <1>7, <2>2 DEF Good, FirstDifference
  <2>4. ASSUME r.mismatch # -1
        PROVE  /\ r2.mismatch + 1 \in DOMAIN r2.pushed /\ r2.mismatch + 1 \in DOMAIN s.pushed
               /\ r2.pushed[r2.mismatch + 1] # s.pushed[r2.mismatch + 1]
               /\ \A u \in 1..r2.mismatch : r2.pushed[u] = s.pushed[u]
    <3>1. /\ r.mismatch + 1 \in DOMAIN r.pushed /\ r.mismatch + 1 \in DOMAIN s.pushed
          /\ r.pushed[r.mismatch + 1] # s.pushed[r.mismatch + 1]
          /\ \A u \in 1..r.mismatch : r.pushed[u] = s.pushed[u]
      BY <2>4 DEF Good, FirstDifference
    <3>2. r.mismatch \in Int
      BY <1>1, PeerFields
    <3>3. r.mismatch + 1 \in 1..n /\ r.mismatch + 1 <= Len(r.pushed)
      BY <1>3, <3>1, <3>2
    <3>4. f[r.mismatch + 1] = r.pushed[r.mismatch + 1]
      BY <1>4, <3>3
    <3>5. ASSUME NEW u \in 1..r.mismatch  PROVE f[u] = s.pushed[u]
      <4>1. u \in 1..n /\ u <= Len(r.pushed)
        BY <1>3, <3>2, <3>3
      <4>2. QED
        BY <1>4, <3>1, <4>1
    <3>6. QED
      BY <1>5, <1>7, <3>1, <3>3, <3>4, <3>5
  <2>5. QED
    BY <1>7, <2>3, <2>4 DEF FirstDifference
<1>15. Grows(r, r2)
  <2>1. \A i \in 1..Len(r.pushed) : r2.pushed[i] = r.pushed[i]
    BY <1>3, <1>4, <1>7
  <2>2. Len(r.pushed) <= Len(r2.pushed)
    BY <1>3, <1>5, <1>7
  <2>3. r.emitted <= r2.emitted /\ r.nextSequence <= r2.nextSequence
        /\ r.admittedSequence <= r2.admittedSequence
        /\ r.ackInput <= r2.ackInput /\ r.ackChecksum <= r2.ackChecksum
    BY <1>1, <1>7, PeerFields
  <2>4. QED
    BY <1>7, <2>1, <2>2, <2>3 DEF Grows
<1>16. QED
  BY <1>7, <1>9, <1>10, <1>11, <1>12, <1>13, <1>14, <1>15 DEF Good, PeerInv, r2

\* A call that pumps keeps the invariant, whether its push is refused or not.
LEMMA PumpThenOweInv ==
    ASSUME IInv, NEW p \in Peer, NEW r, NEW left, NEW sends \in Int, Remains(p, left),
           Good(p, r, peer[Other(p)]), QuietInv(r), r.ready, Grows(peer[p], r),
           PumpThenOwe(p, r, sends, left)
    PROVE  KeptBy(p)
<1> DEFINE s == peer[Other(p)]
           r1 == Pumped(p, r)
           r2 == [r1 EXCEPT !.owed = @ + sends]
<1>1. setup \in DOMAIN Setups /\ peer[p] \in PeerType /\ r \in PeerType
  BY DEF IInv, Good, PeerInv
<1>2. Good(p, r1, s) /\ Grows(r, r1) /\ r1.terminal = r.terminal /\ r1.mismatch = r.mismatch
  BY <1>1, PumpGood
<1>3. r1 \in PeerType /\ (r1.staged # NotStaged => r1.receiving)
  BY <1>2 DEF Good, PeerInv, SequenceInv
<1> HIDE DEF r1
<1>4. CASE Becomes(p, r2) /\ Leaves(p, left)
  <2>0. r1.owed + sends \in Int
    BY <1>3, PeerFields
  <2>1. /\ r2 \in PeerType /\ r2.terminal = r1.terminal
        /\ r2.agreement = r1.agreement /\ r2.ready = r1.ready
        /\ r2.local = r1.local /\ r2.native = r1.native /\ r2.deferred = r1.deferred
        /\ r2.remote = r1.remote /\ r2.staged = r1.staged /\ r2.remoteChecksums = r1.remoteChecksums
        /\ r2.ackInput = r1.ackInput /\ r2.ackChecksum = r1.ackChecksum
        /\ r2.expectedSequence = r1.expectedSequence
        /\ r2.admittedSequence = r1.admittedSequence
        /\ r2.pending = r1.pending /\ r2.receiving = r1.receiving
        /\ r2.pushed = r1.pushed /\ r2.emitted = r1.emitted
        /\ r2.compared = r1.compared /\ r2.mismatch = r1.mismatch
        /\ r2.nextSequence = r1.nextSequence
    BY <1>3, <2>0 DEF PeerType
  <2> HIDE DEF r2
  <2>2. r1.nextSequence <= r2.nextSequence
    BY <1>3, <2>1, PeerFields
  <2>3. Aside(r1, r2)
    BY <1>3, <2>1, <2>2 DEF Aside
  <2>4. Good(p, r2, s) /\ Grows(r1, r2)
    BY <1>2, <2>3, AsideGood
  <2>5. Grows(peer[p], r1)
    BY <1>1, <1>2, <1>3, GrowsTrans
  <2>6. Grows(peer[p], r2)
    BY <1>1, <1>3, <2>1, <2>4, <2>5, GrowsTrans
  <2>7. QuietInv(r2)
    BY <1>2, <2>1 DEF QuietInv
  <2>8. Stepped(p, r2, left)
    BY <1>4 DEF Stepped
  <2>9. QED
    BY <2>4, <2>6, <2>7, <2>8, StepInv
<1>5. CASE Fails(p, r, "protocol", left)
  BY <1>5, FailsInv
<1>6. QED
  BY <1>4, <1>5 DEF PumpThenOwe, r1

-----------------------------------------------------------------------------
(* The cursors, and #compareReadyChecksums                                   *)

\* The cursor of a bounded set of ticks stands at the end of its gapless start.
LEMMA ContiguousStart ==
    ASSUME NEW n \in Int, NEW T \in SUBSET Nat, \A t \in T : t <= n
    PROVE  /\ Contiguous(T) \in Int /\ -1 <= Contiguous(T)
           /\ 0..Contiguous(T) \subseteq T
           /\ \A k \in Int : 0..k \subseteq T => k <= Contiguous(T)
<1> DEFINE S == {t \in {-1} \cup T : t + 1 \notin T}
           C == Contiguous(T)
<1>1. S \in SUBSET Int /\ -1 \in Int /\ \A x \in S : -1 <= x
  <2>1. ASSUME NEW x \in S  PROVE x \in Int /\ -1 <= x
    <3>1. x = -1 \/ x \in Nat
      OBVIOUS
    <3>2. QED
      BY <3>1
  <2>2. -1 \in Int
    OBVIOUS
  <2>3. QED
    BY <2>1, <2>2
<1>2. S # {}
  <2>1. CASE T = {}
    BY <2>1
  <2>2. CASE T # {}
    <3>1. T \in SUBSET Int
      OBVIOUS
    <3>2. Max(T) \in T /\ \A x \in T : x <= Max(T)
      BY <2>2, <3>1, MaxInt
    <3>3. Max(T) + 1 \notin T
      <4>1. Max(T) \in Nat
        BY <3>2
      <4>2. QED
        BY <3>2, <4>1
    <3>4. QED
      BY <3>2, <3>3
  <2>3. QED
    BY <2>1, <2>2
<1>3. C \in S /\ \A x \in S : C <= x
  <2>1. C = Min(S)
    BY DEF Contiguous
  <2> HIDE DEF S, C
  <2>2. QED
    BY <1>1, <1>2, <2>1, MinInt
<1>4. C \in Int /\ -1 <= C /\ C + 1 \notin T
  BY <1>1, <1>3
<1> HIDE DEF C
<1>5. ASSUME NEW u \in 0..C, u \notin T  PROVE FALSE
  <2> DEFINE M == {x \in 0..C : x \notin T}
  <2>1. M \in SUBSET Nat /\ M # {}
    BY <1>5
  <2>2. PICK m \in M : \A x \in M : m <= x
    <3> HIDE DEF M
    <3> QED  BY <2>1, LeastNatural
  <2>3. m \in Nat /\ m <= C /\ m \notin T
    BY <1>4
  <2>4. m - 1 \in S
    <3>1. CASE m = 0
      BY <2>3, <3>1
    <3>2. CASE m # 0
      <4>1. m - 1 \in 0..C /\ m - 1 \notin M
        BY <1>4, <2>2, <2>3, <3>2
      <4>2. QED
        BY <2>3, <4>1
    <3>3. QED
      BY <3>1, <3>2
  <2>5. C <= m - 1
    BY <1>3, <2>4
  <2>6. QED
    BY <1>4, <2>3, <2>5
<1>6. ASSUME NEW k \in Int, 0..k \subseteq T  PROVE k <= C
  <2>1. CASE C < k
    <3>1. C + 1 \in 0..k
      BY <1>4, <2>1
    <3>2. QED
      BY <1>4, <1>6, <3>1
  <2>2. QED
    BY <1>4, <2>1
<1>7. QED
  BY <1>4, <1>5, <1>6 DEF C

\* The other peer: its engine has run no frame that it was not given
Engine(s) == s \in PeerType /\ s.emitted <= Len(s.pushed)

\* The comparison moves only its own cursor, over records that agree, and stops
\* at the first one that does not.
LEMMA ComparedGood ==
    ASSUME NEW p, NEW r, NEW s, Good(p, r, s), Engine(s), r.mismatch = -1
    PROVE  /\ Good(p, Compared(r), s) /\ Grows(r, Compared(r))
           /\ \E c \in Nat, m \in Int :
                 Compared(r) = [r EXCEPT !.compared = c, !.mismatch = m]
<1> DEFINE T == DOMAIN r.remoteChecksums
           C == Contiguous(T)
           through == Min({r.emitted - 1, C})
           wrong == {t \in r.compared..through : r.pushed[t + 1] # r.remoteChecksums[t]}
           r2 == Compared(r)
<1>1. /\ r \in PeerType /\ s \in PeerType /\ FrameInv(p, r) /\ RemoteInv(r)
      /\ LinkInv(r, Other(p), s) /\ FirstDifference(r, s)
  BY DEF Good, PeerInv, Engine
<1>2. /\ r.emitted \in Nat /\ r.compared \in Nat /\ r.compared <= r.emitted
      /\ Len(r.pushed) \in Nat /\ r.emitted <= Len(r.pushed) /\ DOMAIN r.pushed = 1..Len(r.pushed)
      /\ s.emitted \in Nat /\ Len(s.pushed) \in Nat /\ s.emitted <= Len(s.pushed)
      /\ DOMAIN s.pushed = 1..Len(s.pushed)
  BY <1>1, PeerFields DEF FrameInv, Engine
<1>3. T \in SUBSET Nat /\ \A t \in T : t <= s.emitted
  BY <1>1, <1>2 DEF RemoteInv, LinkInv
<1>4. C \in Int /\ 0..C \subseteq T
  <2>1. s.emitted \in Int
    BY <1>2
  <2> HIDE DEF T
  <2>2. QED
    BY <1>3, <2>1, ContiguousStart
<1> HIDE DEF C
<1>5. through \in Int /\ through <= r.emitted - 1 /\ through <= C
  <2>1. r.emitted - 1 \in Int
    BY <1>2
  <2>2. through = IF r.emitted - 1 <= C THEN r.emitted - 1 ELSE C
    BY <1>4, <2>1, MinPair
  <2>3. QED
    BY <1>4, <2>1, <2>2
<1> HIDE DEF through
<1>6. ASSUME NEW u \in 0..through
      PROVE  u < s.emitted /\ r.remoteChecksums[u] = s.pushed[u + 1]
  <2>1. u \in 0..C
    BY <1>4, <1>5
  <2>2. u \in T
    BY <1>4, <2>1
  <2>3. QED
    BY <1>1, <2>2 DEF LinkInv
\* Before the first wrong record, the frames are the same
<1>7. ASSUME NEW k \in Int, k <= through + 1 \/ k <= r.compared,
             \A u \in wrong : k <= u, NEW t \in 1..k
      PROVE  t <= Len(s.pushed) /\ r.pushed[t] = s.pushed[t]
  <2>1. CASE t <= r.compared
    <3>1. t \in 1..r.compared
      BY <1>2, <2>1
    <3>2. QED
      BY <1>1, <3>1 DEF FirstDifference
  <2>2. CASE ~(t <= r.compared)
    <3>1. t - 1 \in r.compared..through /\ t - 1 \in 0..through /\ t - 1 < k /\ t - 1 \in Int
      BY <1>2, <1>5, <1>7, <2>2
    <3>2. t - 1 \notin wrong
      <4>1. SUFFICES ASSUME t - 1 \in wrong  PROVE FALSE
        OBVIOUS
      <4>2. k <= t - 1
        BY <1>7, <4>1
      <4>3. QED
        BY <3>1, <4>2
    <3>3. r.pushed[(t - 1) + 1] = r.remoteChecksums[t - 1]
      BY <3>1, <3>2
    <3>4. t - 1 < s.emitted /\ r.remoteChecksums[t - 1] = s.pushed[(t - 1) + 1]
      BY <1>6, <3>1
    <3>5. (t - 1) + 1 = t
      OBVIOUS
    <3>6. QED
      BY <1>2, <3>1, <3>3, <3>4, <3>5
  <2>3. QED
    BY <2>1, <2>2
<1>8. \E c \in Nat, m \in Int :
         /\ r2 = [r EXCEPT !.compared = c, !.mismatch = m]
         /\ c <= r.emitted
         /\ \A t \in 1..c : t <= Len(s.pushed) /\ r.pushed[t] = s.pushed[t]
         /\ m # -1 => /\ m + 1 \in DOMAIN r.pushed /\ m + 1 \in DOMAIN s.pushed
                      /\ r.pushed[m + 1] # s.pushed[m + 1]
                      /\ \A u \in 1..m : r.pushed[u] = s.pushed[u]
  <2>1. CASE wrong = {}
    <3> DEFINE c == Max({r.compared, through + 1})
    <3>1. c = (IF r.compared <= through + 1 THEN through + 1 ELSE r.compared)
      BY <1>2, <1>5, MaxPair
    <3>2. c \in Nat /\ c <= r.emitted /\ (c <= through + 1 \/ c <= r.compared) /\ c \in Int
      BY <1>2, <1>5, <3>1
    <3>3. r2 = [r EXCEPT !.compared = c, !.mismatch = -1]
      <4>1. r2 = [r EXCEPT !.compared = c]
        BY <2>1 DEF Compared, through, C
      <4> HIDE DEF c
      <4>2. QED
        BY <1>1, <4>1 DEF PeerType
    <3> HIDE DEF c
    <3>4. \A t \in 1..c : t <= Len(s.pushed) /\ r.pushed[t] = s.pushed[t]
      BY <1>7, <2>1, <3>2
    <3>5. -1 \in Int
      OBVIOUS
    <3>6. QED
      BY <3>2, <3>3, <3>4, <3>5
  <2>2. CASE wrong # {}
    <3> DEFINE m == Min(wrong)
    <3>1. wrong \in SUBSET Int /\ r.compared \in Int /\ \A x \in wrong : r.compared <= x
      BY <1>2, <1>5
    <3>2. m \in wrong /\ \A x \in wrong : m <= x
      <4> HIDE DEF wrong
      <4> QED  BY <2>2, <3>1, MinInt
    <3>3. r2 = [r EXCEPT !.compared = m, !.mismatch = m]
      BY <2>2 DEF Compared, through, C
    <3> HIDE DEF m
    <3>4. m \in r.compared..through /\ r.pushed[m + 1] # r.remoteChecksums[m]
      BY <3>2
    <3>5. m \in Nat /\ m \in Int /\ m <= through /\ m <= r.emitted /\ m \in 0..through
      BY <1>2, <1>5, <3>4
    <3>6. m < s.emitted /\ r.remoteChecksums[m] = s.pushed[m + 1]
      BY <1>6, <3>5
    <3>7. m + 1 \in DOMAIN r.pushed /\ m + 1 \in DOMAIN s.pushed
      BY <1>2, <1>5, <3>5, <3>6
    <3>8. \A t \in 1..m : t <= Len(s.pushed) /\ r.pushed[t] = s.pushed[t]
      <4>1. m <= through + 1
        BY <1>5, <3>5
      <4>2. QED
        BY <1>7, <3>2, <3>5, <4>1
    <3>9. QED
      BY <3>3, <3>4, <3>5, <3>6, <3>7, <3>8
  <2>3. QED
    BY <2>1, <2>2
<1>9. PICK c \in Nat, m \in Int :
         /\ r2 = [r EXCEPT !.compared = c, !.mismatch = m]
         /\ c <= r.emitted
         /\ \A t \in 1..c : t <= Len(s.pushed) /\ r.pushed[t] = s.pushed[t]
         /\ m # -1 => /\ m + 1 \in DOMAIN r.pushed /\ m + 1 \in DOMAIN s.pushed
                      /\ r.pushed[m + 1] # s.pushed[m + 1]
                      /\ \A u \in 1..m : r.pushed[u] = s.pushed[u]
  BY <1>8
<1>10. /\ r2 \in PeerType /\ r2.compared = c /\ r2.mismatch = m /\ r2.pushed = r.pushed
       /\ r2.agreement = r.agreement /\ r2.ready = r.ready
       /\ r2.local = r.local /\ r2.native = r.native /\ r2.deferred = r.deferred
       /\ r2.remote = r.remote /\ r2.staged = r.staged /\ r2.remoteChecksums = r.remoteChecksums
       /\ r2.ackInput = r.ackInput /\ r2.ackChecksum = r.ackChecksum
       /\ r2.expectedSequence = r.expectedSequence /\ r2.admittedSequence = r.admittedSequence
       /\ r2.pending = r.pending /\ r2.receiving = r.receiving
       /\ r2.emitted = r.emitted /\ r2.nextSequence = r.nextSequence
  <2>1. r2 = [r EXCEPT !.compared = c, !.mismatch = m]
    BY <1>9
  <2> HIDE DEF r2
  <2>2. QED
    BY <1>1, <2>1 DEF PeerType
<1> HIDE DEF r2
<1>11. LocalTicks(r2) = LocalTicks(r)
  BY <1>10 DEF LocalTicks
<1>12. LocalInv(r2) /\ RemoteInv(r2) /\ SequenceInv(r2)
  BY <1>10, <1>11 DEF Good, PeerInv, LocalInv, RemoteInv, SequenceInv
<1>13. FrameInv(p, r2)
  <2>1. ASSUME NEW i  PROVE Composable(r2, i) = Composable(r, i)
                            /\ FrameAt(p, r2, i) = FrameAt(p, r, i)
    BY <1>10 DEF Composable, FrameAt
  <2>2. QED
    BY <1>1, <1>9, <1>10, <2>1 DEF FrameInv
<1>14. CallerInv(p, r2)
  BY <1>10 DEF Good, PeerInv, CallerInv
<1>15. LinkInv(r2, Other(p), s)
  BY <1>1, <1>10 DEF LinkInv
<1>16. FirstDifference(r2, s)
  BY <1>9, <1>10 DEF FirstDifference
<1>17. Grows(r, r2)
  BY <1>1, <1>10, PeerFields, SMTT(30) DEF Grows
<1>18. QED
  BY <1>9, <1>10, <1>12, <1>13, <1>14, <1>15, <1>16, <1>17 DEF Good, PeerInv, r2

-----------------------------------------------------------------------------
(* addLocalInputs                                                            *)

\* The number of members of T below x counts them in order.
LEMMA BelowCount ==
    ASSUME NEW T \in SUBSET Int, IsFiniteSet(T)
    PROVE  \A x \in T : /\ Cardinality({y \in T : y < x}) \in 0..(Cardinality(T) - 1)
                        /\ \A z \in T : x < z => Cardinality({y \in T : y < x})
                                                   < Cardinality({y \in T : y < z})
<1> DEFINE Below(x) == {y \in T : y < x}
<1>1. ASSUME NEW x \in T
      PROVE  IsFiniteSet(Below(x)) /\ Cardinality(Below(x)) \in Nat
  <2>1. Below(x) \in SUBSET T
    OBVIOUS
  <2>2. QED
    <3> HIDE DEF Below
    <3> QED  BY <2>1, FS_Subset, FS_CardinalityType
<1>2. ASSUME NEW x \in T, NEW z, z \in SUBSET T, Below(x) \cup {x} \subseteq z
      PROVE  Cardinality(Below(x)) + 1 <= Cardinality(z)
  <2>1. x \notin Below(x)
    OBVIOUS
  <2> HIDE DEF Below
  <2>2. Cardinality(Below(x) \cup {x}) = Cardinality(Below(x)) + 1
    BY <1>1, <2>1, FS_AddElement
  <2>3. IsFiniteSet(z)
    BY <1>2, FS_Subset
  <2>4. Cardinality(Below(x) \cup {x}) <= Cardinality(z)
    BY <1>2, <2>3, FS_Subset
  <2>5. QED
    BY <2>2, <2>4
<1>3. ASSUME NEW x \in T  PROVE Cardinality(Below(x)) \in 0..(Cardinality(T) - 1)
  <2>1. Below(x) \cup {x} \subseteq T /\ T \in SUBSET T
    OBVIOUS
  <2> HIDE DEF Below
  <2>2. Cardinality(Below(x)) + 1 <= Cardinality(T)
    BY <1>2, <2>1
  <2>3. Cardinality(T) \in Nat
    BY FS_CardinalityType
  <2>4. QED
    BY <1>1, <2>2, <2>3
<1>4. ASSUME NEW x \in T, NEW z \in T, x < z
      PROVE  Cardinality(Below(x)) < Cardinality(Below(z))
  <2>1. Below(x) \cup {x} \subseteq Below(z) /\ Below(z) \in SUBSET T
    <3>1. ASSUME NEW y \in T, y < x  PROVE y < z
      <4>1. x \in Int /\ y \in Int /\ z \in Int
        OBVIOUS
      <4>2. QED
        BY <1>4, <3>1, <4>1
    <3>2. QED
      BY <1>4, <3>1
  <2> HIDE DEF Below
  <2>2. Cardinality(Below(x)) + 1 <= Cardinality(Below(z))
    BY <1>2, <2>1
  <2>3. QED
    BY <1>1, <2>2
<1>5. QED
  BY <1>3, <1>4

\* InOrder enumerates a finite set of ticks in increasing order.
LEMMA InOrderRows ==
    ASSUME NEW T \in SUBSET Int, IsFiniteSet(T)
    PROVE  /\ Cardinality(T) \in Nat
           /\ InOrder(T) \in [1..Cardinality(T) -> T]
           /\ \A i, j \in 1..Cardinality(T) : i < j => InOrder(T)[i] < InOrder(T)[j]
           /\ \A i, j \in 1..Cardinality(T) : InOrder(T)[i] = InOrder(T)[j] => i = j
           /\ \A t \in T : \E i \in 1..Cardinality(T) : InOrder(T)[i] = t
<1> DEFINE n == Cardinality(T)
           s == InOrder(T)
           Sorted(f) == \A i, j \in DOMAIN f : i < j => f[i] < f[j]
           rank == [x \in T |-> Cardinality({y \in T : y < x}) + 1]
<1>1. n \in Nat
  BY FS_CardinalityType
<1>2. rank \in [T -> 1..n] /\ \A x, z \in T : x < z => rank[x] < rank[z]
  <2>1. ASSUME NEW x \in T  PROVE rank[x] \in 1..n
    <3>1. Cardinality({y \in T : y < x}) \in 0..(n - 1)
      BY BelowCount
    <3> DEFINE c == Cardinality({y \in T : y < x})
    <3>2. rank[x] = c + 1 /\ c \in 0..(n - 1)
      BY <3>1
    <3> HIDE DEF c, rank, n
    <3>3. QED
      BY <1>1, <3>2
  <2>2. ASSUME NEW x \in T, NEW z \in T, x < z  PROVE rank[x] < rank[z]
    <3> DEFINE c(v) == Cardinality({y \in T : y < v})
    <3>1. c(x) < c(z) /\ c(x) \in 0..(n - 1) /\ c(z) \in 0..(n - 1)
      BY <2>2, BelowCount
    <3>2. rank[x] = c(x) + 1 /\ rank[z] = c(z) + 1
      OBVIOUS
    <3> HIDE DEF c, rank, n
    <3>3. QED
      BY <1>1, <3>1, <3>2
  <2>3. QED
    BY <2>1, <2>2
<1> HIDE DEF rank, n
<1>3. rank \in Injection(T, 1..n)
  <2>1. ASSUME NEW x \in T, NEW z \in T, rank[x] = rank[z]  PROVE x = z
    <3>1. rank[x] \in Int /\ rank[z] \in Int
      BY <1>1, <1>2
    <3>2. ~(x < z) /\ ~(z < x)
      BY <1>2, <2>1, <3>1
    <3>3. QED
      BY <3>2
  <2>2. QED
    BY <1>2, <2>1 DEF Injection, IsInjective
<1>4. rank \in Surjection(T, 1..n)
  <2>1. IsFiniteSet(1..n) /\ Cardinality(1..n) = n
    BY <1>1, FS_Interval
  <2>2. QED
    BY <1>3, <2>1, FS_Injection DEF n
<1>5. \E f \in [1..n -> T] : Sorted(f)
  <2> DEFINE f == [i \in 1..n |-> CHOOSE x \in T : rank[x] = i]
  <2>1. \A i \in 1..n : f[i] \in T /\ rank[f[i]] = i
    BY <1>4 DEF Surjection
  <2>2. f \in [1..n -> T]
    BY <2>1
  <2> HIDE DEF f
  <2>3. ASSUME NEW i \in 1..n, NEW j \in 1..n, i < j  PROVE f[i] < f[j]
    <3>1. f[i] # f[j] /\ f[i] \in Int /\ f[j] \in Int
      <4>1. i # j
        BY <1>1, <2>3
      <4>2. f[i] \in T /\ f[j] \in T /\ rank[f[i]] = i /\ rank[f[j]] = j
        BY <2>1
      <4>3. QED
        BY <4>1, <4>2
    <3>2. ~(f[j] < f[i])
      <4>1. SUFFICES ASSUME f[j] < f[i]  PROVE FALSE
        OBVIOUS
      <4>2. j < i
        BY <1>2, <2>1, <4>1
      <4>3. QED
        BY <1>1, <2>3, <4>2
    <3>3. QED
      BY <3>1, <3>2
  <2>4. QED
    BY <2>2, <2>3
<1>6. s \in [1..n -> T] /\ \A i, j \in 1..n : i < j => s[i] < s[j]
  BY <1>5 DEF InOrder, n
<1> HIDE DEF s
<1>7. ASSUME NEW i \in 1..n, NEW j \in 1..n, s[i] = s[j]  PROVE i = j
  <2>1. s[i] \in Int /\ s[j] \in Int
    BY <1>6
  <2>2. ~(i < j) /\ ~(j < i)
    BY <1>6, <1>7, <2>1
  <2>3. QED
    BY <1>1, <2>2
<1>8. s \in Injection(1..n, T)
  BY <1>6, <1>7 DEF Injection, IsInjective
<1>9. s \in Surjection(1..n, T)
  <2>1. IsFiniteSet(1..n) /\ Cardinality(1..n) = n
    BY <1>1, FS_Interval
  <2>2. QED
    BY <1>8, <2>1, FS_Injection DEF n
<1>10. \A t \in T : \E i \in 1..n : s[i] = t
  BY <1>9 DEF Surjection
<1>11. QED
  BY <1>1, <1>6, <1>7, <1>10 DEF n, s

\* In a set without gaps above a, the i-th member is a + i - 1.
LEMMA InOrderBlock ==
    ASSUME NEW T \in SUBSET Int, IsFiniteSet(T), NEW a \in Int,
           \A t \in T : a <= t, \A t \in T : \A u \in a..t : u \in T,
           NEW i \in 1..Cardinality(T)
    PROVE  InOrder(T)[i] = a + i - 1
<1> DEFINE n == Cardinality(T)
           s == InOrder(T)
           B == {x \in T : x < s[i]}
<1>1. /\ n \in Nat /\ s \in [1..n -> T]
      /\ \A j, k \in 1..n : j < k => s[j] < s[k]
      /\ \A j, k \in 1..n : s[j] = s[k] => j = k
      /\ \A t \in T : \E j \in 1..n : s[j] = t
  BY InOrderRows
<1> HIDE DEF n, s
<1>2. i \in Nat /\ 1 <= i /\ i <= n /\ s[i] \in T /\ s[i] \in Int
  <2>1. i \in 1..n
    BY DEF n
  <2>2. s[i] \in T
    BY <1>1, <2>1
  <2>3. s[i] \in Int
    BY <2>2
  <2>4. i \in Nat /\ 1 <= i /\ i <= n
    BY <1>1, <2>1
  <2>5. QED
    BY <2>2, <2>3, <2>4
<1>3. B = a..(s[i] - 1)
  <2>1. ASSUME NEW x \in B  PROVE x \in a..(s[i] - 1)
    <3>1. x \in Int /\ x < s[i] /\ a <= x
      OBVIOUS
    <3>2. QED
      BY <1>2, <3>1
  <2>2. ASSUME NEW x \in a..(s[i] - 1)  PROVE x \in B
    <3>1. x \in a..s[i] /\ x < s[i]
      BY <1>2
    <3>2. QED
      BY <1>2, <3>1
  <2>3. QED
    BY <2>1, <2>2
<1>4. Cardinality(B) = s[i] - a
  <2>1. a <= s[i]
    BY <1>2
  <2>2. Cardinality(a..(s[i] - 1)) = s[i] - a
    BY <1>2, <2>1, FS_Interval
  <2>3. QED
    BY <1>3, <2>2
<1>5. Cardinality(B) = i - 1
  <2> DEFINE f == [j \in 1..(i - 1) |-> s[j]]
  <2>1. \A j \in 1..(i - 1) : j \in 1..n /\ j < i
    BY <1>1, <1>2
  <2>2. f \in [1..(i - 1) -> B]
    BY <1>1, <1>2, <2>1
  <2>3. ASSUME NEW x \in B  PROVE \E j \in 1..(i - 1) : f[j] = x
    <3>1. PICK j \in 1..n : s[j] = x
      BY <1>1
    <3>2. ~(i < j) /\ i # j
      <4>1. x < s[i] /\ x \in Int
        OBVIOUS
      <4>2. CASE i < j
        <5>1. s[i] < s[j]
          BY <1>1, <1>2, <4>2
        <5>2. QED
          BY <1>2, <3>1, <4>1, <5>1
      <4>3. CASE i = j
        BY <1>2, <3>1, <4>1, <4>3
      <4>4. QED
        BY <4>2, <4>3
    <3>3. j \in 1..(i - 1)
      BY <1>1, <1>2, <3>2
    <3>4. QED
      BY <3>1, <3>3
  <2>4. \A j, k \in 1..(i - 1) : f[j] = f[k] => j = k
    BY <1>1, <2>1
  <2> HIDE DEF f, B
  <2>5. f \in Bijection(1..(i - 1), B)
    BY <2>2, <2>3, <2>4 DEF Bijection, Injection, Surjection, IsInjective
  <2>6. ExistsBijection(1..(i - 1), B)
    BY <2>5 DEF ExistsBijection
  <2>7. IsFiniteSet(1..(i - 1)) /\ Cardinality(1..(i - 1)) = i - 1
    BY <1>2, FS_Interval
  <2>8. QED
    BY <2>6, <2>7, FS_Bijection
<1>6. QED
  BY <1>2, <1>4, <1>5 DEF s

\* The ticks of a sequence of entries, and the entries of a function of ticks
TicksOf(l) == {e.tick : e \in ToSet(l)}
EntriesOf(g, T) == {Entry(t, g[t]) : t \in T}

\* No tick twice; every tick from 0 on; every tick up to one that is added
Distinct(l) == \A i, j \in DOMAIN l : l[i].tick = l[j].tick => i = j
Gapless(l) == \A i \in DOMAIN l : l[i].tick = i - 1
Closed(T, l) == \A t \in T : 0..t \subseteq T \cup TicksOf(l)

\* A sequence of entries of distinct ticks, followed by those of some other
\* ticks in order.
LEMMA AddedRows ==
    ASSUME setup \in DOMAIN Setups,
           NEW l \in Seq(Row), NEW T \in SUBSET InputTick, NEW g, NEW l2 \in Seq(Row),
           Distinct(l),
           \A i \in DOMAIN l : l[i].tick \notin T,
           Len(l2) = Len(l) + Cardinality(T),
           \A i \in 1..Len(l) : l2[i] = l[i],
           \A i \in 1..Cardinality(T) :
              l2[Len(l) + i] = Entry(InOrder(T)[i], g[InOrder(T)[i]])
    PROVE  /\ ToSet(l2) = ToSet(l) \cup EntriesOf(g, T)
           /\ Distinct(l2)
           /\ Gapless(l) /\ Closed(T, l) => Gapless(l2)
<1> DEFINE rows == InOrder(T)
           n == Cardinality(T)
           k == Len(l)
<1>1. T \in SUBSET Int /\ IsFiniteSet(T) /\ \A t \in T : t \in Nat
  <2>1. T \in SUBSET Int /\ \A t \in T : t \in Nat
    BY Parameters DEF InputTick
  <2>2. IsFiniteSet(0..(InputTicks - 1))
    BY Parameters, FS_Interval
  <2>3. QED
    BY <2>1, <2>2, FS_Subset DEF InputTick
<1>2. /\ n \in Nat /\ rows \in [1..n -> T] /\ DOMAIN rows = 1..n
      /\ \A i, j \in 1..n : rows[i] = rows[j] => i = j
      /\ \A t \in T : \E i \in 1..n : rows[i] = t
  BY <1>1, InOrderRows
<1> HIDE DEF n, rows
<1>3. k \in Nat /\ DOMAIN l = 1..k /\ DOMAIN l2 = 1..(k + n)
  BY <1>2 DEF n
<1>4. /\ \A i \in 1..k : l2[i] = l[i]
      /\ \A i \in 1..n : l2[k + i] = Entry(rows[i], g[rows[i]])
  BY DEF n, rows
<1> HIDE DEF k
<1>5. ASSUME NEW i \in 1..(k + n)
      PROVE  \/ i <= k /\ i \in DOMAIN l /\ l2[i] = l[i] /\ l2[i].tick \notin T
             \/ /\ k < i /\ i - k \in 1..n /\ l2[i] = Entry(rows[i - k], g[rows[i - k]])
                /\ l2[i].tick = rows[i - k] /\ l2[i].tick \in T
  <2>1. CASE i <= k
    <3>1. i \in DOMAIN l /\ i \in 1..k
      BY <1>3, <2>1
    <3>2. l2[i] = l[i]
      BY <1>4, <3>1
    <3>3. QED
      BY <2>1, <3>1, <3>2
  <2>2. CASE ~(i <= k)
    <3> DEFINE j == i - k
    <3>1. j \in 1..n /\ k < i /\ k + j = i
      BY <1>2, <1>3, <2>2
    <3>2. l2[i] = Entry(rows[j], g[rows[j]]) /\ rows[j] \in T
      BY <1>2, <1>4, <3>1
    <3>3. l2[i].tick = rows[j]
      BY <3>2 DEF Entry
    <3>4. QED
      BY <3>1, <3>2, <3>3
  <2>3. QED
    BY <2>1, <2>2
<1>6. ToSet(l2) = ToSet(l) \cup {Entry(t, g[t]) : t \in T}
  <2>1. ASSUME NEW i \in 1..(k + n)
        PROVE  l2[i] \in ToSet(l) \cup {Entry(t, g[t]) : t \in T}
    BY <1>2, <1>5 DEF ToSet
  <2>2. ASSUME NEW i \in DOMAIN l  PROVE i \in 1..(k + n) /\ l[i] = l2[i]
    <3>1. i \in 1..(k + n) /\ i <= k
      BY <1>2, <1>3
    <3>2. i \in 1..k
      BY <1>3
    <3>3. QED
      BY <1>4, <3>1, <3>2
  <2>3. ASSUME NEW t \in T  PROVE \E i \in 1..(k + n) : l2[i] = Entry(t, g[t])
    <3>1. PICK i \in 1..n : rows[i] = t
      BY <1>2
    <3>2. k + i \in 1..(k + n)
      BY <1>2, <1>3
    <3>3. QED
      BY <1>4, <3>1, <3>2
  <2>4. QED
    BY <1>3, <2>1, <2>2, <2>3 DEF ToSet
<1>7. ASSUME NEW i \in 1..(k + n), NEW j \in 1..(k + n), l2[i].tick = l2[j].tick
      PROVE  i = j
  <2>1. CASE i <= k
    BY <1>5, <1>7, <2>1, <1>3 DEF Distinct
  <2>2. CASE ~(i <= k)
    <3>1. i - k \in 1..n /\ j - k \in 1..n /\ rows[i - k] = rows[j - k]
      BY <1>3, <1>5, <1>7, <2>2
    <3>2. i - k = j - k
      BY <1>2, <3>1
    <3>3. QED
      BY <1>3, <3>2
  <2>3. QED
    BY <2>1, <2>2
<1>8. ASSUME \A i \in DOMAIN l : l[i].tick = i - 1,
              \A t \in T : 0..t \subseteq T \cup {e.tick : e \in ToSet(l)},
              NEW i \in 1..(k + n)
       PROVE  l2[i].tick = i - 1
  <2>1. ASSUME NEW u \in Int  PROVE u \in {e.tick : e \in ToSet(l)} <=> 0 <= u /\ u < k
    <3>1. ASSUME NEW j \in DOMAIN l  PROVE 0 <= l[j].tick /\ l[j].tick < k
      BY <1>3, <1>8
    <3>2. ASSUME 0 <= u, u < k  PROVE \E j \in DOMAIN l : l[j].tick = u
      <4>1. u + 1 \in DOMAIN l
        BY <1>3, <3>2
      <4>2. l[u + 1].tick = u
        BY <1>8, <4>1
      <4>3. QED
        BY <4>1, <4>2
    <3>3. QED
      BY <3>1, <3>2 DEF ToSet
  <2>2. ASSUME NEW t \in T  PROVE k <= t
    <3>1. ~(t < k)
      <4>1. SUFFICES ASSUME t < k  PROVE FALSE
        OBVIOUS
      <4>2. t \in {e.tick : e \in ToSet(l)}
        BY <1>1, <2>1, <4>1
      <4>3. QED
        BY <4>2 DEF ToSet
    <3>2. QED
      BY <1>1, <1>3, <3>1
  <2>3. ASSUME NEW t \in T, NEW u \in k..t  PROVE u \in T
    <3>1. u \in 0..t /\ u \in Int /\ ~(u < k)
      BY <1>1, <1>3
    <3>2. u \notin {e.tick : e \in ToSet(l)}
      BY <2>1, <3>1
    <3>3. u \in T \cup {e.tick : e \in ToSet(l)}
      BY <1>8, <3>1
    <3>4. QED
      BY <3>2, <3>3
  <2>4. ASSUME NEW j \in 1..n  PROVE rows[j] = k + j - 1
    <3>1. k \in Int
      BY <1>3
    <3>2. j \in 1..Cardinality(T)
      BY DEF n
    <3>3. QED
      BY <1>1, <2>2, <2>3, <3>1, <3>2, InOrderBlock DEF rows
  <2>5. CASE i <= k
    BY <1>5, <1>8, <2>5, <1>3
  <2>6. CASE ~(i <= k)
    <3>1. i - k \in 1..n /\ l2[i].tick = rows[i - k]
      BY <1>3, <1>5, <2>6
    <3>2. rows[i - k] = k + (i - k) - 1
      BY <2>4, <3>1
    <3>3. QED
      BY <1>3, <3>1, <3>2
  <2>7. QED
    BY <2>5, <2>6
<1>9. QED
  BY <1>3, <1>6, <1>7, <1>8 DEF TicksOf, EntriesOf, Distinct, Gapless, Closed

-----------------------------------------------------------------------------
(* addLocalInputs                                                            *)

\* The ticks of new are published, and these of them held back
Added(p, r, new, entries, overrides, r2) ==
    /\ r2 \in PeerType
    /\ ToSet(r2.local) = ToSet(r.local) \cup EntriesOf(entries, new)
    /\ Distinct(r2.local) /\ (Match.inOrder => Gapless(r2.local))
    /\ DOMAIN r2.native = LocalTicks(r) \cup new
    /\ \A t \in LocalTicks(r) : r2.native[t] = r.native[t]
    /\ \A t \in new : r2.native[t] = IF t \in DOMAIN overrides THEN overrides[t] ELSE entries[t]
    /\ r2.deferred \subseteq LocalTicks(r) \cup new
    /\ r2.deferred \subseteq Match.deferTicks[p]
    /\ r2.deferred \cap LocalTicks(r) \subseteq r.deferred
    /\ r2.agreement = r.agreement /\ r2.ready = r.ready /\ r2.terminal = r.terminal
    /\ r2.remote = r.remote /\ r2.staged = r.staged /\ r2.remoteChecksums = r.remoteChecksums
    /\ r2.ackInput = r.ackInput /\ r2.ackChecksum = r.ackChecksum
    /\ r2.nextSequence = r.nextSequence /\ r2.receiving = r.receiving
    /\ r2.expectedSequence = r.expectedSequence /\ r2.admittedSequence = r.admittedSequence
    /\ r2.pending = r.pending
    /\ r2.pushed = r.pushed /\ r2.emitted = r.emitted
    /\ r2.compared = r.compared /\ r2.mismatch = r.mismatch

\* New rows keep a peer good: none of them is for a tick it had.
LEMMA AddedGood ==
    ASSUME setup \in DOMAIN Setups, NEW p \in Peer, NEW r, NEW s, Good(p, r, s),
           NEW new \in SUBSET InputTick, NEW entries, NEW overrides \in Match.overrides[p],
           new \cap LocalTicks(r) = {}, NEW r2, Added(p, r, new, entries, overrides, r2)
    PROVE  Good(p, r2, s) /\ Grows(r, r2)
<1> DEFINE known == LocalTicks(r)
<1>1. /\ r \in PeerType /\ r2 \in PeerType /\ LocalInv(r) /\ RemoteInv(r) /\ SequenceInv(r)
      /\ FrameInv(p, r) /\ CallerInv(p, r) /\ LinkInv(r, Other(p), s) /\ FirstDifference(r, s)
  BY DEF Good, PeerInv, Added
<1>2. LocalTicks(r2) = known \cup new
  <2>1. ASSUME NEW t \in new  PROVE Entry(t, entries[t]).tick = t
    BY DEF Entry
  <2>2. ASSUME NEW e \in ToSet(r2.local)  PROVE e.tick \in known \cup new
    BY <2>1 DEF Added, LocalTicks, EntriesOf
  <2>3. ASSUME NEW t \in new  PROVE t \in LocalTicks(r2)
    BY <2>1 DEF Added, LocalTicks, EntriesOf
  <2>4. known \subseteq LocalTicks(r2)
    BY DEF Added, LocalTicks
  <2>5. LocalTicks(r2) \subseteq known \cup new
    BY <2>2 DEF LocalTicks
  <2>6. QED
    BY <2>3, <2>4, <2>5
<1>3. known \in SUBSET InputTick
  <2>1. \A i \in DOMAIN r.local : r.local[i] \in Row
    BY <1>1, PeerFields
  <2>2. QED
    BY <2>1 DEF LocalTicks, ToSet, Row
<1>4. InputTick \subseteq Nat /\ \A t \in InputTick : t <= InputTicks
  BY Parameters DEF InputTick
<1>5. Contiguous(known) <= Contiguous(LocalTicks(r2))
  <2>1. InputTicks \in Int
    BY Parameters
  <2> HIDE DEF known
  <2>2. Contiguous(known) \in Int /\ 0..Contiguous(known) \subseteq known
    BY <1>3, <1>4, <2>1, ContiguousStart
  <2>3. LocalTicks(r2) \in SUBSET Nat /\ \A t \in LocalTicks(r2) : t <= InputTicks
    BY <1>2, <1>3, <1>4
  <2>4. 0..Contiguous(known) \subseteq LocalTicks(r2)
    BY <1>2, <2>2
  <2>5. QED
    BY <2>1, <2>2, <2>3, <2>4, ContiguousStart
<1>6. Contiguous(known) \in Int /\ Contiguous(LocalTicks(r2)) \in Int
  <2>1. InputTicks \in Int
    BY Parameters
  <2>2. LocalTicks(r2) \in SUBSET Nat /\ \A t \in LocalTicks(r2) : t <= InputTicks
    BY <1>2, <1>3, <1>4
  <2> HIDE DEF known
  <2>3. QED
    BY <1>3, <1>4, <2>1, <2>2, ContiguousStart
<1>7. LocalInv(r2)
  <2>1. \A i, j \in DOMAIN r2.local : r2.local[i].tick = r2.local[j].tick => i = j
    BY DEF Added, Distinct
  <2>2. QED
    BY <1>2, <2>1 DEF Added, LocalInv
<1>8. RemoteInv(r2)
  BY <1>1 DEF Added, RemoteInv
<1>9. SequenceInv(r2)
  <2>1. r2.ackInput <= Contiguous(LocalTicks(r2))
    <3>1. r.ackInput <= Contiguous(known) /\ r.ackInput \in Int /\ r2.ackInput = r.ackInput
      BY <1>1, PeerFields DEF SequenceInv, Added
    <3> HIDE DEF known
    <3>2. QED
      BY <1>5, <1>6, <3>1
  <2>2. QED
    BY <1>1, <2>1 DEF Added, SequenceInv
<1>10. FrameInv(p, r2)
  <2>1. ASSUME NEW i, Composable(r, i)
        PROVE  Composable(r2, i) /\ FrameAt(p, r2, i) = FrameAt(p, r, i)
    <3>1. i < Delay \/ (i - Delay \in known /\ i - Delay \in DOMAIN r.remote)
      BY <1>1, <2>1 DEF Composable, LocalInv
    <3>2. i < Delay \/ (/\ i - Delay \in DOMAIN r2.native
                        /\ r2.native[i - Delay] = r.native[i - Delay])
      BY <3>1 DEF Added
    <3>3. QED
      BY <3>1, <3>2 DEF Composable, FrameAt, Added
  <2>2. QED
    BY <1>1, <2>1 DEF FrameInv, Added
<1>11. CallerInv(p, r2)
  <2>1. ASSUME \A f \in Match.overrides[p] : DOMAIN f = {}, NEW t \in DOMAIN r2.native
        PROVE  Entry(t, r2.native[t]) \in ToSet(r2.local)
    <3>1. CASE t \in known
      <4>1. Entry(t, r.native[t]) \in ToSet(r.local)
        BY <1>1, <2>1, <3>1 DEF LocalInv, CallerInv
      <4>2. QED
        BY <3>1, <4>1 DEF Added
    <3>2. CASE t \in new
      <4>1. r2.native[t] = entries[t]
        BY <2>1, <3>2 DEF Added
      <4>2. QED
        BY <3>2, <4>1 DEF Added, EntriesOf
    <3>3. QED
      BY <2>1, <3>1, <3>2 DEF Added
  <2>2. Match.inOrder => \A i \in DOMAIN r2.local : r2.local[i].tick = i - 1
    BY DEF Added, Gapless
  <2>3. QED
    BY <2>1, <2>2 DEF CallerInv, Added
<1>12. LinkInv(r2, Other(p), s)
  BY <1>1 DEF LinkInv, Added
<1>13. FirstDifference(r2, s)
  BY <1>1 DEF FirstDifference, Added
<1>14. Grows(r, r2)
  <2>1. /\ r.nextSequence <= r2.nextSequence /\ r.admittedSequence <= r2.admittedSequence
        /\ r.ackInput <= r2.ackInput /\ r.ackChecksum <= r2.ackChecksum
        /\ r.emitted <= r2.emitted /\ Len(r.pushed) <= Len(r2.pushed)
    BY <1>1, PeerFields DEF Added
  <2>2. QED
    BY <2>1 DEF Grows, Added
<1>15. QED
  BY <1>1, <1>7, <1>8, <1>9, <1>10, <1>11, <1>12, <1>13, <1>14 DEF Good, PeerInv

\* The fields of a peer once a call has added its entries
WithEntries(r, entries, overrides, deferSend) ==
    LET known == LocalTicks(r)
        new == DOMAIN entries \ known
        given(t) == IF t \in DOMAIN overrides THEN overrides[t] ELSE entries[t]
        rows == InOrder(new)
    IN  [r EXCEPT
            !.local = @ \o [i \in DOMAIN rows |-> [tick |-> rows[i], pad |-> entries[rows[i]]]],
            !.native = [t \in known \cup new |-> IF t \in known THEN r.native[t] ELSE given(t)],
            !.deferred = IF deferSend THEN @ \cup new ELSE @ \ DOMAIN entries]

\* A call in the bounds of the caller adds entries.
LEMMA CallAdded ==
    ASSUME setup \in DOMAIN Setups, NEW p \in Peer, NEW r, NEW s, Good(p, r, s),
           NEW ticks \in Match.batches, NEW entries \in [ticks -> Pad],
           NEW overrides \in Match.overrides[p], NEW deferSend \in BOOLEAN,
           deferSend => ticks \subseteq Match.deferTicks[p],
           Match.inOrder => \A t \in ticks : 0..t \subseteq ticks \cup LocalTicks(r)
    PROVE  Added(p, r, DOMAIN entries \ LocalTicks(r), entries, overrides,
                 WithEntries(r, entries, overrides, deferSend))
<1> DEFINE known == LocalTicks(r)
           new == DOMAIN entries \ known
           given(t) == IF t \in DOMAIN overrides THEN overrides[t] ELSE entries[t]
           rows == InOrder(new)
           l2 == r.local \o [i \in DOMAIN rows |-> [tick |-> rows[i], pad |-> entries[rows[i]]]]
           native2 == [t \in known \cup new |-> IF t \in known THEN r.native[t] ELSE given(t)]
           deferred2 == IF deferSend THEN r.deferred \cup new ELSE r.deferred \ DOMAIN entries
           r2 == [r EXCEPT !.local = l2, !.native = native2, !.deferred = deferred2]
<1>1. /\ r \in PeerType /\ LocalInv(r) /\ RemoteInv(r) /\ SequenceInv(r)
      /\ FrameInv(p, r) /\ CallerInv(p, r) /\ LinkInv(r, Other(p), s) /\ FirstDifference(r, s)
  BY DEF Good, PeerInv
<1>2. /\ ticks \subseteq InputTick /\ DOMAIN entries = ticks
      /\ DOMAIN overrides \subseteq InputTick /\ \A t \in DOMAIN overrides : overrides[t] \in Pad
  BY Parameters
<1>3. /\ r.local \in Seq(Row) /\ r.native \in Rows /\ r.deferred \in SUBSET InputTick
  BY <1>1, PeerFields
<1>4. known \subseteq InputTick /\ \A i \in DOMAIN r.local : r.local[i].tick \in known
  <2>1. \A i \in DOMAIN r.local : r.local[i] \in Row
    BY <1>3
  <2>2. QED
    BY <2>1 DEF LocalTicks, ToSet, Row
<1>5. /\ l2 \in Seq(Row)
      /\ ToSet(l2) = ToSet(r.local) \cup EntriesOf(entries, new)
      /\ Distinct(l2)
      /\ Match.inOrder => Gapless(l2)
  <2>1. /\ new \in SUBSET InputTick /\ \A t \in new : entries[t] \in Pad
        /\ \A i \in DOMAIN r.local : r.local[i].tick \notin new
        /\ \A i, j \in DOMAIN r.local : r.local[i].tick = r.local[j].tick => i = j
    BY <1>1, <1>2, <1>4 DEF LocalInv
  <2>2. Match.inOrder => Closed(new, r.local)
    BY <1>2 DEF LocalTicks, TicksOf, Closed
  <2>3. Match.inOrder => Gapless(r.local)
    BY <1>1 DEF CallerInv, Gapless
  <2> DEFINE add == [i \in DOMAIN rows |-> [tick |-> rows[i], pad |-> entries[rows[i]]]]
             n == Cardinality(new)
  <2>4. new \in SUBSET Int /\ IsFiniteSet(new)
    <3>1. IsFiniteSet(0..(InputTicks - 1)) /\ InputTick \in SUBSET Int
      BY Parameters, FS_Interval DEF InputTick
    <3> HIDE DEF new
    <3>2. QED
      BY <2>1, <3>1, FS_Subset DEF InputTick
  <2> HIDE DEF new
  <2>5. n \in Nat /\ rows \in [1..n -> new]
    BY <2>4, InOrderRows
  <2> HIDE DEF n, rows
  <2>6. \A i \in 1..n : add[i] = Entry(rows[i], entries[rows[i]]) /\ add[i] \in Row
    <3> TAKE i \in 1..n
    <3>1. rows[i] \in new /\ add[i] = [tick |-> rows[i], pad |-> entries[rows[i]]]
      BY <2>5
    <3> HIDE DEF add
    <3>2. QED
      BY <2>1, <3>1 DEF Entry, Row
  <2>7. add \in Seq(Row) /\ Len(add) = n
    <3>1. add \in [1..n -> Row]
      BY <2>5, <2>6
    <3> HIDE DEF add
    <3>2. QED
      BY <2>5, <3>1
  <2>8. /\ l2 \in Seq(Row) /\ Len(l2) = Len(r.local) + n
        /\ \A i \in 1..(Len(r.local) + n) :
              l2[i] = IF i <= Len(r.local) THEN r.local[i] ELSE add[i - Len(r.local)]
    <3>1. l2 = r.local \o add
      OBVIOUS
    <3> HIDE DEF l2, add
    <3>2. QED
      BY <1>3, <2>7, <3>1, ConcatProperties, Zenon
  <2> HIDE DEF l2, add
  <2>9. Len(r.local) \in Nat /\ DOMAIN r.local = 1..Len(r.local)
    BY <1>3
  <2>10. \A i \in 1..Len(r.local) : l2[i] = r.local[i]
    <3> TAKE i \in 1..Len(r.local)
    <3>1. i \in 1..(Len(r.local) + n) /\ i <= Len(r.local)
      BY <2>5, <2>9
    <3>2. QED
      BY <2>8, <3>1
  <2>11. \A i \in 1..n : l2[Len(r.local) + i] = Entry(rows[i], entries[rows[i]])
    <3> TAKE i \in 1..n
    <3> DEFINE k == Len(r.local)
    <3>1. k + i \in 1..(k + n) /\ ~(k + i <= k) /\ (k + i) - k = i
      BY <2>5, <2>9
    <3>2. l2[k + i] = add[(k + i) - k]
      BY <2>8, <3>1
    <3>3. QED
      BY <2>6, <3>1, <3>2
  <2>12. /\ ToSet(l2) = ToSet(r.local) \cup EntriesOf(entries, new)
         /\ Distinct(l2)
         /\ Gapless(r.local) /\ Closed(new, r.local) => Gapless(l2)
    <3>1. l2 \in Seq(Row) /\ Len(l2) = Len(r.local) + Cardinality(new)
      BY <2>8 DEF n
    <3>2. \A i \in 1..Cardinality(new) :
             l2[Len(r.local) + i] = Entry(InOrder(new)[i], entries[InOrder(new)[i]])
      BY <2>11 DEF n, rows
    <3>3. r.local \in Seq(Row)
      BY <1>3
    <3>4. Distinct(r.local)
      BY <2>1 DEF Distinct
    <3>5. QED
      BY <2>1, <2>10, <3>1, <3>2, <3>3, <3>4, AddedRows
  <2>13. QED
    BY <2>2, <2>3, <2>8, <2>12
<1>6. native2 \in Rows /\ DOMAIN native2 = known \cup new
      /\ (\A t \in known : native2[t] = r.native[t])
      /\ \A t \in new : native2[t] = given(t)
  <2>1. ASSUME NEW t \in known \cup new
        PROVE  native2[t] = (IF t \in known THEN r.native[t] ELSE given(t))
               /\ native2[t] \in Pad \cup {NeutralPad}
    <3>1. t \in known => r.native[t] \in Pad \cup {NeutralPad}
      <4>1. PICK D \in SUBSET Int : r.native \in [D -> Pad \cup {NeutralPad}]
        BY <1>3 DEF Rows
      <4>2. \A u \in DOMAIN r.native : r.native[u] \in Pad \cup {NeutralPad}
        BY <4>1
      <4>3. DOMAIN r.native = known
        BY <1>1 DEF LocalInv
      <4>4. QED
        BY <4>2, <4>3
    <3>2. t \in new => given(t) \in Pad
      BY <1>2
    <3> HIDE DEF new, known, given
    <3>3. QED
      BY <3>1, <3>2
  <2>2. known \cup new \in SUBSET Int
    BY <1>2, <1>4, Parameters DEF InputTick
  <2> HIDE DEF given
  <2>3. DOMAIN native2 = known \cup new
    OBVIOUS
  <2>4. new \cap known = {}
    OBVIOUS
  <2>5. native2 \in [known \cup new -> Pad \cup {NeutralPad}]
    <3> HIDE DEF new, known
    <3> QED  BY <2>1
  <2> HIDE DEF native2, new, known
  <2>6. QED
    BY <2>1, <2>2, <2>3, <2>4, <2>5 DEF Rows
<1>7. deferred2 \in SUBSET InputTick /\ deferred2 \subseteq known \cup new
      /\ deferred2 \subseteq Match.deferTicks[p] /\ deferred2 \cap known \subseteq r.deferred
  BY <1>1, <1>2, <1>3 DEF LocalInv, CallerInv
<1> HIDE DEF l2, native2, deferred2
<1>8. /\ r2 \in PeerType /\ r2.local = l2 /\ r2.native = native2 /\ r2.deferred = deferred2
      /\ r2.agreement = r.agreement /\ r2.ready = r.ready /\ r2.terminal = r.terminal
      /\ r2.remote = r.remote /\ r2.staged = r.staged /\ r2.remoteChecksums = r.remoteChecksums
      /\ r2.ackInput = r.ackInput /\ r2.ackChecksum = r.ackChecksum
      /\ r2.nextSequence = r.nextSequence /\ r2.receiving = r.receiving
      /\ r2.expectedSequence = r.expectedSequence /\ r2.admittedSequence = r.admittedSequence
      /\ r2.pending = r.pending
      /\ r2.pushed = r.pushed /\ r2.emitted = r.emitted
      /\ r2.compared = r.compared /\ r2.mismatch = r.mismatch
  BY <1>1, <1>5, <1>6, <1>7 DEF PeerType
<1> HIDE DEF r2
<1>9. Added(p, r, new, entries, overrides, r2)
  BY <1>5, <1>6, <1>7, <1>8 DEF Added
<1>10. QED
  BY <1>9 DEF WithEntries, r2, l2, native2, deferred2

-----------------------------------------------------------------------------
(* The steps, one by one                                                     *)

\* What holds of a peer before its step.
LEMMA Before ==
    ASSUME IInv, NEW p \in Peer
    PROVE  /\ setup \in DOMAIN Setups /\ peer[p] \in PeerType /\ Other(p) \in Peer
           /\ Good(p, peer[p], peer[Other(p)]) /\ QuietInv(peer[p])
           /\ Grows(peer[p], peer[p]) /\ Remains(p, wire[p])
           /\ Engine(peer[Other(p)])
           /\ (peer[p].staged # NotStaged => peer[p].receiving)
           /\ \A i \in DOMAIN wire[p] :
                 wire[p][i] \in Message /\ MessageInv(wire[p][i], Other(p), peer[Other(p)])
<1>1. /\ setup \in DOMAIN Setups /\ peer[p] \in PeerType /\ Other(p) \in Peer
      /\ Good(p, peer[p], peer[Other(p)]) /\ QuietInv(peer[p])
      /\ Good(Other(p), peer[Other(p)], peer[Other(Other(p))]) /\ peer[Other(p)] \in PeerType
  BY OtherPeer DEF IInv
<1>2. Grows(peer[p], peer[p])
  BY <1>1, GrowsSelf
<1>3. Remains(p, wire[p])
  BY DEF IInv, Remains
<1>4. Engine(peer[Other(p)])
  BY <1>1 DEF Engine, Good, PeerInv, FrameInv
<1>5. peer[p].staged # NotStaged => peer[p].receiving
  BY <1>1 DEF Good, PeerInv, SequenceInv
<1>6. \A i \in DOMAIN wire[p] :
         wire[p][i] \in Message /\ MessageInv(wire[p][i], Other(p), peer[Other(p)])
  <2>1. wire[p] \in Seq(Message)
    BY DEF IInv
  <2>2. QED
    BY <2>1 DEF IInv
<1>7. QED
  BY <1>1, <1>2, <1>3, <1>4, <1>5, <1>6

\* What is left of the wire was on it.
LEMMA RestRemains ==
    ASSUME IInv, NEW p \in Peer, NEW i, Deliverable(p, i)
    PROVE  Remains(p, Rest(p))
<1>1. wire[p] \in Seq(Message) /\ wire[p] # <<>>
  BY DEF IInv, Deliverable
<1>2. CASE Match.ordered
  <2>1. Tail(wire[p]) \in Seq(Message)
    BY <1>1
  <2>2. ASSUME NEW k \in DOMAIN Tail(wire[p])
        PROVE  k + 1 \in DOMAIN wire[p] /\ Tail(wire[p])[k] = wire[p][k + 1]
    BY <1>1
  <2>3. QED
    BY <1>2, <2>1, <2>2 DEF Rest, Remains
<1>3. CASE ~Match.ordered
  BY <1>1, <1>3 DEF Rest, Remains
<1>4. QED
  BY <1>2, <1>3

\* A step that touches no row, record or frame keeps the invariant.
LEMMA AsideInv ==
    ASSUME IInv, NEW p \in Peer, NEW r2, NEW left, Remains(p, left), Aside(peer[p], r2),
           r2.terminal = peer[p].terminal \/ r2.terminal # "none", Stepped(p, r2, left)
    PROVE  KeptBy(p)
<1>1. Good(p, peer[p], peer[Other(p)]) /\ QuietInv(peer[p])
  BY Before
<1>2. Good(p, r2, peer[Other(p)]) /\ Grows(peer[p], r2)
  BY <1>1, AsideGood
<1>3. QuietInv(r2)
  BY <1>1 DEF QuietInv, Aside
<1>4. QED
  BY <1>2, <1>3, StepInv

Starts == {"none", "preparing", "sent", "failed"}
Terminals == {"none", "protocol", "desync", "disconnect"}

\* The fields that the start, the progress and the packets of a peer change
After(r, start, sequence, owed, receiving, through, terminal) ==
    [r EXCEPT !.start = start, !.nextSequence = sequence, !.owed = owed,
              !.receiving = receiving, !.delayedThrough = through, !.terminal = terminal]

\* Changes of those fields are beside rows, records and frames.
LEMMA FieldsAside ==
    ASSUME NEW r \in PeerType, NEW start \in Starts,
           NEW sequence \in Nat, NEW owed \in Int, NEW receiving \in BOOLEAN,
           NEW through \in Int, NEW terminal \in Terminals,
           r.nextSequence <= sequence, receiving => r.receiving,
           r.staged # NotStaged => receiving
    PROVE  /\ Aside(r, After(r, start, sequence, owed, receiving, through, terminal))
           /\ After(r, start, sequence, owed, receiving, through, terminal).terminal = terminal
<1> DEFINE r2 == After(r, start, sequence, owed, receiving, through, terminal)
<1>1. /\ r2 \in PeerType
      /\ r2.agreement = r.agreement /\ r2.ready = r.ready
      /\ r2.local = r.local /\ r2.native = r.native /\ r2.deferred = r.deferred
      /\ r2.remote = r.remote /\ r2.staged = r.staged /\ r2.remoteChecksums = r.remoteChecksums
      /\ r2.ackInput = r.ackInput /\ r2.ackChecksum = r.ackChecksum
      /\ r2.expectedSequence = r.expectedSequence /\ r2.admittedSequence = r.admittedSequence
      /\ r2.pending = r.pending
      /\ r2.pushed = r.pushed /\ r2.emitted = r.emitted
      /\ r2.compared = r.compared /\ r2.mismatch = r.mismatch
      /\ r2.nextSequence = sequence /\ r2.receiving = receiving /\ r2.terminal = terminal
  <2>1. r2 = [r EXCEPT !.start = start, !.nextSequence = sequence, !.owed = owed,
                       !.receiving = receiving, !.delayedThrough = through,
                       !.terminal = terminal]
    BY DEF After
  <2> HIDE DEF r2
  <2>2. QED
    BY <2>1, ZenonT(60) DEF PeerType, Starts, Terminals
<1> HIDE DEF r2
<1>2. Aside(r, r2) /\ r2.terminal = terminal
  BY <1>1 DEF Aside
<1>3. QED
  BY <1>2 DEF r2

\* The start, the progress calls and a disconnect keep the invariant.
LEMMA StartInv ==
    ASSUME IInv, NEW p \in Peer,
           Start(p) \/ Prepared(p) \/ PreparationFails(p) \/ Disconnect(p)
             \/ \E flushFinal \in BOOLEAN : SetNativeProgress(p, flushFinal)
    PROVE  KeptBy(p)
<1> DEFINE r == peer[p]
<1>1. r \in PeerType /\ Remains(p, wire[p]) /\ (r.staged # NotStaged => r.receiving)
      /\ Good(p, r, peer[Other(p)])
  BY Before
<1>2. /\ r.nextSequence \in Nat /\ r.owed \in Int /\ r.receiving \in BOOLEAN
      /\ r.delayedThrough \in Int /\ r.nextSequence <= r.nextSequence
      /\ r.start \in Starts /\ r.terminal \in Terminals
      /\ "preparing" \in Starts /\ "sent" \in Starts /\ "failed" \in Starts
      /\ "disconnect" \in Terminals
  BY <1>1, PeerFields, SMTT(30) DEF PeerType, Starts, Terminals
<1>3. ASSUME NEW start \in Starts, NEW owed \in Int,
             NEW through \in Int, NEW terminal \in Terminals
      PROVE  LET r2 == After(r, start, r.nextSequence, owed, r.receiving, through, terminal)
             IN  Aside(r, r2) /\ r2.terminal = terminal
  <2> HIDE DEF r
  <2> QED  BY <1>1, <1>2, FieldsAside
<1>4. UNCHANGED wire => Leaves(p, wire[p])
  BY DEF Leaves, IInv
<1>5. CASE Start(p)
  <2>1. PICK r2 : 
           r2 = After(r, "preparing", r.nextSequence, r.owed, r.receiving, r.delayedThrough, r.terminal)
    OBVIOUS
  <2>2. r2 = [r EXCEPT !.start = "preparing"]
    BY <1>1, <2>1 DEF PeerType, After
  <2>3. Aside(r, r2) /\ r2.terminal = r.terminal
    BY <1>2, <1>3, <2>1
  <2>4. Stepped(p, r2, wire[p])
    BY <1>4, <1>5, <2>2 DEF Start, Stepped
  <2>5. QED
    BY <1>1, <2>3, <2>4, AsideInv
<1>6. CASE Prepared(p)
  <2>1. PICK r2 : 
           r2 = After(r, "sent", r.nextSequence, r.owed, r.receiving, r.delayedThrough, r.terminal)
    OBVIOUS
  <2>2. r2 = [r EXCEPT !.start = "sent"]
    BY <1>1, <2>1 DEF PeerType, After
  <2>3. Aside(r, r2) /\ r2.terminal = r.terminal
    BY <1>2, <1>3, <2>1
  <2> DEFINE m == [type |-> "hello", agreement |-> r.agreement]
  <2>4. m \in Message /\ MessageInv(m, p, r2)
    <3>1. r.agreement \in Match.agreement /\ r2.agreement = r.agreement
      BY <1>1, <2>3, PeerFields DEF Aside
    <3>2. QED
      BY <3>1 DEF Message, MessageInv
  <2>5. Becomes(p, r2) /\ (Sends(p, wire[p], m) \/ UNCHANGED wire)
    BY <1>6, <2>2 DEF Prepared
  <2> HIDE DEF m
  <2>6. Stepped(p, r2, wire[p])
    BY <1>4, <2>4, <2>5 DEF Stepped
  <2>7. QED
    BY <1>1, <2>3, <2>6, AsideInv
<1>7. CASE PreparationFails(p)
  <2>1. PICK r2 : 
           r2 = After(r, "failed", r.nextSequence, r.owed, r.receiving, r.delayedThrough, r.terminal)
    OBVIOUS
  <2>2. r2 = [r EXCEPT !.start = "failed"]
    BY <1>1, <2>1 DEF PeerType, After
  <2>3. Aside(r, r2) /\ r2.terminal = r.terminal
    BY <1>2, <1>3, <2>1
  <2>4. Good(p, r2, peer[Other(p)]) /\ Grows(r, r2)
    BY <1>1, <2>3, AsideGood
  <2>5. Fails(p, r2, "protocol", wire[p])
    BY <1>7, <2>2 DEF PreparationFails
  <2>6. QED
    BY <1>1, <2>4, <2>5, FailsInv
<1>8. CASE Disconnect(p)
  <2>1. PICK r2 : 
           r2 = After(r, r.start, r.nextSequence, r.owed, r.receiving, r.delayedThrough, "disconnect")
    OBVIOUS
  <2>2. r2 = [r EXCEPT !.terminal = "disconnect"]
    BY <1>1, <2>1 DEF PeerType, After
  <2>3. Aside(r, r2) /\ r2.terminal = "disconnect"
    BY <1>2, <1>3, <2>1
  <2>4. Stepped(p, r2, wire[p])
    BY <1>4, <1>8, <2>2 DEF Disconnect, Stepped
  <2>5. QED
    BY <1>1, <2>3, <2>4, AsideInv
<1>9. ASSUME NEW flushFinal \in BOOLEAN, SetNativeProgress(p, flushFinal)  PROVE KeptBy(p)
  <2> DEFINE through == IF flushFinal THEN SourceTicks - 1 ELSE r.emitted - Delay - 1
  <2>1. through \in Int /\ r.owed + 1 \in Int
    <3>1. SourceTicks \in Nat /\ Delay \in Nat
      BY Before, Parameters
    <3>2. r.emitted \in Nat
      BY <1>1, PeerFields
    <3>3. QED
      BY <1>2, <3>1, <3>2
  <2>2. PICK r2 : r2 = After(r, r.start, r.nextSequence, r.owed + 1, r.receiving, through, r.terminal)
    OBVIOUS
  <2>3. r2 = [r EXCEPT !.delayedThrough = through, !.owed = r.owed + 1]
    BY <1>1, <2>2 DEF PeerType, After
  <2>4. Aside(r, r2) /\ r2.terminal = r.terminal
    BY <1>2, <1>3, <2>1, <2>2
  <2>5. Becomes(p, [r EXCEPT !.delayedThrough = through, !.owed = @ + 1]) /\ UNCHANGED wire
    BY <1>9 DEF SetNativeProgress
  <2> HIDE DEF through
  <2>6. Stepped(p, r2, wire[p])
    BY <1>4, <2>3, <2>5 DEF Stepped
  <2>7. QED
    BY <1>1, <2>4, <2>6, AsideInv
<1>10. QED
  BY <1>5, <1>6, <1>7, <1>8, <1>9

\* A tick after a and before that of place i is the tick of a place below i.
LEMMA TickBelow ==
    ASSUME NEW a \in Int, NEW n \in Nat, NEW i \in 1..n, -1 <= a, NEW t \in (a + 1)..(i - 2)
    PROVE  t \in Int /\ a < t /\ t + 1 \in 1..n /\ t + 1 < i
OBVIOUS

\* The ticks after a, up to that of place i, are those of the places below i
\* or of the rest.
LEMMA CountedTicks ==
    ASSUME NEW a \in Int, NEW i \in Int, NEW Below \in SUBSET (1..(i - 1)),
           NEW D, IsFiniteSet(D),
           \A t \in (a + 1)..(i - 2) : t + 1 \in Below \/ t \in D
    PROVE  i - 2 - a <= Cardinality(Below) + Cardinality(D)
<1> DEFINE T == (a + 1)..(i - 2)
           U == T \ D
           f == [t \in U |-> t + 1]
<1>1. IsFiniteSet(T) /\ Cardinality(T) \in Nat /\ i - 2 - a <= Cardinality(T)
  <2> DEFINE b == a + 1
             c == i - 2
  <2>1. b \in Int /\ c \in Int /\ (IF b > c THEN 0 ELSE c - b + 1) \in Nat
        /\ i - 2 - a <= (IF b > c THEN 0 ELSE c - b + 1)
    OBVIOUS
  <2>2. T = b..c
    OBVIOUS
  <2> HIDE DEF T, b, c
  <2>3. QED
    BY <2>1, <2>2, FS_Interval
<1>2. IsFiniteSet(Below) /\ Cardinality(Below) \in Nat
  <2> DEFINE c == i - 1
  <2>1. c \in Int /\ Below \in SUBSET (1..c)
    OBVIOUS
  <2> HIDE DEF c
  <2>2. IsFiniteSet(1..c)
    BY <2>1, FS_Interval
  <2>3. QED
    BY <2>1, <2>2, FS_Subset, FS_CardinalityType
<1>3. f \in Injection(U, Below)
  <2>1. \A t \in U : t \in Int /\ t + 1 \in Below
    OBVIOUS
  <2> HIDE DEF U
  <2>2. f \in [U -> Below] /\ \A x, y \in U : f[x] = f[y] => x = y
    BY <2>1
  <2> HIDE DEF f
  <2>3. QED
    BY <2>2 DEF Injection, IsInjective
<1>4. Cardinality(U) <= Cardinality(Below) /\ IsFiniteSet(U)
  <2> HIDE DEF U, f
  <2> QED  BY <1>2, <1>3, FS_Injection
<1>5. /\ Cardinality(U) \in Nat /\ Cardinality(D) \in Nat
      /\ IsFiniteSet(U \cup D) /\ Cardinality(U \cup D) <= Cardinality(U) + Cardinality(D)
  <2> HIDE DEF U
  <2>1. Cardinality(U) \in Nat /\ Cardinality(D) \in Nat /\ Cardinality(U \cap D) \in Nat
    BY <1>4, FS_CardinalityType, FS_Intersection
  <2>2. IsFiniteSet(U \cup D)
        /\ Cardinality(U \cup D) = Cardinality(U) + Cardinality(D) - Cardinality(U \cap D)
    BY <1>4, FS_Union
  <2>3. QED
    BY <2>1, <2>2
<1>6. Cardinality(T) <= Cardinality(U \cup D)
  <2>1. T \in SUBSET (U \cup D)
    OBVIOUS
  <2> HIDE DEF T, U
  <2>2. QED
    BY <1>5, <2>1, FS_Subset
<1>7. Cardinality(U \cup D) \in Nat
  <2> HIDE DEF U
  <2> QED  BY <1>5, FS_CardinalityType
<1> HIDE DEF T, U
<1>8. QED
  BY <1>1, <1>2, <1>4, <1>5, <1>6, <1>7

\* What a caller may hold back is finite.
LEMMA DeferTicksFinite ==
    ASSUME setup \in DOMAIN Setups, NEW p \in Peer
    PROVE  IsFiniteSet(Match.deferTicks[p]) /\ Cardinality(Match.deferTicks[p]) \in Nat
<1> DEFINE n == InputTicks - 1
<1>1. Match.deferTicks[p] \in SUBSET (0..n) /\ n \in Int /\ 0 \in Int
  BY Parameters DEF InputTick
<1> HIDE DEF n
<1>2. IsFiniteSet(0..n)
  BY <1>1, FS_Interval
<1>3. QED
  BY <1>1, <1>2, FS_Subset, FS_CardinalityType

\* A packet says the truth about the peer that sends it.
LEMMA PacketGood ==
    ASSUME setup \in DOMAIN Setups, NEW p \in Peer, NEW r, NEW s, Good(p, r, s),
           Engine(s), NEW r2, r2.nextSequence = r.nextSequence + 1,
           r2.admittedSequence = r.admittedSequence, r2.remote = r.remote,
           r2.remoteChecksums = r.remoteChecksums, r2.local = r.local,
           r2.deferred = r.deferred, r2.emitted = r.emitted, r2.pushed = r.pushed,
           r2.ackInput = r.ackInput, r2.ackChecksum = r.ackChecksum
    PROVE  Packet(r) \in Message /\ MessageInv(Packet(r), p, r2)
<1> DEFINE m == Packet(r)
           places == {i \in DOMAIN r.local :
                         r.local[i].tick > r.ackInput /\ r.local[i].tick \notin r.deferred}
           three == {r.delayedThrough, r.emitted - 1, r.ackChecksum + MaxBatch}
           through == Min(three)
<1>1. /\ r \in PeerType /\ s \in PeerType /\ LocalInv(r) /\ RemoteInv(r) /\ SequenceInv(r)
      /\ FrameInv(p, r) /\ CallerInv(p, r) /\ LinkInv(r, Other(p), s)
  BY DEF Good, PeerInv, Engine
<1>2. /\ r.nextSequence \in Nat /\ r.admittedSequence \in Int
      /\ r.ackInput \in Int /\ r.ackChecksum \in Int /\ r.emitted \in Nat
      /\ r.delayedThrough \in Int /\ Len(r.pushed) \in Nat /\ r.pushed \in Seq(Frame)
      /\ r.local \in Seq(Row) /\ s.emitted \in Nat
  BY <1>1, PeerFields
<1>0. MaxBatch \in Int /\ Window \in Int
  BY Parameters
<1>3. Contiguous(DOMAIN r.remote) \in Int /\ -1 <= Contiguous(DOMAIN r.remote)
      /\ 0..Contiguous(DOMAIN r.remote) \subseteq DOMAIN r.remote
  <2>1. InputTicks \in Int /\ DOMAIN r.remote \in SUBSET Nat
        /\ \A t \in DOMAIN r.remote : t <= InputTicks
    BY <1>1, Parameters DEF RemoteInv, InputTick
  <2>2. QED
    BY <2>1, ContiguousStart
<1>4. /\ Contiguous(DOMAIN r.remoteChecksums) \in Int
      /\ -1 <= Contiguous(DOMAIN r.remoteChecksums)
      /\ 0..Contiguous(DOMAIN r.remoteChecksums) \subseteq DOMAIN r.remoteChecksums
  <2>1. s.emitted \in Int /\ DOMAIN r.remoteChecksums \in SUBSET Nat
        /\ \A t \in DOMAIN r.remoteChecksums : t <= s.emitted
    BY <1>1, <1>2 DEF RemoteInv, LinkInv
  <2>2. QED
    BY <2>1, ContiguousStart
<1>5. ASSUME NEW e \in OpenInputs(r)
      PROVE  \E i \in places : e = r.local[i]
                               /\ Cardinality({k \in places : k < i}) < MaxBatch
  BY DEF OpenInputs, FirstBatch
<1>6. OpenInputs(r) \in SUBSET Row /\ OpenInputs(r) \subseteq ToSet(r.local)
      /\ \A e \in OpenInputs(r) : e.tick \notin r.deferred
  <2>1. \A i \in places : r.local[i] \in Row /\ r.local[i] \in ToSet(r.local)
                          /\ r.local[i].tick \notin r.deferred
    BY <1>2 DEF ToSet
  <2> HIDE DEF places
  <2>2. QED
    BY <1>5, <2>1
<1>7. through \in three /\ \A x \in three : through <= x
  <2>1. three \in SUBSET Int /\ three # {}
    BY <1>2, Parameters, SMTT(30)
  <2>2. \E b \in Int : \A x \in three : b <= x
    <3> DEFINE a1 == r.delayedThrough  a2 == r.emitted - 1  a3 == r.ackChecksum + MaxBatch
               b1 == IF a1 <= a2 THEN a1 ELSE a2
               b2 == IF b1 <= a3 THEN b1 ELSE a3
    <3>1. a1 \in Int /\ a2 \in Int /\ a3 \in Int
      BY <1>2, Parameters, SMTT(30)
    <3> HIDE DEF a1, a2, a3
    <3>2. b2 \in Int /\ b2 <= a1 /\ b2 <= a2 /\ b2 <= a3
      BY <3>1
    <3>3. QED
      BY <3>2 DEF a1, a2, a3
  <2> HIDE DEF three
  <2>3. QED
    BY <2>1, <2>2, MinInt
<1>8. through \in Int /\ through <= r.emitted - 1 /\ through <= r.ackChecksum + MaxBatch
  BY <1>2, <1>7, Parameters
<1>9. /\ OpenChecksums(r) = [t \in (r.ackChecksum + 1)..through |-> r.pushed[t + 1]]
      /\ DOMAIN OpenChecksums(r) = (r.ackChecksum + 1)..through
  BY DEF OpenChecksums
<1> HIDE DEF through, three
<1>10. ASSUME NEW t \in DOMAIN OpenChecksums(r)
       PROVE  /\ t \in Nat /\ t < r.emitted /\ OpenChecksums(r)[t] = r.pushed[t + 1]
              /\ t <= r.ackChecksum + MaxBatch /\ OpenChecksums(r)[t] \in Frame
  <2>1. t \in (r.ackChecksum + 1)..through /\ OpenChecksums(r)[t] = r.pushed[t + 1]
    BY <1>9
  <2>2. -1 <= r.ackChecksum
    BY <1>1 DEF SequenceInv
  <2>3. t \in Nat /\ t < r.emitted /\ t <= r.ackChecksum + MaxBatch
    <3>1. t \in Int /\ r.ackChecksum + 1 <= t /\ t <= through
      BY <2>1
    <3>2. r.ackChecksum \in Int /\ r.emitted \in Int
      BY <1>2
    <3> HIDE DEF places
    <3>3. QED
      BY <1>0, <1>8, <2>2, <3>1, <3>2
  <2>4. t + 1 \in 1..Len(r.pushed)
    BY <1>1, <1>2, <2>3 DEF FrameInv
  <2>5. r.pushed[t + 1] \in Frame
    BY <1>2, <2>4
  <2>6. QED
    BY <2>1, <2>3, <2>5
<1>11. OpenChecksums(r) \in Records
  <2>1. OpenChecksums(r) \in [(r.ackChecksum + 1)..through -> Frame]
    BY <1>9, <1>10
  <2>2. (r.ackChecksum + 1)..through \in SUBSET Int
    OBVIOUS
  <2>3. QED
    BY <2>1, <2>2 DEF Records
<1>12. ASSUME Orderly(p), NEW e \in OpenInputs(r)
       PROVE  e.tick <= r.ackInput + Window + 1
  <2>1. PICK i \in places : e = r.local[i] /\ Cardinality({k \in places : k < i}) < MaxBatch
    BY <1>5
  <2> DEFINE Below == {k \in places : k < i}
             D == Match.deferTicks[p]
  <2>2. \A k \in DOMAIN r.local : r.local[k].tick = k - 1
    BY <1>1, <1>12 DEF CallerInv, Orderly
  <2>3. i \in 1..Len(r.local) /\ DOMAIN r.local = 1..Len(r.local) /\ Len(r.local) \in Nat
    BY <1>2, SMTT(30)
  <2>4. Below \in SUBSET (1..(i - 1))
    BY <2>3
  <2>5. IsFiniteSet(D) /\ Cardinality(D) \in Nat
    BY DeferTicksFinite
  <2>6. ASSUME NEW t \in (r.ackInput + 1)..(i - 2)  PROVE t + 1 \in Below \/ t \in D
    <3>1. t \in Int /\ r.ackInput < t /\ t + 1 \in 1..Len(r.local) /\ t + 1 < i
      <4>1. -1 <= r.ackInput
        BY <1>1 DEF SequenceInv
      <4>2. PICK a \in Int, n \in Nat : a = r.ackInput /\ n = Len(r.local) /\ i \in 1..n
        BY <1>2, <2>3
      <4>3. t \in Int /\ a < t /\ t + 1 \in 1..n /\ t + 1 < i
        BY <4>1, <4>2, TickBelow
      <4>4. QED
        BY <4>2, <4>3
    <3>2. r.local[t + 1].tick = t
      BY <2>2, <2>3, <3>1
    <3>3. CASE t \in r.deferred
      BY <1>1, <3>3 DEF CallerInv
    <3>4. CASE t \notin r.deferred
      BY <1>2, <2>3, <3>1, <3>2, <3>4
    <3>5. QED
      BY <3>3, <3>4
  <2>7. Cardinality(Below) < MaxBatch
    BY <2>1
  <2>8. Cardinality(Below) \in Nat
    <3>0. 1 \in Int /\ i - 1 \in Int
      BY <2>3
    <3>1. IsFiniteSet(1..(i - 1))
      BY <3>0, FS_Interval
    <3>2. IsFiniteSet(Below)
      BY <2>4, <3>1, FS_Subset
    <3>3. QED
      BY <3>2, FS_CardinalityType
  <2> HIDE DEF Below, D, places
  <2>9. i - 2 - r.ackInput <= Cardinality(Below) + Cardinality(D)
    <3>1. i \in Int
      BY <2>3
    <3>2. QED
      BY <1>2, <2>4, <2>5, <2>6, <3>1, CountedTicks
  <2>10. MaxBatch + Cardinality(D) <= Window + 1
    BY <1>12 DEF Orderly, D
  <2>11. e.tick = i - 1
    BY <2>1, <2>2, <2>3
  <2>12. QED
    <3>1. i \in Int /\ r.ackInput \in Int
      BY <1>2, <2>3
    <3>2. QED
      BY <1>0, <2>5, <2>7, <2>8, <2>9, <2>10, <2>11, <3>1
<1>13. ASSUME Orderly(p)  PROVE MaxBatch <= Window + 1
  <2>2. Cardinality(Match.deferTicks[p]) \in Nat
    BY DeferTicksFinite
  <2>3. MaxBatch + Cardinality(Match.deferTicks[p]) <= Window + 1
    BY <1>13 DEF Orderly
  <2>4. QED
    BY <1>0, <2>2, <2>3
<1>14. /\ m.type = "state" /\ m.sequence = r.nextSequence /\ m.ackSequence = r.admittedSequence
       /\ m.ackInput = Contiguous(DOMAIN r.remote)
       /\ m.ackChecksum = Contiguous(DOMAIN r.remoteChecksums)
       /\ m.inputs = OpenInputs(r) /\ m.checksums = OpenChecksums(r)
       /\ m \in StatePacket
  BY <1>2, <1>3, <1>4, <1>6, <1>11 DEF Packet, InputAck, StatePacket
<1> HIDE DEF m
<1>15. m \in Message
  BY <1>14 DEF Message
<1>16. /\ m.sequence < r2.nextSequence /\ m.ackSequence <= r2.admittedSequence
  BY <1>2, <1>14
<1>17. Orderly(p) => /\ \A e \in m.inputs : e.tick <= r2.ackInput + Window + 1
                     /\ \A t \in DOMAIN m.checksums : t <= r2.ackChecksum + Window + 1
  <2>1. ASSUME Orderly(p), NEW t \in DOMAIN OpenChecksums(r)
        PROVE  t <= r.ackChecksum + Window + 1
    BY <1>2, <1>10, <1>13, <2>1, Parameters, SMTT(30)
  <2>2. QED
    BY <1>12, <1>14, <2>1
<1>18. MessageInv(m, p, r2)
  BY <1>3, <1>4, <1>6, <1>10, <1>14, <1>16, <1>17 DEF MessageInv
<1>19. QED
  BY <1>15, <1>18 DEF m

\* A packet keeps the invariant: all it says is true of its sender.
LEMMA SendInv ==
    ASSUME IInv, NEW p \in Peer, SendState(p)
    PROVE  KeptBy(p)
<1> DEFINE r == peer[p]
           s == peer[Other(p)]
           m == Packet(r)
<1>1. /\ setup \in DOMAIN Setups /\ r \in PeerType /\ Good(p, r, s) /\ Engine(s)
      /\ Remains(p, wire[p]) /\ (r.staged # NotStaged => r.receiving)
  BY Before
<1>2. /\ r.nextSequence \in Nat /\ r.owed \in Int /\ r.receiving \in BOOLEAN
      /\ r.delayedThrough \in Int /\ r.nextSequence <= r.nextSequence + 1
      /\ r.nextSequence + 1 \in Nat /\ r.owed - 1 \in Int /\ FALSE \in BOOLEAN
      /\ r.start \in Starts /\ r.terminal \in Terminals
  <2>1. r.start \in Starts /\ r.terminal \in Terminals
    BY <1>1 DEF PeerType, Starts, Terminals
  <2>2. /\ r.nextSequence \in Nat /\ r.owed \in Int /\ r.receiving \in BOOLEAN
        /\ r.delayedThrough \in Int
    BY <1>1, PeerFields
  <2>3. r.nextSequence <= r.nextSequence + 1 /\ r.nextSequence + 1 \in Nat /\ r.owed - 1 \in Int
    BY <2>2
  <2>4. QED
    BY <2>1, <2>2, <2>3
<1>3. ASSUME NEW r2, Aside(r, r2), r2.terminal = r.terminal,
             r2.nextSequence = r.nextSequence + 1, Becomes(p, r2), Sends(p, wire[p], m)
      PROVE  KeptBy(p)
  <2>1. m \in Message /\ MessageInv(m, p, r2)
    <3>1. /\ r2.admittedSequence = r.admittedSequence /\ r2.remote = r.remote
          /\ r2.remoteChecksums = r.remoteChecksums /\ r2.local = r.local
          /\ r2.deferred = r.deferred /\ r2.emitted = r.emitted /\ r2.pushed = r.pushed
          /\ r2.ackInput = r.ackInput /\ r2.ackChecksum = r.ackChecksum
      BY <1>3 DEF Aside
    <3>2. PICK r0 : r0 = r
      OBVIOUS
    <3>3. PICK s0 : s0 = s
      OBVIOUS
    <3>4. Packet(r0) \in Message /\ MessageInv(Packet(r0), p, r2)
      BY <1>1, <1>3, <3>1, <3>2, <3>3, PacketGood
    <3>5. QED
      BY <3>2, <3>4
  <2> HIDE DEF m
  <2>2. Stepped(p, r2, wire[p])
    BY <1>3, <2>1 DEF Stepped
  <2>3. QED
    BY <1>1, <1>3, <2>2, AsideInv
<1>4. Sends(p, wire[p], m)
  BY DEF SendState
<1>5. CASE r.owed > 0 /\ Becomes(p, [[r EXCEPT !.nextSequence = @ + 1] EXCEPT !.owed = @ - 1])
  <2>1. PICK r2 : r2 = After(r, r.start, r.nextSequence + 1, r.owed - 1, r.receiving,
                             r.delayedThrough, r.terminal)
    OBVIOUS
  <2>2. r2 = [[r EXCEPT !.nextSequence = @ + 1] EXCEPT !.owed = @ - 1]
        /\ r2.nextSequence = r.nextSequence + 1
    BY <1>1, <2>1 DEF PeerType, After
  <2>3. Aside(r, r2) /\ r2.terminal = r.terminal
    BY <1>1, <1>2, <2>1, FieldsAside
  <2>4. QED
    BY <1>3, <1>4, <1>5, <2>2, <2>3
<1>6. CASE /\ Answering([r EXCEPT !.nextSequence = @ + 1])
           /\ Becomes(p, [[r EXCEPT !.nextSequence = @ + 1] EXCEPT !.receiving = FALSE])
  <2>0. PICK receiving \in BOOLEAN : receiving = FALSE
    OBVIOUS
  <2>1. PICK r2 : r2 = After(r, r.start, r.nextSequence + 1, r.owed, receiving,
                             r.delayedThrough, r.terminal)
    OBVIOUS
  <2>2. r2 = [[r EXCEPT !.nextSequence = @ + 1] EXCEPT !.receiving = FALSE]
        /\ r2.nextSequence = r.nextSequence + 1
    BY <1>1, <2>0, <2>1 DEF PeerType, After
  <2>3. r.staged = NotStaged
    <3>1. [r EXCEPT !.nextSequence = @ + 1].staged = r.staged
      BY <1>1 DEF PeerType
    <3>2. QED
      BY <1>6, <3>1 DEF Answering
  <2>4. Aside(r, r2) /\ r2.terminal = r.terminal
    <3>1. (receiving => r.receiving) /\ (r.staged # NotStaged => receiving)
      BY <2>0, <2>3
    <3>2. QED
      BY <1>1, <1>2, <2>1, <3>1, FieldsAside
  <2>5. QED
    BY <1>3, <1>4, <1>6, <2>2, <2>4
<1>7. QED
  BY <1>5, <1>6 DEF SendState

\* Peers that hear each other's identity agree from then on.
LEMMA ReadyGood ==
    ASSUME setup \in DOMAIN Setups, NEW p \in Peer, NEW r, NEW s, Good(p, r, s),
           r.agreement = s.agreement
    PROVE  LET r2 == [r EXCEPT !.ready = TRUE]
           IN  /\ Good(p, r2, s) /\ Grows(r, r2) /\ r2.ready /\ r2.mismatch = r.mismatch
               /\ r2.terminal = r.terminal
<1> DEFINE r2 == [r EXCEPT !.ready = TRUE]
<1>1. /\ r \in PeerType /\ LocalInv(r) /\ RemoteInv(r) /\ SequenceInv(r)
      /\ FrameInv(p, r) /\ CallerInv(p, r) /\ LinkInv(r, Other(p), s) /\ FirstDifference(r, s)
  BY DEF Good, PeerInv
<1>2. /\ r2 \in PeerType /\ r2.ready /\ r2.terminal = r.terminal
      /\ r2.agreement = r.agreement
      /\ r2.local = r.local /\ r2.native = r.native /\ r2.deferred = r.deferred
      /\ r2.remote = r.remote /\ r2.staged = r.staged /\ r2.remoteChecksums = r.remoteChecksums
      /\ r2.ackInput = r.ackInput /\ r2.ackChecksum = r.ackChecksum
      /\ r2.expectedSequence = r.expectedSequence /\ r2.admittedSequence = r.admittedSequence
      /\ r2.pending = r.pending /\ r2.receiving = r.receiving
      /\ r2.pushed = r.pushed /\ r2.emitted = r.emitted
      /\ r2.compared = r.compared /\ r2.mismatch = r.mismatch
      /\ r2.nextSequence = r.nextSequence
  BY <1>1 DEF PeerType
<1> HIDE DEF r2
<1>3. LocalTicks(r2) = LocalTicks(r)
  BY <1>2 DEF LocalTicks
<1>4. LocalInv(r2) /\ RemoteInv(r2)
  BY <1>1, <1>2, <1>3 DEF LocalInv, RemoteInv
<1>5. SequenceInv(r2)
  BY <1>1, <1>2, <1>3 DEF SequenceInv
<1>6. FrameInv(p, r2)
  <2>1. ASSUME NEW i  PROVE Composable(r2, i) = Composable(r, i)
                            /\ FrameAt(p, r2, i) = FrameAt(p, r, i)
    BY <1>2 DEF Composable, FrameAt
  <2>2. QED
    BY <1>1, <1>2, <2>1 DEF FrameInv
<1>7. CallerInv(p, r2)
  BY <1>1, <1>2 DEF CallerInv
<1>8. LinkInv(r2, Other(p), s)
  BY <1>1, <1>2 DEF LinkInv
<1>9. FirstDifference(r2, s)
  BY <1>1, <1>2 DEF FirstDifference
<1>10. Grows(r, r2)
  BY <1>1, <1>2, PeerFields DEF Grows
<1>11. Good(p, r2, s)
  BY <1>2, <1>4, <1>5, <1>6, <1>7, <1>8, <1>9 DEF Good, PeerInv
<1>12. QED
  BY <1>2, <1>10, <1>11 DEF r2

\* A hello keeps the invariant: a peer is ready only for its own match.
LEMMA HelloInv ==
    ASSUME IInv, NEW p \in Peer, NEW i \in DOMAIN wire[p], ReceiveHello(p, i)
    PROVE  KeptBy(p)
<1> DEFINE r == peer[p]
           s == peer[Other(p)]
           m == wire[p][i]
           r2 == [r EXCEPT !.ready = TRUE]
<1>1. /\ setup \in DOMAIN Setups /\ r \in PeerType /\ Good(p, r, s) /\ QuietInv(r)
      /\ Grows(r, r) /\ m \in Message /\ MessageInv(m, Other(p), s)
  BY Before
<1>2. m.type = "hello" /\ Deliverable(p, i)
  BY DEF ReceiveHello
<1>3. Remains(p, Rest(p))
  BY <1>2, RestRemains
<1>4. CASE Fails(p, r, "protocol", Rest(p))
  BY <1>1, <1>3, <1>4, FailsInv
<1>5. CASE UNCHANGED <<setup, peer>> /\ Leaves(p, Rest(p))
  <2>1. Becomes(p, r)
    BY <1>5 DEF Becomes, IInv
  <2>2. Stepped(p, r, Rest(p))
    BY <1>5, <2>1 DEF Stepped
  <2>3. QED
    BY <1>1, <1>3, <2>2, StepInv
<1>6. CASE SameIdentity(r, m) /\ PumpThenOwe(p, r2, 0, Rest(p))
  <2>1. r.agreement = s.agreement
    BY <1>1, <1>2, <1>6 DEF SameIdentity, MessageInv
  <2>2. /\ Good(p, r2, s) /\ Grows(r, r2) /\ r2.ready /\ r2.mismatch = r.mismatch
        /\ r2.terminal = r.terminal
    <3> HIDE DEF r, s
    <3> QED  BY <1>1, <2>1, ReadyGood
  <2> HIDE DEF r2
  <2>3. QuietInv(r2)
    BY <1>1, <2>2 DEF QuietInv
  <2>4. 0 \in Int
    OBVIOUS
  <2>5. QED
    BY <1>3, <1>6, <2>2, <2>3, <2>4, PumpThenOweInv
<1>7. QED
  BY <1>4, <1>5, <1>6 DEF ReceiveHello

\* So does the end that the other peer reports,
LEMMA TerminalInv ==
    ASSUME IInv, NEW p \in Peer, NEW i \in DOMAIN wire[p], ReceiveTerminal(p, i)
    PROVE  KeptBy(p)
<1> DEFINE r == peer[p]
           kind == wire[p][i].kind
<1>1. r \in PeerType /\ wire[p][i] \in Message /\ (r.staged # NotStaged => r.receiving)
  BY Before
<1>2. wire[p][i].type = "terminal" /\ Deliverable(p, i) /\ Becomes(p, Ended(r, kind))
      /\ Leaves(p, Rest(p))
  BY DEF ReceiveTerminal
<1>3. kind \in {"protocol", "desync", "disconnect"} /\ kind # "none"
  BY <1>1, <1>2 DEF Message, StatePacket
<1> HIDE DEF kind
<1>4. Aside(r, Ended(r, kind)) /\ Ended(r, kind).terminal = kind
  BY <1>1, <1>3, EndedAside
<1>5. Remains(p, Rest(p))
  BY <1>2, RestRemains
<1>6. Stepped(p, Ended(r, kind), Rest(p))
  BY <1>2 DEF Stepped
<1>7. QED
  BY <1>3, <1>4, <1>5, <1>6, AsideInv

\* and the end over the observer or the receive queue.
LEMMA RefusalInv ==
    ASSUME IInv, NEW p \in Peer, ObserverRefuses(p) \/ ReceiveOverflow(p)
    PROVE  KeptBy(p)
<1>1. Fails(p, peer[p], "protocol", wire[p])
  BY DEF ObserverRefuses, ReceiveOverflow
<1>2. Good(p, peer[p], peer[Other(p)]) /\ Grows(peer[p], peer[p]) /\ Remains(p, wire[p])
  BY Before
<1>3. QED
  BY <1>1, <1>2, FailsInv

\* A call that adds rows keeps the invariant, whatever it holds back.
LEMMA LocalCallInv ==
    ASSUME IInv, NEW p \in Peer, LocalCall(p)
    PROVE  KeptBy(p)
<1> DEFINE r == peer[p]
           s == peer[Other(p)]
<1>1. PICK ticks \in Match.batches, deferSend \in BOOLEAN, repeat \in BOOLEAN :
         /\ deferSend => ticks \subseteq Match.deferTicks[p]
         /\ Match.inOrder => \A t \in ticks : 0..t \subseteq ticks \cup LocalTicks(r)
         /\ \E entries \in [ticks -> Pad], overrides \in Match.overrides[p] :
               AddLocalInputs(p, entries, overrides, deferSend, repeat)
  BY DEF LocalCall
<1>2. PICK entries \in [ticks -> Pad], overrides \in Match.overrides[p] :
         AddLocalInputs(p, entries, overrides, deferSend, repeat)
  BY <1>1
<1>3. /\ setup \in DOMAIN Setups /\ r \in PeerType /\ Good(p, r, s) /\ QuietInv(r)
      /\ Grows(r, r) /\ Remains(p, wire[p])
  BY Before
<1> DEFINE new == DOMAIN entries \ LocalTicks(r)
           r2 == WithEntries(r, entries, overrides, deferSend)
           sends == (IF deferSend THEN 0 ELSE 1) + (IF repeat THEN 1 ELSE 0)
<1>4. /\ Active(p)
      /\ Fails(p, r, "protocol", wire[p]) \/ PumpThenOwe(p, r2, sends, wire[p])
  BY <1>2 DEF AddLocalInputs, WithEntries
<1>5. Added(p, r, new, entries, overrides, r2)
  <2> HIDE DEF s
  <2>1. PICK r0 : r0 = r
    OBVIOUS
  <2>2. Good(p, r0, s)
           /\ (Match.inOrder => \A t \in ticks : 0..t \subseteq ticks \cup LocalTicks(r0))
    BY <1>1, <1>3, <2>1
  <2>3. deferSend => ticks \subseteq Match.deferTicks[p]
    BY <1>1
  <2>4. Added(p, r0, DOMAIN entries \ LocalTicks(r0), entries, overrides,
              WithEntries(r0, entries, overrides, deferSend))
    BY <1>3, <2>2, <2>3, CallAdded
  <2>5. QED
    BY <2>1, <2>4
<1>6. new \in SUBSET InputTick /\ new \cap LocalTicks(r) = {}
  <2>1. DOMAIN entries \subseteq InputTick
    BY <1>3, Parameters
  <2>2. QED
    BY <2>1
<1> HIDE DEF new, r2
<1>7. Good(p, r2, s) /\ Grows(r, r2)
  <2>1. new \cap LocalTicks(r) = {}
    BY <1>6
  <2> HIDE DEF r, s
  <2>2. QED
    BY <1>3, <1>5, <1>6, <2>1, AddedGood
<1>8. QuietInv(r2) /\ r2.ready
  BY <1>3, <1>4, <1>5 DEF QuietInv, Added, Active
<1>9. sends \in Int
  OBVIOUS
<1> HIDE DEF sends
<1>10. CASE Fails(p, r, "protocol", wire[p])
  BY <1>3, <1>10, FailsInv
<1>11. CASE PumpThenOwe(p, r2, sends, wire[p])
  BY <1>3, <1>7, <1>8, <1>9, <1>11, PumpThenOweInv
<1>12. QED
  BY <1>4, <1>10, <1>11

\* The engine of a peer runs one frame more of those it was given.
LEMMA EmitGood ==
    ASSUME NEW p \in Peer, NEW r, NEW s, Good(p, r, s), r.emitted < Len(r.pushed)
    PROVE  LET r2 == [r EXCEPT !.emitted = @ + 1]
           IN  /\ Good(p, r2, s) /\ Grows(r, r2) /\ r2.mismatch = r.mismatch
               /\ r2.terminal = r.terminal /\ r2 \in PeerType
<1> DEFINE r2 == [r EXCEPT !.emitted = @ + 1]
<1>1. /\ r \in PeerType /\ LocalInv(r) /\ RemoteInv(r) /\ SequenceInv(r)
      /\ FrameInv(p, r) /\ CallerInv(p, r) /\ LinkInv(r, Other(p), s) /\ FirstDifference(r, s)
  BY DEF Good, PeerInv
<1>0. /\ r.emitted \in Nat /\ r.emitted + 1 \in Nat /\ Len(r.pushed) \in Nat
      /\ r.ackChecksum \in Int /\ r.compared \in Nat
  BY <1>1, PeerFields
<1>2. /\ r2 \in PeerType /\ r2.ready = r.ready /\ r2.terminal = r.terminal
      /\ r2.agreement = r.agreement
      /\ r2.local = r.local /\ r2.native = r.native /\ r2.deferred = r.deferred
      /\ r2.remote = r.remote /\ r2.staged = r.staged /\ r2.remoteChecksums = r.remoteChecksums
      /\ r2.ackInput = r.ackInput /\ r2.ackChecksum = r.ackChecksum
      /\ r2.expectedSequence = r.expectedSequence /\ r2.admittedSequence = r.admittedSequence
      /\ r2.pending = r.pending /\ r2.receiving = r.receiving
      /\ r2.pushed = r.pushed /\ r2.emitted = r.emitted + 1
      /\ r2.compared = r.compared /\ r2.mismatch = r.mismatch
      /\ r2.nextSequence = r.nextSequence
  BY <1>0, <1>1 DEF PeerType
<1> HIDE DEF r2
<1>3. LocalTicks(r2) = LocalTicks(r)
  BY <1>2 DEF LocalTicks
<1>4. LocalInv(r2) /\ RemoteInv(r2)
  BY <1>1, <1>2, <1>3 DEF LocalInv, RemoteInv
<1>5. SequenceInv(r2)
  <2>1. r2.ackChecksum < r2.emitted
    BY <1>0, <1>1, <1>2 DEF SequenceInv
  <2>2. QED
    BY <1>1, <1>2, <1>3, <2>1 DEF SequenceInv
<1>6. FrameInv(p, r2)
  <2>1. ASSUME NEW i  PROVE Composable(r2, i) = Composable(r, i)
                            /\ FrameAt(p, r2, i) = FrameAt(p, r, i)
    BY <1>2 DEF Composable, FrameAt
  <2>2. r2.compared <= r2.emitted /\ r2.emitted <= Len(r2.pushed)
    BY <1>0, <1>1, <1>2 DEF FrameInv
  <2>3. QED
    BY <1>1, <1>2, <2>1, <2>2 DEF FrameInv
<1>7. CallerInv(p, r2)
  BY <1>1, <1>2 DEF CallerInv
<1>8. LinkInv(r2, Other(p), s)
  BY <1>1, <1>2 DEF LinkInv
<1>9. FirstDifference(r2, s)
  BY <1>1, <1>2 DEF FirstDifference
<1>10. Grows(r, r2)
  <2>1. /\ r.emitted <= r2.emitted /\ r.nextSequence <= r2.nextSequence
        /\ r.admittedSequence <= r2.admittedSequence /\ r.ackInput <= r2.ackInput
        /\ r.ackChecksum <= r2.ackChecksum /\ Len(r.pushed) <= Len(r2.pushed)
    BY <1>0, <1>1, <1>2, PeerFields
  <2>2. QED
    BY <1>2, <2>1 DEF Grows
<1>11. Good(p, r2, s)
  BY <1>2, <1>4, <1>5, <1>6, <1>7, <1>8, <1>9 DEF Good, PeerInv
<1>12. QED
  BY <1>2, <1>10, <1>11 DEF r2

\* The next record of the engine keeps the invariant.
LEMMA ChecksumInv ==
    ASSUME IInv, NEW p \in Peer, AddChecksum(p)
    PROVE  KeptBy(p)
<1> DEFINE r == peer[p]
           s == peer[Other(p)]
           r1 == [r EXCEPT !.emitted = @ + 1]
           r2 == Compared(r1)
<1>1. /\ r \in PeerType /\ Good(p, r, s) /\ QuietInv(r) /\ Engine(s) /\ Remains(p, wire[p])
  BY Before
<1>2. r.emitted < Len(r.pushed) /\ r.terminal = "none"
  BY DEF AddChecksum, Active
<1>3. /\ Good(p, r1, s) /\ Grows(r, r1) /\ r1.mismatch = r.mismatch
      /\ r1.terminal = r.terminal /\ r1 \in PeerType
  <2> HIDE DEF r, s
  <2> QED  BY <1>1, <1>2, EmitGood
<1>4. r1.mismatch = -1
  BY <1>1, <1>2, <1>3 DEF QuietInv
<1> HIDE DEF r1
<1>5. Good(p, r2, s) /\ Grows(r1, r2)
  <2> HIDE DEF r, s
  <2> QED  BY <1>1, <1>3, <1>4, ComparedGood
<1>6. r2 \in PeerType
  BY <1>5 DEF Good, PeerInv
<1>7. \/ r2.mismatch = -1 /\ Becomes(p, r2) /\ UNCHANGED wire
      \/ Fails(p, r2, "desync", wire[p])
  BY DEF AddChecksum, r1
<1> HIDE DEF r2
<1>8. Grows(r, r2)
  <2> HIDE DEF r
  <2> QED  BY <1>1, <1>3, <1>5, <1>6, GrowsTrans
<1>9. CASE Fails(p, r2, "desync", wire[p])
  BY <1>1, <1>5, <1>8, <1>9, FailsInv
<1>10. CASE r2.mismatch = -1 /\ Becomes(p, r2) /\ UNCHANGED wire
  <2>1. Stepped(p, r2, wire[p])
    BY <1>10 DEF Stepped, Leaves, IInv
  <2>2. QuietInv(r2)
    BY <1>10 DEF QuietInv
  <2>3. QED
    BY <1>1, <1>5, <1>8, <2>1, <2>2, StepInv
<1>11. QED
  BY <1>7, <1>9, <1>10

-----------------------------------------------------------------------------
(* Receiving packets                                                         *)

\* What a packet and its answer leave alone in the peer that receives it
Heard(r, r2) ==
    /\ r2 \in PeerType
    /\ r2.agreement = r.agreement /\ r2.ready = r.ready /\ r2.terminal = r.terminal
    /\ r2.local = r.local /\ r2.native = r.native /\ r2.deferred = r.deferred
    /\ r2.remote = r.remote /\ r2.pushed = r.pushed /\ r2.emitted = r.emitted
    /\ r2.compared = r.compared /\ r2.mismatch = r.mismatch
    /\ r2.nextSequence = r.nextSequence
    /\ DOMAIN r.remoteChecksums \subseteq DOMAIN r2.remoteChecksums
    /\ r.admittedSequence <= r2.admittedSequence
    /\ r.ackInput <= r2.ackInput /\ r.ackChecksum <= r2.ackChecksum

\* A change of what a peer heard keeps it good when what it heard is true.
LEMMA HeardGood ==
    ASSUME NEW p, NEW r, NEW r2, NEW s, Good(p, r, s), Heard(r, r2),
           RemoteInv(r2), SequenceInv(r2), LinkInv(r2, Other(p), s)
    PROVE  Good(p, r2, s) /\ Grows(r, r2)
<1>1. /\ r \in PeerType /\ r2 \in PeerType /\ LocalInv(r) /\ FrameInv(p, r) /\ CallerInv(p, r)
      /\ FirstDifference(r, s)
  BY DEF Good, PeerInv, Heard
<1>2. LocalTicks(r2) = LocalTicks(r)
  BY DEF Heard, LocalTicks
<1>3. LocalInv(r2)
  BY <1>1, <1>2 DEF Heard, LocalInv
<1>4. FrameInv(p, r2)
  <2>1. ASSUME NEW i  PROVE Composable(r2, i) = Composable(r, i)
                            /\ FrameAt(p, r2, i) = FrameAt(p, r, i)
    BY DEF Heard, Composable, FrameAt
  <2>2. QED
    BY <1>1, <2>1 DEF Heard, FrameInv
<1>5. CallerInv(p, r2)
  BY <1>1 DEF Heard, CallerInv
<1>6. FirstDifference(r2, s)
  BY <1>1 DEF Heard, FirstDifference
<1>7. Grows(r, r2)
  <2>1. /\ r.emitted <= r2.emitted /\ r.nextSequence <= r2.nextSequence
        /\ Len(r.pushed) <= Len(r2.pushed)
    BY <1>1, PeerFields DEF Heard
  <2>2. QED
    BY <2>1 DEF Heard, Grows
<1>8. QED
  BY <1>1, <1>3, <1>4, <1>5, <1>6, <1>7 DEF Good, PeerInv

\* A peer admits the packet it has applied, and goes on or answers.
LEMMA AdmittedInv ==
    ASSUME IInv, NEW p \in Peer, NEW r, NEW left, Remains(p, left),
           Good(p, r, peer[Other(p)]), QuietInv(r), r.ready, Grows(peer[p], r),
           Admitted(p, r, left)
    PROVE  KeptBy(p)
<1> DEFINE s == peer[Other(p)]
           done == [r EXCEPT !.admittedSequence = Admission(r), !.staged = NotStaged]
           answer == [done EXCEPT !.receiving = r.changed]
<1>1. /\ r \in PeerType /\ peer[p] \in PeerType /\ RemoteInv(r) /\ SequenceInv(r)
      /\ LinkInv(r, Other(p), s) /\ setup \in DOMAIN Setups
  BY Before DEF Good, PeerInv
<1>2. /\ Admission(r) \in Int /\ r.admittedSequence <= Admission(r)
      /\ Admission(r) < r.expectedSequence
  <2>1. r.admittedSequence \in Int /\ r.expectedSequence \in Nat
        /\ r.admittedSequence < r.expectedSequence
    BY <1>1, PeerFields DEF SequenceInv
  <2>2. QED
    BY <2>1 DEF Admission
<1>3. NotStaged \in Rows /\ r.changed \in BOOLEAN
  <2>1. NotStaged \in [{-1} -> Pad \cup {NeutralPad}] /\ {-1} \in SUBSET Int
    BY DEF NotStaged
  <2>2. NotStaged \in Rows
    BY <2>1 DEF Rows
  <2>3. QED
    BY <1>1, <2>2 DEF PeerType
<1>4. ASSUME NEW r2, NEW receiving \in BOOLEAN, receiving => r.ready,
             r2 = [done EXCEPT !.receiving = receiving]
      PROVE  /\ Good(p, r2, s) /\ Grows(peer[p], r2) /\ QuietInv(r2) /\ r2.ready
  <2>1. r2 = [r EXCEPT !.admittedSequence = Admission(r), !.staged = NotStaged,
                       !.receiving = receiving]
    BY <1>1, <1>4 DEF PeerType
  <2>2. /\ r2 \in PeerType
        /\ r2.agreement = r.agreement /\ r2.ready = r.ready /\ r2.terminal = r.terminal
        /\ r2.local = r.local /\ r2.native = r.native /\ r2.deferred = r.deferred
        /\ r2.remote = r.remote /\ r2.staged = NotStaged
        /\ r2.remoteChecksums = r.remoteChecksums
        /\ r2.ackInput = r.ackInput /\ r2.ackChecksum = r.ackChecksum
        /\ r2.expectedSequence = r.expectedSequence /\ r2.admittedSequence = Admission(r)
        /\ r2.pending = r.pending /\ r2.receiving = receiving
        /\ r2.pushed = r.pushed /\ r2.emitted = r.emitted
        /\ r2.compared = r.compared /\ r2.mismatch = r.mismatch
        /\ r2.nextSequence = r.nextSequence
    BY <1>1, <1>2, <1>3, <2>1 DEF PeerType
  <2>3. Heard(r, r2)
    <3>1. r.ackInput <= r2.ackInput /\ r.ackChecksum <= r2.ackChecksum
      BY <1>1, <2>2, PeerFields
    <3>2. QED
      BY <1>2, <2>2, <3>1 DEF Heard
  <2>4. RemoteInv(r2)
    BY <1>1, <2>2 DEF RemoteInv
  <2>5. SequenceInv(r2)
    <3>1. LocalTicks(r2) = LocalTicks(r)
      BY <2>2 DEF LocalTicks
    <3>2. QED
      BY <1>1, <1>2, <1>4, <2>2, <3>1 DEF SequenceInv
  <2>6. LinkInv(r2, Other(p), s)
    BY <1>1, <2>2 DEF LinkInv
  <2>7. Good(p, r2, s) /\ Grows(r, r2)
    BY <2>3, <2>4, <2>5, <2>6, HeardGood
  <2>8. Grows(peer[p], r2)
    BY <1>1, <2>2, <2>7, GrowsTrans
  <2>9. QED
    BY <2>2, <2>7, <2>8 DEF QuietInv
<1>5. CASE Becomes(p, done) /\ Leaves(p, left)
  <2>1. done = [done EXCEPT !.receiving = r.receiving]
    BY <1>1, <1>2, <1>3 DEF PeerType
  <2>2. r.receiving \in BOOLEAN
    BY <1>1, PeerFields
  <2> HIDE DEF done
  <2>3. Good(p, done, s) /\ Grows(peer[p], done) /\ QuietInv(done)
    BY <1>4, <2>1, <2>2
  <2>4. Stepped(p, done, left)
    BY <1>5 DEF Stepped
  <2>5. QED
    BY <2>3, <2>4, StepInv
<1>6. CASE PumpThenOwe(p, answer, 0, left)
  <2>1. Good(p, answer, s) /\ Grows(peer[p], answer) /\ QuietInv(answer) /\ answer.ready
    BY <1>3, <1>4
  <2> HIDE DEF answer
  <2>2. 0 \in Int
    OBVIOUS
  <2>3. QED
    BY <1>6, <2>1, <2>2, PumpThenOweInv
<1>7. QED
  BY <1>5, <1>6 DEF Admitted

\* The packet next in sequence leaves the reorder window
Popped(r, m) ==
    [r EXCEPT !.expectedSequence = @ + 1,
              !.pending = [k \in DOMAIN @ \ {m.sequence} |-> @[k]],
              !.receiving = TRUE]

\* What it acknowledges and the records it brings
Merged(r, m, fresh) ==
    [Popped(r, m) EXCEPT
        !.ackInput = Max({@, m.ackInput}),
        !.ackChecksum = Max({@, m.ackChecksum}),
        !.changed = @ \/ Answered(r, m, fresh),
        !.remoteChecksums = [t \in DOMAIN r.remoteChecksums \cup DOMAIN m.checksums |->
            IF t \in DOMAIN r.remoteChecksums THEN r.remoteChecksums[t] ELSE m.checksums[t]]]

\* To take the next packet keeps a peer good,
LEMMA PoppedGood ==
    ASSUME NEW p \in Peer, NEW r, NEW s, Good(p, r, s), s \in PeerType, r.ready,
           NEW m \in Message, m.type = "state", MessageInv(m, Other(p), s),
           m.sequence = r.expectedSequence
    PROVE  /\ Good(p, Popped(r, m), s) /\ Grows(r, Popped(r, m))
           /\ Popped(r, m).terminal = r.terminal /\ Popped(r, m).mismatch = r.mismatch
           /\ Popped(r, m).ackInput = r.ackInput /\ Popped(r, m).ackChecksum = r.ackChecksum
           /\ Popped(r, m).remoteChecksums = r.remoteChecksums
           /\ Popped(r, m).changed = r.changed /\ Popped(r, m).receiving
           /\ Popped(r, m).ready /\ Popped(r, m).local = r.local
           /\ Popped(r, m).emitted = r.emitted /\ Popped(r, m).staged = r.staged
           /\ Popped(r, m).remote = r.remote
<1> DEFINE r2 == Popped(r, m)
           pending2 == [k \in DOMAIN r.pending \ {m.sequence} |-> r.pending[k]]
<1>1. /\ r \in PeerType /\ RemoteInv(r) /\ SequenceInv(r) /\ LinkInv(r, Other(p), s)
  BY DEF Good, PeerInv
<1>2. r.expectedSequence \in Nat /\ r.expectedSequence + 1 \in Nat /\ r.admittedSequence \in Int
  BY <1>1, PeerFields
<1>3. /\ DOMAIN pending2 \subseteq DOMAIN r.pending
      /\ \A k \in DOMAIN pending2 : pending2[k] = r.pending[k]
  OBVIOUS
<1>4. pending2 \in Held
  <2>1. pending2 \in [DOMAIN pending2 -> StatePacket] /\ DOMAIN pending2 \in SUBSET Nat
    BY <1>1, <1>3, PendingPackets
  <2> HIDE DEF pending2
  <2>2. QED
    BY <2>1 DEF Held
<1>5. r2 = [r EXCEPT !.expectedSequence = r.expectedSequence + 1, !.pending = pending2,
                     !.receiving = TRUE]
  BY <1>1 DEF Popped, PeerType
<1> HIDE DEF pending2, r2
<1>6. /\ r2 \in PeerType
      /\ r2.agreement = r.agreement /\ r2.ready = r.ready /\ r2.terminal = r.terminal
      /\ r2.local = r.local /\ r2.native = r.native /\ r2.deferred = r.deferred
      /\ r2.remote = r.remote /\ r2.staged = r.staged /\ r2.remoteChecksums = r.remoteChecksums
      /\ r2.ackInput = r.ackInput /\ r2.ackChecksum = r.ackChecksum
      /\ r2.expectedSequence = r.expectedSequence + 1
      /\ r2.admittedSequence = r.admittedSequence
      /\ r2.pending = pending2 /\ r2.receiving = TRUE /\ r2.changed = r.changed
      /\ r2.pushed = r.pushed /\ r2.emitted = r.emitted
      /\ r2.compared = r.compared /\ r2.mismatch = r.mismatch
      /\ r2.nextSequence = r.nextSequence
  BY <1>1, <1>2, <1>4, <1>5 DEF PeerType
<1>7. Heard(r, r2)
  <2>1. /\ r.ackInput <= r2.ackInput /\ r.ackChecksum <= r2.ackChecksum
        /\ r.admittedSequence <= r2.admittedSequence
    BY <1>1, <1>6, PeerFields
  <2>2. QED
    BY <1>6, <2>1 DEF Heard
<1>8. RemoteInv(r2)
  BY <1>1, <1>6 DEF RemoteInv
<1>9. SequenceInv(r2)
  <2>1. LocalTicks(r2) = LocalTicks(r)
    BY <1>6 DEF LocalTicks
  <2>2. r2.admittedSequence < r2.expectedSequence
    BY <1>1, <1>2, <1>6 DEF SequenceInv
  <2>3. \A k \in DOMAIN pending2 : pending2[k].sequence = k
    BY <1>1, <1>3 DEF SequenceInv
  <2>4. QED
    BY <1>1, <1>6, <2>1, <2>2, <2>3 DEF SequenceInv
<1>10. LinkInv(r2, Other(p), s)
  <2>1. r2.expectedSequence <= s.nextSequence
    <3>1. m.sequence < s.nextSequence
      BY DEF MessageInv
    <3>2. s.nextSequence \in Nat
      BY PeerFields
    <3>3. QED
      BY <1>2, <1>6, <3>1, <3>2
  <2>2. \A k \in DOMAIN pending2 : MessageInv(pending2[k], Other(p), s)
    BY <1>1, <1>3 DEF LinkInv
  <2>3. QED
    BY <1>1, <1>6, <2>1, <2>2 DEF LinkInv
<1>11. Good(p, r2, s) /\ Grows(r, r2)
  BY <1>7, <1>8, <1>9, <1>10, HeardGood
<1>12. QED
  BY <1>6, <1>11 DEF r2

\* and so does what a well-formed packet acknowledges and its records,
LEMMA MergedGood ==
    ASSUME setup \in DOMAIN Setups, NEW p \in Peer, NEW r, NEW s, Good(p, r, s),
           s \in PeerType, r.ready,
           NEW m \in Message, m.type = "state", MessageInv(m, Other(p), s),
           m.sequence = r.expectedSequence, ~Malformed(r, m), NEW fresh
    PROVE  /\ Good(p, Merged(r, m, fresh), s) /\ Grows(r, Merged(r, m, fresh))
           /\ Merged(r, m, fresh).terminal = r.terminal
           /\ Merged(r, m, fresh).mismatch = r.mismatch
           /\ Merged(r, m, fresh).receiving /\ Merged(r, m, fresh).ready
           /\ Merged(r, m, fresh).staged = r.staged
<1> DEFINE q == Popped(r, m)
           r2 == Merged(r, m, fresh)
           input2 == Max({q.ackInput, m.ackInput})
           checksum2 == Max({q.ackChecksum, m.ackChecksum})
           changed2 == q.changed \/ Answered(r, m, fresh)
           records2 == [t \in DOMAIN r.remoteChecksums \cup DOMAIN m.checksums |->
               IF t \in DOMAIN r.remoteChecksums THEN r.remoteChecksums[t] ELSE m.checksums[t]]
<1>1. /\ Good(p, q, s) /\ Grows(r, q) /\ q.terminal = r.terminal /\ q.mismatch = r.mismatch
      /\ q.ackInput = r.ackInput /\ q.ackChecksum = r.ackChecksum
      /\ q.remoteChecksums = r.remoteChecksums
      /\ q.changed = r.changed /\ q.receiving /\ q.ready /\ q.local = r.local
      /\ q.emitted = r.emitted /\ q.staged = r.staged
  BY PoppedGood
<1>2. /\ q \in PeerType /\ RemoteInv(q) /\ SequenceInv(q) /\ LinkInv(q, Other(p), s)
      /\ r \in PeerType
  BY <1>1 DEF Good, PeerInv
<1>3. /\ q.ackInput \in Int /\ q.ackChecksum \in Int /\ q.emitted \in Nat
      /\ m.ackInput \in Int /\ m.ackChecksum \in Int /\ q.admittedSequence \in Int
      /\ q.remoteChecksums \in Records /\ m.checksums \in Records
  BY <1>2, PeerFields, PacketFields
<1>4. LocalTicks(q) = LocalTicks(r) /\ Contiguous(LocalTicks(q)) \in Int
  <2>1. LocalTicks(q) = LocalTicks(r)
    BY <1>1 DEF LocalTicks
  <2>2. InputTicks \in Int
    BY Parameters
  <2>3. LocalTicks(q) \in SUBSET Nat /\ \A t \in LocalTicks(q) : t <= InputTicks
    <3>1. \A i \in DOMAIN q.local : q.local[i] \in Row
      BY <1>2, PeerFields
    <3>2. LocalTicks(q) \in SUBSET InputTick
      BY <3>1 DEF LocalTicks, ToSet, Row
    <3>3. QED
      BY <3>2, Parameters DEF InputTick
  <2>4. QED
    BY <2>1, <2>2, <2>3, ContiguousStart
<1>5. m.ackInput <= Contiguous(LocalTicks(r)) /\ m.ackChecksum <= r.emitted - 1
  <2>1. r.emitted - 1 \in Int /\ Contiguous(LocalTicks(r)) \in Int
    BY <1>1, <1>3, <1>4
  <2>2. ~(m.ackInput > Contiguous(LocalTicks(r))) /\ ~(m.ackChecksum > r.emitted - 1)
    BY DEF Malformed
  <2>3. QED
    BY <1>3, <2>1, <2>2
<1> HIDE DEF q
<1>6. /\ input2 = (IF q.ackInput <= m.ackInput THEN m.ackInput ELSE q.ackInput)
      /\ checksum2 = (IF q.ackChecksum <= m.ackChecksum THEN m.ackChecksum ELSE q.ackChecksum)
  BY <1>3, MaxPair
<1>7. changed2 \in BOOLEAN
  BY <1>2 DEF PeerType, Answered
<1>8. /\ DOMAIN records2 = DOMAIN q.remoteChecksums \cup DOMAIN m.checksums
      /\ \A t \in DOMAIN q.remoteChecksums : records2[t] = q.remoteChecksums[t]
      /\ \A t \in DOMAIN m.checksums \ DOMAIN q.remoteChecksums : records2[t] = m.checksums[t]
  BY <1>1
<1> HIDE DEF input2, checksum2, changed2, records2
<1>9. records2 \in Records
  <2>1. PICK D \in SUBSET Int : q.remoteChecksums \in [D -> Frame]
    BY <1>3 DEF Records
  <2>2. PICK E \in SUBSET Int : m.checksums \in [E -> Frame]
    BY <1>3 DEF Records
  <2>3. DOMAIN records2 = D \cup E /\ D \cup E \in SUBSET Int
    BY <1>8, <2>1, <2>2
  <2>4. ASSUME NEW t \in D \cup E  PROVE records2[t] \in Frame
    BY <1>8, <2>1, <2>2
  <2>5. records2 = [t \in DOMAIN records2 |-> records2[t]]
    BY DEF records2
  <2>6. records2 \in [D \cup E -> Frame]
    BY <2>3, <2>4, <2>5
  <2>7. QED
    BY <2>3, <2>6 DEF Records
<1>10. r2 = [q EXCEPT !.ackInput = input2, !.ackChecksum = checksum2, !.changed = changed2,
                      !.remoteChecksums = records2]
  BY <1>2 DEF Merged, PeerType, q, input2, checksum2, changed2, records2
<1>11. input2 \in Int /\ checksum2 \in Int
  BY <1>3, <1>6
<1> HIDE DEF r2
<1>12. /\ r2 \in PeerType
       /\ r2.agreement = q.agreement /\ r2.ready = q.ready /\ r2.terminal = q.terminal
       /\ r2.local = q.local /\ r2.native = q.native /\ r2.deferred = q.deferred
       /\ r2.remote = q.remote /\ r2.staged = q.staged /\ r2.remoteChecksums = records2
       /\ r2.ackInput = input2 /\ r2.ackChecksum = checksum2
       /\ r2.expectedSequence = q.expectedSequence
       /\ r2.admittedSequence = q.admittedSequence
       /\ r2.pending = q.pending /\ r2.receiving = q.receiving
       /\ r2.pushed = q.pushed /\ r2.emitted = q.emitted
       /\ r2.compared = q.compared /\ r2.mismatch = q.mismatch
       /\ r2.nextSequence = q.nextSequence
  BY <1>2, <1>7, <1>9, <1>10, <1>11, ZenonT(60) DEF PeerType
<1>13. Heard(q, r2)
  <2>1. /\ q.ackInput <= r2.ackInput /\ q.ackChecksum <= r2.ackChecksum
        /\ q.admittedSequence <= r2.admittedSequence
    BY <1>3, <1>6, <1>12
  <2>2. QED
    BY <1>8, <1>12, <2>1 DEF Heard
<1>14. /\ -1 <= m.ackInput /\ 0..m.ackInput \subseteq DOMAIN s.remote
       /\ -1 <= m.ackChecksum /\ 0..m.ackChecksum \subseteq DOMAIN s.remoteChecksums
       /\ \A t \in DOMAIN m.checksums :
             t \in Nat /\ t < s.emitted /\ m.checksums[t] = s.pushed[t + 1]
  BY DEF MessageInv
<1>15. RemoteInv(r2)
  BY <1>2, <1>8, <1>12, <1>14 DEF RemoteInv
<1>16. SequenceInv(r2)
  <2>1. LocalTicks(r2) = LocalTicks(q)
    BY <1>12 DEF LocalTicks
  <2>2. -1 <= r2.ackInput /\ r2.ackInput <= Contiguous(LocalTicks(q))
    <3>1. /\ -1 <= q.ackInput /\ q.ackInput <= Contiguous(LocalTicks(q))
      BY <1>2 DEF SequenceInv
    <3>2. m.ackInput <= Contiguous(LocalTicks(q))
      BY <1>4, <1>5
    <3>3. QED
      BY <1>6, <1>12, <1>14, <3>1, <3>2
  <2>3. -1 <= r2.ackChecksum /\ r2.ackChecksum < r2.emitted
    <3>1. -1 <= q.ackChecksum /\ q.ackChecksum < q.emitted
      BY <1>2 DEF SequenceInv
    <3>2. m.ackChecksum < q.emitted
      BY <1>1, <1>3, <1>5
    <3>3. QED
      BY <1>6, <1>12, <1>14, <3>1, <3>2
  <2>4. QED
    BY <1>2, <1>12, <2>1, <2>2, <2>3 DEF SequenceInv
<1>17. LinkInv(r2, Other(p), s)
  <2>1. 0..r2.ackInput \subseteq DOMAIN s.remote
    BY <1>2, <1>6, <1>12, <1>14 DEF LinkInv
  <2>2. 0..r2.ackChecksum \subseteq DOMAIN s.remoteChecksums
    BY <1>2, <1>6, <1>12, <1>14 DEF LinkInv
  <2>3. ASSUME NEW t \in DOMAIN records2
        PROVE  t < s.emitted /\ records2[t] = s.pushed[t + 1]
    BY <1>2, <1>8, <1>14 DEF LinkInv
  <2>4. QED
    BY <1>2, <1>12, <2>1, <2>2, <2>3 DEF LinkInv
<1>18. Good(p, r2, s) /\ Grows(q, r2)
  BY <1>1, <1>13, <1>15, <1>16, <1>17, HeardGood
<1>19. Grows(r, r2)
  BY <1>1, <1>2, <1>12, <1>18, GrowsTrans
<1>20. QED
  BY <1>1, <1>12, <1>18, <1>19 DEF r2

\* New rows wait for the observer: each of them is one that the sender has.
WithStaged(r, fresh) ==
    [r EXCEPT !.staged = [t \in {e.tick : e \in fresh} |-> (CHOOSE e \in fresh : e.tick = t).pad]]

\* Rows that the sender of fields s published
Published(fresh, s) == fresh \subseteq Row /\ fresh \subseteq ToSet(s.local)

\* and so do its new rows.
LEMMA StagedGood ==
    ASSUME setup \in DOMAIN Setups, NEW p \in Peer, NEW r, NEW s, Good(p, r, s),
           r.ready, r.receiving, NEW fresh, Published(fresh, s)
    PROVE  /\ Good(p, WithStaged(r, fresh), s) /\ Grows(r, WithStaged(r, fresh))
           /\ WithStaged(r, fresh).terminal = r.terminal
           /\ WithStaged(r, fresh).mismatch = r.mismatch
<1> DEFINE staged2 == [t \in {e.tick : e \in fresh} |-> (CHOOSE e \in fresh : e.tick = t).pad]
           r2 == [r EXCEPT !.staged = staged2]
<1>1. /\ r \in PeerType /\ RemoteInv(r) /\ SequenceInv(r) /\ LinkInv(r, Other(p), s)
  BY DEF Good, PeerInv
<1>2. DOMAIN staged2 = {e.tick : e \in fresh}
  OBVIOUS
<1>3. ASSUME NEW t \in DOMAIN staged2
      PROVE  t \in InputTick /\ staged2[t] \in Pad /\ Entry(t, staged2[t]) \in ToSet(s.local)
  <2> DEFINE e == CHOOSE e \in fresh : e.tick = t
  <2>1. \E x \in fresh : x.tick = t
    BY <1>3
  <2>2. e \in fresh /\ e.tick = t
    BY <2>1
  <2>3. staged2[t] = e.pad
    BY <1>3
  <2> HIDE DEF e, staged2
  <2>4. e \in Row /\ e \in ToSet(s.local)
    BY <2>2 DEF Published
  <2>5. e = Entry(e.tick, e.pad)
    BY <2>4 DEF Row, Entry
  <2>6. QED
    BY <2>2, <2>3, <2>4, <2>5 DEF Row
<1> HIDE DEF staged2
<1>4. DOMAIN staged2 \subseteq InputTick /\ staged2 \in Rows
  <2>1. DOMAIN staged2 \in SUBSET InputTick
    BY <1>3
  <2>2. InputTick \in SUBSET Int
    BY Parameters DEF InputTick
  <2>3. staged2 = [t \in DOMAIN staged2 |-> staged2[t]]
    BY DEF staged2
  <2>4. staged2 \in [DOMAIN staged2 -> Pad \cup {NeutralPad}]
    BY <1>3, <2>3
  <2>5. QED
    BY <2>1, <2>2, <2>4 DEF Rows
<1>5. /\ r2 \in PeerType
      /\ r2.agreement = r.agreement /\ r2.ready = r.ready /\ r2.terminal = r.terminal
      /\ r2.local = r.local /\ r2.native = r.native /\ r2.deferred = r.deferred
      /\ r2.remote = r.remote /\ r2.staged = staged2
      /\ r2.remoteChecksums = r.remoteChecksums
      /\ r2.ackInput = r.ackInput /\ r2.ackChecksum = r.ackChecksum
      /\ r2.expectedSequence = r.expectedSequence
      /\ r2.admittedSequence = r.admittedSequence
      /\ r2.pending = r.pending /\ r2.receiving = r.receiving
      /\ r2.pushed = r.pushed /\ r2.emitted = r.emitted
      /\ r2.compared = r.compared /\ r2.mismatch = r.mismatch
      /\ r2.nextSequence = r.nextSequence
  BY <1>1, <1>4 DEF PeerType
<1> HIDE DEF r2
<1>6. Heard(r, r2)
  <2>1. /\ r.ackInput <= r2.ackInput /\ r.ackChecksum <= r2.ackChecksum
        /\ r.admittedSequence <= r2.admittedSequence
    BY <1>1, <1>5, PeerFields
  <2>2. QED
    BY <1>5, <2>1 DEF Heard
<1>7. RemoteInv(r2)
  BY <1>1, <1>4, <1>5 DEF RemoteInv
<1>8. SequenceInv(r2)
  <2>1. LocalTicks(r2) = LocalTicks(r)
    BY <1>5 DEF LocalTicks
  <2>2. QED
    BY <1>1, <1>5, <2>1 DEF SequenceInv
<1>9. LinkInv(r2, Other(p), s)
  BY <1>1, <1>3, <1>5 DEF LinkInv
<1>10. Good(p, r2, s) /\ Grows(r, r2)
  BY <1>6, <1>7, <1>8, <1>9, HeardGood
<1>11. QED
  BY <1>5, <1>10 DEF r2, staged2, WithStaged

\* The application of the next packet keeps the invariant.
LEMMA ApplyInv ==
    ASSUME IInv, NEW p \in Peer, NEW r, NEW left, Remains(p, left),
           Good(p, r, peer[Other(p)]), QuietInv(r), r.terminal = "none", r.ready,
           Grows(peer[p], r), NEW m \in Message, m.type = "state",
           MessageInv(m, Other(p), peer[Other(p)]), m.sequence = r.expectedSequence,
           ApplyState(p, r, m, left)
    PROVE  KeptBy(p)
<1> DEFINE s == peer[Other(p)]
           fresh == {e \in m.inputs : e.tick \notin DOMAIN r.remote}
           popped == Popped(r, m)
           merged == Merged(r, m, fresh)
           applied == Compared(merged)
           r2 == WithStaged(applied, fresh)
<1>1. /\ setup \in DOMAIN Setups /\ peer[p] \in PeerType /\ s \in PeerType /\ Engine(s)
      /\ Good(p, r, s) /\ MessageInv(m, Other(p), s)
  BY Before DEF Engine
<1>2. \/ Malformed(r, m) /\ Fails(p, popped, "protocol", left)
      \/ /\ ~Malformed(r, m)
         /\ \/ Fails(p, applied, "desync", left)
            \/ /\ applied.mismatch = -1
               /\ Admitted(p, applied, left) \/ (Becomes(p, r2) /\ Leaves(p, left))
  BY DEF ApplyState, Popped, Merged, WithStaged
<1>3. /\ Good(p, popped, s) /\ Grows(r, popped) /\ popped \in PeerType /\ r \in PeerType
  <2> HIDE DEF s
  <2>1. Good(p, popped, s) /\ Grows(r, popped)
    BY <1>1, PoppedGood
  <2> HIDE DEF popped
  <2>2. QED
    BY <2>1 DEF Good, PeerInv
<1>4. CASE Malformed(r, m) /\ Fails(p, popped, "protocol", left)
  <2> HIDE DEF popped
  <2>1. Grows(peer[p], popped)
    BY <1>1, <1>3, GrowsTrans
  <2>2. QED
    BY <1>3, <1>4, <2>1, FailsInv
<1>5. CASE ~Malformed(r, m) /\ \/ Fails(p, applied, "desync", left)
                               \/ /\ applied.mismatch = -1
                                  /\ \/ Admitted(p, applied, left)
                                     \/ (Becomes(p, r2) /\ Leaves(p, left))
  <2>1. Published(fresh, s)
    BY PacketFields DEF MessageInv, Published
  <2> HIDE DEF fresh
  <2>2. /\ Good(p, merged, s) /\ Grows(r, merged) /\ merged.terminal = r.terminal
        /\ merged.mismatch = r.mismatch /\ merged.receiving /\ merged.ready
    <3> HIDE DEF s
    <3> QED  BY <1>1, <1>5, MergedGood
  <2>3. merged.mismatch = -1 /\ merged \in PeerType
    BY <2>2 DEF QuietInv, Good, PeerInv
  <2> HIDE DEF merged
  <2>4. /\ Good(p, applied, s) /\ Grows(merged, applied)
        /\ \E c \in Nat, n \in Int : applied = [merged EXCEPT !.compared = c, !.mismatch = n]
    <3> HIDE DEF s
    <3> QED  BY <1>1, <2>2, <2>3, ComparedGood
  <2>5. applied.receiving /\ applied.ready /\ applied.terminal = "none"
    <3>1. PICK c \in Nat, n \in Int : applied = [merged EXCEPT !.compared = c, !.mismatch = n]
      BY <2>4
    <3> HIDE DEF applied
    <3>2. /\ applied.receiving = merged.receiving /\ applied.ready = merged.ready
          /\ applied.terminal = merged.terminal
      BY <2>3, <3>1 DEF PeerType
    <3>3. QED
      BY <2>2, <3>2
  <2>6. applied \in PeerType
    BY <2>4 DEF Good, PeerInv
  <2> HIDE DEF applied
  <2>7. Grows(peer[p], applied)
    <3>1. Grows(r, applied)
      BY <1>3, <2>2, <2>3, <2>4, <2>6, GrowsTrans
    <3>2. QED
      BY <1>1, <1>3, <2>6, <3>1, GrowsTrans
  <2>8. CASE Fails(p, applied, "desync", left)
    BY <2>4, <2>7, <2>8, FailsInv
  <2>9. CASE applied.mismatch = -1 /\ Admitted(p, applied, left)
    <3>1. QuietInv(applied)
      BY <2>9 DEF QuietInv
    <3>2. QED
      BY <2>4, <2>5, <2>7, <2>9, <3>1, AdmittedInv
  <2>10. CASE applied.mismatch = -1 /\ Becomes(p, r2) /\ Leaves(p, left)
    <3>1. /\ Good(p, r2, s) /\ Grows(applied, r2) /\ r2.terminal = applied.terminal
          /\ r2.mismatch = applied.mismatch
      <4> HIDE DEF s
      <4>1. setup \in DOMAIN Setups /\ Good(p, applied, s) /\ applied.ready /\ applied.receiving
        BY <1>1, <2>4, <2>5
      <4>2. QED
        BY <2>1, <4>1, StagedGood
    <3> HIDE DEF r2
    <3>2. r2 \in PeerType
      BY <3>1 DEF Good, PeerInv
    <3>3. Grows(peer[p], r2)
      BY <1>1, <2>6, <2>7, <3>1, <3>2, GrowsTrans
    <3>4. QuietInv(r2) /\ Stepped(p, r2, left)
      BY <2>10, <3>1 DEF QuietInv, Stepped
    <3>5. QED
      BY <3>1, <3>3, <3>4, StepInv
  <2>11. QED
    BY <1>5, <2>8, <2>9, <2>10
<1>6. QED
  BY <1>2, <1>4, <1>5

\* A receive call has nothing to answer yet; the packets that arrived early
Waiting(r, pending) == [r EXCEPT !.changed = FALSE, !.pending = pending]

\* A reorder window of true packets keeps a peer good.
LEMMA WaitingGood ==
    ASSUME NEW p \in Peer, NEW r, NEW s, Good(p, r, s), NEW pending2 \in Held,
           \A k \in DOMAIN pending2 :
              pending2[k].sequence = k /\ MessageInv(pending2[k], Other(p), s)
    PROVE  /\ Good(p, Waiting(r, pending2), s) /\ Grows(r, Waiting(r, pending2))
           /\ Waiting(r, pending2).terminal = r.terminal
           /\ Waiting(r, pending2).mismatch = r.mismatch
           /\ Waiting(r, pending2).ready = r.ready
           /\ Waiting(r, pending2).expectedSequence = r.expectedSequence
<1> DEFINE r2 == Waiting(r, pending2)
<1>1. /\ r \in PeerType /\ RemoteInv(r) /\ SequenceInv(r) /\ LinkInv(r, Other(p), s)
  BY DEF Good, PeerInv
<1>2. /\ r2 \in PeerType
      /\ r2.agreement = r.agreement /\ r2.ready = r.ready /\ r2.terminal = r.terminal
      /\ r2.local = r.local /\ r2.native = r.native /\ r2.deferred = r.deferred
      /\ r2.remote = r.remote /\ r2.staged = r.staged
      /\ r2.remoteChecksums = r.remoteChecksums
      /\ r2.ackInput = r.ackInput /\ r2.ackChecksum = r.ackChecksum
      /\ r2.expectedSequence = r.expectedSequence
      /\ r2.admittedSequence = r.admittedSequence
      /\ r2.pending = pending2 /\ r2.receiving = r.receiving
      /\ r2.pushed = r.pushed /\ r2.emitted = r.emitted
      /\ r2.compared = r.compared /\ r2.mismatch = r.mismatch
      /\ r2.nextSequence = r.nextSequence
  BY <1>1 DEF PeerType, Waiting
<1> HIDE DEF r2
<1>3. Heard(r, r2)
  <2>1. /\ r.ackInput <= r2.ackInput /\ r.ackChecksum <= r2.ackChecksum
        /\ r.admittedSequence <= r2.admittedSequence
    BY <1>1, <1>2, PeerFields
  <2>2. QED
    BY <1>2, <2>1 DEF Heard
<1>4. RemoteInv(r2)
  BY <1>1, <1>2 DEF RemoteInv
<1>5. SequenceInv(r2)
  <2>1. LocalTicks(r2) = LocalTicks(r)
    BY <1>2 DEF LocalTicks
  <2>2. QED
    BY <1>1, <1>2, <2>1 DEF SequenceInv
<1>6. LinkInv(r2, Other(p), s)
  BY <1>1, <1>2 DEF LinkInv
<1>7. Good(p, r2, s) /\ Grows(r, r2)
  BY <1>3, <1>4, <1>5, <1>6, HeardGood
<1>8. QED
  BY <1>2, <1>7 DEF r2

\* A packet keeps the invariant: applied, held in the window, dropped or refused.
LEMMA ReceiveStateInv ==
    ASSUME IInv, NEW p \in Peer, NEW i \in DOMAIN wire[p], ReceiveState(p, i)
    PROVE  KeptBy(p)
<1> DEFINE r == peer[p]
           s == peer[Other(p)]
           m == wire[p][i]
           r1 == [r EXCEPT !.changed = FALSE]
           pending2 == [k \in DOMAIN r.pending \cup {m.sequence} |->
                           IF k = m.sequence THEN m ELSE r.pending[k]]
           r2 == Waiting(r, pending2)
           late == r1.expectedSequence - m.sequence
<1>1. /\ setup \in DOMAIN Setups /\ r \in PeerType /\ Good(p, r, s) /\ QuietInv(r)
      /\ Grows(r, r) /\ m \in Message /\ MessageInv(m, Other(p), s)
  BY Before
<1>2. m.type = "state" /\ Deliverable(p, i) /\ r.terminal = "none"
  BY DEF ReceiveState, Listening
<1>3. Remains(p, Rest(p))
  BY <1>2, RestRemains
<1>4. /\ r.pending \in Held /\ m.sequence \in Nat /\ m \in StatePacket
      /\ r.expectedSequence \in Nat /\ SequenceInv(r) /\ LinkInv(r, Other(p), s)
  BY <1>1, <1>2, PeerFields, PacketFields DEF Good, PeerInv
<1>5. /\ Good(p, r1, s) /\ Grows(r, r1) /\ r1.terminal = r.terminal
      /\ r1.mismatch = r.mismatch /\ r1.ready = r.ready
      /\ r1.expectedSequence = r.expectedSequence
  <2>1. r1 = Waiting(r, r.pending)
    BY <1>1 DEF PeerType, Waiting
  <2>2. PICK h : h = r.pending
    OBVIOUS
  <2>3. h \in Held /\ \A k \in DOMAIN h : h[k].sequence = k /\ MessageInv(h[k], Other(p), s)
    BY <1>4, <2>2 DEF SequenceInv, LinkInv
  <2>4. LET x == Waiting(r, h)
        IN  /\ Good(p, x, s) /\ Grows(r, x) /\ x.terminal = r.terminal
            /\ x.mismatch = r.mismatch /\ x.ready = r.ready
            /\ x.expectedSequence = r.expectedSequence
    <3> HIDE DEF r, s
    <3> QED  BY <1>1, <2>3, WaitingGood
  <2>5. QED
    BY <2>1, <2>2, <2>4
<1>6. /\ Good(p, r2, s) /\ Grows(r, r2) /\ r2.terminal = r.terminal
      /\ r2.mismatch = r.mismatch
  <2>1. ASSUME NEW k \in DOMAIN pending2
        PROVE  /\ k \in Nat /\ pending2[k] \in StatePacket /\ pending2[k].sequence = k
               /\ MessageInv(pending2[k], Other(p), s)
    <3>1. CASE k = m.sequence
      BY <1>1, <1>4, <3>1
    <3>2. CASE k # m.sequence
      <4>1. k \in DOMAIN r.pending /\ pending2[k] = r.pending[k]
        BY <3>2
      <4> HIDE DEF pending2, m
      <4>2. QED
        BY <1>1, <1>4, <4>1, PendingPackets DEF SequenceInv, LinkInv
    <3>3. QED
      BY <3>1, <3>2
  <2>2. pending2 = [k \in DOMAIN pending2 |-> pending2[k]]
    OBVIOUS
  <2> HIDE DEF pending2
  <2>3. pending2 \in [DOMAIN pending2 -> StatePacket] /\ DOMAIN pending2 \in SUBSET Nat
    BY <2>1, <2>2
  <2>4. pending2 \in Held
    BY <2>3 DEF Held
  <2>5. \A k \in DOMAIN pending2 :
           pending2[k].sequence = k /\ MessageInv(pending2[k], Other(p), s)
    BY <2>1
  <2> HIDE DEF r, s
  <2>6. QED
    BY <1>1, <2>4, <2>5, WaitingGood
<1>7. r1 \in PeerType /\ r1.expectedSequence = r.expectedSequence
  BY <1>1 DEF PeerType
<1>8. CASE Fails(p, r1, "protocol", Rest(p))
  <2> HIDE DEF r1
  <2> QED  BY <1>3, <1>5, <1>8, FailsInv
<1>9. CASE UNCHANGED <<setup, peer>> /\ Leaves(p, Rest(p))
  <2>1. Becomes(p, r)
    BY <1>9 DEF Becomes, IInv
  <2>2. Stepped(p, r, Rest(p))
    BY <1>9, <2>1 DEF Stepped
  <2>3. QED
    BY <1>1, <1>3, <2>2, StepInv
<1>10. CASE r1.ready /\ late = 0 /\ ApplyState(p, r1, m, Rest(p))
  <2>1. m.sequence = r1.expectedSequence
    BY <1>4, <1>7, <1>10
  <2>2. QuietInv(r1) /\ r1.terminal = "none"
    BY <1>1, <1>2, <1>5 DEF QuietInv
  <2> HIDE DEF r1, m
  <2>3. QED
    BY <1>1, <1>2, <1>3, <1>5, <1>10, <2>1, <2>2, ApplyInv
<1>11. CASE Becomes(p, r2) /\ Leaves(p, Rest(p))
  <2> HIDE DEF r2
  <2>1. QuietInv(r2) /\ Stepped(p, r2, Rest(p))
    BY <1>1, <1>6, <1>11 DEF QuietInv, Stepped
  <2>2. QED
    BY <1>3, <1>6, <2>1, StepInv
<1>12. \/ Fails(p, r1, "protocol", Rest(p))
       \/ UNCHANGED <<setup, peer>> /\ Leaves(p, Rest(p))
       \/ r1.ready /\ late = 0 /\ ApplyState(p, r1, m, Rest(p))
       \/ Becomes(p, [r1 EXCEPT !.pending = [k \in DOMAIN @ \cup {m.sequence} |->
                                              IF k = m.sequence THEN m ELSE @[k]]])
             /\ Leaves(p, Rest(p))
  BY DEF ReceiveState
<1>13. [r1 EXCEPT !.pending = [k \in DOMAIN @ \cup {m.sequence} |->
                                  IF k = m.sequence THEN m ELSE @[k]]] = r2
  BY <1>1 DEF PeerType, Waiting
<1> HIDE DEF r1, r2, late
<1>14. QED
  BY <1>8, <1>9, <1>10, <1>11, <1>12, <1>13

\* So does one that had arrived early.
LEMMA ApplyPendingInv ==
    ASSUME IInv, NEW p \in Peer, ApplyPending(p)
    PROVE  KeptBy(p)
<1> DEFINE r == peer[p]
           s == peer[Other(p)]
           m == r.pending[r.expectedSequence]
<1>1. /\ r \in PeerType /\ Good(p, r, s) /\ QuietInv(r) /\ Grows(r, r) /\ Remains(p, wire[p])
  BY Before
<1>2. /\ r.terminal = "none" /\ r.receiving /\ r.expectedSequence \in DOMAIN r.pending
      /\ ApplyState(p, r, m, wire[p])
  BY DEF ApplyPending
<1>3. SequenceInv(r) /\ LinkInv(r, Other(p), s)
  BY <1>1 DEF Good, PeerInv
<1>4. /\ m \in Message /\ m.type = "state" /\ m.sequence = r.expectedSequence
      /\ MessageInv(m, Other(p), s) /\ r.ready
  BY <1>1, <1>2, <1>3, PendingPackets DEF SequenceInv, LinkInv
<1> HIDE DEF m
<1>5. QED
  BY <1>1, <1>2, <1>4, ApplyInv

\* The rows that the observer accepted join those of the other player
WithRemote(r) ==
    [r EXCEPT !.remote = [t \in DOMAIN @ \cup DOMAIN r.staged |->
                             IF t \in DOMAIN @ THEN @[t] ELSE r.staged[t]]]

\* Rows that the observer accepted are rows of the other player.
LEMMA CommittedGood ==
    ASSUME NEW p \in Peer, NEW r, NEW s, Good(p, r, s), r.staged # NotStaged
    PROVE  /\ Good(p, WithRemote(r), s) /\ Grows(r, WithRemote(r))
           /\ WithRemote(r).terminal = r.terminal /\ WithRemote(r).mismatch = r.mismatch
           /\ WithRemote(r).ready
<1> DEFINE r2 == WithRemote(r)
           remote2 == [t \in DOMAIN r.remote \cup DOMAIN r.staged |->
                          IF t \in DOMAIN r.remote THEN r.remote[t] ELSE r.staged[t]]
<1>1. /\ r \in PeerType /\ LocalInv(r) /\ RemoteInv(r) /\ SequenceInv(r) /\ FrameInv(p, r)
      /\ CallerInv(p, r) /\ LinkInv(r, Other(p), s) /\ FirstDifference(r, s)
  BY DEF Good, PeerInv
<1>2. /\ DOMAIN remote2 = DOMAIN r.remote \cup DOMAIN r.staged
      /\ \A t \in DOMAIN r.remote : remote2[t] = r.remote[t]
      /\ \A t \in DOMAIN r.staged \ DOMAIN r.remote : remote2[t] = r.staged[t]
      /\ remote2 = [t \in DOMAIN remote2 |-> remote2[t]]
  OBVIOUS
<1>3. r2 = [r EXCEPT !.remote = remote2]
  BY <1>1 DEF WithRemote, PeerType
<1> HIDE DEF remote2, r2
<1>4. remote2 \in Rows
  <2>1. PICK D \in SUBSET Int : r.remote \in [D -> Pad \cup {NeutralPad}]
    BY <1>1, PeerFields DEF Rows
  <2>2. PICK E \in SUBSET Int : r.staged \in [E -> Pad \cup {NeutralPad}]
    BY <1>1, PeerFields DEF Rows
  <2>3. DOMAIN remote2 = D \cup E /\ D \cup E \in SUBSET Int
    BY <1>2, <2>1, <2>2
  <2>4. ASSUME NEW t \in D \cup E  PROVE remote2[t] \in Pad \cup {NeutralPad}
    BY <1>2, <2>1, <2>2
  <2>5. remote2 \in [D \cup E -> Pad \cup {NeutralPad}]
    BY <1>2, <2>3, <2>4
  <2>6. QED
    BY <2>3, <2>5 DEF Rows
<1>5. /\ r2 \in PeerType
      /\ r2.agreement = r.agreement /\ r2.ready = r.ready /\ r2.terminal = r.terminal
      /\ r2.local = r.local /\ r2.native = r.native /\ r2.deferred = r.deferred
      /\ r2.remote = remote2 /\ r2.staged = r.staged
      /\ r2.remoteChecksums = r.remoteChecksums
      /\ r2.ackInput = r.ackInput /\ r2.ackChecksum = r.ackChecksum
      /\ r2.expectedSequence = r.expectedSequence
      /\ r2.admittedSequence = r.admittedSequence
      /\ r2.pending = r.pending /\ r2.receiving = r.receiving
      /\ r2.pushed = r.pushed /\ r2.emitted = r.emitted
      /\ r2.compared = r.compared /\ r2.mismatch = r.mismatch
      /\ r2.nextSequence = r.nextSequence
  BY <1>1, <1>3, <1>4 DEF PeerType
<1>6. LocalTicks(r2) = LocalTicks(r)
  BY <1>5 DEF LocalTicks
<1>7. LocalInv(r2)
  BY <1>1, <1>5, <1>6 DEF LocalInv
<1>8. RemoteInv(r2)
  BY <1>1, <1>2, <1>5 DEF RemoteInv
<1>9. SequenceInv(r2)
  BY <1>1, <1>5, <1>6 DEF SequenceInv
<1>10. FrameInv(p, r2)
  <2>1. ASSUME NEW i, Composable(r, i)
        PROVE  Composable(r2, i) /\ FrameAt(p, r2, i) = FrameAt(p, r, i)
    <3>1. i < Delay \/ (i - Delay \in DOMAIN r.native /\ i - Delay \in DOMAIN r.remote)
      BY <2>1 DEF Composable
    <3>2. i < Delay \/ (/\ i - Delay \in DOMAIN r2.remote
                        /\ r2.remote[i - Delay] = r.remote[i - Delay])
      BY <1>2, <1>5, <3>1
    <3>3. QED
      BY <1>5, <3>1, <3>2 DEF Composable, FrameAt
  <2>2. QED
    BY <1>1, <1>5, <2>1 DEF FrameInv
<1>11. CallerInv(p, r2)
  BY <1>1, <1>5 DEF CallerInv
<1>12. LinkInv(r2, Other(p), s)
  <2>1. \A t \in DOMAIN remote2 : Entry(t, remote2[t]) \in ToSet(s.local)
    BY <1>1, <1>2 DEF LinkInv
  <2>2. QED
    BY <1>1, <1>5, <2>1 DEF LinkInv
<1>13. FirstDifference(r2, s)
  BY <1>1, <1>5 DEF FirstDifference
<1>14. Grows(r, r2)
  <2>1. /\ r.emitted <= r2.emitted /\ r.nextSequence <= r2.nextSequence
        /\ r.admittedSequence <= r2.admittedSequence /\ r.ackInput <= r2.ackInput
        /\ r.ackChecksum <= r2.ackChecksum /\ Len(r.pushed) <= Len(r2.pushed)
    BY <1>1, <1>5, PeerFields
  <2>2. QED
    BY <1>2, <1>5, <2>1 DEF Grows
<1>15. Good(p, r2, s)
  BY <1>5, <1>7, <1>8, <1>9, <1>10, <1>11, <1>12, <1>13 DEF Good, PeerInv
<1>16. r2.ready
  BY <1>1, <1>5 DEF SequenceInv
<1>17. QED
  BY <1>5, <1>14, <1>15, <1>16 DEF r2

\* The observer's answer keeps the invariant.
LEMMA ObserverInv ==
    ASSUME IInv, NEW p \in Peer, ObserverAccepts(p)
    PROVE  KeptBy(p)
<1> DEFINE r == peer[p]
           s == peer[Other(p)]
           r2 == WithRemote(r)
<1>1. /\ r \in PeerType /\ Good(p, r, s) /\ QuietInv(r) /\ Remains(p, wire[p])
  BY Before
<1>2. r.staged # NotStaged /\ Admitted(p, r2, wire[p])
  BY DEF ObserverAccepts, WithRemote
<1>3. /\ Good(p, r2, s) /\ Grows(r, r2) /\ r2.terminal = r.terminal
      /\ r2.mismatch = r.mismatch /\ r2.ready
  <2> HIDE DEF r, s
  <2> QED  BY <1>1, <1>2, CommittedGood
<1> HIDE DEF r2
<1>4. QuietInv(r2)
  BY <1>1, <1>3 DEF QuietInv
<1>5. QED
  BY <1>1, <1>2, <1>3, <1>4, AdmittedInv

-----------------------------------------------------------------------------
(* The invariant                                                             *)

\* Nothing of a peer that has not begun contradicts the other.
LEMMA FreshGood ==
    ASSUME setup \in DOMAIN Setups, NEW p \in Peer,
           NEW a \in Match.agreement, NEW b \in Match.agreement
    PROVE  Good(p, Fresh(a), Fresh(b)) /\ QuietInv(Fresh(a)) /\ Fresh(a) \in PeerType
<1> DEFINE r == Fresh(a)
           s == Fresh(b)
           none == [t \in {} |-> NeutralPad]
<1>1. none \in Rows /\ none \in Held /\ none \in Records /\ DOMAIN none = {}
  <2>1. /\ none \in [{} -> Pad \cup {NeutralPad}] /\ none \in [{} -> StatePacket]
        /\ none \in [{} -> Frame] /\ {} \in SUBSET Int /\ {} \in SUBSET Nat /\ DOMAIN none = {}
    OBVIOUS
  <2>2. none \in Rows /\ none \in Held /\ none \in Records
    BY <2>1 DEF Rows, Held, Records
  <2>3. QED
    BY <2>1, <2>2
<1>2. NotStaged \in Rows
  <2>1. NotStaged \in [{-1} -> Pad \cup {NeutralPad}] /\ {-1} \in SUBSET Int
    BY DEF NotStaged
  <2>2. QED
    BY <2>1 DEF Rows
<1>3. ASSUME NEW c \in Match.agreement
      PROVE  /\ Fresh(c) \in PeerType
             /\ Fresh(c).agreement = c /\ Fresh(c).ready = FALSE /\ Fresh(c).local = <<>>
             /\ Fresh(c).native = none /\ Fresh(c).deferred = {} /\ Fresh(c).remote = none
             /\ Fresh(c).ackInput = -1 /\ Fresh(c).ackChecksum = -1
             /\ Fresh(c).nextSequence = 0 /\ Fresh(c).expectedSequence = 0
             /\ Fresh(c).admittedSequence = -1 /\ Fresh(c).pending = none
             /\ Fresh(c).receiving = FALSE /\ Fresh(c).staged = NotStaged
             /\ Fresh(c).pushed = <<>> /\ Fresh(c).emitted = 0
             /\ Fresh(c).remoteChecksums = none /\ Fresh(c).compared = 0
             /\ Fresh(c).mismatch = -1
  <2>1. Nothing = none
    BY DEF Nothing
  <2> HIDE DEF none
  <2>2. QED
    BY <1>1, <1>2, <2>1 DEF Fresh, PeerType
<1> HIDE DEF none
<1>4. /\ r \in PeerType /\ r.ready = FALSE /\ r.local = <<>> /\ DOMAIN r.native = {}
      /\ r.deferred = {} /\ DOMAIN r.remote = {} /\ r.ackInput = -1 /\ r.ackChecksum = -1
      /\ r.expectedSequence = 0 /\ r.admittedSequence = -1 /\ DOMAIN r.pending = {}
      /\ r.receiving = FALSE /\ r.staged = NotStaged /\ r.pushed = <<>> /\ r.emitted = 0
      /\ DOMAIN r.remoteChecksums = {} /\ r.compared = 0 /\ r.mismatch = -1
      /\ s.nextSequence = 0
  BY <1>1, <1>3
<1> HIDE DEF r, s
<1>5. LocalTicks(r) = {}
  <2>1. ToSet(<<>>) = {}
    BY DEF ToSet
  <2>2. QED
    BY <1>4, <2>1 DEF LocalTicks
<1>6. LocalInv(r) /\ RemoteInv(r)
  <2>1. DOMAIN r.local = {}
    BY <1>4
  <2>2. QED
    BY <1>4, <1>5, <2>1 DEF LocalInv, RemoteInv
<1>7. SequenceInv(r)
  <2>1. Contiguous({}) \in Int /\ -1 <= Contiguous({})
    <3>1. {} \in SUBSET Nat /\ 0 \in Int /\ \A t \in {} : t <= 0
      OBVIOUS
    <3>2. QED
      BY <3>1, ContiguousStart
  <2>2. QED
    BY <1>4, <1>5, <2>1 DEF SequenceInv
<1>8. FrameInv(p, r)
  <2>1. Len(r.pushed) = 0 /\ DOMAIN r.pushed = {} /\ SourceTicks \in Nat
    BY <1>4, Parameters
  <2>2. QED
    BY <1>4, <2>1 DEF FrameInv
<1>9. CallerInv(p, r)
  <2>1. DOMAIN r.local = {}
    BY <1>4
  <2>2. QED
    BY <1>4, <2>1 DEF CallerInv
<1>10. LinkInv(r, Other(p), s)
  BY <1>4 DEF LinkInv
<1>11. FirstDifference(r, s)
  BY <1>4 DEF FirstDifference
<1>12. QED
  BY <1>4, <1>6, <1>7, <1>8, <1>9, <1>10, <1>11 DEF Good, PeerInv, QuietInv, r, s

\* Two fresh peers and nothing between them.
LEMMA InitInv == Init => IInv
<1> SUFFICES ASSUME Init  PROVE IInv
  OBVIOUS
<1>1. setup \in DOMAIN Setups /\ wire = [p \in Peer |-> <<>>]
  BY DEF Init
<1>2. PICK agreed \in [Peer -> Match.agreement] : peer = [p \in Peer |-> Fresh(agreed[p])]
  BY DEF Init
<1>3. ASSUME NEW p \in Peer
      PROVE  /\ peer[p] \in PeerType /\ Good(p, peer[p], peer[Other(p)]) /\ QuietInv(peer[p])
  <2>1. agreed[p] \in Match.agreement /\ agreed[Other(p)] \in Match.agreement
        /\ peer[p] = Fresh(agreed[p]) /\ peer[Other(p)] = Fresh(agreed[Other(p)])
    BY <1>2, OtherPeer
  <2>2. QED
    BY <1>1, <2>1, FreshGood
<1>4. peer \in [Peer -> PeerType]
  BY <1>2, <1>3
<1>5. wire \in [Peer -> Seq(Message)] /\ \A p \in Peer : DOMAIN wire[p] = {}
  BY <1>1
<1>6. QED
  BY <1>1, <1>3, <1>4, <1>5 DEF IInv

\* Every step is the step of one peer, keeps the invariant and grows that peer.
LEMMA NextKept == IInv /\ [Next]_vars => \E p \in Peer : KeptBy(p)
<1> SUFFICES ASSUME IInv, [Next]_vars  PROVE \E p \in Peer : KeptBy(p)
  OBVIOUS
<1>1. ASSUME NEW p \in Peer, Receive(p)  PROVE KeptBy(p)
  <2>1. PICK i \in DOMAIN wire[p] :
           ReceiveHello(p, i) \/ ReceiveTerminal(p, i) \/ ReceiveState(p, i)
    BY <1>1 DEF Receive
  <2>2. QED
    BY <2>1, HelloInv, TerminalInv, ReceiveStateInv
<1>2. CASE Next
  <2>1. PICK p \in Peer :
           \/ Start(p) \/ Prepared(p) \/ PreparationFails(p)
           \/ LocalCall(p) \/ AddChecksum(p)
           \/ \E flushFinal \in BOOLEAN : SetNativeProgress(p, flushFinal)
           \/ Disconnect(p)
           \/ SendState(p)
           \/ Receive(p) \/ ApplyPending(p)
           \/ ObserverAccepts(p) \/ ObserverRefuses(p) \/ ReceiveOverflow(p)
    BY <1>2 DEF Next
  <2>2. QED
    BY <1>1, <2>1, StartInv, LocalCallInv, ChecksumInv, SendInv, ApplyPendingInv, ObserverInv,
       RefusalInv
<1>3. CASE UNCHANGED vars
  <2>1. /\ setup' = setup /\ peer' = peer /\ wire' = wire
    BY <1>3 DEF vars
  <2>2. Becomes("alpha", peer["alpha"]) /\ Leaves("alpha", wire["alpha"])
    BY <2>1 DEF Becomes, Leaves, IInv
  <2>3. "alpha" \in Peer
    BY DEF Peer
  <2>4. Stepped("alpha", peer["alpha"], wire["alpha"])
    BY <2>2 DEF Stepped
  <2>5. QED
    BY <2>3, <2>4, Before, StepInv
<1>4. QED
  BY <1>2, <1>3

\* The invariant is inductive.
LEMMA NextInv == IInv /\ [Next]_vars => IInv'
BY NextKept DEF KeptBy

\* The two peers and what is between them stay in step, whatever the transport
\* repeats or reorders and wherever the observers and the callers stand.
THEOREM Invariance == Spec => []IInv
BY InitInv, NextInv, PTL DEF Spec

\* The rows of a peer are for distinct ticks, so there are as many of the one
\* as of the other.
LEMMA RowsCounted ==
    ASSUME NEW l \in Seq(Row), Distinct(l)
    PROVE  Cardinality({e.tick : e \in ToSet(l)}) = Len(l)
<1> DEFINE T == {e.tick : e \in ToSet(l)}
           f == [i \in 1..Len(l) |-> l[i].tick]
<1>1. Len(l) \in Nat /\ DOMAIN l = 1..Len(l)
  OBVIOUS
<1>2. T = {l[i].tick : i \in 1..Len(l)}
  BY <1>1 DEF ToSet
<1>3. f \in Bijection(1..Len(l), T)
  <2>1. f \in [1..Len(l) -> T] /\ \A t \in T : \E i \in 1..Len(l) : f[i] = t
    BY <1>2
  <2>2. \A i, j \in 1..Len(l) : f[i] = f[j] => i = j
    BY <1>1 DEF Distinct
  <2> HIDE DEF f, T
  <2>3. f \in Surjection(1..Len(l), T)
    BY <2>1 DEF Surjection
  <2>4. f \in Injection(1..Len(l), T)
    BY <2>1, <2>2 DEF Injection, IsInjective
  <2>5. QED
    BY <2>3, <2>4 DEF Bijection
<1> HIDE DEF f, T
<1>4. IsFiniteSet(1..Len(l)) /\ Cardinality(1..Len(l)) = Len(l)
  <2>1. 1 \in Int /\ Len(l) \in Int /\ (IF 1 > Len(l) THEN 0 ELSE Len(l) - 1 + 1) = Len(l)
    BY <1>1
  <2>2. QED
    BY <2>1, FS_Interval
<1>5. Cardinality(T) = Len(l)
  BY <1>3, <1>4, FS_Bijection DEF ExistsBijection
<1>6. QED
  BY <1>5 DEF T

-----------------------------------------------------------------------------
(* The theorems                                                              *)

\* The fields of a peer keep their types and its cursors their order, whatever
\* its calls and the packets it receives bring.
THEOREM TypeCorrect == Spec => []TypeOK
<1>1. IInv => TypeOK
  <2> SUFFICES ASSUME IInv, NEW p \in Peer
               PROVE  LET r == peer[p]
                      IN  /\ r.start \in {"none", "preparing", "sent", "failed"}
                          /\ r.terminal \in {"none", "protocol", "desync", "disconnect"}
                          /\ \A e \in ToSet(r.local) : e.tick \in InputTick /\ e.pad \in Pad
                          /\ Cardinality(LocalTicks(r)) = Len(r.local)
                          /\ DOMAIN r.native = LocalTicks(r)
                          /\ r.deferred \subseteq LocalTicks(r)
                          /\ DOMAIN r.remote \subseteq InputTick
                          /\ r.compared <= r.emitted /\ r.emitted <= Len(r.pushed)
                          /\ Len(r.pushed) <= SourceTicks
                          /\ r.ackInput <= Contiguous(LocalTicks(r))
                          /\ r.admittedSequence < r.expectedSequence
    BY DEF TypeOK
  <2>1. PICK r \in PeerType : r = peer[p] /\ PeerInv(p, r)
    BY DEF IInv, Good
  <2>2. /\ r.start \in {"none", "preparing", "sent", "failed"}
        /\ r.terminal \in {"none", "protocol", "desync", "disconnect"}
    BY DEF PeerType
  <2>3. \A e \in ToSet(r.local) : e.tick \in InputTick /\ e.pad \in Pad
    <3>1. \A i \in DOMAIN r.local : r.local[i] \in Row
      BY PeerFields
    <3>2. QED
      BY <3>1 DEF ToSet, Row
  <2>4. Cardinality(LocalTicks(r)) = Len(r.local)
    <3>1. r.local \in Seq(Row) /\ Distinct(r.local)
      BY <2>1, PeerFields DEF PeerInv, LocalInv, Distinct
    <3>2. QED
      BY <3>1, RowsCounted DEF LocalTicks
  <2>5. /\ DOMAIN r.native = LocalTicks(r) /\ r.deferred \subseteq LocalTicks(r)
        /\ DOMAIN r.remote \subseteq InputTick
        /\ r.compared <= r.emitted /\ r.emitted <= Len(r.pushed) /\ Len(r.pushed) <= SourceTicks
        /\ r.ackInput <= Contiguous(LocalTicks(r))
        /\ r.admittedSequence < r.expectedSequence
    BY <2>1 DEF PeerInv, LocalInv, RemoteInv, SequenceInv, FrameInv
  <2>6. QED
    BY <2>1, <2>2, <2>3, <2>4, <2>5
<1>2. QED
  BY <1>1, Invariance, PTL

\* What a peer drops from its packets because it was acknowledged, the other
\* side has committed after its observer.
THEOREM AcknowledgedCommitted == Spec => []AcknowledgedIsCommitted
<1>1. IInv => AcknowledgedIsCommitted
  BY DEF IInv, Good, LinkInv, AcknowledgedIsCommitted
<1>2. QED
  BY <1>1, Invariance, PTL

\* No packet on the way carries a row that its sender's caller still holds back.
THEOREM DeferredLocal == Spec => []DeferredStaysLocal
<1>1. IInv => DeferredStaysLocal
  <2> SUFFICES ASSUME IInv, NEW p \in Peer, NEW i \in DOMAIN wire[Other(p)],
                      wire[Other(p)][i].type = "state"
               PROVE  {e.tick : e \in wire[Other(p)][i].inputs} \cap peer[p].deferred = {}
    BY DEF DeferredStaysLocal
  <2>1. MessageInv(wire[Other(p)][i], p, peer[p])
    BY OtherPeer DEF IInv
  <2>2. \A e \in wire[Other(p)][i].inputs : e.tick \notin peer[p].deferred
    BY <2>1 DEF MessageInv
  <2>3. QED
    BY <2>2
<1>2. QED
  BY <1>1, Invariance, PTL

\* No frame is played by two peers that agreed on different matches.
THEOREM AgreedPlayers == Spec => []PlayersAgreed
<1>1. IInv => PlayersAgreed
  BY DEF IInv, Good, PeerInv, FrameInv, LinkInv, PlayersAgreed
<1>2. QED
  BY <1>1, Invariance, PTL

\* A peer has compared only frames that both engines ran alike, and reports the
\* first one on which they differ.
THEOREM FirstDesync == Spec => []DesyncIsFirst
<1>1. IInv => DesyncIsFirst
  <2> SUFFICES ASSUME IInv, NEW p \in Peer
               PROVE  LET mine == peer[p].pushed
                          other == peer[Other(p)].pushed
                      IN  /\ \A t \in 1..peer[p].compared : t <= Len(other) /\ mine[t] = other[t]
                          /\ peer[p].mismatch # -1 =>
                                 LET t == peer[p].mismatch + 1
                                 IN  /\ t <= Len(mine) /\ t <= Len(other) /\ mine[t] # other[t]
                                     /\ \A u \in 1..(t - 1) : mine[u] = other[u]
    BY DEF DesyncIsFirst
  <2>1. PICK r \in PeerType, s \in PeerType :
           r = peer[p] /\ s = peer[Other(p)] /\ FirstDifference(r, s)
    BY OtherPeer DEF IInv, Good
  <2>2. r.mismatch \in Int /\ r.pushed \in Seq(Frame) /\ s.pushed \in Seq(Frame)
    BY PeerFields
  <2>3. ASSUME r.mismatch # -1
        PROVE  /\ r.mismatch + 1 <= Len(r.pushed) /\ r.mismatch + 1 <= Len(s.pushed)
               /\ r.mismatch = (r.mismatch + 1) - 1
    <3>1. r.mismatch + 1 \in 1..Len(r.pushed) /\ r.mismatch + 1 \in 1..Len(s.pushed)
      BY <2>1, <2>2, <2>3, SMTT(30) DEF FirstDifference
    <3>2. QED
      BY <2>2, <3>1
  <2>4. QED
    BY <2>1, <2>3 DEF FirstDifference
<1>2. QED
  BY <1>1, Invariance, PTL

-----------------------------------------------------------------------------
\* A peer has one entry for a tick, so two entries of it for the same tick are
\* the same.
LEMMA SameEntry ==
    ASSUME NEW r, LocalInv(r), NEW e \in ToSet(r.local), NEW f \in ToSet(r.local),
           e.tick = f.tick
    PROVE  e = f
BY DEF LocalInv, ToSet

\* What one honest peer sends, the other one accepts, as long as the sender's
\* caller adds in order and holds little back.
LEMMA WellFormed ==
    ASSUME setup \in DOMAIN Setups, NEW p \in Peer, NEW r, NEW s,
           Good(p, r, s), Good(Other(p), s, r),
           NEW m \in Message, m.type = "state", MessageInv(m, Other(p), s), Orderly(Other(p))
    PROVE  ~Malformed(r, m)
<1>1. /\ r \in PeerType /\ LocalInv(r) /\ RemoteInv(r) /\ SequenceInv(r)
      /\ s \in PeerType /\ LocalInv(s) /\ RemoteInv(s) /\ SequenceInv(s)
      /\ LinkInv(r, Other(p), s) /\ LinkInv(s, p, r)
  BY OtherPeer DEF Good, PeerInv
<1>2. /\ InputTicks \in Nat \ {0} /\ Window \in Nat \ {0} /\ InputTick \subseteq Nat
      /\ InputTicks - 1 \in Int /\ \A t \in InputTick : t <= InputTicks - 1
  BY Parameters DEF InputTick
<1>3. /\ m.sequence < s.nextSequence /\ m.ackSequence <= s.admittedSequence
      /\ -1 <= m.ackInput /\ 0..m.ackInput \subseteq DOMAIN s.remote
      /\ -1 <= m.ackChecksum /\ 0..m.ackChecksum \subseteq DOMAIN s.remoteChecksums
      /\ m.inputs \subseteq ToSet(s.local)
      /\ \A t \in DOMAIN m.checksums :
            t \in Nat /\ t < s.emitted /\ m.checksums[t] = s.pushed[t + 1]
      /\ \A e \in m.inputs : e.tick <= s.ackInput + Window + 1
      /\ \A t \in DOMAIN m.checksums : t <= s.ackChecksum + Window + 1
  BY DEF MessageInv
<1>4. ~(m.ackSequence >= r.nextSequence)
  <2>1. s.admittedSequence < s.expectedSequence /\ s.expectedSequence <= r.nextSequence
    BY <1>1 DEF SequenceInv, LinkInv
  <2>2. m.ackSequence \in Int /\ s.admittedSequence \in Int /\ s.expectedSequence \in Int
        /\ r.nextSequence \in Int
    BY <1>1, PeerFields, PacketFields
  <2>3. QED
    BY <1>3, <2>1, <2>2
<1>5. ~(m.ackInput > Contiguous(LocalTicks(r)))
  <2>1. LocalTicks(r) \in SUBSET Nat /\ \A t \in LocalTicks(r) : t <= InputTicks - 1
    <3>1. \A i \in DOMAIN r.local : r.local[i].tick \in InputTick
      <4>1. \A i \in DOMAIN r.local : r.local[i] \in Row
        BY <1>1, PeerFields
      <4>2. QED
        BY <4>1 DEF Row
    <3>2. LocalTicks(r) \subseteq InputTick
      BY <3>1 DEF LocalTicks, ToSet
    <3>3. QED
      BY <1>2, <3>2
  <2>2. 0..m.ackInput \subseteq LocalTicks(r)
    <3>1. \A t \in DOMAIN s.remote : Entry(t, s.remote[t]) \in ToSet(r.local)
      BY <1>1 DEF LinkInv
    <3>2. \A t \in DOMAIN s.remote : t \in LocalTicks(r)
      <4>1. \A t : Entry(t, s.remote[t]).tick = t
        BY DEF Entry
      <4>2. QED
        BY <3>1, <4>1 DEF LocalTicks
    <3>3. QED
      BY <1>3, <3>2
  <2>3. m.ackInput \in Int
    BY PacketFields
  <2> DEFINE T == LocalTicks(r)
  <2> HIDE DEF T
  <2>4. Contiguous(T) \in Int /\ \A k \in Int : 0..k \subseteq T => k <= Contiguous(T)
    BY <1>2, <2>1, ContiguousStart DEF T
  <2>5. QED
    BY <2>2, <2>3, <2>4 DEF T
<1>6. ~(m.ackChecksum > r.emitted - 1)
  <2>1. m.ackChecksum \in Int /\ r.emitted \in Nat
    BY <1>1, PeerFields, PacketFields
  <2>2. \A t \in DOMAIN s.remoteChecksums : t < r.emitted
    BY <1>1 DEF LinkInv
  <2>3. m.ackChecksum \in 0..m.ackChecksum \/ m.ackChecksum = -1
    BY <1>3, <2>1
  <2>4. m.ackChecksum < r.emitted \/ m.ackChecksum = -1
    BY <1>3, <2>2, <2>3
  <2>5. QED
    BY <2>1, <2>4
<1>7. ASSUME NEW e \in m.inputs
      PROVE  /\ ~(e.tick > Contiguous(DOMAIN r.remote) + Window + 1)
             /\ ~(e.tick \in DOMAIN r.remote /\ r.remote[e.tick] # e.pad)
  <2>1. e.tick \in Int /\ s.ackInput \in Int
    BY <1>1, PeerFields, PacketFields
  <2>2. s.ackInput <= Contiguous(DOMAIN r.remote) /\ Contiguous(DOMAIN r.remote) \in Int
    <3> DEFINE T == DOMAIN r.remote
    <3>1. 0..s.ackInput \subseteq T
      BY <1>1 DEF LinkInv
    <3>2. T \in SUBSET Nat /\ \A t \in T : t <= InputTicks - 1
      BY <1>1, <1>2 DEF RemoteInv
    <3> HIDE DEF T
    <3>3. Contiguous(T) \in Int /\ \A k \in Int : 0..k \subseteq T => k <= Contiguous(T)
      BY <1>2, <3>2, ContiguousStart
    <3>4. QED
      BY <2>1, <3>1, <3>3 DEF T
  <2>3. ~(e.tick > Contiguous(DOMAIN r.remote) + Window + 1)
    BY <1>2, <1>3, <2>1, <2>2
  <2>4. ASSUME e.tick \in DOMAIN r.remote  PROVE r.remote[e.tick] = e.pad
    <3>1. Entry(e.tick, r.remote[e.tick]) \in ToSet(s.local)
      BY <1>1, <2>4 DEF LinkInv
    <3>2. Entry(e.tick, r.remote[e.tick]) = e
      BY <1>1, <1>3, <3>1, SameEntry DEF Entry
    <3>3. QED
      BY <3>2 DEF Entry
  <2>5. QED
    BY <2>3, <2>4
<1>8. ASSUME NEW t \in DOMAIN m.checksums
      PROVE  /\ ~(t > Contiguous(DOMAIN r.remoteChecksums) + Window + 1)
             /\ ~(/\ t \in DOMAIN r.remoteChecksums
                  /\ r.remoteChecksums[t] # m.checksums[t])
  <2>1. t \in Int /\ s.ackChecksum \in Int /\ s.emitted \in Nat
    BY <1>1, <1>3, PeerFields
  <2>2. /\ s.ackChecksum <= Contiguous(DOMAIN r.remoteChecksums)
        /\ Contiguous(DOMAIN r.remoteChecksums) \in Int
    <3> DEFINE T == DOMAIN r.remoteChecksums
    <3>1. 0..s.ackChecksum \subseteq T
      BY <1>1 DEF LinkInv
    <3>2. T \in SUBSET Nat
      BY <1>1 DEF RemoteInv
    <3>3. \A u \in T : u < s.emitted
      BY <1>1 DEF LinkInv
    <3>4. s.emitted \in Int /\ \A u \in T : u <= s.emitted
      BY <2>1, <3>2, <3>3
    <3> HIDE DEF T
    <3>5. Contiguous(T) \in Int /\ \A k \in Int : 0..k \subseteq T => k <= Contiguous(T)
      BY <3>2, <3>4, ContiguousStart
    <3>6. QED
      BY <2>1, <3>1, <3>5 DEF T
  <2>3. ~(t > Contiguous(DOMAIN r.remoteChecksums) + Window + 1)
    BY <1>2, <1>3, <2>1, <2>2
  <2>4. t \in DOMAIN r.remoteChecksums => r.remoteChecksums[t] = m.checksums[t]
    BY <1>1, <1>3 DEF LinkInv
  <2>5. QED
    BY <2>3, <2>4
<1>9. QED
  BY <1>4, <1>5, <1>6, <1>7, <1>8 DEF Malformed

\* Honest peers never end each other over the bounds of the protocol, when both
\* callers add their ticks in order and hold back so few of them that these and
\* a full batch fit the window.
THEOREM HonestWellFormed ==
    ASSUME \A n \in DOMAIN Setups :
              /\ Setups[n].inOrder
              /\ \A p \in Peer : Setups[n].maxBatch + Cardinality(Setups[n].deferTicks[p])
                                    <= Setups[n].window + 1
    PROVE  Spec => []HonestIsWellFormed
<1>1. IInv => HonestIsWellFormed
  <2> SUFFICES ASSUME IInv, NEW p \in Peer, NEW i \in DOMAIN wire[p],
                      wire[p][i].type = "state"
               PROVE  ~Malformed(peer[p], wire[p][i])
    BY DEF HonestIsWellFormed
  <2>1. setup \in DOMAIN Setups /\ Other(p) \in Peer
    BY OtherPeer DEF IInv
  <2>2. Orderly(Other(p))
    BY <2>1 DEF Orderly, Match, MaxBatch, Window
  <2>3. wire[p][i] \in Message /\ MessageInv(wire[p][i], Other(p), peer[Other(p)])
    BY Before
  <2>4. Good(p, peer[p], peer[Other(p)]) /\ Good(Other(p), peer[Other(p)], peer[p])
    BY OtherPeer DEF IInv
  <2>5. QED
    BY <2>1, <2>2, <2>3, <2>4, WellFormed
<1>2. QED
  BY <1>1, Invariance, PTL

-----------------------------------------------------------------------------
(* The agreed history                                                        *)

\* No caller gives its own engine another pad than it publishes
Faithful == \A p \in Peer : \A f \in Match.overrides[p] : DOMAIN f = {}

\* The pad that a peer's engine has for a tick is the one that the other peer
\* received for it.
LEMMA OwnIsPublished ==
    ASSUME NEW p \in Peer, NEW r, NEW s, Good(p, r, s), Good(Other(p), s, r), Faithful,
           NEW t \in DOMAIN r.native, t \in DOMAIN s.remote
    PROVE  r.native[t] = s.remote[t]
<1>1. LocalInv(r) /\ CallerInv(p, r) /\ LinkInv(s, p, r)
  BY OtherPeer DEF Good, PeerInv
<1>2. Entry(t, r.native[t]) \in ToSet(r.local)
  BY <1>1 DEF CallerInv, Faithful
<1>3. Entry(t, s.remote[t]) \in ToSet(r.local)
  BY <1>1 DEF LinkInv
<1>4. Entry(t, r.native[t]) = Entry(t, s.remote[t])
  BY <1>1, <1>2, <1>3, SameEntry DEF Entry
<1>5. QED
  BY <1>4 DEF Entry

\* Two engines that both have a frame have the same one.
LEMMA FramesAgree ==
    ASSUME setup \in DOMAIN Setups, NEW p \in Peer, NEW r, NEW s,
           Good(p, r, s), Good(Other(p), s, r), Faithful,
           NEW i \in DOMAIN r.pushed, i \in DOMAIN s.pushed
    PROVE  r.pushed[i] = s.pushed[i]
<1>1. /\ Composable(r, i - 1) /\ r.pushed[i] = FrameAt(p, r, i - 1)
      /\ Composable(s, i - 1) /\ s.pushed[i] = FrameAt(Other(p), s, i - 1)
  BY DEF Good, PeerInv, FrameInv
<1>2. CASE i - 1 < Delay
  BY <1>1, <1>2 DEF FrameAt
<1>3. CASE ~(i - 1 < Delay)
  <2> DEFINE t == i - 1 - Delay
  <2>1. /\ t \in DOMAIN r.native /\ t \in DOMAIN r.remote
        /\ t \in DOMAIN s.native /\ t \in DOMAIN s.remote
    BY <1>1, <1>3 DEF Composable
  <2>2. /\ FrameAt(p, r, i - 1) = IF p = "alpha" THEN <<r.native[t], r.remote[t]>>
                                  ELSE <<r.remote[t], r.native[t]>>
        /\ FrameAt(Other(p), s, i - 1) = IF Other(p) = "alpha" THEN <<s.native[t], s.remote[t]>>
                                         ELSE <<s.remote[t], s.native[t]>>
    BY <1>3, <2>1 DEF FrameAt
  <2> HIDE DEF t
  <2>3. r.native[t] = s.remote[t]
    BY <2>1, OwnIsPublished
  <2>4. s.native[t] = r.remote[t]
    BY <2>1, OtherPeer, OwnIsPublished
  <2>5. QED
    BY <1>1, <2>2, <2>3, <2>4 DEF Other, Peer
<1>4. QED
  BY <1>2, <1>3

\* A sequence is a prefix of another one when they agree on its elements.
LEMMA PrefixByElements ==
    ASSUME NEW S, NEW s \in Seq(S), NEW t \in Seq(S), Len(s) <= Len(t),
           \A i \in 1..Len(s) : t[i] = s[i]
    PROVE  Abstract!IsPrefix(s, t)
<1> DEFINE n == Len(s)
<1>1. n \in Nat /\ n <= Len(t) /\ Len(t) \in Nat
  OBVIOUS
<1>2. /\ SubSeq(s, 1, n) \in Seq(S) /\ Len(SubSeq(s, 1, n)) = n
      /\ \A i \in 1..n : SubSeq(s, 1, n)[i] = s[i]
  <2>1. \A i \in 1..n : s[i] \in S
    OBVIOUS
  <2>2. QED
    BY <1>1, <2>1, SubSeqProperties
<1>3. /\ SubSeq(t, 1, n) \in Seq(S) /\ Len(SubSeq(t, 1, n)) = n
      /\ \A i \in 1..n : SubSeq(t, 1, n)[i] = t[i]
  <2>1. \A i \in 1..n : t[i] \in S
    BY <1>1
  <2>2. QED
    BY <1>1, <2>1, SubSeqProperties
<1>4. SubSeq(s, 1, n) = SubSeq(t, 1, n)
  <2> HIDE DEF n
  <2> QED  BY <1>2, <1>3, SeqEqual DEF n
<1>5. QED
  BY <1>4 DEF Abstract!IsPrefix

\* Of the frames of the two peers, the one history is a prefix of the other
Compatibles == \A p \in Peer : Abstract!Compatible(peer[p].pushed, peer[Other(p)].pushed)

\* Two peers whose callers override nothing are given compatible frames.
LEMMA HistoriesCompatible == IInv /\ Faithful => Compatibles
<1> SUFFICES ASSUME IInv, Faithful, NEW p \in Peer
             PROVE  Abstract!Compatible(peer[p].pushed, peer[Other(p)].pushed)
  BY DEF Compatibles
<1>1. PICK r \in PeerType, s \in PeerType :
         /\ r = peer[p] /\ s = peer[Other(p)] /\ setup \in DOMAIN Setups
         /\ Good(p, r, s) /\ Good(Other(p), s, r)
  BY OtherPeer DEF IInv
<1>2. /\ r.pushed \in Seq(Frame) /\ DOMAIN r.pushed = 1..Len(r.pushed) /\ Len(r.pushed) \in Nat
      /\ s.pushed \in Seq(Frame) /\ DOMAIN s.pushed = 1..Len(s.pushed) /\ Len(s.pushed) \in Nat
  BY PeerFields
<1>3. \A i \in DOMAIN r.pushed : i \in DOMAIN s.pushed => r.pushed[i] = s.pushed[i]
  BY <1>1, FramesAgree
<1>4. CASE Len(r.pushed) <= Len(s.pushed)
  <2>1. \A i \in 1..Len(r.pushed) : s.pushed[i] = r.pushed[i]
    BY <1>2, <1>3, <1>4
  <2>2. Abstract!IsPrefix(r.pushed, s.pushed)
    BY <1>2, <1>4, <2>1, PrefixByElements
  <2>3. QED
    BY <1>1, <2>2 DEF Abstract!Compatible
<1>5. CASE Len(s.pushed) <= Len(r.pushed)
  <2>1. \A i \in 1..Len(s.pushed) : r.pushed[i] = s.pushed[i]
    BY <1>2, <1>3, <1>5
  <2>2. Abstract!IsPrefix(s.pushed, r.pushed)
    BY <1>2, <1>5, <2>1, PrefixByElements
  <2>3. QED
    BY <1>1, <2>2 DEF Abstract!Compatible
<1>6. QED
  BY <1>2, <1>4, <1>5

\* A step of one peer settles frames of that peer alone, or none.
LEMMA StepSettles ==
    ASSUME IInv, IInv', Compatibles', NEW p \in Peer, KeptBy(p)
    PROVE  [Abstract!Next]_([o \in Peer |-> peer[o].pushed])
<1> DEFINE q == Other(p)
<1>1. PICK r2 : Becomes(p, r2) /\ Grows(peer[p], r2)
  BY DEF KeptBy
<1>2. /\ setup' = setup /\ peer'[p] = r2 /\ peer'[q] = peer[q]
      /\ q \in Peer /\ q # p /\ Peer = {p, q} /\ peer[p] \in PeerType /\ Other(q) = p
  BY <1>1, OtherPeer DEF IInv, Becomes
<1>3. peer'[p] \in PeerType
  BY <1>2, MatchFixed DEF IInv
<1>4. PICK old, new :
         /\ old = peer[p].pushed /\ new = peer'[p].pushed
         /\ old \in Seq(Frame) /\ new \in Seq(Frame)
         /\ Len(old) <= Len(new) /\ \A i \in 1..Len(old) : new[i] = old[i]
  BY <1>1, <1>2, <1>3, PeerFields, SMTT(30) DEF Grows
<1>5. Abstract!IsPrefix(old, new)
  BY <1>4, PrefixByElements
<1>6. Abstract!Compatible(new, peer[q].pushed)
  BY <1>2, <1>4 DEF Compatibles, Abstract!Compatible, Abstract!IsPrefix
<1>7. CASE old = new
  <2>1. \A o \in Peer : peer'[o].pushed = peer[o].pushed
    BY <1>2, <1>4, <1>7
  <2>2. QED
    BY <2>1
<1>8. CASE old # new
  <2>1. Abstract!IsStrictPrefix(old, new)
    BY <1>5, <1>8 DEF Abstract!IsStrictPrefix
  <2>2. Abstract!Settle(p)
    BY <1>2, <1>4, <1>6, <2>1 DEF Abstract!Settle
  <2>3. QED
    BY <2>2 DEF Abstract!Next
<1>9. QED
  BY <1>7, <1>8

\* Two lockstep peers whose callers give their own engines what they publish
\* implement the agreed history: an engine is given frames that are never taken
\* back, and the two engines are never given different ones for a tick.
THEOREM LockstepImplementsAgreedHistory ==
    ASSUME \A n \in DOMAIN Setups : \A p \in Peer : \A f \in Setups[n].overrides[p] :
              DOMAIN f = {}
    PROVE  Spec => ImplementsAgreedHistory
<1>1. Init => Abstract!Init
  <2> SUFFICES ASSUME Init  PROVE Abstract!Init
    OBVIOUS
  <2>1. \A p \in Peer : peer[p].pushed = <<>>
    BY DEF Init, Fresh
  <2>2. QED
    BY <2>1 DEF Abstract!Init
<1>2. IInv => Compatibles
  BY HistoriesCompatible DEF IInv, Faithful, Match
<1>3. IInv /\ IInv' /\ Compatibles' /\ [Next]_vars
         => [Abstract!Next]_([p \in Peer |-> peer[p].pushed])
  <2> SUFFICES ASSUME IInv, IInv', Compatibles', [Next]_vars
               PROVE  [Abstract!Next]_([p \in Peer |-> peer[p].pushed])
    OBVIOUS
  <2>1. PICK p \in Peer : KeptBy(p)
    BY NextKept
  <2>2. QED
    BY <2>1, StepSettles
<1>4. Spec => [][Abstract!Next]_([p \in Peer |-> peer[p].pushed])
  BY <1>2, <1>3, Invariance, PTL DEF Spec
<1>5. Spec => Abstract!Init
  BY <1>1, PTL DEF Spec
<1>6. Spec => Abstract!Spec
  BY <1>4, <1>5, PTL DEF Abstract!Spec
<1>7. QED
  BY <1>6 DEF ImplementsAgreedHistory
====
