------------------------------- MODULE Lockstep -------------------------------
(***************************************************************************)
(* Two LockstepPeer objects of scripts/net_lockstep_core.mjs and the       *)
(* transport between them.  A peer agrees on the match, publishes its PAD  *)
(* samples, and hands its engine a frame only when it has both players'    *)
(* samples for the frame's input tick, Delay source ticks earlier.  Every  *)
(* engine emits one checksum record per frame; each peer sends its records *)
(* late and compares both sides' records in tick order.  A record is here  *)
(* the frame that the engine ran.                                          *)
(*                                                                         *)
(* A step is the code between two awaits: a packet is applied, its rows    *)
(* wait for the observer, and only then are they committed, pumped and     *)
(* acknowledged, while local calls go on.  A packet is built when its send *)
(* is reached, not when the call that owes it was made.                    *)
(***************************************************************************)
EXTENDS Integers, SequencesExt, FiniteSetsExt

CONSTANTS
    Pad,          \* the PAD samples told apart
    NeutralPad,   \* zeroPad, of the frames before the delay has passed
    Setups        \* name -> the parameters of a match, and its bounds

Peer == {"alpha", "beta"}
VARIABLES
    setup,  \* the name of the match that is played; it never changes
    peer,   \* [Peer -> the fields of its LockstepPeer]
    wire    \* [Peer -> the messages on their way to it; a transport that may
            \*  repeat or reorder them never forgets one]

vars == <<setup, peer, wire>>

Match == Setups[setup]
InputTicks == Match.inputTicks
Delay      == Match.delay
Window     == Match.window
MaxBatch   == Match.maxBatch
MaxPending == Match.maxPending

SourceTicks == InputTicks + Delay
InputTick == 0..(InputTicks - 1)

ASSUME LockstepAssumption ==
    \A n \in DOMAIN Setups :
        LET s == Setups[n]
            ticks == 0..(s.inputTicks - 1)
        IN  \* the constants of the protocol
            /\ s.inputTicks \in Nat \ {0} /\ s.delay \in Nat /\ s.window \in Nat \ {0}
            /\ s.maxBatch \in Nat \ {0} /\ s.maxPending \in Nat \ {0}
            \* the pads each player may produce, and what its caller may do:
            \* give its own engine other pads, hold ticks back at first, add
            \* ticks in certain batches, in order or not
            /\ s.sample \in [Peer -> [ticks -> SUBSET Pad]]
            /\ DOMAIN s.overrides = Peer
            /\ \A p \in Peer : \A f \in s.overrides[p] :
                   DOMAIN f \subseteq ticks /\ \A t \in DOMAIN f : f[t] \in Pad
            /\ s.deferTicks \in [Peer -> SUBSET ticks]
            /\ s.batches \subseteq (SUBSET ticks) \ {{}} /\ s.inOrder \in BOOLEAN
            \* the start identities told apart; does the transport deliver in
            \* order and once; what may fail
            /\ s.agreement # {} /\ s.ordered \in BOOLEAN
            /\ s.faults \subseteq {"hash", "push", "observer", "transport"}
            \* bounds of the model: calls of one caller in progress at once,
            \* sequence after which no call repeats, frames an engine runs
            /\ s.maxCalls \in Nat \ {0} /\ s.maxRepeats \in Nat /\ s.maxCursor \in Nat

-----------------------------------------------------------------------------
Other(p) == IF p = "alpha" THEN "beta" ELSE "alpha"
Nothing == [t \in {} |-> NeutralPad]
NotStaged == [t \in {-1} |-> NeutralPad]

Fresh(agreement) ==
    [agreement |-> agreement, start |-> "none", ready |-> FALSE, terminal |-> "none",
     local |-> <<>>,           \* [tick, pad] in order of insertion
     native |-> Nothing, deferred |-> {}, remote |-> Nothing,
     ackInput |-> -1, ackChecksum |-> -1,
     nextSequence |-> 0, expectedSequence |-> 0, admittedSequence |-> -1,
     pending |-> Nothing,      \* pendingSequence: sequence -> packet
     receiving |-> FALSE,      \* is the receive queue inside #receiveState?
     staged |-> NotStaged,     \* remote rows that wait for the observer
     changed |-> FALSE,
     owed |-> 0,               \* packets that calls past their pump still send
     pushed |-> <<>>,          \* frames given to the engine
     emitted |-> 0,            \* localChecksums are those of ticks < emitted
     remoteChecksums |-> Nothing, compared |-> 0, mismatch |-> -1,
     delayedThrough |-> -1]

Init ==
    /\ setup \in DOMAIN Setups
    /\ \E agreed \in [Peer -> Match.agreement] : peer = [p \in Peer |-> Fresh(agreed[p])]
    /\ wire = [p \in Peer |-> <<>>]

LocalTicks(r) == {e.tick : e \in ToSet(r.local)}
LocalPad(r, t) == (CHOOSE e \in ToSet(r.local) : e.tick = t).pad

\* The entries of a call are added in the order of their ticks
InOrder(ticks) ==
    CHOOSE s \in [1..Cardinality(ticks) -> ticks] : \A i, j \in DOMAIN s : i < j => s[i] < s[j]

\* The cursors that the code advances with "while has(cursor + 1)"
Contiguous(ticks) == Min({t \in {-1} \cup ticks : t + 1 \notin ticks})

Becomes(p, r) == peer' = [peer EXCEPT ![p] = r] /\ UNCHANGED setup

\* A step leaves these messages on the way to p, and may send one of its own
Leaves(p, left) == wire' = [wire EXCEPT ![p] = left]
Sends(p, left, message) ==
    wire' = [wire EXCEPT ![p] = left, ![Other(p)] = Append(@, message)]

\* fail: the first terminal reason wins, and the peer is told of it
Ended(r, kind) == [r EXCEPT !.terminal = kind]
Fails(p, r, kind, left) ==
    Becomes(p, Ended(r, kind)) /\ Sends(p, left, [type |-> "terminal", kind |-> kind])

-----------------------------------------------------------------------------
(* Frames and checksums *)

\* Fault: the local sample alone releases a frame
ComposableWithoutRemote(r, s) == s < Delay \/ s - Delay \in DOMAIN r.native

Composable(r, s) ==
    s < Delay \/ s - Delay \in DOMAIN r.native \cap DOMAIN r.remote

FrameAt(p, r, s) ==
    LET local  == IF s < Delay THEN NeutralPad ELSE r.native[s - Delay]
        remote == IF s < Delay \/ s - Delay \notin DOMAIN r.remote
                  THEN NeutralPad ELSE r.remote[s - Delay]
    IN  IF p = "alpha" THEN <<local, remote>> ELSE <<remote, local>>

\* #pumpFrames: every frame that can be composed, in source order
Pumped(p, r) ==
    LET next == Len(r.pushed)
        through == Max({n \in next..SourceTicks : \A s \in next..(n - 1) : Composable(r, s)})
    IN  [r EXCEPT !.pushed = [i \in 1..through |->
            IF i <= next THEN r.pushed[i] ELSE FrameAt(p, r, i - 1)]]

\* A call that pumps and then owes a number of sends, or whose push is refused
PumpThenOwe(p, r, sends, left) ==
    \/ Becomes(p, [Pumped(p, r) EXCEPT !.owed = @ + sends]) /\ Leaves(p, left)
    \/ "push" \in Match.faults /\ Pumped(p, r) # r /\ Fails(p, r, "protocol", left)

\* Fault: the newest pair of records stands for all before it
ComparedNewest(r) ==
    LET through == Min({r.emitted - 1, Contiguous(DOMAIN r.remoteChecksums)})
    IN  IF through < r.compared THEN r
        ELSE IF r.pushed[through + 1] = r.remoteChecksums[through]
             THEN [r EXCEPT !.compared = through + 1]
             ELSE [r EXCEPT !.mismatch = through]

\* #compareReadyChecksums: a record is compared when all before it have been
Compared(r) ==
    LET through == Min({r.emitted - 1, Contiguous(DOMAIN r.remoteChecksums)})
        wrong == {t \in r.compared..through : r.pushed[t + 1] # r.remoteChecksums[t]}
    IN  IF wrong = {} THEN [r EXCEPT !.compared = Max({@, through + 1})]
        ELSE [r EXCEPT !.compared = Min(wrong), !.mismatch = Min(wrong)]

-----------------------------------------------------------------------------
(* Start *)

\* start: the identity hash is awaited
Start(p) ==
    /\ peer[p].start = "none" /\ peer[p].terminal = "none"
    /\ Becomes(p, [peer[p] EXCEPT !.start = "preparing"])
    /\ UNCHANGED wire

\* Both identity fields are published in one turn, and the hello leaves
Prepared(p) ==
    /\ peer[p].start = "preparing"
    /\ Becomes(p, [peer[p] EXCEPT !.start = "sent"])
    /\ IF peer[p].terminal = "none"
       THEN Sends(p, wire[p], [type |-> "hello", agreement |-> peer[p].agreement])
       ELSE UNCHANGED wire

\* SHA-256 is unavailable
PreparationFails(p) ==
    /\ "hash" \in Match.faults
    /\ peer[p].start = "preparing" /\ peer[p].terminal = "none"
    /\ Fails(p, [peer[p] EXCEPT !.start = "failed"], "protocol", wire[p])

-----------------------------------------------------------------------------
(* Local calls; #assertReady guards each *)

Active(p) == peer[p].ready /\ peer[p].terminal = "none"

\* addLocalInputs: entries are the samples to publish, overrides the pads the
\* caller's own engine gets instead.  A rejected entry ends the peer; entries
\* before it stay in the maps of a terminal peer, where nothing reads them.
AddLocalInputs(p, entries, overrides, deferSend, repeat) ==
    LET r == peer[p]
        known == LocalTicks(r)
        new == DOMAIN entries \ known
        given(t) == IF t \in DOMAIN overrides THEN overrides[t] ELSE entries[t]
        changed == \E t \in DOMAIN entries \cap known :
                       LocalPad(r, t) # entries[t] \/ r.native[t] # given(t)
        rows == InOrder(new)
        added == [r EXCEPT
            !.local = @ \o [i \in DOMAIN rows |-> [tick |-> rows[i], pad |-> entries[rows[i]]]],
            !.native = [t \in known \cup new |-> IF t \in known THEN r.native[t] ELSE given(t)],
            !.deferred = IF deferSend THEN @ \cup new ELSE @ \ DOMAIN entries]
    IN  /\ Active(p)
        /\ Cardinality(DOMAIN entries) <= MaxBatch
        /\ IF changed THEN Fails(p, r, "protocol", wire[p])
           ELSE PumpThenOwe(p, added, (IF deferSend THEN 0 ELSE 1) + (IF repeat THEN 1 ELSE 0),
                            wire[p])

\* The engine runs a frame and its record is drained: addChecksum
AddChecksum(p) ==
    LET r == Compared([peer[p] EXCEPT !.emitted = @ + 1])
    IN  /\ Active(p)
        /\ peer[p].emitted < Len(peer[p].pushed) /\ peer[p].emitted < Match.maxCursor
        /\ IF r.mismatch = -1 THEN Becomes(p, r) /\ UNCHANGED wire
           ELSE Fails(p, r, "desync", wire[p])

\* setNativeProgress: records may leave once the engine is Delay ticks past
\* them, the last ones when the engine has finished
SetNativeProgress(p, flushFinal) ==
    LET r == peer[p]
        through == IF flushFinal THEN SourceTicks - 1 ELSE r.emitted - Delay - 1
    IN  /\ Active(p) /\ r.owed < Match.maxCalls
        /\ flushFinal => r.emitted = SourceTicks
        /\ through > r.delayedThrough
        /\ Becomes(p, [r EXCEPT !.delayedThrough = through, !.owed = @ + 1])
        /\ UNCHANGED wire

Disconnect(p) ==
    /\ "transport" \in Match.faults
    /\ peer[p].terminal = "none"
    /\ Becomes(p, [peer[p] EXCEPT !.terminal = "disconnect"])
    /\ UNCHANGED wire

-----------------------------------------------------------------------------
(* #sendState *)

\* The rows at these places of local, the first MaxBatch of them
FirstBatch(r, places) ==
    {r.local[i] : i \in {j \in places : Cardinality({k \in places : k < j}) < MaxBatch}}

\* Fault: deferred rows leave with the next packet
OpenInputsAll(r) ==
    FirstBatch(r, {i \in DOMAIN r.local : r.local[i].tick > r.ackInput})

\* Fault: the newest rows leave instead of the oldest
OpenInputsNewest(r) ==
    LET places == {i \in DOMAIN r.local :
                      r.local[i].tick > r.ackInput /\ r.local[i].tick \notin r.deferred}
    IN  {r.local[i] : i \in {j \in places : Cardinality({k \in places : k > j}) < MaxBatch}}

OpenInputs(r) ==
    FirstBatch(r, {i \in DOMAIN r.local :
                      r.local[i].tick > r.ackInput /\ r.local[i].tick \notin r.deferred})

OpenChecksums(r) ==
    LET through == Min({r.delayedThrough, r.emitted - 1, r.ackChecksum + MaxBatch})
    IN  [t \in (r.ackChecksum + 1)..through |-> r.pushed[t + 1]]

\* Fault: rows that still wait for the observer are acknowledged
InputAckStaged(r) == Contiguous((DOMAIN r.remote \cup DOMAIN r.staged) \ {-1})

InputAck(r) == Contiguous(DOMAIN r.remote)

Packet(r) ==
    [type |-> "state", sequence |-> r.nextSequence, ackSequence |-> r.admittedSequence,
     ackInput |-> InputAck(r), ackChecksum |-> Contiguous(DOMAIN r.remoteChecksums),
     inputs |-> OpenInputs(r), checksums |-> OpenChecksums(r)]

\* #receiveState has admitted what it could and answers it
Answering(r) == r.receiving /\ r.staged = NotStaged /\ r.expectedSequence \notin DOMAIN r.pending

\* A local call, or the receive queue that then takes its next message, sends
SendState(p) ==
    LET r == [peer[p] EXCEPT !.nextSequence = @ + 1]
    IN  /\ Active(p)
        /\ \/ r.owed > 0 /\ Becomes(p, [r EXCEPT !.owed = @ - 1])
           \/ Answering(r) /\ Becomes(p, [r EXCEPT !.receiving = FALSE])
        /\ Sends(p, wire[p], Packet(peer[p]))

-----------------------------------------------------------------------------
(* Receiving: one message at a time, #receiveOne *)

\* What is left on the way to p once message i is delivered
Deliverable(p, i) == i \in DOMAIN wire[p] /\ (Match.ordered => i = 1)
Rest(p) == IF Match.ordered THEN Tail(wire[p]) ELSE wire[p]

Listening(p) == peer[p].terminal = "none" /\ ~peer[p].receiving

\* Fault: any hello makes a peer ready
SameIdentityAny(r, m) == TRUE

SameIdentity(r, m) == m.agreement = r.agreement

ReceiveHello(p, i) ==
    LET r == peer[p]
    IN  /\ Listening(p) /\ Deliverable(p, i) /\ wire[p][i].type = "hello"
        /\ r.start # "preparing"
        /\ IF r.start # "sent" \/ ~SameIdentity(r, wire[p][i])
           THEN Fails(p, r, "protocol", Rest(p))
           ELSE IF r.ready THEN UNCHANGED <<setup, peer>> /\ Leaves(p, Rest(p))
           ELSE PumpThenOwe(p, [r EXCEPT !.ready = TRUE], 0, Rest(p))

ReceiveTerminal(p, i) ==
    /\ Listening(p) /\ Deliverable(p, i) /\ wire[p][i].type = "terminal"
    /\ Becomes(p, Ended(peer[p], wire[p][i].kind))
    /\ Leaves(p, Rest(p))

\* #applyState of the next packet in sequence
Malformed(r, m) ==
    \/ m.ackSequence >= r.nextSequence
    \/ m.ackInput > Contiguous(LocalTicks(r))
    \/ m.ackChecksum > r.emitted - 1
    \/ \E e \in m.inputs :
          \/ e.tick > Contiguous(DOMAIN r.remote) + Window + 1
          \/ e.tick \in DOMAIN r.remote /\ r.remote[e.tick] # e.pad
    \/ \E t \in DOMAIN m.checksums :
          \/ t > Contiguous(DOMAIN r.remoteChecksums) + Window + 1
          \/ t \in DOMAIN r.remoteChecksums /\ r.remoteChecksums[t] # m.checksums[t]

\* Fault: an acknowledgement that moved nothing new is not answered
AnsweredInputsOnly(r, m, fresh) == fresh # {}

\* changed: the packet brought rows, records or acknowledgements
Answered(r, m, fresh) ==
    \/ fresh # {}
    \/ DOMAIN m.checksums \ DOMAIN r.remoteChecksums # {}
    \/ m.ackInput > r.ackInput
    \/ m.ackChecksum > r.ackChecksum

\* Fault: the packet after the one admitted counts as admitted
AdmissionEarly(r) == r.expectedSequence

Admission(r) == r.expectedSequence - 1

\* A packet is admitted; #receiveState goes on with the next, or pumps and
\* then answers unless nothing changed
Admitted(p, r, left) ==
    LET done == [r EXCEPT !.admittedSequence = Admission(r), !.staged = NotStaged]
    IN  IF r.expectedSequence \in DOMAIN r.pending
        THEN Becomes(p, done) /\ Leaves(p, left)
        ELSE PumpThenOwe(p, [done EXCEPT !.receiving = r.changed], 0, left)

\* The packet next in sequence is applied; new rows are staged for the observer
ApplyState(p, r, m, left) ==
    LET fresh == {e \in m.inputs : e.tick \notin DOMAIN r.remote}
        records == r.remoteChecksums
        popped == [r EXCEPT
            !.expectedSequence = @ + 1,
            !.pending = [s \in DOMAIN @ \ {m.sequence} |-> @[s]],
            !.receiving = TRUE]
        applied == Compared([popped EXCEPT
            !.ackInput = Max({@, m.ackInput}),
            !.ackChecksum = Max({@, m.ackChecksum}),
            !.changed = @ \/ Answered(r, m, fresh),
            !.remoteChecksums = [t \in DOMAIN records \cup DOMAIN m.checksums |->
                IF t \in DOMAIN records THEN records[t] ELSE m.checksums[t]]])
    IN  IF Malformed(r, m) THEN Fails(p, popped, "protocol", left)
        ELSE IF applied.mismatch # -1 THEN Fails(p, applied, "desync", left)
        ELSE IF fresh = {} THEN Admitted(p, applied, left)
        ELSE /\ Becomes(p, [applied EXCEPT !.staged = [t \in {e.tick : e \in fresh} |->
                              (CHOOSE e \in fresh : e.tick = t).pad]])
             /\ Leaves(p, left)

\* #receiveState: a packet joins the bounded reorder window; a duplicate is
\* dropped, and one that leaves a gap waits in the window
ReceiveState(p, i) ==
    LET r == [peer[p] EXCEPT !.changed = FALSE]
        m == wire[p][i]
        late == r.expectedSequence - m.sequence
    IN  /\ Listening(p) /\ Deliverable(p, i) /\ m.type = "state"
        /\ IF ~r.ready \/ late > Window \/ -late > Window
           THEN Fails(p, r, "protocol", Rest(p))
           ELSE IF late > 0 THEN UNCHANGED <<setup, peer>> /\ Leaves(p, Rest(p))
           ELSE IF late = 0 THEN ApplyState(p, r, m, Rest(p))
           ELSE /\ Becomes(p, [r EXCEPT !.pending = [s \in DOMAIN @ \cup {m.sequence} |->
                                                      IF s = m.sequence THEN m ELSE @[s]]])
                /\ Leaves(p, Rest(p))

\* The loop goes on with a packet that had arrived early
ApplyPending(p) ==
    LET r == peer[p]
    IN  /\ r.terminal = "none" /\ r.receiving /\ r.staged = NotStaged
        /\ r.expectedSequence \in DOMAIN r.pending
        /\ ApplyState(p, r, r.pending[r.expectedSequence], wire[p])

\* onRemoteContributionBatch accepts the rows: they are committed
ObserverAccepts(p) ==
    LET r == peer[p]
    IN  /\ r.terminal = "none" /\ r.staged # NotStaged
        /\ Admitted(p, [r EXCEPT !.remote = [t \in DOMAIN @ \cup DOMAIN r.staged |->
                            IF t \in DOMAIN @ THEN @[t] ELSE r.staged[t]]], wire[p])

ObserverRefuses(p) ==
    /\ "observer" \in Match.faults
    /\ peer[p].terminal = "none" /\ peer[p].staged # NotStaged
    /\ Fails(p, peer[p], "protocol", wire[p])

\* More messages wait than the receive queue holds
ReceiveOverflow(p) ==
    LET waiting == Len(wire[p]) + (IF peer[p].receiving THEN 1 ELSE 0)
    IN  /\ peer[p].terminal = "none"
        /\ waiting > MaxPending
        /\ Fails(p, peer[p], "protocol", wire[p])

-----------------------------------------------------------------------------
\* The calls of a caller: it adds a tick, holds its packet back, releases it,
\* or publishes it again; a repetition has nothing new and is bounded
LocalCall(p) ==
    \E ticks \in Match.batches, deferSend, repeat \in BOOLEAN :
        LET r == peer[p]
            new == ticks \ LocalTicks(r)
        IN  /\ r.owed < Match.maxCalls
            /\ deferSend => ticks \subseteq Match.deferTicks[p]
            /\ Match.inOrder => \A t \in ticks : 0..t \subseteq ticks \cup LocalTicks(r)
            /\ \E entries \in {f \in [ticks -> Pad] : \A t \in ticks : f[t] \in Match.sample[p][t]} :
               \E overrides \in Match.overrides[p] :
                  /\ repeat \/ (new = {} /\ (deferSend \/ ticks \cap r.deferred = {})) =>
                        r.nextSequence + r.owed < Match.maxRepeats
                  /\ AddLocalInputs(p, entries, overrides, deferSend, repeat)

Receive(p) ==
    \E i \in DOMAIN wire[p] : ReceiveHello(p, i) \/ ReceiveTerminal(p, i) \/ ReceiveState(p, i)

Next ==
    \E p \in Peer :
        \/ Start(p) \/ Prepared(p) \/ PreparationFails(p)
        \/ LocalCall(p) \/ AddChecksum(p)
        \/ \E flushFinal \in BOOLEAN : SetNativeProgress(p, flushFinal)
        \/ Disconnect(p)
        \/ SendState(p)
        \/ Receive(p) \/ ApplyPending(p)
        \/ ObserverAccepts(p) \/ ObserverRefuses(p) \/ ReceiveOverflow(p)

Spec == Init /\ [][Next]_vars

\* The caller's player goes on: a tick it has not yet published leaves
Publishes(p) ==
    \E t \in InputTick, pad \in Pad :
        /\ pad \in Match.sample[p][t]
        /\ t \notin LocalTicks(peer[p]) \ peer[p].deferred
        /\ peer[p].owed < Match.maxCalls
        /\ AddLocalInputs(p, [u \in {t} |-> pad], Nothing, FALSE, FALSE)

\* What goes on by itself: scheduled jobs, a reliable transport, an observer
\* that answers, a player and an engine that play on.  Each of these steps
\* uses up something finite, so weak fairness of their disjunction is enough.
GoesOn(p) ==
    \/ Start(p) \/ Prepared(p) \/ Publishes(p) \/ AddChecksum(p)
    \/ \E flushFinal \in BOOLEAN : SetNativeProgress(p, flushFinal)
    \/ SendState(p) \/ Receive(p) \/ ApplyPending(p) \/ ObserverAccepts(p)

FairSpec == Spec /\ \A p \in Peer : WF_vars(GoesOn(p))

-----------------------------------------------------------------------------
\* The fields of a peer keep their types, and its cursors their order: the
\* engine has run no frame it was not given and has compared none it has not
\* run, and a peer acknowledges no packet before it has admitted it.
TypeOK ==
    \A p \in Peer :
        LET r == peer[p]
        IN  /\ r.start \in {"none", "preparing", "sent", "failed"}
            /\ r.terminal \in {"none", "protocol", "desync", "disconnect"}
            /\ \A e \in ToSet(r.local) : e.tick \in InputTick /\ e.pad \in Pad
            /\ Cardinality(LocalTicks(r)) = Len(r.local)
            /\ DOMAIN r.native = LocalTicks(r)
            /\ r.deferred \subseteq LocalTicks(r)
            /\ DOMAIN r.remote \subseteq InputTick
            /\ r.compared <= r.emitted /\ r.emitted <= Len(r.pushed)
            /\ Len(r.pushed) <= SourceTicks
            /\ r.ackInput <= Contiguous(LocalTicks(r))
            /\ r.admittedSequence < r.expectedSequence

Abstract == INSTANCE AgreedHistory WITH history <- [p \in Peer |-> peer[p].pushed]

\* Two engines that are given their players' published pads are given the same
\* frames in the same order, whatever is delayed, and never a frame too few to
\* go on from.
ImplementsAgreedHistory == Abstract!Spec

\* A row that a peer acknowledges has passed its observer: the sender never
\* drops a row from its packets that the other side could still refuse.
AcknowledgedIsCommitted ==
    \A p \in Peer : 0..peer[p].ackInput \subseteq DOMAIN peer[Other(p)].remote

\* A contribution that the caller holds back is in no packet, although
\* acknowledgements and progress send packets in the meantime.
DeferredStaysLocal ==
    \A p \in Peer : \A i \in DOMAIN wire[Other(p)] :
        LET m == wire[Other(p)][i]
        IN  m.type = "state" => {e.tick : e \in m.inputs} \cap peer[p].deferred = {}

\* No frame beyond the neutral ones, nor any of them, is played unless both
\* peers agreed on the same match.
PlayersAgreed ==
    \A p \in Peer : peer[p].pushed # <<>> => peer[p].agreement = peer[Other(p)].agreement

\* What a peer has compared was the same on both sides, and what it reports as
\* the mismatch is the first frame on which the two engines differ.
DesyncIsFirst ==
    \A p \in Peer :
        LET mine == peer[p].pushed
            other == peer[Other(p)].pushed
        IN  /\ \A t \in 1..peer[p].compared : t <= Len(other) /\ mine[t] = other[t]
            /\ peer[p].mismatch # -1 =>
                   LET t == peer[p].mismatch + 1
                   IN  /\ t <= Len(mine) /\ t <= Len(other) /\ mine[t] # other[t]
                       /\ \A u \in 1..(t - 1) : mine[u] = other[u]

\* Honest peers never end each other over the protocol's bounds: the packet a
\* peer is to apply next is well formed.
HonestIsWellFormed ==
    \A p \in Peer : \A i \in DOMAIN wire[p] :
        LET r == peer[p]
            m == wire[p][i]
        IN  /\ r.terminal = "none" /\ m.type = "state" /\ ~r.receiving
            /\ m.sequence = r.expectedSequence
            => ~Malformed(r, m)

\* A hello that reaches a peer before its start ends the match
GreetedTooEarly == \E p \in Peer : peer[p].start = "none" /\ peer[p].terminal # "none"

\* Two peers that keep playing play every frame, although a packet carries a
\* bounded batch and nothing but an answer carries on from one batch to the
\* next.  Only a hello that comes too early can stop them.
MatchIsPlayed ==
    <>(GreetedTooEarly \/ \A p \in Peer : Len(peer[p].pushed) = SourceTicks)

=============================================================================
