---------------------------- MODULE NativeInputQueue ----------------------------
(***************************************************************************)
(* The native input queue of a networked session,                          *)
(* src/gameplay_net_input.c, between the two that call it: the frame       *)
(* callback of src/gameplay_menu_browser.cpp, which samples the local pad  *)
(* and asks for one agreed frame for each source step, and the page, which *)
(* pushes agreed frames, drains checksums, confirms and terminates.        *)
(*                                                                         *)
(* A callback is never interrupted by the page.  Agreed frames depend on   *)
(* the pads that the queue captured two ticks before, the queue's cursor   *)
(* on the frames and on a checksum ring that the page must drain.          *)
(***************************************************************************)
EXTENDS Integers, SequencesExt, FiniteSetsExt

CONSTANTS
    Pad,         \* what a player may hold
    InputTicks,  \* ticks with a local contribution
    Delay,       \* MELEE_WEB_NET_INPUT_DELAY
    Ring,        \* MELEE_WEB_NET_CHECKSUM_RING
    Budget,      \* source steps a callback may be granted
    Batch,       \* bound of the model: frames of one push
    MaxFaults    \* bound of the model: bad pads, pushes and refusals of the page

ASSUME QueueAssumption ==
    /\ InputTicks \in Nat \ {0} /\ Delay \in Nat /\ Ring \in Nat \ {0}
    /\ Budget \in Nat \ {0} /\ Batch \in Nat \ {0} /\ MaxFaults \in Nat
    /\ Pad \cap {"neutral", "blank"} = {}

MaxFrames == InputTicks + Delay
Neutral == "neutral"
Blank == "blank"       \* no frame, or one that does not decode
Tick == 0 .. MaxFrames - 1

VARIABLES
    required,    \* start_required: a lockstep session, with its start barrier
    recorded, confirmed,
    frames, pushed, cursor,
    ring, ringRead, ringWrite,
    terminal,
    capturing, captureCount, lastCursor,
    fresh,       \* a poll newer than the last capture: poll_serial > last_poll_serial
    steps,       \* source steps left to the callback that runs
    pads,        \* the page: the contributions published to it, in order
    agreed,      \* the page: the agreed frames, in order
    accepted,    \* the page: the frames whose push was accepted
    drained,     \* the page: the ticks of the checksums it has read
    faults

start == <<required, recorded, confirmed>>
queue == <<frames, pushed>>
checks == <<ring, ringRead, ringWrite>>
capture == <<capturing, captureCount, lastCursor, fresh>>
page == <<pads, agreed, accepted, drained>>
vars == <<start, queue, cursor, checks, terminal, capture, steps, page, faults>>

NoTerminal == "none"
Fault == faults < MaxFaults /\ faults' = faults + 1

-----------------------------------------------------------------------------
(* The frame callback.                                                     *)

\* Fault: a tick that was sampled before a wait lifts the restriction.
CapturePendingHere ==
    terminal = NoTerminal /\ capturing /\ confirmed /\ captureCount < InputTicks
    /\ captureCount <= cursor

\* melee_web_net_local_capture_pending: while samples are missing a callback
\* may take one step only, for it polls the pad once.
CapturePending ==
    terminal = NoTerminal /\ capturing /\ confirmed /\ captureCount < InputTicks

BeginCallback ==
    /\ steps = 0 /\ fresh' = TRUE
    /\ steps' \in 1 .. (IF CapturePending THEN 1 ELSE Budget)
    /\ UNCHANGED <<start, queue, cursor, checks, terminal, capturing, captureCount,
                   lastCursor, page, faults>>

Ends(kind) == terminal' = IF terminal = NoTerminal THEN kind ELSE terminal

\* The same tick, revisited after a wait.
Sampled == captureCount > 0 /\ cursor = lastCursor

\* Fault: a wait that revisits a cursor samples it once more.
CaptureVerdictAgain ==
    IF capturing /\ terminal # NoTerminal THEN "stop"
    ELSE IF ~capturing \/ ~confirmed THEN "pass"
    ELSE IF cursor >= InputTicks
         THEN IF captureCount < InputTicks THEN "fail" ELSE "pass"
    ELSE IF captureCount > 0 /\ ~fresh THEN "pass"
    ELSE "sample"

\* melee_web_net_capture_local_input: what it does at this cursor.
CaptureVerdict ==
    IF capturing /\ terminal # NoTerminal THEN "stop"
    ELSE IF ~capturing \/ ~confirmed THEN "pass"
    ELSE IF cursor >= InputTicks
         THEN IF captureCount # InputTicks THEN "fail" ELSE "pass"
    ELSE IF Sampled THEN "pass"
    ELSE IF cursor # captureCount \/ (captureCount > 0 /\ ~fresh) THEN "fail"
    ELSE "sample"

\* Fault: one frame past the frontier.
ReadyEarly ==
    /\ terminal = NoTerminal
    /\ required => recorded /\ confirmed
    /\ cursor <= pushed /\ cursor < MaxFrames
    /\ ringWrite - ringRead < Ring

\* Fault: the oldest record is overwritten.
ReadyUnread ==
    /\ terminal = NoTerminal
    /\ required => recorded /\ confirmed
    /\ cursor < pushed

\* melee_web_net_before_step: the queue has a frame to offer.
Ready ==
    /\ terminal = NoTerminal
    /\ required => recorded /\ confirmed
    /\ cursor < pushed
    /\ ringWrite - ringRead < Ring

\* melee_web_net_before_step, the source tick, melee_web_net_after_step: the
\* callback goes on with its next step, or is over when there is no frame.
TakeStep ==
    IF Ready
    THEN /\ cursor' = cursor + 1
         /\ ring' = [ring EXCEPT ![ringWrite % Ring] = cursor]
         /\ ringWrite' = ringWrite + 1
         /\ steps' = steps - 1
         /\ recorded' = TRUE
         /\ UNCHANGED <<required, confirmed, ringRead>>
    ELSE /\ steps' = 0
         /\ recorded' = (recorded \/ (required /\ terminal = NoTerminal))
         /\ UNCHANGED <<cursor, checks, required, confirmed>>

Step ==
    /\ steps > 0 /\ CaptureVerdict = "pass" /\ TakeStep
    /\ UNCHANGED <<queue, terminal, capture, page, faults>>

SampleStep ==
    /\ steps > 0 /\ CaptureVerdict = "sample"
    /\ \E pad \in Pad : pads' = Append(pads, pad)
    /\ captureCount' = captureCount + 1 /\ lastCursor' = cursor /\ fresh' = FALSE
    /\ TakeStep
    /\ UNCHANGED <<queue, terminal, capturing, agreed, accepted, drained, faults>>

\* The identity of the prepared state cannot be recorded.
StartFails ==
    /\ steps > 0 /\ CaptureVerdict = "pass" /\ Fault
    /\ required /\ ~recorded /\ terminal = NoTerminal
    /\ steps' = 0 /\ Ends("start_identity")
    /\ UNCHANGED <<start, queue, cursor, checks, capture, page>>

\* The pad is in error, or the page refuses it.
SampleRefused ==
    /\ steps > 0 /\ CaptureVerdict = "sample" /\ Fault
    /\ steps' = 0 /\ Ends("protocol")
    /\ UNCHANGED <<start, queue, cursor, checks, capture, page>>

CaptureStops ==
    /\ steps > 0 /\ CaptureVerdict \in {"stop", "fail"} /\ steps' = 0
    /\ IF CaptureVerdict = "fail" THEN Ends("protocol") ELSE UNCHANGED terminal
    /\ UNCHANGED <<start, queue, cursor, checks, capture, page, faults>>

-----------------------------------------------------------------------------
(* The page, between two callbacks.                                        *)
PageRuns == steps = 0

EnableCapture ==
    /\ PageRuns /\ required /\ ~confirmed /\ ~capturing /\ agreed = <<>>
    /\ capturing' = TRUE
    /\ UNCHANGED <<start, queue, cursor, checks, terminal, captureCount, lastCursor,
                   fresh, steps, page, faults>>

ConfirmStart ==
    /\ PageRuns /\ required /\ recorded /\ terminal = NoTerminal
    /\ confirmed' = TRUE
    /\ UNCHANGED <<required, recorded, queue, cursor, checks, terminal, capture, steps,
                   page, faults>>

\* The next agreed frame: neutral for the delay, then what both held; without
\* capture the local pads come from the page itself.
Agree ==
    LET t == Len(agreed) IN
    /\ PageRuns /\ t < MaxFrames
    /\ CASE t < Delay -> agreed' = Append(agreed, Neutral)
         [] t >= Delay /\ capturing ->
              t - Delay < Len(pads) /\ agreed' = Append(agreed, pads[t - Delay + 1])
         [] OTHER -> \E pad \in Pad : agreed' = Append(agreed, pad)
    /\ UNCHANGED <<start, queue, cursor, checks, terminal, capture, steps, pads, accepted,
                   drained, faults>>

\* The queue after `envelope` at `first`; a frame that does not decode is Blank.
Written(first, envelope) ==
    [t \in Tick |-> IF t >= pushed /\ t - first \in 0 .. Len(envelope) - 1
                    THEN envelope[t - first + 1] ELSE frames[t]]

Conflicts(first, envelope) ==
    \E i \in DOMAIN envelope :
        \/ envelope[i] = Blank
        \/ first + i - 1 < pushed /\ envelope[i] # frames[first + i - 1]

\* Fault: a gap is filled with nothing.
PushIndexedOverGap(first, envelope) ==
    IF terminal # NoTerminal \/ first + Len(envelope) > MaxFrames
    THEN UNCHANGED <<queue, terminal, accepted>>
    ELSE IF Conflicts(first, envelope)
    THEN Ends("protocol") /\ UNCHANGED <<queue, accepted>>
    ELSE /\ frames' = Written(first, envelope)
         /\ pushed' = Max({pushed, first + Len(envelope)})
         /\ accepted' = Max({accepted, first + Len(envelope)})
         /\ UNCHANGED terminal

\* Fault: a push is taken behind the terminal.
PushIndexedAlways(first, envelope) ==
    IF first + Len(envelope) > MaxFrames
    THEN UNCHANGED <<queue, terminal, accepted>>
    ELSE IF first > pushed \/ Conflicts(first, envelope)
    THEN Ends("protocol") /\ UNCHANGED <<queue, accepted>>
    ELSE /\ frames' = Written(first, envelope)
         /\ pushed' = Max({pushed, first + Len(envelope)})
         /\ accepted' = Max({accepted, first + Len(envelope)})
         /\ UNCHANGED terminal

\* melee_web_net_push_indexed: a gap, a frame that does not decode and one that
\* differs from what the queue has end the session.
PushIndexed(first, envelope) ==
    IF terminal # NoTerminal \/ first + Len(envelope) > MaxFrames
    THEN UNCHANGED <<queue, terminal, accepted>>
    ELSE IF first > pushed \/ Conflicts(first, envelope)
    THEN Ends("protocol") /\ UNCHANGED <<queue, accepted>>
    ELSE /\ frames' = Written(first, envelope)
         /\ pushed' = Max({pushed, first + Len(envelope)})
         /\ accepted' = Max({accepted, first + Len(envelope)})
         /\ UNCHANGED terminal

Envelope(first, n) == SubSeq(agreed, first + 1, first + n)
PageFrame == <<start, cursor, checks, capture, steps, pads, agreed, drained>>

\* The frames after those accepted; or some of them once more.
Push ==
    /\ PageRuns /\ required
    /\ \E first \in 0 .. accepted, n \in 1 .. Batch :
         /\ first + n <= Len(agreed) /\ PushIndexed(first, Envelope(first, n))
    /\ UNCHANGED <<PageFrame, faults>>

\* A gap, or an envelope of which one frame is changed or damaged.
PushFaulty ==
    /\ PageRuns /\ required /\ Fault
    /\ \E first \in 0 .. accepted + 1, n \in 1 .. Batch :
         /\ first + n <= Len(agreed)
         /\ IF first > accepted THEN PushIndexed(first, Envelope(first, n))
            ELSE \E i \in 1 .. n, value \in Pad \cup {Blank} :
                   /\ value = Blank \/ first + i <= accepted
                   /\ PushIndexed(first, [Envelope(first, n) EXCEPT ![i] = value])
    /\ UNCHANGED PageFrame

\* melee_web_net_push of a sequential session: a frame that does not decode
\* leaves what was decoded before it behind the frontier.
PushSequential ==
    /\ PageRuns /\ ~required
    /\ \E n \in 1 .. Batch, bad \in BOOLEAN :
         /\ accepted + n <= Len(agreed)
         /\ IF terminal # NoTerminal THEN UNCHANGED <<queue, accepted, faults>>
            ELSE IF bad
            THEN /\ Fault /\ UNCHANGED <<pushed, accepted>>
                 /\ frames' = Written(accepted, Envelope(accepted, n - 1))
            ELSE /\ frames' = Written(accepted, Envelope(accepted, n))
                 /\ pushed' = pushed + n /\ accepted' = accepted + n
                 /\ UNCHANGED faults
    /\ UNCHANGED <<PageFrame, terminal>>

\* Fault: only a full ring is drained.
DrainFull ==
    /\ PageRuns /\ ringWrite - ringRead = Ring
    /\ drained' = drained \o [i \in 1 .. Ring |-> ring[(ringRead + i - 1) % Ring]]
    /\ ringRead' = ringWrite
    /\ UNCHANGED <<start, queue, cursor, ring, ringWrite, terminal, capture, steps, pads,
                   agreed, accepted, faults>>

\* melee_web_net_checksum_drain, oldest first.
Drain ==
    /\ PageRuns /\ ringRead < ringWrite
    /\ \E n \in 1 .. ringWrite - ringRead :
         /\ drained' = drained \o [i \in 1 .. n |-> ring[(ringRead + i - 1) % Ring]]
         /\ ringRead' = ringRead + n
    /\ UNCHANGED <<start, queue, cursor, ring, ringWrite, terminal, capture, steps, pads,
                   agreed, accepted, faults>>

\* A remote disconnect, a desync, a failure of the page.
Terminate ==
    /\ PageRuns /\ terminal = NoTerminal /\ Fault
    /\ \E kind \in {"desync", "disconnect"} : Ends(kind)
    /\ UNCHANGED <<start, queue, cursor, checks, capture, steps, page>>

-----------------------------------------------------------------------------
Init ==
    /\ required \in BOOLEAN /\ recorded = FALSE /\ confirmed = ~required
    /\ frames = [t \in Tick |-> Blank] /\ pushed = 0 /\ cursor = 0
    /\ ring = [i \in 0 .. Ring - 1 |-> -1] /\ ringRead = 0 /\ ringWrite = 0
    /\ terminal = NoTerminal
    /\ capturing = FALSE /\ captureCount = 0 /\ lastCursor = 0 /\ fresh = FALSE
    /\ steps = 0
    /\ pads = <<>> /\ agreed = <<>> /\ accepted = 0 /\ drained = <<>> /\ faults = 0

HostStep == BeginCallback \/ Step \/ SampleStep \/ CaptureStops

Next ==
    \/ HostStep \/ StartFails \/ SampleRefused
    \/ EnableCapture \/ ConfirmStart \/ Agree \/ Push \/ PushFaulty \/ PushSequential
    \/ Drain \/ Terminate

\* The page's tasks and the callbacks take turns for ever, and the other peer
\* keeps its part of the agreement.
Advances == (Push \/ PushSequential) /\ pushed' > pushed

Fairness ==
    /\ WF_vars(BeginCallback) /\ WF_vars(Step \/ SampleStep \/ CaptureStops)
    /\ SF_vars(ConfirmStart) /\ SF_vars(Agree) /\ SF_vars(Advances)
    /\ SF_vars(Drain)

Spec == Init /\ [][Next]_vars /\ Fairness

-----------------------------------------------------------------------------
\* The fields of NetSession keep their types, and its cursors their order: no
\* step is taken past the frames pushed, nor without its checksum record.
TypeOK ==
    /\ pushed \in 0 .. MaxFrames /\ cursor \in 0 .. pushed
    /\ frames \in [Tick -> Pad \cup {Neutral, Blank}]
    /\ ringWrite = cursor /\ ringRead \in 0 .. ringWrite
    /\ terminal \in {NoTerminal, "desync", "disconnect", "protocol", "start_identity"}
    /\ steps \in 0 .. Budget
    /\ lastCursor \in Tick

\* What the source consumes is what was agreed, each frame once and in order,
\* through retransmission, overlap and refusal; and a push counts for both
\* sides as a whole or not at all.
FramesAreAgreed ==
    /\ pushed = accepted
    /\ \A t \in 0 .. pushed - 1 : frames[t] = agreed[t + 1]

\* "Never drop a checksum": what was drained and what the ring still holds are
\* the records of all ticks the source has run, in order.
ChecksumsAreComplete ==
    /\ ringWrite - ringRead <= Ring
    /\ drained \o [i \in 1 .. ringWrite - ringRead |-> ring[(ringRead + i - 1) % Ring]]
         = [i \in 1 .. cursor |-> i - 1]

\* Each tick has one contribution of its own, sampled before its step and
\* never again, also when a wait revisits the tick on later callbacks.
CaptureIsOnce ==
    /\ captureCount = Len(pads)
    /\ capturing =>
         /\ cursor <= InputTicks => captureCount \in {cursor, cursor + 1}
         /\ cursor > InputTicks => captureCount = InputTicks

\* Nothing but a fault ends the session: however callbacks, waits, pushes and
\* drains interleave, no callback reaches a second cursor with the poll of the
\* first while samples are missing.
HonestNeverEnds == faults = 0 => terminal = NoTerminal

\* Nothing moves behind a terminal, and its first cause stays.
TerminalStops ==
    [][terminal # NoTerminal =>
         UNCHANGED <<terminal, cursor, pads, pushed, confirmed>>]_vars

\* Queue, page and callback do not wait for each other: a session without a
\* fault plays all its ticks, and every checksum is read.
SessionPlays == []<>(faults > 0 \/ (cursor = MaxFrames /\ Len(drained) = MaxFrames))

=============================================================================
