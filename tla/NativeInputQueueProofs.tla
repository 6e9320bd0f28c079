----------------------- MODULE NativeInputQueueProofs -----------------------
(***************************************************************************)
(* Proofs about NativeInputQueue for every value of its constants.         *)
(***************************************************************************)
EXTENDS NativeInputQueue, BoundedSets, SequenceTheorems

Agreed == Pad \cup {Neutral}

TypeInv ==
    /\ required \in BOOLEAN /\ recorded \in BOOLEAN /\ confirmed \in BOOLEAN
    /\ frames \in [Tick -> Pad \cup {Neutral, Blank}]
    /\ pushed \in Nat /\ cursor \in Nat /\ cursor <= pushed
    /\ ring \in [0 .. Ring - 1 -> Int]
    /\ ringRead \in Nat /\ ringRead <= ringWrite /\ ringWrite = cursor
    /\ terminal \in {NoTerminal, "desync", "disconnect", "protocol", "start_identity"}
    /\ capturing \in BOOLEAN /\ captureCount \in 0 .. InputTicks /\ lastCursor \in Tick
    /\ fresh \in BOOLEAN
    /\ steps \in 0 .. Budget
    /\ pads \in Seq(Pad) /\ agreed \in Seq(Agreed) /\ Len(agreed) <= MaxFrames
    /\ accepted \in 0 .. Len(agreed) /\ faults \in Nat

\* The ring holds the records that are not drained, each at its place
RingInv ==
    /\ ringWrite - ringRead <= Ring
    /\ drained = [i \in 1 .. ringRead |-> i - 1]
    /\ \A k \in ringRead .. ringWrite - 1 : ring[k % Ring] = k

\* A session with a start barrier consumes nothing before it is confirmed, and
\* only such a session captures
BarrierInv ==
    /\ required /\ ~confirmed => cursor = 0 /\ captureCount = 0
    /\ ~required => confirmed
    /\ capturing => required
    /\ ~capturing => captureCount = 0

\* The last tick sampled is the one at the cursor or the one before it
CaptureInv ==
    /\ captureCount = Len(pads)
    /\ capturing /\ cursor < InputTicks =>
          \/ captureCount = cursor /\ (cursor > 0 => lastCursor = cursor - 1)
          \/ captureCount = cursor + 1 /\ lastCursor = cursor
    /\ capturing /\ cursor >= InputTicks => captureCount = InputTicks

\* While samples are missing a callback takes one step, with a poll of its own
PollInv == steps > 0 /\ CapturePending => steps = 1 /\ fresh

IInv ==
    /\ TypeInv /\ RingInv /\ BarrierInv /\ CaptureInv /\ PollInv
    /\ FramesAreAgreed /\ HonestNeverEnds

-----------------------------------------------------------------------------
LEMMA ModApart ==
    ASSUME NEW a \in Nat, NEW b \in Nat, NEW n \in Nat \ {0}, a < b, b < a + n
    PROVE  a % n # b % n
<1> SUFFICES ASSUME a % n = b % n  PROVE FALSE
  OBVIOUS
<1> DEFINE x == a \div n
           y == b \div n
<1>1. x \in Int /\ y \in Int
  OBVIOUS
<1>2. a = (n * x) + (a % n) /\ b = (n * y) + (b % n)
  OBVIOUS
<1> HIDE DEF x, y
<1>3. b - a = n * (y - x)
  BY <1>1, <1>2
<1>4. y - x < 1 \/ y - x >= 1
  BY <1>1
<1>5. QED
  BY <1>1, <1>3, <1>4

LEMMA InitInv == Init => IInv
<1> SUFFICES ASSUME Init  PROVE IInv
  OBVIOUS
<1> USE QueueAssumption DEF Init
<1>1. TypeInv
  BY DEF TypeInv, Tick, MaxFrames, NoTerminal, Blank, Neutral, Agreed
<1>2. RingInv
  BY DEF RingInv
<1>3. BarrierInv /\ CaptureInv /\ PollInv
  BY DEF BarrierInv, CaptureInv, PollInv
<1>4. FramesAreAgreed /\ HonestNeverEnds
  BY DEF FramesAreAgreed, HonestNeverEnds
<1>5. QED
  BY <1>1, <1>2, <1>3, <1>4 DEF IInv

\* A callback starts between two page tasks, with a new poll of the pad.
LEMMA BeginCallbackInv == IInv /\ BeginCallback => IInv'
<1> SUFFICES ASSUME IInv, BeginCallback  PROVE IInv'
  OBVIOUS
<1> USE QueueAssumption DEF IInv, BeginCallback, start, queue, checks, capture, page
<1>1. TypeInv'
  BY DEF TypeInv
<1>2. RingInv' /\ BarrierInv' /\ CaptureInv'
  BY DEF RingInv, BarrierInv, CaptureInv
<1>3. PollInv'
  BY DEF PollInv, CapturePending
<1>4. FramesAreAgreed' /\ HonestNeverEnds'
  BY DEF FramesAreAgreed, HonestNeverEnds
<1>5. QED
  BY <1>1, <1>2, <1>3, <1>4

\* A source step consumes one frame and leaves one record, if the queue is
\* ready, and else ends the callback.
LEMMA TakeStepInv ==
    ASSUME IInv, TakeStep, steps > 0, UNCHANGED <<queue, terminal, agreed, accepted, drained>>
    PROVE  /\ RingInv' /\ FramesAreAgreed'
           /\ recorded' \in BOOLEAN /\ UNCHANGED <<required, confirmed>>
           /\ ring' \in [0 .. Ring - 1 -> Int] /\ ringRead' = ringRead
           /\ cursor' \in Nat /\ cursor' <= pushed /\ ringWrite' = cursor'
           /\ steps' \in 0 .. Budget /\ steps' < steps
           /\ \/ cursor' = cursor
              \/ Ready /\ cursor' = cursor + 1
<1> USE QueueAssumption DEF IInv
<1>1. CASE Ready
  <2>1. /\ cursor' = cursor + 1 /\ ringWrite' = ringWrite + 1 /\ steps' = steps - 1
        /\ ring' = [ring EXCEPT ![ringWrite % Ring] = cursor]
        /\ recorded' = TRUE /\ UNCHANGED <<required, confirmed, ringRead>>
    BY <1>1 DEF TakeStep
  <2>2. ringWrite % Ring \in 0 .. Ring - 1
    BY DEF TypeInv
  <2>3. ring' \in [0 .. Ring - 1 -> Int]
    BY <2>1, <2>2 DEF TypeInv
  <2>4. ASSUME NEW k \in ringRead .. ringWrite  PROVE ring'[k % Ring] = k
    <3>1. k \in Nat /\ ringWrite \in Nat /\ k % Ring \in 0 .. Ring - 1
      BY DEF TypeInv
    <3>2. CASE k = ringWrite
      BY <2>1, <2>2, <3>2 DEF TypeInv
    <3>3. CASE k # ringWrite
      <4>1. k < ringWrite /\ ringWrite < k + Ring
        BY <1>1, <3>1, <3>3 DEF Ready, TypeInv
      <4>2. k % Ring # ringWrite % Ring
        BY <3>1, <4>1, ModApart
      <4>3. ring[k % Ring] = k
        <5>1. k \in ringRead .. ringWrite - 1
          BY <4>1 DEF TypeInv
        <5>2. QED
          BY <5>1 DEF RingInv
      <4>4. QED
        BY <2>1, <3>1, <4>2, <4>3 DEF TypeInv
    <3>4. QED
      BY <3>2, <3>3
  <2>5. RingInv'
    BY <1>1, <2>1, <2>4 DEF RingInv, TypeInv, Ready
  <2>6. QED
    BY <1>1, <2>1, <2>3, <2>5 DEF TypeInv, FramesAreAgreed, queue, Ready
<1>2. CASE ~Ready
  BY <1>2 DEF TakeStep, TypeInv, RingInv, FramesAreAgreed, queue, checks
<1>3. QED
  BY <1>1, <1>2

LEMMA StepInv == IInv /\ Step => IInv'
<1> SUFFICES ASSUME IInv, Step  PROVE IInv'
  OBVIOUS
<1> USE QueueAssumption DEF IInv, Step, queue, capture, page
<1>1. UNCHANGED <<queue, terminal, agreed, accepted, drained>> /\ TakeStep /\ steps > 0
  OBVIOUS
<1>2. /\ RingInv' /\ FramesAreAgreed'
      /\ recorded' \in BOOLEAN /\ UNCHANGED <<required, confirmed>>
      /\ ring' \in [0 .. Ring - 1 -> Int] /\ ringRead' = ringRead
      /\ cursor' \in Nat /\ cursor' <= pushed /\ ringWrite' = cursor'
      /\ steps' \in 0 .. Budget /\ steps' < steps
      /\ \/ cursor' = cursor
         \/ Ready /\ cursor' = cursor + 1
  BY <1>1, TakeStepInv
<1>3. TypeInv'
  BY <1>2 DEF TypeInv, Tick
<1>4. BarrierInv'
  BY <1>2 DEF BarrierInv, Ready
<1>5. CaptureInv'
  <2>1. CASE cursor' = cursor
    BY <1>2, <2>1 DEF CaptureInv
  <2>2. CASE Ready /\ cursor' = cursor + 1 /\ capturing
    <3>1. confirmed /\ terminal = NoTerminal
      BY <2>2 DEF BarrierInv, Ready
    <3>2. cursor >= InputTicks \/ (captureCount > 0 /\ cursor = lastCursor)
      BY <2>2, <3>1 DEF CaptureVerdict, Sampled, TypeInv
    <3>3. QED
      BY <1>2, <2>2, <3>2 DEF CaptureInv, TypeInv
  <2>3. CASE ~capturing
    BY <2>3 DEF CaptureInv
  <2>4. QED
    BY <1>2, <2>1, <2>2, <2>3
<1>6. PollInv'
  BY <1>2 DEF PollInv, CapturePending, TypeInv
<1>7. HonestNeverEnds'
  BY DEF HonestNeverEnds
<1>8. QED
  BY <1>2, <1>3, <1>4, <1>5, <1>6, <1>7

LEMMA SampleStepInv == IInv /\ SampleStep => IInv'
<1> SUFFICES ASSUME IInv, SampleStep  PROVE IInv'
  OBVIOUS
<1> USE QueueAssumption DEF IInv, queue
<1>1. UNCHANGED <<queue, terminal, agreed, accepted, drained>> /\ TakeStep /\ steps > 0
  BY DEF SampleStep
<1>2. /\ RingInv' /\ FramesAreAgreed'
      /\ recorded' \in BOOLEAN /\ UNCHANGED <<required, confirmed>>
      /\ ring' \in [0 .. Ring - 1 -> Int] /\ ringRead' = ringRead
      /\ cursor' \in Nat /\ cursor' <= pushed /\ ringWrite' = cursor'
      /\ steps' \in 0 .. Budget /\ steps' < steps
      /\ \/ cursor' = cursor
         \/ Ready /\ cursor' = cursor + 1
  BY <1>1, TakeStepInv
<1>3. /\ capturing /\ terminal = NoTerminal /\ confirmed /\ cursor < InputTicks
      /\ ~Sampled /\ cursor = captureCount
  BY DEF SampleStep, CaptureVerdict, TypeInv
<1>4. /\ captureCount' = captureCount + 1 /\ lastCursor' = cursor
      /\ UNCHANGED <<frames, pushed, terminal, capturing, agreed, accepted, drained, faults>>
  BY DEF SampleStep
<1>5. PICK pad \in Pad : pads' = Append(pads, pad)
  BY DEF SampleStep
<1>6. pads' \in Seq(Pad) /\ Len(pads') = Len(pads) + 1
  BY <1>5 DEF TypeInv
<1> fresh' \in BOOLEAN
  BY DEF SampleStep
<1>7. cursor \in Tick
  BY <1>3 DEF TypeInv, Tick, MaxFrames
<1>8. TypeInv'
  <2>1. captureCount' \in 0 .. InputTicks /\ lastCursor' \in Tick
    BY <1>3, <1>4, <1>7 DEF TypeInv
  <2>2. QED
    BY <1>2, <1>4, <1>6, <2>1 DEF TypeInv
<1>9. BarrierInv'
  BY <1>2, <1>3, <1>4 DEF BarrierInv
<1>10. CaptureInv'
  <2>1. captureCount' = Len(pads')
    BY <1>4, <1>6 DEF CaptureInv, TypeInv
  <2>2. captureCount \in Nat /\ cursor = captureCount /\ cursor < InputTicks
    BY <1>3 DEF TypeInv
  <2>3. CASE cursor' = cursor
    BY <1>4, <2>1, <2>2, <2>3 DEF CaptureInv
  <2>4. CASE cursor' = cursor + 1
    BY <1>4, <2>1, <2>2, <2>4 DEF CaptureInv
  <2>5. QED
    BY <1>2, <2>3, <2>4
<1>11. PollInv'
  <2>1. steps = 1
    BY <1>1, <1>3 DEF PollInv, CapturePending, TypeInv
  <2>2. QED
    BY <1>2, <2>1 DEF PollInv, TypeInv
<1>12. HonestNeverEnds'
  BY <1>4 DEF HonestNeverEnds
<1>13. QED
  BY <1>2, <1>8, <1>9, <1>10, <1>11, <1>12

LEMMA StartFailsInv == IInv /\ StartFails => IInv'
<1> SUFFICES ASSUME IInv, StartFails  PROVE IInv'
  OBVIOUS
<1> USE QueueAssumption DEF IInv, start, queue, checks, capture, page
<1>1. /\ UNCHANGED <<start, queue, cursor, checks, capture, page>>
      /\ steps' = 0 /\ faults' = faults + 1 /\ terminal' = "start_identity"
  BY DEF StartFails, Fault, Ends
<1>2. TypeInv' /\ PollInv'
  BY <1>1 DEF TypeInv, PollInv
<1>3. RingInv' /\ BarrierInv' /\ CaptureInv' /\ FramesAreAgreed'
  BY <1>1 DEF RingInv, BarrierInv, CaptureInv, FramesAreAgreed
<1>4. HonestNeverEnds'
  BY <1>1 DEF HonestNeverEnds, TypeInv
<1>5. QED
  BY <1>2, <1>3, <1>4

LEMMA SampleRefusedInv == IInv /\ SampleRefused => IInv'
<1> SUFFICES ASSUME IInv, SampleRefused  PROVE IInv'
  OBVIOUS
<1> USE QueueAssumption DEF IInv, start, queue, checks, capture, page
<1>1. /\ UNCHANGED <<start, queue, cursor, checks, capture, page>>
      /\ steps' = 0 /\ faults' = faults + 1 /\ terminal' \in {terminal, "protocol"}
  BY DEF SampleRefused, Fault, Ends
<1>2. TypeInv' /\ PollInv'
  BY <1>1 DEF TypeInv, PollInv
<1>3. RingInv' /\ BarrierInv' /\ CaptureInv' /\ FramesAreAgreed'
  BY <1>1 DEF RingInv, BarrierInv, CaptureInv, FramesAreAgreed
<1>4. HonestNeverEnds'
  BY <1>1 DEF HonestNeverEnds, TypeInv
<1>5. QED
  BY <1>2, <1>3, <1>4

\* No callback without a fault fails at its capture: the cursor is where the
\* samples are, and a sample that is missing has a poll of its own.
LEMMA NeverFails == IInv /\ steps > 0 => CaptureVerdict # "fail"
<1> SUFFICES ASSUME IInv, steps > 0, CaptureVerdict = "fail"  PROVE  FALSE
  OBVIOUS
<1> USE QueueAssumption DEF IInv
<1>1. capturing /\ terminal = NoTerminal /\ confirmed
  BY DEF CaptureVerdict, TypeInv
<1>2. cursor \in Nat /\ captureCount \in Nat /\ captureCount <= InputTicks
  BY DEF TypeInv
<1>3. CASE cursor >= InputTicks
  <2>1. captureCount = InputTicks
    BY <1>1, <1>3 DEF CaptureInv
  <2>2. QED
    BY <1>1, <1>3, <2>1 DEF CaptureVerdict, TypeInv
<1>4. CASE cursor < InputTicks
  <2>1. ~(cursor >= InputTicks)
    BY <1>2, <1>4
  <2>2. /\ ~Sampled
        /\ cursor # captureCount \/ (captureCount > 0 /\ ~fresh)
    BY <1>1, <2>1 DEF CaptureVerdict, TypeInv
  <2>3. captureCount = cursor
    BY <1>1, <1>2, <1>4, <2>2 DEF CaptureInv, Sampled
  <2>4. captureCount < InputTicks
    BY <1>4, <2>3
  <2>5. CapturePending
    BY <1>1, <2>4 DEF CapturePending
  <2>6. QED
    BY <2>2, <2>3, <2>5 DEF PollInv
<1>5. QED
  BY <1>2, <1>3, <1>4

LEMMA CaptureStopsInv == IInv /\ CaptureStops => IInv'
<1> SUFFICES ASSUME IInv, CaptureStops  PROVE IInv'
  OBVIOUS
<1> USE QueueAssumption DEF IInv, start, queue, checks, capture, page
<1>1. /\ UNCHANGED <<start, queue, cursor, checks, capture, page, faults, terminal>>
      /\ steps' = 0
  BY NeverFails DEF CaptureStops
<1>2. TypeInv' /\ PollInv'
  BY <1>1 DEF TypeInv, PollInv
<1>3. RingInv' /\ BarrierInv' /\ CaptureInv' /\ FramesAreAgreed' /\ HonestNeverEnds'
  BY <1>1 DEF RingInv, BarrierInv, CaptureInv, FramesAreAgreed, HonestNeverEnds
<1>4. QED
  BY <1>2, <1>3

-----------------------------------------------------------------------------
(* The page *)

LEMMA EnableCaptureInv == IInv /\ EnableCapture => IInv'
<1> SUFFICES ASSUME IInv, EnableCapture  PROVE IInv'
  OBVIOUS
<1> USE QueueAssumption DEF IInv, EnableCapture, PageRuns, start, queue, checks, page
<1>1. TypeInv' /\ PollInv'
  BY DEF TypeInv, PollInv
<1>2. RingInv' /\ FramesAreAgreed' /\ HonestNeverEnds'
  BY DEF RingInv, FramesAreAgreed, HonestNeverEnds
<1>3. BarrierInv'
  BY DEF BarrierInv
<1>4. CaptureInv'
  BY DEF CaptureInv, BarrierInv
<1>5. QED
  BY <1>1, <1>2, <1>3, <1>4

LEMMA ConfirmStartInv == IInv /\ ConfirmStart => IInv'
<1> SUFFICES ASSUME IInv, ConfirmStart  PROVE IInv'
  OBVIOUS
<1> USE QueueAssumption DEF IInv, ConfirmStart, PageRuns, queue, checks, capture, page
<1>1. TypeInv' /\ PollInv'
  BY DEF TypeInv, PollInv
<1>2. RingInv' /\ FramesAreAgreed' /\ HonestNeverEnds'
  BY DEF RingInv, FramesAreAgreed, HonestNeverEnds
<1>3. BarrierInv' /\ CaptureInv'
  BY DEF BarrierInv, CaptureInv
<1>4. QED
  BY <1>1, <1>2, <1>3

LEMMA AgreeInv == IInv /\ Agree => IInv'
<1> SUFFICES ASSUME IInv, Agree  PROVE IInv'
  OBVIOUS
<1> USE QueueAssumption DEF IInv, start, queue, checks, capture
<1>1. /\ UNCHANGED <<start, queue, cursor, checks, terminal, capture, steps, pads, accepted,
                     drained, faults>>
      /\ Len(agreed) < MaxFrames /\ steps = 0
  BY DEF Agree, PageRuns
<1>2. PICK pad \in Agreed : agreed' = Append(agreed, pad)
  <2>1. CASE Len(agreed) >= Delay /\ capturing
    <3>1. Len(agreed) \in Nat /\ Len(pads) \in Nat
      BY DEF TypeInv
    <3>2. ~(Len(agreed) < Delay)
      BY <2>1, <3>1
    <3>3. /\ Len(agreed) - Delay < Len(pads)
          /\ agreed' = Append(agreed, pads[Len(agreed) - Delay + 1])
      BY <2>1, <3>2 DEF Agree
    <3>4. pads[Len(agreed) - Delay + 1] \in Pad
      <4>1. Len(agreed) - Delay + 1 \in 1 .. Len(pads)
        BY <2>1, <3>1, <3>3
      <4>2. QED
        BY <4>1 DEF TypeInv
    <3>5. QED
      BY <3>3, <3>4 DEF Agreed
  <2>2. QED
    BY <2>1 DEF Agree, Agreed
<1>3. /\ agreed' \in Seq(Agreed) /\ Len(agreed') = Len(agreed) + 1
      /\ \A t \in 1 .. Len(agreed) : agreed'[t] = agreed[t]
  BY <1>2 DEF TypeInv
<1>4. TypeInv' /\ PollInv'
  BY <1>1, <1>3 DEF TypeInv, PollInv, MaxFrames
<1>5. RingInv' /\ BarrierInv' /\ CaptureInv' /\ HonestNeverEnds'
  BY <1>1 DEF RingInv, BarrierInv, CaptureInv, HonestNeverEnds
<1>6. FramesAreAgreed'
  BY <1>1, <1>3 DEF FramesAreAgreed, TypeInv
<1>7. QED
  BY <1>4, <1>5, <1>6

\* An envelope is the part of the agreed frames that it names.
LEMMA EnvelopeElements ==
    ASSUME TypeInv, NEW first \in Nat, NEW n \in Nat, first + n <= Len(agreed)
    PROVE  /\ Envelope(first, n) \in Seq(Agreed) /\ Len(Envelope(first, n)) = n
           /\ \A i \in 1 .. n : Envelope(first, n)[i] = agreed[first + i]
<1>1. agreed \in Seq(Agreed)
  BY DEF TypeInv
<1>2. first + 1 \in 1 .. Len(agreed) + 1 /\ first + n \in first .. Len(agreed)
  BY <1>1
<1>3. /\ Envelope(first, n) \in Seq(Agreed)
      /\ Len(Envelope(first, n)) = IF first + 1 <= first + n THEN first + n - (first + 1) + 1 ELSE 0
      /\ \A i \in 1 .. first + n - (first + 1) + 1 :
            Envelope(first, n)[i] = agreed[first + 1 + i - 1]
  BY <1>1, <1>2, SubSeqProperties DEF Envelope
<1>4. QED
  BY <1>3

\* The place in an envelope of a tick it covers.
LEMMA PlaceOfTick ==
    ASSUME NEW t \in Int, NEW first \in Int, NEW n \in Nat, t - first \in 0 .. n - 1
    PROVE  t - first + 1 \in 1 .. n /\ first + (t - first + 1) = t + 1
OBVIOUS

\* A write of agreed frames from within the queue leaves agreed frames.
LEMMA WrittenAgrees ==
    ASSUME TypeInv, FramesAreAgreed, NEW first \in 0 .. pushed, NEW e \in Seq(Agreed),
           \A i \in 1 .. Len(e) : e[i] = agreed[first + i]
    PROVE  /\ Written(first, e) \in [Tick -> Pad \cup {Neutral, Blank}]
           /\ \A t \in Tick : t < pushed \/ t < first + Len(e) =>
                 Written(first, e)[t] = agreed[t + 1]
<1>1. ASSUME NEW t \in Tick, t >= pushed, t - first \in 0 .. Len(e) - 1
      PROVE  e[t - first + 1] \in Agreed /\ e[t - first + 1] = agreed[t + 1]
  <2>1. t \in Int
    BY DEF Tick
  <2>2. first \in Int
    BY DEF TypeInv
  <2>3. t - first + 1 \in 1 .. Len(e) /\ first + (t - first + 1) = t + 1
    BY <1>1, <2>1, <2>2, PlaceOfTick
  <2>4. QED
    BY <2>3
<1> USE QueueAssumption DEF TypeInv
<1>2. Written(first, e) \in [Tick -> Pad \cup {Neutral, Blank}]
  BY <1>1 DEF Written, Agreed
<1>3. ASSUME NEW t \in Tick, t < pushed \/ t < first + Len(e)
      PROVE  Written(first, e)[t] = agreed[t + 1]
  <2>1. t \in Nat /\ pushed \in Nat /\ first \in Nat /\ Len(e) \in Nat
    BY DEF Tick, MaxFrames
  <2>2. CASE t < pushed
    BY <2>1, <2>2 DEF Written, FramesAreAgreed
  <2>3. CASE t >= pushed
    <3>1. t - first \in 0 .. Len(e) - 1
      BY <1>3, <2>1, <2>3
    <3>2. QED
      BY <1>1, <2>3, <3>1 DEF Written
  <2>4. QED
    BY <2>1, <2>2, <2>3
<1>4. QED
  BY <1>2, <1>3

\* What a push may leave, whichever it was.
LEMMA QueueInv ==
    ASSUME IInv, UNCHANGED PageFrame, steps = 0,
           frames' \in [Tick -> Pad \cup {Neutral, Blank}],
           pushed' \in Nat, pushed <= pushed', pushed' <= Len(agreed), accepted' = pushed',
           \A t \in 0 .. pushed' - 1 : frames'[t] = agreed[t + 1],
           faults' \in {faults, faults + 1},
           \/ terminal' = terminal
           \/ terminal' = "protocol" /\ faults' = faults + 1
    PROVE  IInv'
<1> USE QueueAssumption DEF IInv, PageFrame, start, checks, capture
<1>1. TypeInv' /\ PollInv'
  BY DEF TypeInv, PollInv
<1>2. RingInv' /\ BarrierInv' /\ CaptureInv'
  BY DEF RingInv, BarrierInv, CaptureInv
<1>3. FramesAreAgreed'
  BY DEF FramesAreAgreed
<1>4. HonestNeverEnds'
  BY DEF HonestNeverEnds, TypeInv
<1>5. QED
  BY <1>1, <1>2, <1>3, <1>4

\* An envelope of agreed frames is written, unless it comes behind a terminal or
\* names a tick that is not there; it never ends the session.
LEMMA AgreedPush ==
    ASSUME IInv, NEW first \in 0 .. accepted, NEW e \in Seq(Agreed),
           first + Len(e) <= Len(agreed),
           \A i \in 1 .. Len(e) : e[i] = agreed[first + i],
           PushIndexed(first, e)
    PROVE  /\ frames' \in [Tick -> Pad \cup {Neutral, Blank}]
           /\ pushed' \in Nat /\ pushed <= pushed' /\ pushed' <= Len(agreed)
           /\ accepted' = pushed' /\ terminal' = terminal
           /\ \A t \in 0 .. pushed' - 1 : frames'[t] = agreed[t + 1]
<1> USE QueueAssumption DEF IInv
<1>1. /\ pushed \in Nat /\ pushed = accepted /\ first \in 0 .. pushed /\ Len(e) \in Nat
      /\ pushed <= Len(agreed) /\ Len(agreed) \in Nat /\ MaxFrames \in Nat
      /\ Len(agreed) <= MaxFrames
  BY DEF TypeInv, FramesAreAgreed, MaxFrames
<1>2. ~Conflicts(first, e)
  <2> SUFFICES ASSUME NEW i \in 1 .. Len(e)
               PROVE  /\ e[i] # Blank
                      /\ first + i - 1 < pushed => e[i] = frames[first + i - 1]
    BY <1>1 DEF Conflicts
  <2>1. e[i] \in Agreed
    OBVIOUS
  <2>2. e[i] # Blank
    BY <2>1 DEF Agreed, Neutral, Blank
  <2>3. ASSUME first + i - 1 < pushed  PROVE e[i] = frames[first + i - 1]
    <3>1. first + i - 1 \in 0 .. pushed - 1 /\ (first + i - 1) + 1 = first + i
      BY <1>1, <2>3
    <3>2. frames[first + i - 1] = agreed[first + i]
      BY <3>1 DEF FramesAreAgreed
    <3>3. QED
      BY <3>2
  <2>4. QED
    BY <2>2, <2>3
<1>3. CASE terminal # NoTerminal \/ first + Len(e) > MaxFrames
  BY <1>1, <1>3 DEF PushIndexed, TypeInv, FramesAreAgreed, queue
<1>4. CASE ~(terminal # NoTerminal \/ first + Len(e) > MaxFrames)
  <2>1. /\ frames' = Written(first, e) /\ terminal' = terminal
        /\ pushed' = Max({pushed, first + Len(e)})
        /\ accepted' = Max({accepted, first + Len(e)})
    BY <1>1, <1>2, <1>4 DEF PushIndexed
  <2> DEFINE p == Max({pushed, first + Len(e)})
  <2>2. /\ p \in Nat /\ p \in {pushed, first + Len(e)} /\ pushed <= p /\ p <= Len(agreed)
    BY <1>1, MaxPair, SMTT(30)
  <2> HIDE DEF p
  <2>3. pushed' = p /\ accepted' = p
    BY <1>1, <2>1 DEF p
  <2>4. /\ Written(first, e) \in [Tick -> Pad \cup {Neutral, Blank}]
        /\ \A t \in Tick : t < pushed \/ t < first + Len(e) =>
              Written(first, e)[t] = agreed[t + 1]
    BY <1>1, WrittenAgrees
  <2>5. ASSUME NEW t \in 0 .. p - 1  PROVE frames'[t] = agreed[t + 1]
    <3>1. t \in Tick
      BY <1>1, <2>2 DEF Tick
    <3>2. t < pushed \/ t < first + Len(e)
      BY <1>1, <2>2
    <3>3. QED
      BY <2>1, <2>4, <3>1, <3>2
  <2>6. QED
    BY <2>1, <2>2, <2>3, <2>4, <2>5
<1>5. QED
  BY <1>3, <1>4

\* A push beyond the queue or in conflict with it leaves the queue alone.
LEMMA RefusedPush ==
    ASSUME IInv, NEW first \in Nat, NEW e \in Seq(Pad \cup {Neutral, Blank}),
           first > pushed \/ Conflicts(first, e),
           PushIndexed(first, e)
    PROVE  UNCHANGED <<frames, pushed, accepted>> /\ terminal' \in {terminal, "protocol"}
BY DEF PushIndexed, queue, Ends

LEMMA PushInv == IInv /\ Push => IInv'
<1> SUFFICES ASSUME IInv, Push  PROVE IInv'
  OBVIOUS
<1> USE QueueAssumption
<1>1. UNCHANGED PageFrame /\ steps = 0 /\ faults' = faults
  BY DEF Push, PageRuns
<1>2. PICK first \in 0 .. accepted, n \in 1 .. Batch :
            first + n <= Len(agreed) /\ PushIndexed(first, Envelope(first, n))
  BY DEF Push
<1>3. TypeInv /\ first \in Nat /\ n \in Nat
  BY DEF IInv, TypeInv
<1>4. /\ Envelope(first, n) \in Seq(Agreed) /\ Len(Envelope(first, n)) = n
      /\ \A i \in 1 .. n : Envelope(first, n)[i] = agreed[first + i]
  BY <1>2, <1>3, EnvelopeElements
<1> DEFINE e == Envelope(first, n)
<1>5. /\ frames' \in [Tick -> Pad \cup {Neutral, Blank}]
      /\ pushed' \in Nat /\ pushed <= pushed' /\ pushed' <= Len(agreed)
      /\ accepted' = pushed' /\ terminal' = terminal
      /\ \A t \in 0 .. pushed' - 1 : frames'[t] = agreed[t + 1]
  <2>1. e \in Seq(Agreed) /\ Len(e) = n /\ PushIndexed(first, e)
        /\ \A i \in 1 .. Len(e) : e[i] = agreed[first + i]
    BY <1>2, <1>4
  <2> HIDE DEF e
  <2>2. QED
    BY <1>2, <2>1, AgreedPush
<1>6. QED
  BY <1>1, <1>5, QueueInv

\* A damaged or changed envelope never reaches the queue: it conflicts, unless
\* the change left it as it was.
LEMMA PushFaultyInv == IInv /\ PushFaulty => IInv'
<1> SUFFICES ASSUME IInv, PushFaulty  PROVE IInv'
  OBVIOUS
<1> USE QueueAssumption
<1>1. UNCHANGED PageFrame /\ steps = 0 /\ faults' = faults + 1
  BY DEF PushFaulty, PageRuns, Fault
<1>2. PICK first \in 0 .. accepted + 1, n \in 1 .. Batch :
         /\ first + n <= Len(agreed)
         /\ IF first > accepted THEN PushIndexed(first, Envelope(first, n))
            ELSE \E i \in 1 .. n, value \in Pad \cup {Blank} :
                   /\ value = Blank \/ first + i <= accepted
                   /\ PushIndexed(first, [Envelope(first, n) EXCEPT ![i] = value])
  BY DEF PushFaulty
<1>3. /\ TypeInv /\ first \in Nat /\ n \in Nat /\ pushed = accepted /\ accepted \in Nat
      /\ pushed <= Len(agreed)
  BY DEF IInv, TypeInv, FramesAreAgreed
<1> DEFINE e == Envelope(first, n)
<1>4. /\ e \in Seq(Agreed) /\ Len(e) = n
      /\ \A i \in 1 .. n : e[i] = agreed[first + i]
  BY <1>2, <1>3, EnvelopeElements
<1> HIDE DEF e
<1>5. ASSUME UNCHANGED <<frames, pushed, accepted>> /\ terminal' \in {terminal, "protocol"}
      PROVE  IInv'
  <2>1. \A t \in 0 .. pushed' - 1 : frames'[t] = agreed[t + 1]
    BY <1>5 DEF IInv, FramesAreAgreed
  <2>2. frames' \in [Tick -> Pad \cup {Neutral, Blank}]
    BY <1>3, <1>5 DEF TypeInv
  <2>3. QED
    BY <1>1, <1>3, <1>5, <2>1, <2>2, QueueInv
<1>6. CASE first > accepted
  <2>1. e \in Seq(Pad \cup {Neutral, Blank})
    BY <1>4 DEF Agreed
  <2>2. PushIndexed(first, e)
    BY <1>2, <1>6 DEF e
  <2>3. QED
    BY <1>3, <1>5, <1>6, <2>1, <2>2, RefusedPush
<1>7. CASE ~(first > accepted)
  <2>1. PICK i \in 1 .. n, value \in Pad \cup {Blank} :
                   /\ value = Blank \/ first + i <= accepted
                   /\ PushIndexed(first, [e EXCEPT ![i] = value])
    BY <1>2, <1>7 DEF e
  <2> DEFINE bad == [e EXCEPT ![i] = value]
  <2>2. bad \in Seq(Pad \cup {Neutral, Blank}) /\ Len(bad) = n /\ bad[i] = value
    BY <1>4 DEF Agreed
  <2>3. CASE value = Blank
    <3>1. Conflicts(first, bad)
      <4> HIDE DEF bad
      <4> QED  BY <2>2, <2>3 DEF Conflicts
    <3> HIDE DEF bad
    <3>2. QED
      BY <1>3, <1>5, <2>1, <2>2, <3>1, RefusedPush DEF bad
  <2>4. CASE value # Blank /\ value # e[i]
    <3>1. first + i - 1 \in 0 .. pushed - 1 /\ (first + i - 1) + 1 = first + i
      BY <1>3, <2>1, <2>4
    <3>2. frames[first + i - 1] = agreed[first + i]
      BY <3>1 DEF IInv, FramesAreAgreed
    <3>3. Conflicts(first, bad)
      <4> HIDE DEF bad
      <4>1. i \in DOMAIN bad /\ bad[i] # frames[first + i - 1]
        BY <1>4, <2>2, <2>4, <3>2
      <4>2. first + i - 1 < pushed
        BY <1>3, <3>1
      <4>3. QED
        BY <4>1, <4>2 DEF Conflicts
    <3>4. PushIndexed(first, bad)
      BY <2>1
    <3> HIDE DEF bad
    <3>5. QED
      BY <1>3, <1>5, <2>2, <3>3, <3>4, RefusedPush
  <2>5. CASE value = e[i]
    <3>1. bad = e
      BY <1>4, <2>5
    <3>2. PushIndexed(first, e)
      BY <2>1, <3>1
    <3>3. first \in 0 .. accepted
      BY <1>3, <1>7
    <3>4. /\ frames' \in [Tick -> Pad \cup {Neutral, Blank}]
          /\ pushed' \in Nat /\ pushed <= pushed' /\ pushed' <= Len(agreed)
          /\ accepted' = pushed' /\ terminal' = terminal
          /\ \A t \in 0 .. pushed' - 1 : frames'[t] = agreed[t + 1]
      BY <1>2, <1>4, <3>2, <3>3, AgreedPush
    <3>5. QED
      BY <1>1, <3>4, QueueInv
  <2>6. QED
    BY <2>3, <2>4, <2>5
<1>8. QED
  BY <1>6, <1>7

\* A frame that does not decode leaves what was decoded before it behind the
\* frontier, where nothing is read.
LEMMA PushSequentialInv == IInv /\ PushSequential => IInv'
<1> SUFFICES ASSUME IInv, PushSequential  PROVE IInv'
  OBVIOUS
<1> USE QueueAssumption
<1>1. UNCHANGED PageFrame /\ steps = 0 /\ terminal' = terminal
  BY DEF PushSequential, PageRuns
<1>2. PICK n \in 1 .. Batch, bad \in BOOLEAN :
         /\ accepted + n <= Len(agreed)
         /\ IF terminal # NoTerminal THEN UNCHANGED <<queue, accepted, faults>>
            ELSE IF bad
            THEN /\ Fault /\ UNCHANGED <<pushed, accepted>>
                 /\ frames' = Written(accepted, Envelope(accepted, n - 1))
            ELSE /\ frames' = Written(accepted, Envelope(accepted, n))
                 /\ pushed' = pushed + n /\ accepted' = accepted + n
                 /\ UNCHANGED faults
  BY DEF PushSequential
<1>3. /\ TypeInv /\ FramesAreAgreed /\ accepted \in Nat /\ n \in Nat /\ n - 1 \in Nat
      /\ pushed = accepted /\ accepted <= Len(agreed) /\ faults \in Nat
      /\ Len(agreed) \in Nat /\ Len(agreed) <= MaxFrames /\ MaxFrames \in Nat
  BY DEF IInv, TypeInv, FramesAreAgreed, MaxFrames
<1>4. ASSUME NEW m \in Nat, accepted + m <= Len(agreed)
      PROVE  /\ Written(accepted, Envelope(accepted, m)) \in [Tick -> Pad \cup {Neutral, Blank}]
             /\ \A t \in Tick : t < pushed \/ t < accepted + m =>
                   Written(accepted, Envelope(accepted, m))[t] = agreed[t + 1]
  <2> DEFINE e == Envelope(accepted, m)
  <2>1. /\ e \in Seq(Agreed) /\ Len(e) = m
        /\ \A i \in 1 .. m : e[i] = agreed[accepted + i]
    BY <1>3, <1>4, EnvelopeElements
  <2>2. accepted \in 0 .. pushed
    BY <1>3
  <2> HIDE DEF e
  <2>3. /\ Written(accepted, e) \in [Tick -> Pad \cup {Neutral, Blank}]
        /\ \A t \in Tick : t < pushed \/ t < accepted + m =>
              Written(accepted, e)[t] = agreed[t + 1]
    BY <1>3, <2>1, <2>2, WrittenAgrees, ZenonT(60)
  <2>4. QED
    BY <2>3 DEF e
<1>5. CASE terminal # NoTerminal
  <2>1. UNCHANGED <<frames, pushed, accepted, faults>>
    BY <1>2, <1>5 DEF queue
  <2>2. \A t \in 0 .. pushed' - 1 : frames'[t] = agreed[t + 1]
    BY <1>3, <2>1 DEF FramesAreAgreed
  <2>3. frames' \in [Tick -> Pad \cup {Neutral, Blank}]
    BY <1>3, <2>1 DEF TypeInv
  <2>4. QED
    BY <1>1, <1>3, <2>1, <2>2, <2>3, QueueInv
<1>6. CASE terminal = NoTerminal /\ bad
  <2>1. /\ faults' = faults + 1 /\ UNCHANGED <<pushed, accepted>>
        /\ frames' = Written(accepted, Envelope(accepted, n - 1))
    BY <1>2, <1>6 DEF Fault
  <2>2. accepted + (n - 1) <= Len(agreed)
    BY <1>2, <1>3
  <2>3. \A t \in 0 .. pushed - 1 : t \in Tick /\ t < pushed
    BY <1>3 DEF Tick
  <2>4. frames' \in [Tick -> Pad \cup {Neutral, Blank}]
    BY <1>3, <1>4, <2>1, <2>2
  <2>5. \A t \in 0 .. pushed' - 1 : frames'[t] = agreed[t + 1]
    BY <1>3, <1>4, <2>1, <2>2, <2>3
  <2>6. QED
    BY <1>1, <1>3, <2>1, <2>4, <2>5, QueueInv
<1>7. CASE terminal = NoTerminal /\ ~bad
  <2>1. /\ UNCHANGED faults /\ pushed' = pushed + n /\ accepted' = accepted + n
        /\ frames' = Written(accepted, Envelope(accepted, n))
    BY <1>2, <1>7
  <2>2. \A t \in 0 .. pushed' - 1 : t \in Tick /\ (t < pushed \/ t < accepted + n)
    BY <1>2, <1>3, <2>1 DEF Tick
  <2>3. frames' \in [Tick -> Pad \cup {Neutral, Blank}]
    BY <1>2, <1>3, <1>4, <2>1
  <2>4. \A t \in 0 .. pushed' - 1 : frames'[t] = agreed[t + 1]
    BY <1>2, <1>3, <1>4, <2>1, <2>2
  <2>5. QED
    BY <1>1, <1>2, <1>3, <2>1, <2>3, <2>4, QueueInv
<1>8. QED
  BY <1>5, <1>6, <1>7

\* What a drain reads follows what was read before: the records of the next
\* ticks, oldest first.
LEMMA RecordsInOrder ==
    ASSUME TypeInv, RingInv, NEW n \in 0 .. ringWrite - ringRead
    PROVE  drained \o [i \in 1 .. n |-> ring[(ringRead + i - 1) % Ring]]
             = [i \in 1 .. ringRead + n |-> i - 1]
<1>1. ringRead \in Nat /\ ringWrite \in Nat /\ n \in Nat /\ ringRead + n <= ringWrite
  BY DEF TypeInv
<1>2. [i \in 1 .. n |-> ring[(ringRead + i - 1) % Ring]] = [i \in 1 .. n |-> ringRead + i - 1]
  <2> SUFFICES ASSUME NEW i \in 1 .. n
               PROVE  ring[(ringRead + i - 1) % Ring] = ringRead + i - 1
    OBVIOUS
  <2>1. ringRead + i - 1 \in ringRead .. ringWrite - 1
    BY <1>1
  <2>2. QED
    BY <2>1 DEF RingInv
<1> DEFINE old == [i \in 1 .. ringRead |-> i - 1]
           new == [i \in 1 .. n |-> ringRead + i - 1]
           all == [i \in 1 .. ringRead + n |-> i - 1]
<1>3. old \in Seq(Int) /\ Len(old) = ringRead /\ new \in Seq(Int) /\ Len(new) = n
  BY <1>1
<1>4. all \in Seq(Int) /\ Len(all) = ringRead + n /\ \A i \in 1 .. ringRead + n : all[i] = i - 1
  BY <1>1
<1>5. /\ old \o new \in Seq(Int) /\ Len(old \o new) = ringRead + n
      /\ \A i \in 1 .. ringRead + n :
            (old \o new)[i] = IF i <= ringRead THEN old[i] ELSE new[i - ringRead]
  <2> HIDE DEF old, new
  <2> QED  BY <1>3, ConcatProperties
<1>6. \A i \in 1 .. ringRead + n : (old \o new)[i] = i - 1
  BY <1>1, <1>5
<1>7. old \o new = all
  <2> HIDE DEF old, new, all
  <2> QED  BY <1>4, <1>5, <1>6, SeqEqual
<1>8. QED
  BY <1>2, <1>7 DEF RingInv

\* A drain takes the oldest records, which are those of the next ticks.
LEMMA DrainInv == IInv /\ Drain => IInv'
<1> SUFFICES ASSUME IInv, Drain  PROVE IInv'
  OBVIOUS
<1> USE QueueAssumption DEF IInv, start, queue, capture
<1>1. /\ UNCHANGED <<start, queue, cursor, ring, ringWrite, terminal, capture, steps, pads,
                     agreed, accepted, faults>>
      /\ steps = 0
  BY DEF Drain, PageRuns
<1>2. PICK n \in 1 .. ringWrite - ringRead :
         /\ drained' = drained \o [i \in 1 .. n |-> ring[(ringRead + i - 1) % Ring]]
         /\ ringRead' = ringRead + n
  BY DEF Drain
<1>3. /\ ringRead \in Nat /\ ringWrite \in Nat /\ n \in Nat /\ n >= 1
      /\ ringRead + n <= ringWrite
  BY DEF TypeInv
<1>4. TypeInv' /\ PollInv'
  BY <1>1, <1>2, <1>3 DEF TypeInv, PollInv
<1>5. BarrierInv' /\ CaptureInv' /\ FramesAreAgreed' /\ HonestNeverEnds'
  BY <1>1 DEF BarrierInv, CaptureInv, FramesAreAgreed, HonestNeverEnds
<1>6. drained' = [i \in 1 .. ringRead + n |-> i - 1]
  <2>1. TypeInv /\ RingInv /\ n \in 0 .. ringWrite - ringRead
    BY <1>3
  <2>2. QED
    BY <1>2, <2>1, RecordsInOrder
<1>7. RingInv'
  <2>1. ASSUME NEW k \in ringRead + n .. ringWrite - 1  PROVE ring[k % Ring] = k
    <3>1. k \in ringRead .. ringWrite - 1
      BY <1>3
    <3>2. QED
      BY <3>1 DEF RingInv
  <2>2. ringWrite - (ringRead + n) <= Ring
    BY <1>3 DEF RingInv
  <2>3. QED
    BY <1>1, <1>2, <1>6, <2>1, <2>2 DEF RingInv
<1>8. QED
  BY <1>4, <1>5, <1>7

LEMMA TerminateInv == IInv /\ Terminate => IInv'
<1> SUFFICES ASSUME IInv, Terminate  PROVE IInv'
  OBVIOUS
<1> USE QueueAssumption DEF IInv, start, queue, checks, capture, page
<1>1. /\ UNCHANGED <<start, queue, cursor, checks, capture, steps, page>>
      /\ steps = 0 /\ faults' = faults + 1 /\ terminal' \in {"desync", "disconnect"}
  BY DEF Terminate, Fault, Ends, PageRuns
<1>2. TypeInv' /\ PollInv'
  BY <1>1 DEF TypeInv, PollInv
<1>3. RingInv' /\ BarrierInv' /\ CaptureInv' /\ FramesAreAgreed'
  BY <1>1 DEF RingInv, BarrierInv, CaptureInv, FramesAreAgreed
<1>4. HonestNeverEnds'
  BY <1>1 DEF HonestNeverEnds, TypeInv
<1>5. QED
  BY <1>2, <1>3, <1>4

LEMMA NextInv == IInv /\ [Next]_vars => IInv'
<1> SUFFICES ASSUME IInv, [Next]_vars  PROVE IInv'
  OBVIOUS
<1>1. CASE UNCHANGED vars
  BY <1>1 DEF vars, start, queue, checks, capture, page, IInv, TypeInv, RingInv, BarrierInv,
              CaptureInv, PollInv, CapturePending, FramesAreAgreed, HonestNeverEnds
<1>2. CASE HostStep
  BY <1>2, BeginCallbackInv, StepInv, SampleStepInv, CaptureStopsInv DEF HostStep
<1>3. CASE StartFails \/ SampleRefused
  BY <1>3, StartFailsInv, SampleRefusedInv
<1>4. CASE EnableCapture \/ ConfirmStart \/ Agree
  BY <1>4, EnableCaptureInv, ConfirmStartInv, AgreeInv
<1>5. CASE Push \/ PushFaulty \/ PushSequential
  BY <1>5, PushInv, PushFaultyInv, PushSequentialInv
<1>6. CASE Drain \/ Terminate
  BY <1>6, DrainInv, TerminateInv
<1>7. QED
  BY <1>1, <1>2, <1>3, <1>4, <1>5, <1>6 DEF Next

-----------------------------------------------------------------------------
\* The inductive invariant holds in every reachable state of the queue, its
\* callbacks and its page.
THEOREM Invariance == Spec => []IInv
<1>1. Init => IInv
  BY InitInv
<1>2. IInv /\ [Next]_vars => IInv'
  BY NextInv
<1>3. QED
  BY <1>1, <1>2, PTL DEF Spec

\* The fields of NetSession keep their types, and its cursors their order.
THEOREM TypeCorrect == Spec => []TypeOK
<1>1. IInv => TypeOK
  <2> SUFFICES ASSUME IInv  PROVE TypeOK
    OBVIOUS
  <2>1. TypeInv /\ pushed = accepted
    BY DEF IInv, FramesAreAgreed
  <2>2. pushed \in 0 .. MaxFrames
    BY <2>1, QueueAssumption DEF TypeInv, MaxFrames
  <2>3. QED
    BY <2>1, <2>2 DEF TypeInv, TypeOK
<1>2. QED
  BY <1>1, Invariance, PTL

\* The source consumes what was agreed, whatever pushes are repeated, overlap,
\* leave gaps or carry frames that are damaged.
THEOREM FramesAgreed == Spec => []FramesAreAgreed
<1>1. IInv => FramesAreAgreed
  BY DEF IInv
<1>2. QED
  BY <1>1, Invariance, PTL

\* The checksum record of each tick is drained once and in order, or waits in
\* the ring: the ring never overwrites one.
THEOREM ChecksumsComplete == Spec => []ChecksumsAreComplete
<1>1. IInv => ChecksumsAreComplete
  <2> SUFFICES ASSUME IInv  PROVE ChecksumsAreComplete
    OBVIOUS
  <2>1. TypeInv /\ RingInv
    BY DEF IInv
  <2>2. /\ ringWrite - ringRead \in 0 .. ringWrite - ringRead
        /\ ringRead + (ringWrite - ringRead) = cursor
    BY <2>1 DEF TypeInv
  <2>3. QED
    BY <2>1, <2>2, RecordsInOrder DEF ChecksumsAreComplete, RingInv
<1>2. QED
  BY <1>1, Invariance, PTL

\* The local pad is sampled once for each tick, before its step, however often
\* a wait revisits the tick.
THEOREM CapturedOnce == Spec => []CaptureIsOnce
<1>1. IInv => CaptureIsOnce
  <2> SUFFICES ASSUME IInv  PROVE CaptureIsOnce
    OBVIOUS
  <2>1. CaptureInv /\ cursor \in Nat /\ InputTicks \in Nat
    BY QueueAssumption DEF IInv, TypeInv
  <2>2. CASE cursor < InputTicks
    BY <2>1, <2>2 DEF CaptureInv, CaptureIsOnce
  <2>3. CASE cursor >= InputTicks
    BY <2>1, <2>3 DEF CaptureInv, CaptureIsOnce
  <2>4. QED
    BY <2>1, <2>2, <2>3
<1>2. QED
  BY <1>1, Invariance, PTL

\* No interleaving of callbacks, waits, pushes and drains ends a session by
\* itself: it takes a fault.
THEOREM HonestSafe == Spec => []HonestNeverEnds
<1>1. IInv => HonestNeverEnds
  BY DEF IInv
<1>2. QED
  BY <1>1, Invariance, PTL

\* Behind a terminal no step, sample, push or confirmation has an effect, and
\* the first cause stays.
THEOREM TerminalIsFinal == Spec => TerminalStops
<1> DEFINE Final == terminal # NoTerminal =>
                       UNCHANGED <<terminal, cursor, pads, pushed, confirmed>>
<1>1. IInv /\ [Next]_vars => [Final]_vars
  <2> SUFFICES ASSUME terminal # NoTerminal, Next, IInv
               PROVE  UNCHANGED <<terminal, cursor, pads, pushed, confirmed>>
    BY DEF vars
  <2>1. capturing \in BOOLEAN
    BY DEF IInv, TypeInv
  <2>2. CASE HostStep
    BY <2>1, <2>2 DEF HostStep, BeginCallback, Step, SampleStep, CaptureStops, TakeStep, Ready,
                      CaptureVerdict, Ends, start, queue, checks, capture, page
  <2>3. CASE StartFails \/ SampleRefused
    BY <2>1, <2>3 DEF StartFails, SampleRefused, CaptureVerdict
  <2>4. CASE EnableCapture \/ ConfirmStart \/ Agree
    BY <2>4 DEF EnableCapture, ConfirmStart, Agree, start, queue, checks, capture, page
  <2>5. CASE Push \/ PushFaulty \/ PushSequential
    BY <2>5 DEF Push, PushFaulty, PushSequential, PushIndexed, PageFrame, start, queue
  <2>6. CASE Drain \/ Terminate
    BY <2>6 DEF Drain, Terminate, start, queue
  <2>7. QED
    BY <2>2, <2>3, <2>4, <2>5, <2>6 DEF Next
<1>2. QED
  BY <1>1, Invariance, PTL DEF Spec, TerminalStops

==============================================================================
