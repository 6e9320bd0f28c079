----------------------- MODULE RollbackTimelineProofs -----------------------
(***************************************************************************)
(* Proofs about RollbackTimeline for every value of its constants.         *)
(***************************************************************************)
EXTENDS RollbackTimeline, BoundedSets

floor == HistoryFloor(simulatedThrough)

\* The cursors: one unsimulated local sample at most, and a speculation that
\* ends before the retained history does.
CursorInv ==
    /\ simulatedThrough \in (StartTick - 1)..MaxTick
    /\ localThrough \in simulatedThrough..(simulatedThrough + 1)
    /\ remoteContiguousThrough \in (StartTick - 1)..MaxTick
    /\ simulatedThrough - remoteContiguousThrough <= MaxPrediction

\* What has been accepted: everything up to the contiguous cursor, not the next
AcceptedInv ==
    /\ DOMAIN accepted \subseteq StartTick..MaxTick
    /\ \A t \in DOMAIN accepted : t <= simulatedThrough + MaxLookahead
    /\ StartTick..remoteContiguousThrough \subseteq DOMAIN accepted
    /\ remoteContiguousThrough + 1 \notin DOMAIN accepted

\* The rows a timeline retains, and the seed that stands for what it dropped
RowsInv ==
    /\ DOMAIN localInputs = floor..localThrough
    /\ DOMAIN executedInputs = floor..simulatedThrough
    /\ \A t \in DOMAIN executedInputs : executedInputs[t].local = localInputs[t]
    /\ \A t \in Int : t \in DOMAIN remoteInputs <=> t \in DOMAIN accepted /\ t >= floor
    /\ \A t \in DOMAIN remoteInputs : remoteInputs[t] = accepted[t]

SeedInv ==
    /\ remoteSeed.tick < floor
    /\ \/ remoteSeed = [tick |-> StartTick - 1, pad |-> InitialRemotePad]
       \/ remoteSeed.tick \in DOMAIN accepted /\ remoteSeed.pad = accepted[remoteSeed.tick]
    /\ \A t \in DOMAIN accepted : t < floor => t <= remoteSeed.tick

DirtyInv ==
    dirtyFrom # Clean =>
        /\ dirtyFrom \in floor..simulatedThrough
        /\ dirtyFrom \in DOMAIN accepted
        /\ executedInputs[dirtyFrom].remote # accepted[dirtyFrom]

\* The outstanding plan is still what the rows give
PlanInv ==
    outstanding =>
        /\ phase = "active"
        /\ plan # NoPlan
        /\ plan.frames = FramesOf(plan.from, plan.through)
        /\ plan.from \in floor..(simulatedThrough + 1)
        /\ plan.from <= plan.through
        /\ plan.kind = "forward" =>
              /\ plan.through = simulatedThrough + 1
              /\ plan.from = plan.through
              /\ plan.from <= localThrough
              /\ plan.from - remoteContiguousThrough <= MaxPrediction
        /\ plan.kind # "forward" =>
              /\ plan.through = simulatedThrough
              /\ dirtyFrom # Clean => plan.from <= dirtyFrom

\* dispose clears the rows and the correction
DisposedInv ==
    phase = "disposed" =>
        /\ localInputs = Empty /\ remoteInputs = Empty /\ executedInputs = Empty
        /\ dirtyFrom = Clean

IInv ==
    /\ TypeOK
    /\ CursorInv
    /\ AcceptedInv
    /\ phase # "disposed" => RowsInv /\ SeedInv
    /\ DisposedInv
    /\ ExecutedIsNewest
    /\ DirtyInv
    /\ PlanInv


-----------------------------------------------------------------------------
\* The floor never passes the contiguous cursor, so the newest contiguous
\* sample is always retained: this is what MaxHistory > MaxPrediction is for.
LEMMA FloorFacts ==
    ASSUME NEW sim \in Int
    PROVE  /\ HistoryFloor(sim) \in Int
           /\ HistoryFloor(sim) >= StartTick
           /\ HistoryFloor(sim) >= sim - MaxHistory + 1
           /\ HistoryFloor(sim) = StartTick \/ HistoryFloor(sim) = sim - MaxHistory + 1
           /\ sim >= StartTick - 1 => HistoryFloor(sim) <= sim + 1
           /\ sim >= StartTick => HistoryFloor(sim) <= sim
BY TimelineAssumption DEF HistoryFloor

LEMMA FloorMonotone ==
    ASSUME NEW sim \in Int, NEW next \in Int, sim <= next
    PROVE  HistoryFloor(sim) <= HistoryFloor(next)
BY TimelineAssumption DEF HistoryFloor

\* Rows from the floor on, and the seed for what is below it, predict the same
\* pad as all samples ever accepted.
LEMMA ResolveIsNewest ==
    ASSUME NEW rows, NEW samples, NEW low \in Int, NEW t \in Int, t >= low - 1,
           DOMAIN samples \subseteq StartTick..MaxTick,
           DOMAIN rows \subseteq Int,
           \A u \in Int : u \in DOMAIN rows <=> u \in DOMAIN samples /\ u >= low,
           \A u \in DOMAIN rows : rows[u] = samples[u],
           remoteSeed.tick \in Int, remoteSeed.tick < low,
           \/ remoteSeed = [tick |-> StartTick - 1, pad |-> InitialRemotePad]
           \/ /\ remoteSeed.tick \in DOMAIN samples
              /\ remoteSeed.pad = samples[remoteSeed.tick],
           \A u \in DOMAIN samples : u < low => u <= remoteSeed.tick
    PROVE  IsNewest(samples, t, ResolveRemote(t, rows))
<1> DEFINE known == {s \in DOMAIN rows : s <= t /\ s > remoteSeed.tick}
           old == {s \in DOMAIN samples : s <= t}
<1>1. known = {s \in DOMAIN rows : s <= t}
  OBVIOUS
<1>2. CASE known = {}
  <2>1. ResolveRemote(t, rows) = remoteSeed.pad
    BY <1>2 DEF ResolveRemote
  <2>2. \A s \in old : s < low /\ s <= remoteSeed.tick
    BY <1>1, <1>2
  <2>3. CASE remoteSeed.tick \in DOMAIN samples /\ remoteSeed.pad = samples[remoteSeed.tick]
    <3>1. remoteSeed.tick \in old
      BY <2>3
    <3>2. QED
      BY <2>1, <2>2, <2>3, <3>1 DEF IsNewest
  <2>4. CASE remoteSeed = [tick |-> StartTick - 1, pad |-> InitialRemotePad]
    <3>1. old = {}
      BY <2>2, <2>4, TimelineAssumption
    <3>2. QED
      BY <2>1, <2>4, <3>1 DEF IsNewest
  <2>5. QED
    BY <2>3, <2>4
<1>3. CASE known # {}
  <2>1. Max(known) \in known /\ \A s \in known : s <= Max(known)
    BY <1>3, MaxInt
  <2>2. ResolveRemote(t, rows) = rows[Max(known)]
    BY <1>3 DEF ResolveRemote
  <2>3. Max(known) \in old /\ samples[Max(known)] = rows[Max(known)]
    BY <2>1
  <2>4. \A s \in old : s <= Max(known)
    <3> TAKE s \in old
    <3>1. CASE s >= low
      BY <3>1, <2>1, <1>1
    <3>2. CASE s < low
      BY <3>2, <2>1
    <3>3. QED
      BY <3>1, <3>2
  <2> HIDE DEF known
  <2>5. QED
    BY <2>2, <2>3, <2>4 DEF IsNewest
<1>4. QED
  BY <1>2, <1>3

\* The contiguous cursor moves to the end of the run of rows that follows it.
LEMMA ContiguousRun ==
    ASSUME NEW t \in Int, NEW rows, NEW b \in Int, t <= b,
           DOMAIN rows \subseteq Int, \A u \in DOMAIN rows : u <= b
    PROVE  /\ ContiguousFrom(t, rows) \in {t} \cup DOMAIN rows
           /\ ContiguousFrom(t, rows) >= t
           /\ ContiguousFrom(t, rows) + 1 \notin DOMAIN rows
           /\ (t + 1)..ContiguousFrom(t, rows) \subseteq DOMAIN rows
<1> DEFINE all == {t} \cup DOMAIN rows
           ends == {n \in all : n >= t /\ n + 1 \notin DOMAIN rows}
           c == Min(ends)
<1>1. ends # {}
  <2>1. Max(all) \in all /\ \A x \in all : x <= Max(all)
    <3>1. all \in SUBSET Int /\ all # {} /\ \A x \in all : x <= b
      OBVIOUS
    <3> HIDE DEF all
    <3>2. QED  BY <3>1, MaxInt
  <2>2. Max(all) \in ends
    <3>1. Max(all) >= t /\ Max(all) \in Int
      BY <2>1
    <3>2. Max(all) + 1 \notin all
      BY <2>1, <3>1
    <3>3. QED
      BY <2>1, <3>1, <3>2
  <2>3. QED
    BY <2>2
<1>2. c \in ends /\ \A x \in ends : c <= x
  <2>1. ends \in SUBSET Int /\ \A x \in ends : t <= x
    OBVIOUS
  <2> HIDE DEF ends
  <2>2. QED  BY <1>1, <2>1, MinInt
<1>3. ContiguousFrom(t, rows) = c
  BY DEF ContiguousFrom
<1> HIDE DEF c
<1>4. c \in Int /\ c >= t
  BY <1>2
<1>5. ASSUME NEW n \in (t + 1)..c, n \notin DOMAIN rows  PROVE FALSE
  <2> DEFINE gaps == {x \in (t + 1)..c : x \notin DOMAIN rows}
             g == Min(gaps)
  <2>1. g \in gaps /\ \A x \in gaps : g <= x
    <3>1. gaps \in SUBSET Int /\ gaps # {} /\ \A x \in gaps : t <= x
      BY <1>4, <1>5
    <3> HIDE DEF gaps
    <3>2. QED  BY <3>1, MinInt
  <2> HIDE DEF g
  <2>2. g \in Int /\ g - 1 >= t /\ g <= c /\ g \notin DOMAIN rows
    BY <2>1, <1>4
  <2>3. ASSUME g - 1 # t, g - 1 \notin DOMAIN rows  PROVE FALSE
    <3>1. g - 1 \in gaps
      BY <2>2, <2>3, <1>4
    <3>2. QED
      BY <2>1, <2>2, <3>1
  <2>4. g - 1 \in ends
    BY <2>2, <2>3
  <2>5. QED
    BY <1>2, <2>2, <2>4
<1>6. QED
  BY <1>2, <1>3, <1>4, <1>5

-----------------------------------------------------------------------------
(* Facts of a state that satisfies IInv *)

\* A prediction is a pad.
LEMMA NewestIsPad ==
    ASSUME NEW samples, NEW t, NEW pad, IsRow(samples, Pad), IsNewest(samples, t, pad)
    PROVE  pad \in Pad
BY TimelineAssumption DEF IsNewest, IsRow

\* A live timeline predicts the newest sample for every tick it retains or
\* executes next.
LEMMA Prediction ==
    ASSUME IInv, phase # "disposed", NEW t \in Int, t >= floor - 1
    PROVE  /\ IsNewest(accepted, t, ResolveRemote(t, remoteInputs))
           /\ ResolveRemote(t, remoteInputs) \in Pad
<1>1. floor \in Int
  BY FloorFacts, TimelineAssumption DEF IInv, CursorInv, floor
<1>2. IsNewest(accepted, t, ResolveRemote(t, remoteInputs))
  <2> HIDE DEF floor
  <2> QED
  BY <1>1, ResolveIsNewest, SMTT(30)
     DEF IInv, TypeOK, IsRow, Tick, AcceptedInv, RowsInv, SeedInv
<1>3. QED
  BY <1>2, NewestIsPad DEF IInv, TypeOK

\* A step that touches no row, cursor or dirty mark keeps all but the plan.
LEMMA RowsUntouched ==
    ASSUME IInv, UNCHANGED <<inputs, cursors, dirtyFrom, accepted>>,
           phase' = phase \/ (phase = "active" /\ phase' = "terminal"),
           outstanding' \in BOOLEAN, revised' \in BOOLEAN,
           PlanTypeOK', PlanInv'
    PROVE  IInv'
<1>1. TypeOK'
  BY DEF IInv, TypeOK, IsRow, Tick, inputs, cursors
<1>2. CursorInv' /\ AcceptedInv'
  BY DEF IInv, CursorInv, AcceptedInv, inputs, cursors
<1>3. (phase # "disposed" => RowsInv /\ SeedInv)'
  BY DEF IInv, RowsInv, SeedInv, floor, HistoryFloor, inputs, cursors
<1>4. DisposedInv'
  BY DEF IInv, DisposedInv, Empty, Clean, inputs
<1>5. ExecutedIsNewest'
  BY DEF IInv, ExecutedIsNewest, IsNewest, Clean, inputs
<1>6. DirtyInv'
  BY DEF IInv, DirtyInv, floor, HistoryFloor, Clean, inputs, cursors
<1>7. QED
  BY <1>1, <1>2, <1>3, <1>4, <1>5, <1>6 DEF IInv

\* Issuing a plan over retained ticks keeps the invariant.
LEMMA IssuedPlan ==
    ASSUME IInv, phase = "active", ~outstanding,
           NEW kind \in {"forward", "replay", "confirmed-prefix"},
           NEW from \in floor..(simulatedThrough + 1), NEW through \in from..localThrough,
           NEW end \in Tick \cup {NoTick},
           CreatePlan(kind, from, through, end),
           UNCHANGED <<inputs, cursors, dirtyFrom, phase, accepted>>,
           kind = "forward" =>
              /\ through = simulatedThrough + 1
              /\ from = through
              /\ from - remoteContiguousThrough <= MaxPrediction,
           kind # "forward" =>
              /\ through = simulatedThrough
              /\ dirtyFrom # Clean => from <= dirtyFrom
    PROVE  IInv'
<1>1. /\ floor \in Int /\ floor >= StartTick
      /\ simulatedThrough \in Int /\ localThrough \in Int
  BY FloorFacts, TimelineAssumption DEF IInv, CursorInv, floor
<1>2. from \in Tick /\ through \in Tick /\ from..through \subseteq Tick
  BY <1>1, TimelineAssumption DEF IInv, TypeOK, Tick
<1>3. /\ plan'.kind = kind /\ plan'.from = from /\ plan'.through = through
      /\ plan'.end = end /\ plan'.frames = FramesOf(from, through)
      /\ plan' # NoPlan
  BY DEF CreatePlan, NoPlan
<1>4. \A t \in from..through : FramesOf(from, through)[t] \in Frame
  <2> TAKE t \in from..through
  <2>1. localInputs[t] \in Pad
    BY <1>1, SMTT(30) DEF IInv, RowsInv, TypeOK, IsRow
  <2>2. ResolveRemote(t, remoteInputs) \in Pad
    BY <1>1, Prediction
  <2>3. QED
    BY <2>1, <2>2 DEF FramesOf, Frame
<1>5. PlanTypeOK'
  <2>1. IsRow(FramesOf(from, through), Frame)
    BY <1>2, <1>4 DEF IsRow, FramesOf
  <2>2. QED
    BY <1>2, <1>3, <2>1 DEF PlanTypeOK, IsRow, Frame, Tick, NoTick
<1>6. PlanInv'
  <2>1. FramesOf(from, through)' = FramesOf(from, through)
    BY DEF FramesOf, ResolveRemote, inputs
  <2>2. floor' = floor
    BY DEF floor, HistoryFloor, cursors
  <2>3. QED
    BY <1>3, <1>1, <2>1, <2>2 DEF PlanInv, FramesOf, ResolveRemote, cursors, inputs, Clean
<1>7. QED
  BY <1>5, <1>6, RowsUntouched DEF CreatePlan

-----------------------------------------------------------------------------
(* The invariant holds initially and every operation preserves it *)

LEMMA InitInv == Init => IInv
<1> SUFFICES ASSUME Init  PROVE IInv
  OBVIOUS
<1>1. floor = StartTick
  BY TimelineAssumption DEF Init, floor, HistoryFloor
<1>2. TypeOK
  <2>1. DOMAIN Empty = {}
    BY DEF Empty
  <2>2. IsRow(Empty, Pad) /\ IsRow(Empty, Frame)
    BY <2>1 DEF IsRow
  <2>3. StartTick - 1 \in -1..MaxTick
    BY TimelineAssumption
  <2>4. [tick |-> StartTick - 1, pad |-> InitialRemotePad]
            \in [tick : -1..MaxTick, pad : Pad \cup {NoPad}]
    BY <2>3, TimelineAssumption
  <2>5. PlanTypeOK
    BY DEF Init, PlanTypeOK
  <2>6. QED
    BY <2>2, <2>3, <2>4, <2>5 DEF Init, TypeOK
<1>3. CursorInv /\ AcceptedInv
  BY TimelineAssumption DEF Init, CursorInv, AcceptedInv, Empty
<1>4. RowsInv /\ SeedInv
  BY <1>1, TimelineAssumption DEF Init, RowsInv, SeedInv, Empty
<1>5. ExecutedIsNewest /\ DirtyInv /\ PlanInv
  BY DEF Init, ExecutedIsNewest, DirtyInv, PlanInv, Empty, Clean
<1>6. QED
  BY <1>2, <1>3, <1>4, <1>5 DEF IInv, Init, DisposedInv

LEMMA RecordLocalInv ==
    ASSUME IInv, NEW tick \in Tick, NEW pad \in Pad, RecordLocal(tick, pad)
    PROVE  IInv'
<1>1. tick = localThrough + 1 /\ tick = simulatedThrough + 1
  BY TimelineAssumption DEF RecordLocal, NextTick, NoTick, IInv, TypeOK, Tick
<1>2. floor' = floor /\ floor \in Int /\ floor <= tick
  BY <1>1, FloorFacts, TimelineAssumption DEF RecordLocal, floor, HistoryFloor, IInv, CursorInv
<1>3. TypeOK'
  BY DEF IInv, TypeOK, RecordLocal, IsRow, PlanTypeOK, Tick
<1>4. CursorInv' /\ AcceptedInv'
  BY <1>1, TimelineAssumption DEF IInv, CursorInv, AcceptedInv, RecordLocal
<1>5. (RowsInv /\ SeedInv)'
  <2>1. DOMAIN localInputs' = DOMAIN localInputs \cup {tick}
    BY DEF RecordLocal
  <2>2. DOMAIN localInputs' = floor..localThrough'
    BY <2>1, <1>1, <1>2 DEF IInv, RowsInv, RecordLocal, TypeOK
  <2>3. \A t \in DOMAIN executedInputs : localInputs'[t] = localInputs[t]
    BY <1>1, <1>2 DEF IInv, RowsInv, CursorInv, RecordLocal
  <2>4. QED
    BY <1>2, <2>2, <2>3 DEF IInv, RowsInv, SeedInv, RecordLocal
<1>6. (ExecutedIsNewest /\ DirtyInv /\ PlanInv)'
  BY <1>2 DEF IInv, ExecutedIsNewest, IsNewest, DirtyInv, PlanInv, Clean, RecordLocal
<1>7. QED
  BY <1>3, <1>4, <1>5, <1>6 DEF IInv, RecordLocal, DisposedInv

LEMMA AcceptDuplicateInv ==
    ASSUME IInv, NEW tick \in Tick, AcceptDuplicate(tick)
    PROVE  IInv'
<1>1. PlanTypeOK' /\ PlanInv'
  BY DEF AcceptDuplicate, DropPlan, IInv, TypeOK, PlanTypeOK, PlanInv, IsRow, Frame, Tick, NoTick
<1>2. QED
  BY <1>1, RowsUntouched DEF AcceptDuplicate, DropPlan

LEMMA DisconnectInv ==
    ASSUME IInv, Disconnect
    PROVE  IInv'
<1>1. PlanTypeOK' /\ PlanInv'
  BY DEF Disconnect, DropPlan, IInv, TypeOK, PlanTypeOK, PlanInv, IsRow, Frame, Tick, NoTick
<1>2. QED
  BY <1>1, RowsUntouched DEF Disconnect, DropPlan

LEMMA PlanForwardInv ==
    ASSUME IInv, PlanForward
    PROVE  IInv'
<1> DEFINE tick == simulatedThrough + 1
<1>1. simulatedThrough \in Int /\ floor \in Int /\ floor <= tick
  BY FloorFacts, TimelineAssumption DEF IInv, CursorInv, floor
<1>2. NextTick(simulatedThrough) = tick
  BY DEF PlanForward, NextTick
<1>3. tick <= localThrough
  BY <1>1, <1>2 DEF PlanForward, IInv, RowsInv, TypeOK
<1>4. tick \in floor..tick /\ tick \in tick..localThrough
  BY <1>1, <1>3 DEF IInv, TypeOK
<1>5. QED
  BY <1>2, <1>4, IssuedPlan DEF PlanForward, IInv

LEMMA PlanReplayInv ==
    ASSUME IInv, PlanReplay
    PROVE  IInv'
<1>1. /\ dirtyFrom \in floor..simulatedThrough
      /\ simulatedThrough \in Int /\ localThrough \in Int
      /\ simulatedThrough <= localThrough /\ floor \in Int
  BY FloorFacts, TimelineAssumption DEF PlanReplay, IInv, DirtyInv, CursorInv, floor
<1>2. dirtyFrom \in floor..(simulatedThrough + 1) /\ simulatedThrough \in dirtyFrom..localThrough
  BY <1>1
<1>3. QED
  BY <1>1, <1>2, IssuedPlan DEF PlanReplay

LEMMA PlanConfirmedPrefixInv ==
    ASSUME IInv, NEW preFrame \in Tick, NEW confirmedEnd \in Tick,
           PlanConfirmedPrefix(preFrame, confirmedEnd)
    PROVE  IInv'
<1>1. /\ NextTick(simulatedThrough) = simulatedThrough + 1
      /\ simulatedThrough \in Int /\ localThrough \in Int
      /\ simulatedThrough <= localThrough /\ floor \in Int
  BY FloorFacts, TimelineAssumption
     DEF PlanConfirmedPrefix, PrefixInterval, NextTick, IInv, CursorInv, floor
<1>2. preFrame \in Int /\ preFrame >= floor /\ preFrame <= simulatedThrough
  BY <1>1 DEF PlanConfirmedPrefix, PrefixInterval, Tick, floor
<1>3. preFrame \in floor..(simulatedThrough + 1) /\ simulatedThrough \in preFrame..localThrough
  BY <1>1, <1>2
<1>4. dirtyFrom # Clean => preFrame <= dirtyFrom
  BY <1>2 DEF PlanConfirmedPrefix, PrefixInterval, IInv, TypeOK, Tick
<1>5. QED
  BY <1>3, <1>4, IssuedPlan DEF PlanConfirmedPrefix

\* The seed after a trim to a floor that has not moved back
LEMMA TrimmedSeed ==
    ASSUME IInv, phase = "active", NEW low \in Int, floor <= low, NEW executed,
           TrimHistory(localInputs, remoteInputs, executed, low)
    PROVE  /\ remoteSeed' \in [tick : -1..MaxTick, pad : Pad]
           /\ remoteSeed'.tick < low
           /\ \/ remoteSeed' = [tick |-> StartTick - 1, pad |-> InitialRemotePad]
              \/ /\ remoteSeed'.tick \in DOMAIN accepted
                 /\ remoteSeed'.pad = accepted[remoteSeed'.tick]
           /\ \A t \in DOMAIN accepted : t < low => t <= remoteSeed'.tick
<1> DEFINE dropped == {t \in DOMAIN remoteInputs : t < low /\ t > remoteSeed.tick}
<1>1. /\ floor \in Int /\ remoteSeed.tick \in Int
      /\ remoteSeed \in [tick : -1..MaxTick, pad : Pad]
      /\ DOMAIN accepted \subseteq Int
      /\ DOMAIN remoteInputs \subseteq 0..MaxTick
  <2>1. remoteSeed \in [tick : -1..MaxTick, pad : Pad \cup {NoPad}]
    BY DEF IInv, TypeOK
  <2>2. remoteSeed.pad \in Pad
    BY TimelineAssumption DEF IInv, SeedInv, TypeOK, IsRow
  <2>3. QED
    BY <2>1, <2>2, FloorFacts, TimelineAssumption
       DEF IInv, CursorInv, TypeOK, IsRow, Tick, floor
<1>2. remoteSeed' = IF dropped = {} THEN remoteSeed
                    ELSE [tick |-> Max(dropped), pad |-> remoteInputs[Max(dropped)]]
  BY DEF TrimHistory
<1>3. \A t \in DOMAIN accepted : t < low => t <= remoteSeed.tick \/ t \in dropped
  BY <1>1 DEF IInv, RowsInv, SeedInv
<1>4. CASE dropped = {}
  BY <1>1, <1>2, <1>3, <1>4 DEF IInv, SeedInv
<1>5. CASE dropped # {}
  <2>1. Max(dropped) \in dropped /\ \A t \in dropped : t <= Max(dropped)
    <3>1. dropped \in SUBSET Int /\ \A t \in dropped : t <= low
      BY <1>1
    <3> HIDE DEF dropped
    <3>2. QED  BY <1>5, <3>1, MaxInt
  <2> DEFINE last == Max(dropped)
  <2>2. last \in DOMAIN remoteInputs /\ last < low /\ last > remoteSeed.tick
    BY <2>1
  <2>3. last \in DOMAIN accepted /\ remoteInputs[last] = accepted[last]
    BY <2>2, <1>1 DEF IInv, RowsInv
  <2>4. remoteInputs[last] \in Pad /\ last \in -1..MaxTick
    BY <2>2, <1>1 DEF IInv, TypeOK, IsRow
  <2>5. remoteSeed' = [tick |-> last, pad |-> remoteInputs[last]]
    BY <1>2, <1>5
  <2>6. \A t \in DOMAIN accepted : t < low => t <= last
    BY <1>1, <1>3, <2>1, <2>2
  <2> HIDE DEF last
  <2>7. QED
    BY <2>2, <2>3, <2>4, <2>5, <2>6
<1>6. QED
  BY <1>4, <1>5

LEMMA CommitForwardInv ==
    ASSUME IInv, CommitForward
    PROVE  IInv'
<1> DEFINE tick == simulatedThrough + 1
           low == HistoryFloor(tick)
           frames == FramesOf(tick, tick)
<1>1. /\ phase = "active" /\ phase' = "active" /\ outstanding /\ dirtyFrom = Clean
      /\ plan.from = tick /\ simulatedThrough' = tick
      /\ tick <= localThrough /\ tick - remoteContiguousThrough <= MaxPrediction
      /\ simulatedThrough \in Int /\ tick \in Tick
  BY TimelineAssumption
     DEF CommitForward, CurrentPlan, IInv, PlanInv, TypeOK, PlanTypeOK, CursorInv, Tick
<1>2. /\ floor \in Int /\ low \in Int /\ floor <= low /\ low <= tick /\ low >= StartTick
      /\ floor >= StartTick /\ floor <= tick
      /\ floor' = low
  BY <1>1, FloorFacts, FloorMonotone, TimelineAssumption
     DEF floor, HistoryFloor, IInv, CursorInv, Tick
<1>3. TrimHistory(localInputs, remoteInputs, Overwritten(frames), low)
  BY <1>1 DEF CommitForward
<1>4. /\ \A t \in Int : t \in DOMAIN localInputs' <=> t \in DOMAIN localInputs /\ t >= low
      /\ \A t \in DOMAIN localInputs' : localInputs'[t] = localInputs[t]
      /\ \A t \in Int : t \in DOMAIN remoteInputs' <=> t \in DOMAIN remoteInputs /\ t >= low
      /\ \A t \in DOMAIN remoteInputs' : remoteInputs'[t] = remoteInputs[t]
      /\ DOMAIN localInputs' \subseteq DOMAIN localInputs
      /\ DOMAIN remoteInputs' \subseteq DOMAIN remoteInputs
  BY <1>3 DEF TrimHistory, Retained
<1>5. /\ DOMAIN executedInputs' = low..tick
      /\ \A t \in low..simulatedThrough : executedInputs'[t] = executedInputs[t]
      /\ executedInputs'[tick] = [local  |-> localInputs[tick],
                                  remote |-> ResolveRemote(tick, remoteInputs)]
  <2>1. DOMAIN Overwritten(frames) = floor..tick
    BY <1>1, <1>2 DEF Overwritten, FramesOf, IInv, RowsInv
  <2>2. DOMAIN executedInputs' = low..tick
    BY <1>2, <1>1, <1>3, <2>1 DEF TrimHistory, Retained
  <2>3. \A t \in low..tick : executedInputs'[t] = Overwritten(frames)[t]
    BY <1>2, <1>1, <1>3, <2>1 DEF TrimHistory, Retained
  <2>4. /\ \A t \in floor..simulatedThrough : Overwritten(frames)[t] = executedInputs[t]
        /\ Overwritten(frames)[tick] = frames[tick]
    <3>1. DOMAIN frames = {tick} /\ DOMAIN executedInputs = floor..simulatedThrough
      BY <1>1 DEF FramesOf, IInv, RowsInv
    <3> HIDE DEF frames
    <3>2. QED
      BY <1>1, <1>2, <3>1 DEF Overwritten
  <2>5. frames[tick] = [local  |-> localInputs[tick],
                        remote |-> ResolveRemote(tick, remoteInputs)]
    BY <1>1 DEF FramesOf
  <2> HIDE DEF frames
  <2>6. \A t \in low..simulatedThrough : t \in low..tick /\ t \in floor..simulatedThrough
    BY <1>1, <1>2
  <2>7. tick \in low..tick
    BY <1>1, <1>2
  <2> HIDE DEF low, tick
  <2>8. QED
    BY <2>2, <2>3, <2>4, <2>5, <2>6, <2>7
<1>6. IsNewest(accepted, tick, ResolveRemote(tick, remoteInputs))
      /\ ResolveRemote(tick, remoteInputs) \in Pad
  BY <1>1, <1>2, Prediction
<1>7. localInputs[tick] \in Pad
  BY <1>1, <1>2 DEF IInv, RowsInv, TypeOK, IsRow, CursorInv
<1>8. remoteSeed' \in [tick : -1..MaxTick, pad : Pad] /\ SeedInv'
  <2>1. accepted' = accepted
    BY DEF CommitForward
  <2> HIDE DEF low
  <2>2. QED
    BY <1>1, <1>2, <1>3, <2>1, TrimmedSeed DEF SeedInv
<1>9. TypeOK'
  <2>1. IsRow(localInputs', Pad) /\ IsRow(remoteInputs', Pad)
    BY <1>4 DEF IInv, TypeOK, IsRow, Tick
  <2>2. IsRow(executedInputs', Frame)
    <3>1. \A t \in low..simulatedThrough : executedInputs[t] \in Frame
      BY <1>1, <1>2 DEF IInv, TypeOK, IsRow, RowsInv
    <3>2. executedInputs'[tick] \in Frame
      BY <1>5, <1>6, <1>7 DEF Frame
    <3>3. low..tick \subseteq Tick
      BY <1>1, <1>2, TimelineAssumption DEF Tick
    <3>4. \A t \in low..tick : t \in low..simulatedThrough \/ t = tick
      BY <1>1, <1>2
    <3>5. QED
      BY <1>5, <3>1, <3>2, <3>3, <3>4 DEF IsRow
  <2>3. PlanTypeOK' /\ outstanding' \in BOOLEAN /\ revised' \in BOOLEAN
    BY DEF CommitForward, DropPlan, IInv, TypeOK, PlanTypeOK, IsRow, Frame, Tick, NoTick
  <2>4. remoteSeed' \in [tick : -1..MaxTick, pad : Pad \cup {NoPad}]
    BY <1>8
  <2>5. simulatedThrough' \in -1..MaxTick
    BY <1>1 DEF Tick
  <2>6. QED
    BY <2>1, <2>2, <2>3, <2>4, <2>5 DEF IInv, TypeOK, IsRow, Tick, CommitForward
<1>10. CursorInv' /\ AcceptedInv'
  BY <1>1, TimelineAssumption DEF IInv, CursorInv, AcceptedInv, CommitForward, Tick
<1>11. RowsInv'
  <2>1. DOMAIN localInputs' = low..localThrough'
    <3>1. localThrough' = localThrough /\ localThrough \in Int /\ DOMAIN localInputs = floor..localThrough
      BY <1>1 DEF IInv, RowsInv, CursorInv, CommitForward
    <3>2. DOMAIN localInputs' \subseteq Int
      BY <1>2, <1>4, <3>1
    <3>3. \A t \in Int : t \in DOMAIN localInputs' <=> t \in low..localThrough
      BY <1>2, <1>4, <3>1
    <3> HIDE DEF low
    <3>4. DOMAIN localInputs' \subseteq low..localThrough
      BY <3>2, <3>3
    <3>5. low..localThrough \subseteq DOMAIN localInputs'
      BY <1>2, <3>1, <3>3
    <3>6. QED
      BY <3>1, <3>4, <3>5
  <2>2. \A t \in low..tick : executedInputs'[t].local = localInputs'[t]
    <3> TAKE t \in low..tick
    <3>1. t \in DOMAIN localInputs'
      BY <1>1, <1>2, <2>1 DEF CommitForward, IInv, CursorInv
    <3>2. CASE t = tick
      BY <3>1, <3>2, <1>4, <1>5
    <3>3. CASE t # tick
      BY <3>1, <3>3, <1>1, <1>2, <1>4, <1>5 DEF IInv, RowsInv
    <3>4. QED
      BY <3>2, <3>3
  <2>3. accepted' = accepted
    BY DEF CommitForward
  <2>4. (\A t \in Int : t \in DOMAIN remoteInputs <=> t \in DOMAIN accepted /\ t >= floor)'
    BY <1>1, <1>2, <1>4, <2>3 DEF IInv, RowsInv
  <2>5. (\A t \in DOMAIN remoteInputs : remoteInputs[t] = accepted[t])'
    BY <1>1, <1>4, <2>3 DEF IInv, RowsInv
  <2> HIDE DEF low, tick
  <2>6. QED
    BY <1>1, <1>2, <1>5, <2>1, <2>2, <2>4, <2>5 DEF RowsInv
<1>12. ExecutedIsNewest'
  <2>1. accepted' = accepted
    BY DEF CommitForward
  <2>2. ASSUME NEW t \in low..tick  PROVE IsNewest(accepted, t, executedInputs'[t].remote)
    <3>1. CASE t = tick
      BY <3>1, <1>5, <1>6
    <3>2. CASE t # tick
      <4>1. t \in low..simulatedThrough /\ t \in DOMAIN executedInputs
        BY <3>2, <1>1, <1>2 DEF IInv, RowsInv
      <4>2. QED
        BY <4>1, <1>1, <1>5 DEF IInv, ExecutedIsNewest
    <3>3. QED
      BY <3>1, <3>2
  <2> HIDE DEF low, tick
  <2>3. QED
    BY <1>5, <2>1, <2>2 DEF ExecutedIsNewest, IsNewest
<1>13. DirtyInv' /\ PlanInv'
  BY <1>1 DEF CommitForward, DropPlan, DirtyInv, PlanInv, Clean
<1>14. QED
  BY <1>1, <1>8, <1>9, <1>10, <1>11, <1>12, <1>13 DEF IInv, DisposedInv

\* The end that a replay and a confirmed-prefix handoff share
LEMMA CommitResolvedInv ==
    ASSUME IInv, phase = "active", outstanding, plan.kind # "forward", CommitResolved
    PROVE  IInv'
<1> DEFINE from == plan.from
           resolved == [t \in plan.from..plan.through |->
                           [local |-> localInputs[t], remote |-> plan.frames[t].remote]]
<1>1. /\ phase' = "active" /\ dirtyFrom' = Clean
      /\ simulatedThrough' = simulatedThrough /\ localThrough' = localThrough
      /\ plan.through = simulatedThrough /\ from \in Int
      /\ floor <= from /\ from <= simulatedThrough
      /\ simulatedThrough \in Int /\ localThrough \in Int /\ simulatedThrough <= localThrough
      /\ dirtyFrom # Clean => from <= dirtyFrom
      /\ accepted' = accepted
  BY TimelineAssumption DEF CommitResolved, cursors, IInv, PlanInv, TypeOK, PlanTypeOK, CursorInv, Tick, floor
<1>2. floor \in Int /\ floor >= StartTick /\ floor' = floor
  BY <1>1, FloorFacts DEF floor, HistoryFloor
<1>3. TrimHistory(localInputs, remoteInputs, Overwritten(resolved), floor)
  BY <1>1 DEF CommitResolved, floor
<1>4. /\ DOMAIN localInputs = floor..localThrough
      /\ DOMAIN executedInputs = floor..simulatedThrough
      /\ DOMAIN remoteInputs \subseteq Int
      /\ \A t \in DOMAIN remoteInputs : t >= floor
  BY DEF IInv, RowsInv, TypeOK, IsRow, Tick
<1>5. /\ DOMAIN localInputs' = floor..localThrough
      /\ \A t \in DOMAIN localInputs' : localInputs'[t] = localInputs[t]
      /\ DOMAIN remoteInputs' = DOMAIN remoteInputs
      /\ \A t \in DOMAIN remoteInputs' : remoteInputs'[t] = remoteInputs[t]
  <2> HIDE DEF floor
  <2>1. {t \in DOMAIN localInputs : t >= floor} = floor..localThrough
    BY <1>1, <1>2, <1>4
  <2>2. {t \in DOMAIN remoteInputs : t >= floor} = DOMAIN remoteInputs
    BY <1>4
  <2>3. QED
    BY <1>3, <1>4, <2>1, <2>2 DEF TrimHistory, Retained
<1>6. \A t \in from..simulatedThrough : plan.frames[t].remote = ResolveRemote(t, remoteInputs)
  BY <1>1 DEF IInv, PlanInv, FramesOf
<1>7. /\ DOMAIN executedInputs' = floor..simulatedThrough
      /\ \A t \in floor..simulatedThrough :
            executedInputs'[t] = IF t >= from
                                 THEN [local |-> localInputs[t], remote |-> ResolveRemote(t, remoteInputs)]
                                 ELSE executedInputs[t]
  <2>1. DOMAIN resolved = from..simulatedThrough
    BY <1>1
  <2>2. \A t \in from..simulatedThrough :
           resolved[t] = [local |-> localInputs[t], remote |-> ResolveRemote(t, remoteInputs)]
    BY <1>1, <1>6
  <2> HIDE DEF resolved, floor
  <2>3. DOMAIN Overwritten(resolved) = floor..simulatedThrough
    BY <1>1, <1>2, <1>4, <2>1 DEF Overwritten
  <2>4. \A t \in floor..simulatedThrough :
           Overwritten(resolved)[t] = IF t >= from THEN resolved[t] ELSE executedInputs[t]
    BY <1>1, <1>2, <1>4, <2>1 DEF Overwritten
  <2>5. {t \in floor..simulatedThrough : t >= floor} = floor..simulatedThrough
    BY <1>2
  <2>6. DOMAIN executedInputs' = floor..simulatedThrough
        /\ \A t \in floor..simulatedThrough : executedInputs'[t] = Overwritten(resolved)[t]
    <3>1. executedInputs' = [t \in {u \in DOMAIN Overwritten(resolved) : u >= floor} |->
                                Overwritten(resolved)[t]]
      BY <1>3 DEF TrimHistory, Retained
    <3>2. executedInputs' = [t \in floor..simulatedThrough |-> Overwritten(resolved)[t]]
      BY <2>3, <2>5, <3>1
    <3>3. QED
      BY <3>2
  <2> HIDE DEF from
  <2>7. ASSUME NEW t \in floor..simulatedThrough, t >= from
        PROVE  executedInputs'[t] = [local  |-> localInputs[t],
                                     remote |-> ResolveRemote(t, remoteInputs)]
    <3>1. t \in from..simulatedThrough
      BY <1>1, <1>2, <2>7
    <3>2. QED
      BY <2>2, <2>4, <2>6, <2>7, <3>1
  <2>8. ASSUME NEW t \in floor..simulatedThrough, ~(t >= from)
        PROVE  executedInputs'[t] = executedInputs[t]
    BY <2>4, <2>6, <2>8
  <2>9. QED
    BY <2>6, <2>7, <2>8
<1>8. \A t \in floor..simulatedThrough :
          /\ IsNewest(accepted, t, ResolveRemote(t, remoteInputs))
          /\ ResolveRemote(t, remoteInputs) \in Pad
  BY <1>1, <1>2, Prediction
<1>9. remoteSeed' \in [tick : -1..MaxTick, pad : Pad] /\ SeedInv'
  BY <1>1, <1>2, <1>3, TrimmedSeed DEF SeedInv
<1>10. \A t \in floor..simulatedThrough : localInputs[t] \in Pad
  BY <1>1, <1>2, <1>4 DEF IInv, TypeOK, IsRow
<1>11. TypeOK'
  <2>1. IsRow(localInputs', Pad) /\ IsRow(remoteInputs', Pad)
    BY <1>4, <1>5 DEF IInv, TypeOK, IsRow, Tick
  <2>2. IsRow(executedInputs', Frame)
    <3>1. \A t \in floor..simulatedThrough : t \in Tick /\ executedInputs[t] \in Frame
      BY <1>4 DEF IInv, TypeOK, IsRow
    <3> HIDE DEF floor, from
    <3>2. \A t \in floor..simulatedThrough : executedInputs'[t] \in Frame
      BY <1>7, <1>8, <1>10, <3>1 DEF Frame
    <3>3. QED
      BY <1>7, <3>1, <3>2 DEF IsRow
  <2>3. PlanTypeOK' /\ outstanding' \in BOOLEAN /\ revised' \in BOOLEAN
    BY DEF CommitResolved, DropPlan, IInv, TypeOK, PlanTypeOK, IsRow, Frame, Tick, NoTick
  <2>4. remoteSeed' \in [tick : -1..MaxTick, pad : Pad \cup {NoPad}]
    BY <1>9
  <2>5. QED
    BY <1>1, <2>1, <2>2, <2>3, <2>4 DEF IInv, TypeOK, IsRow, Tick, CommitResolved, cursors
<1>12. CursorInv' /\ AcceptedInv'
  BY <1>1 DEF IInv, CursorInv, AcceptedInv, CommitResolved, cursors
<1>13. RowsInv'
  <2>1. \A t \in floor..simulatedThrough : executedInputs'[t].local = localInputs'[t]
    <3> TAKE t \in floor..simulatedThrough
    <3>1. localInputs'[t] = localInputs[t]
      BY <1>1, <1>2, <1>5
    <3>2. executedInputs[t].local = localInputs[t]
      BY <1>1, <1>4 DEF IInv, RowsInv
    <3> HIDE DEF floor, from
    <3>3. QED
      BY <1>7, <3>1, <3>2
  <2>2. (\A t \in Int : t \in DOMAIN remoteInputs <=> t \in DOMAIN accepted /\ t >= floor)'
    BY <1>1, <1>2, <1>5 DEF IInv, RowsInv
  <2>3. (\A t \in DOMAIN remoteInputs : remoteInputs[t] = accepted[t])'
    BY <1>1, <1>5 DEF IInv, RowsInv
  <2> HIDE DEF floor, from
  <2>4. QED
    BY <1>1, <1>2, <1>5, <1>7, <2>1, <2>2, <2>3 DEF RowsInv
<1>14. ExecutedIsNewest'
  <2>1. ASSUME NEW t \in floor..simulatedThrough
        PROVE  IsNewest(accepted, t, executedInputs'[t].remote)
    <3>1. CASE t >= from
      <4> HIDE DEF floor, from
      <4> QED  BY <3>1, <1>7, <1>8
    <3>2. CASE ~(t >= from)
      <4>1. dirtyFrom = Clean \/ t < dirtyFrom
        BY <3>2, <1>1, <1>2 DEF IInv, TypeOK, Tick
      <4>2. IsNewest(accepted, t, executedInputs[t].remote)
        BY <4>1, <1>4 DEF IInv, ExecutedIsNewest
      <4> HIDE DEF floor, from
      <4>3. QED
        BY <3>2, <4>2, <1>7
    <3>3. QED
      BY <3>1, <3>2
  <2> HIDE DEF floor
  <2>2. QED
    BY <1>1, <1>7, <2>1 DEF ExecutedIsNewest, IsNewest
<1>15. DirtyInv' /\ PlanInv'
  BY <1>1 DEF CommitResolved, DropPlan, DirtyInv, PlanInv, Clean
<1>16. QED
  BY <1>1, <1>9, <1>11, <1>12, <1>13, <1>14, <1>15 DEF IInv, DisposedInv

LEMMA DisposeInv ==
    ASSUME IInv, Dispose
    PROVE  IInv'
<1>1. DOMAIN Empty = {}
  BY DEF Empty
<1>2. TypeOK'
  <2>1. IsRow(Empty, Pad) /\ IsRow(Empty, Frame)
    BY <1>1 DEF IsRow
  <2>2. PlanTypeOK'
    BY DEF Dispose, DropPlan, IInv, TypeOK, PlanTypeOK, IsRow, Frame, Tick, NoTick
  <2>3. IsRow(accepted', Pad)
    BY DEF Dispose, IInv, TypeOK, IsRow, Tick
  <2>4. remoteSeed' \in [tick : -1..MaxTick, pad : Pad \cup {NoPad}]
    BY DEF Dispose, IInv, TypeOK
  <2>5. IsRow(localInputs, Pad)' /\ IsRow(remoteInputs, Pad)' /\ IsRow(executedInputs, Frame)'
    BY <1>1 DEF Dispose, IsRow
  <2>6. QED
    BY <2>2, <2>3, <2>4, <2>5 DEF Dispose, DropPlan, IInv, TypeOK, IsRow, cursors, Clean, Tick
<1>3. CursorInv' /\ AcceptedInv'
  BY DEF Dispose, IInv, CursorInv, AcceptedInv, cursors
<1>4. ExecutedIsNewest' /\ DirtyInv' /\ PlanInv'
  BY <1>1 DEF Dispose, DropPlan, ExecutedIsNewest, DirtyInv, PlanInv, Clean
<1>5. DisposedInv'
  BY DEF Dispose, DisposedInv, Empty, Clean
<1>6. QED
  BY <1>2, <1>3, <1>4, <1>5 DEF IInv, Dispose

\* The newest pad is unique, and is that of the tick before when the tick
\* itself has no sample.
LEMMA NewestUnique ==
    ASSUME NEW samples, NEW t \in Int, NEW p, NEW q, DOMAIN samples \subseteq Int,
           IsNewest(samples, t, p), IsNewest(samples, t, q)
    PROVE  p = q
BY DEF IsNewest

LEMMA NewestCarries ==
    ASSUME NEW samples, NEW t \in Int, NEW p, DOMAIN samples \subseteq Int,
           t \notin DOMAIN samples
    PROVE  IsNewest(samples, t, p) <=> IsNewest(samples, t - 1, p)
<1>1. {s \in DOMAIN samples : s <= t} = {s \in DOMAIN samples : s <= t - 1}
  OBVIOUS
<1>2. QED
  BY <1>1 DEF IsNewest

\* The dirty mark moves to the least contradicted tick, and only downwards.
LEMMA LeastDirty ==
    ASSUME NEW old \in Nat \cup {-1}, NEW new, NEW changed \in SUBSET Nat,
           new = IF changed = {} THEN old
                 ELSE IF old = -1 \/ Min(changed) < old THEN Min(changed) ELSE old
    PROVE  /\ new = old \/ new \in changed
           /\ new # old => old = -1 \/ new < old
           /\ \A t \in changed : new # -1 /\ new <= t
           /\ \A t \in Int : new = -1 \/ t < new => (old = -1 \/ t < old) /\ t \notin changed
<1>1. CASE changed = {}
  BY <1>1
<1>2. CASE changed # {}
  <2> DEFINE least == Min(changed)
  <2>1. least \in changed /\ \A t \in changed : least <= t
    <3>1. changed \in SUBSET Int /\ \A t \in changed : 0 <= t
      OBVIOUS
    <3>2. QED  BY <1>2, <3>1, MinInt, SMTT(30)
  <2>2. new = IF old = -1 \/ least < old THEN least ELSE old
    BY <1>2
  <2> HIDE DEF least
  <2>3. QED
    BY <2>1, <2>2
<1>3. QED
  BY <1>1, <1>2

\* Accepting a late sample: the frames it contradicts, and every later one,
\* become the dirty suffix; all others are still the newest prediction.
LEMMA AcceptRemoteInv ==
    ASSUME IInv, NEW tick \in Tick, NEW pad \in Pad, AcceptRemote(tick, pad)
    PROVE  IInv'
<1> DEFINE candidate == [t \in DOMAIN remoteInputs \cup {tick} |->
                            IF t = tick THEN pad ELSE remoteInputs[t]]
           changed == Contradicted(tick, candidate)
           samples == [t \in DOMAIN accepted \cup {tick} |->
                          IF t = tick THEN pad ELSE accepted[t]]
           contiguous == ContiguousFrom(remoteContiguousThrough, candidate)
           bound == simulatedThrough + MaxLookahead
<1>a. /\ TrimHistory(localInputs, candidate, executedInputs, HistoryFloor(simulatedThrough))
      /\ remoteContiguousThrough' = contiguous
      /\ dirtyFrom' = IF changed = {} THEN dirtyFrom
                      ELSE IF dirtyFrom = Clean \/ Min(changed) < dirtyFrom
                           THEN Min(changed) ELSE dirtyFrom
      /\ accepted' = samples
  BY DEF AcceptRemote
<1>b. /\ DOMAIN candidate = DOMAIN remoteInputs \cup {tick}
      /\ candidate[tick] = pad
      /\ \A t \in DOMAIN remoteInputs : t # tick => candidate[t] = remoteInputs[t]
      /\ DOMAIN samples = DOMAIN accepted \cup {tick}
      /\ samples[tick] = pad
      /\ \A t \in DOMAIN accepted : t # tick => samples[t] = accepted[t]
  OBVIOUS
<1>c. /\ changed \subseteq tick..simulatedThrough
      /\ \A t \in tick..simulatedThrough :
            t \in changed <=> executedInputs[t].remote # ResolveRemote(t, candidate)
  BY DEF Contradicted
<1>d. contiguous = ContiguousFrom(remoteContiguousThrough, candidate)
  OBVIOUS
<1> HIDE DEF candidate, changed, samples, contiguous
<1>1. /\ phase = "active" /\ phase' = "active" /\ tick \in Int
      /\ simulatedThrough' = simulatedThrough /\ localThrough' = localThrough
      /\ tick >= StartTick /\ tick >= floor /\ tick <= MaxTick
      /\ simulatedThrough \in Int /\ floor \in Int /\ floor >= StartTick
      /\ simulatedThrough <= MaxTick
      /\ remoteContiguousThrough \in Int /\ floor' = floor
      /\ tick \notin DOMAIN remoteInputs /\ InLookahead(tick)
  BY FloorFacts, TimelineAssumption
     DEF AcceptRemote, IInv, CursorInv, Tick, floor, HistoryFloor
<1>2. TrimHistory(localInputs, candidate, executedInputs, floor)
  BY <1>a DEF floor
<1>3. tick <= bound
  <2>1. CASE tick <= simulatedThrough
    BY <2>1, <1>1, TimelineAssumption
  <2>2. CASE tick > simulatedThrough
    <3>1. NextTick(simulatedThrough) = simulatedThrough + 1
      BY <2>2, <1>1, TimelineAssumption DEF NextTick
    <3>2. NextTick(simulatedThrough) # NoTick /\ tick >= NextTick(simulatedThrough)
      BY <2>2, <3>1, <1>1, TimelineAssumption DEF NoTick, IInv, CursorInv
    <3>3. tick - NextTick(simulatedThrough) < MaxLookahead
      BY <3>2, <1>1 DEF InLookahead
    <3>4. QED
      BY <3>1, <3>3, <1>1, TimelineAssumption
  <2>3. QED
    BY <2>1, <2>2, <1>1
<1>4. tick \notin DOMAIN accepted
  BY <1>1 DEF IInv, RowsInv
<1>5. /\ DOMAIN localInputs = floor..localThrough
      /\ DOMAIN executedInputs = floor..simulatedThrough
      /\ DOMAIN remoteInputs \subseteq Int
      /\ \A t \in DOMAIN remoteInputs : t >= floor
      /\ DOMAIN accepted \subseteq StartTick..MaxTick
      /\ localThrough \in Int
  BY <1>1 DEF IInv, RowsInv, TypeOK, IsRow, Tick, AcceptedInv, CursorInv
<1>6. /\ DOMAIN samples \subseteq StartTick..MaxTick
      /\ DOMAIN candidate \subseteq Int
      /\ \A t \in Int : t \in DOMAIN candidate <=> t \in DOMAIN samples /\ t >= floor
      /\ \A t \in DOMAIN candidate : candidate[t] = samples[t]
      /\ \A t \in DOMAIN samples : t < floor => t \in DOMAIN accepted
      /\ \A t \in DOMAIN accepted : samples[t] = accepted[t]
      /\ tick \in DOMAIN samples /\ samples[tick] = pad
      /\ DOMAIN samples = DOMAIN accepted \cup {tick}
  BY <1>1, <1>b, <1>4, <1>5 DEF IInv, RowsInv
<1>7. /\ remoteSeed \in [tick : -1..MaxTick, pad : Pad]
      /\ remoteSeed.tick \in Int /\ remoteSeed.tick < floor
      /\ \/ remoteSeed = [tick |-> StartTick - 1, pad |-> InitialRemotePad]
         \/ /\ remoteSeed.tick \in DOMAIN samples
            /\ remoteSeed.pad = samples[remoteSeed.tick]
      /\ \A t \in DOMAIN samples : t < floor => t <= remoteSeed.tick
  <2>1. remoteSeed \in [tick : -1..MaxTick, pad : Pad \cup {NoPad}]
    BY DEF IInv, TypeOK
  <2>2. remoteSeed.pad \in Pad
    BY <1>1, TimelineAssumption DEF IInv, SeedInv, TypeOK, IsRow
  <2>3. QED
    BY <1>1, <1>6, <2>1, <2>2, TimelineAssumption DEF IInv, SeedInv
<1>8. /\ remoteSeed' = remoteSeed
      /\ DOMAIN localInputs' = floor..localThrough
      /\ \A t \in DOMAIN localInputs' : localInputs'[t] = localInputs[t]
      /\ DOMAIN executedInputs' = floor..simulatedThrough
      /\ \A t \in DOMAIN executedInputs' : executedInputs'[t] = executedInputs[t]
      /\ DOMAIN remoteInputs' = DOMAIN candidate
      /\ \A t \in DOMAIN remoteInputs' : remoteInputs'[t] = candidate[t]
  <2>1. {t \in DOMAIN candidate : t < floor /\ t > remoteSeed.tick} = {}
    BY <1>1, <1>6
  <2> HIDE DEF floor
  <2>2. /\ {t \in DOMAIN candidate : t >= floor} = DOMAIN candidate
        /\ {t \in DOMAIN localInputs : t >= floor} = floor..localThrough
        /\ {t \in DOMAIN executedInputs : t >= floor} = floor..simulatedThrough
    <3>1. \A t \in DOMAIN candidate : t >= floor
      BY <1>1, <1>b, <1>5
    <3>2. \A t \in floor..localThrough : t >= floor
      BY <1>1, <1>5
    <3>3. \A t \in floor..simulatedThrough : t >= floor
      BY <1>1
    <3>4. QED
      BY <1>5, <3>1, <3>2, <3>3
  <2>3. remoteSeed' = remoteSeed
    BY <1>2, <2>1 DEF TrimHistory
  <2>4. /\ localInputs' = [t \in floor..localThrough |-> localInputs[t]]
        /\ executedInputs' = [t \in floor..simulatedThrough |-> executedInputs[t]]
        /\ remoteInputs' = [t \in DOMAIN candidate |-> candidate[t]]
    BY <1>2, <2>2 DEF TrimHistory, Retained
  <2>5. QED
    BY <2>3, <2>4
<1>9. ASSUME NEW t \in floor..simulatedThrough
      PROVE  IsNewest(samples, t, ResolveRemote(t, candidate))
  <2> HIDE DEF floor
  <2> QED
  BY <1>1, <1>6, <1>7, ResolveIsNewest
<1>10. /\ contiguous \in {remoteContiguousThrough} \cup DOMAIN candidate
       /\ contiguous >= remoteContiguousThrough
       /\ contiguous + 1 \notin DOMAIN candidate
       /\ (remoteContiguousThrough + 1)..contiguous \subseteq DOMAIN candidate
  <2>1. \A t \in DOMAIN candidate : t <= MaxTick
    BY <1>6, TimelineAssumption
  <2>2. remoteContiguousThrough <= MaxTick /\ MaxTick \in Int
    BY TimelineAssumption DEF IInv, CursorInv
  <2>3. QED
    BY <1>1, <1>d, <1>6, <2>1, <2>2, ContiguousRun
<1>11. CursorInv'
  <2>1. contiguous \in (StartTick - 1)..MaxTick
    BY <1>1, <1>6, <1>10, TimelineAssumption DEF IInv, CursorInv
  <2>2. QED
    BY <1>1, <1>a, <1>10, <2>1, TimelineAssumption DEF IInv, CursorInv
<1>12. AcceptedInv'
  <2>1. StartTick..contiguous \subseteq DOMAIN samples
    <3> SUFFICES ASSUME NEW t \in StartTick..contiguous  PROVE t \in DOMAIN samples
      OBVIOUS
    <3>1. CASE t <= remoteContiguousThrough
      BY <3>1, <1>1, <1>6, TimelineAssumption DEF IInv, AcceptedInv
    <3>2. CASE t > remoteContiguousThrough
      BY <3>2, <1>1, <1>6, <1>10, TimelineAssumption
    <3>3. QED
      BY <3>1, <3>2, <1>1, TimelineAssumption
  <2>2. contiguous + 1 \notin DOMAIN samples
    \* the floor is not above the contiguous cursor's next tick
    <3>1. contiguous \in Int
      BY <1>1, <1>6, <1>10
    <3>2. floor <= contiguous + 1
      <4>1. floor = StartTick \/ floor = simulatedThrough - MaxHistory + 1
        BY <1>1, FloorFacts DEF floor
      <4> HIDE DEF floor
      <4>2. QED
        BY <1>1, <1>10, <3>1, <4>1, TimelineAssumption DEF IInv, CursorInv
    <3>3. QED
      BY <1>1, <1>6, <1>10, <3>1, <3>2
  <2>3. \A t \in DOMAIN samples : t <= simulatedThrough + MaxLookahead
    BY <1>3, <1>6 DEF IInv, AcceptedInv
  <2>4. QED
    BY <1>1, <1>a, <1>6, <2>1, <2>2, <2>3 DEF AcceptedInv
<1>13. changed \in SUBSET Nat /\ changed \subseteq Tick /\ dirtyFrom \in Nat \cup {-1}
  <2>1. \A t \in tick..simulatedThrough : t \in Nat /\ t \in 0..MaxTick
    BY <1>1, TimelineAssumption
  <2>2. QED
    BY <1>c, <2>1, TimelineAssumption DEF IInv, TypeOK, Tick, Clean
<1>14. /\ dirtyFrom' = dirtyFrom \/ dirtyFrom' \in changed
       /\ dirtyFrom' # dirtyFrom => dirtyFrom = Clean \/ dirtyFrom' < dirtyFrom
       /\ \A t \in changed : dirtyFrom' <= t
       /\ \A t \in Int : dirtyFrom' = Clean \/ t < dirtyFrom' =>
                             (dirtyFrom = Clean \/ t < dirtyFrom) /\ t \notin changed
  <2>1. dirtyFrom' = IF changed = {} THEN dirtyFrom
                     ELSE IF dirtyFrom = -1 \/ Min(changed) < dirtyFrom
                          THEN Min(changed) ELSE dirtyFrom
    BY <1>a DEF Clean
  <2> DEFINE old == dirtyFrom
             new == dirtyFrom'
  <2>2. /\ old \in Nat \cup {-1}
        /\ new = IF changed = {} THEN old
                 ELSE IF old = -1 \/ Min(changed) < old THEN Min(changed) ELSE old
    BY <1>13, <2>1
  <2> HIDE DEF old, new
  <2>3. /\ new = old \/ new \in changed
        /\ new # old => old = -1 \/ new < old
        /\ \A t \in changed : new # -1 /\ new <= t
        /\ \A t \in Int : new = -1 \/ t < new => (old = -1 \/ t < old) /\ t \notin changed
    BY <1>13, <2>2, LeastDirty
  <2>4. QED
    BY <2>3 DEF old, new, Clean
<1>16. TypeOK'
  <2>1. IsRow(localInputs', Pad) /\ IsRow(executedInputs', Frame)
    BY <1>5, <1>8 DEF IInv, TypeOK, IsRow, Tick
  <2>2. IsRow(samples, Pad)
    BY <1>1, <1>6 DEF IInv, TypeOK, IsRow, Tick
  <2>3. IsRow(remoteInputs', Pad)
    BY <1>6, <1>8, <2>2 DEF IsRow, Tick
  <2>4. dirtyFrom' \in Tick \cup {Clean}
    BY <1>13, <1>14 DEF IInv, TypeOK
  <2>5. remoteContiguousThrough' \in -1..MaxTick
    BY <1>11, TimelineAssumption DEF CursorInv
  <2>6. PlanTypeOK' /\ outstanding' \in BOOLEAN /\ revised' \in BOOLEAN
    BY DEF AcceptRemote, DropPlan, IInv, TypeOK, PlanTypeOK, IsRow, Frame, Tick, NoTick
  <2>7. remoteSeed' \in [tick : -1..MaxTick, pad : Pad \cup {NoPad}]
    BY <1>7, <1>8
  <2>8. IsRow(accepted', Pad)
    BY <1>a, <2>2 DEF IsRow, Tick
  <2>9. QED
    BY <1>1, <2>1, <2>3, <2>4, <2>5, <2>6, <2>7, <2>8 DEF IInv, TypeOK, IsRow, Tick
<1>17. RowsInv'
  <2>1. \A t \in floor..simulatedThrough : executedInputs'[t].local = localInputs'[t]
    <3> TAKE t \in floor..simulatedThrough
    <3>1. t \in floor..localThrough
      BY <1>1, <1>5 DEF IInv, CursorInv
    <3>2. QED
      BY <3>1, <1>1, <1>5, <1>8 DEF IInv, RowsInv
  <2>2. (\A t \in Int : t \in DOMAIN remoteInputs <=> t \in DOMAIN accepted /\ t >= floor)'
    BY <1>1, <1>a, <1>6, <1>8
  <2>3. (\A t \in DOMAIN remoteInputs : remoteInputs[t] = accepted[t])'
    BY <1>1, <1>a, <1>6, <1>8
  <2> HIDE DEF floor
  <2>4. QED
    BY <1>1, <1>8, <2>1, <2>2, <2>3 DEF RowsInv
<1>18. SeedInv'
  BY <1>1, <1>a, <1>7, <1>8 DEF SeedInv
<1>19. ASSUME NEW t \in floor..simulatedThrough, dirtyFrom' = Clean \/ t < dirtyFrom'
       PROVE  IsNewest(samples, t, executedInputs[t].remote)
  <2>1. dirtyFrom = Clean \/ t < dirtyFrom
    BY <1>1, <1>14, <1>19
  <2>2. IsNewest(accepted, t, executedInputs[t].remote)
    BY <1>5, <2>1 DEF IInv, ExecutedIsNewest
  <2>3. CASE t < tick
    <3>1. {s \in DOMAIN samples : s <= t} = {s \in DOMAIN accepted : s <= t}
      BY <1>1, <1>5, <1>6, <2>3
    <3>2. QED
      BY <1>6, <2>2, <3>1 DEF IsNewest
  <2>4. CASE t >= tick
    <3>1. t \notin changed
      BY <1>1, <1>14, <1>19
    <3>2. executedInputs[t].remote = ResolveRemote(t, candidate)
      BY <1>1, <1>c, <2>4, <3>1
    <3>3. QED
      BY <1>9, <3>2
  <2>5. QED
    BY <1>1, <2>3, <2>4
<1>20. ExecutedIsNewest'
  <2> HIDE DEF floor
  <2> QED
  BY <1>1, <1>a, <1>8, <1>19 DEF ExecutedIsNewest, IsNewest, Clean
<1>21. DirtyInv'
  <2> SUFFICES ASSUME dirtyFrom' # Clean
               PROVE  /\ dirtyFrom' \in floor..simulatedThrough
                      /\ dirtyFrom' \in DOMAIN samples
                      /\ executedInputs'[dirtyFrom'].remote # samples[dirtyFrom']
    BY <1>1, <1>a DEF DirtyInv, Clean
  <2>1. CASE dirtyFrom' = dirtyFrom
    BY <2>1, <1>5, <1>6, <1>8 DEF IInv, DirtyInv
  <2>2. CASE dirtyFrom' # dirtyFrom
    <3> DEFINE d == dirtyFrom'
    <3>1. /\ d \in tick..simulatedThrough /\ d \in floor..simulatedThrough
          /\ d \in changed /\ (dirtyFrom = Clean \/ d < dirtyFrom)
          /\ \A t \in changed : d <= t
      <4>1. d \in changed
        BY <1>14, <2>2
      <4>2. d \in tick..simulatedThrough
        BY <4>1, <1>c
      <4> HIDE DEF d
      <4>3. d \in floor..simulatedThrough
        BY <4>2, <1>1
      <4>4. QED
        BY <1>14, <2>2, <4>1, <4>2, <4>3 DEF d
    <3> HIDE DEF d
    <3>2. executedInputs[d].remote # ResolveRemote(d, candidate)
      BY <1>c, <3>1
    <3>3. IsNewest(accepted, d, executedInputs[d].remote)
      BY <1>5, <3>1 DEF IInv, ExecutedIsNewest
    <3>4. IsNewest(samples, d, ResolveRemote(d, candidate))
      BY <1>9, <3>1
    \* with no sample of its own, d would have the pad of the tick before it,
    \* which nothing contradicts
    <3>5. ASSUME d \notin DOMAIN samples  PROVE FALSE
      <4>1. d # tick /\ d \notin DOMAIN accepted /\ d \in Int
        BY <1>1, <1>6, <3>1, <3>5
      <4>2. d - 1 \in tick..simulatedThrough /\ d - 1 \in floor..simulatedThrough
        BY <1>1, <3>1, <4>1
      <4>3. d - 1 \notin changed
        BY <3>1, <4>1
      <4>4. executedInputs[d - 1].remote = ResolveRemote(d - 1, candidate)
        BY <1>c, <4>2, <4>3
      <4>5. IsNewest(samples, d - 1, executedInputs[d - 1].remote)
        BY <1>9, <4>2, <4>4
      <4>6. IsNewest(samples, d - 1, ResolveRemote(d, candidate))
        BY <1>6, <3>4, <3>5, <4>1, NewestCarries
      <4>7. ResolveRemote(d, candidate) = executedInputs[d - 1].remote
        BY <1>6, <4>1, <4>5, <4>6, NewestUnique
      <4>8. IsNewest(accepted, d - 1, executedInputs[d].remote)
        BY <1>5, <3>3, <4>1, NewestCarries
      <4>9. IsNewest(accepted, d - 1, executedInputs[d - 1].remote)
        <5>1. dirtyFrom = Clean \/ d - 1 < dirtyFrom
          BY <1>13, <3>1, <4>1
        <5>2. QED
          BY <1>5, <4>2, <5>1 DEF IInv, ExecutedIsNewest
      <4>10. executedInputs[d].remote = executedInputs[d - 1].remote
        BY <1>5, <4>1, <4>8, <4>9, NewestUnique
      <4>11. QED
        BY <3>2, <4>7, <4>10
    <3>6. samples[d] = ResolveRemote(d, candidate)
      BY <1>6, <3>1, <3>4, <3>5 DEF IsNewest
    <3>7. QED
      BY <1>8, <3>1, <3>2, <3>5, <3>6 DEF d
  <2>3. QED
    BY <2>1, <2>2
<1>22. PlanInv'
  BY DEF AcceptRemote, DropPlan, PlanInv
<1>23. QED
  BY <1>1, <1>11, <1>12, <1>16, <1>17, <1>18, <1>20, <1>21, <1>22 DEF IInv, DisposedInv

LEMMA NextInv == IInv /\ [Next]_vars => IInv'
<1> SUFFICES ASSUME IInv, [Next]_vars  PROVE IInv'
  OBVIOUS
<1>1. CASE \E tick \in Tick, pad \in Pad : RecordLocal(tick, pad)
  BY <1>1, RecordLocalInv
<1>2. CASE \E tick \in Tick, pad \in Pad : AcceptRemote(tick, pad)
  BY <1>2, AcceptRemoteInv
<1>3. CASE \E tick \in Tick : AcceptDuplicate(tick)
  BY <1>3, AcceptDuplicateInv
<1>4. CASE PlanForward
  BY <1>4, PlanForwardInv
<1>5. CASE PlanReplay
  BY <1>5, PlanReplayInv
<1>6. CASE \E preFrame, confirmedEnd \in Tick : PlanConfirmedPrefix(preFrame, confirmedEnd)
  BY <1>6, PlanConfirmedPrefixInv
<1>7. CASE CommitForward
  BY <1>7, CommitForwardInv
<1>8. CASE CommitReplay
  BY <1>8, CommitResolvedInv DEF CommitReplay, CurrentPlan
<1>9. CASE CommitConfirmedPrefix
  BY <1>9, CommitResolvedInv DEF CommitConfirmedPrefix, CurrentPlan
<1>10. CASE Disconnect
  BY <1>10, DisconnectInv
<1>11. CASE Dispose
  BY <1>11, DisposeInv
<1>12. CASE UNCHANGED vars
  <2>1. UNCHANGED <<inputs, cursors, dirtyFrom, accepted>> /\ phase' = phase
        /\ outstanding' = outstanding /\ revised' = revised /\ plan' = plan
    BY <1>12 DEF vars, planned
  <2>2. PlanTypeOK' /\ PlanInv'
    BY <2>1 DEF IInv, TypeOK, PlanTypeOK, PlanInv, IsRow, Frame, Tick, NoTick,
                FramesOf, ResolveRemote, floor, HistoryFloor, Clean, inputs, cursors
  <2>3. outstanding' \in BOOLEAN /\ revised' \in BOOLEAN
    BY <2>1 DEF IInv, TypeOK
  <2>4. QED
    BY <2>1, <2>2, <2>3, RowsUntouched
<1>13. QED
  BY <1>1, <1>2, <1>3, <1>4, <1>5, <1>6, <1>7, <1>8, <1>9, <1>10, <1>11, <1>12 DEF Next

\* The inductive invariant holds in every reachable state of Spec.
THEOREM Invariance == Spec => []IInv
<1>1. QED
  BY InitInv, NextInv, PTL DEF Spec

-----------------------------------------------------------------------------
(* What the invariant gives *)

\* Every variable keeps its type, for every bound on prediction, history and
\* lookahead that the constructor admits.
THEOREM TypeCorrect == Spec => []TypeOK
<1>1. IInv => TypeOK
  BY DEF IInv
<1>2. QED
  BY <1>1, Invariance, PTL

\* Every frame that needs no correction ran with the newest remote sample at or
\* before its tick: trimming history to a seed loses no prediction.
THEOREM PredictionCorrect == Spec => []ExecutedIsNewest
<1>1. IInv => ExecutedIsNewest
  BY DEF IInv
<1>2. QED
  BY <1>1, Invariance, PTL

\* The confirmed cursor without its sets of two.
LEMMA ConfirmedIs ==
    ASSUME NEW c, NEW contig \in Int, NEW sim \in Int, NEW dirty \in Int,
           c = IF dirty = -1 THEN Min({contig, sim})
               ELSE Min({Min({contig, sim}), dirty - 1})
    PROVE  /\ c \in Int /\ c <= contig /\ c <= sim
           /\ dirty # -1 => c < dirty
           /\ \A t \in Int : t <= contig /\ t <= sim /\ (dirty # -1 => t < dirty) => t <= c
<1> DEFINE both == Min({contig, sim})
<1>1. both = IF contig <= sim THEN contig ELSE sim
  BY MinPair
<1>2. c = IF dirty = -1 THEN both ELSE Min({both, dirty - 1})
  OBVIOUS
<1> HIDE DEF both
<1>3. both \in Int /\ dirty - 1 \in Int
  BY <1>1
<1>4. Min({both, dirty - 1}) = IF both <= dirty - 1 THEN both ELSE dirty - 1
  BY <1>3, MinPair
<1>5. QED
  BY <1>1, <1>2, <1>3, <1>4

LEMMA ConfirmedValue ==
    IInv => /\ ConfirmedThrough \in Int
            /\ ConfirmedThrough <= remoteContiguousThrough
            /\ ConfirmedThrough <= simulatedThrough
            /\ dirtyFrom # Clean => ConfirmedThrough < dirtyFrom
            /\ \A t \in Int :
                  t <= remoteContiguousThrough /\ t <= simulatedThrough
                  /\ (dirtyFrom # Clean => t < dirtyFrom) => t <= ConfirmedThrough
<1> SUFFICES ASSUME IInv
             PROVE  /\ ConfirmedThrough \in Int
                    /\ ConfirmedThrough <= remoteContiguousThrough
                    /\ ConfirmedThrough <= simulatedThrough
                    /\ dirtyFrom # Clean => ConfirmedThrough < dirtyFrom
                    /\ \A t \in Int :
                          t <= remoteContiguousThrough /\ t <= simulatedThrough
                          /\ (dirtyFrom # Clean => t < dirtyFrom) => t <= ConfirmedThrough
  OBVIOUS
<1>1. /\ remoteContiguousThrough \in Int /\ simulatedThrough \in Int /\ dirtyFrom \in Int
  BY TimelineAssumption DEF IInv, CursorInv, TypeOK, Tick, Clean
<1>2. ConfirmedThrough = IF dirtyFrom = -1
                         THEN Min({remoteContiguousThrough, simulatedThrough})
                         ELSE Min({Min({remoteContiguousThrough, simulatedThrough}),
                                   dirtyFrom - 1})
  BY DEF ConfirmedThrough, Clean
<1>3. QED
  BY <1>1, <1>2, ConfirmedIs DEF Clean

LEMMA ActualInv == IInv => ConfirmedIsActual
<1> SUFFICES ASSUME IInv, NEW t \in DOMAIN executedInputs, t <= ConfirmedThrough
             PROVE  /\ t \in DOMAIN accepted
                    /\ executedInputs[t] = [local |-> localInputs[t], remote |-> accepted[t]]
  BY DEF ConfirmedIsActual
<1>1. phase # "disposed" /\ t \in floor..simulatedThrough /\ t \in Int /\ t >= StartTick
  <2>1. phase # "disposed"
    BY DEF IInv, DisposedInv, Empty
  <2>2. t \in floor..simulatedThrough
    BY <2>1 DEF IInv, RowsInv
  <2>3. QED
    BY <2>1, <2>2, FloorFacts, TimelineAssumption DEF floor, IInv, CursorInv
<1>2. t \in DOMAIN accepted
  BY <1>1, ConfirmedValue, TimelineAssumption DEF IInv, AcceptedInv, CursorInv
<1>3. IsNewest(accepted, t, executedInputs[t].remote)
  BY <1>1, ConfirmedValue DEF IInv, ExecutedIsNewest, TypeOK, Tick, Clean
<1>4. executedInputs[t].remote = accepted[t]
  BY <1>1, <1>2, <1>3 DEF IsNewest, IInv, AcceptedInv
<1>5. executedInputs[t].local = localInputs[t]
  BY <1>1 DEF IInv, RowsInv
<1>6. executedInputs[t] \in Frame
  BY DEF IInv, TypeOK, IsRow
<1>7. QED
  BY <1>2, <1>4, <1>5, <1>6 DEF Frame

\* What status() calls confirmed was executed with both players' own samples.
THEOREM ConfirmationSound == Spec => []ConfirmedIsActual
<1>1. QED
  BY ActualInv, Invariance, PTL

\* No sample is discarded as stale that was not accepted before.
THEOREM NoSampleLost == Spec => []NothingMissedIsStale
<1>1. IInv => NothingMissedIsStale
  <2> SUFFICES ASSUME IInv  PROVE NothingMissedIsStale
    OBVIOUS
  <2>1. simulatedThrough - remoteContiguousThrough <= MaxPrediction
    BY DEF IInv, CursorInv
  <2>2. ASSUME NEW t \in StartTick..(HistoryFloor(simulatedThrough) - 1)
        PROVE  t \in DOMAIN accepted
    <3>1. simulatedThrough \in Int /\ remoteContiguousThrough \in Int
      BY TimelineAssumption DEF IInv, CursorInv
    <3>2. \/ HistoryFloor(simulatedThrough) = StartTick
          \/ HistoryFloor(simulatedThrough) = simulatedThrough - MaxHistory + 1
      BY <3>1, FloorFacts
    <3>3. t \in StartTick..remoteContiguousThrough
      BY <2>1, <2>2, <3>1, <3>2, TimelineAssumption
    <3>4. QED
      BY <3>3 DEF IInv, AcceptedInv
  <2>3. QED
    BY <2>1, <2>2 DEF NothingMissedIsStale
<1>2. QED
  BY <1>1, Invariance, PTL

\* planReplay never meets a correction older than the retained history nor a
\* missing local sample, and never replays for nothing.
THEOREM CorrectionPossible == Spec => []CorrectionIsReplayable
<1>1. IInv => CorrectionIsReplayable
  <2> SUFFICES ASSUME IInv, dirtyFrom # Clean
               PROVE  /\ dirtyFrom \in HistoryFloor(simulatedThrough)..simulatedThrough
                      /\ dirtyFrom..simulatedThrough \subseteq DOMAIN localInputs
                      /\ dirtyFrom \in DOMAIN accepted
                      /\ executedInputs[dirtyFrom].remote # accepted[dirtyFrom]
    BY DEF CorrectionIsReplayable
  <2>1. phase # "disposed"
    BY DEF IInv, DisposedInv
  <2>2. /\ dirtyFrom \in floor..simulatedThrough
        /\ dirtyFrom \in DOMAIN accepted
        /\ executedInputs[dirtyFrom].remote # accepted[dirtyFrom]
    BY DEF IInv, DirtyInv
  <2>3. /\ DOMAIN localInputs = floor..localThrough
        /\ simulatedThrough \in Int /\ localThrough \in Int /\ simulatedThrough <= localThrough
        /\ floor \in Int
    BY <2>1, FloorFacts, TimelineAssumption DEF IInv, RowsInv, CursorInv, floor
  <2>4. dirtyFrom..simulatedThrough \subseteq DOMAIN localInputs
    <3> HIDE DEF floor
    <3> QED  BY <2>2, <2>3
  <2>5. QED
    BY <2>2, <2>4 DEF floor
<1>2. QED
  BY <1>1, Invariance, PTL

\* A set inside an interval has no more elements than the interval.
LEMMA IntervalBound ==
    ASSUME NEW S, NEW a \in Int, NEW b \in Int, NEW n \in Nat,
           S \subseteq a..b, b - a + 1 <= n
    PROVE  Cardinality(S) <= n
<1>1. IsFiniteSet(a..b) /\ Cardinality(a..b) = IF a > b THEN 0 ELSE b - a + 1
  BY FS_Interval
<1>2. Cardinality(a..b) <= n
  BY <1>1
<1>3. Cardinality(S) <= Cardinality(a..b) /\ Cardinality(S) \in Nat /\ Cardinality(a..b) \in Nat
  BY <1>1, FS_Subset, FS_CardinalityType
<1>4. QED
  BY <1>2, <1>3

\* The stores are bounded by the history and the lookahead, whatever the length
\* of the match.
THEOREM StorageBounded == Spec => []StorageIsBounded
<1>1. IInv => StorageIsBounded
  <2> SUFFICES ASSUME IInv
               PROVE  /\ Cardinality(DOMAIN executedInputs) <= MaxHistory
                      /\ Cardinality(DOMAIN remoteInputs) <= MaxHistory + MaxLookahead
                      /\ Cardinality(DOMAIN localInputs) <= MaxHistory + 1
    BY DEF StorageIsBounded
  <2>1. /\ floor \in Int /\ floor >= simulatedThrough - MaxHistory + 1
        /\ simulatedThrough \in Int /\ localThrough \in Int
        /\ localThrough <= simulatedThrough + 1
        /\ MaxHistory \in Nat /\ MaxLookahead \in Nat
        /\ MaxHistory + MaxLookahead \in Nat /\ MaxHistory + 1 \in Nat
    BY FloorFacts, TimelineAssumption DEF IInv, CursorInv, floor
  <2>2. CASE phase = "disposed"
    <3>1. DOMAIN executedInputs = {} /\ DOMAIN remoteInputs = {} /\ DOMAIN localInputs = {}
      BY <2>2 DEF IInv, DisposedInv, Empty
    <3>2. Cardinality({}) = 0
      BY FS_EmptySet
    <3>3. QED
      BY <2>1, <3>1, <3>2
  <2>3. CASE phase # "disposed"
    <3>1. /\ DOMAIN executedInputs \subseteq floor..simulatedThrough
          /\ DOMAIN localInputs \subseteq floor..(simulatedThrough + 1)
      BY <2>1, <2>3 DEF IInv, RowsInv
    <3>2. DOMAIN remoteInputs \subseteq floor..(simulatedThrough + MaxLookahead)
      BY <2>1, <2>3 DEF IInv, RowsInv, AcceptedInv, TypeOK, IsRow, Tick
    <3> HIDE DEF floor
    <3>3. Cardinality(DOMAIN executedInputs) <= MaxHistory
      BY <2>1, <3>1, IntervalBound
    <3>4. Cardinality(DOMAIN localInputs) <= MaxHistory + 1
      BY <2>1, <3>1, IntervalBound
    <3>5. Cardinality(DOMAIN remoteInputs) <= MaxHistory + MaxLookahead
      BY <2>1, <3>2, IntervalBound
    <3>6. QED
      BY <3>3, <3>4, <3>5
  <2>4. QED
    BY <2>2, <2>3
<1>2. QED
  BY <1>1, Invariance, PTL

\* An accepted sample and a retained local sample never change, and execution
\* only moves forward.
LEMMA SamplesKept ==
    ASSUME IInv, [Next]_vars
    PROVE  /\ \A t \in DOMAIN accepted : t \in DOMAIN accepted' /\ accepted'[t] = accepted[t]
           /\ \A t \in DOMAIN localInputs \cap DOMAIN localInputs' :
                 localInputs'[t] = localInputs[t]
           /\ simulatedThrough' >= simulatedThrough
<1>1. ASSUME NEW tick \in Tick, NEW pad \in Pad, AcceptRemote(tick, pad)
      PROVE  tick \notin DOMAIN accepted
  BY <1>1 DEF AcceptRemote, IInv, RowsInv, Tick, floor
<1>2. /\ simulatedThrough \in Int
      /\ \A t \in DOMAIN accepted : t \in DOMAIN accepted' /\ accepted'[t] = accepted[t]
  <2>1. CASE \E tick \in Tick, pad \in Pad : AcceptRemote(tick, pad)
    <3>1. PICK tick \in Tick, pad \in Pad : AcceptRemote(tick, pad)
      BY <2>1
    <3>2. accepted' = [t \in DOMAIN accepted \cup {tick} |-> IF t = tick THEN pad ELSE accepted[t]]
      BY <3>1 DEF AcceptRemote
    <3>3. tick \notin DOMAIN accepted
      BY <3>1, <1>1
    <3>4. QED
      BY <3>2, <3>3, TimelineAssumption DEF IInv, CursorInv
  <2>2. CASE ~ \E tick \in Tick, pad \in Pad : AcceptRemote(tick, pad)
    <3>1. accepted' = accepted
      BY <2>2 DEF Next, RecordLocal, AcceptDuplicate, PlanForward, PlanReplay,
                  PlanConfirmedPrefix, CommitForward, CommitReplay, CommitConfirmedPrefix,
                  CommitResolved, Disconnect, Dispose, vars
    <3>2. QED
      BY <3>1, TimelineAssumption DEF IInv, CursorInv
  <2>3. QED
    BY <2>1, <2>2
<1>3. simulatedThrough' >= simulatedThrough
  <2>1. CASE CommitForward
    <3>1. simulatedThrough' = plan.from /\ plan.from = NextTick(simulatedThrough)
      BY <2>1 DEF CommitForward
    <3>2. plan.from \in Tick
      BY <2>1 DEF CommitForward, CurrentPlan, IInv, PlanInv, TypeOK, PlanTypeOK
    <3>3. QED
      BY <1>2, <3>1, <3>2, TimelineAssumption DEF NextTick, NoTick, Tick
  <2>2. CASE ~CommitForward
    <3>1. simulatedThrough' = simulatedThrough
      BY <2>2
         DEF Next, RecordLocal, AcceptRemote, AcceptDuplicate, PlanForward, PlanReplay,
             PlanConfirmedPrefix, CommitReplay, CommitConfirmedPrefix,
             CommitResolved, Disconnect, Dispose, vars, cursors
    <3>2. QED
      BY <1>2, <3>1
  <2>3. QED
    BY <2>1, <2>2
<1>4. \A t \in DOMAIN localInputs \cap DOMAIN localInputs' : localInputs'[t] = localInputs[t]
  <2>1. CASE \E tick \in Tick, pad \in Pad : RecordLocal(tick, pad)
    BY <2>1 DEF RecordLocal
  <2>2. CASE \E tick \in Tick, pad \in Pad : AcceptRemote(tick, pad)
    BY <2>2 DEF AcceptRemote, TrimHistory, Retained
  <2>3. CASE CommitForward \/ CommitReplay \/ CommitConfirmedPrefix
    BY <2>3 DEF CommitForward, CommitReplay, CommitConfirmedPrefix, CommitResolved,
                TrimHistory, Retained
  <2>4. CASE Dispose
    BY <2>4 DEF Dispose, Empty
  <2>5. CASE inputs' = inputs
    BY <2>5 DEF inputs
  <2>6. QED
    BY <2>1, <2>2, <2>3, <2>4, <2>5
       DEF Next, AcceptDuplicate, PlanForward, PlanReplay, PlanConfirmedPrefix, Disconnect, vars
<1>5. QED
  BY <1>2, <1>3, <1>4

\* A correction never reaches into what was confirmed before it.
LEMMA DirtyAboveConfirmed ==
    ASSUME IInv, [Next]_vars, dirtyFrom' # Clean
    PROVE  ConfirmedThrough < dirtyFrom'
<1>1. CASE dirtyFrom' = dirtyFrom
  BY <1>1, ConfirmedValue
<1>2. CASE dirtyFrom' # dirtyFrom
  <2>1. PICK tick \in Tick, pad \in Pad : AcceptRemote(tick, pad)
    BY <1>2 DEF Next, RecordLocal, AcceptDuplicate, PlanForward, PlanReplay,
                PlanConfirmedPrefix, CommitForward, CommitReplay, CommitConfirmedPrefix,
                CommitResolved, Disconnect, Dispose, vars
  <2> DEFINE candidate == [t \in DOMAIN remoteInputs \cup {tick} |->
                              IF t = tick THEN pad ELSE remoteInputs[t]]
             changed == Contradicted(tick, candidate)
  <2>2. changed # {} /\ dirtyFrom' = Min(changed)
    BY <1>2, <2>1 DEF AcceptRemote
  <2>3. changed \subseteq tick..simulatedThrough /\ tick \in Int /\ simulatedThrough \in Int
    BY TimelineAssumption DEF Contradicted, Tick, IInv, CursorInv
  <2> HIDE DEF changed
  <2>4. dirtyFrom' \in changed
    <3>1. changed \in SUBSET Int /\ \A x \in changed : tick <= x
      BY <2>3
    <3>2. Min(changed) \in changed
      BY <2>2, <2>3, <3>1, MinInt
    <3>3. QED
      BY <2>2, <3>2
  <2>5. tick \notin DOMAIN accepted /\ tick >= StartTick
    BY <2>1 DEF AcceptRemote, IInv, RowsInv, Tick, floor
  <2>6. tick > remoteContiguousThrough
    BY <2>3, <2>5, TimelineAssumption DEF IInv, CursorInv, AcceptedInv
  <2>7. QED
    BY <2>3, <2>4, <2>6, ConfirmedValue DEF IInv, CursorInv
<1>3. QED
  BY <1>1, <1>2

\* What a step does to the confirmed frames.
LEMMA ConfirmedStepInv == IInv /\ IInv' /\ [Next]_vars => ConfirmedStep
<1>1. ASSUME IInv, IInv', [Next]_vars,
             ConfirmedIsActual, ConfirmedIsActual',
             NEW c \in Int, c = ConfirmedThrough, NEW d \in Int, d = ConfirmedThrough',
             \A t \in Int :
                 t <= remoteContiguousThrough' /\ t <= simulatedThrough'
                 /\ (dirtyFrom' # Clean => t < dirtyFrom') => t <= d
      PROVE  ConfirmedStep
  <2>1. /\ c <= remoteContiguousThrough /\ c <= simulatedThrough
        /\ dirtyFrom' # Clean => c < dirtyFrom'
    BY <1>1, ConfirmedValue, DirtyAboveConfirmed
  <2>2. c <= simulatedThrough'
    BY <1>1, <2>1, SamplesKept, TimelineAssumption DEF IInv, CursorInv
  \* the contiguous cursor stops before a gap, and accepted samples stay
  <2>3. c <= remoteContiguousThrough'
    <3>1. StartTick..remoteContiguousThrough \subseteq DOMAIN accepted'
      BY <1>1, SamplesKept DEF IInv, AcceptedInv
    <3>2. /\ remoteContiguousThrough' + 1 \notin DOMAIN accepted'
          /\ remoteContiguousThrough' \in Int /\ remoteContiguousThrough' >= StartTick - 1
          /\ remoteContiguousThrough \in Int
      BY <1>1, TimelineAssumption DEF IInv, AcceptedInv, CursorInv
    <3>3. QED
      BY <1>1, <2>1, <3>1, <3>2, TimelineAssumption
  <2>4. c <= d
    BY <1>1, <2>1, <2>2, <2>3
  <2>5. ASSUME NEW t \in DOMAIN executedInputs \cap DOMAIN executedInputs', t <= c
        PROVE  executedInputs'[t] = executedInputs[t]
    <3>1. t \in Int /\ t <= d
      <4>1. t \in Int
        BY <1>1 DEF IInv, TypeOK, IsRow, Tick
      <4>2. QED
        BY <1>1, <2>4, <2>5, <4>1
    <3>2. /\ t \in DOMAIN accepted
          /\ executedInputs[t] = [local |-> localInputs[t], remote |-> accepted[t]]
          /\ executedInputs'[t] = [local |-> localInputs'[t], remote |-> accepted'[t]]
      BY <1>1, <2>5, <3>1 DEF ConfirmedIsActual
    <3>3. t \in DOMAIN localInputs
      <4>1. phase # "disposed"
        BY <1>1 DEF IInv, DisposedInv, Empty
      <4>2. /\ DOMAIN localInputs = floor..localThrough
            /\ DOMAIN executedInputs = floor..simulatedThrough
        BY <1>1, <4>1 DEF IInv, RowsInv
      <4>3. floor \in Int /\ simulatedThrough \in Int /\ localThrough \in Int
            /\ simulatedThrough <= localThrough
        BY <1>1, FloorFacts, TimelineAssumption DEF IInv, CursorInv, floor
      <4> HIDE DEF floor
      <4>4. QED
        BY <4>2, <4>3
    <3>4. t \in DOMAIN localInputs'
      <4>1. phase' # "disposed"
        BY <1>1 DEF IInv, DisposedInv, Empty
      <4>2. /\ DOMAIN localInputs' = floor'..localThrough'
            /\ DOMAIN executedInputs' = floor'..simulatedThrough'
        BY <1>1, <4>1 DEF IInv, RowsInv
      <4>3. floor' \in Int /\ simulatedThrough' \in Int /\ localThrough' \in Int
            /\ simulatedThrough' <= localThrough'
        <5>1. simulatedThrough' \in Int /\ localThrough' \in Int
              /\ simulatedThrough' <= localThrough'
          BY <1>1, TimelineAssumption DEF IInv, CursorInv
        <5>2. HistoryFloor(simulatedThrough') \in Int
          BY <5>1, FloorFacts
        <5>3. QED
          BY <5>1, <5>2 DEF floor
      <4> HIDE DEF floor
      <4>4. QED
        BY <4>2, <4>3
    <3>5. QED
      BY <1>1, <3>2, <3>3, <3>4, SamplesKept
  <2>6. QED
    BY <1>1, <2>4, <2>5 DEF ConfirmedStep
<1>2. IInv /\ IInv' /\ [Next]_vars => ConfirmedStep
  <2> DEFINE Value ==
               /\ ConfirmedThrough \in Int
               /\ \A t \in Int :
                     t <= remoteContiguousThrough /\ t <= simulatedThrough
                     /\ (dirtyFrom # Clean => t < dirtyFrom) => t <= ConfirmedThrough
  <2>1. IInv => Value
    BY ConfirmedValue
  <2> HIDE DEF Value
  <2>2. (IInv => Value)'
    BY <2>1, PTL
  <2>3. (IInv => ConfirmedIsActual)'
    BY ActualInv, PTL
  <2>4. SUFFICES ASSUME IInv, IInv', [Next]_vars  PROVE ConfirmedStep
    OBVIOUS
  <2>5. Value /\ Value' /\ ConfirmedIsActual /\ ConfirmedIsActual'
    BY <2>1, <2>2, <2>3, <2>4, ActualInv
  <2>6. QED
    BY <1>1, <2>4, <2>5 DEF Value, Clean
<1>3. QED
  BY <1>2

\* Confirmation never regresses, and what it covers is never executed again
\* with other pads.
THEOREM ConfirmedFinal == Spec => ConfirmedIsFinal
<1>1. IInv /\ IInv' /\ [Next]_vars => [ConfirmedStep]_vars
  BY ConfirmedStepInv
<1>2. QED
  BY <1>1, Invariance, PTL DEF Spec, ConfirmedIsFinal

\* Execution goes one tick further at most, and not over a correction.
LEMMA ExecutionAdvance ==
    ASSUME IInv, [Next]_vars
    PROVE  \/ simulatedThrough' = simulatedThrough
           \/ simulatedThrough' = simulatedThrough + 1 /\ dirtyFrom = Clean
<1>1. CASE CommitForward
  <2>1. simulatedThrough' = plan.from /\ plan.from = NextTick(simulatedThrough)
        /\ dirtyFrom = Clean
    BY <1>1 DEF CommitForward
  <2>2. plan.from \in Tick
    BY <1>1 DEF CommitForward, CurrentPlan, IInv, PlanInv, TypeOK, PlanTypeOK
  <2>3. QED
    BY <2>1, <2>2, TimelineAssumption DEF NextTick, NoTick, Tick
<1>2. CASE ~CommitForward
  BY <1>2 DEF Next, RecordLocal, AcceptRemote, AcceptDuplicate, PlanForward, PlanReplay,
              PlanConfirmedPrefix, CommitReplay, CommitConfirmedPrefix, CommitResolved,
              Disconnect, Dispose, vars, cursors
<1>3. QED
  BY <1>1, <1>2

\* What a step newly confirms is still retained when the step ends: a caller
\* that reads the rows after each call misses no confirmed frame.
LEMMA SettledRows ==
    IInv /\ IInv' /\ [Next]_vars /\ phase' # "disposed" =>
        \A t \in Int : t > ConfirmedThrough /\ t <= ConfirmedThrough' =>
            /\ t \in DOMAIN localInputs' /\ t \in DOMAIN accepted'
            /\ executedInputs'[t] = [local |-> localInputs'[t], remote |-> accepted'[t]]
<1>1. ASSUME IInv, IInv', [Next]_vars, phase' # "disposed", ConfirmedIsActual',
             NEW c \in Int, c = ConfirmedThrough, NEW d \in Int, d = ConfirmedThrough',
             d <= simulatedThrough', NEW t \in Int, t > c, t <= d
      PROVE  /\ t \in DOMAIN localInputs' /\ t \in DOMAIN accepted'
             /\ executedInputs'[t] = [local |-> localInputs'[t], remote |-> accepted'[t]]
  <2>1. /\ simulatedThrough \in Int /\ simulatedThrough >= StartTick - 1
        /\ remoteContiguousThrough \in Int /\ remoteContiguousThrough >= StartTick - 1
        /\ simulatedThrough - remoteContiguousThrough <= MaxPrediction
        /\ simulatedThrough' \in Int /\ localThrough' \in Int
        /\ simulatedThrough' <= localThrough'
    BY <1>1, TimelineAssumption DEF IInv, CursorInv
  <2>2. PICK low \in Int : low = floor'
    BY <2>1, FloorFacts DEF floor
  <2>3. /\ DOMAIN localInputs' = low..localThrough'
        /\ DOMAIN executedInputs' = low..simulatedThrough'
    BY <1>1, <2>2 DEF IInv, RowsInv
  <2>4. low = StartTick \/ low = simulatedThrough' - MaxHistory + 1
    BY <2>1, <2>2, FloorFacts DEF floor
  <2>5. low - 1 <= remoteContiguousThrough /\ low - 1 <= simulatedThrough
    <3>1. CASE simulatedThrough' = simulatedThrough
      BY <2>1, <2>4, <3>1, TimelineAssumption
    <3>2. CASE simulatedThrough' = simulatedThrough + 1
      BY <2>1, <2>4, <3>2, TimelineAssumption
    <3>3. QED
      BY <1>1, <3>1, <3>2, ExecutionAdvance
  <2>6. ASSUME dirtyFrom # Clean  PROVE low - 1 < dirtyFrom
    <3>1. low = floor
      BY <1>1, <2>2, <2>6, ExecutionAdvance DEF floor
    <3>2. dirtyFrom \in low..simulatedThrough
      BY <1>1, <2>6, <3>1 DEF IInv, DirtyInv
    <3>3. dirtyFrom \in Int /\ dirtyFrom >= low
      BY <2>1, <3>2
    <3>4. QED
      BY <3>3
  <2>7. low - 1 <= c
    <3>1. low - 1 \in Int
      OBVIOUS
    <3>2. \A u \in Int : u <= remoteContiguousThrough /\ u <= simulatedThrough
                         /\ (dirtyFrom # Clean => u < dirtyFrom) => u <= c
      BY <1>1, ConfirmedValue
    <3>3. QED
      BY <2>5, <2>6, <3>1, <3>2
  <2>8. t \in DOMAIN executedInputs' /\ t \in DOMAIN localInputs'
    BY <1>1, <2>1, <2>3, <2>7
  <2>9. QED
    BY <1>1, <2>8 DEF ConfirmedIsActual
<1> DEFINE Below == ConfirmedThrough \in Int /\ ConfirmedThrough <= simulatedThrough
<1>2. IInv => Below
  BY ConfirmedValue
<1> HIDE DEF Below
<1>3. (IInv => Below)'
  BY <1>2, PTL
<1>4. (IInv => ConfirmedIsActual)'
  BY ActualInv, PTL
<1>5. SUFFICES ASSUME IInv, IInv', [Next]_vars, phase' # "disposed", NEW t \in Int,
                      t > ConfirmedThrough, t <= ConfirmedThrough'
               PROVE  /\ t \in DOMAIN localInputs' /\ t \in DOMAIN accepted'
                      /\ executedInputs'[t] = [local |-> localInputs'[t], remote |-> accepted'[t]]
  OBVIOUS
<1>6. Below /\ Below' /\ ConfirmedIsActual'
  BY <1>2, <1>3, <1>4, <1>5
<1>7. QED
  BY <1>1, <1>5, <1>6 DEF Below

\* What Overwritten and Retained do to a row: it keeps its frame or takes the
\* plan's.
LEMMA OverwrittenRow ==
    ASSUME NEW frames, NEW low, NEW t,
           executedInputs' = Retained(Overwritten(frames), low),
           t \in DOMAIN executedInputs',
           t \notin DOMAIN executedInputs \/ executedInputs'[t] # executedInputs[t]
    PROVE  t \in DOMAIN frames /\ executedInputs'[t] = frames[t]
BY DEF Retained, Overwritten

\* The engine ran what the timeline says it ran: an executed row changes only
\* to the frame that the plan in the caller's hands showed.
THEOREM CommitsMatch == Spec => CommitMatchesPlan
<1>1. ASSUME IInv, [Next]_vars  PROVE CommitStep
  <2> SUFFICES ASSUME NEW t \in DOMAIN executedInputs',
                      t \notin DOMAIN executedInputs \/ executedInputs'[t] # executedInputs[t]
               PROVE  t \in DOMAIN plan.frames /\ executedInputs'[t] = plan.frames[t]
    BY DEF CommitStep
  <2>1. CASE CommitForward
    <3>1. executedInputs' = Retained(Overwritten(FramesOf(plan.from, plan.from)),
                                     HistoryFloor(plan.from))
      BY <2>1 DEF CommitForward, TrimHistory
    <3>2. plan.frames = FramesOf(plan.from, plan.from)
      BY <1>1, <2>1 DEF CommitForward, CurrentPlan, IInv, PlanInv
    <3>3. QED
      BY <3>1, <3>2, OverwrittenRow
  <2>2. CASE CommitReplay \/ CommitConfirmedPrefix
    <3> DEFINE resolved == [u \in plan.from..plan.through |->
                              [local |-> localInputs[u], remote |-> plan.frames[u].remote]]
    <3>1. executedInputs' = Retained(Overwritten(resolved), HistoryFloor(simulatedThrough))
      BY <2>2 DEF CommitReplay, CommitConfirmedPrefix, CommitResolved, TrimHistory
    <3>2. plan.frames = FramesOf(plan.from, plan.through)
      BY <1>1, <2>2 DEF CommitReplay, CommitConfirmedPrefix, CurrentPlan, IInv, PlanInv
    <3>3. resolved = plan.frames
      BY <3>2 DEF FramesOf
    <3>4. QED
      BY <3>1, <3>3, OverwrittenRow
  <2>3. CASE \E tick \in Tick, pad \in Pad : AcceptRemote(tick, pad)
    BY <2>3 DEF AcceptRemote, TrimHistory, Retained
  <2>4. CASE Dispose
    BY <2>4 DEF Dispose, Empty
  <2>5. CASE UNCHANGED executedInputs
    BY <2>5
  <2>6. QED
    BY <1>1, <2>1, <2>2, <2>3, <2>4, <2>5
       DEF Next, RecordLocal, AcceptDuplicate, PlanForward, PlanReplay, PlanConfirmedPrefix,
           Disconnect, vars, inputs
<1>2. IInv /\ [Next]_vars => [CommitStep]_vars
  BY <1>1
<1>3. QED
  BY <1>2, Invariance, PTL DEF Spec, CommitMatchesPlan

=============================================================================
