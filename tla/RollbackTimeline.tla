-------------------------- MODULE RollbackTimeline --------------------------
(***************************************************************************)
(* MatchInputTimeline of scripts/net_rollback_input_timeline.mjs: the      *)
(* input store of one peer of a rollback match.  The peer records its own  *)
(* PAD samples, accepts the other peer's samples late and in any order,    *)
(* plans frames ahead of the remote input on a prediction (the newest      *)
(* sample known), and replays the executed suffix that a late sample       *)
(* contradicts.                                                            *)
(*                                                                         *)
(* A PAD is a model value.  A call that throws or only reports changes no  *)
(* state and is a disabled action here.  The component has no threads: its *)
(* caller interleaves the calls, and may still hold the last plan it was   *)
(* issued after the timeline has dropped that plan.                        *)
(***************************************************************************)
EXTENDS Integers, FiniteSetsExt

CONSTANTS
    Pad,               \* the PAD samples told apart
    InitialRemotePad,  \* the agreed prediction before any remote sample
    NoPad,             \* the null seed of a disposed timeline
    StartTick,         \* first tick of the match
    MaxTick,           \* Number.MAX_SAFE_INTEGER: no tick is above it
    MaxPrediction,     \* ROLLBACK_MAX_PREDICTION_TICKS
    MaxHistory,        \* retained ticks
    MaxLookahead       \* how far ahead of the next tick a sample may be

ASSUME TimelineAssumption ==
    /\ InitialRemotePad \in Pad /\ NoPad \notin Pad
    /\ StartTick \in Nat /\ MaxTick \in Nat /\ StartTick <= MaxTick
    /\ MaxPrediction \in Nat \ {0}
    /\ MaxHistory \in Nat /\ MaxHistory >= MaxPrediction + 1
    /\ MaxLookahead \in Nat \ {0}

VARIABLES
    localInputs,       \* tick -> PAD, this peer's retained samples
    remoteInputs,      \* tick -> PAD, the other peer's retained samples
    executedInputs,    \* tick -> frame, the frames last committed
    remoteSeed,        \* newest remote sample trimmed, [tick, pad]
    localThrough,      \* newest recorded local tick
    remoteContiguousThrough,  \* every remote sample up to here has arrived
    simulatedThrough,  \* newest executed tick
    dirtyFrom,         \* first tick executed with a wrong pad, or Clean
    plan,              \* the plan the caller was issued last, or NoPlan
    outstanding,       \* is that plan the timeline's #outstanding?
    revised,           \* has #revision moved since that plan was issued?
    phase,             \* "active", "terminal" or "disposed"
    accepted           \* history variable: every remote sample ever stored

inputs  == <<localInputs, remoteInputs, executedInputs, remoteSeed>>
cursors == <<localThrough, remoteContiguousThrough, simulatedThrough>>
planned == <<plan, outstanding, revised>>
vars    == <<inputs, cursors, dirtyFrom, planned, phase, accepted>>

-----------------------------------------------------------------------------
Tick   == 0..MaxTick
Clean  == -1
NoPlan == [kind |-> "none"]
Empty  == [t \in {} |-> InitialRemotePad]

Frame == [local : Pad, remote : Pad]

\* nextTick, which answers null (here NoTick) after the last safe integer
NoTick == -2
NextTick(t) == IF t = MaxTick THEN NoTick ELSE t + 1

\* #historyFloor, for a simulated cursor sim
HistoryFloor(sim) ==
    IF sim - MaxHistory + 1 >= StartTick THEN sim - MaxHistory + 1 ELSE StartTick

\* Fault: a sample does not predict its own tick
ResolveRemoteBefore(t, rows) ==
    LET known == {s \in DOMAIN rows : s < t /\ s > remoteSeed.tick}
    IN  IF known = {} THEN remoteSeed.pad ELSE rows[Max(known)]

\* #resolveRemote: the newest of the rows at or before t, else the seed
ResolveRemote(t, rows) ==
    LET known == {s \in DOMAIN rows : s <= t /\ s > remoteSeed.tick}
    IN  IF known = {} THEN remoteSeed.pad ELSE rows[Max(known)]

\* Fault: the newest sample counts as contiguous across a gap
ContiguousFromNewest(t, rows) == Max({t} \cup DOMAIN rows)

\* Fault: the cursor advances over one row where the loop goes on
ContiguousFromOnce(t, rows) == IF t + 1 \in DOMAIN rows THEN t + 1 ELSE t

\* The loop of acceptRemote that advances the contiguous cursor over the rows
ContiguousFrom(t, rows) ==
    Min({n \in {t} \cup DOMAIN rows : n >= t /\ n + 1 \notin DOMAIN rows})

\* Fault: a pending correction is not subtracted
ConfirmedThroughDirty == Min({remoteContiguousThrough, simulatedThrough})

\* The status() field confirmed_through
ConfirmedThrough ==
    LET simulatedConfirmed == Min({remoteContiguousThrough, simulatedThrough})
    IN  IF dirtyFrom = Clean THEN simulatedConfirmed
        ELSE Min({simulatedConfirmed, dirtyFrom - 1})

\* Fault: trimmed rows stay behind as empty entries
RetainedBlank(rows, floor) ==
    [t \in DOMAIN rows |-> IF t >= floor THEN rows[t] ELSE NoPad]

\* Fault: one row too many is kept
RetainedOneMore(rows, floor) == [t \in {s \in DOMAIN rows : s >= floor - 1} |-> rows[t]]

Retained(rows, floor) == [t \in {s \in DOMAIN rows : s >= floor} |-> rows[t]]

\* #trimHistory, applied to the rows the caller has just updated
TrimHistory(local, remote, executed, floor) ==
    LET dropped == {t \in DOMAIN remote : t < floor /\ t > remoteSeed.tick}
    IN  /\ remoteSeed' = IF dropped = {} THEN remoteSeed
                         ELSE [tick |-> Max(dropped), pad |-> remote[Max(dropped)]]
        /\ localInputs' = Retained(local, floor)
        /\ remoteInputs' = Retained(remote, floor)
        /\ executedInputs' = Retained(executed, floor)

\* this.#outstanding = null and ++this.#revision, which always come together
DropPlan == outstanding' = FALSE /\ revised' = TRUE /\ UNCHANGED plan

-----------------------------------------------------------------------------
Init ==
    /\ localInputs = Empty
    /\ remoteInputs = Empty
    /\ executedInputs = Empty
    /\ remoteSeed = [tick |-> StartTick - 1, pad |-> InitialRemotePad]
    /\ localThrough = StartTick - 1
    /\ remoteContiguousThrough = StartTick - 1
    /\ simulatedThrough = StartTick - 1
    /\ dirtyFrom = Clean
    /\ plan = NoPlan
    /\ outstanding = FALSE
    /\ revised = FALSE
    /\ phase = "active"
    /\ accepted = Empty

RecordLocal(tick, pad) ==
    /\ phase = "active"
    /\ ~outstanding
    /\ dirtyFrom = Clean
    /\ tick >= HistoryFloor(simulatedThrough)
    /\ tick \notin DOMAIN localInputs
    /\ tick = NextTick(localThrough)
    /\ tick = NextTick(simulatedThrough)
    /\ localInputs' = [t \in DOMAIN localInputs \cup {tick} |->
                          IF t = tick THEN pad ELSE localInputs[t]]
    /\ localThrough' = tick
    /\ revised' = TRUE
    /\ UNCHANGED <<remoteInputs, executedInputs, remoteSeed,
                   remoteContiguousThrough, simulatedThrough, dirtyFrom,
                   plan, outstanding, phase, accepted>>

\* Fault: every later executed pad is compared with the new sample itself
ContradictedBySample(tick, candidate) ==
    {t \in tick..simulatedThrough : executedInputs[t].remote # candidate[tick]}

\* The executed ticks from tick on whose remote pad the candidate rows contradict
Contradicted(tick, candidate) ==
    {t \in tick..simulatedThrough :
        executedInputs[t].remote # ResolveRemote(t, candidate)}

InLookahead(tick) ==
    LET next == NextTick(simulatedThrough)
    IN  next # NoTick /\ tick >= next => tick - next < MaxLookahead

AcceptRemote(tick, pad) ==
    /\ phase = "active"
    /\ tick >= StartTick
    /\ tick >= HistoryFloor(simulatedThrough)
    /\ InLookahead(tick)
    /\ tick \notin DOMAIN remoteInputs
    /\ tick..simulatedThrough \subseteq DOMAIN executedInputs
    /\ LET candidate == [t \in DOMAIN remoteInputs \cup {tick} |->
                            IF t = tick THEN pad ELSE remoteInputs[t]]
           changed == Contradicted(tick, candidate)
       IN  /\ dirtyFrom' =
                 IF changed = {} THEN dirtyFrom
                 ELSE IF dirtyFrom = Clean \/ Min(changed) < dirtyFrom
                      THEN Min(changed) ELSE dirtyFrom
           /\ remoteContiguousThrough' =
                 ContiguousFrom(remoteContiguousThrough, candidate)
           /\ TrimHistory(localInputs, candidate, executedInputs,
                          HistoryFloor(simulatedThrough))
    /\ accepted' = [t \in DOMAIN accepted \cup {tick} |->
                       IF t = tick THEN pad ELSE accepted[t]]
    /\ DropPlan
    /\ UNCHANGED <<localThrough, simulatedThrough, phase>>

\* A duplicate changes no sample and still ends the outstanding plan
AcceptDuplicate(tick) ==
    /\ phase = "active"
    /\ tick >= HistoryFloor(simulatedThrough)
    /\ InLookahead(tick)
    /\ tick \in DOMAIN remoteInputs
    /\ DropPlan
    /\ UNCHANGED <<inputs, cursors, dirtyFrom, phase, accepted>>

-----------------------------------------------------------------------------
\* The frames the current rows give to the ticks of an interval
FramesOf(from, through) ==
    [t \in from..through |-> [local  |-> localInputs[t],
                              remote |-> ResolveRemote(t, remoteInputs)]]

\* #createPlan; end is confirmed_end where the kind has one
CreatePlan(kind, from, through, end) ==
    /\ plan' = [kind |-> kind, from |-> from, through |-> through,
                end |-> end, frames |-> FramesOf(from, through)]
    /\ outstanding' = TRUE
    /\ revised' = FALSE

\* Fault: one tick too many is predicted
PlanForwardOneMore ==
    LET tick == NextTick(simulatedThrough)
    IN  /\ phase = "active"
        /\ ~outstanding
        /\ dirtyFrom = Clean
        /\ tick # NoTick
        /\ tick \in DOMAIN localInputs
        /\ tick - remoteContiguousThrough <= MaxPrediction + 1
        /\ CreatePlan("forward", tick, tick, NoTick)
        /\ UNCHANGED <<inputs, cursors, dirtyFrom, phase, accepted>>

PlanForward ==
    LET tick == NextTick(simulatedThrough)
    IN  /\ phase = "active"
        /\ ~outstanding
        /\ dirtyFrom = Clean
        /\ tick # NoTick
        /\ tick \in DOMAIN localInputs
        /\ tick - remoteContiguousThrough <= MaxPrediction
        /\ CreatePlan("forward", tick, tick, NoTick)
        /\ UNCHANGED <<inputs, cursors, dirtyFrom, phase, accepted>>

PlanReplay ==
    /\ phase = "active"
    /\ ~outstanding
    /\ dirtyFrom # Clean
    /\ dirtyFrom >= HistoryFloor(simulatedThrough)
    /\ dirtyFrom..simulatedThrough \subseteq DOMAIN localInputs
    /\ CreatePlan("replay", dirtyFrom, simulatedThrough, NoTick)
    /\ UNCHANGED <<inputs, cursors, dirtyFrom, phase, accepted>>

\* preFrame and confirmedEnd bound a prefix that lies inside the retained,
\* executed and confirmed input; it asks what plan and commit both ask
PrefixInterval(preFrame, confirmedEnd) ==
    /\ NextTick(simulatedThrough) # NoTick
    /\ preFrame >= HistoryFloor(simulatedThrough)
    /\ preFrame < confirmedEnd
    /\ confirmedEnd = NextTick(remoteContiguousThrough)
    /\ confirmedEnd < NextTick(simulatedThrough)
    /\ dirtyFrom # Clean => dirtyFrom >= preFrame

PlanConfirmedPrefix(preFrame, confirmedEnd) ==
    /\ phase = "active"
    /\ ~outstanding
    /\ PrefixInterval(preFrame, confirmedEnd)
    /\ NextTick(simulatedThrough) - preFrame <= MaxPrediction
    /\ preFrame..(confirmedEnd - 1) \subseteq DOMAIN remoteInputs
    /\ preFrame..simulatedThrough \subseteq DOMAIN localInputs
    /\ preFrame..simulatedThrough \subseteq DOMAIN executedInputs
    /\ CreatePlan("confirmed-prefix", preFrame, simulatedThrough, confirmedEnd)
    /\ UNCHANGED <<inputs, cursors, dirtyFrom, phase, accepted>>

-----------------------------------------------------------------------------
\* Fault: a plan stays good after later input
CurrentPlanAnyRevision(kind) == plan.kind = kind

\* #assertCurrentPlan for the plan the caller holds
CurrentPlan(kind) == outstanding /\ plan.kind = kind /\ ~revised

\* The executed rows after the frames of an interval are written over them.
\* The caller's plan is the outstanding one, so resolved pads are its frames'.
Overwritten(frames) ==
    [t \in DOMAIN executedInputs \cup DOMAIN frames |->
        IF t \in DOMAIN frames THEN frames[t] ELSE executedInputs[t]]

CommitForward ==
    /\ phase = "active"
    /\ CurrentPlan("forward")
    /\ plan.from = NextTick(simulatedThrough)
    /\ dirtyFrom = Clean
    /\ simulatedThrough' = plan.from
    /\ TrimHistory(localInputs, remoteInputs,
                   Overwritten(FramesOf(plan.from, plan.from)),
                   HistoryFloor(plan.from))
    /\ DropPlan
    /\ UNCHANGED <<localThrough, remoteContiguousThrough, dirtyFrom, phase, accepted>>

\* The end of both replays: the resolved remote pads of the plan, beside the
\* original local pads, become the executed rows
CommitResolved ==
    /\ plan.from..plan.through \subseteq DOMAIN localInputs
    /\ dirtyFrom' = Clean
    /\ TrimHistory(localInputs, remoteInputs,
           Overwritten([t \in plan.from..plan.through |->
               [local |-> localInputs[t], remote |-> plan.frames[t].remote]]),
           HistoryFloor(simulatedThrough))
    /\ DropPlan
    /\ UNCHANGED <<cursors, phase, accepted>>

CommitReplay ==
    /\ phase = "active"
    /\ CurrentPlan("replay")
    /\ plan.from = dirtyFrom
    /\ plan.through = simulatedThrough
    /\ CommitResolved

CommitConfirmedPrefix ==
    /\ phase = "active"
    /\ CurrentPlan("confirmed-prefix")
    /\ PrefixInterval(plan.from, plan.end)
    /\ plan.through = simulatedThrough
    /\ CommitResolved

-----------------------------------------------------------------------------
Disconnect ==
    /\ phase = "active"
    /\ phase' = "terminal"
    /\ DropPlan
    /\ UNCHANGED <<inputs, cursors, dirtyFrom, accepted>>

Dispose ==
    /\ phase # "disposed"
    /\ phase' = "disposed"
    /\ localInputs' = Empty
    /\ remoteInputs' = Empty
    /\ executedInputs' = Empty
    /\ remoteSeed' = [remoteSeed EXCEPT !.pad = NoPad]
    /\ dirtyFrom' = Clean
    /\ DropPlan
    /\ UNCHANGED <<cursors, accepted>>

Next ==
    \/ \E tick \in Tick, pad \in Pad : RecordLocal(tick, pad)
    \/ \E tick \in Tick, pad \in Pad : AcceptRemote(tick, pad)
    \/ \E tick \in Tick : AcceptDuplicate(tick)
    \/ PlanForward
    \/ PlanReplay
    \/ \E preFrame, confirmedEnd \in Tick : PlanConfirmedPrefix(preFrame, confirmedEnd)
    \/ CommitForward
    \/ CommitReplay
    \/ CommitConfirmedPrefix
    \/ Disconnect
    \/ Dispose

Spec == Init /\ [][Next]_vars

-----------------------------------------------------------------------------
IsRow(f, S) == DOMAIN f \subseteq Tick /\ \A t \in DOMAIN f : f[t] \in S

PlanTypeOK ==
    plan # NoPlan =>
        /\ plan.kind \in {"forward", "replay", "confirmed-prefix"}
        /\ plan.from \in Tick /\ plan.through \in Tick
        /\ plan.end \in Tick \cup {NoTick}
        /\ IsRow(plan.frames, Frame)

\* Every variable has its type; a cursor may be one below the first tick.
TypeOK ==
    /\ IsRow(localInputs, Pad) /\ IsRow(remoteInputs, Pad) /\ IsRow(accepted, Pad)
    /\ IsRow(executedInputs, Frame)
    /\ remoteSeed \in [tick : -1..MaxTick, pad : Pad \cup {NoPad}]
    /\ localThrough \in -1..MaxTick
    /\ remoteContiguousThrough \in -1..MaxTick
    /\ simulatedThrough \in -1..MaxTick
    /\ dirtyFrom \in Tick \cup {Clean}
    /\ outstanding \in BOOLEAN /\ revised \in BOOLEAN
    /\ phase \in {"active", "terminal", "disposed"}
    /\ PlanTypeOK

\* The pad is the newest of the samples at or before t
IsNewest(samples, t, pad) ==
    LET known == {s \in DOMAIN samples : s <= t}
    IN  IF known = {} THEN pad = InitialRemotePad
        ELSE \E s \in known : samples[s] = pad /\ \A u \in known : u <= s

\* A frame that needs no correction was executed with the newest remote sample
\* at or before its tick, although acceptRemote and trimHistory have dropped
\* rows and kept only a seed of them.
ExecutedIsNewest ==
    \A t \in DOMAIN executedInputs :
        dirtyFrom = Clean \/ t < dirtyFrom =>
            IsNewest(accepted, t, executedInputs[t].remote)

\* What status() reports as confirmed was executed with this peer's recorded
\* sample and the sample the other peer sent for that very tick.
ConfirmedIsActual ==
    \A t \in DOMAIN executedInputs :
        t <= ConfirmedThrough =>
            /\ t \in DOMAIN accepted
            /\ executedInputs[t] = [local |-> localInputs[t], remote |-> accepted[t]]

\* acceptRemote calls a sample below the floor stale: such a sample has always
\* been accepted before, because speculation ends before history does.
NothingMissedIsStale ==
    /\ simulatedThrough - remoteContiguousThrough <= MaxPrediction
    /\ StartTick..(HistoryFloor(simulatedThrough) - 1) \subseteq DOMAIN accepted

\* A correction can always be planned (planReplay's throws are unreachable) and
\* is a real one: the frame at dirtyFrom was executed with a wrong pad.
CorrectionIsReplayable ==
    dirtyFrom # Clean =>
        /\ dirtyFrom \in HistoryFloor(simulatedThrough)..simulatedThrough
        /\ dirtyFrom..simulatedThrough \subseteq DOMAIN localInputs
        /\ dirtyFrom \in DOMAIN accepted
        /\ executedInputs[dirtyFrom].remote # accepted[dirtyFrom]

\* The stores stay bounded however long the match: executed rows by the history
\* bound, remote rows by it and the lookahead, local rows by it and the one
\* sample that recordLocal adds before the next trim.
StorageIsBounded ==
    /\ Cardinality(DOMAIN executedInputs) <= MaxHistory
    /\ Cardinality(DOMAIN remoteInputs) <= MaxHistory + MaxLookahead
    /\ Cardinality(DOMAIN localInputs) <= MaxHistory + 1

\* The class comment (lines 90-91): local rows are limited to maxHistoryTicks.
LocalRowsWithinHistory == Cardinality(DOMAIN localInputs) <= MaxHistory

\* Confirmation never regresses and a confirmed frame is never rewritten.
ConfirmedStep ==
    /\ ConfirmedThrough' >= ConfirmedThrough
    /\ \A t \in DOMAIN executedInputs \cap DOMAIN executedInputs' :
           t <= ConfirmedThrough => executedInputs'[t] = executedInputs[t]
ConfirmedIsFinal == [][ConfirmedStep]_vars

\* An executed row changes only to the frame that the plan the caller holds
\* showed it, so the engine ran what the timeline says it ran.
CommitStep ==
    \A t \in DOMAIN executedInputs' :
        t \notin DOMAIN executedInputs \/ executedInputs'[t] # executedInputs[t] =>
            t \in DOMAIN plan.frames /\ executedInputs'[t] = plan.frames[t]
CommitMatchesPlan == [][CommitStep]_vars

=============================================================================
