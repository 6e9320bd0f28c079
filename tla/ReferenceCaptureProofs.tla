------------------------ MODULE ReferenceCaptureProofs ------------------------
(***************************************************************************)
(* Proofs about ReferenceCapture, for any number of recordings, commands,  *)
(* signals and deaths.  An action of the application is a step of the      *)
(* inbox, whose lemmas are in CaptureInboxProofs, and of its own threads.  *)
(***************************************************************************)
EXTENDS ReferenceCapture, CaptureInboxProofs

WorkerPc == {"idle", "verifying", "beginning"} \cup Guarded
            \cup {"handler", "failing", "finally", "receipt"}
WorkerType == [pc : WorkerPc, completed : BOOLEAN, killed : BOOLEAN, cancelled : BOOLEAN,
               raised : BOOLEAN]
DolphinStates == [Bundle -> {"none", "running", "finished", "exited", "crashed", "killed"}]
Sealing == {"validating", "sealing", "listing", "sealed", "accepting"}
Playing == {"watching", "stopping", "examining", "reading"}
Reported == {"replay_matched", "replay_diverged"}

CaptureType ==
    /\ mode \in Mode /\ main \in {"off", "serving", "capturing", "closing", "joining"}
    /\ worker \in WorkerType
    /\ current \in Bundle \cup {Nothing} /\ process \in Bundle \cup {Nothing}
    /\ stopRequested \in BOOLEAN /\ processLock \in Thread \cup {Nothing}
    /\ dolphin \in DolphinStates
    /\ raw \in [Bundle -> {"partial", "complete", "faulty"}]
    /\ appLock \in {"application", Nothing}

\* Where capture() is, and where its bundle is
WorkerInv ==
    ~WorkerAt("idle") =>
        /\ current \in Bundle /\ main # "off"
        /\ WorkerAt("verifying") => InState(current, "new")
        /\ WorkerAt("beginning") => bundle[current].pc \in {"new", "beginning"}
        /\ worker.pc \in {"preparing", "spawning", "spawned"} \cup Playing =>
              InState(current, "open")
        /\ WorkerAt("completing") => bundle[current].pc \in Sealing
        /\ worker.pc \in {"announcing", "comparing", "deriving"} => InState(current, "accepted")
        /\ worker.pc \in {"handler", "failing"} => bundle[current].pc \in Closed \cup {"open"}

\* What is sealed or accepted is of a Dolphin that has finished and stopped
SealedInv ==
    \A b \in Bundle : bundle[b].pc \in Sealing \cup {"accepted"} => Finished(b) /\ ~Alive(b)

\* Whose Dolphin the worker watches, and reads when it has stopped
DolphinInv ==
    /\ worker.pc \in Playing => process = current
    /\ worker.pc \in {"examining", "reading"} => ~Alive(current)

\* The process lock and the stop flag
ProcessInv ==
    /\ processLock = "main" => main = "closing"
    /\ WorkerAt("spawned") => processLock = "worker"
    /\ main \in {"closing", "joining"} => stopRequested
    /\ main = "joining" => ~OwnsLive /\ ~WorkerAt("spawned")

\* Which recording the application derives from, and that what it shows is stored
ReportInv ==
    /\ WorkerAt("deriving") =>
          tool[AppTool] # Idle /\ tool[AppTool].session = SessionOf[current]
    /\ current # Nothing /\ shown \in Reported =>
          derived[SessionOf[current]].source # NoManifest

CaptureInv ==
    /\ CaptureType /\ WorkerInv /\ SealedInv /\ DolphinInv /\ ProcessInv
    /\ ReportInv /\ ShownIsTrue

IInv == InboxInv /\ CaptureInv

-----------------------------------------------------------------------------
(* What the steps of the inbox do to the objects in memory.                *)

OthersStay(b) == \A c \in Bundle : c # b => bundle'[c] = bundle[c]

\* The sessions of two captures differ.
LEMMA SessionsDiffer == Unique
BY CaptureAssumption DEF Unique

\* Where a step of a bundle leaves it.
LEMMA BundleGoes ==
    ASSUME InboxInv, NEW b \in Bundle
    PROVE  /\ EnterBegin(b) => OthersStay(b) /\ bundle[b].pc = "new" /\ bundle'[b].pc = "beginning"
           /\ Begin(b) => /\ OthersStay(b) /\ bundle[b].pc = "beginning"
                          /\ bundle'[b].pc \in {"refused", "open"}
           /\ \A kind : AppendRecord(b, kind) =>
                 OthersStay(b) /\ bundle[b].pc = "open" /\ bundle'[b].pc = "open"
           /\ AppendRejected(b) \/ AppendGap(b) =>
                 OthersStay(b) /\ bundle[b].pc = "open" /\ bundle'[b].pc = "open"
           /\ FailBundle(b) => OthersStay(b) /\ bundle[b].pc = "open" /\ bundle'[b].pc = "rejected"
           /\ Close(b) => OthersStay(b) /\ bundle[b].pc = "open" /\ bundle'[b].pc = "validating"
           /\ CompleteStep(b) =>
                 /\ OthersStay(b) /\ bundle[b].pc \in Sealing
                 /\ bundle'[b].pc \in Sealing \cup {"accepted", "rejected", "raised"}
<1>1. \A pc \in BundlePc : Goto(b, pc) \/ Failed(b, pc) => OthersStay(b) /\ bundle'[b].pc = pc
  BY GotoSets, FailedSets DEF OthersStay
<1>2. bundle \in BundleStates
  BY ObjectTyped
<1>3. EnterBegin(b) => OthersStay(b) /\ bundle[b].pc = "new" /\ bundle'[b].pc = "beginning"
  BY <1>1 DEF EnterBegin, InState, BundlePc
<1>4. Begin(b) => /\ OthersStay(b) /\ bundle[b].pc = "beginning"
                  /\ bundle'[b].pc \in {"refused", "open"}
  BY <1>1 DEF Begin, InState, BundlePc, Closed
<1>5. ASSUME NEW kind, AppendRecord(b, kind)
      PROVE  OthersStay(b) /\ bundle[b].pc = "open" /\ bundle'[b].pc = "open"
  <2>1. PICK m : bundle' = [bundle EXCEPT ![b] = m] /\ m.pc = bundle[b].pc
    <3>1. PICK count, faults :
             bundle' = [bundle EXCEPT ![b] = [bundle[b] EXCEPT !.count = count, !.faults = faults]]
      BY <1>5 DEF AppendRecord
    <3>2. PICK m : m = [bundle[b] EXCEPT !.count = count, !.faults = faults]
      OBVIOUS
    <3>3. m.pc = bundle[b].pc
      BY <1>2, <3>2 DEF BundleStates
    <3>4. QED
      BY <3>1, <3>2, <3>3
  <2>2. bundle[b].pc = "open"
    BY <1>5 DEF AppendRecord, InState
  <2>3. QED
    BY <1>2, <2>1, <2>2 DEF OthersStay, BundleStates
<1>6. AppendRejected(b) \/ AppendGap(b) =>
         OthersStay(b) /\ bundle[b].pc = "open" /\ bundle'[b].pc = "open"
  BY <1>1 DEF AppendRejected, AppendGap, InState, BundlePc
<1>7. FailBundle(b) => OthersStay(b) /\ bundle[b].pc = "open" /\ bundle'[b].pc = "rejected"
  BY <1>1 DEF FailBundle, InState, BundlePc, Closed
<1>8. Close(b) => OthersStay(b) /\ bundle[b].pc = "open" /\ bundle'[b].pc = "validating"
  BY <1>1 DEF Close, InState, BundlePc
<1>9. ASSUME CompleteStep(b)
      PROVE  /\ OthersStay(b) /\ bundle[b].pc \in Sealing
             /\ bundle'[b].pc \in Sealing \cup {"accepted", "rejected", "raised"}
  <2>1. /\ bundle[b].pc \in Sealing
        /\ \E pc \in Sealing \cup {"accepted", "rejected", "raised"} : Goto(b, pc) \/ Failed(b, pc)
    BY <1>9 DEF CompleteStep, Validate, WriteSidecars, WriteManifest, SealingRaises, EnterAccept,
                Accept, AcceptFails, InState, Sealing
  <2>2. Sealing \cup {"accepted", "rejected", "raised"} \subseteq BundlePc
    BY DEF Sealing, BundlePc, Closed
  <2>3. QED
    BY <1>1, <2>1, <2>2
<1>10. QED
  BY <1>3, <1>4, <1>5, <1>6, <1>7, <1>8, <1>9

\* A command leaves the objects of the writers alone.
LEMMA CommandsLeaveBundles ==
    ASSUME NEW t, ToolStep(t)
    PROVE  bundle' = bundle
BY DEF ToolStep, StartCommand, CommandStep, StartIngest, StartDerive, StartQuarantine,
       EnterCommand, MoveDirectory, CheckDerived, WriteArtifact, WriteDerivedManifest, ToolDies

\* The writers leave the commands and their reports alone.
LEMMA WritersLeaveReports ==
    ASSUME NEW b, BundleStep(b)
    PROVE  derived' = derived /\ tool' = tool
BY DEF BundleStep, EnterBegin, Begin, AppendRecord, AppendRejected, AppendGap, FailBundle, Close,
       CompleteStep, Validate, WriteSidecars, WriteManifest, SealingRaises, EnterAccept, Accept,
       AcceptFails, WriterDies

\* A command leaves the other commands alone, and every report that is stored.
LEMMA ReportsStay ==
    ASSUME InboxInv, NEW t \in Tool, ToolStep(t)
    PROVE  /\ \A u \in Tool : u # t => tool'[u] = tool[u]
           /\ \A s \in Session : derived[s].source # NoManifest => derived'[s] = derived[s]
<1>1. tool \in ToolStates /\ derived \in DerivedStates /\ CommandOf(t)
  BY DEF InboxInv, InboxType, CommandInv
<1>2. \E v : tool' = [tool EXCEPT ![t] = v]
  <2>1. CASE StartCommand(t)
    BY <2>1 DEF StartCommand, StartIngest, StartDerive, StartQuarantine, Command
  <2>2. CASE CommandStep(t)
    BY <2>2 DEF CommandStep, EnterCommand, MoveDirectory, CheckDerived, WriteArtifact,
                WriteDerivedManifest
  <2>3. CASE ToolDies(t)
    BY <2>3 DEF ToolDies
  <2>4. QED
    BY <2>1, <2>2, <2>3 DEF ToolStep
<1>3. \A u \in Tool : u # t => tool'[u] = tool[u]
  BY <1>1, <1>2 DEF ToolStates
<1>4. CASE WriteArtifact(t) \/ WriteDerivedManifest(t)
  <2>1. tool[t] # Idle /\ tool[t].pc \in {"checked", "wrote"}
    BY <1>4 DEF WriteArtifact, WriteDerivedManifest, Idle
  <2>2. derived[tool[t].session].source = NoManifest
    BY <1>1, <2>1 DEF CommandOf
  <2>3. \A s \in Session : s # tool[t].session => derived'[s] = derived[s]
    BY <1>1, <1>4 DEF WriteArtifact, WriteDerivedManifest, DerivedStates
  <2>4. QED
    BY <1>3, <2>2, <2>3
<1>5. CASE ~(WriteArtifact(t) \/ WriteDerivedManifest(t))
  <2>1. derived' = derived
    BY <1>5 DEF ToolStep, StartCommand, CommandStep, StartIngest, StartDerive, StartQuarantine,
                EnterCommand, MoveDirectory, CheckDerived, ToolDies
  <2>2. QED
    BY <1>3, <2>1
<1>6. QED
  BY <1>4, <1>5

\* What ends with the process leaves the inbox as a death does.
LEMMA AbandonedKeeps ==
    ASSUME InboxInv, current \in Bundle \cup {Nothing}, Abandoned,
           tool' = [tool EXCEPT ![AppTool] = Idle], UNCHANGED <<dirs, derived, diskErrors>>
    PROVE  /\ InboxInv' /\ Kept
           /\ \A c \in Bundle : \/ bundle'[c] = bundle[c]
                                \/ bundle'[c].pc = "dead" /\ bundle[c].pc # "accepted"
<1>1. AppTool \in Tool /\ Bundle \cap Tool = {} /\ NoOne \notin Bundle \cup Tool
  BY CaptureAssumption, InboxAssumption
<1>2. CASE current # Nothing /\ bundle[current].pc \notin Closed \cup {"new"}
  <2>1. /\ Goto(current, "dead") /\ current \in Bundle /\ "dead" \in BundlePc
        /\ inboxLock' = IF inboxLock \in {current, AppTool} THEN NoOne ELSE inboxLock
    BY <1>2 DEF Abandoned, BundlePc, Closed
  <2>2. /\ bundle' \in BundleStates /\ bundle'[current].pc = "dead"
        /\ \A c \in Bundle : c # current => bundle'[c] = bundle[c]
    BY <2>1, GotoSets
  <2>3. bundle[current].pc # "accepted"
    BY <1>2 DEF Closed
  <2>4. \A c \in Bundle : \/ bundle'[c] = bundle[c]
                          \/ c = current /\ bundle'[c].pc \in {"dead", "raised"}
                             /\ bundle[c].pc # "accepted"
    BY <2>2, <2>3
  <2>5. current \notin Tool
    BY <1>1, <2>1
  <2>6. \/ inboxLock' = inboxLock
        \/ inboxLock' = NoOne /\ inboxLock = AppTool
        \/ inboxLock' = NoOne /\ inboxLock = current
           /\ (current \in Bundle => bundle'[current].pc \notin {"beginning", "accepting"})
    BY <2>1, <2>2
  <2>7. inboxLock = AppTool => inboxLock' = NoOne
    BY <2>1
  <2>8. InboxInv' /\ Kept
    BY <1>1, <2>2, <2>4, <2>5, <2>6, <2>7, GivenUp
  <2>9. QED
    BY <2>2, <2>3, <2>8
<1>3. CASE ~(current # Nothing /\ bundle[current].pc \notin Closed \cup {"new"})
  <2>1. bundle' = bundle /\ inboxLock' = IF inboxLock = AppTool THEN NoOne ELSE inboxLock
    BY <1>3 DEF Abandoned
  <2>2. bundle' \in BundleStates
    BY <2>1 DEF InboxInv, InboxType, BundleStates
  <2>3. NoOne \notin Tool
    BY <1>1
  <2>4. InboxInv' /\ Kept
    BY <1>1, <2>1, <2>2, <2>3, GivenUp
  <2>5. QED
    BY <2>1, <2>4
<1>4. QED
  BY <1>2, <1>3

\* A signal leaves it so too.
LEMMA UnwindsKeeps ==
    ASSUME InboxInv, current \in Bundle, Unwinds, UNCHANGED <<dirs, derived, diskErrors>>
    PROVE  /\ InboxInv' /\ Kept
           /\ \A c \in Bundle : \/ bundle'[c] = bundle[c]
                                \/ bundle'[c].pc = "raised" /\ bundle[c].pc # "accepted"
           /\ \/ bundle'[current].pc \in {"open"} \cup Closed
              \/ bundle'[current].pc = "new" /\ bundle[current].pc = "new"
<1>1. AppTool \in Tool /\ Bundle \cap Tool = {} /\ NoOne \notin Bundle \cup Tool
  BY CaptureAssumption, InboxAssumption
<1>2. /\ inboxLock' = IF inboxLock \in {current, AppTool} THEN NoOne ELSE inboxLock
      /\ tool' = [tool EXCEPT ![AppTool] = Idle]
      /\ bundle' = IF bundle[current].pc \in {"new", "open"} \cup Closed THEN bundle
                   ELSE [bundle EXCEPT ![current].pc = "raised"]
  BY DEF Unwinds
<1>3. /\ bundle' \in BundleStates
      /\ \A c \in Bundle : c # current => bundle'[c] = bundle[c]
      /\ \/ bundle' = bundle /\ bundle[current].pc \notin {"beginning", "accepting"}
         \/ bundle'[current].pc = "raised" /\ bundle[current].pc # "accepted"
      /\ \/ bundle'[current].pc \in {"open"} \cup Closed
         \/ bundle'[current].pc = "new" /\ bundle[current].pc = "new"
  <2>1. bundle \in BundleStates
    BY DEF InboxInv, InboxType, BundleStates
  <2>2. CASE bundle[current].pc \in {"new", "open"} \cup Closed
    BY <1>2, <2>1, <2>2 DEF Closed
  <2>3. CASE bundle[current].pc \notin {"new", "open"} \cup Closed
    <3>1. Goto(current, "raised") /\ "raised" \in BundlePc
      BY <1>2, <2>3 DEF Goto, BundlePc, Closed
    <3>2. /\ bundle' \in BundleStates /\ bundle'[current].pc = "raised"
          /\ \A c \in Bundle : c # current => bundle'[c] = bundle[c]
      BY <3>1, GotoSets
    <3>3. QED
      BY <2>3, <3>2 DEF Closed
  <2>4. QED
    BY <2>2, <2>3
<1>4. \A c \in Bundle : \/ bundle'[c] = bundle[c]
                        \/ c = current /\ bundle'[c].pc \in {"dead", "raised"}
                           /\ bundle[c].pc # "accepted"
  BY <1>3
<1>5. \/ inboxLock' = inboxLock
      \/ inboxLock' = NoOne /\ inboxLock = AppTool
      \/ inboxLock' = NoOne /\ inboxLock = current
         /\ (current \in Bundle => bundle'[current].pc \notin {"beginning", "accepting"})
  BY <1>2, <1>3
<1>6. inboxLock = AppTool => inboxLock' = NoOne
  BY <1>2
<1>7. current \notin Tool
  BY <1>1
<1>8. InboxInv' /\ Kept
  BY <1>1, <1>2, <1>3, <1>4, <1>5, <1>6, <1>7, GivenUp
<1>9. QED
  BY <1>3, <1>8

-----------------------------------------------------------------------------
(* The steps of capture().                                                 *)

\* What the invariant says, part by part.
LEMMA Parts ==
    ASSUME IInv
    PROVE  /\ InboxInv /\ CaptureType /\ WorkerInv /\ SealedInv /\ DolphinInv /\ ProcessInv
           /\ ReportInv /\ ShownIsTrue /\ worker \in WorkerType /\ worker.pc \in WorkerPc
           /\ current \in Bundle \cup {Nothing} /\ Nothing \notin Bundle
BY CaptureAssumption DEF IInv, CaptureInv, CaptureType, WorkerType

\* Where the worker goes.
LEMMA WorkerSet ==
    ASSUME worker \in WorkerType, NEW pc \in WorkerPc
    PROVE  /\ WorkerGoes(pc) => worker' \in WorkerType /\ worker'.pc = pc
           /\ \A v \in BOOLEAN :
                 /\ worker' = [worker EXCEPT !.pc = pc, !.completed = v] =>
                       worker' \in WorkerType /\ worker'.pc = pc
                 /\ worker' = [worker EXCEPT !.pc = pc, !.cancelled = v] =>
                       worker' \in WorkerType /\ worker'.pc = pc
                 /\ worker' = [worker EXCEPT !.killed = v, !.pc = pc] =>
                       worker' \in WorkerType /\ worker'.pc = pc
                 /\ worker' = [worker EXCEPT !.pc = pc, !.raised = v] =>
                       worker' \in WorkerType /\ worker'.pc = pc
BY DEF WorkerType, WorkerGoes

\* The worker goes to the handler, or rests.
LEMMA WorkerEnds ==
    ASSUME worker \in WorkerType
    PROVE  /\ Raise => worker' \in WorkerType /\ worker'.pc = "handler"
           /\ Resting \in WorkerType /\ Resting.pc = "idle"
           /\ Fails => worker' = Resting /\ shown' \in {shown, "failed"}
BY DEF WorkerType, WorkerPc, Raise, Resting, Fails

\* No report is stored, and none is shown.
LEMMA ReportKept ==
    ASSUME ReportInv, derived' = derived, current' = current,
           shown' = shown \/ shown' \notin Reported,
           worker'.pc = "deriving" => worker.pc = "deriving" /\ tool' = tool
    PROVE  ReportInv'
BY DEF ReportInv, WorkerAt

\* A step of the worker that leaves the locks, the process and Dolphin alone.
LEMMA FrameKeeps ==
    ASSUME IInv, InboxInv', UNCHANGED Frame, worker' \in WorkerType,
           WorkerInv', ReportInv', ShownIsTrue',
           \A b \in Bundle : \/ bundle'[b] = bundle[b]
                             \/ bundle'[b].pc \notin Sealing \cup {"accepted"}
                             \/ Finished(b) /\ ~Alive(b),
           worker'.pc \in Playing => worker.pc \in Playing,
           worker'.pc \in {"examining", "reading"} => worker.pc \in {"examining", "reading"},
           worker'.pc # "spawned" \/ worker.pc = "spawned"
    PROVE  IInv'
<1>1. CaptureType /\ SealedInv /\ DolphinInv /\ ProcessInv
  BY Parts
<1>2. /\ mode' = mode /\ main' = main /\ appLock' = appLock /\ dolphin' = dolphin /\ raw' = raw
      /\ current' = current /\ stopRequested' = stopRequested /\ processLock' = processLock
      /\ process' = process
  BY DEF Frame, MainVars, External
<1>3. CaptureType'
  BY <1>1, <1>2 DEF CaptureType
<1>4. SealedInv'
  BY <1>1, <1>2 DEF SealedInv, Finished, Alive
<1>5. DolphinInv'
  BY <1>1, <1>2 DEF DolphinInv, Alive
<1>6. ProcessInv'
  BY <1>1, <1>2 DEF ProcessInv, OwnsLive, Alive, WorkerAt
<1>7. QED
  BY <1>3, <1>4, <1>5, <1>6 DEF IInv, CaptureInv

\* Nothing of the inbox changes.
LEMMA InboxStays ==
    ASSUME IInv, UNCHANGED inboxVars
    PROVE  InboxInv' /\ Kept /\ bundle' = bundle /\ derived' = derived /\ tool' = tool
BY Parts, InboxStutters DEF inboxVars

\* capture() verifies its inputs: nothing of the bundle is there yet.
LEMMA VerifyKeeps ==
    ASSUME IInv, Verify
    PROVE  IInv' /\ Kept
<1>1. InboxInv' /\ Kept /\ bundle' = bundle /\ derived' = derived /\ tool' = tool
  BY InboxStays DEF Verify
<1>2. /\ UNCHANGED Frame /\ main' = main /\ mode' = mode /\ current' = current
  BY DEF Verify, Frame, MainVars
<1>3. /\ worker.pc = "verifying" /\ worker \in WorkerType /\ WorkerInv /\ ShownIsTrue
  BY Parts DEF Verify, WorkerAt
<1>4. /\ worker' \in WorkerType /\ worker'.pc \in {"idle", "beginning"}
      /\ shown' \in {shown, "failed", "controller_required", "stopped", "ready"}
  BY <1>3, WorkerSet, WorkerEnds DEF Verify, WorkerPc, Shows
<1>5. current \in Bundle /\ main # "off" /\ bundle[current].pc = "new"
  BY <1>3 DEF WorkerInv, WorkerAt, InState
<1>6. WorkerInv'
  BY <1>1, <1>2, <1>4, <1>5 DEF WorkerInv, WorkerAt, InState, Playing
<1>7. ShownIsTrue'
  BY <1>1, <1>2, <1>3, <1>4, <1>5 DEF ShownIsTrue, InState, Closed
<1>8. ReportInv'
  BY <1>1, <1>2, <1>4, Parts, ReportKept DEF Reported
<1>9. QED
  BY <1>1, <1>2, <1>4, <1>6, <1>7, <1>8, FrameKeeps DEF Playing

\* capture() begins its bundle.
LEMMA BeginCaptureKeeps ==
    ASSUME IInv, BeginCapture
    PROVE  IInv' /\ Kept
<1>1. /\ UNCHANGED Frame /\ main' = main /\ mode' = mode /\ current' = current
  BY DEF BeginCapture, Frame, MainVars
<1>2. /\ worker.pc = "beginning" /\ worker \in WorkerType /\ WorkerInv /\ InboxInv /\ ShownIsTrue
      /\ Nothing \notin Bundle
  BY Parts DEF BeginCapture, WorkerAt
<1>3. current \in Bundle /\ main # "off" /\ bundle[current].pc \in {"new", "beginning"}
  BY <1>2 DEF WorkerInv, WorkerAt
<1>4. /\ shown' \in {shown, "failed"}
      /\ \/ UNCHANGED inboxVars /\ worker' = Resting
         \/ EnterBegin(current) /\ worker' = worker
         \/ /\ Begin(current)
            /\ \/ bundle'[current].pc = "open" /\ WorkerGoes("preparing")
               \/ bundle'[current].pc # "open" /\ worker' = Resting
  BY <1>2, WorkerEnds DEF BeginCapture
<1>5. CASE UNCHANGED inboxVars /\ worker' = Resting
  <2>1. InboxInv' /\ Kept /\ bundle' = bundle /\ derived' = derived /\ tool' = tool
    BY <1>5, InboxStays
  <2>2. worker' \in WorkerType /\ worker'.pc = "idle"
    BY <1>2, <1>5, WorkerEnds
  <2>3. WorkerInv'
    BY <2>2 DEF WorkerInv, WorkerAt
  <2>4. ShownIsTrue'
    BY <1>1, <1>2, <1>3, <1>4, <2>1 DEF ShownIsTrue, InState, Closed
  <2>5. ReportInv'
    BY <1>1, <1>4, <2>1, <2>2, Parts, ReportKept DEF Reported
  <2>6. QED
    BY <1>1, <2>1, <2>2, <2>3, <2>4, <2>5, FrameKeeps DEF Playing
<1>6. CASE EnterBegin(current) \/ Begin(current)
  <2>1. BundleStep(current)
    BY <1>6 DEF BundleStep
  <2>2. InboxInv' /\ Kept /\ derived' = derived /\ tool' = tool
    BY <1>2, <1>3, <2>1, SessionsDiffer, BundleStepKeeps, WritersLeaveReports
  <2>3. /\ OthersStay(current) /\ bundle'[current].pc \in {"beginning", "refused", "open"}
        /\ EnterBegin(current) => bundle'[current].pc = "beginning"
    BY <1>2, <1>3, <1>6, BundleGoes
  <2>4. /\ worker' \in WorkerType
        /\ \/ worker'.pc = "idle"
           \/ worker'.pc = "beginning" /\ bundle'[current].pc = "beginning"
           \/ worker'.pc = "preparing" /\ bundle'[current].pc = "open"
    <3>1. "preparing" \in WorkerPc
      BY DEF WorkerPc, Guarded
    <3>2. QED
      BY <1>2, <1>4, <2>3, <3>1, WorkerSet, WorkerEnds
  <2>5. WorkerInv'
    BY <1>1, <1>3, <2>4 DEF WorkerInv, WorkerAt, InState, Playing
  <2>6. ShownIsTrue'
    BY <1>1, <1>2, <1>3, <1>4, <2>2 DEF ShownIsTrue, InState, Closed
  <2>7. ReportInv'
    BY <1>1, <1>4, <2>2, <2>4, Parts, ReportKept DEF Reported
  <2>8. \A b \in Bundle : bundle'[b] = bundle[b] \/ bundle'[b].pc \notin Sealing \cup {"accepted"}
    BY <2>3 DEF OthersStay, Sealing
  <2>9. worker'.pc \in {"idle", "preparing", "beginning"}
    BY <2>4
  <2>10. QED
    BY <1>1, <2>2, <2>4, <2>5, <2>6, <2>7, <2>8, <2>9, FrameKeeps DEF Playing
<1>7. QED
  BY <1>4, <1>5, <1>6

\* capture() prepares the profile.
LEMMA PrepareKeeps ==
    ASSUME IInv, Prepare
    PROVE  IInv' /\ Kept
<1>1. InboxInv' /\ Kept /\ bundle' = bundle /\ derived' = derived /\ tool' = tool
  BY InboxStays DEF Prepare
<1>2. /\ UNCHANGED Frame /\ main' = main /\ mode' = mode /\ current' = current
      /\ shown' = "starting"
  BY DEF Prepare, Frame, MainVars, Shows
<1>3. /\ worker.pc = "preparing" /\ worker \in WorkerType /\ WorkerInv
  BY Parts DEF Prepare, WorkerAt
<1>4. worker' \in WorkerType /\ worker'.pc \in {"handler", "spawning"}
  BY <1>3, WorkerSet, WorkerEnds DEF Prepare, WorkerPc, Guarded
<1>5. current \in Bundle /\ main # "off" /\ bundle[current].pc = "open"
  BY <1>3 DEF WorkerInv, WorkerAt, InState
<1>6. WorkerInv'
  BY <1>1, <1>2, <1>4, <1>5 DEF WorkerInv, WorkerAt, InState, Playing
<1>7. ShownIsTrue'
  BY <1>2 DEF ShownIsTrue
<1>8. ReportInv'
  BY <1>1, <1>2, <1>4, Parts, ReportKept DEF Reported
<1>9. QED
  BY <1>1, <1>2, <1>4, <1>6, <1>7, <1>8, FrameKeeps DEF Playing

\* The loop of the watch ends, by itself or by an error.
LEMMA WatchKeeps ==
    ASSUME IInv, Watch \/ WatchRaises
    PROVE  IInv' /\ Kept
<1>1. InboxInv' /\ Kept /\ bundle' = bundle /\ derived' = derived /\ tool' = tool
  BY InboxStays DEF Watch, WatchRaises
<1>2. /\ UNCHANGED Frame /\ main' = main /\ mode' = mode /\ current' = current
      /\ shown' = shown \/ shown' = "running"
  BY DEF Watch, WatchRaises, Frame, MainVars, Shows
<1>3. /\ worker.pc = "watching" /\ worker \in WorkerType /\ WorkerInv /\ ShownIsTrue
  BY Parts DEF Watch, WatchRaises, WorkerAt
<1>4. worker' \in WorkerType /\ worker'.pc \in {"handler", "stopping"}
  BY <1>3, WorkerSet, WorkerEnds DEF Watch, WatchRaises, WorkerPc, Guarded
<1>5. current \in Bundle /\ main # "off" /\ bundle[current].pc = "open"
  BY <1>3 DEF WorkerInv, WorkerAt, InState, Playing
<1>6. WorkerInv'
  BY <1>1, <1>2, <1>4, <1>5 DEF WorkerInv, WorkerAt, InState, Playing
<1>7. ShownIsTrue'
  BY <1>1, <1>2, <1>3 DEF ShownIsTrue, InState
<1>8. ReportInv'
  BY <1>1, <1>2, <1>4, Parts, ReportKept DEF Reported
<1>9. QED
  BY <1>1, <1>2, <1>3, <1>4, <1>6, <1>7, <1>8, FrameKeeps DEF Playing

\* capture() examines how Dolphin ended.
LEMMA ExamineKeeps ==
    ASSUME IInv, Examine
    PROVE  IInv' /\ Kept
<1>1. InboxInv' /\ Kept /\ bundle' = bundle /\ derived' = derived /\ tool' = tool
  BY InboxStays DEF Examine
<1>2. /\ UNCHANGED Frame /\ main' = main /\ mode' = mode /\ current' = current
      /\ shown' = shown \/ shown' = "finalizing"
  BY DEF Examine, Frame, MainVars, Shows
<1>3. /\ worker.pc = "examining" /\ worker \in WorkerType /\ WorkerInv /\ ShownIsTrue
  BY Parts DEF Examine, WorkerAt
<1>4. worker' \in WorkerType /\ worker'.pc \in {"handler", "reading"}
  <2>1. CASE Raise
    BY <1>3, <2>1, WorkerEnds
  <2>2. CASE worker' = [worker EXCEPT !.pc = "reading",
                          !.completed = worker.completed \/ Finished(current)]
    <3>1. PICK v \in BOOLEAN : v = (worker.completed \/ Finished(current))
      BY <1>3 DEF WorkerType
    <3>2. worker' = [worker EXCEPT !.pc = "reading", !.completed = v]
      BY <2>2, <3>1
    <3>3. "reading" \in WorkerPc
      BY DEF WorkerPc, Guarded
    <3>4. QED
      BY <1>3, <3>2, <3>3, WorkerSet
  <2>3. QED
    BY <2>1, <2>2 DEF Examine
<1>5. current \in Bundle /\ main # "off" /\ bundle[current].pc = "open"
  BY <1>3 DEF WorkerInv, WorkerAt, InState, Playing
<1>6. WorkerInv'
  BY <1>1, <1>2, <1>4, <1>5 DEF WorkerInv, WorkerAt, InState, Playing
<1>7. ShownIsTrue'
  BY <1>1, <1>2, <1>3 DEF ShownIsTrue, InState
<1>8. ReportInv'
  BY <1>1, <1>2, <1>4, Parts, ReportKept DEF Reported
<1>9. QED
  BY <1>1, <1>2, <1>3, <1>4, <1>6, <1>7, <1>8, FrameKeeps DEF Playing

\* capture() reads the observer's records into the bundle.
LEMMA ReadKeeps ==
    ASSUME IInv, ReadRecord \/ ReadGap
    PROVE  IInv' /\ Kept
<1>1. /\ UNCHANGED Frame /\ main' = main /\ mode' = mode /\ current' = current /\ shown' = shown
  BY DEF ReadRecord, ReadGap, Frame, MainVars
<1>2. /\ worker.pc = "reading" /\ worker \in WorkerType /\ WorkerInv /\ InboxInv /\ ShownIsTrue
  BY Parts DEF ReadRecord, ReadGap, WorkerAt
<1>3. current \in Bundle /\ main # "off" /\ bundle[current].pc = "open"
  BY <1>2 DEF WorkerInv, WorkerAt, InState, Playing
<1>4. \/ \E kind \in {"event", "end", "fault"} : AppendRecord(current, kind)
      \/ AppendRejected(current) \/ AppendGap(current)
  BY DEF ReadRecord, ReadGap, NextKind
<1>5. InboxInv' /\ Kept /\ derived' = derived /\ tool' = tool
  BY <1>2, <1>3, <1>4, SessionsDiffer, BundleStepKeeps, WritersLeaveReports DEF BundleStep
<1>6. OthersStay(current) /\ bundle'[current].pc = "open"
  BY <1>2, <1>3, <1>4, BundleGoes
<1>7. worker' \in WorkerType /\ worker'.pc \in {"handler", "reading"}
  BY <1>2, WorkerEnds DEF ReadRecord, ReadGap
<1>8. WorkerInv'
  BY <1>1, <1>3, <1>6, <1>7 DEF WorkerInv, WorkerAt, InState, Playing
<1>9. ShownIsTrue'
  BY <1>1, <1>2, <1>3, <1>5, <1>6 DEF ShownIsTrue, InState, Closed
<1>10. \A b \in Bundle : bundle'[b] = bundle[b] \/ bundle'[b].pc \notin Sealing \cup {"accepted"}
  BY <1>6 DEF OthersStay, Sealing
<1>11. ReportInv'
  BY <1>1, <1>5, <1>7, Parts, ReportKept DEF Reported
<1>12. QED
  BY <1>1, <1>2, <1>5, <1>7, <1>8, <1>9, <1>10, <1>11, FrameKeeps DEF Playing

\* capture() closes the bundle, of a Dolphin that finished and was stopped, or fails it.
LEMMA ReadEndsKeeps ==
    ASSUME IInv, ReadEnds
    PROVE  IInv' /\ Kept
<1>1. /\ UNCHANGED Frame /\ main' = main /\ mode' = mode /\ current' = current
  BY DEF ReadEnds, Frame, MainVars
<1>2. /\ worker.pc = "reading" /\ worker \in WorkerType /\ WorkerInv /\ InboxInv /\ ShownIsTrue
      /\ DolphinInv
  BY Parts DEF ReadEnds, WorkerAt
<1>3. current \in Bundle /\ main # "off" /\ bundle[current].pc = "open" /\ ~Alive(current)
  BY <1>2 DEF WorkerInv, DolphinInv, WorkerAt, InState, Playing
<1>4. \/ UNCHANGED inboxVars /\ Raise /\ shown' = shown
      \/ Close(current) /\ Finished(current) /\ WorkerGoes("completing") /\ shown' = shown
      \/ /\ FailBundle(current) /\ shown' \in {shown, "incomplete"}
         /\ WorkerGoes("finally") \/ Raise
  BY DEF ReadEnds, Shows
<1>5. InboxInv' /\ Kept /\ derived' = derived /\ tool' = tool
  BY <1>2, <1>3, <1>4, SessionsDiffer, BundleStepKeeps, WritersLeaveReports, InboxStays
     DEF BundleStep
<1>6. /\ OthersStay(current) /\ worker' \in WorkerType
      /\ \/ /\ bundle'[current].pc = "open"
            /\ worker'.pc = "handler" /\ shown' = shown
         \/ /\ bundle'[current].pc = "validating" /\ Finished(current)
            /\ worker'.pc = "completing" /\ shown' = shown
         \/ /\ bundle'[current].pc = "rejected"
            /\ worker'.pc \in {"finally", "handler"} /\ shown' \in {shown, "incomplete"}
  <2>1. "completing" \in WorkerPc /\ "finally" \in WorkerPc
    BY DEF WorkerPc, Guarded
  <2>2. CASE UNCHANGED inboxVars /\ Raise /\ shown' = shown
    BY <1>2, <1>3, <2>2, InboxStays, WorkerEnds DEF OthersStay
  <2>3. CASE Close(current) /\ Finished(current) /\ WorkerGoes("completing") /\ shown' = shown
    BY <1>2, <1>3, <2>1, <2>3, BundleGoes, WorkerSet
  <2>4. CASE /\ FailBundle(current) /\ shown' \in {shown, "incomplete"}
             /\ WorkerGoes("finally") \/ Raise
    BY <1>2, <1>3, <2>1, <2>4, BundleGoes, WorkerSet, WorkerEnds
  <2>5. QED
    BY <1>4, <2>2, <2>3, <2>4
<1>7. WorkerInv'
  BY <1>1, <1>3, <1>6 DEF WorkerInv, WorkerAt, InState, Playing, Sealing, Closed
<1>8. ShownIsTrue'
  BY <1>1, <1>2, <1>3, <1>5, <1>6 DEF ShownIsTrue, InState, Closed
<1>9. \A b \in Bundle : \/ bundle'[b] = bundle[b]
                        \/ bundle'[b].pc \notin Sealing \cup {"accepted"}
                        \/ Finished(b) /\ ~Alive(b)
  BY <1>3, <1>6 DEF OthersStay, Sealing
<1>10. worker'.pc \in {"handler", "completing", "finally"}
  BY <1>6
<1>11. ReportInv'
  BY <1>1, <1>5, <1>6, <1>10, Parts, ReportKept DEF Reported
<1>12. QED
  BY <1>1, <1>5, <1>6, <1>7, <1>8, <1>9, <1>10, <1>11, FrameKeeps DEF Playing

\* complete(): accepted, or raised.
LEMMA CompleteKeeps ==
    ASSUME IInv, Complete
    PROVE  IInv' /\ Kept
<1>1. /\ UNCHANGED Frame /\ main' = main /\ mode' = mode /\ current' = current /\ shown' = shown
  BY DEF Complete, Frame, MainVars
<1>2. /\ worker.pc = "completing" /\ worker \in WorkerType /\ WorkerInv /\ InboxInv /\ ShownIsTrue
      /\ SealedInv
  BY Parts DEF Complete, WorkerAt
<1>3. current \in Bundle /\ main # "off" /\ bundle[current].pc \in Sealing
  BY <1>2 DEF WorkerInv, WorkerAt
<1>4. CompleteStep(current)
  BY DEF Complete
<1>5. InboxInv' /\ Kept /\ derived' = derived /\ tool' = tool
  BY <1>2, <1>3, <1>4, SessionsDiffer, BundleStepKeeps, WritersLeaveReports DEF BundleStep
<1>6. /\ OthersStay(current)
      /\ bundle'[current].pc \in Sealing \cup {"accepted", "rejected", "raised"}
  BY <1>2, <1>3, <1>4, BundleGoes
<1>7. Finished(current) /\ ~Alive(current)
  BY <1>2, <1>3 DEF SealedInv
<1>8. \/ bundle'[current].pc = "accepted" /\ WorkerGoes("announcing")
      \/ bundle'[current].pc \in {"rejected", "raised"} /\ Raise
      \/ bundle'[current].pc \in Sealing /\ worker' = worker
  BY <1>6 DEF Complete, Sealing
<1>9. /\ worker' \in WorkerType
      /\ \/ bundle'[current].pc = "accepted" /\ worker'.pc = "announcing"
         \/ bundle'[current].pc \in {"rejected", "raised"} /\ worker'.pc = "handler"
         \/ bundle'[current].pc \in Sealing /\ worker'.pc = "completing"
  <2>1. "announcing" \in WorkerPc
    BY DEF WorkerPc, Guarded
  <2>2. QED
    BY <1>2, <1>8, <2>1, WorkerSet, WorkerEnds
<1>10. WorkerInv'
  BY <1>1, <1>3, <1>9 DEF WorkerInv, WorkerAt, InState, Playing, Sealing, Closed
<1>11. bundle[current].pc \notin Closed
  BY <1>3 DEF Sealing, Closed
<1>12. ShownIsTrue'
  BY <1>1, <1>2, <1>3, <1>5, <1>11 DEF ShownIsTrue, InState, Closed
<1>13. \A b \in Bundle : bundle'[b] = bundle[b] \/ (Finished(b) /\ ~Alive(b))
  BY <1>6, <1>7 DEF OthersStay
<1>14. worker'.pc \in {"announcing", "handler", "completing"}
  BY <1>9
<1>15. ReportInv'
  BY <1>1, <1>5, <1>14, Parts, ReportKept
<1>16. QED
  BY <1>1, <1>5, <1>9, <1>10, <1>12, <1>13, <1>14, <1>15, FrameKeeps DEF Playing

\* The accepted bundle is announced, or an error comes between.
LEMMA AnnounceKeeps ==
    ASSUME IInv, Announce
    PROVE  IInv' /\ Kept
<1>1. InboxInv' /\ Kept /\ bundle' = bundle /\ derived' = derived /\ tool' = tool
  BY InboxStays DEF Announce
<1>2. /\ UNCHANGED Frame /\ main' = main /\ mode' = mode /\ current' = current
      /\ shown' \in {shown, "accepted"}
  BY DEF Announce, Frame, MainVars, Shows
<1>3. /\ worker.pc = "announcing" /\ worker \in WorkerType /\ WorkerInv /\ ShownIsTrue
  BY Parts DEF Announce, WorkerAt
<1>4. worker' \in WorkerType /\ worker'.pc \in {"handler", "comparing", "finally"}
  <2>1. "comparing" \in WorkerPc /\ "finally" \in WorkerPc
    BY DEF WorkerPc, Guarded
  <2>2. QED
    BY <1>3, <2>1, WorkerSet, WorkerEnds DEF Announce
<1>5. current \in Bundle /\ main # "off" /\ bundle[current].pc = "accepted"
  BY <1>3 DEF WorkerInv, WorkerAt, InState
<1>6. WorkerInv'
  BY <1>1, <1>2, <1>4, <1>5 DEF WorkerInv, WorkerAt, InState, Playing, Closed
<1>7. ShownIsTrue'
  BY <1>1, <1>2, <1>3, <1>5 DEF ShownIsTrue, InState, Closed
<1>8. ReportInv'
  BY <1>1, <1>2, <1>4, Parts, ReportKept DEF Reported
<1>9. QED
  BY <1>1, <1>2, <1>4, <1>6, <1>7, <1>8, FrameKeeps DEF Playing

\* What the application derives from, and what it has stored when it shows a report.
LEMMA CompareReports ==
    ASSUME InboxInv, worker \in WorkerType, Compare \/ Derive, SessionOf[current] \in Session,
           WorkerAt("deriving") =>
              tool[AppTool] # Idle /\ tool[AppTool].session = SessionOf[current]
    PROVE  /\ worker'.pc = "deriving" =>
                 tool'[AppTool] # Idle /\ tool'[AppTool].session = SessionOf[current]
           /\ \/ /\ shown' \in {shown, "replay_comparison_failed"}
                 /\ \A s \in Session : derived[s].source # NoManifest => derived'[s] = derived[s]
              \/ /\ derived'[SessionOf[current]].source # NoManifest
                 /\ derived'[SessionOf[current]].by = AppTool
<1>1. /\ AppTool \in Tool /\ tool \in ToolStates /\ derived \in DerivedStates
      /\ CommandOf(AppTool)
  BY CaptureAssumption, CommandTyped
<1>2. \A states : Reports(states) => worker'.pc \in {"finally", "handler"} /\ shown' \in states
  <2>1. "finally" \in WorkerPc
    BY DEF WorkerPc
  <2>2. QED
    BY <2>1, WorkerSet, WorkerEnds DEF Reports
<1>3. CASE Compare
  <2>1. CASE StartDerive(AppTool, SessionOf[current], "accepted") /\ shown' = shown
    <3>1. PICK c : /\ tool' = [tool EXCEPT ![AppTool] = c]
                   /\ c.pc = "waiting" /\ c.session = SessionOf[current]
      <4>1. PICK m : m = IF "derive" = "derive" THEN At(SessionOf[current], "accepted").manifest
                         ELSE NoManifest
        OBVIOUS
      <4>2. PICK c : c = [pc |-> "waiting", op |-> "derive", session |-> SessionOf[current],
                          from |-> "accepted", to |-> "accepted", seen |-> m]
        OBVIOUS
      <4>3. tool' = [tool EXCEPT ![AppTool] = c]
        BY <2>1, <4>1, <4>2 DEF StartDerive, Command
      <4>4. c.pc = "waiting" /\ c.session = SessionOf[current]
        BY <4>2
      <4>5. QED
        BY <4>3, <4>4
    <3>2. tool'[AppTool] = c /\ c # Idle
      BY <1>1, <3>1, CommandIsBusy DEF ToolStates
    <3>3. QED
      BY <2>1, <3>1, <3>2 DEF StartDerive
  <2>2. CASE Reports({"replay_comparison_failed"}) /\ UNCHANGED inboxVars
    BY <1>2, <2>2 DEF inboxVars
  <2>3. QED
    BY <1>3, <2>1, <2>2 DEF Compare
<1>4. CASE Derive
  <2>1. /\ CommandStep(AppTool) /\ tool[AppTool] # Idle
        /\ tool[AppTool].session = SessionOf[current]
    BY <1>4 DEF Derive
  <2>2. \A s \in Session : derived[s].source # NoManifest => derived'[s] = derived[s]
    BY <1>1, <2>1, ReportsStay DEF ToolStep
  <2>3. tool'[AppTool] # Idle => shown' = shown
    BY <1>4 DEF Derive
  <2>4. /\ tool'[AppTool] = Idle => worker'.pc \in {"finally", "handler"}
        /\ tool'[AppTool] = Idle /\ tool[AppTool].pc = "locked" =>
              shown' = "replay_comparison_failed"
    BY <1>2, <1>4 DEF Derive
  <2>5. ASSUME NEW pc \in {"locked", "checked", "wrote"},
               tool' = [tool EXCEPT ![AppTool].pc = pc]
        PROVE  tool'[AppTool] # Idle /\ tool'[AppTool].session = SessionOf[current]
    BY <1>1, <2>1, <2>5, ToolGoes
  <2>6. CASE WriteDerivedManifest(AppTool)
    <3>1. PICK s, m : s = SessionOf[current] /\ m = tool[AppTool].seen
      OBVIOUS
    <3>2. /\ tool[AppTool].pc = "wrote" /\ tool' = [tool EXCEPT ![AppTool] = Idle]
          /\ derived' = [derived EXCEPT ![s].source = m, ![s].by = AppTool]
      BY <2>1, <2>6, <3>1 DEF WriteDerivedManifest
    <3>3. m # NoManifest
      BY <1>1, <2>1, <3>1, <3>2 DEF CommandOf
    <3>4. PICK r : r = [derived[s] EXCEPT !.source = m, !.by = AppTool]
      OBVIOUS
    <3>5. derived' = [derived EXCEPT ![s] = r]
      BY <3>2, <3>4
    <3>6. r.source = m /\ r.by = AppTool /\ s \in Session
      BY <1>1, <3>1, <3>4 DEF DerivedStates
    <3>7. derived'[s].source # NoManifest /\ derived'[s].by = AppTool
      BY <1>1, <3>3, <3>5, <3>6 DEF DerivedStates
    <3>8. tool'[AppTool] = Idle
      BY <1>1, <3>2 DEF ToolStates
    <3>9. QED
      BY <2>4, <3>1, <3>7, <3>8
  <2>7. CASE EnterCommand(AppTool) \/ WriteArtifact(AppTool)
    <3>1. PICK pc \in {"locked", "wrote"} : tool' = [tool EXCEPT ![AppTool].pc = pc]
      BY <2>7 DEF EnterCommand, WriteArtifact
    <3>2. QED
      BY <2>2, <2>3, <2>5, <3>1
  <2>8. CASE MoveDirectory(AppTool) \/ CheckDerived(AppTool)
    <3>1. /\ tool[AppTool].pc = "locked"
          /\ \/ tool' = [tool EXCEPT ![AppTool].pc = "checked"]
             \/ tool' = [tool EXCEPT ![AppTool] = Idle]
      BY <2>8 DEF MoveDirectory, CheckDerived
    <3>2. CASE tool' = [tool EXCEPT ![AppTool].pc = "checked"]
      BY <2>2, <2>3, <2>5, <3>2
    <3>3. CASE tool' = [tool EXCEPT ![AppTool] = Idle]
      <4>1. tool'[AppTool] = Idle
        BY <1>1, <3>3 DEF ToolStates
      <4>2. QED
        BY <2>2, <2>4, <3>1, <4>1
    <3>4. QED
      BY <3>1, <3>2, <3>3
  <2>9. QED
    BY <2>1, <2>6, <2>7, <2>8 DEF CommandStep
<1>5. QED
  BY <1>3, <1>4

\* The accepted bundle is compared, and what comes of it stored.
LEMMA CompareKeeps ==
    ASSUME IInv, Compare \/ Derive
    PROVE  IInv' /\ Kept
<1>1. /\ UNCHANGED Frame /\ main' = main /\ mode' = mode /\ current' = current
  BY DEF Compare, Derive, Frame, MainVars
<1>2. /\ worker.pc \in {"comparing", "deriving"} /\ worker \in WorkerType /\ WorkerInv /\ InboxInv
      /\ ShownIsTrue /\ ReportInv
  BY Parts DEF Compare, Derive, WorkerAt
<1>3. /\ current \in Bundle /\ main # "off" /\ bundle[current].pc = "accepted"
      /\ AppTool \in Tool /\ SessionOf[current] \in Session
  BY <1>2, CaptureAssumption, InboxAssumption DEF WorkerInv, WorkerAt, InState
<1>4. ToolStep(AppTool) \/ UNCHANGED inboxVars
  BY <1>3 DEF Compare, Derive, ToolStep, StartCommand, Finalized
<1>5. InboxInv' /\ Kept /\ bundle' = bundle
  BY <1>2, <1>3, <1>4, ToolStepKeeps, InboxStays, CommandsLeaveBundles
<1>6. worker' \in WorkerType /\ worker'.pc \in {"deriving", "finally", "handler"}
  <2>1. "deriving" \in WorkerPc /\ "finally" \in WorkerPc
    BY DEF WorkerPc, Guarded
  <2>2. CASE Compare
    BY <1>2, <2>1, <2>2, WorkerSet, WorkerEnds DEF Compare, Reports
  <2>3. CASE Derive
    BY <1>2, <2>1, <2>3, WorkerSet, WorkerEnds DEF Derive, Reports, WorkerAt
  <2>4. QED
    BY <2>2, <2>3
<1>7. WorkerInv'
  BY <1>1, <1>3, <1>5, <1>6 DEF WorkerInv, WorkerAt, InState, Playing, Closed
<1>8. /\ worker'.pc = "deriving" =>
            tool'[AppTool] # Idle /\ tool'[AppTool].session = SessionOf[current]
      /\ \/ /\ shown' \in {shown, "replay_comparison_failed"}
            /\ \A s \in Session : derived[s].source # NoManifest => derived'[s] = derived[s]
         \/ /\ derived'[SessionOf[current]].source # NoManifest
            /\ derived'[SessionOf[current]].by = AppTool
  BY <1>2, <1>3, CompareReports DEF WorkerAt, ReportInv
<1>9. ReportInv'
  BY <1>1, <1>2, <1>3, <1>8 DEF ReportInv, Reported, WorkerAt
<1>10. ShownIsTrue'
  BY <1>1, <1>2, <1>3, <1>5, <1>8 DEF ShownIsTrue, ReportInv, Reported, InState, Closed
<1>11. QED
  BY <1>1, <1>5, <1>6, <1>7, <1>9, <1>10, FrameKeeps DEF Playing

\* The handler fails an open bundle.
LEMMA FailingKeeps ==
    ASSUME IInv, Failing
    PROVE  IInv' /\ Kept
<1>1. /\ UNCHANGED Frame /\ main' = main /\ mode' = mode /\ current' = current
      /\ shown' \in {shown, "incomplete", "failed"}
  BY DEF Failing, Frame, MainVars, Shows
<1>2. /\ worker.pc = "failing" /\ worker \in WorkerType /\ WorkerInv /\ InboxInv /\ ShownIsTrue
  BY Parts DEF Failing, WorkerAt
<1>3. current \in Bundle /\ main # "off" /\ bundle[current].pc \in Closed \cup {"open"}
  BY <1>2 DEF WorkerInv, WorkerAt
<1>4. \/ bundle[current].pc = "open" /\ FailBundle(current)
      \/ bundle[current].pc # "open" /\ UNCHANGED inboxVars
  BY DEF Failing, InState
<1>5. InboxInv' /\ Kept /\ derived' = derived /\ tool' = tool
  BY <1>2, <1>3, <1>4, SessionsDiffer, BundleStepKeeps, WritersLeaveReports, InboxStays
     DEF BundleStep
<1>6. \/ bundle' = bundle /\ bundle[current].pc \in Closed
      \/ /\ OthersStay(current) /\ bundle'[current].pc = "rejected"
         /\ bundle[current].pc = "open"
  BY <1>2, <1>3, <1>4, BundleGoes, InboxStays
<1>7. worker' \in WorkerType /\ worker'.pc = "finally"
  <2>1. "finally" \in WorkerPc
    BY DEF WorkerPc
  <2>2. QED
    BY <1>2, <2>1, WorkerSet DEF Failing
<1>8. WorkerInv'
  BY <1>1, <1>3, <1>7 DEF WorkerInv, WorkerAt, Playing
<1>9. bundle'[current].pc \in Closed /\ (bundle[current].pc = "accepted" => bundle' = bundle)
  BY <1>6 DEF Closed
<1>10. ShownIsTrue'
  BY <1>1, <1>2, <1>3, <1>5, <1>9 DEF ShownIsTrue, InState
<1>11. \A b \in Bundle : bundle'[b] = bundle[b] \/ bundle'[b].pc \notin Sealing \cup {"accepted"}
  BY <1>6 DEF OthersStay, Sealing
<1>12. ReportInv'
  BY <1>1, <1>5, <1>7, Parts, ReportKept DEF Reported
<1>13. QED
  BY <1>1, <1>5, <1>7, <1>8, <1>10, <1>11, <1>12, FrameKeeps DEF Playing

\* _spawn_owned: no Dolphin is started once the stop flag is set.
LEMMA SpawnKeeps ==
    ASSUME IInv, Spawn
    PROVE  IInv' /\ Kept
<1>1. InboxInv' /\ Kept /\ bundle' = bundle /\ derived' = derived /\ tool' = tool
  BY InboxStays DEF Spawn
<1>2. /\ mode' = mode /\ main' = main /\ appLock' = appLock /\ raw' = raw /\ current' = current
      /\ stopRequested' = stopRequested /\ process' = process /\ shown' = shown
  BY DEF Spawn, MainVars
<1>3. /\ worker.pc = "spawning" /\ worker \in WorkerType /\ WorkerInv /\ CaptureType /\ SealedInv
      /\ DolphinInv /\ ProcessInv /\ ShownIsTrue
  BY Parts DEF Spawn, WorkerAt
<1>4. current \in Bundle /\ main # "off" /\ bundle[current].pc = "open"
  BY <1>3 DEF WorkerInv, WorkerAt, InState
<1>5. CASE stopRequested /\ worker' = [worker EXCEPT !.pc = "handler", !.cancelled = TRUE]
           /\ UNCHANGED <<processLock, dolphin>>
  <2>1. worker' \in WorkerType /\ worker'.pc = "handler"
    BY <1>3, <1>5, WorkerSet DEF WorkerPc
  <2>2. CaptureType' /\ SealedInv'
    BY <1>1, <1>2, <1>3, <1>5, <2>1 DEF CaptureType, SealedInv, Finished, Alive
  <2>3. WorkerInv' /\ DolphinInv'
    BY <1>1, <1>2, <1>4, <2>1 DEF WorkerInv, DolphinInv, WorkerAt, InState, Playing
  <2>4. ProcessInv'
    BY <1>2, <1>3, <1>5, <2>1 DEF ProcessInv, WorkerAt, OwnsLive, Alive
  <2>5. ShownIsTrue'
    BY <1>1, <1>2, <1>3 DEF ShownIsTrue, InState
  <2>6. ReportInv'
    BY <1>1, <1>2, <2>1, Parts, ReportKept
  <2>7. QED
    BY <1>1, <2>2, <2>3, <2>4, <2>5, <2>6 DEF IInv, CaptureInv
<1>6. CASE ~stopRequested /\ WorkerGoes("spawned") /\ processLock' = "worker"
           /\ dolphin' = [dolphin EXCEPT ![current] = "running"]
  <2>1. worker' \in WorkerType /\ worker'.pc = "spawned"
    BY <1>3, <1>6, WorkerSet DEF WorkerPc, Guarded
  <2>2. dolphin' \in DolphinStates /\ \A b \in Bundle : b # current => dolphin'[b] = dolphin[b]
    BY <1>3, <1>6 DEF CaptureType, DolphinStates
  <2>3. CaptureType'
    BY <1>2, <1>3, <1>6, <2>1, <2>2 DEF CaptureType, Thread
  <2>4. SealedInv'
    BY <1>1, <1>2, <1>3, <1>4, <2>2 DEF SealedInv, Finished, Alive, Sealing
  <2>5. WorkerInv' /\ DolphinInv'
    BY <1>1, <1>2, <1>4, <2>1 DEF WorkerInv, DolphinInv, WorkerAt, InState, Playing
  <2>6. ProcessInv'
    BY <1>2, <1>3, <1>6, <2>1 DEF ProcessInv, WorkerAt
  <2>7. ShownIsTrue'
    BY <1>1, <1>2, <1>3 DEF ShownIsTrue, InState
  <2>8. ReportInv'
    BY <1>1, <1>2, <2>1, Parts, ReportKept
  <2>9. QED
    BY <1>1, <2>3, <2>4, <2>5, <2>6, <2>7, <2>8 DEF IInv, CaptureInv
<1>7. QED
  BY <1>5, <1>6 DEF Spawn

\* The started process is held; close() is waiting for the lock until then.
LEMMA HoldProcessKeeps ==
    ASSUME IInv, HoldProcess
    PROVE  IInv' /\ Kept
<1>1. InboxInv' /\ Kept /\ bundle' = bundle /\ derived' = derived /\ tool' = tool
  BY InboxStays DEF HoldProcess
<1>2. /\ mode' = mode /\ main' = main /\ appLock' = appLock /\ raw' = raw /\ dolphin' = dolphin
      /\ current' = current /\ stopRequested' = stopRequested /\ shown' = shown
      /\ process' = current /\ processLock' = Nothing
  BY DEF HoldProcess, MainVars, External
<1>3. /\ worker.pc = "spawned" /\ worker \in WorkerType /\ WorkerInv /\ CaptureType /\ SealedInv
      /\ ProcessInv /\ ShownIsTrue
  BY Parts DEF HoldProcess, WorkerAt
<1>4. current \in Bundle /\ main # "off" /\ bundle[current].pc = "open" /\ main # "joining"
  BY <1>3 DEF WorkerInv, ProcessInv, WorkerAt, InState
<1>5. worker' \in WorkerType /\ worker'.pc = "watching"
  BY <1>3, WorkerSet DEF HoldProcess, WorkerPc, Guarded
<1>6. CaptureType' /\ SealedInv'
  BY <1>1, <1>2, <1>3, <1>4, <1>5 DEF CaptureType, SealedInv, Finished, Alive
<1>7. WorkerInv' /\ DolphinInv'
  BY <1>1, <1>2, <1>4, <1>5 DEF WorkerInv, DolphinInv, WorkerAt, InState, Playing
<1>8. ProcessInv'
  BY <1>2, <1>3, <1>4, <1>5 DEF ProcessInv, WorkerAt, Nothing
<1>9. ShownIsTrue'
  BY <1>1, <1>2, <1>3 DEF ShownIsTrue, InState
<1>10. ReportInv'
  BY <1>1, <1>2, <1>5, Parts, ReportKept DEF Reported
<1>11. QED
  BY <1>1, <1>6, <1>7, <1>8, <1>9, <1>10 DEF IInv, CaptureInv

\* The handle is dropped, unless its process lives.
LEMMA ReceiptKeeps ==
    ASSUME IInv, Receipt
    PROVE  IInv' /\ Kept
<1>1. InboxInv' /\ Kept /\ bundle' = bundle /\ derived' = derived /\ tool' = tool
  BY InboxStays DEF Receipt
<1>2. /\ mode' = mode /\ main' = main /\ appLock' = appLock /\ raw' = raw /\ dolphin' = dolphin
      /\ current' = current /\ stopRequested' = stopRequested
      /\ processLock' = processLock /\ process' = IF OwnsLive THEN process ELSE Nothing
  BY DEF Receipt, MainVars, External
<1>3. /\ WorkerInv /\ CaptureType /\ SealedInv /\ ProcessInv /\ ShownIsTrue
  BY Parts
<1>4. worker' \in WorkerType /\ worker'.pc = "idle" /\ shown' \in {shown, "failed"}
  BY WorkerEnds, Parts DEF Receipt
<1>5. CaptureType'
  BY <1>2, <1>3, <1>4 DEF CaptureType
<1>6. SealedInv'
  BY <1>1, <1>2, <1>3 DEF SealedInv, Finished, Alive
<1>7. WorkerInv' /\ DolphinInv'
  BY <1>4 DEF WorkerInv, DolphinInv, WorkerAt, Playing
<1>8. ProcessInv'
  BY <1>2, <1>3, <1>4 DEF ProcessInv, WorkerAt, OwnsLive, Alive
<1>9. ShownIsTrue'
  BY <1>1, <1>2, <1>3, <1>4 DEF ShownIsTrue, InState
<1>10. ReportInv'
  BY <1>1, <1>2, <1>4, Parts, ReportKept DEF Reported
<1>11. QED
  BY <1>1, <1>5, <1>6, <1>7, <1>8, <1>9, <1>10 DEF IInv, CaptureInv

-----------------------------------------------------------------------------
(* _terminate_owned.                                                       *)

\* When it returns, nothing of the supervisor's runs.
LEMMA AfterKeeps ==
    ASSUME IInv, NEW th, NEW pc, <<th, pc>> \in TerminatePlace, Terminating(th, pc),
           NEW wasAlive \in BOOLEAN, After(th, pc, wasAlive), UNCHANGED TerminateFrame,
           dolphin' \in DolphinStates,
           \A b \in Bundle : Alive(b)' => Alive(b),
           ~OwnsLive', processLock' = Nothing,
           th = "main" => ~WorkerAt("spawned"),
           th = "worker" \/ processLock # "worker"
    PROVE  IInv' /\ Kept
<1>1. InboxInv' /\ Kept /\ bundle' = bundle /\ derived' = derived /\ tool' = tool
  BY InboxStays DEF TerminateFrame
<1>2. /\ mode' = mode /\ appLock' = appLock /\ raw' = raw /\ current' = current
      /\ stopRequested' = stopRequested /\ process' = process /\ shown' = shown
  BY DEF TerminateFrame
<1>3. /\ worker \in WorkerType /\ WorkerInv /\ CaptureType /\ SealedInv
      /\ DolphinInv /\ ProcessInv /\ ShownIsTrue /\ Nothing \notin Bundle
  BY Parts
<1>4. SealedInv'
  BY <1>1, <1>2, <1>3 DEF SealedInv, Finished
<1>5. ShownIsTrue'
  BY <1>1, <1>2, <1>3 DEF ShownIsTrue, InState
<1>6. CASE th = "main"
  <2>1. main = "closing" /\ main' = "joining" /\ worker' = worker
    BY <1>6 DEF After, Terminating, TerminatePlace
  <2>2. CaptureType'
    BY <1>2, <1>3, <2>1 DEF CaptureType
  <2>3. WorkerInv'
    BY <1>1, <1>2, <1>3, <2>1 DEF WorkerInv, WorkerAt, InState
  <2>4. DolphinInv'
    <3>1. worker.pc \in {"examining", "reading"} => current \in Bundle
      BY <1>3 DEF WorkerInv, WorkerAt
    <3>2. QED
      BY <1>2, <1>3, <2>1, <3>1 DEF DolphinInv
  <2>5. ProcessInv'
    BY <1>2, <1>3, <1>6, <2>1 DEF ProcessInv, WorkerAt, Nothing
  <2>6. ReportInv'
    BY <1>1, <1>2, <2>1, Parts, ReportKept
  <2>7. QED
    BY <1>1, <1>4, <1>5, <2>2, <2>3, <2>4, <2>5, <2>6 DEF IInv, CaptureInv
<1>7. CASE th = "worker"
  <2>1. /\ main' = main /\ worker.pc = pc /\ pc \in {"stopping", "handler", "finally"}
        /\ pc \in WorkerPc
    BY <1>7 DEF After, Terminating, TerminatePlace, WorkerAt, WorkerPc, Guarded
  <2>2. PICK k \in BOOLEAN : k = (pc = "stopping" /\ wasAlive)
    OBVIOUS
  <2>3. /\ worker' \in WorkerType
        /\ \/ pc = "stopping" /\ worker'.pc = "examining"
           \/ pc = "handler" /\ worker'.pc = "failing"
           \/ pc = "finally" /\ worker'.pc = "receipt"
    <3>1. PICK q : q = CASE pc = "stopping" -> "examining"
                         [] pc = "handler"  -> "failing"
                         [] pc = "finally"  -> "receipt"
      OBVIOUS
    <3>2. \/ pc = "stopping" /\ q = "examining"
          \/ pc = "handler" /\ q = "failing"
          \/ pc = "finally" /\ q = "receipt"
      BY <2>1, <3>1
    <3>3. q \in WorkerPc
      BY <3>2 DEF WorkerPc, Guarded
    <3>4. worker' = [worker EXCEPT !.killed = k, !.pc = q]
      BY <1>7, <2>2, <3>1 DEF After
    <3>5. worker' \in WorkerType /\ worker'.pc = q
      BY <1>3, <3>3, <3>4, WorkerSet
    <3>6. QED
      BY <3>2, <3>5
  <2>4. /\ current \in Bundle /\ main # "off"
        /\ pc = "stopping" => bundle[current].pc = "open" /\ process = current
        /\ pc = "handler" => bundle[current].pc \in Closed \cup {"open"}
    BY <1>3, <2>1 DEF WorkerInv, DolphinInv, WorkerAt, InState, Playing
  <2>5. CaptureType'
    BY <1>2, <1>3, <2>1, <2>3 DEF CaptureType
  <2>6. WorkerInv'
    BY <1>1, <1>2, <2>1, <2>3, <2>4 DEF WorkerInv, WorkerAt, InState, Playing
  <2>7. DolphinInv'
    <3>1. pc = "stopping" => process' = current /\ ~Alive(process)'
      BY <1>2, <1>3, <2>4 DEF OwnsLive
    <3>2. pc = "stopping" => ~Alive(current)'
      BY <1>2, <2>4, <3>1 DEF Alive
    <3>3. QED
      BY <1>2, <2>3, <3>1, <3>2 DEF DolphinInv, Playing
  <2>8. ProcessInv'
    BY <1>2, <1>3, <2>1, <2>3 DEF ProcessInv, WorkerAt, Nothing
  <2>9. ReportInv'
    BY <1>1, <1>2, <2>1, <2>3, Parts, ReportKept
  <2>10. QED
    BY <1>1, <1>4, <1>5, <2>5, <2>6, <2>7, <2>8, <2>9 DEF IInv, CaptureInv
<1>8. QED
  BY <1>6, <1>7 DEF TerminatePlace

\* Nothing to stop.
LEMMA FindNoProcessKeeps ==
    ASSUME IInv, NEW th, NEW pc, <<th, pc>> \in TerminatePlace, FindNoProcess(th, pc)
    PROVE  IInv' /\ Kept
<1>1. /\ Terminating(th, pc) /\ processLock = Nothing /\ ~OwnsLive /\ After(th, pc, FALSE)
      /\ UNCHANGED <<TerminateFrame, processLock, dolphin>> /\ process' = process
  BY DEF FindNoProcess, TerminateFrame
<1>2. dolphin' \in DolphinStates /\ ProcessInv
  BY <1>1, Parts DEF CaptureType
<1>3. \A b \in Bundle : Alive(b)' => Alive(b)
  BY <1>1 DEF Alive
<1>4. ~OwnsLive'
  BY <1>1 DEF OwnsLive, Alive
<1>5. ~WorkerAt("spawned") /\ processLock # "worker" /\ processLock' = Nothing
  BY <1>1, <1>2 DEF ProcessInv, Nothing
<1>6. QED
  BY <1>1, <1>2, <1>3, <1>4, <1>5, AfterKeeps

\* Dolphin has exited, or SIGKILL has ended it.
LEMMA ReapProcessKeeps ==
    ASSUME IInv, NEW th, NEW pc, <<th, pc>> \in TerminatePlace, ReapProcess(th, pc)
    PROVE  IInv' /\ Kept
<1>1. /\ Terminating(th, pc) /\ processLock = th /\ After(th, pc, TRUE)
      /\ dolphin' = [dolphin EXCEPT ![process] = IF Alive(process) THEN "killed" ELSE @]
      /\ UNCHANGED TerminateFrame /\ process' = process /\ processLock' = Nothing
  BY DEF ReapProcess, TerminateFrame
<1>2. /\ dolphin \in DolphinStates /\ ProcessInv /\ process \in Bundle \cup {Nothing}
      /\ Nothing \notin Bundle
  BY Parts DEF CaptureType
<1>3. /\ dolphin' \in DolphinStates /\ \A b \in Bundle : Alive(b)' => Alive(b)
      /\ process \in Bundle => ~Alive(process)'
  <2>1. CASE process \in Bundle
    <3>1. PICK v : v = IF Alive(process) THEN "killed" ELSE dolphin[process]
      OBVIOUS
    <3>2. v \in {"none", "running", "finished", "exited", "crashed", "killed"}
          /\ v \notin {"running", "finished"}
      BY <1>2, <2>1, <3>1 DEF DolphinStates, Alive
    <3>3. dolphin' = [dolphin EXCEPT ![process] = v]
      BY <1>1, <3>1
    <3>4. /\ dolphin' \in DolphinStates /\ dolphin'[process] = v
          /\ \A b \in Bundle : b # process => dolphin'[b] = dolphin[b]
      BY <1>2, <2>1, <3>2, <3>3 DEF DolphinStates
    <3>5. QED
      BY <1>1, <3>2, <3>4 DEF Alive
  <2>2. CASE process \notin Bundle
    <3>1. DOMAIN dolphin = Bundle /\ dolphin = [b \in Bundle |-> dolphin[b]]
      BY <1>2 DEF DolphinStates
    <3>2. dolphin' = dolphin
      BY <1>1, <2>2, <3>1
    <3>3. QED
      BY <1>2, <2>2, <3>2 DEF Alive
  <2>3. QED
    BY <2>1, <2>2
<1>4. ~OwnsLive'
  BY <1>1, <1>2, <1>3 DEF OwnsLive
<1>5. th \in {"main", "worker"} /\ (th = "main" => ~WorkerAt("spawned"))
  BY <1>1, <1>2 DEF TerminatePlace, ProcessInv
<1>6. th = "worker" \/ processLock # "worker"
  BY <1>1, <1>5
<1>7. QED
  BY <1>1, <1>3, <1>4, <1>5, <1>6, AfterKeeps

\* Dolphin is signalled, under the process lock.
LEMMA SignalProcessKeeps ==
    ASSUME IInv, NEW th, NEW pc, <<th, pc>> \in TerminatePlace, SignalProcess(th, pc)
    PROVE  IInv' /\ Kept
<1>1. /\ Terminating(th, pc) /\ processLock = Nothing /\ OwnsLive /\ processLock' = th
      /\ UNCHANGED <<TerminateFrame, main, worker, dolphin>>
  BY DEF SignalProcess
<1>2. InboxInv' /\ Kept /\ bundle' = bundle /\ derived' = derived /\ tool' = tool
  BY <1>1, InboxStays DEF TerminateFrame
<1>3. /\ mode' = mode /\ main' = main /\ worker' = worker /\ appLock' = appLock /\ raw' = raw
      /\ current' = current /\ stopRequested' = stopRequested /\ process' = process
      /\ shown' = shown /\ dolphin' = dolphin
  BY <1>1 DEF TerminateFrame
<1>4. /\ CaptureType /\ WorkerInv /\ SealedInv /\ DolphinInv /\ ProcessInv /\ ShownIsTrue
  BY Parts
<1>5. th \in Thread /\ (th = "main" => main = "closing")
  BY <1>1 DEF Terminating, TerminatePlace, Thread
<1>6. CaptureType' /\ SealedInv'
  BY <1>2, <1>3, <1>4, <1>5, <1>1 DEF CaptureType, SealedInv, Finished, Alive
<1>7. WorkerInv' /\ DolphinInv'
  BY <1>2, <1>3, <1>4 DEF WorkerInv, DolphinInv, WorkerAt, InState, Alive
<1>8. ProcessInv'
  BY <1>1, <1>3, <1>4, <1>5 DEF ProcessInv, WorkerAt, OwnsLive, Alive, Nothing
<1>9. ShownIsTrue'
  BY <1>2, <1>3, <1>4 DEF ShownIsTrue, InState
<1>10. ReportInv'
  BY <1>2, <1>3, Parts, ReportKept DEF Reported
<1>11. QED
  BY <1>2, <1>6, <1>7, <1>8, <1>9, <1>10 DEF IInv, CaptureInv

-----------------------------------------------------------------------------
(* The main thread, signals and deaths.                                    *)

\* The application starts: no worker is left of the one before.
LEMMA StartKeepsAll ==
    ASSUME IInv, NEW m \in Mode, Start(m)
    PROVE  IInv' /\ Kept
<1>1. InboxInv' /\ Kept /\ bundle' = bundle /\ derived' = derived /\ tool' = tool
  BY InboxStays DEF Start
<1>2. /\ main = "off" /\ mode' = m /\ main' \in {"serving", "capturing"}
      /\ appLock' = "application" /\ stopRequested' = FALSE /\ processLock' = Nothing
      /\ process' = Nothing /\ dolphin' = dolphin /\ raw' = raw
      /\ shown' \in {"stopped", "verifying"}
  BY DEF Start, External, Shows
<1>3. /\ CaptureType /\ WorkerInv /\ SealedInv /\ worker \in WorkerType
  BY Parts
<1>4. worker.pc = "idle"
  BY <1>2, <1>3 DEF WorkerInv, WorkerAt
<1>5. \/ worker' = worker /\ current' = current
      \/ /\ worker' = [Resting EXCEPT !.pc = "verifying"]
         /\ current' \in Bundle /\ bundle[current'].pc = "new"
  BY DEF Start, Unused
<1>6. /\ worker' \in WorkerType
      /\ \/ worker'.pc = "idle" /\ current' = current
         \/ worker'.pc = "verifying" /\ current' \in Bundle /\ bundle[current'].pc = "new"
  BY <1>3, <1>4, <1>5 DEF Resting, WorkerType, WorkerPc
<1>7. CaptureType'
  BY <1>2, <1>3, <1>6 DEF CaptureType
<1>8. SealedInv'
  BY <1>1, <1>2, <1>3 DEF SealedInv, Finished, Alive
<1>9. WorkerInv' /\ DolphinInv'
  BY <1>1, <1>2, <1>6 DEF WorkerInv, DolphinInv, WorkerAt, InState, Playing
<1>10. ProcessInv'
  BY <1>2, <1>6 DEF ProcessInv, WorkerAt, Nothing
<1>11. ShownIsTrue' /\ ReportInv'
  BY <1>2, <1>6 DEF ShownIsTrue, ReportInv, Reported, WorkerAt
<1>12. QED
  BY <1>1, <1>7, <1>8, <1>9, <1>10, <1>11 DEF IInv, CaptureInv

\* A capture is started, by the only worker there is.
LEMMA CommandStartKeeps ==
    ASSUME IInv, CommandStart
    PROVE  IInv' /\ Kept
<1>1. InboxInv' /\ Kept /\ bundle' = bundle /\ derived' = derived /\ tool' = tool
  BY InboxStays DEF CommandStart
<1>2. /\ main = "serving" /\ mode' = mode /\ main' = main /\ appLock' = appLock
      /\ stopRequested' = FALSE /\ processLock' = processLock /\ process' = process
      /\ dolphin' = dolphin /\ raw' = raw /\ shown' = "verifying"
      /\ current' \in Bundle /\ bundle[current'].pc = "new"
  BY DEF CommandStart, MainVars, External, Shows, Unused
<1>3. CaptureType /\ SealedInv /\ ProcessInv
  BY Parts
<1>4. worker' \in WorkerType /\ worker'.pc = "verifying"
  BY DEF CommandStart, Resting, WorkerType, WorkerPc
<1>5. CaptureType' /\ SealedInv'
  BY <1>1, <1>2, <1>3, <1>4 DEF CaptureType, SealedInv, Finished, Alive
<1>6. WorkerInv' /\ DolphinInv'
  BY <1>1, <1>2, <1>4 DEF WorkerInv, DolphinInv, WorkerAt, InState, Playing
<1>7. ProcessInv'
  BY <1>2, <1>3, <1>4 DEF ProcessInv, WorkerAt
<1>8. ShownIsTrue' /\ ReportInv'
  BY <1>2, <1>4 DEF ShownIsTrue, ReportInv, Reported, WorkerAt
<1>9. QED
  BY <1>1, <1>5, <1>6, <1>7, <1>8 DEF IInv, CaptureInv

\* Stopping and quitting set the flag.
LEMMA StopKeeps ==
    ASSUME IInv, CommandStop \/ CommandRefused \/ Quit
    PROVE  IInv' /\ Kept
<1>1. InboxInv' /\ Kept /\ bundle' = bundle /\ derived' = derived /\ tool' = tool
  BY InboxStays DEF CommandStop, CommandRefused, Quit
<1>2. /\ mode' = mode /\ appLock' = appLock /\ worker' = worker /\ current' = current
      /\ stopRequested' \in {stopRequested, TRUE} /\ processLock' = processLock
      /\ process' = process /\ dolphin' = dolphin /\ raw' = raw
      /\ shown' \in {shown, "stopping", "failed"}
      /\ main \in {"serving", "capturing"} /\ main' \in {main, "closing"}
      /\ main' = "closing" => stopRequested' = TRUE
  BY DEF CommandStop, CommandRefused, Quit, MainVars, External, Shows
<1>3. /\ CaptureType /\ WorkerInv /\ SealedInv /\ DolphinInv /\ ProcessInv /\ ShownIsTrue
  BY Parts
<1>4. CaptureType' /\ SealedInv'
  BY <1>1, <1>2, <1>3 DEF CaptureType, SealedInv, Finished, Alive
<1>5. WorkerInv' /\ DolphinInv'
  BY <1>1, <1>2, <1>3 DEF WorkerInv, DolphinInv, WorkerAt, InState, Alive
<1>6. ProcessInv'
  BY <1>2, <1>3 DEF ProcessInv, WorkerAt
<1>7. ShownIsTrue'
  BY <1>1, <1>2, <1>3 DEF ShownIsTrue, InState
<1>8. ReportInv'
  BY <1>1, <1>2, Parts, ReportKept DEF Reported
<1>9. QED
  BY <1>1, <1>4, <1>5, <1>6, <1>7, <1>8 DEF IInv, CaptureInv

\* The application ends: in order, by a signal, or killed.
LEMMA ExitsKeeps ==
    ASSUME IInv, Exits, shown' = shown
    PROVE  IInv' /\ Kept
<1>1. /\ main' = "off" /\ appLock' = Nothing /\ worker' = Resting /\ process' = Nothing
      /\ processLock' = Nothing /\ tool' = [tool EXCEPT ![AppTool] = Idle] /\ Abandoned
      /\ dirs' = dirs /\ derived' = derived /\ diskErrors' = diskErrors
      /\ dolphin' = dolphin /\ raw' = raw
      /\ mode' = mode /\ current' = current /\ stopRequested' = stopRequested
  BY DEF Exits, External
<1>2. /\ CaptureType /\ SealedInv /\ ShownIsTrue /\ InboxInv /\ current \in Bundle \cup {Nothing}
  BY Parts
<1>3. /\ InboxInv' /\ Kept
      /\ \A c \in Bundle : \/ bundle'[c] = bundle[c]
                           \/ bundle'[c].pc = "dead" /\ bundle[c].pc # "accepted"
  BY <1>1, <1>2, AbandonedKeeps
<1>4. worker' \in WorkerType /\ worker'.pc = "idle"
  BY <1>1, Parts, WorkerEnds
<1>5. CaptureType'
  BY <1>1, <1>2, <1>4 DEF CaptureType
<1>6. SealedInv'
  BY <1>1, <1>2, <1>3 DEF SealedInv, Finished, Alive, Sealing
<1>7. WorkerInv' /\ DolphinInv'
  BY <1>4 DEF WorkerInv, DolphinInv, WorkerAt, Playing
<1>8. ProcessInv'
  BY <1>1, <1>4 DEF ProcessInv, WorkerAt, Nothing
<1>9. ShownIsTrue'
  BY <1>1, <1>2, <1>3 DEF ShownIsTrue, InState, Closed
<1>10. ReportInv'
  BY <1>1, <1>4, Parts, ReportKept DEF Reported
<1>11. QED
  BY <1>3, <1>5, <1>6, <1>7, <1>8, <1>9, <1>10 DEF IInv, CaptureInv

\* SystemExit unwinds capture().
LEMMA InterruptCaptureKeeps ==
    ASSUME IInv, InterruptCapture
    PROVE  IInv' /\ Kept
<1>1. /\ mode = "replay" /\ main = "capturing" /\ worker.pc # "idle" /\ Unwinds
      /\ stopRequested' = TRUE /\ dirs' = dirs /\ derived' = derived /\ diskErrors' = diskErrors
      /\ dolphin' = dolphin /\ raw' = raw /\ mode' = mode /\ main' = main /\ appLock' = appLock
      /\ current' = current /\ process' = process /\ shown' = shown
  BY DEF InterruptCapture, WorkerAt, External
<1>2. /\ CaptureType /\ WorkerInv /\ SealedInv /\ ShownIsTrue /\ InboxInv /\ ProcessInv
      /\ worker \in WorkerType
  BY Parts
<1>3. current \in Bundle
  BY <1>1, <1>2 DEF WorkerInv, WorkerAt
<1>4. /\ InboxInv' /\ Kept
      /\ \A c \in Bundle : \/ bundle'[c] = bundle[c]
                           \/ bundle'[c].pc = "raised" /\ bundle[c].pc # "accepted"
      /\ \/ bundle'[current].pc \in {"open"} \cup Closed
         \/ bundle'[current].pc = "new" /\ bundle[current].pc = "new"
  BY <1>1, <1>2, <1>3, UnwindsKeeps
<1>5. /\ worker' \in WorkerType /\ worker'.pc \in {"handler", "finally", "idle"}
      /\ worker'.pc = "handler" => worker.pc \in Guarded
  <2>1. {"handler", "finally"} \subseteq WorkerPc
    BY DEF WorkerPc
  <2>2. CASE worker.pc \in Guarded
    <3>1. worker' = [worker EXCEPT !.pc = "handler", !.cancelled = TRUE]
      BY <2>2 DEF InterruptCapture, Guarded
    <3>2. worker' \in WorkerType /\ worker'.pc = "handler"
      BY <1>2, <2>1, <3>1, WorkerSet
    <3>3. QED
      BY <2>2, <3>2
  <2>3. CASE worker.pc \in {"handler", "failing"}
    <3>1. WorkerGoes("finally")
      BY <2>3 DEF InterruptCapture, Guarded, WorkerGoes
    <3>2. worker' \in WorkerType /\ worker'.pc = "finally"
      BY <1>2, <2>1, <3>1, WorkerSet
    <3>3. QED
      BY <3>2
  <2>4. CASE worker.pc \notin Guarded \cup {"handler", "failing"}
    <3>1. worker' = Resting
      BY <2>4 DEF InterruptCapture
    <3>2. QED
      BY <1>2, <3>1, WorkerEnds
  <2>5. QED
    BY <2>2, <2>3, <2>4
<1>6. processLock' \in {processLock, Nothing}
  BY DEF InterruptCapture, Unwinds
<1>7. CaptureType'
  BY <1>1, <1>2, <1>5, <1>6 DEF CaptureType
<1>8. SealedInv'
  BY <1>1, <1>2, <1>4 DEF SealedInv, Finished, Alive, Sealing
<1>9. WorkerInv' /\ DolphinInv'
  <2>1. worker'.pc = "handler" => bundle'[current].pc \in Closed \cup {"open"}
    <3>1. worker.pc \in Guarded => bundle[current].pc # "new"
      BY <1>1, <1>2 DEF WorkerInv, WorkerAt, InState, Guarded, Playing, Sealing
    <3>2. QED
      BY <1>3, <1>4, <1>5, <3>1
  <2>2. QED
    BY <1>1, <1>3, <1>5, <2>1 DEF WorkerInv, DolphinInv, WorkerAt, Playing
<1>10. ProcessInv'
  BY <1>1, <1>2, <1>5, <1>6 DEF ProcessInv, WorkerAt, Nothing
<1>11. ShownIsTrue'
  <2>1. /\ bundle[current].pc = "accepted" => bundle'[current].pc = "accepted"
        /\ bundle[current].pc \in Closed => bundle'[current].pc \in Closed
    BY <1>3, <1>4 DEF Closed
  <2>2. QED
    BY <1>1, <1>2, <2>1 DEF ShownIsTrue, InState
<1>12. ReportInv'
  BY <1>1, <1>5, Parts, ReportKept
<1>13. QED
  BY <1>4, <1>7, <1>8, <1>9, <1>10, <1>11, <1>12 DEF IInv, CaptureInv

-----------------------------------------------------------------------------
(* Dolphin, and other processes.                                           *)

\* Dolphin goes on: none comes to life, and what has finished is written.
LEMMA DolphinStepKeeps ==
    ASSUME IInv, NEW b \in Bundle, DolphinStep(b)
    PROVE  IInv' /\ Kept
<1>1. InboxInv' /\ Kept /\ bundle' = bundle /\ derived' = derived /\ tool' = tool
  BY InboxStays DEF DolphinStep
<1>2. /\ mode' = mode /\ main' = main /\ worker' = worker /\ appLock' = appLock
      /\ current' = current /\ stopRequested' = stopRequested /\ process' = process
      /\ processLock' = processLock /\ shown' = shown
  BY DEF DolphinStep, MainVars
<1>3. /\ CaptureType /\ WorkerInv /\ SealedInv /\ DolphinInv /\ ProcessInv /\ ShownIsTrue
      /\ dolphin \in DolphinStates /\ raw \in [Bundle -> {"partial", "complete", "faulty"}]
  BY Parts DEF CaptureType
<1>4. /\ Alive(b) /\ dolphin' \in DolphinStates
      /\ \A c \in Bundle : c # b => dolphin'[c] = dolphin[c]
  <2>1. \/ /\ dolphin[b] = "running"
           /\ dolphin' = dolphin \/ dolphin' = [dolphin EXCEPT ![b] = "finished"]
        \/ Alive(b) /\ \E how \in {"exited", "crashed"} : dolphin' = [dolphin EXCEPT ![b] = how]
    BY DEF DolphinStep
  <2>2. QED
    BY <1>3, <2>1 DEF DolphinStates, Alive
<1>5. /\ raw' \in [Bundle -> {"partial", "complete", "faulty"}]
      /\ \A c \in Bundle : c # b => raw'[c] = raw[c]
  <2>1. PICK v : v = IF raw[b] = "partial" THEN "complete" ELSE raw[b]
    OBVIOUS
  <2>2. v \in {"partial", "complete", "faulty"}
    BY <1>3, <2>1
  <2>3. raw' = raw \/ raw' = [raw EXCEPT ![b] = v] \/ raw' = [raw EXCEPT ![b] = "faulty"]
    BY <2>1 DEF DolphinStep
  <2>4. QED
    BY <1>3, <2>2, <2>3
<1>6. CaptureType'
  BY <1>2, <1>3, <1>4, <1>5 DEF CaptureType
<1>7. SealedInv'
  BY <1>1, <1>3, <1>4, <1>5 DEF SealedInv, Finished, Alive
<1>8. WorkerInv'
  BY <1>1, <1>2, <1>3 DEF WorkerInv, WorkerAt, InState
<1>9. \A c \in Bundle : Alive(c)' => Alive(c)
  BY <1>4 DEF Alive
<1>10. worker.pc \in {"examining", "reading"} => current \in Bundle
  BY <1>3 DEF WorkerInv, WorkerAt
<1>11. DolphinInv'
  BY <1>2, <1>3, <1>9, <1>10 DEF DolphinInv, Alive
<1>12. OwnsLive' => OwnsLive
  <2>1. process \in Bundle \cup {Nothing}
    BY <1>3 DEF CaptureType
  <2>2. QED
    BY <1>2, <1>9, <2>1 DEF OwnsLive, Alive
<1>13. ProcessInv'
  BY <1>2, <1>3, <1>12 DEF ProcessInv, WorkerAt
<1>14. ShownIsTrue'
  BY <1>1, <1>2, <1>3 DEF ShownIsTrue, InState
<1>15. ReportInv'
  BY <1>1, <1>2, Parts, ReportKept DEF Reported
<1>16. QED
  BY <1>1, <1>6, <1>7, <1>8, <1>11, <1>13, <1>14, <1>15 DEF IInv, CaptureInv

\* Nothing of the application changes.
LEMMA ApplicationStays ==
    ASSUME IInv, InboxInv', bundle' = bundle, UNCHANGED OthersVars,
           tool'[AppTool] = tool[AppTool],
           \A s \in Session : derived[s].source # NoManifest => derived'[s] = derived[s]
    PROVE  IInv'
<1>1. /\ mode' = mode /\ main' = main /\ worker' = worker /\ appLock' = appLock
      /\ current' = current /\ stopRequested' = stopRequested /\ process' = process
      /\ processLock' = processLock /\ shown' = shown /\ dolphin' = dolphin /\ raw' = raw
  BY DEF OthersVars
<1>2. /\ CaptureType /\ WorkerInv /\ SealedInv /\ DolphinInv /\ ProcessInv /\ ReportInv
      /\ ShownIsTrue
  BY Parts
<1>3. CaptureType' /\ SealedInv'
  BY <1>1, <1>2 DEF CaptureType, SealedInv, Finished, Alive
<1>4. WorkerInv' /\ DolphinInv'
  BY <1>1, <1>2 DEF WorkerInv, DolphinInv, WorkerAt, InState, Alive
<1>5. ProcessInv'
  BY <1>1, <1>2 DEF ProcessInv, WorkerAt, OwnsLive, Alive
<1>6. current # Nothing => SessionOf[current] \in Session
  BY InboxAssumption, Parts
<1>7. current # Nothing /\ shown \in Reported =>
         derived'[SessionOf[current]] = derived[SessionOf[current]]
  BY <1>2, <1>6 DEF ReportInv
<1>8. ReportInv'
  BY <1>1, <1>2, <1>7 DEF ReportInv, WorkerAt
<1>9. ShownIsTrue'
  BY <1>1, <1>2, <1>7 DEF ShownIsTrue, Reported, InState
<1>10. QED
  BY <1>3, <1>4, <1>5, <1>8, <1>9 DEF IInv, CaptureInv

\* A command of another process.
LEMMA CommandLineKeeps ==
    ASSUME IInv, CommandLine
    PROVE  IInv' /\ Kept
<1>1. PICK t \in Tool \ {AppTool} : ToolStep(t)
  BY DEF CommandLine, ToolStep
<1>2. UNCHANGED OthersVars
  BY DEF CommandLine
<1>3. InboxInv /\ AppTool \in Tool
  BY Parts, CaptureAssumption
<1>4. InboxInv' /\ Kept /\ bundle' = bundle
  BY <1>1, <1>3, ToolStepKeeps, CommandsLeaveBundles
<1>5. /\ tool'[AppTool] = tool[AppTool]
      /\ \A s \in Session : derived[s].source # NoManifest => derived'[s] = derived[s]
  BY <1>1, <1>3, ReportsStay
<1>6. QED
  BY <1>2, <1>4, <1>5, ApplicationStays

-----------------------------------------------------------------------------
(* The application over the inbox.                                         *)

\* Every step keeps the invariant, and loses no recording.
LEMMA NextKeeps ==
    ASSUME IInv, [Next]_vars
    PROVE  IInv' /\ Kept
<1>1. CASE UNCHANGED vars
  <2>1. UNCHANGED inboxVars /\ UNCHANGED OthersVars
    BY <1>1 DEF vars, appVars, OthersVars
  <2>2. InboxInv' /\ Kept /\ bundle' = bundle /\ derived' = derived /\ tool' = tool
    BY <2>1, InboxStays
  <2>3. QED
    BY <2>1, <2>2, ApplicationStays
<1>2. CASE \E m \in Mode : Start(m)
  BY <1>2, StartKeepsAll
<1>3. CASE MainStep
  <2>1. Joined => Exits /\ shown' = shown
    BY DEF Joined
  <2>2. QED
    BY <1>3, <2>1, CommandStartKeeps, StopKeeps, ExitsKeeps DEF MainStep
<1>4. CASE TerminateOwned
  <2>1. PICK th, pc : <<th, pc>> \in TerminatePlace /\ Terminate(th, pc)
    BY <1>4 DEF TerminateOwned, TerminatePlace
  <2>2. QED
    BY <2>1, FindNoProcessKeeps, SignalProcessKeeps, ReapProcessKeeps DEF Terminate
<1>5. CASE WorkerStep \/ WatchRaises
  BY <1>5, VerifyKeeps, BeginCaptureKeeps, PrepareKeeps, SpawnKeeps, HoldProcessKeeps,
     WatchKeeps, ExamineKeeps, ReadKeeps, ReadEndsKeeps, CompleteKeeps, AnnounceKeeps, CompareKeeps,
     FailingKeeps, ReceiptKeeps
     DEF WorkerStep
<1>6. CASE Interrupt
  <2>1. InterruptClose \/ ApplicationDies => Exits /\ shown' = shown
    BY DEF InterruptClose, ApplicationDies
  <2>2. QED
    BY <1>6, <2>1, InterruptCaptureKeeps, ExitsKeeps DEF Interrupt
<1>7. CASE \E b \in Bundle : DolphinStep(b)
  BY <1>7, DolphinStepKeeps
<1>8. CASE CommandLine
  BY <1>8, CommandLineKeeps
<1>9. QED
  BY <1>1, <1>2, <1>3, <1>4, <1>5, <1>6, <1>7, <1>8 DEF Next

\* The application that was never started.
LEMMA InitKeeps ==
    ASSUME Init
    PROVE  IInv
<1>1. InboxInv
  BY InboxStarts DEF Init
<1>2. worker.pc = "idle" /\ worker \in WorkerType
  BY DEF Init, Resting, WorkerType, WorkerPc
<1>3. CaptureType
  BY <1>2 DEF Init, CaptureType, DolphinStates
<1>4. WorkerInv /\ DolphinInv
  BY <1>2 DEF WorkerInv, DolphinInv, WorkerAt, Playing
<1>5. SealedInv
  BY DEF Init, InboxInit, SealedInv, Sealing
<1>6. ProcessInv /\ ReportInv /\ ShownIsTrue
  BY <1>2 DEF Init, ProcessInv, ReportInv, ShownIsTrue, WorkerAt, Nothing
<1>7. QED
  BY <1>1, <1>3, <1>4, <1>5, <1>6 DEF IInv, CaptureInv

\* The application and the inbox in every state: where capture() is, where its bundle
\* is, and whose Dolphin runs agree.
THEOREM Invariance == Spec => []IInv
<1>1. Init => IInv
  BY InitKeeps
<1>2. IInv /\ [Next]_vars => IInv'
  BY NextKeeps
<1>3. QED
  BY <1>1, <1>2, PTL DEF Spec

\* Threads, locks and status keep their types, and no worker outlives its application.
THEOREM TypeCorrect == Spec => []TypeOK
<1>1. IInv => TypeOK
  <2> SUFFICES ASSUME IInv  PROVE TypeOK
    OBVIOUS
  <2>1. InboxInv /\ CaptureType /\ WorkerInv
    BY Parts
  <2>2. \A s \in Session, l \in Location : Exists(s, l) => At(s, l).owner \in Bundle
    BY <2>1, ExistsTyped, DirectoryIsThere DEF InboxInv, InboxType, Directories
  <2>3. inboxLock \in Bundle \cup Tool \cup {NoOne}
    BY <2>1 DEF InboxInv, InboxType
  <2>4. QED
    BY <2>1, <2>2, <2>3 DEF CaptureType, WorkerInv, WorkerAt, TypeOK
<1>2. QED
  BY <1>1, Invariance, PTL

\* What acceptedunprocessed and ingested hold under the application is a whole
\* lifecycle under a manifest of what is there.
THEOREM FinalizedSoundByCapture == Spec => []FinalizedIsSound
<1>1. IInv => FinalizedIsSound
  BY DEF IInv, InboxInv
<1>2. QED
  BY <1>1, Invariance, PTL

\* The report of a comparison is bound to a recording of the inbox.
THEOREM DerivedBoundByCapture == Spec => []DerivedIsBound
<1>1. IInv => DerivedIsBound
  BY BoundIsThere DEF IInv
<1>2. QED
  BY <1>1, Invariance, PTL

\* An accepted recording is of a match that Dolphin finished, read when Dolphin had
\* stopped, whenever stop, quit, a signal, a death or a command came.
THEOREM AcceptedWhole == Spec => []AcceptedIsWhole
<1>1. IInv => AcceptedIsWhole
  <2> SUFFICES ASSUME IInv, NEW s \in Session, NEW l \in Finalized, Exists(s, l)
               PROVE  Finished(At(s, l).owner) /\ ~Alive(At(s, l).owner)
    BY DEF AcceptedIsWhole
  <2>1. InboxInv /\ SealedInv
    BY Parts
  <2>2. l \in Location /\ l \in Final
    BY DEF Finalized, Location, Final
  <2>3. At(s, l).owner \in Bundle
    BY <2>1, <2>2, ExistsTyped, DirectoryIsThere DEF InboxInv, InboxType, Directories
  <2>4. bundle[At(s, l).owner].pc = "accepted"
    BY <2>1, <2>2 DEF InboxInv, PlacedInv
  <2>5. QED
    BY <2>1, <2>3, <2>4 DEF SealedInv
<1>2. QED
  BY <1>1, Invariance, PTL

\* Once close() has stopped what it found, no Dolphin is started or held any more.
THEOREM OwnedStopped == Spec => []OwnedIsStopped
<1>1. IInv => OwnedIsStopped
  BY Parts DEF ProcessInv, OwnedIsStopped
<1>2. QED
  BY <1>1, Invariance, PTL

\* What the window says of the last capture is true, whatever raised, was stopped or
\* died on the way: what it announces is in acceptedunprocessed or was, the comparison
\* it shows is the one stored, and what it calls incomplete nobody writes any more.
THEOREM ShownTrue == Spec => []ShownIsTrue
<1>1. IInv => ShownIsTrue
  BY Parts
<1>2. QED
  BY <1>1, Invariance, PTL

\* No step of the application, its death and the commands included, loses or
\* replaces a recording.
THEOREM EvidenceKeptByCapture == Spec => EvidenceIsKept
<1>1. IInv /\ [Next]_vars =>
         [\A s \in Session, l \in Location :
            Exists(s, l) =>
               \E k \in Location :
                  /\ dirs'[s][k] # NoDirectory /\ dirs'[s][k].owner = At(s, l).owner
                  /\ IF l \in {"accepted", "ingested", "failed"}
                     THEN dirs'[s][k] = At(s, l)
                     ELSE IsPrefix(At(s, l).records, dirs'[s][k].records)]_inboxVars
  BY NextKeeps, KeptIsKept
<1>2. QED
  BY <1>1, Invariance, PTL DEF Spec, EvidenceIsKept
=============================================================================
