--------------------------- MODULE ReferenceCapture ---------------------------
(***************************************************************************)
(* The capture application, scripts/reference_capture_app.py, over the     *)
(* inbox.  Its main thread takes commands (mode "gui") or runs one replay  *)
(* itself (mode "replay"); a worker runs capture(), which spawns Dolphin,  *)
(* watches it, and stops it before it reads what Dolphin wrote into a      *)
(* bundle.  application.lock keeps a second application out.               *)
(*                                                                         *)
(* capture() and what it calls run as the one thread "worker" in either    *)
(* mode; in mode "replay" a signal raises SystemExit wherever it is.       *)
(* External: Dolphin reports the teardown of its match, exits, crashes, or *)
(* runs on; SIGKILL always ends it.                                        *)
(***************************************************************************)
EXTENDS CaptureInbox

CONSTANTS
    Mode,         \* "gui" or "replay": how the application may be started
    AppTool,      \* the tool that stands for the application's store_derived
    MaxDeaths,    \* bound of the model: times the application is killed
    MaxTrouble    \* bound of the model: signals, deaths, disk errors, inbox
                  \* commands and refused commands of a behaviour together

Nothing == "nothing"

ASSUME CaptureAssumption ==
    /\ Mode \subseteq {"gui", "replay"} /\ Mode # {}
    /\ AppTool \in Tool /\ MaxTrouble \in Nat /\ MaxDeaths \in Nat
    /\ \A b, c \in Bundle : SessionOf[b] = SessionOf[c] => b = c
         \* capture() makes a new identifier of the time and a random number
    /\ Nothing \notin Bundle

VARIABLES
    mode, main,      \* the main thread
    worker,          \* the thread in capture(): where, what it remembers, and
                     \* whether an Exception is leaving it
    current,         \* the bundle of the capture, the last one when it is over
    stopRequested, processLock,
    process,         \* self.process: whose Dolphin the supervisor holds
    dolphin,         \* [Bundle -> the Dolphin of that capture]
    raw,             \* [Bundle -> what that Dolphin has written]
    shown,           \* status["state"]
    appLock,         \* who holds application.lock
    signals, deaths,
    commands         \* inbox commands of others, and refused commands

appVars == <<mode, main, worker, current, stopRequested, processLock, process,
             dolphin, raw, shown, appLock, signals, deaths, commands>>
vars == <<inboxVars, appVars>>

Thread == {"main", "worker"}
Resting == [pc |-> "idle", completed |-> FALSE, killed |-> FALSE, cancelled |-> FALSE,
            raised |-> FALSE]

Alive(b) == dolphin[b] \in {"running", "finished"}   \* poll() is None
MoreTrouble == signals + deaths + diskErrors + commands < MaxTrouble
OwnsLive == process # Nothing /\ Alive(process)

WorkerAt(pc) == worker.pc = pc
WorkerGoes(pc) == worker' = [worker EXCEPT !.pc = pc]
Raise == worker' = [worker EXCEPT !.pc = "handler"]  \* to except BaseException
Shows(state) == shown' = state

\* An Exception that leaves capture(): run() publishes it in the window, and it
\* ends the program otherwise.
Fails == worker' = Resting /\ shown' = IF mode = "gui" THEN "failed" ELSE shown

External == <<dolphin, raw>>
Counts == <<signals, deaths, commands>>
MainVars == <<mode, main, appLock, Counts>>

\* What a step of capture() that only decides leaves alone.
Frame == <<MainVars, External, current, stopRequested, processLock, process>>

-----------------------------------------------------------------------------
(* Supervisor.__init__ and the main thread.                                *)
Unused == {b \in Bundle : bundle[b].pc = "new" /\ b # current}

\* In mode "replay" main calls capture() at once.
Start(m) ==
    /\ main = "off" /\ appLock = Nothing /\ appLock' = "application"
    /\ mode' = m
    /\ stopRequested' = FALSE /\ processLock' = Nothing /\ process' = Nothing
    /\ IF m = "gui"
       THEN main' = "serving" /\ Shows("stopped") /\ UNCHANGED <<worker, current>>
       ELSE /\ main' = "capturing" /\ Shows("verifying")
            /\ worker' = [Resting EXCEPT !.pc = "verifying"]
            /\ \E b \in Unused : current' = b
    /\ UNCHANGED <<inboxVars, External, Counts>>

\* command("start") or command("replay"), which differ in how they end only
\* (Announce): ignored while a worker is alive.
CommandStart ==
    /\ main = "serving" /\ WorkerAt("idle")
    /\ \E b \in Unused : current' = b
    /\ stopRequested' = FALSE /\ Shows("verifying")
    /\ worker' = [Resting EXCEPT !.pc = "verifying"]
    /\ UNCHANGED <<inboxVars, MainVars, External, processLock, process>>

\* A line that is no command of the application is answered with "failed",
\* whatever the worker is doing.
CommandRefused ==
    /\ main = "serving" /\ Shows("failed")
    /\ MoreTrouble /\ commands' = commands + 1
    /\ UNCHANGED <<inboxVars, mode, main, appLock, signals, deaths, External, worker,
                   current, stopRequested, processLock, process>>

CommandStop ==
    /\ main = "serving" /\ stopRequested' = TRUE /\ Shows("stopping")
    /\ UNCHANGED <<inboxVars, MainVars, External, worker, current,
                   processLock, process>>

\* The end of the command stream, a signal, or the end of the replay: close().
Quit ==
    /\ \/ main = "serving"
       \/ main = "capturing" /\ WorkerAt("idle")
    /\ main' = "closing" /\ stopRequested' = TRUE
    /\ UNCHANGED <<inboxVars, External, mode, appLock, Counts, worker,
                   current, processLock, process, shown>>

\* What ends with the process: its threads, its locks, its open bundle.
Abandoned ==
    IF current # Nothing /\ bundle[current].pc \notin Closed \cup {"new"}
    THEN /\ Goto(current, "dead")
         /\ inboxLock' = IF inboxLock \in {current, AppTool} THEN NoOne ELSE inboxLock
    ELSE /\ UNCHANGED bundle
         /\ inboxLock' = IF inboxLock = AppTool THEN NoOne ELSE inboxLock

\* Fault: the worker outlives the process.
ExitsAlone ==
    /\ main' = "off" /\ appLock' = Nothing
    /\ process' = Nothing /\ processLock' = Nothing
    /\ tool' = [tool EXCEPT ![AppTool] = Idle]
    /\ Abandoned
    /\ UNCHANGED <<dirs, derived, diskErrors, External, mode, current,
                   stopRequested, worker>>

Exits ==
    /\ main' = "off" /\ appLock' = Nothing
    /\ worker' = Resting /\ process' = Nothing /\ processLock' = Nothing
    /\ tool' = [tool EXCEPT ![AppTool] = Idle]
    /\ Abandoned
    /\ UNCHANGED <<dirs, derived, diskErrors, External, mode, current,
                   stopRequested>>

\* close() joins the worker, then drops application.lock.
Joined ==
    /\ main = "joining" /\ WorkerAt("idle") /\ Exits /\ UNCHANGED <<shown, Counts>>

-----------------------------------------------------------------------------
(* _terminate_owned, by either thread: the process lock is held while      *)
(* Dolphin is signalled and waited for.  Its result, `wasAlive`, is used    *)
(* after the watch only.                                                   *)
Terminating(th, pc) == IF th = "main" THEN main = pc ELSE WorkerAt(pc)

After(th, pc, wasAlive) ==
    IF th = "main"
    THEN main' = "joining" /\ UNCHANGED worker
    ELSE /\ UNCHANGED main
         /\ worker' = [worker EXCEPT !.killed = pc = "stopping" /\ wasAlive,
                         !.pc = CASE pc = "stopping" -> "examining"
                                  [] pc = "handler"  -> "failing"
                                  [] pc = "finally"  -> "receipt"]

TerminateFrame == <<inboxVars, mode, appLock, Counts, raw,
                    current, stopRequested, process, shown>>

\* Nothing to stop: it has exited, or there is none.
FindNoProcess(th, pc) ==
    /\ Terminating(th, pc) /\ processLock = Nothing /\ ~OwnsLive
    /\ After(th, pc, FALSE)
    /\ UNCHANGED <<TerminateFrame, processLock, dolphin>>

SignalProcess(th, pc) ==
    /\ Terminating(th, pc) /\ processLock = Nothing /\ OwnsLive
    /\ processLock' = th
    /\ UNCHANGED <<TerminateFrame, main, worker, dolphin>>

ReapProcess(th, pc) ==
    /\ Terminating(th, pc) /\ processLock = th
    /\ dolphin' = [dolphin EXCEPT ![process] = IF Alive(process) THEN "killed" ELSE @]
    /\ processLock' = Nothing
    /\ After(th, pc, TRUE)
    /\ UNCHANGED TerminateFrame

TerminatePlace == {<<"main", "closing">>, <<"worker", "stopping">>,
                   <<"worker", "handler">>, <<"worker", "finally">>}

Terminate(th, pc) == FindNoProcess(th, pc) \/ SignalProcess(th, pc) \/ ReapProcess(th, pc)

TerminateOwned == \E place \in TerminatePlace : Terminate(place[1], place[2])

-----------------------------------------------------------------------------
(* capture(), up to the end of the watch.                                  *)
Verify ==
    /\ WorkerAt("verifying")
    /\ \/ Fails
       \/ stopRequested /\ worker' = Resting /\ Shows("stopped")
       \/ /\ ~stopRequested /\ mode = "gui" /\ worker' = Resting
          /\ Shows("controller_required")
       \/ ~stopRequested /\ WorkerGoes("beginning") /\ Shows("ready")
    /\ UNCHANGED <<inboxVars, Frame>>

\* What was published since verify() may tell capture() that it is not ready.
BeginCapture ==
    /\ WorkerAt("beginning")
    /\ \/ /\ InState(current, "new") /\ UNCHANGED inboxVars
          /\ \/ Fails
             \/ shown # "ready" /\ worker' = Resting /\ UNCHANGED shown
       \/ EnterBegin(current) /\ UNCHANGED <<worker, shown>>
       \/ /\ Begin(current)
          /\ IF bundle'[current].pc = "open"
             THEN WorkerGoes("preparing") /\ UNCHANGED shown ELSE Fails
    /\ UNCHANGED Frame

\* The private profile, the configuration and environment files.
Prepare ==
    /\ WorkerAt("preparing") /\ Shows("starting")
    /\ \/ Raise
       \/ stopRequested /\ worker' = [worker EXCEPT !.pc = "handler", !.cancelled = TRUE]
       \/ ~stopRequested /\ WorkerGoes("spawning")
    /\ UNCHANGED <<inboxVars, Frame>>

\* Fault: the stop flag is not read again under the process lock.
SpawnUnchecked ==
    /\ WorkerAt("spawning") /\ processLock = Nothing
    /\ WorkerGoes("spawned") /\ processLock' = "worker"
    /\ dolphin' = [dolphin EXCEPT ![current] = "running"]
    /\ UNCHANGED <<inboxVars, MainVars, raw, current, stopRequested,
                   process, shown>>

\* _spawn_owned: the stop flag is read under the process lock.
Spawn ==
    /\ WorkerAt("spawning") /\ processLock = Nothing
    /\ \/ /\ stopRequested /\ worker' = [worker EXCEPT !.pc = "handler", !.cancelled = TRUE]
          /\ UNCHANGED <<processLock, dolphin>>
       \/ /\ ~stopRequested /\ WorkerGoes("spawned") /\ processLock' = "worker"
          /\ dolphin' = [dolphin EXCEPT ![current] = "running"]
    /\ UNCHANGED <<inboxVars, MainVars, raw, current, stopRequested,
                   process, shown>>

\* The value of Popen is assigned to self.process.
HoldProcess ==
    /\ WorkerAt("spawned") /\ WorkerGoes("watching")
    /\ process' = current /\ processLock' = Nothing
    /\ UNCHANGED <<inboxVars, MainVars, External, current, stopRequested, shown>>

\* Fault: a finished match is read at once, before Dolphin is stopped.
WatchUnstopped ==
    /\ WorkerAt("watching")
    /\ \/ ~Alive(current) /\ WorkerGoes("stopping") /\ UNCHANGED shown
       \/ stopRequested /\ WorkerGoes("stopping") /\ UNCHANGED shown
       \/ /\ dolphin[current] = "finished"
          /\ worker' = [worker EXCEPT !.pc = "examining", !.completed = TRUE]
          /\ Shows("running")
    /\ UNCHANGED <<inboxVars, Frame>>

\* Fault: the loop does not look at the stop flag.
WatchOn ==
    /\ WorkerAt("watching")
    /\ \/ ~Alive(current) /\ WorkerGoes("stopping") /\ UNCHANGED shown
       \/ /\ dolphin[current] = "finished"
          /\ worker' = [worker EXCEPT !.pc = "stopping", !.completed = TRUE]
          /\ Shows("running")
    /\ UNCHANGED <<inboxVars, Frame>>

\* The turn of the loop that ends it.
Watch ==
    /\ WorkerAt("watching")
    /\ \/ ~Alive(current) /\ WorkerGoes("stopping") /\ UNCHANGED shown
       \/ stopRequested /\ WorkerGoes("stopping") /\ UNCHANGED shown
       \/ /\ dolphin[current] = "finished"
          /\ worker' = [worker EXCEPT !.pc = "stopping", !.completed = TRUE]
          /\ Shows("running")
    /\ UNCHANGED <<inboxVars, Frame>>

\* An error of the observer, the controller or the configuration; that one comes
\* is not something to count on.
WatchRaises ==
    /\ WorkerAt("watching") /\ Raise /\ shown' \in {shown, "running"}
    /\ UNCHANGED <<inboxVars, Frame>>

-----------------------------------------------------------------------------
(* capture(), from the end of Dolphin to the end of the bundle.            *)
Finished(b) == raw[b] = "complete"

\* The final observer status, the exit code of a Dolphin nobody stopped, and
\* the inputs verified once more.
Examine ==
    LET completed == worker.completed \/ Finished(current) IN
    /\ WorkerAt("examining")
    /\ \/ Raise /\ shown' \in {shown, "finalizing"}
       \/ /\ ~(completed /\ ~worker.killed /\ dolphin[current] \in {"crashed", "killed"})
          /\ worker' = [worker EXCEPT !.pc = "reading", !.completed = completed]
          /\ Shows("finalizing")
    /\ UNCHANGED <<inboxVars, Frame>>

\* The records of the observer stream, one append each: an event, then the
\* end if the match was torn down; an observer error among them is a fault.
NextKind ==
    CASE bundle[current].count = 0 -> IF raw[current] = "faulty" THEN "fault" ELSE "event"
      [] bundle[current].count = 1 /\ Finished(current) -> "end"
      [] OTHER -> "none"

ReadRecord ==
    /\ WorkerAt("reading") /\ NextKind # "none"
    /\ \/ AppendRecord(current, NextKind)
       \/ AppendRejected(current) /\ MoreTrouble
    /\ IF bundle'[current].count = bundle[current].count \/ ~PathExists(current)
       THEN Raise ELSE UNCHANGED worker
    /\ UNCHANGED <<Frame, shown>>

\* A stream that is out of sequence.
ReadGap ==
    /\ WorkerAt("reading") /\ AppendGap(current) /\ Raise /\ UNCHANGED <<Frame, shown>>

\* The status of the observer must agree with what was read.  An error after
\* bundle.fail runs the handler, which fails no bundle twice.
ReadEnds ==
    /\ WorkerAt("reading") /\ NextKind = "none"
    /\ \/ Raise /\ UNCHANGED <<inboxVars, shown>>
       \/ /\ worker.completed /\ Finished(current)
          /\ Close(current) /\ WorkerGoes("completing") /\ UNCHANGED shown
       \/ /\ ~(worker.completed /\ Finished(current)) /\ FailBundle(current)
          /\ \/ WorkerGoes("finally") /\ Shows("incomplete")
             \/ Raise /\ shown' \in {shown, "incomplete"}
    /\ UNCHANGED Frame

\* Fault: the bundle is announced when it is sealed, not yet moved.
CompleteAnnouncedEarly ==
    /\ WorkerAt("completing") /\ CompleteStep(current)
    /\ diskErrors' = diskErrors \/ MoreTrouble
    /\ CASE bundle'[current].pc \in {"sealed", "accepted"} -> WorkerGoes("announcing")
         [] bundle'[current].pc \in {"rejected", "raised"} -> Raise
         [] OTHER -> UNCHANGED worker
    /\ UNCHANGED <<Frame, shown>>

Complete ==
    /\ WorkerAt("completing") /\ CompleteStep(current)
    /\ diskErrors' = diskErrors \/ MoreTrouble
    /\ CASE bundle'[current].pc = "accepted" -> WorkerGoes("announcing")
         [] bundle'[current].pc \in {"rejected", "raised"} -> Raise
         [] OTHER -> UNCHANGED worker
    /\ UNCHANGED <<Frame, shown>>

\* The bundle has been accepted; looking for partials or publishing may still
\* raise, into the handler.  A replay goes on to compare.
Announce ==
    /\ WorkerAt("announcing")
    /\ \/ Raise /\ shown' \in {shown, "accepted"}
       \/ /\ Shows("accepted")
          /\ \/ WorkerGoes("comparing")
             \/ mode = "gui" /\ WorkerGoes("finally")
    /\ UNCHANGED <<inboxVars, Frame>>

\* How _finish_replay_comparison ends, its publish included.
Reports(states) == shown' \in states /\ (WorkerGoes("finally") \/ Raise)

\* _finish_replay_comparison: the accepted bundle is compared, and the report
\* stored beside it; its failure is published and changes nothing else.
Compare ==
    /\ WorkerAt("comparing")
    /\ \/ StartDerive(AppTool, SessionOf[current], "accepted") /\ WorkerGoes("deriving")
          /\ UNCHANGED shown
       \/ Reports({"replay_comparison_failed"}) /\ UNCHANGED inboxVars
    /\ UNCHANGED Frame

Derive ==
    /\ WorkerAt("deriving") /\ CommandStep(AppTool)
    /\ IF tool'[AppTool] # Idle THEN UNCHANGED <<worker, shown>>
       ELSE Reports(IF tool[AppTool].pc = "locked" THEN {"replay_comparison_failed"}
                    ELSE {"replay_matched", "replay_diverged"})
    /\ UNCHANGED Frame

\* The handler, after its _terminate_owned: bundle.fail, whose refusal of a
\* closed bundle is suppressed.  What it does then may raise as well.
Failing ==
    LET state == IF worker.cancelled THEN "incomplete" ELSE "failed" IN
    /\ WorkerAt("failing")
    /\ IF InState(current, "open") THEN FailBundle(current) ELSE UNCHANGED inboxVars
    /\ \/ WorkerGoes("finally") /\ Shows(state)
       \/ /\ worker' = [worker EXCEPT !.pc = "finally", !.raised = TRUE]
          /\ shown' \in {shown, state}
    /\ UNCHANGED Frame

\* The end of the finally: the handle is dropped once the process it names has
\* stopped, and the receipt is written, which may fail whatever was accepted.
Receipt ==
    /\ WorkerAt("receipt")
    /\ process' = IF OwnsLive THEN process ELSE Nothing
    /\ \/ ~worker.raised /\ worker' = Resting /\ UNCHANGED shown
       \/ Fails
    /\ UNCHANGED <<inboxVars, MainVars, External, current, stopRequested, processLock>>

-----------------------------------------------------------------------------
(* A signal in mode "replay": SystemExit, out of whatever block it meets.  *)
Guarded == {"preparing", "spawning", "spawned", "watching", "stopping", "examining",
            "reading", "completing", "announcing", "comparing", "deriving"}

\* `with` gives a lock back; a bundle that was being completed stays closed.
Unwinds ==
    /\ processLock' = IF processLock = "worker" THEN Nothing ELSE processLock
    /\ inboxLock' = IF inboxLock \in {current, AppTool} THEN NoOne ELSE inboxLock
    /\ tool' = [tool EXCEPT ![AppTool] = Idle]
    /\ bundle' = IF bundle[current].pc \in {"new", "open"} \cup Closed THEN bundle
                 ELSE [bundle EXCEPT ![current].pc = "raised"]

InterruptCapture ==
    /\ mode = "replay" /\ main = "capturing" /\ ~WorkerAt("idle")
    /\ MoreTrouble /\ signals' = signals + 1
    /\ stopRequested' = TRUE /\ Unwinds
    /\ worker' = CASE worker.pc \in Guarded -> [worker EXCEPT !.pc = "handler", !.cancelled = TRUE]
                   [] worker.pc \in {"handler", "failing"} -> [worker EXCEPT !.pc = "finally"]
                   [] OTHER -> Resting
    /\ UNCHANGED <<dirs, derived, diskErrors, External, mode, main, appLock,
                   current, process, shown, deaths, commands>>

\* In close(): the process ends.
InterruptClose ==
    /\ mode = "replay" /\ main \in {"closing", "joining"}
    /\ MoreTrouble /\ signals' = signals + 1
    /\ Exits /\ UNCHANGED <<shown, deaths, commands>>

\* SIGKILL, or the machine stops: Dolphin, in a session of its own, goes on.
ApplicationDies ==
    /\ main # "off" /\ deaths < MaxDeaths /\ MoreTrouble
    /\ deaths' = deaths + 1
    /\ Exits /\ UNCHANGED <<shown, signals, commands>>

-----------------------------------------------------------------------------
(* Dolphin.                                                                *)
DolphinStep(b) ==
    /\ \/ /\ dolphin[b] = "running" /\ dolphin' = [dolphin EXCEPT ![b] = "finished"]
          /\ raw' = [raw EXCEPT ![b] = IF @ = "partial" THEN "complete" ELSE @]
       \/ dolphin[b] = "running" /\ raw' = [raw EXCEPT ![b] = "faulty"] /\ UNCHANGED dolphin
       \/ /\ Alive(b) /\ UNCHANGED raw
          /\ \E how \in {"exited", "crashed"} : dolphin' = [dolphin EXCEPT ![b] = how]
    /\ UNCHANGED <<inboxVars, MainVars, worker, current, stopRequested,
                   processLock, process, shown>>

-----------------------------------------------------------------------------
Init ==
    /\ InboxInit
    /\ mode \in Mode /\ main = "off" /\ worker = Resting /\ current = Nothing
    /\ stopRequested = FALSE /\ processLock = Nothing /\ process = Nothing
    /\ dolphin = [b \in Bundle |-> "none"] /\ raw = [b \in Bundle |-> "partial"]
    /\ shown = "stopped" /\ appLock = Nothing
    /\ signals = 0 /\ deaths = 0 /\ commands = 0

WorkerStep ==
    \/ Verify \/ BeginCapture \/ Prepare \/ Spawn \/ HoldProcess \/ Watch
    \/ Examine \/ ReadRecord \/ ReadGap \/ ReadEnds \/ Complete \/ Announce
    \/ Compare \/ Derive \/ Failing \/ Receipt

MainStep == CommandStart \/ CommandRefused \/ CommandStop \/ Quit \/ Joined

Interrupt == InterruptCapture \/ InterruptClose \/ ApplicationDies

OthersVars == <<mode, main, worker, current, stopRequested, processLock, process,
                dolphin, raw, shown, appLock, signals, deaths>>

\* The inbox commands of other processes, one process each.
CommandLine ==
    \E t \in Tool \ {AppTool} :
        /\ \/ StartCommand(t) /\ MoreTrouble /\ commands' = commands + 1
           \/ (CommandStep(t) \/ ToolDies(t)) /\ UNCHANGED commands
        /\ UNCHANGED OthersVars

Next ==
    \/ \E m \in Mode : Start(m)
    \/ MainStep \/ TerminateOwned
    \/ WorkerStep \/ WatchRaises \/ Interrupt
    \/ \E b \in Bundle : DolphinStep(b)
    \/ CommandLine

\* Every thread and process runs on; a command, a signal and an error of the
\* watch need never come, and Dolphin need never do anything.
Fairness ==
    /\ WF_vars(WorkerStep) /\ WF_vars(Joined)
    /\ \A place \in TerminatePlace : WF_vars(Terminate(place[1], place[2]))
    /\ \A t \in Tool : WF_vars(CommandStep(t) /\ UNCHANGED appVars)

Spec == Init /\ [][Next]_vars /\ Fairness

-----------------------------------------------------------------------------
\* Threads, locks and status keep their types, and no worker outlives the process:
\* capture() never runs without an application that will close it.
TypeOK ==
    /\ mode \in Mode /\ main \in {"off", "serving", "capturing", "closing", "joining"}
    /\ current \in Bundle \cup {Nothing} /\ process \in Bundle \cup {Nothing}
    /\ worker.pc # "idle" => current \in Bundle /\ main # "off"
    /\ processLock \in Thread \cup {Nothing}
    /\ appLock \in {"application", Nothing}
    /\ inboxLock \in Bundle \cup Tool \cup {NoOne}
    /\ \A s \in Session, l \in Location : Exists(s, l) => At(s, l).owner \in Bundle
    /\ stopRequested \in BOOLEAN

\* An accepted recording is of a match that Dolphin has finished, read after
\* Dolphin had stopped writing it, whenever stop, quit, a signal or a command
\* came: capture() terminates Dolphin before it reads, and close() does not
\* hurry the worker past that.
AcceptedIsWhole ==
    \A s \in Session, l \in Finalized :
        Exists(s, l) => LET b == At(s, l).owner IN Finished(b) /\ ~Alive(b)

\* Once close() has stopped what it found, no Dolphin is started or held any
\* more: the stop flag is set before the process lock is taken, and
\* _spawn_owned reads it under that lock.
OwnedIsStopped == main = "joining" => ~OwnsLive

\* What the window says of the last capture is true of its bundle, whatever
\* raised, was stopped or died on the way: what is announced has been moved to
\* acceptedunprocessed, a comparison that is shown is the one stored beside it,
\* even when other processes derive from that recording too, and a bundle shown
\* as incomplete has no writer.  "failed" says none of this: an error that comes
\* after complete(), or a refused command, is shown over a bundle that has been
\* accepted.
ShownIsTrue ==
    current # Nothing =>
        /\ shown \in {"accepted", "replay_matched", "replay_diverged",
                      "replay_comparison_failed"} => InState(current, "accepted")
        /\ shown \in {"replay_matched", "replay_diverged"} =>
               derived[SessionOf[current]].by = AppTool
        /\ shown = "incomplete" => bundle[current].pc \in Closed

\* "Interrupting command-line replay stops its owned Dolphin process before
\* releasing the process handle": no Dolphin outlives the application.
DolphinIsStopped == main = "off" => \A b \in Bundle : ~Alive(b)

\* Quitting and stopping end: the two threads do not wait for each other, and
\* the worker comes out of every step it may be in.
StopEnds ==
    /\ main = "closing" ~> main = "off"
    /\ (stopRequested /\ ~WorkerAt("idle")) ~> WorkerAt("idle")

=============================================================================
