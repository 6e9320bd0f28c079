-------------------------------- MODULE LocalRun --------------------------------
(***************************************************************************)
(* reference-capture/slippi: one PairRun of run_local.py and the           *)
(* ProcessSupervisor of process.py that owns what it starts: a matchmaking *)
(* service, two Slippi clients and, for the browser probe, a bridge and a  *)
(* headless browser.  In mode "pause" the run is itself the child of the   *)
(* interruption probe, which has a supervisor too: it waits until the pair *)
(* is connected, interrupts the run, and judges its evidence.              *)
(*                                                                         *)
(* External: a child may exit at any time, and may leave descendants in    *)
(* its process group.  A signal other than SIGKILL promises nothing, and   *)
(* SIGKILL nothing in time of a process that is stuck.  What a wait looks  *)
(* at is left out: it succeeds, times out, or finds a child gone.          *)
(***************************************************************************)
EXTENDS Naturals, SequencesExt

CONSTANTS
    Mode,           \* the runs of the model, of "cycle", "last", "browser", "pause"
    Helpers,        \* the children that may have descendants
    Stuck,          \* the children that may outlast SIGKILL's deadline
    MaxInterrupts   \* bound of the model: interrupts that are not the probe's

RunChild == {"browser-bridge", "service", "p1", "p2", "browser-test"}
Process == RunChild \cup {"harness"}

ASSUME LocalRunAssumption ==
    /\ Mode \subseteq {"cycle", "last", "browser", "pause"} /\ Mode # {}
    /\ Helpers \subseteq RunChild /\ Stuck \subseteq RunChild
    /\ MaxInterrupts \in Nat

VARIABLES
    mode,
    leader,      \* [Process -> "unborn", "up", or how it ended]
    helper,      \* [Process -> whether its group has other members]
    children,    \* [owner -> supervisor._children]
    stopping,    \* [owner -> the _stop() it is in]
    run,         \* the PairRun: where, result, failure, cleanup_error
    orphans,     \* children whose Popen was interrupted before it was recorded
    profiles,    \* the private profile directory
    paired,      \* paired.ready has been written
    evidence,    \* the evidence.json that was saved
    exit,        \* how the harness process ended: "passed" is status 0, "failed"
                 \* 1, "interrupted" 130, "killed" a signal
    pending,     \* the probe's SIGINT, not yet delivered
    interrupts,
    probe, receipt

supervised == <<leader, helper, stopping>>
files == <<profiles, paired, evidence>>
probing == <<probe, receipt>>
vars == <<mode, supervised, children, run, orphans, files, exit, pending,
          interrupts, probing>>

Up(p) == leader[p] = "up"
GroupGone(p) == ~Up(p) /\ ~helper[p]
NoStop == [step |-> "none"]
NoEvidence == <<>>

-----------------------------------------------------------------------------
(* ProcessSupervisor._stop of an owner: "probe" or "run".                  *)
Step(o) == stopping[o].step
StopBegins(o, p) == stopping' = [stopping EXCEPT ![o] = [child |-> p, step |-> "poll"]]
Goes(o, s) == stopping' = [stopping EXCEPT ![o].step = s]

Kill(p) ==
    \/ /\ leader' = [leader EXCEPT ![p] = IF @ = "up" THEN "killed" ELSE @]
       /\ helper' = [helper EXCEPT ![p] = FALSE]
    \/ p \in Stuck /\ UNCHANGED <<leader, helper>>

\* The harness does not handle SIGTERM; whether another child heeds it is its own step.
Terminate(p) ==
    /\ leader' = [leader EXCEPT ![p] = IF p = "harness" THEN "killed" ELSE @]
    /\ UNCHANGED helper

\* Wait for the leader in `step`; at its deadline signal the group and go on.
WaitLeader(o, step, Signal(_), next) ==
    LET p == stopping[o].child IN
    /\ Step(o) = step
    /\ IF Up(p) THEN Signal(p) /\ Goes(o, next)
       ELSE Goes(o, "group") /\ UNCHANGED <<leader, helper>>

NoSignal(p) == UNCHANGED <<leader, helper>>

\* The group is looked at again after the leader: a descendant may remain.
WaitGroup(o, step, Signal(_), next) ==
    LET p == stopping[o].child IN
    /\ Step(o) = step
    /\ IF helper[p] THEN Signal(p) /\ Goes(o, next)
       ELSE Goes(o, "done") /\ UNCHANGED <<leader, helper>>

StopStep(o) ==
    \/ WaitLeader(o, "poll", NoSignal, "graceful")
    \/ WaitLeader(o, "graceful", Terminate, "term")
    \/ WaitLeader(o, "term", Kill, "kill")
    \/ WaitLeader(o, "kill", NoSignal, "raised")
    \/ WaitGroup(o, "group", NoSignal, "groupTerm")
    \/ WaitGroup(o, "groupTerm", Kill, "groupKill")
    \/ WaitGroup(o, "groupKill", NoSignal, "raised")

Stopped(o) == Step(o) \in {"done", "raised"}

-----------------------------------------------------------------------------
(* PairRun.run: what it does in order, then its finally.                   *)
Start(c) == <<[do |-> "start", child |-> c]>>
Wait == <<[do |-> "wait"]>>

Plan ==
    LET browser == mode = "browser" IN
    <<[do |-> "profiles"]>>
    \o (IF browser THEN Start("browser-bridge") \o Wait ELSE <<>>)
    \o Start("service") \o Wait
    \o Start("p1") \o Start("p2")
    \o Wait                              \* to the chooser, Direct, tickets, the pair
    \o (IF mode = "pause" THEN <<[do |-> "pause"]>> ELSE <<>>)
    \o Wait                              \* the first game begins
    \o (IF browser THEN Start("browser-test") \o Wait ELSE <<>>)
    \o Wait                              \* games, rematch, verification
    \o (IF mode = "last" THEN <<[do |-> "stop"]>> \o Wait ELSE <<>>)

Doing(what) == run.pc = "body" /\ Plan[run.at].do = what

\* Fault: the last step of the plan is not recognised.
AdvanceAlways == run' = [run EXCEPT !.pc = "body", !.at = @ + 1]

Advance ==
    run' = IF run.at < Len(Plan) THEN [run EXCEPT !.pc = "body", !.at = @ + 1]
           ELSE [run EXCEPT !.pc = "watchers", !.result = "good"]

Raise(why) == run' = [run EXCEPT !.pc = "handler", !.failure = why]

Ends(code) ==
    /\ run' = [run EXCEPT !.pc = "over"] /\ exit' = code
    /\ leader' = [leader EXCEPT !["harness"] = "exited"]

Others == <<mode, orphans, pending, interrupts, probing>>

\* Before the try: the pinned inputs are verified.
Verify ==
    /\ run.pc = "setup"
    /\ \/ run' = [run EXCEPT !.pc = "body"] /\ UNCHANGED <<leader, exit>>
       \/ Ends("failed")
    /\ UNCHANGED <<Others, helper, stopping, children, files>>

MakeProfiles ==
    /\ Doing("profiles")
    /\ \/ Advance /\ profiles' = "whole"
       \/ Raise("failed") /\ profiles' \in {"none", "whole"}
    /\ UNCHANGED <<Others, supervised, children, paired, evidence, exit>>

\* ProcessSupervisor.start, up to Popen.
Launch ==
    /\ Doing("start")
    /\ \/ Raise("failed") /\ UNCHANGED leader
       \/ /\ run' = [run EXCEPT !.pc = "spawned"]
          /\ leader' = [leader EXCEPT ![Plan[run.at].child] = "up"]
    /\ UNCHANGED <<Others, helper, stopping, children, files, exit>>

Register ==
    /\ run.pc = "spawned" /\ Advance
    /\ children' = [children EXCEPT !["run"] = Append(@, Plan[run.at].child)]
    /\ UNCHANGED <<Others, supervised, files, exit>>

\* _service_children: only a browser test that has passed may be over.
AllWell ==
    \A i \in DOMAIN children["run"] :
        LET c == children["run"][i] IN
        Up(c) \/ (c = "browser-test" /\ leader[c] = "passed")

\* Fault: a wait without a deadline, which does not look at the children.
AwaitForever ==
    /\ Doing("wait") /\ AllWell /\ Advance
    /\ UNCHANGED <<Others, supervised, children, files, exit>>

\* _wait_until.
Await ==
    /\ Doing("wait")
    /\ (AllWell /\ Advance) \/ Raise("failed")
    /\ UNCHANGED <<Others, supervised, children, files, exit>>

Pause ==
    /\ Doing("pause")
    /\ \/ ~paired /\ paired' = TRUE /\ UNCHANGED run
       \/ ~AllWell /\ Raise("failed") /\ UNCHANGED paired
    /\ UNCHANGED <<Others, supervised, children, profiles, evidence, exit>>

\* _disconnect_peer: supervisor.stop of p1.
BeginStopPeer ==
    /\ Doing("stop") /\ stopping["run"] = NoStop /\ StopBegins("run", "p1")
    /\ UNCHANGED <<Others, leader, helper, children, run, files, exit>>

PeerStopped ==
    /\ Doing("stop") /\ Stopped("run")
    /\ stopping' = [stopping EXCEPT !["run"] = NoStop]
    /\ IF Step("run") = "raised" THEN Raise("failed") /\ UNCHANGED children
       ELSE /\ Advance
            /\ \E i \in DOMAIN children["run"] :
                  /\ children["run"][i] = "p1"
                  /\ children' = [children EXCEPT !["run"] = RemoveAt(@, i)]
    /\ UNCHANGED <<Others, leader, helper, files, exit>>

-----------------------------------------------------------------------------
Handler ==
    /\ run.pc = "handler"
    /\ run' = [run EXCEPT !.pc = "watchers", !.result = run.failure]
    /\ UNCHANGED <<Others, supervised, children, files, exit>>

CloseWatchers ==
    /\ run.pc = "watchers"
    /\ run' = [run EXCEPT !.pc = "closing", !.at = Len(children["run"])]
    /\ UNCHANGED <<Others, supervised, children, files, exit>>

\* ProcessSupervisor.close: the newest child first, each whatever became of
\* the others.
CloseNext ==
    /\ run.pc = "closing" /\ stopping["run"] = NoStop /\ run.at > 0
    /\ StopBegins("run", children["run"][run.at])
    /\ run' = [run EXCEPT !.at = @ - 1]
    /\ UNCHANGED <<Others, leader, helper, children, files, exit>>

\* Fault: close forgets the error of a child.
ChildClosedQuietly ==
    /\ run.pc = "closing" /\ Stopped("run")
    /\ stopping' = [stopping EXCEPT !["run"] = NoStop]
    /\ UNCHANGED <<Others, leader, helper, children, run, files, exit>>

ChildClosed ==
    /\ run.pc = "closing" /\ Stopped("run")
    /\ stopping' = [stopping EXCEPT !["run"] = NoStop]
    /\ run' = [run EXCEPT !.cleanupError = @ \/ Step("run") = "raised"]
    /\ UNCHANGED <<Others, leader, helper, children, files, exit>>

Closed ==
    /\ run.pc = "closing" /\ stopping["run"] = NoStop /\ run.at = 0
    /\ run' = [run EXCEPT !.pc = "ports",
                 !.result = IF run.cleanupError THEN "failed-cleanup" ELSE @]
    /\ UNCHANGED <<Others, supervised, children, files, exit>>

\* _save_evidence: the ports, the profiles, the file.
CheckPorts ==
    /\ run.pc = "ports"
    /\ run' \in {[run EXCEPT !.pc = "removing"],
                 [run EXCEPT !.pc = "removing", !.result = "failed-cleanup"]}
    /\ UNCHANGED <<Others, supervised, children, files, exit>>

\* Fault: the profiles go whatever the result.
RemovableAlways == profiles # "none"

Removable == run.result \in {"good", "interrupted"} /\ profiles # "none"

RemoveProfiles ==
    /\ run.pc = "removing"
    /\ IF Removable
       THEN \/ profiles' = "removed" /\ run' = [run EXCEPT !.pc = "writing"]
            \/ /\ profiles' = "partial"
               /\ run' = [run EXCEPT !.pc = "writing", !.result = "failed-cleanup"]
       ELSE run' = [run EXCEPT !.pc = "writing"] /\ UNCHANGED profiles
    /\ UNCHANGED <<Others, supervised, children, paired, evidence, exit>>

Saved == evidence' = <<[result |-> run.result, cleanupError |-> run.cleanupError]>>

\* The exception that the body raised goes on; main turns a bad result into one.
Code == IF run.failure = "interrupted" THEN "interrupted"
        ELSE IF run.failure = "failed" \/ run.result # "good" THEN "failed"
        ELSE "passed"

WriteEvidence ==
    /\ run.pc = "writing"
    /\ \/ Saved /\ Ends(Code)
       \/ UNCHANGED evidence /\ Ends("failed")
    /\ UNCHANGED <<Others, helper, stopping, children, profiles, paired>>

-----------------------------------------------------------------------------
(* KeyboardInterrupt, wherever the run is.                                 *)
Interrupted ==
    LET Swallowed(r) == run' = r /\ UNCHANGED <<leader, exit>>
        Leaves == Ends("interrupted")
    IN  CASE run.pc \in {"setup", "watchers"} -> Leaves /\ UNCHANGED <<profiles, evidence>>
          [] run.pc \in {"body", "spawned"} ->
               /\ Raise("interrupted") /\ UNCHANGED <<leader, exit, profiles, evidence>>
          [] run.pc = "handler" ->             \* result stays "incomplete"
               /\ Swallowed([run EXCEPT !.pc = "watchers", !.failure = "interrupted"])
               /\ UNCHANGED <<profiles, evidence>>
          [] run.pc = "closing" ->             \* one child is left, or all that remain
               /\ Swallowed([run EXCEPT !.cleanupError = TRUE,
                               !.at = IF stopping["run"] = NoStop THEN 0 ELSE @])
               /\ UNCHANGED <<profiles, evidence>>
          [] run.pc = "ports" ->
               /\ Swallowed([run EXCEPT !.pc = "removing", !.result = "failed-cleanup"])
               /\ UNCHANGED <<profiles, evidence>>
          [] run.pc = "removing" /\ Removable ->
               /\ Swallowed([run EXCEPT !.pc = "writing", !.result = "failed-cleanup"])
               /\ profiles' = "partial" /\ UNCHANGED evidence
          [] run.pc = "removing" /\ ~Removable -> Leaves /\ UNCHANGED <<profiles, evidence>>
          [] run.pc = "writing" ->
               /\ Leaves /\ UNCHANGED profiles /\ (Saved \/ UNCHANGED evidence)

Interrupt ==
    /\ run.pc \notin {"idle", "over"}
    /\ \/ pending /\ pending' = FALSE /\ UNCHANGED interrupts
       \/ interrupts < MaxInterrupts /\ interrupts' = interrupts + 1 /\ UNCHANGED pending
    /\ Interrupted
    /\ stopping' = [stopping EXCEPT !["run"] = NoStop]
    /\ orphans' = IF run.pc = "spawned" THEN orphans \cup {Plan[run.at].child} ELSE orphans
    /\ UNCHANGED <<mode, helper, children, paired, probing>>

-----------------------------------------------------------------------------
(* main, and _run_interruption_probe.                                      *)
StartRun ==
    /\ run.pc = "idle" /\ run' = [run EXCEPT !.pc = "setup"]
    /\ leader' = [leader EXCEPT !["harness"] = "up"]
    /\ IF mode = "pause"
       THEN /\ probe' = "waiting"
            /\ children' = [children EXCEPT !["probe"] = <<"harness">>]
       ELSE UNCHANGED <<probe, children>>
    /\ UNCHANGED <<mode, helper, stopping, orphans, files, exit, pending, interrupts, receipt>>

RunFrame == <<mode, orphans, files, interrupts>>

\* The marker is there; or the harness has exited, or the deadline passes.
ProbeStops ==
    /\ probe = "waiting" /\ StopBegins("probe", "harness")
    /\ \/ paired /\ probe' = "stopping"
       \/ probe' = "closing"
    /\ UNCHANGED <<RunFrame, leader, helper, children, run, exit, pending, receipt>>

ProbeStopStep ==
    /\ StopStep("probe")
    /\ pending' = (pending \/ (Step("probe") = "poll" /\ Up("harness")))
    /\ IF leader'["harness"] # leader["harness"]
       THEN run' = [run EXCEPT !.pc = "over"] /\ exit' = "killed"
       ELSE UNCHANGED <<run, exit>>
    /\ UNCHANGED <<RunFrame, children, probing>>

ProbeStopped ==
    /\ Stopped("probe")
    /\ stopping' = [stopping EXCEPT !["probe"] = NoStop]
    /\ children' = [children EXCEPT !["probe"] = <<>>]
    /\ probe' = IF probe = "stopping" THEN "reading" ELSE "over"
    /\ UNCHANGED <<RunFrame, leader, helper, run, exit, pending, receipt>>

\* Fault: only the error of the supervisor is looked at.
EvidenceHasNoError == evidence # NoEvidence /\ ~evidence[1].cleanupError

EvidenceIsClean ==
    /\ evidence # NoEvidence /\ evidence[1].result = "interrupted"
    /\ ~evidence[1].cleanupError

Judge ==
    /\ probe = "reading" /\ probe' = "over"
    /\ receipt' = (EvidenceIsClean /\ exit = "interrupted")
    /\ UNCHANGED <<RunFrame, supervised, children, run, exit, pending>>

-----------------------------------------------------------------------------
(* A child by itself.                                                      *)
ChildStep(p) ==
    /\ \/ /\ Up(p) /\ UNCHANGED helper
          /\ \/ leader' = [leader EXCEPT ![p] = "exited"]
             \/ p = "browser-test" /\ leader' = [leader EXCEPT ![p] = "passed"]
       \/ Up(p) /\ p \in Helpers /\ helper' = [helper EXCEPT ![p] = TRUE] /\ UNCHANGED leader
       \/ helper[p] /\ helper' = [helper EXCEPT ![p] = FALSE] /\ UNCHANGED leader
    /\ UNCHANGED <<mode, stopping, children, run, orphans, files, exit, pending,
                   interrupts, probing>>

RunStopStep ==
    run.pc # "over" /\ StopStep("run") /\ UNCHANGED <<Others, children, run, files, exit>>

Init ==
    /\ mode \in Mode
    /\ leader = [p \in Process |-> "unborn"] /\ helper = [p \in Process |-> FALSE]
    /\ children = [o \in {"probe", "run"} |-> <<>>]
    /\ stopping = [o \in {"probe", "run"} |-> NoStop]
    /\ run = [pc |-> "idle", at |-> 1, result |-> "incomplete", failure |-> "none",
              cleanupError |-> FALSE]
    /\ orphans = {} /\ profiles = "none" /\ paired = FALSE /\ evidence = NoEvidence
    /\ exit = "none" /\ pending = FALSE /\ interrupts = 0
    /\ probe = "off" /\ receipt = FALSE

RunStep ==
    \/ Verify \/ MakeProfiles \/ Launch \/ Register \/ Await \/ Pause
    \/ BeginStopPeer \/ PeerStopped \/ Handler \/ CloseWatchers
    \/ CloseNext \/ ChildClosed \/ Closed \/ CheckPorts \/ RemoveProfiles
    \/ WriteEvidence \/ RunStopStep

ProbeStep == ProbeStops \/ ProbeStopStep \/ ProbeStopped \/ Judge

Next ==
    \/ StartRun \/ RunStep \/ ProbeStep \/ Interrupt
    \/ \E p \in RunChild : ChildStep(p)

\* Each program runs on, and each wait has a deadline.  A child need do
\* nothing, and a signal need not be delivered.
Fairness == WF_vars(RunStep) /\ WF_vars(ProbeStep)

Spec == Init /\ [][Next]_vars /\ Fairness

-----------------------------------------------------------------------------
\* The processes and the phases of run() keep their types: the harness is alive
\* exactly while its run is, a run is over exactly when it has an exit status,
\* and descendants are of children that were started.
TypeOK ==
    /\ leader \in [Process -> {"unborn", "up", "exited", "passed", "killed"}]
    /\ \A p \in Process : helper[p] => p \in Helpers /\ leader[p] # "unborn"
    /\ run.pc \notin {"idle", "over"} <=> Up("harness")
    /\ run.pc = "over" <=> exit # "none"
    /\ run.pc \in {"body", "spawned"} => run.at \in DOMAIN Plan
    /\ profiles \in {"none", "whole", "partial", "removed"}
    /\ probe \in {"off", "waiting", "stopping", "reading", "closing", "over"}

\* Evidence that does not say "failed-cleanup" is right to say that every
\* process group was released, through any interrupt of the cleanup itself; it
\* knows nothing of a child that an interrupt took from Popen.
CleanIsTrue ==
    evidence # NoEvidence /\ evidence[1].result # "failed-cleanup" =>
        \A p \in RunChild \ orphans : GroupGone(p)

\* The probe's receipt: the run it interrupted has ended by itself, its
\* processes are all gone, and so are the private profiles.
ReceiptIsTrue ==
    receipt => /\ ~Up("harness") /\ \A p \in RunChild : GroupGone(p)
               /\ profiles = "removed"

\* A private profile is removed only when no client that the supervisor knows
\* runs on it; an orphan that an interrupt took from Popen may.
ProfilesOutliveClients ==
    profiles \in {"partial", "removed"} =>
        \A p \in {"p1", "p2"} \ orphans : GroupGone(p)

\* "Startup, pairing, gameplay and rematch each have deadlines": a run ends,
\* whatever its children, its cleanup and its interrupts do, and so does the
\* probe, and nothing waits for a child that ignores its signals.
RunEnds ==
    /\ run.pc = "setup" ~> run.pc = "over"
    /\ probe = "waiting" ~> probe = "over"

=============================================================================
