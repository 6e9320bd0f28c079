----------------------------- MODULE LocalRunProofs -----------------------------
(***************************************************************************)
(* Proofs about LocalRun for every choice of its modes, of the children    *)
(* that leave descendants or outlast SIGKILL, and any number of            *)
(* interrupts.                                                             *)
(***************************************************************************)
EXTENDS LocalRun, SequenceTheorems, TLAPS

Owner == {"probe", "run"}
State == {"unborn", "up", "exited", "passed", "killed"}
StopStates ==
    {"poll", "graceful", "term", "kill", "group", "groupTerm", "groupKill", "done", "raised"}
Phase == {"idle", "setup", "body", "spawned", "handler", "watchers", "closing",
          "ports", "removing", "writing", "over"}
Result == {"incomplete", "good", "failed", "interrupted", "failed-cleanup"}
RunType ==
    [pc : Phase, at : Nat, result : Result, failure : {"none", "failed", "interrupted"},
     cleanupError : BOOLEAN]
Doings == [do : {"profiles", "wait", "pause", "stop"}] \cup [do : {"start"}, child : RunChild]

Recorded(p) == \E i \in DOMAIN children["run"] : children["run"][i] = p
ChildrenGone == \A p \in RunChild \ orphans : GroupGone(p)

TypeInv ==
    /\ mode \in Mode
    /\ leader \in [Process -> State] /\ helper \in [Process -> BOOLEAN]
    /\ \A p \in Process : helper[p] => p \in Helpers /\ leader[p] # "unborn"
    /\ children \in [Owner -> Seq(Process)] /\ children["run"] \in Seq(RunChild)
    /\ stopping \in [Owner -> {NoStop} \cup [child : Process, step : StopStates]]
    /\ run \in RunType
    /\ profiles \in {"none", "whole", "partial", "removed"} /\ paired \in BOOLEAN
    /\ exit \in {"none", "passed", "failed", "interrupted", "killed"}
    /\ probe \in {"off", "waiting", "stopping", "reading", "closing", "over"}
    /\ receipt \in BOOLEAN

\* The harness runs from the start of its run to its end; its place in the plan
\* is one of the plan, and its profiles are there once it is past the first
PlaceInv ==
    /\ run.pc \notin {"idle", "over"} <=> Up("harness")
    /\ run.pc = "over" <=> exit # "none"
    /\ run.pc \in {"idle", "setup"} => run.at = 1
    /\ run.pc \in {"body", "spawned"} => run.at \in DOMAIN Plan
    /\ run.pc = "spawned" => Plan[run.at].do = "start"
    /\ run.pc \in {"body", "spawned"} /\ run.at > 1 => profiles = "whole"
    /\ run.pc \in {"idle", "setup", "body", "spawned"} => orphans = {}
    /\ run.pc = "handler" => run.failure # "none"

\* A run that is paired has come to its pause, and stays there
PairedInv ==
    paired =>
        /\ orphans = {} /\ profiles # "none"
        /\ run.pc \notin {"idle", "setup", "spawned"}
        /\ run.pc = "body" => Plan[run.at].do = "pause"

\* What _stop has found out of the child that it stops
StopInv ==
    /\ stopping["probe"] # NoStop => stopping["probe"].child = "harness"
    /\ stopping["run"] # NoStop /\ run.pc # "over" =>
          /\ \/ run.pc = "body" /\ Plan[run.at].do = "stop" /\ stopping["run"].child = "p1"
             \/ /\ run.pc = "closing" /\ run.at + 1 \in DOMAIN children["run"]
                /\ stopping["run"].child = children["run"][run.at + 1]
          /\ Step("run") \in {"group", "groupTerm", "groupKill"} => ~Up(stopping["run"].child)
          /\ Step("run") = "done" => GroupGone(stopping["run"].child)

\* What the supervisor owns: every child that is not gone, and while it closes
\* every child before its place is gone or has been reported
OwnedInv ==
    /\ run.pc # "over" =>
          \A p \in RunChild \ orphans :
             GroupGone(p) \/ Recorded(p) \/ (run.pc = "spawned" /\ Plan[run.at].child = p)
    /\ run.pc = "closing" =>
          /\ run.at <= Len(children["run"])
          /\ ~run.cleanupError =>
                \A i \in DOMAIN children["run"] : i > run.at =>
                   \/ GroupGone(children["run"][i])
                   \/ i = run.at + 1 /\ stopping["run"] # NoStop

\* What is known after the cleanup, and what is saved of it
CleanupInv ==
    /\ run.pc \in {"ports", "removing", "writing"} /\ run.result # "failed-cleanup" =>
          ChildrenGone
    /\ run.pc = "writing" /\ run.result \in {"good", "interrupted"} =>
          profiles \in {"none", "removed"}
    /\ profiles \in {"partial", "removed"} =>
          run.pc \in {"writing", "over"} /\ \A p \in {"p1", "p2"} \ orphans : GroupGone(p)
    /\ evidence # NoEvidence =>
          /\ run.pc = "over"
          /\ evidence[1].result # "failed-cleanup" => ChildrenGone
          /\ evidence[1].result = "interrupted" => profiles \in {"none", "removed"}

ProbeInv ==
    /\ probe \in {"stopping", "reading"} => paired
    /\ receipt => run.pc = "over" /\ profiles = "removed" /\ \A p \in RunChild : GroupGone(p)

IInv ==
    /\ TypeInv /\ PlaceInv /\ PairedInv /\ StopInv /\ OwnedInv /\ CleanupInv /\ ProbeInv

-----------------------------------------------------------------------------
\* A plan that makes the profiles first
Begun(s) == s \in Seq(Doings) /\ 1 \in DOMAIN s /\ s[1].do = "profiles"

\* More steps of a plan do not change how it begins.
LEMMA Appended ==
    ASSUME NEW s \in Seq(Doings), NEW t \in Seq(Doings)
    PROVE  s \o t \in Seq(Doings) /\ (Begun(s) => Begun(s \o t))
<1>1. /\ s \o t \in Seq(Doings) /\ Len(s \o t) = Len(s) + Len(t)
      /\ \A i \in 1..(Len(s) + Len(t)) :
            (s \o t)[i] = IF i <= Len(s) THEN s[i] ELSE t[i - Len(s)]
  BY ConcatProperties
<1>2. DOMAIN s = 1..Len(s) /\ Len(s) \in Nat /\ Len(t) \in Nat
      /\ DOMAIN (s \o t) = 1..Len(s \o t)
  BY <1>1
<1>3. 1 \in DOMAIN s => 1 \in 1..(Len(s) + Len(t)) /\ 1 <= Len(s)
  BY <1>2
<1>4. QED
  BY <1>1, <1>2, <1>3 DEF Begun

\* The plan of every mode makes the profiles first, and starts children of the run.
LEMMA PlanFacts ==
    /\ Plan \in Seq(Doings) /\ Len(Plan) \in Nat /\ DOMAIN Plan = 1..Len(Plan)
    /\ 1 \in DOMAIN Plan /\ Plan[1].do = "profiles"
    /\ \A i \in DOMAIN Plan :
          /\ i \in Nat /\ i >= 1
          /\ Plan[i].do = "start" => Plan[i].child \in RunChild
<1>1. \A x \in Doings : <<x>> \in Seq(Doings)
  OBVIOUS
<1>2. Wait \in Seq(Doings) /\ \A c \in RunChild : Start(c) \in Seq(Doings)
  BY <1>1 DEF Wait, Start, Doings
<1>3. /\ <<[do |-> "profiles"]>> \in Seq(Doings) /\ <<[do |-> "pause"]>> \in Seq(Doings)
      /\ <<[do |-> "stop"]>> \in Seq(Doings)
  BY <1>1 DEF Doings
<1>4. <<>> \in Seq(Doings)
  OBVIOUS
<1>5. \A c \in {"browser-bridge", "service", "p1", "p2", "browser-test"} : Start(c) \in Seq(Doings)
  BY <1>2 DEF RunChild
<1>6. /\ Start("browser-bridge") \o Wait \in Seq(Doings)
      /\ Start("browser-test") \o Wait \in Seq(Doings)
      /\ <<[do |-> "stop"]>> \o Wait \in Seq(Doings)
  BY <1>2, <1>3, <1>5, Appended
<1> DEFINE opens  == IF mode = "browser" THEN Start("browser-bridge") \o Wait ELSE <<>>
           pauses == IF mode = "pause" THEN <<[do |-> "pause"]>> ELSE <<>>
           tests  == IF mode = "browser" THEN Start("browser-test") \o Wait ELSE <<>>
           stops  == IF mode = "last" THEN <<[do |-> "stop"]>> \o Wait ELSE <<>>
           service == <<[do |-> "profiles"]>> \o opens \o Start("service") \o Wait
           clients == service \o Start("p1") \o Start("p2") \o Wait
<1>7. /\ opens \in Seq(Doings) /\ pauses \in Seq(Doings)
      /\ tests \in Seq(Doings) /\ stops \in Seq(Doings)
  BY <1>3, <1>4, <1>6
<1>8. Begun(<<[do |-> "profiles"]>>)
  BY <1>3 DEF Begun
<1>9. Begun(service)
  <2> HIDE DEF opens
  <2>1. Begun(<<[do |-> "profiles"]>> \o opens)
    BY <1>7, <1>8, Appended DEF Begun
  <2>2. Begun(<<[do |-> "profiles"]>> \o opens \o Start("service"))
    BY <1>5, <2>1, Appended DEF Begun
  <2>3. QED
    BY <1>2, <2>2, Appended DEF Begun
<1>10. Begun(clients)
  <2> HIDE DEF service
  <2>1. Begun(service \o Start("p1"))
    BY <1>5, <1>9, Appended DEF Begun
  <2>2. Begun(service \o Start("p1") \o Start("p2"))
    BY <1>5, <2>1, Appended DEF Begun
  <2>3. QED
    BY <1>2, <2>2, Appended DEF Begun
<1>11. Begun(clients \o pauses \o Wait \o tests \o Wait \o stops)
  <2> HIDE DEF clients, pauses, tests, stops
  <2>1. Begun(clients \o pauses)
    BY <1>7, <1>10, Appended DEF Begun
  <2>2. Begun(clients \o pauses \o Wait)
    BY <1>2, <2>1, Appended DEF Begun
  <2>3. Begun(clients \o pauses \o Wait \o tests)
    BY <1>7, <2>2, Appended DEF Begun
  <2>4. Begun(clients \o pauses \o Wait \o tests \o Wait)
    BY <1>2, <2>3, Appended DEF Begun
  <2>5. QED
    BY <1>7, <2>4, Appended DEF Begun
<1>12. Plan = clients \o pauses \o Wait \o tests \o Wait \o stops
  BY DEF Plan
<1>13. Begun(Plan)
  BY <1>11, <1>12
<1>14. QED
  BY <1>13 DEF Begun, Doings

-----------------------------------------------------------------------------
(* The steps that the actions share.                                       *)

\* The state of a run, field by field.
LEMMA RunFields ==
    ASSUME run \in RunType
    PROVE  /\ run = [pc |-> run.pc, at |-> run.at, result |-> run.result,
                     failure |-> run.failure, cleanupError |-> run.cleanupError]
           /\ run.pc \in Phase /\ run.at \in Nat /\ run.result \in Result
           /\ run.failure \in {"none", "failed", "interrupted"} /\ run.cleanupError \in BOOLEAN
BY DEF RunType

\* The run goes on to the next step of its plan, or its body is over.
Advanced ==
    /\ run' \in RunType /\ run'.failure = run.failure
    /\ run'.cleanupError = run.cleanupError
    /\ \/ /\ run'.pc = "body" /\ run'.at = run.at + 1 /\ run'.at \in DOMAIN Plan
          /\ run'.result = run.result
       \/ run'.pc = "watchers" /\ run'.at = run.at /\ run'.result = "good"

\* Advance does that.
LEMMA AdvanceFacts ==
    ASSUME TypeInv, PlaceInv, run.pc \in {"body", "spawned"}, Advance
    PROVE  Advanced
<1>1. run.at \in 1..Len(Plan) /\ Len(Plan) \in Nat
  BY PlanFacts DEF PlaceInv
<1>2. run \in RunType
  BY DEF TypeInv
<1>3. CASE run.at < Len(Plan)
  <2>1. run' = [run EXCEPT !.pc = "body", !.at = run.at + 1]
    BY <1>3 DEF Advance
  <2>2. run.at + 1 \in Nat /\ run.at + 1 \in DOMAIN Plan
    BY <1>1, <1>3, PlanFacts
  <2>3. run' \in RunType
    BY <1>2, <2>1, <2>2 DEF RunType, Phase
  <2>4. run'.pc = "body" /\ run'.at = run.at + 1 /\ run'.result = run.result
        /\ run'.failure = run.failure /\ run'.cleanupError = run.cleanupError
    BY <1>2, <2>1 DEF RunType
  <2>5. QED
    BY <2>2, <2>3, <2>4 DEF Advanced
<1>4. CASE ~(run.at < Len(Plan))
  <2>1. run' = [run EXCEPT !.pc = "watchers", !.result = "good"]
    BY <1>4 DEF Advance
  <2>2. run' \in RunType
    BY <1>2, <2>1 DEF RunType, Phase, Result
  <2>3. run'.pc = "watchers" /\ run'.at = run.at /\ run'.result = "good"
        /\ run'.failure = run.failure /\ run'.cleanupError = run.cleanupError
    BY <1>2, <2>1 DEF RunType
  <2>4. QED
    BY <2>2, <2>3 DEF Advanced
<1>5. QED
  BY <1>3, <1>4

\* The body raises.
Raised(why) ==
    /\ run' \in RunType /\ run'.pc = "handler" /\ run'.failure = why /\ run'.at = run.at
    /\ run'.result = run.result /\ run'.cleanupError = run.cleanupError

\* Raise does that.
LEMMA RaiseFacts ==
    ASSUME TypeInv, NEW why \in {"failed", "interrupted"}, Raise(why)
    PROVE  Raised(why)
BY DEF TypeInv, RunType, Phase, Raise, Raised

\* The harness exits.
Ended(code) ==
    /\ run' \in RunType /\ run'.pc = "over" /\ run'.at = run.at /\ run'.result = run.result
    /\ run'.failure = run.failure /\ run'.cleanupError = run.cleanupError
    /\ exit' = code /\ leader' \in [Process -> State] /\ leader'["harness"] = "exited"
    /\ \A p \in RunChild : leader'[p] = leader[p]

\* Ends does that.
LEMMA EndsFacts ==
    ASSUME TypeInv, NEW code, Ends(code)
    PROVE  Ended(code)
<1>1. run' = [run EXCEPT !.pc = "over"] /\ run \in RunType /\ leader \in [Process -> State]
      /\ exit' = code /\ leader' = [leader EXCEPT !["harness"] = "exited"]
  BY DEF TypeInv, Ends
<1>2. /\ run' \in RunType /\ run'.pc = "over" /\ run'.at = run.at /\ run'.result = run.result
      /\ run'.failure = run.failure /\ run'.cleanupError = run.cleanupError
  BY <1>1 DEF RunType, Phase
<1>3. /\ leader' \in [Process -> State] /\ leader'["harness"] = "exited"
      /\ \A p \in RunChild : leader'[p] = leader[p]
  BY <1>1 DEF Process, RunChild, State
<1>4. QED
  BY <1>1, <1>2, <1>3 DEF Ended

-----------------------------------------------------------------------------
(* _stop.                                                                  *)

\* What a step of _stop does to the child c of the owner o.
StopMoves(o, c) ==
    /\ stopping[o] # NoStop /\ c = stopping[o].child /\ c \in Process
    /\ stopping' \in [Owner -> {NoStop} \cup [child : Process, step : StopStates]]
    /\ stopping'[o] # NoStop /\ stopping'[o].child = c
    /\ \A x \in Owner : x # o => stopping'[x] = stopping[x]
    /\ leader' \in [Process -> State] /\ helper' \in [Process -> BOOLEAN]
    /\ \A p \in Process : /\ leader'[p] = leader[p] \/ (p = c /\ Up(p) /\ leader'[p] = "killed")
                          /\ helper'[p] => helper[p]
    /\ stopping'[o].step \in {"group", "groupTerm", "groupKill"} =>
          leader'[c] # "up" \/ stopping[o].step \in {"group", "groupTerm", "groupKill"}
    /\ stopping'[o].step = "done" =>
          /\ ~helper'[c]
          /\ stopping[o].step \in {"group", "groupTerm", "groupKill"}

\* Every step of _stop moves so: a leader is only killed while it is up, and _stop is done
\* only from the steps that wait for the group, when no descendant is left.
LEMMA StopMove ==
    ASSUME TypeInv, NEW o \in Owner, StopStep(o), NEW c, c = stopping[o].child
    PROVE  StopMoves(o, c)
<1>1. stopping[o] \in [child : Process, step : StopStates] /\ stopping[o] # NoStop
  <2>1. stopping[o] \in {NoStop} \cup [child : Process, step : StopStates]
    BY DEF TypeInv
  <2>2. Step(o) \in {"poll", "graceful", "term", "kill", "group", "groupTerm", "groupKill"}
    BY DEF StopStep, WaitLeader, WaitGroup
  <2>3. Step(o) # "none"
    BY <2>2
  <2>4. stopping[o] # NoStop
    BY <2>3 DEF Step, NoStop
  <2>5. QED
    BY <2>1, <2>4
<1>2. c \in Process /\ Step(o) \in StopStates
  BY <1>1 DEF Step
<1>3. ASSUME NEW s \in StopStates, Goes(o, s)
      PROVE  /\ stopping' \in [Owner -> {NoStop} \cup [child : Process, step : StopStates]]
             /\ stopping'[o] # NoStop /\ stopping'[o].child = c /\ stopping'[o].step = s
             /\ \A x \in Owner : x # o => stopping'[x] = stopping[x]
  <2>1. stopping \in [Owner -> {NoStop} \cup [child : Process, step : StopStates]]
    BY DEF TypeInv
  <2>2. PICK g : g = [stopping[o] EXCEPT !.step = s]
    OBVIOUS
  <2>3. stopping' = [stopping EXCEPT ![o] = g]
    BY <1>3, <2>2 DEF Goes
  <2>4. g = [child |-> c, step |-> s] /\ g \in [child : Process, step : StopStates]
    BY <1>1, <1>2, <2>2
  <2>5. g.step # "none" /\ g.step = s /\ g.child = c
    BY <2>4 DEF StopStates
  <2>6. g # NoStop
    BY <2>5 DEF NoStop
  <2>7. stopping'[o] = g /\ \A x \in Owner : x # o => stopping'[x] = stopping[x]
    BY <2>1, <2>3
  <2>8. stopping' \in [Owner -> {NoStop} \cup [child : Process, step : StopStates]]
    BY <2>1, <2>3, <2>4
  <2>9. QED
    BY <2>5, <2>6, <2>7, <2>8
<1>4. leader \in [Process -> State] /\ helper \in [Process -> BOOLEAN]
  BY DEF TypeInv
<1> DEFINE Falls == /\ leader' \in [Process -> State] /\ helper' \in [Process -> BOOLEAN]
                    /\ \A p \in Process :
                          /\ leader'[p] = leader[p] \/ (p = c /\ Up(p) /\ leader'[p] = "killed")
                          /\ helper'[p] => helper[p]
<1>5. NoSignal(c) => Falls
  BY <1>4 DEF NoSignal
<1>6. Terminate(c) /\ Up(c) => Falls
  BY <1>2, <1>4 DEF Terminate, State, Up
<1>7. Kill(c) => Falls
  BY <1>2, <1>4 DEF Kill, State, Up
<1>8. UNCHANGED <<leader, helper>> => Falls
  BY <1>4
<1> HIDE DEF Falls
<1> DEFINE InGroup == {"group", "groupTerm", "groupKill"}
           Good(s) == /\ Goes(o, s) /\ Falls
                      /\ s \in InGroup => leader'[c] # "up" \/ Step(o) \in InGroup
                      /\ s = "done" => ~helper'[c] /\ Step(o) \in InGroup
<1> SUFFICES \E s \in StopStates : Good(s)
  BY <1>1, <1>3 DEF StopMoves, Falls, Step
<1>9. CASE WaitLeader(o, "poll", NoSignal, "graceful")
  <2>1. CASE Up(c)
    <3>1. Goes(o, "graceful") /\ Falls
      BY <1>5, <1>9, <2>1 DEF WaitLeader
    <3>2. Good("graceful") /\ "graceful" \in StopStates
      BY <3>1 DEF StopStates
    <3>3. QED
      BY <3>2
  <2>2. CASE ~Up(c)
    <3>1. Goes(o, "group") /\ Falls /\ leader'[c] # "up"
      <4>1. Goes(o, "group") /\ UNCHANGED <<leader, helper>>
        BY <1>9, <2>2 DEF WaitLeader
      <4>2. QED
        BY <1>8, <2>2, <4>1 DEF Up
    <3>2. Good("group") /\ "group" \in StopStates
      BY <3>1 DEF StopStates
    <3>3. QED
      BY <3>2
  <2>3. QED
    BY <2>1, <2>2
<1>10. CASE WaitLeader(o, "graceful", Terminate, "term")
  <2>1. CASE Up(c)
    <3>1. Goes(o, "term") /\ Falls
      BY <1>6, <1>10, <2>1 DEF WaitLeader
    <3>2. Good("term") /\ "term" \in StopStates
      BY <3>1 DEF StopStates
    <3>3. QED
      BY <3>2
  <2>2. CASE ~Up(c)
    <3>1. Goes(o, "group") /\ Falls /\ leader'[c] # "up"
      <4>1. Goes(o, "group") /\ UNCHANGED <<leader, helper>>
        BY <1>10, <2>2 DEF WaitLeader
      <4>2. QED
        BY <1>8, <2>2, <4>1 DEF Up
    <3>2. Good("group") /\ "group" \in StopStates
      BY <3>1 DEF StopStates
    <3>3. QED
      BY <3>2
  <2>3. QED
    BY <2>1, <2>2
<1>11. CASE WaitLeader(o, "term", Kill, "kill")
  <2>1. CASE Up(c)
    <3>1. Goes(o, "kill") /\ Falls
      BY <1>7, <1>11, <2>1 DEF WaitLeader
    <3>2. Good("kill") /\ "kill" \in StopStates
      BY <3>1 DEF StopStates
    <3>3. QED
      BY <3>2
  <2>2. CASE ~Up(c)
    <3>1. Goes(o, "group") /\ Falls /\ leader'[c] # "up"
      <4>1. Goes(o, "group") /\ UNCHANGED <<leader, helper>>
        BY <1>11, <2>2 DEF WaitLeader
      <4>2. QED
        BY <1>8, <2>2, <4>1 DEF Up
    <3>2. Good("group") /\ "group" \in StopStates
      BY <3>1 DEF StopStates
    <3>3. QED
      BY <3>2
  <2>3. QED
    BY <2>1, <2>2
<1>12. CASE WaitLeader(o, "kill", NoSignal, "raised")
  <2>1. CASE Up(c)
    <3>1. Goes(o, "raised") /\ Falls
      BY <1>5, <1>12, <2>1 DEF WaitLeader
    <3>2. Good("raised") /\ "raised" \in StopStates
      BY <3>1 DEF StopStates
    <3>3. QED
      BY <3>2
  <2>2. CASE ~Up(c)
    <3>1. Goes(o, "group") /\ Falls /\ leader'[c] # "up"
      <4>1. Goes(o, "group") /\ UNCHANGED <<leader, helper>>
        BY <1>12, <2>2 DEF WaitLeader
      <4>2. QED
        BY <1>8, <2>2, <4>1 DEF Up
    <3>2. Good("group") /\ "group" \in StopStates
      BY <3>1 DEF StopStates
    <3>3. QED
      BY <3>2
  <2>3. QED
    BY <2>1, <2>2
<1>13. CASE WaitGroup(o, "group", NoSignal, "groupTerm")
  BY <1>5, <1>8, <1>13 DEF WaitGroup, StopStates
<1>14. CASE WaitGroup(o, "groupTerm", Kill, "groupKill")
  BY <1>7, <1>8, <1>14 DEF WaitGroup, StopStates
<1>15. CASE WaitGroup(o, "groupKill", NoSignal, "raised")
  BY <1>5, <1>8, <1>15 DEF WaitGroup, StopStates
<1>16. QED
  BY <1>9, <1>10, <1>11, <1>12, <1>13, <1>14, <1>15 DEF StopStep

\* A _stop begins, or is over.
LEMMA StopBegun ==
    ASSUME TypeInv, NEW o \in Owner, NEW p \in Process, StopBegins(o, p)
    PROVE  /\ stopping' \in [Owner -> {NoStop} \cup [child : Process, step : StopStates]]
           /\ stopping'[o] # NoStop /\ stopping'[o].child = p /\ stopping'[o].step = "poll"
           /\ \A x \in Owner : x # o => stopping'[x] = stopping[x]
<1>1. PICK g : g = [child |-> p, step |-> "poll"]
  OBVIOUS
<1>2. g \in [child : Process, step : StopStates] /\ g.step = "poll" /\ g.child = p
  BY <1>1 DEF StopStates
<1>3. g # NoStop
  BY <1>2 DEF NoStop
<1>4. stopping' = [stopping EXCEPT ![o] = g]
  BY <1>1 DEF StopBegins
<1>5. QED
  BY <1>2, <1>3, <1>4 DEF TypeInv

\* The supervisor lets go of a _stop that is over.
LEMMA StopOver ==
    ASSUME TypeInv, NEW o \in Owner, stopping' = [stopping EXCEPT ![o] = NoStop]
    PROVE  /\ stopping' \in [Owner -> {NoStop} \cup [child : Process, step : StopStates]]
           /\ stopping'[o] = NoStop
           /\ \A x \in Owner : x # o => stopping'[x] = stopping[x]
BY DEF TypeInv

\* The children of the run are processes.
LEMMA RunChildren ==
    /\ RunChild \subseteq Process
    /\ \A s \in Seq(RunChild) : s \in Seq(Process)
BY DEF Process, RunChild

\* A child that is added is recorded, and so are those that were.
LEMMA AppendedChild ==
    ASSUME NEW s \in Seq(RunChild), NEW c \in RunChild
    PROVE  /\ Append(s, c) \in Seq(RunChild)
           /\ \E j \in DOMAIN Append(s, c) : Append(s, c)[j] = c
           /\ \A i \in DOMAIN s : \E j \in DOMAIN Append(s, c) : Append(s, c)[j] = s[i]
<1>1. /\ Append(s, c) \in Seq(RunChild) /\ Len(s) \in Nat
      /\ DOMAIN s = 1..Len(s) /\ DOMAIN Append(s, c) = 1..(Len(s) + 1)
      /\ Append(s, c)[Len(s) + 1] = c /\ \A i \in 1..Len(s) : Append(s, c)[i] = s[i]
  OBVIOUS
<1>2. Len(s) + 1 \in DOMAIN Append(s, c) /\ \A i \in DOMAIN s : i \in DOMAIN Append(s, c)
  BY <1>1
<1>3. QED
  BY <1>1, <1>2

\* A child that is removed takes no other with it.
LEMMA RemovedChild ==
    ASSUME NEW s \in Seq(RunChild), NEW i \in DOMAIN s
    PROVE  /\ RemoveAt(s, i) \in Seq(RunChild)
           /\ \A k \in DOMAIN s : k # i =>
                 \E j \in DOMAIN RemoveAt(s, i) : RemoveAt(s, i)[j] = s[k]
<1> DEFINE n == Len(s)
           a == SubSeq(s, 1, i - 1)
           b == SubSeq(s, i + 1, n)
<1>1. n \in Nat /\ i \in 1..n /\ DOMAIN s = 1..n
  OBVIOUS
<1>2. /\ a \in Seq(RunChild) /\ Len(a) = i - 1 /\ \A k \in 1..(i - 1) : a[k] = s[k]
      /\ b \in Seq(RunChild) /\ Len(b) = n - i /\ \A k \in 1..(n - i) : b[k] = s[i + k]
  <2>1. 1 \in 1..n + 1 /\ i - 1 \in 0..n /\ i + 1 \in 1..n + 1 /\ n \in i..n
    BY <1>1
  <2>2. /\ a \in Seq(RunChild) /\ Len(a) = IF 1 <= i - 1 THEN i - 1 - 1 + 1 ELSE 0
        /\ \A k \in 1..(i - 1 - 1 + 1) : a[k] = s[1 + k - 1]
    BY <1>1, <2>1, SubSeqProperties
  <2>3. /\ b \in Seq(RunChild) /\ Len(b) = IF i + 1 <= n THEN n - (i + 1) + 1 ELSE 0
        /\ \A k \in 1..(n - (i + 1) + 1) : b[k] = s[i + 1 + k - 1]
    BY <1>1, <2>1, SubSeqProperties
  <2> HIDE DEF a, b
  <2>4. /\ Len(a) = i - 1 /\ \A k \in 1..(i - 1) : a[k] = s[k]
    BY <1>1, <2>2
  <2>5. /\ Len(b) = n - i /\ \A k \in 1..(n - i) : b[k] = s[i + k]
    <3>1. n - (i + 1) + 1 = n - i /\ (i + 1 <= n <=> 1 <= n - i) /\ n - i \in Nat
      BY <1>1
    <3>2. \A k \in 1..(n - i) : i + 1 + k - 1 = i + k
      BY <1>1
    <3>3. QED
      BY <2>3, <3>1, <3>2
  <2>6. QED
    BY <2>2, <2>3, <2>4, <2>5
<1>3. RemoveAt(s, i) = a \o b
  BY DEF RemoveAt
<1> HIDE DEF a, b
<1>4. /\ a \o b \in Seq(RunChild) /\ Len(a \o b) = n - 1
      /\ \A k \in 1..(n - 1) : (a \o b)[k] = IF k <= i - 1 THEN a[k] ELSE b[k - (i - 1)]
  <2>1. /\ a \o b \in Seq(RunChild) /\ Len(a \o b) = Len(a) + Len(b)
        /\ \A k \in 1..(Len(a) + Len(b)) :
              (a \o b)[k] = IF k <= Len(a) THEN a[k] ELSE b[k - Len(a)]
    BY <1>2, ConcatProperties
  <2>2. Len(a) + Len(b) = n - 1
    BY <1>1, <1>2
  <2>3. QED
    BY <1>2, <2>1, <2>2
<1>5. ASSUME NEW k \in DOMAIN s, k # i
      PROVE  \E j \in DOMAIN (a \o b) : (a \o b)[j] = s[k]
  <2>1. DOMAIN (a \o b) = 1..(n - 1)
    BY <1>4
  <2>2. CASE k < i
    <3>1. k \in 1..(n - 1) /\ k \in 1..(i - 1) /\ k <= i - 1
      BY <1>1, <2>2
    <3>2. (a \o b)[k] = s[k]
      BY <1>2, <1>4, <3>1
    <3>3. QED
      BY <2>1, <3>1, <3>2
  <2>3. CASE ~(k < i)
    <3>1. /\ k - 1 \in 1..(n - 1) /\ ~(k - 1 <= i - 1) /\ k - i \in 1..(n - i)
          /\ (k - 1) - (i - 1) = k - i /\ i + (k - i) = k
      BY <1>1, <1>5, <2>3
    <3>2. (a \o b)[k - 1] = s[k]
      BY <1>2, <1>4, <3>1
    <3>3. QED
      BY <2>1, <3>1, <3>2
  <2>4. QED
    BY <2>2, <2>3
<1>6. QED
  BY <1>3, <1>4, <1>5

\* The harness starts, under the probe when the mode is its own.
LEMMA StartRunInv ==
    ASSUME IInv, StartRun
    PROVE  IInv'
<1>1. /\ TypeInv /\ PlaceInv /\ PairedInv /\ StopInv /\ OwnedInv /\ CleanupInv /\ ProbeInv
      /\ run \in RunType
  BY DEF IInv, TypeInv
<1>2. mode' = mode /\ Plan' = Plan
  BY <1>1 DEF StartRun, files, Plan
<1>3. UNCHANGED <<mode, orphans, pending, interrupts, receipt, helper, stopping, profiles,
                  paired, evidence, exit>>
  BY <1>1 DEF StartRun, files
<1>4. run.pc = "idle" /\ run' \in RunType /\ run'.pc = "setup" /\ run'.at = run.at
      /\ run'.result = run.result /\ run'.failure = run.failure /\ run'.cleanupError = run.cleanupError
  BY <1>1 DEF StartRun, RunType, Phase, Result
<1>5. leader' \in [Process -> State] /\ leader'["harness"] = "up"
      /\ \A p \in RunChild : leader'[p] = leader[p]
  BY <1>1 DEF StartRun, TypeInv, Process, RunChild, State
<1>6. children'["run"] = children["run"]
      /\ children' \in [Owner -> Seq(Process)] /\ probe' \in {probe, "waiting"}
  <2>1. <<"harness">> \in Seq(Process)
    BY DEF Process
  <2>2. children \in [Owner -> Seq(Process)] /\ Owner = {"probe", "run"}
    BY <1>1 DEF TypeInv, Owner
  <2>3. QED
    BY <2>1, <2>2 DEF StartRun
<1>7. TypeInv'
  BY <1>1, <1>3, <1>4, <1>5, <1>6 DEF TypeInv, Process
<1>8. PlaceInv'
  BY <1>1, <1>3, <1>4, <1>5 DEF PlaceInv, Up
<1>9. PairedInv'
  BY <1>1, <1>3, <1>4 DEF PairedInv
<1>10. StopInv'
  BY <1>1, <1>3, <1>4 DEF StopInv
<1>11. OwnedInv'
  BY <1>1, <1>3, <1>4, <1>5, <1>6 DEF OwnedInv, Up, GroupGone, Recorded
<1>12. CleanupInv'
  BY <1>1, <1>3, <1>4 DEF CleanupInv
<1>13. ProbeInv'
  BY <1>1, <1>3, <1>4, <1>6 DEF ProbeInv
<1>14. QED
  BY <1>7, <1>8, <1>9, <1>10, <1>11, <1>12, <1>13 DEF IInv

\* run() has verified its inputs, or raises before the guarded body.
LEMMA VerifyInv ==
    ASSUME IInv, Verify
    PROVE  IInv'
<1>1. /\ TypeInv /\ PlaceInv /\ PairedInv /\ StopInv /\ OwnedInv /\ CleanupInv /\ ProbeInv
      /\ run \in RunType
  BY DEF IInv, TypeInv
<1>2. mode' = mode /\ Plan' = Plan
  BY DEF Verify, Others, Plan
<1>3. UNCHANGED <<mode, orphans, pending, interrupts, probe, receipt, helper, stopping,
                  children, profiles, paired, evidence>>
  BY DEF Verify, Others, probing, files
<1>4. run.pc = "setup" /\ run' \in RunType /\ run'.at = run.at
      /\ run'.result = run.result /\ run'.failure = run.failure
      /\ run'.cleanupError = run.cleanupError
      /\ \/ run'.pc = "body" /\ UNCHANGED <<leader, exit>>
         \/ Ended("failed")
  <2>1. CASE Ends("failed")
    BY <1>1, <2>1, EndsFacts DEF Verify, Ended
  <2>2. CASE run' = [run EXCEPT !.pc = "body"] /\ UNCHANGED <<leader, exit>>
    BY <1>1, <2>2 DEF Verify, RunType, Phase
  <2>3. QED
    BY <2>1, <2>2 DEF Verify
<1>5. TypeInv'
  BY <1>1, <1>3, <1>4 DEF Ended, TypeInv, Process
<1>6. PlaceInv'
  BY <1>1, <1>2, <1>3, <1>4, PlanFacts DEF Ended, PlaceInv, Up
<1>7. PairedInv'
  BY <1>1, <1>3, <1>4 DEF PairedInv
<1>8. StopInv'
  BY <1>1, <1>3, <1>4 DEF StopInv
<1>9. OwnedInv'
  BY <1>1, <1>3, <1>4 DEF Ended, OwnedInv, Up, GroupGone, Recorded
<1>10. CleanupInv'
  BY <1>1, <1>3, <1>4 DEF Ended, CleanupInv
<1>11. ProbeInv'
  BY <1>1, <1>3, <1>4 DEF ProbeInv
<1>12. QED
  BY <1>5, <1>6, <1>7, <1>8, <1>9, <1>10, <1>11 DEF IInv

\* The profiles are made, wholly or in part.
LEMMA MakeProfilesInv ==
    ASSUME IInv, MakeProfiles
    PROVE  IInv'
<1>1. /\ TypeInv /\ PlaceInv /\ PairedInv /\ StopInv /\ OwnedInv /\ CleanupInv /\ ProbeInv
      /\ run \in RunType
  BY DEF IInv, TypeInv
<1>2. mode' = mode /\ Plan' = Plan
  BY DEF MakeProfiles, Others, Plan
<1>3. UNCHANGED <<mode, orphans, pending, interrupts, probe, receipt, leader, helper,
                  stopping, children, paired, evidence, exit>>
  BY DEF MakeProfiles, Others, probing, supervised
<1>4. run.pc = "body" /\ Plan[run.at].do = "profiles"
      /\ \/ Advanced /\ profiles' = "whole"
         \/ Raised("failed") /\ profiles' \in {"none", "whole"}
  BY <1>1, AdvanceFacts, RaiseFacts DEF MakeProfiles, Doing
<1>5. TypeInv'
  BY <1>1, <1>3, <1>4 DEF Advanced, Raised, TypeInv
<1>6. PlaceInv'
  BY <1>1, <1>2, <1>3, <1>4 DEF Advanced, Raised, PlaceInv, Up
<1>7. PairedInv'
  BY <1>1, <1>3, <1>4 DEF PairedInv
<1>8. StopInv'
  BY <1>1, <1>3, <1>4 DEF StopInv
<1>9. OwnedInv'
  BY <1>1, <1>3, <1>4 DEF Advanced, Raised, OwnedInv, Up, GroupGone, Recorded
<1>10. CleanupInv'
  BY <1>1, <1>3, <1>4 DEF Advanced, Raised, CleanupInv
<1>11. ProbeInv'
  BY <1>1, <1>3, <1>4 DEF ProbeInv
<1>12. QED
  BY <1>5, <1>6, <1>7, <1>8, <1>9, <1>10, <1>11 DEF IInv

\* Popen: the child is up, and no supervisor holds it yet.
LEMMA LaunchInv ==
    ASSUME IInv, Launch
    PROVE  IInv'
<1>1. /\ TypeInv /\ PlaceInv /\ PairedInv /\ StopInv /\ OwnedInv /\ CleanupInv /\ ProbeInv
      /\ run \in RunType
  BY DEF IInv, TypeInv
<1>2. mode' = mode /\ Plan' = Plan
  BY DEF Launch, Others, Plan
<1>3. UNCHANGED <<mode, orphans, pending, interrupts, probe, receipt, helper, stopping,
                  children, profiles, paired, evidence, exit>>
  BY DEF Launch, Others, probing, files
<1>4. run.pc = "body" /\ Plan[run.at].do = "start" /\ run.at \in DOMAIN Plan
      /\ Plan[run.at].child \in RunChild
  BY <1>1, PlanFacts DEF Launch, Doing, PlaceInv
<1>5. \/ Raised("failed") /\ leader' = leader
      \/ /\ run' \in RunType /\ run'.pc = "spawned" /\ run'.at = run.at
         /\ run'.result = run.result /\ run'.failure = run.failure
         /\ run'.cleanupError = run.cleanupError
         /\ leader' \in [Process -> State]
         /\ \A p \in Process : leader'[p] = IF p = Plan[run.at].child THEN "up" ELSE leader[p]
  <2>1. CASE Raise("failed") /\ UNCHANGED leader
    BY <1>1, <2>1, RaiseFacts
  <2>2. CASE /\ run' = [run EXCEPT !.pc = "spawned"]
             /\ leader' = [leader EXCEPT ![Plan[run.at].child] = "up"]
    <3>1. /\ run' \in RunType /\ run'.pc = "spawned" /\ run'.at = run.at
          /\ run'.result = run.result /\ run'.failure = run.failure
          /\ run'.cleanupError = run.cleanupError
      BY <1>1, <2>2 DEF RunType, Phase
    <3>2. leader \in [Process -> State] /\ "up" \in State
      BY <1>1 DEF TypeInv, State
    <3>3. QED
      BY <2>2, <3>1, <3>2
  <2>3. QED
    BY <2>1, <2>2 DEF Launch
<1>6. TypeInv'
  BY <1>1, <1>3, <1>5 DEF Raised, TypeInv
<1>7. PlaceInv'
  BY <1>1, <1>2, <1>3, <1>4, <1>5 DEF Raised, PlaceInv, Process, Up
<1>8. PairedInv'
  BY <1>1, <1>3, <1>4 DEF PairedInv
<1>9. StopInv'
  BY <1>1, <1>3, <1>4 DEF StopInv
<1>10. OwnedInv'
  BY <1>1, <1>2, <1>3, <1>4, <1>5 DEF Raised, OwnedInv, Process, Up, GroupGone, Recorded
<1>11. CleanupInv'
  BY <1>1, <1>3, <1>4, <1>5 DEF Raised, CleanupInv
<1>12. ProbeInv'
  BY <1>1, <1>3, <1>4 DEF ProbeInv
<1>13. QED
  BY <1>6, <1>7, <1>8, <1>9, <1>10, <1>11, <1>12 DEF IInv

\* The child is appended to those of the supervisor.
LEMMA RegisterInv ==
    ASSUME IInv, Register
    PROVE  IInv'
<1>1. /\ TypeInv /\ PlaceInv /\ PairedInv /\ StopInv /\ OwnedInv /\ CleanupInv /\ ProbeInv
      /\ run \in RunType
  BY DEF IInv, TypeInv
<1>2. mode' = mode /\ Plan' = Plan
  BY DEF Register, Others, Plan
<1>3. UNCHANGED <<mode, orphans, pending, interrupts, probe, receipt, leader, helper,
                  stopping, profiles, paired, evidence, exit>>
  BY DEF Register, Others, probing, supervised, files
<1>4. run.pc = "spawned" /\ Advanced /\ run.at \in DOMAIN Plan /\ Plan[run.at].do = "start"
      /\ Plan[run.at].child \in RunChild
  BY <1>1, AdvanceFacts, PlanFacts DEF Register, PlaceInv
<1>5. PICK c \in RunChild : c = Plan[run.at].child
  BY <1>1, <1>4
<1>6. children' \in [Owner -> Seq(Process)] /\ children'["run"] \in Seq(RunChild)
      /\ Recorded(c)'
      /\ \A p \in RunChild : Recorded(p) => Recorded(p)'
  <2>1. children \in [Owner -> Seq(Process)] /\ children["run"] \in Seq(RunChild)
        /\ "run" \in Owner
    BY <1>1 DEF TypeInv, Owner
  <2>2. PICK s : s = Append(children["run"], c)
    OBVIOUS
  <2>3. /\ s \in Seq(RunChild) /\ \E j \in DOMAIN s : s[j] = c
        /\ \A i \in DOMAIN children["run"] : \E j \in DOMAIN s : s[j] = children["run"][i]
    BY <2>1, <2>2, AppendedChild
  <2>4. children' = [children EXCEPT !["run"] = s]
    BY <1>5, <2>2 DEF Register
  <2>5. children' \in [Owner -> Seq(Process)] /\ children'["run"] = s
    BY <2>1, <2>3, <2>4, RunChildren
  <2>6. Recorded(c)'
    BY <1>2, <2>3, <2>5 DEF Recorded
  <2>7. ASSUME NEW p \in RunChild, Recorded(p)  PROVE Recorded(p)'
    BY <2>3, <2>5, <2>7 DEF Recorded
  <2>8. QED
    BY <2>3, <2>5, <2>6, <2>7
<1>7. TypeInv'
  BY <1>1, <1>3, <1>4, <1>6 DEF Advanced, TypeInv
<1>8. PlaceInv'
  BY <1>1, <1>2, <1>3, <1>4, PlanFacts DEF Advanced, PlaceInv, Up
<1>9. PairedInv'
  BY <1>1, <1>3, <1>4 DEF PairedInv
<1>10. StopInv'
  BY <1>1, <1>3, <1>4 DEF StopInv
<1>11. OwnedInv'
  <2>1. (run.pc # "over" =>
          \A p \in RunChild \ orphans :
             GroupGone(p) \/ Recorded(p) \/ (run.pc = "spawned" /\ Plan[run.at].child = p))'
    BY <1>1, <1>3, <1>4, <1>5, <1>6
       DEF Advanced, TypeInv, PlaceInv, StopInv, OwnedInv, Owner, RunChild, Up, GroupGone
  <2>2. (run.pc = "closing" =>
          /\ run.at <= Len(children["run"])
          /\ ~run.cleanupError =>
                \A i \in DOMAIN children["run"] : i > run.at =>
                   \/ GroupGone(children["run"][i])
                   \/ i = run.at + 1 /\ stopping["run"] # NoStop)'
    BY <1>4 DEF Advanced
  <2>3. QED
    BY <1>2, <2>1, <2>2 DEF OwnedInv
<1>12. CleanupInv'
  BY <1>1, <1>3, <1>4 DEF Advanced, CleanupInv
<1>13. ProbeInv'
  BY <1>1, <1>3, <1>4 DEF ProbeInv
<1>14. QED
  BY <1>7, <1>8, <1>9, <1>10, <1>11, <1>12, <1>13 DEF IInv

\* A wait is over, or its deadline has passed.
LEMMA AwaitInv ==
    ASSUME IInv, Await
    PROVE  IInv'
<1>1. /\ TypeInv /\ PlaceInv /\ PairedInv /\ StopInv /\ OwnedInv /\ CleanupInv /\ ProbeInv
      /\ run \in RunType
  BY DEF IInv, TypeInv
<1>2. mode' = mode /\ Plan' = Plan
  BY DEF Await, Others, Plan
<1>3. UNCHANGED <<mode, orphans, pending, interrupts, probe, receipt, leader, helper,
                  stopping, children, profiles, paired, evidence, exit>>
  BY DEF Await, Others, probing, supervised, files
<1>4. run.pc = "body" /\ Plan[run.at].do = "wait" /\ (Advanced \/ Raised("failed"))
  BY <1>1, AdvanceFacts, RaiseFacts DEF Await, Doing
<1>5. TypeInv'
  BY <1>1, <1>3, <1>4 DEF Advanced, Raised, TypeInv
<1>6. PlaceInv'
  BY <1>1, <1>2, <1>3, <1>4, PlanFacts DEF Advanced, Raised, PlaceInv, Up
<1>7. PairedInv'
  BY <1>1, <1>3, <1>4 DEF PairedInv
<1>8. StopInv'
  BY <1>1, <1>3, <1>4 DEF StopInv
<1>9. OwnedInv'
  BY <1>1, <1>3, <1>4 DEF Advanced, Raised, OwnedInv, Up, GroupGone, Recorded
<1>10. CleanupInv'
  BY <1>1, <1>3, <1>4 DEF Advanced, Raised, CleanupInv
<1>11. ProbeInv'
  BY <1>1, <1>3, <1>4 DEF ProbeInv
<1>12. QED
  BY <1>5, <1>6, <1>7, <1>8, <1>9, <1>10, <1>11 DEF IInv

\* The run has paired, and pauses for the probe.
LEMMA PauseInv ==
    ASSUME IInv, Pause
    PROVE  IInv'
<1>1. /\ TypeInv /\ PlaceInv /\ PairedInv /\ StopInv /\ OwnedInv /\ CleanupInv /\ ProbeInv
      /\ run \in RunType
  BY DEF IInv, TypeInv
<1>2. mode' = mode /\ Plan' = Plan
  BY DEF Pause, Others, Plan
<1>3. UNCHANGED <<mode, orphans, pending, interrupts, probe, receipt, leader, helper,
                  stopping, children, profiles, evidence, exit>>
  BY DEF Pause, Others, probing, supervised
<1>4. run.pc = "body" /\ Plan[run.at].do = "pause" /\ run.at \in DOMAIN Plan
      /\ run.at \in Nat /\ run.at >= 1
      /\ ((paired' = TRUE /\ run' = run) \/ (Raised("failed") /\ paired' = paired))
  BY <1>1, PlanFacts, RaiseFacts DEF Pause, Doing, PlaceInv
<1>5. TypeInv'
  BY <1>1, <1>3, <1>4 DEF Raised, TypeInv
<1>6. PlaceInv'
  BY <1>1, <1>2, <1>3, <1>4 DEF Raised, PlaceInv, Up
<1>7. PairedInv'
  <2>1. paired' => orphans' = {} /\ profiles' # "none"
    BY <1>1, <1>3, <1>4, PlanFacts DEF PlaceInv
  <2>2. paired' => run'.pc \notin {"idle", "setup", "spawned"}
    BY <1>4 DEF Raised
  <2>3. paired' /\ run'.pc = "body" => Plan[run'.at].do = "pause"
    BY <1>4 DEF Raised
  <2>4. QED
    BY <1>2, <2>1, <2>2, <2>3 DEF PairedInv
<1>8. StopInv'
  BY <1>1, <1>3, <1>4 DEF StopInv
<1>9. OwnedInv'
  BY <1>1, <1>3, <1>4 DEF Raised, OwnedInv, Up, GroupGone, Recorded
<1>10. CleanupInv'
  BY <1>1, <1>3, <1>4 DEF Raised, CleanupInv
<1>11. ProbeInv'
  BY <1>1, <1>3, <1>4 DEF ProbeInv
<1>12. QED
  BY <1>5, <1>6, <1>7, <1>8, <1>9, <1>10, <1>11 DEF IInv

\* The run begins to stop p1.
LEMMA BeginStopPeerInv ==
    ASSUME IInv, BeginStopPeer
    PROVE  IInv'
<1>1. /\ TypeInv /\ PlaceInv /\ PairedInv /\ StopInv /\ OwnedInv /\ CleanupInv /\ ProbeInv
      /\ run \in RunType
  BY DEF IInv, TypeInv
<1>2. mode' = mode /\ Plan' = Plan
  BY DEF BeginStopPeer, Others, Plan
<1>3. UNCHANGED <<mode, orphans, pending, interrupts, probe, receipt, leader, helper,
                  children, run, profiles, paired, evidence, exit>>
  BY DEF BeginStopPeer, Others, probing, files
<1>4. run.pc = "body" /\ Plan[run.at].do = "stop" /\ stopping["run"] = NoStop
      /\ StopBegins("run", "p1")
  BY <1>1 DEF BeginStopPeer, Doing
<1>5. stopping' \in [Owner -> {NoStop} \cup [child : Process, step : StopStates]]
      /\ stopping'["run"] # NoStop /\ stopping'["run"].child = "p1"
      /\ stopping'["run"].step = "poll" /\ stopping'["probe"] = stopping["probe"]
  BY <1>1, <1>4, StopBegun DEF Owner, Process, RunChild
<1>6. TypeInv'
  BY <1>1, <1>3, <1>5 DEF TypeInv
<1>7. PlaceInv'
  BY <1>1, <1>2, <1>3 DEF PlaceInv, Up
<1>8. PairedInv'
  BY <1>1, <1>3, <1>4 DEF PairedInv
<1>9. StopInv'
  BY <1>1, <1>2, <1>3, <1>4, <1>5 DEF StopInv, Step
<1>10. OwnedInv'
  BY <1>1, <1>3, <1>4 DEF OwnedInv, Up, GroupGone, Recorded
<1>11. CleanupInv'
  BY <1>1, <1>3, <1>4 DEF CleanupInv
<1>12. ProbeInv'
  BY <1>1, <1>3, <1>4 DEF ProbeInv
<1>13. QED
  BY <1>6, <1>7, <1>8, <1>9, <1>10, <1>11, <1>12 DEF IInv

\* p1 is stopped: its group is gone before the supervisor forgets it.
LEMMA PeerStoppedInv ==
    ASSUME IInv, PeerStopped
    PROVE  IInv'
<1>1. /\ TypeInv /\ PlaceInv /\ PairedInv /\ StopInv /\ OwnedInv /\ CleanupInv /\ ProbeInv
      /\ run \in RunType
  BY DEF IInv, TypeInv
<1>2. mode' = mode /\ Plan' = Plan
  BY DEF PeerStopped, Others, Plan
<1>3. UNCHANGED <<mode, orphans, pending, interrupts, probe, receipt, leader, helper,
                  profiles, paired, evidence, exit>>
  BY DEF PeerStopped, Others, probing, files
<1>4. run.pc = "body" /\ Plan[run.at].do = "stop" /\ Step("run") \in {"done", "raised"}
      /\ run.at \in DOMAIN Plan /\ stopping["run"] # NoStop /\ stopping["run"].child = "p1" 
  BY <1>1 DEF PeerStopped, Doing, Stopped, PlaceInv, StopInv, Step, NoStop
<1>5. stopping' \in [Owner -> {NoStop} \cup [child : Process, step : StopStates]]
      /\ stopping'["run"] = NoStop /\ stopping'["probe"] = stopping["probe"]
  BY <1>1, StopOver DEF PeerStopped, Owner
<1>6. \/ Raised("failed") /\ children' = children
      \/ /\ Advanced /\ GroupGone("p1")
         /\ children' \in [Owner -> Seq(Process)] /\ children'["run"] \in Seq(RunChild)
         /\ \A p \in RunChild : Recorded(p) => p = "p1" \/ Recorded(p)'
  <2>1. CASE Step("run") = "raised"
    BY <1>1, <2>1, RaiseFacts DEF PeerStopped
  <2>2. CASE Step("run") # "raised"
    <3>1. Advance
      BY <2>2 DEF PeerStopped
    <3>2. Advanced
      BY <1>1, <1>4, <3>1, AdvanceFacts
    <3>3. GroupGone("p1")
      BY <1>1, <1>4, <2>2 DEF StopInv
    <3>4. PICK i \in DOMAIN children["run"] :
             /\ children["run"][i] = "p1"
             /\ children' = [children EXCEPT !["run"] = RemoveAt(children["run"], i)]
      BY <2>2 DEF PeerStopped
    <3>5. children \in [Owner -> Seq(Process)] /\ children["run"] \in Seq(RunChild)
          /\ "run" \in Owner
      BY <1>1 DEF TypeInv, Owner
    <3>6. PICK s : s = RemoveAt(children["run"], i)
      OBVIOUS
    <3>7. /\ s \in Seq(RunChild)
          /\ \A k \in DOMAIN children["run"] : k # i =>
                \E j \in DOMAIN s : s[j] = children["run"][k]
      BY <3>4, <3>5, <3>6, RemovedChild
    <3>8. children' \in [Owner -> Seq(Process)] /\ children'["run"] = s
      BY <3>4, <3>5, <3>6, <3>7, RunChildren
    <3>9. \A p \in RunChild : Recorded(p) => p = "p1" \/ Recorded(p)'
      BY <3>4, <3>7, <3>8 DEF Recorded
    <3>10. QED
      BY <3>2, <3>3, <3>7, <3>8, <3>9
  <2>3. QED
    BY <2>1, <2>2
<1>7. TypeInv'
  BY <1>1, <1>3, <1>5, <1>6 DEF Advanced, Raised, TypeInv
<1>8. PlaceInv'
  BY <1>1, <1>2, <1>3, <1>4, <1>6, PlanFacts DEF Advanced, Raised, PlaceInv, Up
<1>9. PairedInv'
  BY <1>1, <1>3, <1>4 DEF PairedInv
<1>10. StopInv'
  BY <1>1, <1>5 DEF StopInv
<1>11. OwnedInv'
  BY <1>1, <1>3, <1>4, <1>6
     DEF Advanced, Raised, StopInv, OwnedInv, Process, RunChild, Up, GroupGone, Recorded
<1>12. CleanupInv'
  BY <1>1, <1>3, <1>4, <1>6 DEF Advanced, Raised, CleanupInv
<1>13. ProbeInv'
  BY <1>1, <1>3, <1>4 DEF ProbeInv
<1>14. QED
  BY <1>7, <1>8, <1>9, <1>10, <1>11, <1>12, <1>13 DEF IInv

\* The handler notes why the body raised.
LEMMA HandlerInv ==
    ASSUME IInv, Handler
    PROVE  IInv'
<1>1. /\ TypeInv /\ PlaceInv /\ PairedInv /\ StopInv /\ OwnedInv /\ CleanupInv /\ ProbeInv
      /\ run \in RunType
  BY DEF IInv, TypeInv
<1>2. mode' = mode /\ Plan' = Plan
  BY DEF Handler, Others, Plan
<1>3. UNCHANGED <<mode, orphans, pending, interrupts, probe, receipt, leader, helper,
                  stopping, children, profiles, paired, evidence, exit>>
  BY DEF Handler, Others, probing, supervised, files
<1>4. run.pc = "handler" /\ run' \in RunType /\ run'.pc = "watchers" /\ run'.at = run.at
      /\ run'.failure = run.failure /\ run'.cleanupError = run.cleanupError
  BY <1>1 DEF Handler, PlaceInv, RunType, Phase, Result
<1>5. TypeInv'
  BY <1>1, <1>3, <1>4 DEF TypeInv
<1>6. PlaceInv'
  BY <1>1, <1>3, <1>4 DEF PlaceInv, Up
<1>7. PairedInv'
  BY <1>1, <1>3, <1>4 DEF PairedInv
<1>8. StopInv'
  BY <1>1, <1>3, <1>4 DEF StopInv
<1>9. OwnedInv'
  BY <1>1, <1>3, <1>4 DEF OwnedInv, Up, GroupGone, Recorded
<1>10. CleanupInv'
  BY <1>1, <1>3, <1>4 DEF CleanupInv
<1>11. ProbeInv'
  BY <1>1, <1>3, <1>4 DEF ProbeInv
<1>12. QED
  BY <1>5, <1>6, <1>7, <1>8, <1>9, <1>10, <1>11 DEF IInv

\* The watchers are closed, and close() starts from the newest child.
LEMMA CloseWatchersInv ==
    ASSUME IInv, CloseWatchers
    PROVE  IInv'
<1>1. /\ TypeInv /\ PlaceInv /\ PairedInv /\ StopInv /\ OwnedInv /\ CleanupInv /\ ProbeInv
      /\ run \in RunType
  BY DEF IInv, TypeInv
<1>2. mode' = mode /\ Plan' = Plan
  BY DEF CloseWatchers, Others, Plan
<1>3. UNCHANGED <<mode, orphans, pending, interrupts, probe, receipt, leader, helper,
                  stopping, children, profiles, paired, evidence, exit>>
  BY DEF CloseWatchers, Others, probing, supervised, files
<1>4. run.pc = "watchers" /\ run' \in RunType /\ run'.pc = "closing"
      /\ run'.at = Len(children["run"]) /\ run'.at \in Nat
      /\ DOMAIN children["run"] = 1..run'.at
      /\ run'.result = run.result /\ run'.failure = run.failure
      /\ run'.cleanupError = run.cleanupError
  <2>1. /\ children["run"] \in Seq(RunChild) /\ Len(children["run"]) \in Nat
        /\ DOMAIN children["run"] = 1..Len(children["run"])
    BY <1>1 DEF TypeInv
  <2>2. QED
    BY <1>1, <2>1 DEF CloseWatchers, RunType, Phase
<1>5. TypeInv'
  BY <1>1, <1>3, <1>4 DEF TypeInv
<1>6. PlaceInv'
  BY <1>1, <1>3, <1>4 DEF PlaceInv, Up
<1>7. PairedInv'
  BY <1>1, <1>3, <1>4 DEF PairedInv
<1>8. StopInv'
  BY <1>1, <1>3, <1>4 DEF StopInv
<1>9. OwnedInv'
  BY <1>1, <1>3, <1>4 DEF OwnedInv, Up, GroupGone, Recorded
<1>10. CleanupInv'
  BY <1>1, <1>3, <1>4 DEF CleanupInv
<1>11. ProbeInv'
  BY <1>1, <1>3, <1>4 DEF ProbeInv
<1>12. QED
  BY <1>5, <1>6, <1>7, <1>8, <1>9, <1>10, <1>11 DEF IInv

\* close() begins to stop the next child: those after it are closed.
LEMMA CloseNextInv ==
    ASSUME IInv, CloseNext
    PROVE  IInv'
<1>1. /\ TypeInv /\ PlaceInv /\ PairedInv /\ StopInv /\ OwnedInv /\ CleanupInv /\ ProbeInv
      /\ run \in RunType
  BY DEF IInv, TypeInv
<1>2. mode' = mode /\ Plan' = Plan
  BY DEF CloseNext, Others, Plan
<1>3. UNCHANGED <<mode, orphans, pending, interrupts, probe, receipt, leader, helper,
                  children, profiles, paired, evidence, exit>>
  BY <1>1 DEF CloseNext, Others, probing, files
<1>4. run.pc = "closing" /\ stopping["run"] = NoStop /\ run.at \in Nat /\ run.at > 0
      /\ run.at \in DOMAIN children["run"] /\ children["run"][run.at] \in Process
      /\ StopBegins("run", children["run"][run.at])
  <2>1. /\ children["run"] \in Seq(RunChild) /\ Len(children["run"]) \in Nat
        /\ DOMAIN children["run"] = 1..Len(children["run"])
    BY <1>1 DEF TypeInv
  <2>2. run.pc = "closing" /\ run.at \in Nat /\ run.at > 0 /\ run.at <= Len(children["run"])
    BY <1>1 DEF CloseNext, RunType, OwnedInv
  <2>3. run.at \in DOMAIN children["run"]
    BY <2>1, <2>2
  <2>4. QED
    BY <2>1, <2>2, <2>3 DEF CloseNext, Process
<1>5. run' \in RunType /\ run'.pc = "closing" /\ run'.at = run.at - 1
      /\ run'.at + 1 = run.at /\ run'.result = run.result
      /\ run'.failure = run.failure /\ run'.cleanupError = run.cleanupError
  BY <1>1, <1>4 DEF CloseNext, RunType
<1>6. stopping' \in [Owner -> {NoStop} \cup [child : Process, step : StopStates]]
      /\ stopping'["run"] # NoStop /\ stopping'["run"].child = children["run"][run.at]
      /\ stopping'["run"].step = "poll" /\ stopping'["probe"] = stopping["probe"]
  BY <1>1, <1>4, StopBegun DEF Owner
<1>7. TypeInv'
  BY <1>1, <1>3, <1>5, <1>6 DEF TypeInv
<1>8. PlaceInv'
  BY <1>1, <1>3, <1>4, <1>5 DEF PlaceInv, Up
<1>9. PairedInv'
  BY <1>1, <1>3, <1>5 DEF PairedInv
<1>10. StopInv'
  BY <1>1, <1>3, <1>4, <1>5, <1>6 DEF StopInv, Step
<1>11. OwnedInv'
  BY <1>1, <1>3, <1>4, <1>5, <1>6 DEF OwnedInv, Up, GroupGone, Recorded
<1>12. CleanupInv'
  BY <1>1, <1>3, <1>4, <1>5 DEF CleanupInv
<1>13. ProbeInv'
  BY <1>1, <1>3, <1>4 DEF ProbeInv
<1>14. QED
  BY <1>7, <1>8, <1>9, <1>10, <1>11, <1>12, <1>13 DEF IInv

\* A child is closed, or its _stop has raised and the error is kept.
LEMMA ChildClosedInv ==
    ASSUME IInv, ChildClosed
    PROVE  IInv'
<1>1. /\ TypeInv /\ PlaceInv /\ PairedInv /\ StopInv /\ OwnedInv /\ CleanupInv /\ ProbeInv
      /\ run \in RunType
  BY DEF IInv, TypeInv
<1>2. mode' = mode /\ Plan' = Plan
  BY DEF ChildClosed, Others, Plan
<1>3. UNCHANGED <<mode, orphans, pending, interrupts, probe, receipt, leader, helper,
                  children, profiles, paired, evidence, exit>>
  BY <1>1 DEF ChildClosed, Others, probing, files
<1>4. run.pc = "closing" /\ Step("run") \in {"done", "raised"} /\ stopping["run"] # NoStop
      /\ stopping["run"].child = children["run"][run.at + 1] /\ run.at + 1 \in DOMAIN children["run"]
      /\ (Step("run") = "done" => GroupGone(children["run"][run.at + 1]))
  BY <1>1 DEF ChildClosed, Stopped, StopInv, Step, NoStop
<1>5. run' \in RunType /\ run'.pc = "closing" /\ run'.at = run.at
      /\ run'.result = run.result /\ run'.failure = run.failure
      /\ (run'.cleanupError <=> run.cleanupError \/ Step("run") = "raised")
  BY <1>1, <1>4 DEF ChildClosed, RunType
<1>6. stopping' \in [Owner -> {NoStop} \cup [child : Process, step : StopStates]]
      /\ stopping'["run"] = NoStop /\ stopping'["probe"] = stopping["probe"]
  BY <1>1, StopOver DEF ChildClosed, Owner
<1>7. TypeInv'
  BY <1>1, <1>3, <1>5, <1>6 DEF TypeInv
<1>8. PlaceInv'
  BY <1>1, <1>3, <1>4, <1>5 DEF PlaceInv, Up
<1>9. PairedInv'
  BY <1>1, <1>3, <1>5 DEF PairedInv
<1>10. StopInv'
  BY <1>1, <1>6 DEF StopInv
<1>11. OwnedInv'
  BY <1>1, <1>3, <1>4, <1>5 DEF OwnedInv, Up, GroupGone, Recorded
<1>12. CleanupInv'
  BY <1>1, <1>3, <1>4, <1>5 DEF CleanupInv
<1>13. ProbeInv'
  BY <1>1, <1>3, <1>4 DEF ProbeInv
<1>14. QED
  BY <1>7, <1>8, <1>9, <1>10, <1>11, <1>12, <1>13 DEF IInv

\* close() is over: every group is gone, or there was an error.
LEMMA ClosedInv ==
    ASSUME IInv, Closed
    PROVE  IInv'
<1>1. /\ TypeInv /\ PlaceInv /\ PairedInv /\ StopInv /\ OwnedInv /\ CleanupInv /\ ProbeInv
      /\ run \in RunType
  BY DEF IInv, TypeInv
<1>2. mode' = mode /\ Plan' = Plan
  BY DEF Closed, Others, Plan
<1>3. UNCHANGED <<mode, orphans, pending, interrupts, probe, receipt, leader, helper,
                  stopping, children, profiles, paired, evidence, exit>>
  BY DEF Closed, Others, probing, supervised, files
<1>4. run.pc = "closing" /\ stopping["run"] = NoStop /\ run.at = 0
      /\ run' \in RunType /\ run'.pc = "ports" /\ run'.failure = run.failure
      /\ run'.cleanupError = run.cleanupError
      /\ (run'.result # "failed-cleanup" => ~run.cleanupError)
  BY <1>1 DEF Closed, RunType, Phase, Result
<1>5. TypeInv'
  BY <1>1, <1>3, <1>4 DEF TypeInv
<1>6. PlaceInv'
  BY <1>1, <1>3, <1>4 DEF PlaceInv, Up
<1>7. PairedInv'
  BY <1>1, <1>3, <1>4 DEF PairedInv
<1>8. StopInv'
  BY <1>1, <1>3, <1>4 DEF StopInv
<1>9. OwnedInv'
  BY <1>1, <1>3, <1>4 DEF OwnedInv, Up, GroupGone, Recorded
<1>10. CleanupInv'
  BY <1>1, <1>3, <1>4 DEF OwnedInv, CleanupInv, ChildrenGone, Up, GroupGone, Recorded
<1>11. ProbeInv'
  BY <1>1, <1>3, <1>4 DEF ProbeInv
<1>12. QED
  BY <1>5, <1>6, <1>7, <1>8, <1>9, <1>10, <1>11 DEF IInv

\* The ports are free, or the cleanup has failed.
LEMMA CheckPortsInv ==
    ASSUME IInv, CheckPorts
    PROVE  IInv'
<1>1. /\ TypeInv /\ PlaceInv /\ PairedInv /\ StopInv /\ OwnedInv /\ CleanupInv /\ ProbeInv
      /\ run \in RunType
  BY DEF IInv, TypeInv
<1>2. mode' = mode /\ Plan' = Plan
  BY DEF CheckPorts, Others, Plan
<1>3. UNCHANGED <<mode, orphans, pending, interrupts, probe, receipt, leader, helper,
                  stopping, children, profiles, paired, evidence, exit>>
  BY DEF CheckPorts, Others, probing, supervised, files
<1>4. run.pc = "ports" /\ run' \in RunType /\ run'.pc = "removing" /\ run'.failure = run.failure
      /\ run'.cleanupError = run.cleanupError /\ run'.result \in {run.result, "failed-cleanup"}
  BY <1>1 DEF CheckPorts, RunType, Phase, Result
<1>5. TypeInv'
  BY <1>1, <1>3, <1>4 DEF TypeInv
<1>6. PlaceInv'
  BY <1>1, <1>3, <1>4 DEF PlaceInv, Up
<1>7. PairedInv'
  BY <1>1, <1>3, <1>4 DEF PairedInv
<1>8. StopInv'
  BY <1>1, <1>3, <1>4 DEF StopInv
<1>9. OwnedInv'
  BY <1>1, <1>3, <1>4 DEF OwnedInv, Up, GroupGone, Recorded
<1>10. CleanupInv'
  BY <1>1, <1>3, <1>4 DEF CleanupInv, ChildrenGone, Up, GroupGone
<1>11. ProbeInv'
  BY <1>1, <1>3, <1>4 DEF ProbeInv
<1>12. QED
  BY <1>5, <1>6, <1>7, <1>8, <1>9, <1>10, <1>11 DEF IInv

\* The profiles are removed, when every client is gone.
LEMMA RemoveProfilesInv ==
    ASSUME IInv, RemoveProfiles
    PROVE  IInv'
<1>1. /\ TypeInv /\ PlaceInv /\ PairedInv /\ StopInv /\ OwnedInv /\ CleanupInv /\ ProbeInv
      /\ run \in RunType
  BY DEF IInv, TypeInv
<1>2. mode' = mode /\ Plan' = Plan
  BY DEF RemoveProfiles, Others, Plan
<1>3. UNCHANGED <<mode, orphans, pending, interrupts, probe, receipt, leader, helper,
                  stopping, children, paired, evidence, exit>>
  BY DEF RemoveProfiles, Others, probing, supervised
<1>4. run.pc = "removing" /\ run' \in RunType /\ run'.pc = "writing"
      /\ run'.failure = run.failure /\ run'.cleanupError = run.cleanupError
      /\ \/ /\ run.result \in {"good", "interrupted"} /\ profiles # "none"
            /\ \/ profiles' = "removed" /\ run'.result = run.result
               \/ profiles' = "partial" /\ run'.result = "failed-cleanup"
         \/ /\ ~(run.result \in {"good", "interrupted"} /\ profiles # "none")
            /\ profiles' = profiles /\ run'.result = run.result
  BY <1>1 DEF RemoveProfiles, Removable, RunType, Phase, Result
<1>5. TypeInv'
  BY <1>1, <1>3, <1>4 DEF TypeInv
<1>6. PlaceInv'
  BY <1>1, <1>3, <1>4 DEF PlaceInv, Up
<1>7. PairedInv'
  BY <1>1, <1>3, <1>4 DEF PairedInv
<1>8. StopInv'
  BY <1>1, <1>3, <1>4 DEF StopInv
<1>9. OwnedInv'
  BY <1>1, <1>3, <1>4 DEF OwnedInv, Up, GroupGone, Recorded
<1>10. CleanupInv'
  BY <1>1, <1>3, <1>4 DEF CleanupInv, ChildrenGone, RunChild, Up, GroupGone
<1>11. ProbeInv'
  BY <1>1, <1>3, <1>4 DEF ProbeInv
<1>12. QED
  BY <1>5, <1>6, <1>7, <1>8, <1>9, <1>10, <1>11 DEF IInv

\* The evidence is written with the result, and the harness exits.
LEMMA WriteEvidenceInv ==
    ASSUME IInv, WriteEvidence
    PROVE  IInv'
<1>1. /\ TypeInv /\ PlaceInv /\ PairedInv /\ StopInv /\ OwnedInv /\ CleanupInv /\ ProbeInv
      /\ run \in RunType
  BY DEF IInv, TypeInv
<1>2. mode' = mode /\ Plan' = Plan
  BY DEF WriteEvidence, Others, Plan
<1>3. UNCHANGED <<mode, orphans, pending, interrupts, probe, receipt, helper, stopping,
                  children, profiles, paired>>
  BY DEF WriteEvidence, Others, probing
<1>4. run.pc = "writing" /\ (Ended("passed") \/ Ended("failed") \/ Ended("interrupted"))
      /\ \/ evidence' = evidence
         \/ evidence' = <<[result |-> run.result, cleanupError |-> run.cleanupError]>>
  BY <1>1, EndsFacts DEF WriteEvidence, Saved, Code
<1>5. TypeInv'
  BY <1>1, <1>3, <1>4 DEF Ended, TypeInv, Process
<1>6. PlaceInv'
  BY <1>4 DEF Ended, PlaceInv, Up
<1>7. PairedInv'
  BY <1>1, <1>3, <1>4 DEF Ended, PairedInv
<1>8. StopInv'
  BY <1>1, <1>3, <1>4 DEF StopInv
<1>9. OwnedInv'
  BY <1>4 DEF Ended, OwnedInv
<1>10. CleanupInv'
  BY <1>1, <1>3, <1>4 DEF Ended, CleanupInv, ChildrenGone, RunChild, Up, GroupGone
<1>11. ProbeInv'
  BY <1>1, <1>3, <1>4 DEF ProbeInv
<1>12. QED
  BY <1>5, <1>6, <1>7, <1>8, <1>9, <1>10, <1>11 DEF IInv

\* A step of the _stop that the run waits for.
LEMMA RunStopStepInv ==
    ASSUME IInv, RunStopStep
    PROVE  IInv'
<1>1. /\ TypeInv /\ PlaceInv /\ PairedInv /\ StopInv /\ OwnedInv /\ CleanupInv /\ ProbeInv
      /\ run \in RunType
  BY DEF IInv, TypeInv
<1>2. mode' = mode /\ Plan' = Plan
  BY DEF RunStopStep, Others, Plan
<1>3. UNCHANGED <<mode, orphans, pending, interrupts, probe, receipt, children, run,
                  profiles, paired, evidence, exit>>
  BY <1>1 DEF RunStopStep, Others, probing, files
<1>4. run.pc # "over" /\ StopStep("run")
  BY <1>1 DEF RunStopStep
<1>5. PICK c : c = stopping["run"].child /\ StopMoves("run", c)
  BY <1>1, <1>4, StopMove DEF Owner
<1>6. c \in RunChild /\ c # "harness"
  BY <1>1, <1>4, <1>5 DEF StopMoves, StopInv, TypeInv, RunChild
<1>7. TypeInv'
  BY <1>1, <1>3, <1>5 DEF StopMoves, TypeInv
<1>8. PlaceInv'
  BY <1>1, <1>2, <1>3, <1>5, <1>6 DEF StopMoves, PlaceInv, Process, Up
<1>9. PairedInv'
  BY <1>1, <1>2, <1>3 DEF PairedInv
<1>10. StopInv'
  BY <1>1, <1>2, <1>3, <1>5 DEF StopMoves, StopInv, Owner, Step, Up, GroupGone
<1>11. OwnedInv'
  BY <1>1, <1>2, <1>3, <1>5 DEF StopMoves, TypeInv, OwnedInv, Process, Up, GroupGone, Recorded
<1>12. CleanupInv'
  BY <1>1, <1>3, <1>5 DEF StopMoves, CleanupInv, ChildrenGone, Process, RunChild, Up, GroupGone
<1>13. ProbeInv'
  BY <1>1, <1>3, <1>4 DEF ProbeInv
<1>14. QED
  BY <1>7, <1>8, <1>9, <1>10, <1>11, <1>12, <1>13 DEF IInv

\* The probe begins to stop the harness.
LEMMA ProbeStopsInv ==
    ASSUME IInv, ProbeStops
    PROVE  IInv'
<1>1. /\ TypeInv /\ PlaceInv /\ PairedInv /\ StopInv /\ OwnedInv /\ CleanupInv /\ ProbeInv
      /\ run \in RunType
  BY DEF IInv, TypeInv
<1>2. mode' = mode /\ Plan' = Plan
  BY <1>1 DEF ProbeStops, RunFrame, files, Plan
<1>3. UNCHANGED <<mode, orphans, pending, interrupts, receipt, leader, helper, children,
                  run, profiles, paired, evidence, exit>>
  BY <1>1 DEF ProbeStops, RunFrame, files
<1>4. probe = "waiting" /\ StopBegins("probe", "harness")
      /\ ((paired /\ probe' = "stopping") \/ probe' = "closing")
  BY <1>1 DEF ProbeStops
<1>5. stopping' \in [Owner -> {NoStop} \cup [child : Process, step : StopStates]]
      /\ stopping'["probe"] # NoStop /\ stopping'["probe"].child = "harness"
      /\ stopping'["run"] = stopping["run"]
  BY <1>1, <1>4, StopBegun DEF Owner, Process
<1>6. TypeInv'
  BY <1>1, <1>3, <1>4, <1>5 DEF TypeInv
<1>7. PlaceInv'
  BY <1>1, <1>2, <1>3 DEF PlaceInv, Up
<1>8. PairedInv'
  BY <1>1, <1>2, <1>3 DEF PairedInv
<1>9. StopInv'
  BY <1>1, <1>2, <1>3, <1>5 DEF StopInv, Step, Up, GroupGone
<1>10. OwnedInv'
  BY <1>1, <1>2, <1>3, <1>5 DEF OwnedInv, Up, GroupGone, Recorded
<1>11. CleanupInv'
  BY <1>1, <1>3 DEF CleanupInv, ChildrenGone, Up, GroupGone
<1>12. ProbeInv'
  BY <1>1, <1>3, <1>4 DEF ProbeInv, Up, GroupGone
<1>13. QED
  BY <1>6, <1>7, <1>8, <1>9, <1>10, <1>11, <1>12 DEF IInv

\* A step of the _stop of the probe: a harness it kills is over, with no evidence.
LEMMA ProbeStopStepInv ==
    ASSUME IInv, ProbeStopStep
    PROVE  IInv'
<1>1. /\ TypeInv /\ PlaceInv /\ PairedInv /\ StopInv /\ OwnedInv /\ CleanupInv /\ ProbeInv
      /\ run \in RunType
  BY DEF IInv, TypeInv
<1>2. mode' = mode /\ Plan' = Plan
  BY DEF ProbeStopStep, RunFrame, Plan
<1>3. UNCHANGED <<mode, orphans, interrupts, probe, receipt, children, profiles, paired,
                  evidence>>
  BY <1>1 DEF ProbeStopStep, RunFrame, files, probing
<1>4. StopStep("probe")
  BY <1>1 DEF ProbeStopStep
<1>5. StopMoves("probe", "harness")
  <2>1. PICK c : c = stopping["probe"].child /\ StopMoves("probe", c)
    BY <1>1, <1>4, StopMove DEF Owner
  <2>2. c = "harness"
    BY <1>1, <2>1 DEF StopInv, StopMoves
  <2>3. QED
    BY <2>1, <2>2
<1>6. /\ \A p \in RunChild : leader'[p] = leader[p]
      /\ \/ leader'["harness"] = leader["harness"] /\ run' = run /\ exit' = exit
         \/ leader["harness"] = "up" /\ leader'["harness"] = "killed" /\ exit' = "killed"
            /\ run' \in RunType /\ run'.pc = "over" 
  BY <1>1, <1>5 DEF ProbeStopStep, StopMoves, Process, RunChild, Up, RunType, Phase
<1>7. TypeInv'
  BY <1>1, <1>3, <1>5, <1>6 DEF StopMoves, TypeInv
<1>8. PlaceInv'
  BY <1>1, <1>2, <1>3, <1>6 DEF PlaceInv, Up
<1>9. PairedInv'
  BY <1>1, <1>2, <1>3, <1>6 DEF PairedInv
<1>10. StopInv'
  BY <1>1, <1>2, <1>3, <1>5, <1>6 DEF StopMoves, StopInv, Owner, Step, Up, GroupGone
<1>11. OwnedInv'
  BY <1>1, <1>2, <1>3, <1>5, <1>6
     DEF StopMoves, TypeInv, StopInv, OwnedInv, Owner, Process, Up, GroupGone, Recorded
<1>12. CleanupInv'
  BY <1>1, <1>3, <1>5, <1>6
     DEF StopMoves, CleanupInv, ChildrenGone, Process, RunChild, Up, GroupGone
<1>13. ProbeInv'
  BY <1>1, <1>3, <1>5, <1>6 DEF StopMoves, ProbeInv, Process, Up, GroupGone
<1>14. QED
  BY <1>7, <1>8, <1>9, <1>10, <1>11, <1>12, <1>13 DEF IInv

\* The harness is stopped, and the probe reads its evidence.
LEMMA ProbeStoppedInv ==
    ASSUME IInv, ProbeStopped
    PROVE  IInv'
<1>1. /\ TypeInv /\ PlaceInv /\ PairedInv /\ StopInv /\ OwnedInv /\ CleanupInv /\ ProbeInv
      /\ run \in RunType
  BY DEF IInv, TypeInv
<1>2. mode' = mode /\ Plan' = Plan
  BY DEF ProbeStopped, RunFrame, Plan
<1>3. UNCHANGED <<mode, orphans, pending, interrupts, receipt, leader, helper, run,
                  profiles, paired, evidence, exit>>
  BY <1>1 DEF ProbeStopped, Stopped, RunFrame, files
<1>4. stopping' \in [Owner -> {NoStop} \cup [child : Process, step : StopStates]]
      /\ stopping'["probe"] = NoStop /\ stopping'["run"] = stopping["run"]
  BY <1>1, StopOver DEF ProbeStopped, Owner
<1>5. probe' = IF probe = "stopping" THEN "reading" ELSE "over" 
  BY <1>1 DEF ProbeStopped
<1>6. children' \in [Owner -> Seq(Process)] /\ children'["run"] = children["run"]
  BY <1>1 DEF ProbeStopped, TypeInv, Owner
<1>7. TypeInv'
  BY <1>1, <1>3, <1>4, <1>5, <1>6 DEF TypeInv
<1>8. PlaceInv'
  BY <1>1, <1>2, <1>3 DEF PlaceInv, Up
<1>9. PairedInv'
  BY <1>1, <1>2, <1>3 DEF PairedInv
<1>10. StopInv'
  BY <1>1, <1>2, <1>3, <1>4, <1>6 DEF StopInv, Step, Up, GroupGone
<1>11. OwnedInv'
  BY <1>1, <1>2, <1>3, <1>4, <1>6 DEF OwnedInv, Up, GroupGone, Recorded
<1>12. CleanupInv'
  BY <1>1, <1>3 DEF CleanupInv, ChildrenGone, Up, GroupGone
<1>13. ProbeInv'
  BY <1>1, <1>3, <1>5 DEF ProbeInv, Up, GroupGone
<1>14. QED
  BY <1>7, <1>8, <1>9, <1>10, <1>11, <1>12, <1>13 DEF IInv

\* The receipt says that the evidence is clean and the exit was an interrupt.
LEMMA JudgeInv ==
    ASSUME IInv, Judge
    PROVE  IInv'
<1>1. /\ TypeInv /\ PlaceInv /\ PairedInv /\ StopInv /\ OwnedInv /\ CleanupInv /\ ProbeInv
      /\ run \in RunType
  BY DEF IInv, TypeInv
<1>2. mode' = mode /\ Plan' = Plan
  BY DEF Judge, RunFrame, Plan
<1>3. UNCHANGED <<mode, orphans, pending, interrupts, leader, helper, stopping, children,
                  run, profiles, paired, evidence, exit>>
  BY <1>1 DEF Judge, RunFrame, files, supervised
<1>4. probe = "reading" /\ probe' = "over"
      /\ receipt' \in BOOLEAN
      /\ (receipt' => evidence # NoEvidence /\ evidence[1].result = "interrupted")
  BY <1>1 DEF Judge, EvidenceIsClean
<1>5. TypeInv'
  BY <1>1, <1>3, <1>4 DEF TypeInv
<1>6. PlaceInv'
  BY <1>1, <1>2, <1>3 DEF PlaceInv, Up
<1>7. PairedInv'
  BY <1>1, <1>2, <1>3 DEF PairedInv
<1>8. StopInv'
  BY <1>1, <1>2, <1>3 DEF StopInv, Step, Up, GroupGone
<1>9. OwnedInv'
  BY <1>1, <1>2, <1>3 DEF OwnedInv, Up, GroupGone, Recorded
<1>10. CleanupInv'
  BY <1>1, <1>3 DEF CleanupInv, ChildrenGone, Up, GroupGone
<1>11. ProbeInv'
  BY <1>1, <1>3, <1>4 DEF PairedInv, CleanupInv, ChildrenGone, ProbeInv, Up, GroupGone
<1>12. QED
  BY <1>5, <1>6, <1>7, <1>8, <1>9, <1>10, <1>11 DEF IInv

\* A child by itself: it exits, or its descendants come and go.
LEMMA ChildStepInv ==
    ASSUME IInv, NEW q \in RunChild, ChildStep(q)
    PROVE  IInv'
<1>1. /\ TypeInv /\ PlaceInv /\ PairedInv /\ StopInv /\ OwnedInv /\ CleanupInv /\ ProbeInv
      /\ run \in RunType
  BY DEF IInv, TypeInv
<1>2. mode' = mode /\ Plan' = Plan
  BY <1>1 DEF ChildStep, files, probing, Plan
<1>3. UNCHANGED <<mode, orphans, pending, interrupts, probe, receipt, stopping, children,
                  run, profiles, paired, evidence, exit>>
  BY <1>1 DEF ChildStep, files, probing
<1>4. leader' \in [Process -> State] /\ helper' \in [Process -> BOOLEAN]
      /\ \A p \in Process : /\ p # q => leader'[p] = leader[p] /\ helper'[p] = helper[p]
                            /\ GroupGone(p) => leader'[p] = leader[p] /\ helper'[p] = helper[p]
                            /\ leader'[p] = "up" => leader[p] = "up"
                            /\ leader'[p] = "unborn" => leader[p] = "unborn"
                            /\ helper'[p] => p \in Helpers /\ leader[p] # "unborn" 
  BY <1>1 DEF ChildStep, TypeInv, GroupGone, State, Up
<1>5. TypeInv'
  BY <1>1, <1>3, <1>4 DEF TypeInv
<1>6. PlaceInv'
  BY <1>1, <1>2, <1>3, <1>4 DEF PlaceInv, Process, RunChild, Up
<1>7. PairedInv'
  BY <1>1, <1>2, <1>3 DEF PairedInv
<1>8. StopInv'
  BY <1>1, <1>2, <1>3, <1>4 DEF TypeInv, StopInv, Process, RunChild, Step, Up, GroupGone
<1>9. OwnedInv'
  BY <1>1, <1>2, <1>3, <1>4 DEF TypeInv, OwnedInv, Process, Up, GroupGone, Recorded
<1>10. CleanupInv'
  BY <1>1, <1>3, <1>4 DEF CleanupInv, ChildrenGone, Process, RunChild, Up, GroupGone
<1>11. ProbeInv'
  BY <1>1, <1>3, <1>4 DEF ProbeInv, Process, Up, GroupGone
<1>12. QED
  BY <1>5, <1>6, <1>7, <1>8, <1>9, <1>10, <1>11 DEF IInv

\* An interrupt, wherever the run is: what it takes from Popen is an orphan, and a cleanup
\* it breaks off is an error.
LEMMA InterruptInv ==
    ASSUME IInv, Interrupt
    PROVE  IInv'
<1>1. /\ TypeInv /\ PlaceInv /\ PairedInv /\ StopInv /\ OwnedInv /\ CleanupInv /\ ProbeInv
      /\ run \in RunType
  BY DEF IInv, TypeInv
<1>2. mode' = mode /\ Plan' = Plan
  BY <1>1 DEF Interrupt, Interrupted, probing, Plan
<1>3. UNCHANGED <<mode, probe, receipt, helper, children, paired>>
  BY <1>1 DEF Interrupt, Interrupted, probing
<1>4. stopping' \in [Owner -> {NoStop} \cup [child : Process, step : StopStates]]
      /\ stopping'["run"] = NoStop /\ stopping'["probe"] = stopping["probe"]
  BY <1>1, StopOver DEF Interrupt, Owner
<1>5. run.pc \notin {"idle", "over"} /\ Interrupted /\ run.pc \in Phase
      /\ orphans' = IF run.pc = "spawned" THEN orphans \cup {Plan[run.at].child} ELSE orphans
  BY <1>1, RunFields DEF Interrupt
<1>6. run.pc \in {"setup", "watchers"} =>
         Ended("interrupted") /\ UNCHANGED <<profiles, evidence>>
  BY <1>1, <1>5, EndsFacts DEF Interrupted
<1>7. run.pc \in {"body", "spawned"} =>
         Raised("interrupted") /\ UNCHANGED <<leader, exit, profiles, evidence>>
  BY <1>1, <1>5, RaiseFacts DEF Interrupted
<1>8. run.pc = "handler" =>
         /\ run' \in RunType /\ run'.pc = "watchers"
         /\ UNCHANGED <<leader, exit, profiles, evidence>>
  BY <1>1, <1>5 DEF Interrupted, RunType, Phase
<1>9. run.pc = "closing" =>
         /\ run' \in RunType /\ run'.pc = "closing" /\ run'.at \in {0, run.at}
         /\ run'.cleanupError = TRUE
         /\ UNCHANGED <<leader, exit, profiles, evidence>>
  <2>1. PICK a \in {0, run.at} : a = IF stopping["run"] = NoStop THEN 0 ELSE run.at
    OBVIOUS
  <2>2. a \in Nat
    BY <1>1, RunFields
  <2>3. run.pc = "closing" =>
           /\ run' = [run EXCEPT !.cleanupError = TRUE, !.at = a]
           /\ UNCHANGED <<leader, exit, profiles, evidence>>
    BY <1>5, <2>1 DEF Interrupted
  <2>4. QED
    BY <1>1, <2>2, <2>3 DEF RunType
<1>10. run.pc = "ports" =>
         /\ run' \in RunType /\ run'.pc = "removing" /\ run'.result = "failed-cleanup"
         /\ UNCHANGED <<leader, exit, profiles, evidence>>
  BY <1>1, <1>5 DEF Interrupted, RunType, Phase, Result
<1>11. run.pc = "removing" =>
         \/ Ended("interrupted") /\ UNCHANGED <<profiles, evidence>>
         \/ /\ run' \in RunType /\ run'.pc = "writing" /\ run'.result = "failed-cleanup"
            /\ run.result \in {"good", "interrupted"} /\ profiles' = "partial"
            /\ UNCHANGED <<leader, exit, evidence>>
  BY <1>1, <1>5, EndsFacts DEF Interrupted, RunType, Phase, Result, Removable
<1>12. run.pc = "writing" =>
         /\ Ended("interrupted") /\ UNCHANGED profiles
         /\ \/ evidence' = evidence
            \/ evidence' = <<[result |-> run.result, cleanupError |-> run.cleanupError]>>
  BY <1>1, <1>5, EndsFacts DEF Interrupted, Saved
<1>13. TypeInv'
  BY <1>1, <1>3, <1>4, <1>5, <1>6, <1>7, <1>8, <1>9, <1>10, <1>11, <1>12
     DEF Phase, Ended, Raised, TypeInv, Process
<1>14. PlaceInv'
  BY <1>1, <1>5, <1>6, <1>7, <1>8, <1>9, <1>10, <1>11, <1>12
     DEF Phase, Ended, Raised, PlaceInv, Up
<1>15. PairedInv'
  BY <1>1, <1>3, <1>5, <1>6, <1>7, <1>8, <1>9, <1>10, <1>11, <1>12
     DEF Phase, Ended, Raised, PairedInv
<1>16. StopInv'
  BY <1>1, <1>4 DEF StopInv
<1>17. OwnedInv'
  BY <1>1, <1>3, <1>5, <1>6, <1>7, <1>8, <1>9, <1>10, <1>11, <1>12
     DEF Phase, Ended, Raised, OwnedInv, Up, GroupGone, Recorded
<1>18. CleanupInv'
  BY <1>1, <1>3, <1>5, <1>6, <1>7, <1>8, <1>9, <1>10, <1>11, <1>12
     DEF Phase, Ended, Raised, CleanupInv, ChildrenGone, RunChild, Up, GroupGone
<1>19. ProbeInv'
  BY <1>1, <1>3, <1>5 DEF ProbeInv
<1>20. QED
  BY <1>13, <1>14, <1>15, <1>16, <1>17, <1>18, <1>19 DEF IInv

-----------------------------------------------------------------------------
(* The theorems.                                                           *)

\* Nothing has been started yet.
LEMMA InitInv ==
    ASSUME Init
    PROVE  IInv
<1>1. TypeInv
  <2>1. run \in RunType
    BY DEF Init, RunType, Phase, Result
  <2>2. children \in [Owner -> Seq(Process)] /\ children["run"] \in Seq(RunChild)
    BY DEF Init, Owner
  <2>3. /\ leader \in [Process -> State] /\ helper \in [Process -> BOOLEAN]
        /\ \A p \in Process : ~helper[p]
        /\ stopping \in [Owner -> {NoStop} \cup [child : Process, step : StopStates]]
    BY DEF Init, Owner, State
  <2>4. QED
    BY <2>1, <2>2, <2>3 DEF Init, TypeInv
<1>2. PlaceInv
  BY DEF Init, PlaceInv, Up, Process
<1>3. PairedInv /\ ProbeInv
  BY DEF Init, PairedInv, ProbeInv
<1>4. StopInv
  BY DEF Init, StopInv
<1>5. OwnedInv
  BY DEF Init, OwnedInv, GroupGone, Up, Process
<1>6. CleanupInv
  BY DEF Init, CleanupInv, NoEvidence
<1>7. QED
  BY <1>1, <1>2, <1>3, <1>4, <1>5, <1>6 DEF IInv

\* A step that changes nothing.
LEMMA StutterInv ==
    ASSUME IInv, UNCHANGED vars
    PROVE  IInv'
<1>1. /\ UNCHANGED <<mode, leader, helper, stopping, children, run, orphans>>
      /\ UNCHANGED <<profiles, paired, evidence, exit, probe, receipt>>
  BY DEF vars, supervised, files, probing
<1>2. Plan' = Plan
  BY <1>1 DEF Plan
<1>3. TypeInv' /\ PlaceInv' /\ PairedInv'
  BY <1>1, <1>2 DEF IInv, TypeInv, PlaceInv, PairedInv, Up
<1>4. StopInv' /\ OwnedInv'
  BY <1>1, <1>2 DEF IInv, StopInv, OwnedInv, Up, GroupGone, Recorded, Step
<1>5. CleanupInv' /\ ProbeInv'
  BY <1>1 DEF IInv, CleanupInv, ProbeInv, ChildrenGone, GroupGone, Up
<1>6. QED
  BY <1>3, <1>4, <1>5 DEF IInv

\* IInv holds in every state of every run.
THEOREM Invariance == Spec => []IInv
<1>1. Init => IInv
  BY InitInv
<1>2. IInv /\ [Next]_vars => IInv'
  <2> SUFFICES ASSUME IInv, [Next]_vars  PROVE IInv'
    OBVIOUS
  <2>1. CASE RunStep
    BY <2>1, VerifyInv, MakeProfilesInv, LaunchInv, RegisterInv, AwaitInv, PauseInv,
       BeginStopPeerInv, PeerStoppedInv, HandlerInv, CloseWatchersInv, CloseNextInv,
       ChildClosedInv, ClosedInv, CheckPortsInv, RemoveProfilesInv, WriteEvidenceInv,
       RunStopStepInv DEF RunStep
  <2>2. CASE ProbeStep
    BY <2>2, ProbeStopsInv, ProbeStopStepInv, ProbeStoppedInv, JudgeInv DEF ProbeStep
  <2>3. CASE StartRun
    BY <2>3, StartRunInv
  <2>4. CASE Interrupt
    BY <2>4, InterruptInv
  <2>5. CASE \E p \in RunChild : ChildStep(p)
    BY <2>5, ChildStepInv
  <2>6. CASE UNCHANGED vars
    BY <2>6, StutterInv
  <2>7. QED
    BY <2>1, <2>2, <2>3, <2>4, <2>5, <2>6 DEF Next
<1>3. QED
  BY <1>1, <1>2, PTL DEF Spec

\* The processes and the phases of run() keep their types, whatever the mode,
\* the children and the interrupts of a run.
THEOREM TypeCorrect == Spec => []TypeOK
<1>1. IInv => TypeOK
  BY DEF IInv, TypeInv, PlaceInv, TypeOK, State
<1>2. QED
  BY <1>1, Invariance, PTL

\* Evidence that does not report a failed cleanup is right: every process group
\* of the run is released, but those of children that an interrupt took between
\* Popen and their record.
THEOREM CleanTrue == Spec => []CleanIsTrue
<1>1. IInv => CleanIsTrue
  BY DEF IInv, CleanupInv, ChildrenGone, CleanIsTrue
<1>2. QED
  BY <1>1, Invariance, PTL

\* A receipt of the interruption probe is right: the harness has ended, all its
\* children are gone, and the private profiles are removed.
THEOREM ReceiptTrue == Spec => []ReceiptIsTrue
<1>1. IInv => ReceiptIsTrue
  BY DEF IInv, ProbeInv, PlaceInv, ReceiptIsTrue
<1>2. QED
  BY <1>1, Invariance, PTL

\* A private profile is removed only when no client that the supervisor knows
\* runs on it.
THEOREM ProfilesOutlive == Spec => []ProfilesOutliveClients
<1>1. IInv => ProfilesOutliveClients
  BY DEF IInv, CleanupInv, ProfilesOutliveClients
<1>2. QED
  BY <1>1, Invariance, PTL
===============================================================================
