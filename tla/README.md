# A verification project for melee-web

melee-web runs a decompiled GameCube game in the browser. This directory holds
TLA+ modules of two parts of it. One is online play, where two machines, a
network and asynchronous callbacks have to agree on every frame. The other is
its reference tooling, where long-lived processes record the original game and
must say truthfully what they have recorded and cleaned up.
`PROJECT.json` lists components, runs, mutants, hazards and theorems, and maps
every definition to the source lines it models. All paths below are relative to
the repository.

## 1. Inventory

Terms: a *PAD* is one controller sample of a player; a *tick* is one step of a
match; a *frame* is the pads of both players for one tick; *source ticks* are
the engine's own steps, two more than the input ticks in lockstep.

| Component | State | Operations | Hard behaviour |
|---|---|---|---|
| Rollback input timeline, `scripts/net_rollback_input_timeline.mjs` | local, remote and executed rows by tick; a seed of the trimmed remote rows; three cursors; the first tick to correct; the outstanding plan and a revision | `recordLocal`, `acceptRemote`, `planForward`, `planReplay`, `planConfirmedPrefix`, the three commits, `disconnect`, `dispose`, `status` | late, reordered and repeated samples; a caller that holds a stale plan; trimming |
| Lockstep core, `scripts/net_lockstep_core.mjs` | identity and readiness; local, native, deferred and remote rows; acknowledgements; packet sequences and reorder window; checksums of both sides; frame frontier; terminal reason | `start`, `receive`, `addLocalInputs`, `addChecksum`, `setNativeProgress`, `fail`, `disconnect` | every `await` is a point where other calls run; no timer, so progress rests on answers |
| Native input queue, `src/gameplay_net_input.c` | frame queue, cursor, start barrier, checksum ring, capture cursor, terminal | `begin`, `push_indexed`, `confirm_start`, `before_step`/`after_step`, `capture_local_input`, `checksum_drain`, `terminate` | overlap and gaps in pushes, full ring, waits that revisit a cursor |
| Room relay, `online/relay/worker.mjs` | the set of accepted sockets | `fetch`, `onMessage`, `onClose`, `onError` | a closing socket keeps its place until its own close event; ready barrier |
| Runtime owner, `scripts/net_lockstep_runtime_owner.mjs`, with the browser peer and native adapter | armed, closing, peer, transport, failure | `start`, `onFrame`, `close` | close during start; escalation to fatal; who disposes what when |
| Transports, `scripts/net_lockstep_{transport,webrtc,webrtc_signaling,relay,websocket_relay}.mjs` | endpoint state | open, send, close | readiness and cancellation |
| Match history peer and controller, `src/slippi_profile/runtime_match_history_*` | tickets, retained engine state | poll, publish, forward, replay, prefix handoff | partial failure between engine and timeline |
| Save profile store, `web/save-profile-store.mjs` | mode and profile records with revisions | `getMode`, `setMode`, `getProfile`, `commitProfile` | several tabs; a read, a checksum and a write in separate transactions |
| Capture application, `scripts/reference_capture_app.py` | main thread and worker; stop flag; process lock; the Dolphin it owns; published status; `application.lock` | `command`, `capture`, `replay`, `close` | stop and quit against a spawn; two threads that terminate one process; a signal anywhere |
| Session inbox, `tools/reference_session_bundle.py`, `scripts/reference_capture_inbox.py` | one directory per session and state; an open bundle; derived output; the inbox lock | `begin`, `append`, `fail`, `complete`, `ingest`, `quarantine`, `store_derived` | other processes move what a writer writes; checks before the lock; deaths and failing disks |
| Local pair run, `reference-capture/slippi/run_local.py`, `process.py` | supervised children and their groups; result, failure and cleanup error; private profiles; evidence | `PairRun.run`, `ProcessSupervisor.start/stop/close`, `_run_interruption_probe` | an interrupt in any phase, cleanup included; descendants; deadlines |
| Audio ring, disc session, runtime cache, diagnostics, execution contexts, comparison and build tooling | see `PROJECT.json` | | little or no concurrency of their own |

How they interact. The source loop polls the native queue; the browser peer
hands captured pads to `LockstepPeer.addLocalInput`, composed frames go back
through `pushFrame`, and drained checksum records go to `addChecksum`. Packets
travel through one of the transports, online through the room relay. The
rollback timeline is independent of that engine: a runtime adapter records the
same pads in it, feeds it the rows that the lockstep observer
(`onRemoteContributionBatch`) passes on, executes its plans and commits them.
The capture application writes its recordings into the inbox, which the inbox
commands read and move from other processes. The local pair run is separate
from both: it starts two Slippi clients and judges how they end.

What makes each component correct:

- timeline: predictions use the newest sample; what is confirmed was played and
  is final; nothing needed is dropped and nothing unneeded kept; a commit
  records what the engine ran;
- pair of timelines: both confirm the same frames, and get to the end;
- lockstep: both engines are given the same frames; an acknowledgement means
  the row was accepted; held-back input does not leak; the reported mismatch is
  the first; peers of different matches never play; the exchange does not stall;
- native queue: ticks are consumed once, in order, and not before the start is
  confirmed; each local pad is sampled once; no checksum is lost; a session
  whose parties keep their part is played to its end;
- capture application: what it accepts is a finished match read after Dolphin
  had stopped; what it shows is true; stopping stops;
- inbox: what is finalized is whole and sealed; nothing is dropped or replaced;
- local run: evidence and receipt claim a clean end only when it was one; a
  profile outlives its client; every run ends;
- relay: at most two peers, messages only between the two of one pairing;
- save profile store: no committed progress is overwritten unseen.

The hazards behind these, each at its line, are in `PROJECT.json`.

## 2. Plan

1. `RollbackTimeline`, its runs, and its invariant. *Done, proved.*
2. `AgreedHistory`, the abstract promise, and `RollbackPair`, which implements
   it. *Done, the refinement proved.*
3. `Lockstep`, which implements the same promise. *Done, the refinement proved.*
4. `NativeInputQueue`: start barrier, both pushes, waits, capture, checksum
   ring, against the frame callback and the page. *Done, proved.*
5. `CaptureInbox`, then `ReferenceCapture`, which composes the application with
   it. *Done, proved.*
6. `LocalRun`, the pair run, its supervisor and its probe. *Done, proved.*
7. Left to prove: the safety half of the liveness properties, a measure that
   every step of the cleanup of `LocalRun` and of the end of `capture()`
   lowers. The temporal half is out of the prover's reach.

Section 7 says what is left out and why.

## 3. Modules

| Module | Role |
|---|---|
| `AgreedHistory` | Abstract specification: histories of settled frames only grow and one is always a prefix of the other. |
| `RollbackTimeline` | `MatchInputTimeline`, one action per method. |
| `RollbackPair` | Two instances of it, the samples ever sent, and the frames `status()` has confirmed. |
| `Lockstep` | Two `LockstepPeer`s and the messages on their way. |
| `NativeInputQueue` | The native queue between the frame callback and the page. |
| `CaptureInbox` | The inbox's directories, bundles and commands. |
| `ReferenceCapture` | Extends it with the application and its Dolphin. |
| `LocalRun` | One pair run, the processes it supervises, and the probe that interrupts it. |
| `BoundedSets` | Facts about intervals and cardinality that the proofs need. |
| `RollbackTimelineProofs` | The theorems about `RollbackTimeline`. |
| `RollbackPairProofs`, `LockstepProofs`, `NativeInputQueueProofs`, `CaptureInboxProofs`, `ReferenceCaptureProofs`, `LocalRunProofs` | The theorems about the other modules, each named for the one it extends. |
| `MCRollbackTimeline`, `MCRollbackPair`, `MCLockstep`, `MCCaptureInbox`, `MCReferenceCapture` | Values for TLC. |

Definitions commented *Fault* are the plausible mistakes that each property is
tested against; no specification uses them.

### RollbackTimeline

The variables carry the names of the private fields. Maps are functions from
ticks. `outstanding` and `revised` stand for `#outstanding` and `#revision`:
a plan's revision is only ever compared with the current one, so the model
keeps whether it has moved. `plan` is the plan the *caller* holds, which stays
in its hands after the timeline has dropped it. `accepted` is a history
variable: every remote sample ever stored, never trimmed. It is what the
properties compare the trimmed rows with.

A method is one action, with its trailing `#trimHistory`. A call that throws or
reports `stale`, `blocked` or `duplicate` without touching a field is a
disabled action; a remote duplicate does touch the plan and is
`AcceptDuplicate`. `MaxTick` stands for `Number.MAX_SAFE_INTEGER`, and every run
reaches it, so `nextTick`'s `null` happens. Frames keep the two pads and not
their 44 bytes.

### RollbackPair

The callers are those of `tests/net_rollback_input_timeline.test.mjs` ("paired
timelines converge") and of the episode operations in
`src/slippi_profile/tests/runtime_peer_history_probe.mjs`. The network is the
set of samples ever sent: any may arrive at any time, again, or never. A
history is what `status()` has reported as confirmed, extended whenever it
reports more. `disconnect` and `dispose` are left out here: they stop one peer,
which the pair does anyway by taking no step.

### Lockstep

A peer is a record of the fields of `LockstepPeer`. Cursors that the code
advances with `while (has(cursor + 1))` are `Contiguous` of the rows.
The code's atomic pieces are those between two awaits, and so are the steps:

- `Start`, `Prepared`, `PreparationFails`: before, after and instead of the
  SHA-256 of the identity. A hello that arrives in between waits.
- `AddLocalInputs`, `SetNativeProgress`: the synchronous part and the pump.
  The packets a call still has to send are counted in `owed`; `SendState`
  builds one from the state of that later moment, as `#sendState` does.
- `ReceiveState` applies the packet next in sequence and stages its new rows;
  `ObserverAccepts` or `ObserverRefuses` ends the await on the observer;
  `ApplyPending` continues with packets that were early. When the loop is done,
  the receive queue answers before it takes its next message (`Answering`).
- `Fails` sets the first terminal reason and tells the other peer.

Pads are model values, and a checksum record is the frame it was computed
from, so records differ exactly where the engines' frames do. A
duplicate of a packet is byte-identical, so the hash comparisons hold.
The variable `setup` names the match that is played: its protocol constants,
callers, transport and faults are a record of `Setups`, chosen in the first
state and never changed, so that one run covers several matches. `ordered`
chooses the transport: the TCP loopback, the room WebSocket and the
WebRTC data channel deliver in order and once; `ordered = FALSE` is a transport
that never forgets a message and delivers any at any time, against which the
core's sequence window is written. The caller is a parameter: which ticks it
adds together (`batches`), whether in order (`inOrder`), which it holds back
(`deferTicks`, `deferSendTicks` of the browser peer), and whether its own
engine gets another pad (`overrides`, `nativeOverrides`).

Not modelled: JSON shapes and field validation of malformed packets (peers are
honest), byte limits, send cancellation reports, diagnostics counters, and a
`sendRaw` that rejects.

### NativeInputQueue

The variables are the fields of `NetSession` that control anything; waits are
counted in the code and not here. `steps` is what is left of the budget that
`menu_clock` granted the running callback, and a page action needs `steps = 0`:
JavaScript cannot interrupt the callback. One step of the loop is
`melee_web_net_capture_local_input` (`CaptureVerdict`), `before_step`, the
source tick and `after_step`, in one action: `Step` when nothing is sampled,
`SampleStep` when a pad is, and actions of their own for what ends the session.
`fresh` is `poll_serial > last_poll_serial`: a callback polls the pad once.

The page is modelled from `scripts/net_lockstep_browser_peer.mjs`. `pads` are
the contributions published to it, `agreed` the frames it composes: neutral for
the delay, then a frame that needs the local pad of two ticks before, which the
queue must have captured. What the other peer contributes is always there in
time or later; `Lockstep` is about that. `PushFaulty` sends a gap, a changed or a
damaged frame, `PushSequential` is `melee_web_net_push` of a session without a
start barrier, whose bad frame leaves half a batch behind the frontier.
`faults` counts what an honest session has none of.

### CaptureInbox and ReferenceCapture

A session's directories are a function of where one may be: `active` and
`failed.partial` are named `<id>.partial`, the others `<id>`. A directory is
what validation tells apart in its files, and a manifest is a copy of what it
hashes, so that `Sealed` is a comparison. The record stream is an open
descriptor and follows its directory when that is moved (`Streamed`); every
other file is written by path and lost when the path is gone (`Rewritten`).
`complete` is the steps between which another process or a death may come:
`Close`, `Validate`, `WriteSidecars`, `WriteManifest`, `EnterAccept`, `Accept`.
A command validates before it takes the lock, as the code does, so `StartIngest`
and `StartDerive` are steps of their own, and `seen` is the manifest they read.
Creating the directory and its first files in `begin` is one step: it happens
under the lock.

`ReferenceCapture` has the main thread (`main`) and the worker that runs
`capture()` (`worker.pc`), in mode `gui` as two threads and in mode `replay` as
one, where a signal raises `SystemExit` at the worker's place: in the body of
the `try` it goes to the handler, in the handler to the `finally`, elsewhere out.
`_terminate_owned` is modelled once for the four places that call it
(`TerminatePlace`), holding the process lock between the signal and the reaping.
`Spawn` and `HoldProcess` are apart because `Popen` and the assignment of its
result are. Whether verification, the controller or the observer object is a
choice. Dolphin is external: it plays, reports an end, exits or crashes.

An error of `capture()` is a choice wherever its code may raise, and needs no
budget: what the body raises goes to the handler (`Raise`), what the handler
raises is kept in `worker.raised` until the `finally` is over, and what leaves
`capture()` is `Fails`, which the window's `run()` publishes as "failed".
That includes the errors after `bundle.complete()` has accepted the bundle
(`Announce`, `Reports`) and the receipt's (`Receipt`). In the window,
`CommandStart` is both `start` and `replay`, which differ only once the bundle is
accepted, so that `Announce` decides which it was; a command that is refused
only publishes (`CommandRefused`).

### LocalRun

`Plan` is the order of what `PairRun.run` does in a mode: profiles, starts,
waits, a pause, a stop. A wait succeeds, times out or finds a child gone
(`Await`); what it waits for is not modelled. `_stop` is a small machine for
each of the two supervisors, shared by `stop` and `close`, with a step per wait
and signal; children have a leader and perhaps descendants in its group.
`Interrupted` says, phase by phase, where a `KeyboardInterrupt` takes the run:
out before the `try`, to the handler within it, into the error of one child or of
all during `close`, into `failed-cleanup` in `_save_evidence`, and out of the
`finally` elsewhere. In mode `pause` the run is a child of the probe, which
stops it with SIGINT and reads its evidence.

## 4. Runs

| Run | Question | Bounds |
|---|---|---|
| `timeline` | Do the eight properties of one timeline hold under every order of calls? | prediction 2, history 3, lookahead 2, ticks 1..5, two pads: predictions of both values, corrections at every retained tick, confirmed prefixes, two trimmed rows, the last tick |
| `timeline_rows` | Does the class comment's bound on local rows hold? No: see Findings. | as `timeline` |
| `pair` | Do two timelines implement `AgreedHistory`, and is an honest sample ever refused? | prediction 1, history 2, lookahead 3 = prediction + 2, ticks 1..4, so that both peers trim; two pads, so that any prediction may be wrong |
| `pair_live` | Is what two timelines confirm what was played, and do both settle every tick? | prediction 2, the least for which a confirmed-prefix correction exists, ticks 1..3, so that each peer still blocks on the other; players that hold one pad, which is not the initial prediction |
| `lockstep` | Acknowledgement, deferral and agreement. Do peers of different matches ever play? | `exchange`: ordered transport, two ticks in any order and batching, each sent, held back, released; `reorder`: packets reordered and repeated, added one by one, two ticks against one; `faulty`: hash, push, observer and transport faults, a changed publication, a receive queue of two, two identities |
| `lockstep_bounds` | Is a reported mismatch the first? Can honest peers violate the protocol's bounds? | `desync`: two frames of which either may differ, both engines run; `narrow`: window and batch 1, three ticks, one held back, so the last admissible tick is sent |
| `lockstep_live` | Is every frame played? | one row per packet, two ticks, so that an answer must trigger the second |
| `native_queue` | Are the right frames consumed, all checksums kept, each pad sampled once, and is a session played to its end? | three sampled ticks and the code's delay of two; a ring of two, so that it fills; a callback of up to three steps; pushes of up to three frames; one fault of any kind |
| `capture` | Is what is accepted whole, shown and stopped, beside inbox commands of another process? | one capture, two records, one command at a time; two troubles in any combination: a signal, a death, a disk error of the bundle, a command or a refused one. Other errors of `capture()` may come anywhere and are not counted |
| `capture_interrupt` | Is Dolphin stopped when a replay is interrupted? No: see Findings. | as `capture`, mode `replay`, no death |
| `inbox_reuse` | Is a session identity unique in the inbox? No: see Findings. | two bundles of one identifier, one command |
| `local_run` | Are evidence and receipt true, profiles kept while in use, and does every run end? | a last cycle, a browser probe and an interrupted run; two interrupts; descendants of one client and of the browser; one client that outlasts SIGKILL's deadline |

Every property of a passing run has a mutant of the code that breaks it under
that run's own configuration. Deadlock checking is off where the system may
stop: a match ends, a disposed timeline accepts nothing, a local run is over,
and in `capture_interrupt` the application is not started again. In `capture` it
may always be, and a page always polls.

The bounds are small and the bounds of the code are large (7 predicted ticks, 32 rows),
but they enter both only as comparisons: the runs keep the order of the bounds
(history above prediction, lookahead above prediction + 1, batch at most
window) and make each bound bite within the ticks of the run. For the timeline
the theorems below remove the bounds. Two troubles are enough for the capture
and the run because their handlers are two deep: an exception's handler and its
`finally`, a cleanup and the saving of its evidence.

### Fairness

`RollbackPair!FairSpec`: weak fairness of recording and of the arrival of
samples that have been sent; strong fairness of planning and committing. A
duplicate drops an outstanding plan, so with weak fairness a stream of
duplicates could keep a caller from ever committing. The callers in the
repository exclude it: the episode operations refuse other operations while one
is busy (`episodeBusy`), so a plan and its commit are not separated by a
sample. An adapter that plans and commits asynchronously does not have this
guarantee: the strong fairness assumes the hazard at
`scripts/net_rollback_input_timeline.mjs:187` away, and `EveryTickSettles` does
not cover it. Nor does `MatchIsPlayed` cover a hello before `start`, which it
excepts by name.

`Lockstep!FairSpec`: weak fairness of everything a peer does by itself
(scheduled jobs, delivery by a reliable transport, an observer that answers, a
player that plays on). It is stated of the disjunction of these steps: each
uses up something finite in a run without repetitions, so this weaker
assumption suffices.

`NativeInputQueue!Fairness`: the page's tasks and the callbacks take turns for
ever. Callbacks are weakly fair. The page's tasks are disabled while a callback
runs, so theirs is strong: `ConfirmStart` after the peer's identity came,
`Agree` as the other peer keeps its part, a push that moves the frontier, and
`Drain`, which the browser peer's `pump` does with every call and whenever the
native side reports progress (`requestWakeup`).

`ReferenceCapture!Fairness`: the worker, the threads in `_terminate_owned` and
the inbox commands run on. Nothing is assumed of commands, signals or errors.
Dolphin need not end by itself; that SIGKILL ends it is in `ReapProcess`, as in
the `process.wait(timeout=5)` after it.

`LocalRun!Fairness`: the run and the probe run on; every wait of both has a
deadline in the code (`_wait_until`, `_stop`, the probe's marker loop; the pause
loop ends with a child or an interrupt), so each is weakly fair without any
assumption about the children. That the probe's SIGINT is delivered is not
assumed either: `_stop` goes on to SIGTERM.

## 5. Findings

`timeline_rows`: the class comment of `MatchInputTimeline` says that "local and
executed rows are each limited to maxHistoryTicks". `recordLocal` adds a row
and does not trim, so between it and the next commit a timeline with a full
history holds one local row more. Nothing depends on it; `StorageIsBounded`
states the bound that holds.

`capture_interrupt`: the application's notes say that interrupting a
command-line replay stops its Dolphin before the handle is released. A signal
between `Popen` and the assignment of its result finds no handle, and a second
one during `close()` ends the process before Dolphin was waited for. Dolphin
then plays on without an owner. `OwnedIsStopped` states what does hold: what the
application knows of is stopped.

`inbox_reuse`: a quarantined partial is `failed/<id>.partial`, and `begin` looks
for `failed/<id>`. An identifier can be begun again, and the second partial
cannot be quarantined. The application's own identifiers contain a random
number, so it does not meet this; a caller of the library that names its
sessions does.

Observed while modelling, and not violations of anything the repository says:

- a hello that arrives before the receiver called `start` ends the match
  (`MatchIsPlayed` names this exception); owners attach and start first;
- two held-back ticks followed by a full batch send a tick beyond the reorder
  window and end the match; one held-back tick does not (`lockstep_bounds`);
- a lookahead below prediction + 2 lets a timeline refuse an honest sample. The
  default of 32 is far above it; several callers in the repository take 4 or 8
  and are below it (section 6);
- after `dispose()`, `status().confirmed_through` can exceed what was confirmed;
- a Dolphin that finished its match and is then killed by `close()` before the
  worker looks is reported as crashed, and the recording fails: safe, but the
  message is wrong;
- an `OSError` while `complete` writes its sidecars leaves a closed partial
  without a failure record (`SealingRaises`);
- an artifact of `store_derived` whose process died before the manifest blocks
  every later one of the same artifact name (`CheckDerived`; the model has one
  name). Once the manifest is written, every later one of the session is refused;
- an error after `bundle.complete()` has returned (lines 598-599) or in writing
  the receipt (line 628) makes the window show "failed" over an accepted bundle,
  and so does a command that is refused. The bundle stays accepted: the
  handler's `bundle.fail` is refused. `ShownIsTrue` therefore says nothing of
  "failed";
- an interrupt in `PairRun.run`'s closing of its watchers skips the supervisor's
  `close` and the evidence. `CleanIsTrue` and `ReceiptIsTrue` hold because then
  nothing is claimed.

## 6. Proofs

Every safety invariant and every action property that a run checks is also a
theorem, for every value of the constants that the modules' assumptions allow,
and so are the two refinements of `AgreedHistory`. The run is the small instance
that showed the formula to be worth proving; `PROJECT.json` pairs the two. Each
module's properties follow from one inductive invariant, the theorem
`Invariance` (`InboxInvariance`), which has a lemma per action. TLC checked each
of these invariants on the run's instance before it was proved.

What stays with TLC: liveness (`EveryTickSettles`, `MatchIsPlayed`, `SessionPlays`,
`StopEnds`, `RunEnds`), since fairness and `ENABLED` are out of the prover's
reach, and the three runs that expect a violation.

### RollbackTimelineProofs

Assumed of the constants: `TimelineAssumption`, of which
`MaxHistory >= MaxPrediction + 1` is the constructor's check. Proved: the type
invariant and the seven properties of the `timeline` run.

The properties are not inductive: they speak of retained rows and say nothing
of why the rest may be forgotten. `IInv` adds

- `CursorInv`: at most one local sample is unsimulated, and speculation ends
  within the prediction bound;
- `AcceptedInv`: everything up to the contiguous cursor was accepted, the next
  tick was not, and nothing beyond the lookahead;
- `RowsInv`: the rows are exactly those at or above the history floor;
- `SeedInv`: the seed is the newest sample below the floor;
- `DirtyInv`: the tick to correct is retained and really wrong;
- `PlanInv`: an outstanding plan is still what the rows give;
- `DisposedInv`: a disposed timeline is empty.

The heart of it is `ResolveIsNewest`: rows from the floor on, with the seed,
predict what all samples ever accepted would. As history exceeds
prediction, the floor never passes the contiguous cursor, hence `NoSampleLost`.
`AcceptRemoteInv` is the long case: `LeastDirty` shows that the first
contradicted tick is where a sample arrived, and `NewestCarries` that a tick
before it keeps its prediction. `BoundedSets` supplies cardinalities of
intervals.

### RollbackPairProofs

`PairInv` is the invariant of the timeline, once per peer, and what ties the two
together: `SentInvA`/`B` (a peer has sent its sample of every tick up to its
cursor, and still has it), `HeardInvA`/`B` (what a peer accepted is what the other sent),
`LengthInv` (a history goes up to the confirmed tick) and
`SettledIsPlayed` itself. The timeline's lemmas are not proved again: the module
takes `RollbackTimelineProofs` by `INSTANCE` for each peer, whose assumption
follows from `PairAssumption`.

`PairImplementsAgreedHistory` maps every step of the pair to a step of
`AgreedHistory` or a stutter: what a peer has confirmed is what both players
produced, so of two histories one is a prefix of the other whatever the network
does. `HonestFits`, that no sample of an honest peer is refused as too far
ahead, has the hypothesis `MaxLookahead >= MaxPrediction + 2`. The constructor
does not demand it; the default lookahead of 32 and the prediction bound of at
most 7 ticks satisfy it. Not every caller has the default:
`tests/net_rollback_input_timeline.test.mjs` (lines 175 and 200) takes a lookahead
of 4 and of 8, and so do runners and probes in `src/slippi_profile/tests`
(`cpu_seven_tick_runner.mjs:42`, `runtime_peer_history_probe.mjs:51`). With a
prediction bound of 7 the hypothesis fails there, and the theorem says nothing
of them. The `pair` run uses the least lookahead that does, and with one
less the property fails there.

### LockstepProofs

`IInv` says of each peer: its rows (`LocalInv`, `RemoteInv`), its packet and
acknowledgement cursors (`SequenceInv`), that each frame its engine has was
composed of the rows of its tick (`FrameInv`), and what its caller does
(`CallerInv`). It says what the fields of one peer are worth to the other
(`LinkInv`: rows received are rows published, acknowledgements are of rows
committed; `FirstDifference`: what it compared is the same in both engines, and
its mismatch is the first frame that is not), and what every message on its way still says of its sender
(`MessageInv`). The last is the hard part, as a sender goes on after it has sent.
`Grows` names the way in which a peer may change and shows that messages stay
true when it does; every action is shown to be such a change, so that each
message is looked at once and not once per action.

Two theorems have hypotheses on the matches in `Setups`.
`LockstepImplementsAgreedHistory` asks that no engine is given another pad than
the one published: overrides are the test harness's way to provoke a desync,
and `DesyncIsFirst`, which covers them, has no such hypothesis.
`HonestWellFormed`, that no honest packet is rejected, asks for callers that add
their ticks in order and for `maxBatch + Cardinality(deferTicks[p]) <= window + 1`.
In the code the window and the largest batch are both 32, so that a
caller may hold back one tick at a time. The bound is exact: two held-back ticks
and a full batch after them end the match (the hazard at
`scripts/net_lockstep_core.mjs:388`).

### NativeInputQueueProofs

`RingInv`: the ring holds the undrained records, each at its place modulo its
size; `BarrierInv`: nothing is consumed before the start barrier is confirmed;
`CaptureInv`: the last tick sampled is the one at the cursor or the one before
it; `PollInv`: while samples are missing, a callback takes one step, with a poll
of its own. `FramesAreAgreed` and `HonestNeverEnds` are part of the induction.
`CapturedOnce` and `ChecksumsComplete` follow from it, and `TerminalIsFinal` is
an action property.

### CaptureInboxProofs and ReferenceCaptureProofs

`InboxInv` has, beside the types, `PlacedInv` (a directory belongs to the bundle
of its session, where that bundle's step says it is, and a final one has no
writer), `WritingInv` (what the step of a bundle says of the files it has
written so far: valid content from `sealing` on, the validation record from
`listing` on, a valid whole from `sealed` on), `InboxLockInv` (who works under
the lock holds it), `CommandInv` (what a command found before it took the lock is
still so when it writes) and `DerivedInv`. `Kept` is the action part: a directory
that exists is still there after the step, with the records it had. From them
come `FinalizedSound`, `DerivedBound` and `EvidenceKept`.

The theorems about `CaptureInbox` by itself assume `Unique`, that no two bundles
have a session in common, which is what a writer that makes a new identifier for
each recording gives; the violation run `inbox_reuse` shows what becomes of two
that share one. `CaptureAssumption` has it for the application, whose
identifiers are a time and 48 random bits (`scripts/reference_capture_app.py:420`).

`ReferenceCapture` extends the inbox, and so does its invariant:
`IInv == InboxInv /\ CaptureInv`. An action that only concerns the inbox uses
the inbox's lemmas as they are; the application's own adds `WorkerInv` (where the
bundle is for each place of `capture()`), `SealedInv` (no bundle is sealed while
its Dolphin lives), `DolphinInv`, `ProcessInv` (the process lock, the stop flag,
and that a joining main thread has left no live process behind) and
`ShownIsTrue`, with `ReportInv`: the application's command, while it derives, is
about the current capture. `ShownTrue` says what the window's words are worth
although the capture may raise at any place: "accepted" and every verdict of a
comparison stand for an accepted bundle, a verdict that was stored for a report
that this application wrote beside it, "incomplete" for a bundle that is closed.
`OwnedStopped` holds in every order of the two threads;
that Dolphin may outlive an interrupted replay is the violation run
`capture_interrupt`, and no theorem.

### LocalRunProofs

For every set of children that leave descendants or outlast SIGKILL, and any
number of interrupts. `PlaceInv` and `PairedInv` relate the phase of the run to
its plan; `StopInv` says what `_stop` has established at each of its steps;
`OwnedInv` that a child that is not gone is recorded with the supervisor, is the
one just spawned, or is an orphan that an interrupt took from `Popen`, and while
closing that every child after the current one is gone or an error was kept;
`CleanupInv` what the saved evidence and the missing profiles mean; `ProbeInv`
what the probe knows. `CleanTrue` speaks of children that are no orphans;
`ReceiptTrue` needs no such restriction, as a run that has paired is past its
last start (`PairedInv`).

### What the proofs found in the models

- A `CASE` whose guards overlap denotes an unspecified branch: TLC takes the
  first, the provers may assume none. The chains of `if` in the code are now
  written as `IF ... ELSE IF` (`NativeInputQueue`, `LocalRun`,
  `ReferenceCapture`).
- `LocalRun` let the `_stop` that the harness was in go on after the probe had
  killed the harness. The invariant was not inductive, and `RunStopStep` now
  needs a run that is not over.
- `CaptureInbox` and `ReferenceCapture` used strings for "nobody" and "nothing"
  that a bundle could have equalled: the assumptions now exclude it.

## 7. Not modelled

- Most of the Python, by lines, is comparison, derivation and analysis of
  recordings (`tools/whole_session_state_compare.py`, `tools/stadium_go_prefix.py`,
  `tools/allocation_lifetime_replay.py`, `scripts/capture_*.py`), code generation
  (`scripts/generate_*.py`) and builds (`scripts/build*.py`). Each is one process
  that reads files and writes a report. What could be wrong in them is in
  formats, offsets and wording, which a model of this kind abstracts away, so
  the modelled share of all Python lines stays small. What has state over time
  in it is `ReferenceCapture`, `CaptureInbox` and `LocalRun`.
- `scripts/install_reference_capture.py` replaces an installation by two
  renames. It is sequential; a crash between them (lines 387-389) leaves the old
  installation under its backup name only.
- The room relay, the transports, the runtime owner and its adapter, the save
  profile store, the match history controller: their hazards are listed in
  `PROJECT.json`, with no property. `Lockstep` has the transports by what they
  promise.
- In `ReferenceCapture`: a second signal during `close()` in the window, two
  applications with different `--root`, a failing `flock`; the commands `verify`
  (which `Verify` models as the start of a capture), `configure_controller` and
  `open_inbox`; `log.close()` raising, which would skip the `bundle.fail` after
  it; a `_terminate_owned` whose signal is not permitted or whose last wait runs
  out; a `begin` that raises after it has made the directory; a rename that is
  done although the directory's fsync after it fails.
- In `LocalRun`: what the waits look at, menus and games, ports beyond whether
  they are free, the reuse of a process group's number by another process, and
  `main`'s loop over cycles, which runs one `PairRun` after the other.
