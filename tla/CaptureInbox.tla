----------------------------- MODULE CaptureInbox -----------------------------
(***************************************************************************)
(* The on-disk inbox of tools/reference_session_bundle.py.  A bundle       *)
(* object writes one recording in activepartials and moves it, validated   *)
(* and sealed by a manifest, to acceptedunprocessed.  Meanwhile the        *)
(* commands of scripts/reference_capture_inbox.py ingest, quarantine and   *)
(* derive from other processes.  Any process may die at any step, and the  *)
(* writer's disk may fail.                                                 *)
(*                                                                         *)
(* The record stream is an open descriptor, which follows its directory    *)
(* when that is moved; every other file is written by its path.  A hash is *)
(* modelled by what it is the hash of.                                     *)
(***************************************************************************)
EXTENDS Naturals, SequencesExt

CONSTANTS
    Bundle,        \* the ReferenceSessionBundle objects
    Session,       \* the session identifiers
    SessionOf,     \* [Bundle -> Session], the identifier each begins with
    Tool,          \* the processes that run an inbox command
    MaxRecords,    \* bound of the model: records a bundle appends
    MaxDiskErrors  \* bound of the model: writes that fail

NoOne == "no one"

ASSUME InboxAssumption ==
    /\ SessionOf \in [Bundle -> Session]
    /\ Bundle \cap Tool = {} /\ NoOne \notin Bundle \cup Tool
    /\ MaxRecords \in Nat /\ MaxDiskErrors \in Nat

VARIABLES
    dirs,        \* [Session -> [Location -> the directory there]]
    derived,     \* [Session -> derived/<session>]
    bundle,      \* [Bundle -> the object in its process's memory]
    tool,        \* [Tool -> the command it is running]
    inboxLock,   \* who holds .reference-session.lock
    diskErrors   \* writes that have failed so far

inboxVars == <<dirs, derived, bundle, tool, inboxLock, diskErrors>>

-----------------------------------------------------------------------------
(* activepartials/<id>.partial, failed/<id>.partial, and <id> under each   *)
(* of acceptedunprocessed, ingested and failed.                            *)
Location == {"active", "failed.partial", "accepted", "ingested", "failed"}
Finalized == {"accepted", "ingested"}

NoDirectory == [status |-> "absent"]
NoManifest == <<>>

\* A record is its sequence number and what validation tells apart: an event,
\* the end of the lifecycle, an observer fault, a line that is "torn".

\* What the manifest hashes: every other file of the directory.
Payload(d) == [records |-> d.records, status |-> d.status, count |-> d.count,
               faults |-> d.faults, failure |-> d.failure,
               validation |-> d.validation]

NewDirectory(b) ==
    [owner |-> b, records |-> <<>>, status |-> "active", count |-> 0,
     faults |-> FALSE, failure |-> FALSE, validation |-> FALSE,
     manifest |-> NoManifest]

Sealed(d) == d.manifest # NoManifest /\ d.manifest[1] = Payload(d)

\* The part of validate_bundle that both complete() and a command rely on.
ContentValid(d) ==
    /\ d # NoDirectory
    /\ \A i \in DOMAIN d.records : d.records[i].seq = i - 1
    /\ \A i \in DOMAIN d.records : d.records[i].kind \notin {"torn", "fault"}
    /\ \E i \in DOMAIN d.records : d.records[i].kind = "end"
    /\ \A i \in DOMAIN d.records : d.records[i].kind = "end" => i = Len(d.records)
    /\ ~d.faults /\ d.status # "failed" /\ d.count = Len(d.records)

Valid(d) == ContentValid(d) /\ Sealed(d) /\ d.validation

-----------------------------------------------------------------------------
At(s, l) == dirs[s][l]
Exists(s, l) == dirs[s][l] # NoDirectory
Path(b) == At(SessionOf[b], "active")
PathExists(b) == Exists(SessionOf[b], "active")

\* Directories after files of b's active partial are rewritten by path: it is
\* d then, when it is there at all.
Partial(ds, b) == ds[SessionOf[b]]["active"]

Rewritten(ds, b, d) ==
    IF Partial(ds, b) = NoDirectory THEN ds
    ELSE [ds EXCEPT ![SessionOf[b]]["active"] = d]

\* Fault: the stream is opened anew, and truncated, for each record.
StreamedAnew(ds, b, record) ==
    [ds EXCEPT ![SessionOf[b]] =
        [l \in Location |->
            IF @[l] # NoDirectory /\ @[l].owner = b
            THEN [@[l] EXCEPT !.records = <<record>>]
            ELSE @[l]]]

\* Directories after a record goes through b's descriptor.
Longer(d, b, record) ==
    IF d # NoDirectory /\ d.owner = b THEN [d EXCEPT !.records = Append(@, record)] ELSE d

Streamed(ds, b, record) ==
    [ds EXCEPT ![SessionOf[b]] = [l \in Location |-> Longer(@[l], b, record)]]

\* _fail: the fault is remembered, and status.json and failure.json are
\* written as far as the disk allows.
FailureFiles(d, k) ==
    [d EXCEPT !.count = k, !.status = "failed", !.faults = TRUE, !.failure = TRUE]

FailureWritten(ds, b) == Rewritten(ds, b, FailureFiles(Partial(ds, b), bundle[b].count))

Failed(b, state) ==
    bundle' = [bundle EXCEPT ![b] = [@ EXCEPT !.pc = state, !.faults = TRUE]]

DiskFails == diskErrors < MaxDiskErrors /\ diskErrors' = diskErrors + 1

Acquire(p) == inboxLock = NoOne /\ inboxLock' = p
Release(p) == inboxLock' = IF inboxLock = p THEN NoOne ELSE inboxLock

Moved(s, from, to) ==
    dirs' = [dirs EXCEPT ![s][to] = At(s, from), ![s][from] = NoDirectory]

-----------------------------------------------------------------------------
InState(b, pc) == bundle[b].pc = pc
Goto(b, pc) == bundle' = [bundle EXCEPT ![b].pc = pc]

EnterBegin(b) ==
    /\ InState(b, "new") /\ Acquire(b) /\ Goto(b, "beginning")
    /\ UNCHANGED <<dirs, derived, tool, diskErrors>>

\* begin: refuses an identifier that has a directory, but does not look for
\* failed/<id>.partial, which is what quarantine makes of a partial.
Taken(s) == \E l \in {"active", "accepted", "failed", "ingested"} : Exists(s, l)

Begin(b) ==
    /\ InState(b, "beginning") /\ Release(b)
    /\ IF Taken(SessionOf[b])
       THEN Goto(b, "refused") /\ UNCHANGED dirs
       ELSE /\ Goto(b, "open")
            /\ dirs' = [dirs EXCEPT ![SessionOf[b]]["active"] = NewDirectory(b)]
    /\ UNCHANGED <<derived, tool, diskErrors>>

\* append: the record is on disk before the counters and status.json follow.
\* Without its directory the status cannot be written, nor the failure.
AppendRecord(b, kind) ==
    LET count == bundle[b].count + 1
        faults == bundle[b].faults \/ kind = "fault"
        streamed == Streamed(dirs, b, [seq |-> bundle[b].count, kind |-> kind])
    IN  /\ InState(b, "open") /\ bundle[b].count < MaxRecords
        /\ bundle' = [bundle EXCEPT ![b] = [@ EXCEPT !.count = count,
                          !.faults = faults \/ ~PathExists(b)]]
        /\ dirs' = Rewritten(streamed, b,
                       [Partial(streamed, b) EXCEPT !.status = "active", !.count = count,
                                                    !.faults = faults])
        /\ UNCHANGED <<derived, tool, inboxLock, diskErrors>>

\* append with an error of the disk: the line may be there, torn or whole, and
\* the counters stay; the caller may go on with the same sequence number.
AppendRejected(b) ==
    /\ InState(b, "open") /\ bundle[b].count < MaxRecords
    /\ DiskFails /\ Failed(b, "open")
    /\ \E kind \in {"event", "end", "torn"}, saved \in BOOLEAN :
         LET torn == Streamed(dirs, b, [seq |-> bundle[b].count, kind |-> kind])
         IN dirs' = IF saved THEN FailureWritten(torn, b) ELSE torn
    /\ UNCHANGED <<derived, tool, inboxLock>>

\* append of a record out of sequence, refused before anything is written.
AppendGap(b) ==
    /\ InState(b, "open") /\ Failed(b, "open")
    /\ dirs' = FailureWritten(dirs, b)
    /\ UNCHANGED <<derived, tool, inboxLock, diskErrors>>

\* fail: closes the bundle and keeps the partial.
FailBundle(b) ==
    /\ InState(b, "open") /\ Failed(b, "rejected")
    /\ dirs' = FailureWritten(dirs, b)
    /\ UNCHANGED <<derived, tool, inboxLock, diskErrors>>

-----------------------------------------------------------------------------
(* complete: close the streams, validate what is on disk, write            *)
(* status.json, validation.json and the manifest, move.                    *)
Close(b) ==
    /\ InState(b, "open") /\ Goto(b, "validating")
    /\ UNCHANGED <<dirs, derived, tool, inboxLock, diskErrors>>

Validate(b) ==
    /\ InState(b, "validating")
    /\ IF ContentValid(Path(b))
       THEN Goto(b, "sealing") /\ UNCHANGED dirs
       ELSE /\ Failed(b, "rejected")
            /\ dirs' = FailureWritten(dirs, b)
    /\ UNCHANGED <<derived, tool, inboxLock, diskErrors>>

\* The sidecars say what the object remembers, not what was validated.
WriteSidecars(b) ==
    /\ InState(b, "sealing") /\ PathExists(b)
    /\ Goto(b, "listing")
    /\ dirs' = Rewritten(dirs, b,
                 [Path(b) EXCEPT !.status = "complete", !.validation = TRUE,
                                 !.count = bundle[b].count, !.faults = bundle[b].faults])
    /\ UNCHANGED <<derived, tool, inboxLock, diskErrors>>

\* Fault: the files are hashed before the sidecars are written.
WriteManifestEarly(b) ==
    /\ InState(b, "listing") /\ PathExists(b)
    /\ Goto(b, "sealed")
    /\ dirs' = Rewritten(dirs, b,
                 [Path(b) EXCEPT !.manifest = <<[Payload(Path(b)) EXCEPT !.status = "active"]>>])
    /\ UNCHANGED <<derived, tool, inboxLock, diskErrors>>

WriteManifest(b) ==
    /\ InState(b, "listing") /\ PathExists(b)
    /\ Goto(b, "sealed")
    /\ dirs' = Rewritten(dirs, b, [Path(b) EXCEPT !.manifest = <<Payload(Path(b))>>])
    /\ UNCHANGED <<derived, tool, inboxLock, diskErrors>>

\* A sidecar cannot be written: complete raises, and records no failure.
SealingRaises(b) ==
    /\ bundle[b].pc \in {"sealing", "listing"}
    /\ IF PathExists(b) THEN DiskFails ELSE UNCHANGED diskErrors
    /\ Goto(b, "raised")
    /\ UNCHANGED <<dirs, derived, tool, inboxLock>>

EnterAccept(b) ==
    /\ InState(b, "sealed") /\ Acquire(b) /\ Goto(b, "accepting")
    /\ UNCHANGED <<dirs, derived, tool, diskErrors>>

Acceptable(b) == PathExists(b) /\ ~Exists(SessionOf[b], "accepted")

Accept(b) ==
    /\ InState(b, "accepting") /\ Release(b) /\ Acceptable(b)
    /\ Goto(b, "accepted") /\ Moved(SessionOf[b], "active", "accepted")
    /\ UNCHANGED <<derived, tool, diskErrors>>

AcceptFails(b) ==
    /\ InState(b, "accepting") /\ Release(b) /\ Failed(b, "rejected")
    /\ IF Acceptable(b) THEN DiskFails ELSE UNCHANGED diskErrors
    /\ dirs' = FailureWritten(dirs, b)
    /\ UNCHANGED <<derived, tool>>

Closed == {"refused", "rejected", "raised", "accepted", "dead"}

\* The writer's process dies; the kernel drops its lock.
WriterDies(b) ==
    /\ bundle[b].pc \notin Closed \cup {"new"} /\ Goto(b, "dead")
    /\ Release(b)
    /\ UNCHANGED <<dirs, derived, tool, diskErrors>>

-----------------------------------------------------------------------------
(* The commands.                                                           *)
Idle == [pc |-> "idle"]

Command(t, op, s, from, to) ==
    tool' = [tool EXCEPT ![t] = [pc |-> "waiting", op |-> op, session |-> s,
                                 from |-> from, to |-> to,
                                 seen |-> IF op = "derive" THEN At(s, from).manifest
                                          ELSE NoManifest]]

\* ingest and store_derived validate their source before they take the lock.
StartIngest(t, s) ==
    /\ tool[t] = Idle /\ Valid(At(s, "accepted"))
    /\ Command(t, "ingest", s, "accepted", "ingested")
    /\ UNCHANGED <<dirs, derived, bundle, inboxLock, diskErrors>>

StartDerive(t, s, from) ==
    /\ tool[t] = Idle /\ Valid(At(s, from))
    /\ Command(t, "derive", s, from, from)
    /\ UNCHANGED <<dirs, derived, bundle, inboxLock, diskErrors>>

StartQuarantine(t, s, from) ==
    /\ tool[t] = Idle
    /\ Command(t, "quarantine", s, from,
               IF from = "active" THEN "failed.partial" ELSE "failed")
    /\ UNCHANGED <<dirs, derived, bundle, inboxLock, diskErrors>>

\* Fault: a command that goes on without the lock.
EnterCommandUnlocked(t) ==
    /\ tool[t].pc = "waiting"
    /\ tool' = [tool EXCEPT ![t].pc = "locked"]
    /\ UNCHANGED <<dirs, derived, bundle, inboxLock, diskErrors>>

EnterCommand(t) ==
    /\ tool[t].pc = "waiting" /\ Acquire(t)
    /\ tool' = [tool EXCEPT ![t].pc = "locked"]
    /\ UNCHANGED <<dirs, derived, bundle, diskErrors>>

\* _atomic_move: refuses to replace a directory; a source that has gone is an
\* error of rename.
MoveDirectory(t) ==
    LET c == tool[t] IN
    /\ c.pc = "locked" /\ c.op \in {"ingest", "quarantine"} /\ Release(t)
    /\ IF Exists(c.session, c.from) /\ ~Exists(c.session, c.to)
       THEN Moved(c.session, c.from, c.to)
       ELSE UNCHANGED dirs
    /\ tool' = [tool EXCEPT ![t] = Idle]
    /\ UNCHANGED <<derived, bundle, diskErrors>>

\* store_derived looks for earlier output, writes the artifact, and then the
\* manifest that binds it.
CheckDerived(t) ==
    LET c == tool[t] IN
    /\ c.pc = "locked" /\ c.op = "derive"
    /\ IF derived[c.session].artifact = NoOne /\ derived[c.session].source = NoManifest
       THEN tool' = [tool EXCEPT ![t].pc = "checked"] /\ UNCHANGED inboxLock
       ELSE tool' = [tool EXCEPT ![t] = Idle] /\ Release(t)
    /\ UNCHANGED <<dirs, derived, bundle, diskErrors>>

WriteArtifact(t) ==
    /\ tool[t].pc = "checked"
    /\ derived' = [derived EXCEPT ![tool[t].session].artifact = t]
    /\ tool' = [tool EXCEPT ![t].pc = "wrote"]
    /\ UNCHANGED <<dirs, bundle, inboxLock, diskErrors>>

WriteDerivedManifest(t) ==
    LET c == tool[t] IN
    /\ c.pc = "wrote" /\ Release(t)
    /\ derived' = [derived EXCEPT ![c.session].source = c.seen,
                                  ![c.session].by = t]
    /\ tool' = [tool EXCEPT ![t] = Idle]
    /\ UNCHANGED <<dirs, bundle, diskErrors>>

ToolDies(t) ==
    /\ tool[t] # Idle /\ tool' = [tool EXCEPT ![t] = Idle]
    /\ Release(t)
    /\ UNCHANGED <<dirs, derived, bundle, diskErrors>>

-----------------------------------------------------------------------------
InboxInit ==
    /\ dirs = [s \in Session |-> [l \in Location |-> NoDirectory]]
    /\ derived = [s \in Session |-> [artifact |-> NoOne, source |-> NoManifest, by |-> NoOne]]
    /\ bundle = [b \in Bundle |-> [pc |-> "new", count |-> 0, faults |-> FALSE]]
    /\ tool = [t \in Tool |-> Idle]
    /\ inboxLock = NoOne
    /\ diskErrors = 0

CompleteStep(b) ==
    \/ Validate(b) \/ WriteSidecars(b) \/ WriteManifest(b) \/ SealingRaises(b)
    \/ EnterAccept(b) \/ Accept(b) \/ AcceptFails(b)

BundleStep(b) ==
    \/ EnterBegin(b) \/ Begin(b)
    \/ \E kind \in {"event", "end", "fault"} : AppendRecord(b, kind)
    \/ AppendRejected(b) \/ AppendGap(b) \/ FailBundle(b) \/ Close(b)
    \/ CompleteStep(b) \/ WriterDies(b)

StartCommand(t) ==
    \E s \in Session :
        \/ StartIngest(t, s)
        \/ \E from \in Finalized : StartDerive(t, s, from)
        \/ \E from \in {"active"} \cup Finalized : StartQuarantine(t, s, from)

CommandStep(t) ==
    \/ EnterCommand(t) \/ MoveDirectory(t)
    \/ CheckDerived(t) \/ WriteArtifact(t) \/ WriteDerivedManifest(t)

ToolStep(t) == StartCommand(t) \/ CommandStep(t) \/ ToolDies(t)

InboxNext ==
    \/ \E b \in Bundle : BundleStep(b)
    \/ \E t \in Tool : ToolStep(t)

InboxSpec == InboxInit /\ [][InboxNext]_inboxVars

-----------------------------------------------------------------------------
\* What the states acceptedunprocessed and ingested promise: a whole lifecycle
\* without a gap, a torn line or a fault, under a manifest of what is there.
\* complete validates before it seals, and writes from memory in between.
FinalizedIsSound ==
    \A s \in Session, l \in Finalized : Exists(s, l) => Valid(At(s, l))

\* Evidence is moved, never dropped or replaced: a directory is found again
\* with its records extended at most, and not even that once a run has been
\* finalized, whatever its writer and the commands do in the meantime.
EvidenceIsKept ==
    [][\A s \in Session, l \in Location :
         Exists(s, l) =>
            \E k \in Location :
               /\ dirs'[s][k] # NoDirectory /\ dirs'[s][k].owner = At(s, l).owner
               /\ IF l \in {"accepted", "ingested", "failed"}
                  THEN dirs'[s][k] = At(s, l)
                  ELSE IsPrefix(At(s, l).records, dirs'[s][k].records)]_inboxVars

\* A derived manifest binds the artifact beside it to a run of the inbox, even
\* when the run was ingested or quarantined, or another command derived from
\* it, after this one's validation.
DerivedIsBound ==
    \A s \in Session :
        derived[s].source # NoManifest =>
            /\ derived[s].artifact = derived[s].by
            /\ \E l \in Location : Exists(s, l) /\ At(s, l).manifest = derived[s].source

\* begin refuses an identifier that the inbox knows ("session already exists"):
\* no two directories of the inbox bear the identifier of one session.
OneRunPerSession ==
    \A s \in Session : \A k, l \in Location : Exists(s, k) /\ Exists(s, l) => k = l

=============================================================================
