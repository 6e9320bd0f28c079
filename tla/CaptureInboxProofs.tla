---------------------------- MODULE CaptureInboxProofs ----------------------------
(***************************************************************************)
(* Proofs about CaptureInbox, for any number of recordings, commands,      *)
(* records and disk errors, when no two recordings begin under one session *)
(* identifier.  Every action of the inbox keeps InboxInv, whoever takes it, *)
(* so that ReferenceCaptureProofs can use the same lemmas.                 *)
(***************************************************************************)
EXTENDS CaptureInbox, SequenceTheorems, TLAPS

BundlePc == {"new", "beginning", "open", "validating", "sealing", "listing", "sealed",
             "accepting"} \cup Closed
Kind == {"event", "end", "fault", "torn"}
Record == [seq : Nat, kind : Kind]
Status == {"active", "failed", "complete"}
PayloadType ==
    [records : Seq(Record), status : Status, count : Nat, faults : BOOLEAN,
     failure : BOOLEAN, validation : BOOLEAN]
DirectoryType ==
    [owner : Bundle, records : Seq(Record), status : Status, count : Nat, faults : BOOLEAN,
     failure : BOOLEAN, validation : BOOLEAN, manifest : Seq(PayloadType)]
CommandType ==
    [pc : {"waiting", "locked", "checked", "wrote"}, op : {"ingest", "quarantine", "derive"},
     session : Session, from : Location, to : Location, seen : Seq(PayloadType)]

DerivedStates ==
    [Session -> [artifact : Tool \cup {NoOne}, source : Seq(PayloadType),
                 by : Tool \cup {NoOne}]]
ToolStates == [Tool -> {Idle} \cup CommandType]

Unique == \A b, c \in Bundle : SessionOf[b] = SessionOf[c] => b = c

Final == {"accepted", "ingested", "failed"}

\* A manifest is of a recording that was finalized
Bound(s, m) == \E l \in Final : Exists(s, l) /\ At(s, l).manifest = m

InboxType ==
    /\ dirs \in [Session -> [Location -> {NoDirectory} \cup DirectoryType]]
    /\ derived \in DerivedStates
    /\ bundle \in [Bundle -> [pc : BundlePc, count : Nat, faults : BOOLEAN]]
    /\ tool \in ToolStates
    /\ inboxLock \in Bundle \cup Tool \cup {NoOne}
    /\ diskErrors \in Nat

\* A directory is of the bundle of its session, which writes no more once it is final
PlacedInv ==
    \A s \in Session, l \in Location :
        Exists(s, l) =>
            /\ SessionOf[At(s, l).owner] = s
            /\ l \in Final => bundle[At(s, l).owner].pc = "accepted"

\* What the object of b remembers and what its partial holds
WritingOf(b) ==
    LET d == Path(b)
        m == bundle[b]
    IN  /\ m.pc \in {"new", "beginning"} => m.count = 0 /\ ~m.faults
        /\ PathExists(b) =>
              /\ m.pc \in {"open", "validating"} =>
                    /\ d.count = m.count /\ m.count <= Len(d.records)
                    /\ m.faults => d.faults \/ m.count < Len(d.records)
              /\ m.pc = "sealing" => ContentValid(d) /\ d.count = m.count /\ ~m.faults
              /\ m.pc = "listing" => ContentValid(d) /\ d.validation
              /\ m.pc \in {"sealed", "accepting"} => Valid(d)

WritingInv == \A b \in Bundle : WritingOf(b)

\* Who works under the inbox's lock holds it
InboxLockInv ==
    /\ \A b \in Bundle : bundle[b].pc \in {"beginning", "accepting"} => inboxLock = b
    /\ \A t \in Tool : tool[t].pc \in {"locked", "checked", "wrote"} => inboxLock = t

\* What a command moves, and what it derives from
CommandOf(t) ==
    LET c == tool[t] IN
    c # Idle =>
        /\ c.op = "ingest" => c.from = "accepted" /\ c.to = "ingested"
        /\ c.op = "quarantine" => \/ c.from = "active" /\ c.to = "failed.partial"
                                  \/ c.from \in Finalized /\ c.to = "failed"
        /\ c.op = "derive" => c.seen # NoManifest /\ Bound(c.session, c.seen)
        /\ c.pc \in {"checked", "wrote"} =>
              c.op = "derive" /\ derived[c.session].source = NoManifest
        /\ c.pc = "wrote" => derived[c.session].artifact = t

CommandInv == \A t \in Tool : CommandOf(t)

DerivedInv ==
    \A s \in Session :
        derived[s].source # NoManifest =>
            derived[s].artifact = derived[s].by /\ Bound(s, derived[s].source)

InboxInv ==
    /\ InboxType /\ PlacedInv /\ WritingInv /\ FinalizedIsSound /\ InboxLockInv
    /\ CommandInv /\ DerivedInv

-----------------------------------------------------------------------------
(* What a step does to the directories.                                    *)

\* A recording is found again with its records, and unchanged once it is final.
KeptAt(s, l) ==
    \E k \in Location :
        /\ dirs'[s][k] # NoDirectory /\ dirs'[s][k].owner = At(s, l).owner
        /\ IF l \in Final THEN k \in Final /\ dirs'[s][k] = At(s, l)
           ELSE IsPrefix(At(s, l).records, dirs'[s][k].records)

Kept == \A s \in Session, l \in Location : Exists(s, l) => KeptAt(s, l)

Directories == [Session -> [Location -> {NoDirectory} \cup DirectoryType]]

\* What b leaves of the directories: every other session alone, and what is final.
Written(b, ds) ==
    /\ ds \in Directories
    /\ \A s \in Session, l \in Location :
          /\ Exists(s, l) =>
                /\ ds[s][l] # NoDirectory /\ ds[s][l].owner = At(s, l).owner
                /\ IsPrefix(At(s, l).records, ds[s][l].records)
          /\ ~Exists(s, l) /\ ds[s][l] # NoDirectory =>
                s = SessionOf[b] /\ l = "active" /\ ds[s][l].owner = b
          /\ s # SessionOf[b] \/ l \in Final => ds[s][l] = At(s, l)

Writes(b) == Written(b, dirs')

BundleStates == [Bundle -> [pc : BundlePc, count : Nat, faults : BOOLEAN]]

\* A step of b that is not accepted changes no other object and no command.
ByWriter(b) ==
    /\ bundle' \in BundleStates /\ \A c \in Bundle : c # b => bundle'[c] = bundle[c]
    /\ bundle[b].pc # "accepted" /\ UNCHANGED <<derived, tool>>
    /\ inboxLock' \in Bundle \cup Tool \cup {NoOne} /\ diskErrors' \in Nat

-----------------------------------------------------------------------------
(* Directories and sequences.                                              *)

\* A sequence is a prefix of one that has its elements.
LEMMA PrefixByElements ==
    ASSUME NEW S, NEW s \in Seq(S), NEW t \in Seq(S), Len(s) <= Len(t),
           \A i \in 1..Len(s) : t[i] = s[i]
    PROVE  IsPrefix(s, t)
<1> DEFINE n == Len(s)
<1>1. n \in Nat /\ n <= Len(t) /\ Len(t) \in Nat
  OBVIOUS
<1>2. /\ SubSeq(s, 1, n) \in Seq(S) /\ Len(SubSeq(s, 1, n)) = n
      /\ \A i \in 1..n : SubSeq(s, 1, n)[i] = s[i]
  <2>1. \A i \in 1..n : s[i] \in S
    OBVIOUS
  <2>2. QED
    BY <1>1, <2>1, SubSeqProperties
<1>3. /\ SubSeq(t, 1, n) \in Seq(S) /\ Len(SubSeq(t, 1, n)) = n
      /\ \A i \in 1..n : SubSeq(t, 1, n)[i] = t[i]
  <2>1. \A i \in 1..n : t[i] \in S
    BY <1>1
  <2>2. QED
    BY <1>1, <2>1, SubSeqProperties
<1>4. SubSeq(s, 1, n) = SubSeq(t, 1, n)
  BY <1>2, <1>3, SeqEqual
<1>5. QED
  BY <1>1, <1>4 DEF IsPrefix

\* A record appended.
LEMMA AppendedRecord ==
    ASSUME NEW s \in Seq(Record), NEW e \in Record
    PROVE  /\ Append(s, e) \in Seq(Record) /\ Len(Append(s, e)) = Len(s) + 1
           /\ IsPrefix(s, Append(s, e)) /\ IsPrefix(s, s)
<1>1. /\ Append(s, e) \in Seq(Record) /\ Len(Append(s, e)) = Len(s) + 1 /\ Len(s) \in Nat
      /\ \A i \in 1..Len(s) : Append(s, e)[i] = s[i]
  OBVIOUS
<1>2. Len(s) <= Len(Append(s, e)) /\ Len(s) <= Len(s)
  BY <1>1
<1>3. QED
  BY <1>1, <1>2, PrefixByElements

\* A directory is not the absence of one.
LEMMA DirectoryIsThere ==
    ASSUME NEW d \in DirectoryType
    PROVE  /\ d # NoDirectory /\ d.owner \in Bundle /\ d.records \in Seq(Record)
           /\ d.status \in Status /\ d.count \in Nat /\ d.faults \in BOOLEAN
           /\ d.failure \in BOOLEAN /\ d.validation \in BOOLEAN
           /\ d.manifest \in Seq(PayloadType)
<1>1. d.status \in Status
  BY DEF DirectoryType
<1>2. d.status # "absent"
  BY <1>1 DEF Status
<1>3. d # NoDirectory
  BY <1>2 DEF NoDirectory
<1>4. QED
  BY <1>3 DEF DirectoryType

\* What exists is a directory.
LEMMA ExistsTyped ==
    ASSUME dirs \in Directories, NEW s \in Session, NEW l \in Location, Exists(s, l)
    PROVE  At(s, l) \in DirectoryType
BY DEF Directories, Exists, At

\* A file rewritten in the partial of b.
LEMMA RewrittenAt ==
    ASSUME NEW ds \in Directories, NEW b \in Bundle, NEW d \in DirectoryType
    PROVE  /\ Rewritten(ds, b, d) \in Directories
           /\ \A s \in Session, l \in Location :
                 Rewritten(ds, b, d)[s][l] =
                    IF s = SessionOf[b] /\ l = "active" /\ ds[s][l] # NoDirectory THEN d
                    ELSE ds[s][l]
<1>1. SessionOf[b] \in Session /\ "active" \in Location
  BY InboxAssumption DEF Location
<1>2. CASE ds[SessionOf[b]]["active"] = NoDirectory
  BY <1>1, <1>2 DEF Rewritten, Partial
<1>3. CASE ds[SessionOf[b]]["active"] # NoDirectory
  BY <1>1, <1>3 DEF Rewritten, Partial, Directories
<1>4. QED
  BY <1>2, <1>3

\* A record through the descriptor of b.
LEMMA StreamedAt ==
    ASSUME NEW ds \in Directories, NEW b \in Bundle, NEW e \in Record
    PROVE  /\ Streamed(ds, b, e) \in Directories
           /\ \A s \in Session, l \in Location :
                 Streamed(ds, b, e)[s][l] =
                    IF s = SessionOf[b] /\ ds[s][l] # NoDirectory /\ ds[s][l].owner = b
                    THEN [ds[s][l] EXCEPT !.records = Append(ds[s][l].records, e)]
                    ELSE ds[s][l]
<1>1. SessionOf[b] \in Session
  BY InboxAssumption
<1>2. ASSUME NEW d \in DirectoryType
      PROVE  [d EXCEPT !.records = Append(d.records, e)] \in DirectoryType
  <2>1. d.records \in Seq(Record)
    BY DirectoryIsThere
  <2>2. Append(d.records, e) \in Seq(Record)
    BY <2>1, AppendedRecord
  <2>3. QED
    BY <2>2 DEF DirectoryType
<1> DEFINE old == ds[SessionOf[b]]
           new == [l \in Location |-> Longer(old[l], b, e)]
<1>3. old \in [Location -> {NoDirectory} \cup DirectoryType]
  BY <1>1 DEF Directories
<1>4. \A d \in {NoDirectory} \cup DirectoryType :
         Longer(d, b, e) \in {NoDirectory} \cup DirectoryType
  BY <1>2 DEF Longer
<1>5. Streamed(ds, b, e) = [ds EXCEPT ![SessionOf[b]] = new]
  BY DEF Streamed
<1>6. /\ new \in [Location -> {NoDirectory} \cup DirectoryType]
      /\ \A l \in Location : new[l] = Longer(old[l], b, e)
  <2> HIDE DEF old
  <2>1. QED
    BY <1>3, <1>4
<1>7. Streamed(ds, b, e) \in Directories
  <2> HIDE DEF new
  <2>1. QED
    BY <1>1, <1>5, <1>6 DEF Directories
<1>8. ASSUME NEW s \in Session, NEW l \in Location
      PROVE  Streamed(ds, b, e)[s][l] =
                IF s = SessionOf[b] THEN Longer(ds[s][l], b, e) ELSE ds[s][l]
  <2> HIDE DEF new
  <2>1. QED
    BY <1>1, <1>5, <1>6 DEF Directories
<1>9. QED
  BY <1>7, <1>8 DEF Longer

-----------------------------------------------------------------------------
(* What the steps of writers, the moves and the commands leave true.       *)

\* What a manifest binds stays bound.
LEMMA BoundStays ==
    ASSUME Kept, NEW s \in Session, NEW m, Bound(s, m)
    PROVE  Bound(s, m)'
<1>1. PICK l \in Final : Exists(s, l) /\ At(s, l).manifest = m
  BY DEF Bound
<1>2. l \in Location
  BY DEF Final, Location
<1>3. KeptAt(s, l)
  BY <1>1, <1>2 DEF Kept
<1>4. PICK k \in Final : dirs'[s][k] # NoDirectory /\ dirs'[s][k] = At(s, l)
  BY <1>3 DEF KeptAt
<1>5. QED
  BY <1>1, <1>4 DEF Bound, Exists, At

\* The commands and what is derived, when only the directories change.
LEMMA CommandsStay ==
    ASSUME InboxInv, Kept, UNCHANGED <<derived, tool>>
    PROVE  CommandInv' /\ DerivedInv'
<1>1. /\ \A t \in Tool : tool'[t] = tool[t]
      /\ \A s \in Session : derived'[s] = derived[s]
  OBVIOUS
<1>2. \A t \in Tool : tool[t] # Idle => tool[t].session \in Session
  BY DEF InboxInv, InboxType, ToolStates, CommandType
<1>3. CommandInv'
  <2>1. ASSUME NEW t \in Tool  PROVE CommandOf(t)'
    <3>1. CommandOf(t)
      BY DEF InboxInv, CommandInv
    <3>2. QED
      BY <1>1, <1>2, <3>1, BoundStays DEF CommandOf
  <2>2. QED
    BY <2>1 DEF CommandInv
<1>4. DerivedInv'
  BY <1>1, BoundStays DEF InboxInv, DerivedInv
<1>5. QED
  BY <1>3, <1>4

\* A step of a writer.
LEMMA WriterKeeps ==
    ASSUME Unique, InboxInv, NEW b \in Bundle, Writes(b), ByWriter(b), WritingOf(b)',
           InboxLockInv'
    PROVE  InboxInv' /\ Kept
<1>1. dirs \in Directories
  BY DEF InboxInv, InboxType, Directories
<1>2. Kept
  <2>1. ASSUME NEW s \in Session, NEW l \in Location, Exists(s, l)  PROVE KeptAt(s, l)
    BY <2>1 DEF Writes, Written, KeptAt
  <2>2. QED
    BY <2>1 DEF Kept
<1>3. InboxType'
  BY DEF InboxInv, InboxType, Writes, Written, ByWriter, Directories, BundleStates
<1>4. PlacedInv'
  <2>1. ASSUME NEW s \in Session, NEW l \in Location, dirs'[s][l] # NoDirectory
        PROVE  /\ SessionOf[dirs'[s][l].owner] = s
               /\ l \in Final => bundle'[dirs'[s][l].owner].pc = "accepted"
    <3>1. CASE Exists(s, l)
      <4>1. /\ dirs'[s][l].owner = At(s, l).owner /\ SessionOf[At(s, l).owner] = s
            /\ l \in Final => bundle[At(s, l).owner].pc = "accepted"
        BY <3>1 DEF Writes, Written, InboxInv, PlacedInv
      <4>2. At(s, l).owner \in Bundle
        BY <1>1, <3>1, ExistsTyped, DirectoryIsThere
      <4>3. l \in Final => At(s, l).owner # b
        BY <4>1 DEF ByWriter
      <4>4. QED
        BY <4>1, <4>2, <4>3 DEF ByWriter
    <3>2. CASE ~Exists(s, l)
      <4>1. s = SessionOf[b] /\ l = "active" /\ dirs'[s][l].owner = b
        BY <2>1, <3>2 DEF Writes, Written
      <4>2. QED
        BY <4>1 DEF Final
    <3>3. QED
      BY <3>1, <3>2
  <2>2. QED
    BY <2>1 DEF PlacedInv, Exists, At
<1>5. WritingInv'
  <2>1. ASSUME NEW c \in Bundle, c # b  PROVE WritingOf(c)'
    <3>1. SessionOf[c] # SessionOf[b] /\ SessionOf[c] \in Session /\ "active" \in Location
      BY <2>1, InboxAssumption DEF Unique, Location
    <3>2. Path(c)' = Path(c) /\ (PathExists(c)' <=> PathExists(c)) /\ bundle'[c] = bundle[c]
      BY <2>1, <3>1 DEF Writes, Written, ByWriter, Path, PathExists, Exists, At
    <3>3. WritingOf(c)
      BY DEF InboxInv, WritingInv
    <3>4. QED
      BY <3>2, <3>3 DEF WritingOf
  <2>2. QED
    BY <2>1 DEF WritingInv
<1>6. FinalizedIsSound'
  <2>1. \A s \in Session, l \in Finalized : dirs'[s][l] = dirs[s][l]
    BY DEF Writes, Written, Finalized, Final, Location, At
  <2>2. QED
    BY <2>1 DEF InboxInv, FinalizedIsSound, Exists, At
<1>7. CommandInv' /\ DerivedInv'
  BY <1>2, CommandsStay DEF ByWriter
<1>8. QED
  BY <1>2, <1>3, <1>4, <1>5, <1>6, <1>7 DEF InboxInv

\* A directory moved.
LEMMA MovedAt ==
    ASSUME dirs \in Directories, NEW s \in Session, NEW from \in Location, NEW to \in Location,
           from # to, Moved(s, from, to)
    PROVE  /\ dirs' \in Directories
           /\ dirs'[s][to] = At(s, from) /\ dirs'[s][from] = NoDirectory
           /\ \A z \in Session, l \in Location :
                 z # s \/ l \notin {from, to} => dirs'[z][l] = At(z, l)
<1>1. dirs' = [dirs EXCEPT ![s][to] = At(s, from), ![s][from] = NoDirectory]
  BY DEF Moved
<1>2. At(s, from) \in {NoDirectory} \cup DirectoryType
  BY DEF At, Directories
<1>3. QED
  BY <1>1, <1>2 DEF Directories, At

\* A move to a place that is free, of a recording that may be there.
LEMMA MoveKeeps ==
    ASSUME InboxInv, NEW s \in Session, NEW from \in Location, NEW to \in Location,
           from # to, to # "active", Exists(s, from), ~Exists(s, to), Moved(s, from, to),
           from \in Final => to \in Final,
           to \in Finalized => Valid(At(s, from)),
           to \in Final => bundle'[At(s, from).owner].pc = "accepted",
           \A c \in Bundle : bundle[c].pc = "accepted" => bundle'[c].pc = "accepted"
    PROVE  /\ dirs' \in Directories /\ Kept /\ PlacedInv' /\ FinalizedIsSound'
           /\ \A c \in Bundle : PathExists(c)' => PathExists(c) /\ Path(c)' = Path(c)
<1>1. dirs \in Directories
  BY DEF InboxInv, InboxType, Directories
<1>2. /\ dirs' \in Directories
      /\ dirs'[s][to] = At(s, from) /\ dirs'[s][from] = NoDirectory
      /\ \A z \in Session, l \in Location :
            z # s \/ l \notin {from, to} => dirs'[z][l] = At(z, l)
  BY <1>1, MovedAt
<1>3. \A z \in Session, l \in Location :
         Exists(z, l) => /\ At(z, l) \in DirectoryType /\ At(z, l).owner \in Bundle
                         /\ IsPrefix(At(z, l).records, At(z, l).records)
  <2>1. ASSUME NEW z \in Session, NEW l \in Location, Exists(z, l)
        PROVE  /\ At(z, l) \in DirectoryType /\ At(z, l).owner \in Bundle
               /\ IsPrefix(At(z, l).records, At(z, l).records)
    <3>1. At(z, l) \in DirectoryType
      BY <1>1, <2>1, ExistsTyped
    <3>2. At(z, l).records \in Seq(Record) /\ At(z, l).owner \in Bundle
      BY <3>1, DirectoryIsThere
    <3>3. Len(At(z, l).records) \in Nat
      BY <3>2
    <3>4. QED
      BY <3>1, <3>2, <3>3, PrefixByElements
  <2>2. QED
    BY <2>1
<1>4. Kept
  <2>1. ASSUME NEW z \in Session, NEW l \in Location, Exists(z, l)  PROVE KeptAt(z, l)
    <3>1. CASE z = s /\ l = from
      <4>1. dirs'[z][to] = At(z, l) /\ dirs'[z][to] # NoDirectory
        BY <1>2, <3>1 DEF Exists, At
      <4>2. QED
        BY <1>3, <2>1, <3>1, <4>1 DEF KeptAt
    <3>2. CASE ~(z = s /\ l = from)
      <4>1. ~(z = s /\ l = to)
        BY <2>1
      <4>2. dirs'[z][l] = At(z, l) /\ dirs'[z][l] # NoDirectory
        BY <1>2, <2>1, <3>2, <4>1 DEF Exists, At
      <4>3. QED
        BY <1>3, <2>1, <4>2 DEF KeptAt
    <3>3. QED
      BY <3>1, <3>2
  <2>2. QED
    BY <2>1 DEF Kept
<1>5. ASSUME NEW z \in Session, NEW l \in Location, dirs'[z][l] # NoDirectory
      PROVE  \/ z = s /\ l = to /\ dirs'[z][l] = At(s, from)
             \/ Exists(z, l) /\ dirs'[z][l] = At(z, l) /\ ~(z = s /\ l = to)
  BY <1>2, <1>5 DEF Exists, At
<1>6. PlacedInv'
  <2>1. ASSUME NEW z \in Session, NEW l \in Location, dirs'[z][l] # NoDirectory
        PROVE  /\ SessionOf[dirs'[z][l].owner] = z
               /\ l \in Final => bundle'[dirs'[z][l].owner].pc = "accepted"
    <3>1. CASE z = s /\ l = to /\ dirs'[z][l] = At(s, from)
      BY <3>1 DEF InboxInv, PlacedInv
    <3>2. CASE Exists(z, l) /\ dirs'[z][l] = At(z, l)
      BY <1>3, <3>2 DEF InboxInv, PlacedInv
    <3>3. QED
      BY <1>5, <2>1, <3>1, <3>2
  <2>2. QED
    BY <2>1 DEF PlacedInv, Exists, At
<1>7. FinalizedIsSound'
  <2>1. ASSUME NEW z \in Session, NEW l \in Finalized, dirs'[z][l] # NoDirectory
        PROVE  Valid(dirs'[z][l])
    <3>1. l \in Location
      BY DEF Finalized, Location
    <3>2. CASE z = s /\ l = to /\ dirs'[z][l] = At(s, from)
      BY <3>2
    <3>3. CASE Exists(z, l) /\ dirs'[z][l] = At(z, l)
      BY <3>3 DEF InboxInv, FinalizedIsSound
    <3>4. QED
      BY <1>5, <2>1, <3>1, <3>2, <3>3
  <2>2. QED
    BY <2>1 DEF FinalizedIsSound, Exists, At
<1>8. ASSUME NEW c \in Bundle, PathExists(c)'  PROVE PathExists(c) /\ Path(c)' = Path(c)
  <2>1. SessionOf[c] \in Session /\ "active" \in Location
    BY InboxAssumption DEF Location
  <2>2. dirs'[SessionOf[c]]["active"] # NoDirectory
    BY <1>8 DEF PathExists, Exists, At
  <2>3. QED
    BY <1>5, <2>1, <2>2 DEF PathExists, Path, Exists, At
<1>9. QED
  BY <1>2, <1>4, <1>6, <1>7, <1>8

\* The directories stay.
LEMMA DirectoriesStay ==
    ASSUME InboxInv, dirs' = dirs
    PROVE  Kept /\ FinalizedIsSound' /\ dirs' \in Directories
<1>1. dirs \in Directories
  BY DEF InboxInv, InboxType, Directories
<1>2. Kept
  <2>1. ASSUME NEW s \in Session, NEW l \in Location, Exists(s, l)  PROVE KeptAt(s, l)
    <3>1. At(s, l).records \in Seq(Record)
      BY <1>1, <2>1, ExistsTyped, DirectoryIsThere
    <3>2. Len(At(s, l).records) \in Nat
      BY <3>1
    <3>3. IsPrefix(At(s, l).records, At(s, l).records)
      BY <3>1, <3>2, PrefixByElements
    <3>4. QED
      BY <2>1, <3>3 DEF KeptAt, Exists, At
  <2>2. QED
    BY <2>1 DEF Kept
<1>3. FinalizedIsSound'
  BY DEF InboxInv, FinalizedIsSound, Exists, At
<1>4. QED
  BY <1>1, <1>2, <1>3

\* Nothing changes on the disk, nor in a writer.
LEMMA DiskStays ==
    ASSUME InboxInv, UNCHANGED <<dirs, bundle>>
    PROVE  /\ Kept /\ PlacedInv' /\ WritingInv' /\ FinalizedIsSound'
           /\ dirs' \in Directories /\ bundle' \in BundleStates
<1>1. bundle \in BundleStates
  BY DEF InboxInv, InboxType, BundleStates
<1>2. Kept /\ FinalizedIsSound' /\ dirs' \in Directories
  BY DirectoriesStay
<1>3. PlacedInv'
  BY DEF InboxInv, PlacedInv, Exists, At
<1>4. WritingInv'
  BY DEF InboxInv, WritingInv, WritingOf, Path, PathExists, Exists, At
<1>5. QED
  BY <1>1, <1>2, <1>3, <1>4
-----------------------------------------------------------------------------
(* The steps of a writer.                                                  *)

\* An object of b replaced.
LEMMA ObjectSet ==
    ASSUME InboxInv, NEW b \in Bundle,
           NEW m \in [pc : BundlePc, count : Nat, faults : BOOLEAN],
           bundle' = [bundle EXCEPT ![b] = m]
    PROVE  /\ bundle' \in BundleStates /\ bundle'[b] = m
           /\ \A c \in Bundle : c # b => bundle'[c] = bundle[c]
BY DEF InboxInv, InboxType, BundleStates

\* What b remembers.
LEMMA ObjectTyped ==
    ASSUME InboxInv, NEW b \in Bundle
    PROVE  /\ bundle \in BundleStates
           /\ bundle[b].pc \in BundlePc /\ bundle[b].count \in Nat
           /\ bundle[b].faults \in BOOLEAN
           /\ bundle[b] = [pc |-> bundle[b].pc, count |-> bundle[b].count,
                           faults |-> bundle[b].faults]
BY DEF InboxInv, InboxType, BundleStates

\* The object of b goes to another state.
LEMMA GotoSets ==
    ASSUME InboxInv, NEW b \in Bundle, NEW pc \in BundlePc, Goto(b, pc)
    PROVE  /\ bundle' \in BundleStates
           /\ bundle'[b].pc = pc /\ bundle'[b].count = bundle[b].count
           /\ bundle'[b].faults = bundle[b].faults
           /\ \A c \in Bundle : c # b => bundle'[c] = bundle[c]
<1>1. bundle \in BundleStates
  BY ObjectTyped
<1>2. QED
  BY <1>1 DEF Goto, BundleStates

\* The object of b remembers a fault.
LEMMA FailedSets ==
    ASSUME InboxInv, NEW b \in Bundle, NEW pc \in BundlePc, Failed(b, pc)
    PROVE  /\ bundle' \in BundleStates
           /\ bundle'[b].pc = pc /\ bundle'[b].count = bundle[b].count
           /\ bundle'[b].faults = TRUE
           /\ \A c \in Bundle : c # b => bundle'[c] = bundle[c]
<1>1. bundle \in BundleStates
  BY ObjectTyped
<1>2. QED
  BY <1>1 DEF Failed, BundleStates

\* The lock, when b leaves it alone or gives it up.
LEMMA WriterUnlocks ==
    ASSUME InboxInv, NEW b \in Bundle, inboxLock' = inboxLock \/ Release(b),
           \A c \in Bundle : c # b => bundle'[c] = bundle[c], UNCHANGED tool,
           bundle'[b].pc \notin {"beginning", "accepting"}
    PROVE  InboxLockInv' /\ inboxLock' \in Bundle \cup Tool \cup {NoOne}
<1>1. inboxLock' \in {inboxLock, NoOne} /\ (inboxLock # b => inboxLock' = inboxLock)
  BY DEF Release
<1>2. inboxLock \in Bundle \cup Tool \cup {NoOne} /\ InboxLockInv
  BY DEF InboxInv, InboxType
<1>3. \A t \in Tool : t # b
  BY InboxAssumption
<1>4. QED
  BY <1>1, <1>2, <1>3 DEF InboxLockInv

\* The lock, when b takes it.
LEMMA WriterLocks ==
    ASSUME InboxInv, NEW b \in Bundle, Acquire(b),
           \A c \in Bundle : c # b => bundle'[c] = bundle[c], UNCHANGED tool
    PROVE  InboxLockInv' /\ inboxLock' \in Bundle \cup Tool \cup {NoOne}
<1>1. inboxLock = NoOne /\ inboxLock' = b
  BY DEF Acquire
<1>2. NoOne \notin Bundle \cup Tool
  BY InboxAssumption
<1>3. QED
  BY <1>1, <1>2 DEF InboxInv, InboxLockInv

\* The partial of b is the recording of b.
LEMMA PathIsOwn ==
    ASSUME Unique, InboxInv, NEW b \in Bundle
    PROVE  /\ dirs \in Directories /\ SessionOf[b] \in Session /\ "active" \in Location
           /\ PathExists(b) => Path(b) \in DirectoryType /\ Path(b).owner = b
<1>1. dirs \in Directories /\ SessionOf[b] \in Session /\ "active" \in Location
  BY InboxAssumption DEF InboxInv, InboxType, Directories, Location
<1>2. ASSUME PathExists(b)  PROVE Path(b) \in DirectoryType /\ Path(b).owner = b
  <2>1. Path(b) \in DirectoryType
    BY <1>1, <1>2, ExistsTyped DEF PathExists, Path
  <2>2. SessionOf[Path(b).owner] = SessionOf[b]
    BY <1>1, <1>2 DEF InboxInv, PlacedInv, PathExists, Path
  <2>3. Path(b).owner \in Bundle
    BY <2>1, DirectoryIsThere
  <2>4. QED
    BY <2>1, <2>2, <2>3 DEF Unique
<1>3. QED
  BY <1>1, <1>2

\* Nothing written.
LEMMA NothingWritten ==
    ASSUME InboxInv, NEW b \in Bundle
    PROVE  Written(b, dirs)
<1>1. dirs \in Directories
  BY DEF InboxInv, InboxType, Directories
<1>2. ASSUME NEW s \in Session, NEW l \in Location, Exists(s, l)
      PROVE  IsPrefix(At(s, l).records, At(s, l).records)
  <2>1. At(s, l).records \in Seq(Record)
    BY <1>1, <1>2, ExistsTyped, DirectoryIsThere
  <2>2. Len(At(s, l).records) \in Nat
    BY <2>1
  <2>3. QED
    BY <2>1, <2>2, PrefixByElements
<1>3. QED
  BY <1>1, <1>2 DEF Written, Exists, At

\* A file of the partial of b written, which leaves the records.
LEMMA FileWritten ==
    ASSUME NEW b \in Bundle, NEW ds, Written(b, ds), NEW d,
           Partial(ds, b) # NoDirectory =>
              d \in DirectoryType /\ d.owner = Partial(ds, b).owner
              /\ d.records = Partial(ds, b).records
    PROVE  /\ Written(b, Rewritten(ds, b, d))
           /\ Partial(Rewritten(ds, b, d), b) =
                 IF Partial(ds, b) = NoDirectory THEN NoDirectory ELSE d
<1>1. SessionOf[b] \in Session /\ "active" \in Location /\ "active" \notin Final
  BY InboxAssumption DEF Location, Final
<1>2. ds \in Directories
  BY DEF Written
<1>3. CASE Partial(ds, b) = NoDirectory
  BY <1>3 DEF Rewritten
<1>4. CASE Partial(ds, b) # NoDirectory
  <2> DEFINE es == Rewritten(ds, b, d)
  <2>1. d \in DirectoryType /\ d # NoDirectory
    BY <1>4, DirectoryIsThere
  <2>2. /\ es \in Directories
        /\ \A s \in Session, l \in Location :
              es[s][l] = IF s = SessionOf[b] /\ l = "active" /\ ds[s][l] # NoDirectory THEN d
                         ELSE ds[s][l]
    BY <1>2, <2>1, RewrittenAt
  <2> HIDE DEF es
  <2>3. Partial(es, b) = d
    BY <1>1, <1>4, <2>2 DEF Partial
  <2>4. ASSUME NEW s \in Session, NEW l \in Location
        PROVE  /\ es[s][l] # NoDirectory <=> ds[s][l] # NoDirectory
               /\ es[s][l] # NoDirectory =>
                     es[s][l].owner = ds[s][l].owner /\ es[s][l].records = ds[s][l].records
               /\ s # SessionOf[b] \/ l \in Final => es[s][l] = ds[s][l]
    BY <1>1, <1>4, <2>1, <2>2 DEF Partial
  <2>5. Written(b, es)
    BY <2>2, <2>4 DEF Written
  <2>6. QED
    BY <1>4, <2>3, <2>5 DEF es
<1>5. QED
  BY <1>3, <1>4

\* A record appended by b.
LEMMA RecordWritten ==
    ASSUME Unique, InboxInv, NEW b \in Bundle, bundle[b].pc # "accepted", NEW e \in Record
    PROVE  /\ Written(b, Streamed(dirs, b, e))
           /\ Partial(Streamed(dirs, b, e), b) =
                 IF ~PathExists(b) THEN NoDirectory
                 ELSE [Path(b) EXCEPT !.records = Append(Path(b).records, e)]
<1> DEFINE ds == Streamed(dirs, b, e)
<1>1. /\ dirs \in Directories /\ SessionOf[b] \in Session /\ "active" \in Location
      /\ PathExists(b) => Path(b) \in DirectoryType /\ Path(b).owner = b
  BY PathIsOwn
<1>2. /\ ds \in Directories
      /\ \A s \in Session, l \in Location :
            ds[s][l] = IF s = SessionOf[b] /\ dirs[s][l] # NoDirectory /\ dirs[s][l].owner = b
                       THEN [dirs[s][l] EXCEPT !.records = Append(dirs[s][l].records, e)]
                       ELSE dirs[s][l]
  BY <1>1, StreamedAt
<1> HIDE DEF ds
<1>3. Partial(ds, b) = IF ~PathExists(b) THEN NoDirectory
                       ELSE [Path(b) EXCEPT !.records = Append(Path(b).records, e)]
  BY <1>1, <1>2 DEF Partial, Path, PathExists, Exists, At
<1>4. ASSUME NEW s \in Session, NEW l \in Location, Exists(s, l)
      PROVE  /\ ds[s][l] # NoDirectory /\ ds[s][l].owner = At(s, l).owner
             /\ IsPrefix(At(s, l).records, ds[s][l].records)
             /\ s # SessionOf[b] \/ l \in Final => ds[s][l] = At(s, l)
  <2>1. At(s, l) \in DirectoryType /\ At(s, l).records \in Seq(Record)
    BY <1>1, <1>4, ExistsTyped, DirectoryIsThere
  <2>2. /\ IsPrefix(At(s, l).records, Append(At(s, l).records, e))
        /\ IsPrefix(At(s, l).records, At(s, l).records)
    BY <2>1, AppendedRecord
  <2>3. CASE s = SessionOf[b] /\ At(s, l).owner = b
    <3>1. ds[s][l] = [At(s, l) EXCEPT !.records = Append(At(s, l).records, e)]
      BY <1>2, <1>4, <2>3 DEF Exists, At
    <3>2. ds[s][l].owner = At(s, l).owner /\ ds[s][l].records = Append(At(s, l).records, e)
      BY <2>1, <3>1 DEF DirectoryType
    <3>3. ds[s][l] \in {NoDirectory} \cup DirectoryType
      BY <1>2 DEF Directories
    <3>4. ds[s][l].status = At(s, l).status
      BY <2>1, <3>1 DEF DirectoryType
    <3>5. ds[s][l].status # "absent"
      BY <2>1, <3>4, DirectoryIsThere DEF Status
    <3>6. ds[s][l] # NoDirectory
      BY <3>5 DEF NoDirectory
    <3>7. l \notin Final
      BY <1>4, <2>3 DEF InboxInv, PlacedInv
    <3>8. QED
      BY <2>2, <2>3, <3>2, <3>6, <3>7
  <2>4. CASE ~(s = SessionOf[b] /\ At(s, l).owner = b)
    <3>1. ds[s][l] = At(s, l)
      BY <1>2, <2>4 DEF At
    <3>2. At(s, l) # NoDirectory
      BY <1>4 DEF Exists, At
    <3>3. IsPrefix(At(s, l).records, ds[s][l].records)
      BY <2>2, <3>1
    <3>4. QED
      BY <3>1, <3>2, <3>3
  <2>5. QED
    BY <2>3, <2>4
<1>5. \A s \in Session, l \in Location :
         ~Exists(s, l) => ds[s][l] = NoDirectory /\ ds[s][l] = At(s, l)
  BY <1>2 DEF Exists, At
<1>6. Written(b, ds)
  BY <1>2, <1>4, <1>5 DEF Written
<1>7. QED
  BY <1>3, <1>6 DEF ds
-----------------------------------------------------------------------------
(* One lemma per action: a state of the inbox goes to one, and nothing is  *)
(* lost.                                                                   *)

\* begin takes the lock.
LEMMA EnterBeginKeeps ==
    ASSUME Unique, InboxInv, NEW b \in Bundle, EnterBegin(b)
    PROVE  InboxInv' /\ Kept
<1>1. /\ bundle[b].pc = "new" /\ Acquire(b) /\ Goto(b, "beginning")
      /\ dirs' = dirs /\ derived' = derived /\ tool' = tool /\ diskErrors' = diskErrors
  BY DEF EnterBegin, InState
<1>2. /\ bundle' \in BundleStates /\ bundle'[b].pc = "beginning"
      /\ bundle'[b].count = bundle[b].count /\ bundle'[b].faults = bundle[b].faults
      /\ \A c \in Bundle : c # b => bundle'[c] = bundle[c]
  BY <1>1, GotoSets DEF BundlePc
<1>3. InboxLockInv' /\ inboxLock' \in Bundle \cup Tool \cup {NoOne}
  BY <1>1, <1>2, WriterLocks
<1>4. Writes(b)
  BY <1>1, NothingWritten DEF Writes
<1>5. ByWriter(b)
  BY <1>1, <1>2, <1>3 DEF ByWriter, InboxInv, InboxType
<1>6. WritingOf(b)'
  <2>1. bundle[b].count = 0 /\ ~bundle[b].faults
    BY <1>1 DEF InboxInv, WritingInv, WritingOf
  <2>2. QED
    BY <1>2, <2>1 DEF WritingOf
<1>7. QED
  BY <1>3, <1>4, <1>5, <1>6, WriterKeeps

\* begin makes the directory, or refuses.
LEMMA BeginKeeps ==
    ASSUME Unique, InboxInv, NEW b \in Bundle, Begin(b)
    PROVE  InboxInv' /\ Kept
<1>1. /\ bundle[b].pc = "beginning" /\ Release(b)
      /\ derived' = derived /\ tool' = tool /\ diskErrors' = diskErrors
  BY DEF Begin, InState
<1>2. \/ Goto(b, "refused") /\ dirs' = dirs
      \/ /\ Goto(b, "open") /\ ~Taken(SessionOf[b])
         /\ dirs' = [dirs EXCEPT ![SessionOf[b]]["active"] = NewDirectory(b)]
  BY DEF Begin
<1>3. PICK pc \in {"refused", "open"} : Goto(b, pc) /\ (pc = "refused" => dirs' = dirs)
         /\ (pc = "open" => /\ ~Taken(SessionOf[b])
                            /\ dirs' = [dirs EXCEPT ![SessionOf[b]]["active"] = NewDirectory(b)])
  BY <1>2
<1>4. /\ bundle' \in BundleStates /\ bundle'[b].pc = pc
      /\ bundle'[b].count = bundle[b].count /\ bundle'[b].faults = bundle[b].faults
      /\ \A c \in Bundle : c # b => bundle'[c] = bundle[c]
  BY <1>3, GotoSets DEF BundlePc, Closed
<1>5. InboxLockInv' /\ inboxLock' \in Bundle \cup Tool \cup {NoOne}
  BY <1>1, <1>4, WriterUnlocks
<1>6. ByWriter(b)
  BY <1>1, <1>4, <1>5 DEF ByWriter, InboxInv, InboxType
<1>7. bundle[b].count = 0 /\ ~bundle[b].faults
  BY <1>1 DEF InboxInv, WritingInv, WritingOf
<1>8. CASE pc = "refused"
  <2>1. Writes(b)
    BY <1>3, <1>8, NothingWritten DEF Writes
  <2>2. WritingOf(b)'
    BY <1>4, <1>8 DEF WritingOf
  <2>3. QED
    BY <1>5, <1>6, <2>1, <2>2, WriterKeeps
<1>9. CASE pc = "open"
  <2>1. /\ dirs \in Directories /\ SessionOf[b] \in Session /\ "active" \in Location
        /\ "active" \notin Final
    BY PathIsOwn DEF Final
  <2>2. NewDirectory(b) \in DirectoryType
    <3>1. <<>> \in Seq(Record) /\ <<>> \in Seq(PayloadType)
      OBVIOUS
    <3>2. QED
      BY <3>1 DEF NewDirectory, DirectoryType, Status, NoManifest
  <2>3. NewDirectory(b) # NoDirectory /\ NewDirectory(b).owner = b
    BY <2>2, DirectoryIsThere DEF NewDirectory
  <2>4. ~Exists(SessionOf[b], "active")
    BY <1>3, <1>9 DEF Taken
  <2>5. dirs' = [dirs EXCEPT ![SessionOf[b]]["active"] = NewDirectory(b)]
    BY <1>3, <1>9
  <2>6. /\ dirs' \in Directories
        /\ dirs'[SessionOf[b]]["active"] = NewDirectory(b)
        /\ \A s \in Session, l \in Location :
              ~(s = SessionOf[b] /\ l = "active") => dirs'[s][l] = At(s, l)
    BY <2>1, <2>2, <2>5 DEF Directories, At
  <2>7. Writes(b)
    <3>1. Written(b, dirs)
      BY NothingWritten
    <3>2. \A s \in Session, l \in Location :
             Exists(s, l) => /\ ~(s = SessionOf[b] /\ l = "active")
                             /\ IsPrefix(At(s, l).records, At(s, l).records)
                             /\ At(s, l) # NoDirectory
      BY <2>4, <3>1 DEF Written, Exists, At
    <3>3. QED
      BY <2>1, <2>3, <2>6, <3>2 DEF Writes, Written, Exists, At
  <2>8. WritingOf(b)'
    <3>1. Path(b)' = NewDirectory(b)
      BY <2>6 DEF Path, At
    <3>2. /\ Path(b)'.count = 0 /\ Path(b)'.records = <<>> /\ Len(<<>>) = 0
      BY <3>1 DEF NewDirectory
    <3>3. bundle'[b].count = 0 /\ ~bundle'[b].faults /\ bundle'[b].pc = "open"
      BY <1>4, <1>7, <1>9
    <3>4. QED
      BY <3>2, <3>3 DEF WritingOf
  <2>9. QED
    BY <1>5, <1>6, <2>7, <2>8, WriterKeeps
<1>10. QED
  BY <1>8, <1>9

\* append, when the disk takes the record.
LEMMA AppendRecordKeeps ==
    ASSUME Unique, InboxInv, NEW b \in Bundle, NEW kind \in {"event", "end", "fault"},
           AppendRecord(b, kind)
    PROVE  InboxInv' /\ Kept
<1> DEFINE count == bundle[b].count + 1
           faults == bundle[b].faults \/ kind = "fault"
           e == [seq |-> bundle[b].count, kind |-> kind]
           ds == Streamed(dirs, b, e)
           d == [Partial(ds, b) EXCEPT !.status = "active", !.count = count, !.faults = faults]
<1>1. /\ bundle[b].pc = "open"
      /\ bundle' = [bundle EXCEPT ![b] = [@ EXCEPT !.count = count,
                        !.faults = faults \/ ~PathExists(b)]]
      /\ dirs' = Rewritten(ds, b, d)
      /\ derived' = derived /\ tool' = tool /\ inboxLock' = inboxLock
      /\ diskErrors' = diskErrors
  BY DEF AppendRecord, InState
<1>2. /\ bundle \in BundleStates /\ bundle[b].count \in Nat /\ bundle[b].faults \in BOOLEAN
      /\ count \in Nat /\ faults \in BOOLEAN /\ e \in Record
  <2>1. bundle \in BundleStates /\ bundle[b].count \in Nat /\ bundle[b].faults \in BOOLEAN
    BY ObjectTyped
  <2>2. count \in Nat
    BY <2>1
  <2>3. faults \in BOOLEAN
    BY <2>1
  <2>4. e \in Record
    BY <2>1 DEF Record, Kind
  <2>5. QED
    BY <2>1, <2>2, <2>3, <2>4
<1>3. /\ bundle' \in BundleStates /\ bundle'[b].pc = "open" /\ bundle'[b].count = count
      /\ bundle'[b].faults = (faults \/ ~PathExists(b))
      /\ \A c \in Bundle : c # b => bundle'[c] = bundle[c]
  <2> HIDE DEF count, faults
  <2>1. QED
    BY <1>1, <1>2 DEF BundleStates
<1>4. InboxLockInv' /\ inboxLock' \in Bundle \cup Tool \cup {NoOne}
  BY <1>1, <1>3, WriterUnlocks
<1>5. ByWriter(b)
  BY <1>1, <1>3, <1>4 DEF ByWriter, InboxInv, InboxType
<1>6. /\ Written(b, ds)
      /\ Partial(ds, b) = IF ~PathExists(b) THEN NoDirectory
                          ELSE [Path(b) EXCEPT !.records = Append(Path(b).records, e)]
  BY <1>1, <1>2, RecordWritten
<1>7. PathExists(b) => Path(b) \in DirectoryType
  BY PathIsOwn
<1> HIDE DEF count, faults, e, ds
<1>8. ASSUME Partial(ds, b) # NoDirectory
      PROVE  /\ d \in DirectoryType /\ d.owner = Partial(ds, b).owner
             /\ d.records = Partial(ds, b).records /\ d.count = count /\ d.faults = faults
             /\ Len(d.records) = Len(Path(b).records) + 1 /\ Len(Path(b).records) \in Nat
             /\ PathExists(b)
  <2>1. PathExists(b) /\ Partial(ds, b) = [Path(b) EXCEPT !.records = Append(Path(b).records, e)]
    BY <1>6, <1>8
  <2>2. Path(b) \in DirectoryType /\ Path(b).records \in Seq(Record) /\ Len(Path(b).records) \in Nat
    BY <1>7, <2>1, DirectoryIsThere
  <2>3. /\ Append(Path(b).records, e) \in Seq(Record)
        /\ Len(Append(Path(b).records, e)) = Len(Path(b).records) + 1
    BY <1>2, <2>2, AppendedRecord
  <2>4. Partial(ds, b) \in DirectoryType /\ Partial(ds, b).records = Append(Path(b).records, e)
    BY <2>1, <2>2, <2>3 DEF DirectoryType
  <2>5. /\ d \in DirectoryType /\ d.owner = Partial(ds, b).owner
        /\ d.records = Partial(ds, b).records /\ d.count = count /\ d.faults = faults
    BY <1>2, <2>4 DEF DirectoryType, Status
  <2>6. QED
    BY <2>1, <2>2, <2>3, <2>4, <2>5
<1> HIDE DEF d
<1>9. /\ Written(b, Rewritten(ds, b, d))
      /\ Partial(Rewritten(ds, b, d), b) = IF Partial(ds, b) = NoDirectory THEN NoDirectory ELSE d
  BY <1>6, <1>8, FileWritten
<1>10. Writes(b)
  BY <1>1, <1>9 DEF Writes
<1>11. WritingOf(b)'
  <2>1. Path(b)' = Partial(Rewritten(ds, b, d), b)
    BY <1>1 DEF Path, At, Partial
  <2>2. ASSUME PathExists(b)'
        PROVE  /\ Path(b)'.count = bundle'[b].count
               /\ bundle'[b].count <= Len(Path(b)'.records)
               /\ bundle'[b].faults => Path(b)'.faults
    <3>1. Path(b)' # NoDirectory
      BY <2>2 DEF PathExists, Exists, Path, At
    <3>2. Path(b)' = d /\ Partial(ds, b) # NoDirectory
      BY <1>9, <2>1, <3>1
    <3>3. bundle[b].count <= Len(Path(b).records) /\ PathExists(b)
      BY <1>1, <1>8, <3>2 DEF InboxInv, WritingInv, WritingOf
    <3>4. bundle[b].count + 1 <= Len(Path(b).records) + 1
      BY <1>2, <1>8, <3>2, <3>3
    <3>5. QED
      BY <1>3, <1>8, <3>2, <3>3, <3>4 DEF count
  <2>3. QED
    BY <1>3, <2>2 DEF WritingOf
<1>12. QED
  BY <1>4, <1>5, <1>10, <1>11, WriterKeeps

\* The files of a failure, when the directory is there.
LEMMA FailureTyped ==
    ASSUME NEW p \in DirectoryType, NEW k \in Nat
    PROVE  /\ FailureFiles(p, k) \in DirectoryType /\ FailureFiles(p, k).owner = p.owner
           /\ FailureFiles(p, k).records = p.records /\ FailureFiles(p, k).count = k
           /\ FailureFiles(p, k).faults = TRUE
BY DEF FailureFiles, DirectoryType, Status

\* What _fail writes.
LEMMA FailureIsWritten ==
    ASSUME InboxInv, NEW b \in Bundle, NEW ds, Written(b, ds)
    PROVE  /\ Written(b, FailureWritten(ds, b))
           /\ Partial(FailureWritten(ds, b), b) # NoDirectory =>
                 /\ Partial(ds, b) # NoDirectory
                 /\ Partial(FailureWritten(ds, b), b).records = Partial(ds, b).records
                 /\ Partial(FailureWritten(ds, b), b).count = bundle[b].count
                 /\ Partial(FailureWritten(ds, b), b).faults = TRUE
<1> DEFINE d == FailureFiles(Partial(ds, b), bundle[b].count)
<1>1. /\ bundle[b].count \in Nat /\ ds \in Directories
      /\ SessionOf[b] \in Session /\ "active" \in Location
  BY ObjectTyped, InboxAssumption DEF Written, Location
<1>2. ASSUME Partial(ds, b) # NoDirectory
      PROVE  /\ d \in DirectoryType /\ d.owner = Partial(ds, b).owner
             /\ d.records = Partial(ds, b).records /\ d.count = bundle[b].count
             /\ d.faults = TRUE
  <2>1. Partial(ds, b) \in DirectoryType
    BY <1>1, <1>2 DEF Partial, Directories
  <2>2. QED
    BY <1>1, <2>1, FailureTyped
<1>3. FailureWritten(ds, b) = Rewritten(ds, b, d)
  BY DEF FailureWritten
<1> HIDE DEF d
<1>4. /\ Written(b, Rewritten(ds, b, d))
      /\ Partial(Rewritten(ds, b, d), b) = IF Partial(ds, b) = NoDirectory THEN NoDirectory ELSE d
  BY <1>2, FileWritten
<1>5. QED
  BY <1>2, <1>3, <1>4

\* A step that fails and closes the object, or records a failure.
LEMMA RejectionKeeps ==
    ASSUME Unique, InboxInv, NEW b \in Bundle, bundle[b].pc # "accepted", Failed(b, "rejected"),
           dirs' = FailureWritten(dirs, b), inboxLock' = inboxLock \/ Release(b),
           UNCHANGED <<derived, tool>>, diskErrors' \in Nat
    PROVE  InboxInv' /\ Kept
<1>1. /\ bundle' \in BundleStates /\ bundle'[b].pc = "rejected"
      /\ \A c \in Bundle : c # b => bundle'[c] = bundle[c]
  BY FailedSets DEF BundlePc, Closed
<1>2. InboxLockInv' /\ inboxLock' \in Bundle \cup Tool \cup {NoOne}
  BY <1>1, WriterUnlocks
<1>3. ByWriter(b)
  BY <1>1, <1>2 DEF ByWriter
<1>4. Writes(b)
  BY NothingWritten, FailureIsWritten DEF Writes
<1>5. WritingOf(b)'
  BY <1>1 DEF WritingOf
<1>6. QED
  BY <1>2, <1>3, <1>4, <1>5, WriterKeeps

\* append, when the disk does not.
LEMMA AppendRejectedKeeps ==
    ASSUME Unique, InboxInv, NEW b \in Bundle, AppendRejected(b)
    PROVE  InboxInv' /\ Kept
<1>1. /\ bundle[b].pc = "open" /\ DiskFails /\ Failed(b, "open")
      /\ derived' = derived /\ tool' = tool /\ inboxLock' = inboxLock
  BY DEF AppendRejected, InState
<1>2. PICK kind \in {"event", "end", "torn"}, saved \in BOOLEAN :
         dirs' = IF saved
                 THEN FailureWritten(Streamed(dirs, b, [seq |-> bundle[b].count, kind |-> kind]), b)
                 ELSE Streamed(dirs, b, [seq |-> bundle[b].count, kind |-> kind])
  BY DEF AppendRejected
<1> DEFINE e == [seq |-> bundle[b].count, kind |-> kind]
           ds == Streamed(dirs, b, e)
<1>3. dirs' = IF saved THEN FailureWritten(ds, b) ELSE ds
  BY <1>2
<1>4. bundle[b].count \in Nat /\ e \in Record
  BY ObjectTyped DEF Record, Kind
<1>5. /\ Written(b, ds)
      /\ Partial(ds, b) = IF ~PathExists(b) THEN NoDirectory
                          ELSE [Path(b) EXCEPT !.records = Append(Path(b).records, e)]
  BY <1>1, <1>4, RecordWritten
<1> HIDE DEF ds
<1>6. /\ bundle' \in BundleStates /\ bundle'[b].pc = "open"
      /\ bundle'[b].count = bundle[b].count /\ bundle'[b].faults = TRUE
      /\ \A c \in Bundle : c # b => bundle'[c] = bundle[c]
  BY <1>1, FailedSets DEF BundlePc
<1>7. InboxLockInv' /\ inboxLock' \in Bundle \cup Tool \cup {NoOne}
  BY <1>1, <1>6, WriterUnlocks
<1>8. diskErrors' \in Nat
  BY <1>1 DEF DiskFails, InboxInv, InboxType
<1>9. ByWriter(b)
  BY <1>1, <1>6, <1>7, <1>8 DEF ByWriter
<1>10. /\ Written(b, FailureWritten(ds, b))
       /\ Partial(FailureWritten(ds, b), b) # NoDirectory =>
             /\ Partial(ds, b) # NoDirectory
             /\ Partial(FailureWritten(ds, b), b).records = Partial(ds, b).records
             /\ Partial(FailureWritten(ds, b), b).count = bundle[b].count
             /\ Partial(FailureWritten(ds, b), b).faults = TRUE
  BY <1>5, FailureIsWritten
<1>11. Writes(b)
  BY <1>3, <1>5, <1>10 DEF Writes
<1>12. WritingOf(b)'
  <2>1. Path(b)' = Partial(dirs', b)
    BY DEF Path, At, Partial
  <2>2. ASSUME Partial(dirs', b) # NoDirectory
        PROVE  /\ Partial(dirs', b).count = bundle'[b].count
               /\ bundle'[b].count < Len(Partial(dirs', b).records)
               /\ bundle'[b].count <= Len(Partial(dirs', b).records)
    <3>1. Partial(ds, b) # NoDirectory /\ Partial(dirs', b).records = Partial(ds, b).records
      BY <1>3, <1>10, <2>2
    <3>2. PathExists(b) /\ Partial(ds, b) = [Path(b) EXCEPT !.records = Append(Path(b).records, e)]
      BY <1>5, <3>1
    <3>3. Path(b) \in DirectoryType /\ Path(b).records \in Seq(Record)
      BY <3>2, PathIsOwn, DirectoryIsThere
    <3>4. /\ Append(Path(b).records, e) \in Seq(Record)
          /\ Len(Append(Path(b).records, e)) = Len(Path(b).records) + 1
      BY <1>4, <3>3, AppendedRecord
    <3> HIDE DEF e
    <3>5. /\ Partial(ds, b).records = Append(Path(b).records, e)
          /\ Partial(ds, b).count = Path(b).count
      BY <3>2, <3>3 DEF DirectoryType
    <3>6. Path(b).count = bundle[b].count /\ bundle[b].count <= Len(Path(b).records)
      BY <1>1, <3>2 DEF InboxInv, WritingInv, WritingOf
    <3>7. Partial(dirs', b).count = bundle[b].count
      BY <1>3, <1>10, <2>2, <3>5, <3>6
    <3>8. Len(Path(b).records) \in Nat
      BY <3>3
    <3>9. /\ bundle[b].count < Len(Path(b).records) + 1
          /\ bundle[b].count <= Len(Path(b).records) + 1
      BY <1>4, <3>6, <3>8
    <3>10. QED
      BY <1>6, <3>1, <3>4, <3>5, <3>7, <3>9
  <2>3. PathExists(b)' => Partial(dirs', b) # NoDirectory
    BY DEF PathExists, Exists, At, Partial
  <2>4. QED
    BY <1>6, <2>1, <2>2, <2>3 DEF WritingOf
<1>13. QED
  BY <1>7, <1>9, <1>11, <1>12, WriterKeeps

\* append of a record out of sequence.
LEMMA AppendGapKeeps ==
    ASSUME Unique, InboxInv, NEW b \in Bundle, AppendGap(b)
    PROVE  InboxInv' /\ Kept
<1>1. /\ bundle[b].pc = "open" /\ Failed(b, "open") /\ dirs' = FailureWritten(dirs, b)
      /\ derived' = derived /\ tool' = tool /\ inboxLock' = inboxLock
      /\ diskErrors' = diskErrors
  BY DEF AppendGap, InState
<1>2. /\ bundle' \in BundleStates /\ bundle'[b].pc = "open"
      /\ bundle'[b].count = bundle[b].count /\ bundle'[b].faults = TRUE
      /\ \A c \in Bundle : c # b => bundle'[c] = bundle[c]
  BY <1>1, FailedSets DEF BundlePc
<1>3. InboxLockInv' /\ inboxLock' \in Bundle \cup Tool \cup {NoOne}
  BY <1>1, <1>2, WriterUnlocks
<1>4. ByWriter(b)
  BY <1>1, <1>2, <1>3 DEF ByWriter, InboxInv, InboxType
<1>5. /\ Written(b, dirs')
      /\ Partial(dirs', b) # NoDirectory =>
            /\ Partial(dirs, b) # NoDirectory
            /\ Partial(dirs', b).records = Partial(dirs, b).records
            /\ Partial(dirs', b).count = bundle[b].count
            /\ Partial(dirs', b).faults = TRUE
  BY <1>1, NothingWritten, FailureIsWritten
<1>6. Writes(b)
  BY <1>5 DEF Writes
<1>7. WritingOf(b)'
  <2>1. /\ Path(b)' = Partial(dirs', b) /\ (PathExists(b)' => Partial(dirs', b) # NoDirectory)
        /\ Path(b) = Partial(dirs, b) /\ (PathExists(b) <=> Partial(dirs, b) # NoDirectory)
    BY DEF Path, At, Partial, PathExists, Exists
  <2>2. PathExists(b) => bundle[b].count <= Len(Path(b).records)
    BY <1>1 DEF InboxInv, WritingInv, WritingOf
  <2>3. QED
    BY <1>2, <1>5, <2>1, <2>2 DEF WritingOf
<1>8. QED
  BY <1>3, <1>4, <1>6, <1>7, WriterKeeps

\* fail.
LEMMA FailBundleKeeps ==
    ASSUME Unique, InboxInv, NEW b \in Bundle, FailBundle(b)
    PROVE  InboxInv' /\ Kept
<1>1. /\ bundle[b].pc = "open" /\ Failed(b, "rejected") /\ dirs' = FailureWritten(dirs, b)
      /\ derived' = derived /\ tool' = tool /\ inboxLock' = inboxLock
      /\ diskErrors' = diskErrors
  BY DEF FailBundle, InState
<1>2. diskErrors' \in Nat
  BY <1>1 DEF InboxInv, InboxType
<1>3. QED
  BY <1>1, <1>2, RejectionKeeps

\* complete closes the streams.
LEMMA CloseKeeps ==
    ASSUME Unique, InboxInv, NEW b \in Bundle, Close(b)
    PROVE  InboxInv' /\ Kept
<1>1. /\ bundle[b].pc = "open" /\ Goto(b, "validating") /\ dirs' = dirs
      /\ derived' = derived /\ tool' = tool /\ inboxLock' = inboxLock
      /\ diskErrors' = diskErrors
  BY DEF Close, InState
<1>2. /\ bundle' \in BundleStates /\ bundle'[b].pc = "validating"
      /\ bundle'[b].count = bundle[b].count /\ bundle'[b].faults = bundle[b].faults
      /\ \A c \in Bundle : c # b => bundle'[c] = bundle[c]
  BY <1>1, GotoSets DEF BundlePc
<1>3. InboxLockInv' /\ inboxLock' \in Bundle \cup Tool \cup {NoOne}
  BY <1>1, <1>2, WriterUnlocks
<1>4. ByWriter(b)
  BY <1>1, <1>2, <1>3 DEF ByWriter, InboxInv, InboxType
<1>5. Writes(b)
  BY <1>1, NothingWritten DEF Writes
<1>6. WritingOf(b)'
  <2>1. Path(b)' = Path(b) /\ (PathExists(b)' <=> PathExists(b))
    BY <1>1 DEF Path, PathExists, Exists, At
  <2>2. WritingOf(b)
    BY DEF InboxInv, WritingInv
  <2>3. QED
    BY <1>1, <1>2, <2>1, <2>2 DEF WritingOf
<1>7. QED
  BY <1>3, <1>4, <1>5, <1>6, WriterKeeps

\* complete validates what is on disk: it holds what the object remembers.
LEMMA ValidateKeeps ==
    ASSUME Unique, InboxInv, NEW b \in Bundle, Validate(b)
    PROVE  InboxInv' /\ Kept
<1>1. /\ bundle[b].pc = "validating"
      /\ derived' = derived /\ tool' = tool /\ inboxLock' = inboxLock
      /\ diskErrors' = diskErrors
  BY DEF Validate, InState
<1>2. CASE ~ContentValid(Path(b))
  <2>1. Failed(b, "rejected") /\ dirs' = FailureWritten(dirs, b)
    BY <1>2 DEF Validate
  <2>2. diskErrors' \in Nat
    BY <1>1 DEF InboxInv, InboxType
  <2>3. QED
    BY <1>1, <2>1, <2>2, RejectionKeeps
<1>3. CASE ContentValid(Path(b))
  <2>1. Goto(b, "sealing") /\ dirs' = dirs
    BY <1>3 DEF Validate
  <2>2. /\ bundle' \in BundleStates /\ bundle'[b].pc = "sealing"
        /\ bundle'[b].count = bundle[b].count /\ bundle'[b].faults = bundle[b].faults
        /\ \A c \in Bundle : c # b => bundle'[c] = bundle[c]
    BY <2>1, GotoSets DEF BundlePc
  <2>3. InboxLockInv' /\ inboxLock' \in Bundle \cup Tool \cup {NoOne}
    BY <1>1, <2>2, WriterUnlocks
  <2>4. ByWriter(b)
    BY <1>1, <2>2, <2>3 DEF ByWriter, InboxInv, InboxType
  <2>5. Writes(b)
    BY <2>1, NothingWritten DEF Writes
  <2>6. WritingOf(b)'
    <3>1. Path(b)' = Path(b) /\ (PathExists(b)' <=> PathExists(b))
      BY <2>1 DEF Path, PathExists, Exists, At
    <3>2. ASSUME PathExists(b)  PROVE Path(b).count = bundle[b].count /\ ~bundle[b].faults
      <4>1. /\ Path(b).count = bundle[b].count
            /\ bundle[b].faults => Path(b).faults \/ bundle[b].count < Len(Path(b).records)
        BY <1>1, <3>2 DEF InboxInv, WritingInv, WritingOf
      <4>2. ~Path(b).faults /\ Path(b).count = Len(Path(b).records)
        BY <1>3 DEF ContentValid
      <4>3. bundle[b].count \in Nat
        BY ObjectTyped
      <4>4. ~(bundle[b].count < Len(Path(b).records))
        BY <4>1, <4>2, <4>3
      <4>5. QED
        BY <4>1, <4>2, <4>4
    <3>3. QED
      BY <1>3, <2>2, <3>1, <3>2 DEF WritingOf
  <2>7. QED
    BY <2>3, <2>4, <2>5, <2>6, WriterKeeps
<1>4. QED
  BY <1>2, <1>3

\* complete writes status.json and validation.json: they say what was validated.
LEMMA WriteSidecarsKeeps ==
    ASSUME Unique, InboxInv, NEW b \in Bundle, WriteSidecars(b)
    PROVE  InboxInv' /\ Kept
<1> DEFINE d == [Path(b) EXCEPT !.status = "complete", !.validation = TRUE,
                                !.count = bundle[b].count, !.faults = bundle[b].faults]
<1>1. /\ bundle[b].pc = "sealing" /\ PathExists(b) /\ Goto(b, "listing")
      /\ dirs' = Rewritten(dirs, b, d)
      /\ derived' = derived /\ tool' = tool /\ inboxLock' = inboxLock
      /\ diskErrors' = diskErrors
  BY DEF WriteSidecars, InState
<1>2. /\ bundle' \in BundleStates /\ bundle'[b].pc = "listing"
      /\ bundle'[b].count = bundle[b].count /\ bundle'[b].faults = bundle[b].faults
      /\ \A c \in Bundle : c # b => bundle'[c] = bundle[c]
  BY <1>1, GotoSets DEF BundlePc
<1>3. InboxLockInv' /\ inboxLock' \in Bundle \cup Tool \cup {NoOne}
  BY <1>1, <1>2, WriterUnlocks
<1>4. ByWriter(b)
  BY <1>1, <1>2, <1>3 DEF ByWriter, InboxInv, InboxType
<1>5. /\ Path(b) \in DirectoryType /\ Path(b) = Partial(dirs, b)
      /\ bundle[b].count \in Nat /\ bundle[b].faults \in BOOLEAN
  BY <1>1, PathIsOwn, ObjectTyped DEF Path, At, Partial
<1>6. /\ d \in DirectoryType /\ d.owner = Path(b).owner /\ d.records = Path(b).records
      /\ d.status = "complete" /\ d.validation = TRUE
      /\ d.count = bundle[b].count /\ d.faults = bundle[b].faults
  BY <1>5 DEF DirectoryType, Status
<1> HIDE DEF d
<1>7. Written(b, Rewritten(dirs, b, d)) /\ Partial(Rewritten(dirs, b, d), b) \in {NoDirectory, d}
  BY <1>5, <1>6, NothingWritten, FileWritten
<1>8. Writes(b)
  BY <1>1, <1>7 DEF Writes
<1>9. WritingOf(b)'
  <2>1. ContentValid(Path(b)) /\ Path(b).count = bundle[b].count /\ ~bundle[b].faults
    BY <1>1 DEF InboxInv, WritingInv, WritingOf
  <2>2. d # NoDirectory
    BY <1>6, DirectoryIsThere
  <2>3. ContentValid(d)
    BY <1>6, <2>1, <2>2 DEF ContentValid
  <2>4. PathExists(b)' => Path(b)' = d
    BY <1>1, <1>7 DEF Path, PathExists, Exists, At, Partial
  <2>5. QED
    BY <1>2, <1>6, <2>3, <2>4 DEF WritingOf
<1>10. QED
  BY <1>3, <1>4, <1>8, <1>9, WriterKeeps

\* complete writes the manifest: it binds what is there.
LEMMA WriteManifestKeeps ==
    ASSUME Unique, InboxInv, NEW b \in Bundle, WriteManifest(b)
    PROVE  InboxInv' /\ Kept
<1> DEFINE d == [Path(b) EXCEPT !.manifest = <<Payload(Path(b))>>]
<1>1. /\ bundle[b].pc = "listing" /\ PathExists(b) /\ Goto(b, "sealed")
      /\ dirs' = Rewritten(dirs, b, d)
      /\ derived' = derived /\ tool' = tool /\ inboxLock' = inboxLock
      /\ diskErrors' = diskErrors
  BY DEF WriteManifest, InState
<1>2. /\ bundle' \in BundleStates /\ bundle'[b].pc = "sealed"
      /\ bundle'[b].count = bundle[b].count /\ bundle'[b].faults = bundle[b].faults
      /\ \A c \in Bundle : c # b => bundle'[c] = bundle[c]
  BY <1>1, GotoSets DEF BundlePc
<1>3. InboxLockInv' /\ inboxLock' \in Bundle \cup Tool \cup {NoOne}
  BY <1>1, <1>2, WriterUnlocks
<1>4. ByWriter(b)
  BY <1>1, <1>2, <1>3 DEF ByWriter, InboxInv, InboxType
<1>5. Path(b) \in DirectoryType /\ Path(b) = Partial(dirs, b)
  BY <1>1, PathIsOwn DEF Path, At, Partial
<1>6. Payload(Path(b)) \in PayloadType
  BY <1>5, DirectoryIsThere DEF Payload, PayloadType
<1>7. <<Payload(Path(b))>> \in Seq(PayloadType) /\ <<Payload(Path(b))>> # NoManifest
      /\ <<Payload(Path(b))>>[1] = Payload(Path(b))
  <2> DEFINE p == Payload(Path(b))
  <2>1. p \in PayloadType
    BY <1>6
  <2> HIDE DEF p
  <2>2. <<p>> \in Seq(PayloadType) /\ <<p>> # NoManifest /\ <<p>>[1] = p
    BY <2>1 DEF NoManifest
  <2>3. QED
    BY <2>2 DEF p
<1>8. /\ d \in DirectoryType /\ d.owner = Path(b).owner /\ d.records = Path(b).records
      /\ d.manifest = <<Payload(Path(b))>> /\ d.status = Path(b).status
      /\ d.count = Path(b).count /\ d.faults = Path(b).faults
      /\ d.failure = Path(b).failure /\ d.validation = Path(b).validation
  <2> DEFINE m == <<Payload(Path(b))>>
  <2>1. m \in Seq(PayloadType)
    BY <1>7
  <2> HIDE DEF m
  <2>2. d = [Path(b) EXCEPT !.manifest = m]
    BY DEF m
  <2> HIDE DEF d
  <2>3. /\ d \in DirectoryType /\ d.owner = Path(b).owner /\ d.records = Path(b).records
        /\ d.manifest = m /\ d.status = Path(b).status
        /\ d.count = Path(b).count /\ d.faults = Path(b).faults
        /\ d.failure = Path(b).failure /\ d.validation = Path(b).validation
    BY <1>5, <2>1, <2>2 DEF DirectoryType
  <2>4. QED
    BY <2>3 DEF m
<1> HIDE DEF d
<1>9. Written(b, Rewritten(dirs, b, d)) /\ Partial(Rewritten(dirs, b, d), b) \in {NoDirectory, d}
  BY <1>5, <1>8, NothingWritten, FileWritten
<1>10. Writes(b)
  BY <1>1, <1>9 DEF Writes
<1>11. WritingOf(b)'
  <2>1. ContentValid(Path(b)) /\ Path(b).validation
    BY <1>1 DEF InboxInv, WritingInv, WritingOf
  <2>2. d # NoDirectory
    BY <1>8, DirectoryIsThere
  <2>3. ContentValid(d)
    BY <1>8, <2>1, <2>2 DEF ContentValid
  <2>4. Payload(d) = Payload(Path(b))
    BY <1>8 DEF Payload
  <2>5. Valid(d)
    BY <1>7, <1>8, <2>1, <2>3, <2>4 DEF Valid, Sealed
  <2>6. PathExists(b)' => Path(b)' = d
    BY <1>1, <1>9 DEF Path, PathExists, Exists, At, Partial
  <2>7. QED
    BY <1>2, <2>5, <2>6 DEF WritingOf
<1>12. QED
  BY <1>3, <1>4, <1>10, <1>11, WriterKeeps

\* A sidecar or the manifest cannot be written.
LEMMA SealingRaisesKeeps ==
    ASSUME Unique, InboxInv, NEW b \in Bundle, SealingRaises(b)
    PROVE  InboxInv' /\ Kept
<1>1. /\ bundle[b].pc \in {"sealing", "listing"} /\ Goto(b, "raised") /\ dirs' = dirs
      /\ derived' = derived /\ tool' = tool /\ inboxLock' = inboxLock
  BY DEF SealingRaises
<1>2. diskErrors' \in Nat
  BY DEF SealingRaises, DiskFails, InboxInv, InboxType
<1>3. /\ bundle' \in BundleStates /\ bundle'[b].pc = "raised"
      /\ \A c \in Bundle : c # b => bundle'[c] = bundle[c]
  BY <1>1, GotoSets DEF BundlePc, Closed
<1>4. InboxLockInv' /\ inboxLock' \in Bundle \cup Tool \cup {NoOne}
  BY <1>1, <1>3, WriterUnlocks
<1>5. ByWriter(b)
  BY <1>1, <1>2, <1>3, <1>4 DEF ByWriter
<1>6. Writes(b)
  BY <1>1, NothingWritten DEF Writes
<1>7. WritingOf(b)'
  BY <1>3 DEF WritingOf
<1>8. QED
  BY <1>4, <1>5, <1>6, <1>7, WriterKeeps

\* complete takes the lock.
LEMMA EnterAcceptKeeps ==
    ASSUME Unique, InboxInv, NEW b \in Bundle, EnterAccept(b)
    PROVE  InboxInv' /\ Kept
<1>1. /\ bundle[b].pc = "sealed" /\ Acquire(b) /\ Goto(b, "accepting") /\ dirs' = dirs
      /\ derived' = derived /\ tool' = tool /\ diskErrors' = diskErrors
  BY DEF EnterAccept, InState
<1>2. /\ bundle' \in BundleStates /\ bundle'[b].pc = "accepting"
      /\ bundle'[b].count = bundle[b].count /\ bundle'[b].faults = bundle[b].faults
      /\ \A c \in Bundle : c # b => bundle'[c] = bundle[c]
  BY <1>1, GotoSets DEF BundlePc
<1>3. InboxLockInv' /\ inboxLock' \in Bundle \cup Tool \cup {NoOne}
  BY <1>1, <1>2, WriterLocks
<1>4. ByWriter(b)
  BY <1>1, <1>2, <1>3 DEF ByWriter, InboxInv, InboxType
<1>5. Writes(b)
  BY <1>1, NothingWritten DEF Writes
<1>6. WritingOf(b)'
  <2>1. Path(b)' = Path(b) /\ (PathExists(b)' <=> PathExists(b))
    BY <1>1 DEF Path, PathExists, Exists, At
  <2>2. WritingOf(b)
    BY DEF InboxInv, WritingInv
  <2>3. QED
    BY <1>1, <1>2, <2>1, <2>2 DEF WritingOf
<1>7. QED
  BY <1>3, <1>4, <1>5, <1>6, WriterKeeps

\* complete cannot move the directory.
LEMMA AcceptFailsKeeps ==
    ASSUME Unique, InboxInv, NEW b \in Bundle, AcceptFails(b)
    PROVE  InboxInv' /\ Kept
<1>1. /\ bundle[b].pc = "accepting" /\ Failed(b, "rejected") /\ dirs' = FailureWritten(dirs, b)
      /\ derived' = derived /\ tool' = tool /\ Release(b)
  BY DEF AcceptFails, InState
<1>2. diskErrors' \in Nat
  BY DEF AcceptFails, DiskFails, InboxInv, InboxType
<1>3. QED
  BY <1>1, <1>2, RejectionKeeps

\* The writer's process dies.
LEMMA WriterDiesKeeps ==
    ASSUME Unique, InboxInv, NEW b \in Bundle, WriterDies(b)
    PROVE  InboxInv' /\ Kept
<1>1. /\ bundle[b].pc \notin Closed \cup {"new"} /\ Goto(b, "dead") /\ Release(b) /\ dirs' = dirs
      /\ derived' = derived /\ tool' = tool /\ diskErrors' = diskErrors
  BY DEF WriterDies
<1>2. /\ bundle' \in BundleStates /\ bundle'[b].pc = "dead"
      /\ \A c \in Bundle : c # b => bundle'[c] = bundle[c]
  BY <1>1, GotoSets DEF BundlePc, Closed
<1>3. InboxLockInv' /\ inboxLock' \in Bundle \cup Tool \cup {NoOne}
  BY <1>1, <1>2, WriterUnlocks
<1>4. ByWriter(b)
  BY <1>1, <1>2, <1>3 DEF ByWriter, InboxInv, InboxType, Closed
<1>5. Writes(b)
  BY <1>1, NothingWritten DEF Writes
<1>6. WritingOf(b)'
  BY <1>2 DEF WritingOf
<1>7. QED
  BY <1>3, <1>4, <1>5, <1>6, WriterKeeps

\* complete moves the directory: what is accepted is valid.
LEMMA AcceptKeeps ==
    ASSUME Unique, InboxInv, NEW b \in Bundle, Accept(b)
    PROVE  InboxInv' /\ Kept
<1>1. /\ bundle[b].pc = "accepting" /\ Release(b) /\ Acceptable(b) /\ Goto(b, "accepted")
      /\ Moved(SessionOf[b], "active", "accepted")
      /\ derived' = derived /\ tool' = tool /\ diskErrors' = diskErrors
  BY DEF Accept, InState
<1>2. /\ bundle' \in BundleStates /\ bundle'[b].pc = "accepted"
      /\ \A c \in Bundle : c # b => bundle'[c] = bundle[c]
  BY <1>1, GotoSets DEF BundlePc, Closed
<1>3. InboxLockInv' /\ inboxLock' \in Bundle \cup Tool \cup {NoOne}
  BY <1>1, <1>2, WriterUnlocks
<1>4. /\ SessionOf[b] \in Session /\ "active" \in Location /\ "accepted" \in Location
      /\ "accepted" \in Final
  BY InboxAssumption DEF Location, Final
<1>5. /\ Exists(SessionOf[b], "active") /\ ~Exists(SessionOf[b], "accepted")
      /\ At(SessionOf[b], "active").owner = b /\ Valid(At(SessionOf[b], "active"))
  <2>1. PathExists(b) /\ ~Exists(SessionOf[b], "accepted")
    BY <1>1 DEF Acceptable
  <2>2. Path(b).owner = b
    BY <2>1, PathIsOwn
  <2>3. Valid(Path(b))
    BY <1>1, <2>1 DEF InboxInv, WritingInv, WritingOf
  <2>4. QED
    BY <2>1, <2>2, <2>3 DEF PathExists, Path
<1>6. \A c \in Bundle : bundle[c].pc = "accepted" => bundle'[c].pc = "accepted"
  BY <1>2
<1>7. /\ dirs' \in Directories /\ Kept /\ PlacedInv' /\ FinalizedIsSound'
      /\ \A c \in Bundle : PathExists(c)' => PathExists(c) /\ Path(c)' = Path(c)
  BY <1>1, <1>2, <1>4, <1>5, <1>6, MoveKeeps
<1>8. InboxType'
  BY <1>1, <1>2, <1>3, <1>7 DEF InboxInv, InboxType, Directories, BundleStates
<1>9. WritingInv'
  <2>1. ASSUME NEW c \in Bundle  PROVE WritingOf(c)'
    <3>1. WritingOf(c)
      BY DEF InboxInv, WritingInv
    <3>2. CASE c = b
      BY <1>2, <3>2 DEF WritingOf
    <3>3. CASE c # b
      BY <1>2, <1>7, <3>1, <3>3 DEF WritingOf
    <3>4. QED
      BY <3>2, <3>3
  <2>2. QED
    BY <2>1 DEF WritingInv
<1>10. CommandInv' /\ DerivedInv'
  BY <1>1, <1>7, CommandsStay
<1>11. QED
  BY <1>3, <1>7, <1>8, <1>9, <1>10 DEF InboxInv

-----------------------------------------------------------------------------
(* The steps of a command.                                                 *)

AtWork == {"locked", "checked", "wrote"}

\* What a command is.
LEMMA CommandTyped ==
    ASSUME InboxInv, NEW t \in Tool
    PROVE  /\ tool \in ToolStates /\ derived \in DerivedStates /\ CommandOf(t)
           /\ tool[t] = Idle => tool[t].pc = "idle"
           /\ tool[t] # Idle => /\ tool[t] \in CommandType /\ tool[t].session \in Session
                                /\ tool[t].from \in Location /\ tool[t].to \in Location
                                /\ tool[t].seen \in Seq(PayloadType)
           /\ tool[t].pc \in AtWork => inboxLock = t
<1>1. tool \in ToolStates /\ derived \in DerivedStates /\ CommandOf(t)
  BY DEF InboxInv, InboxType, CommandInv
<1>2. tool[t].pc \in AtWork => inboxLock = t
  BY DEF InboxInv, InboxLockInv, AtWork
<1>3. tool[t] # Idle => tool[t] \in CommandType
  BY <1>1 DEF ToolStates
<1>4. QED
  BY <1>1, <1>2, <1>3 DEF CommandType, Idle

\* A command is not idle.
LEMMA CommandIsBusy ==
    ASSUME NEW c, c.pc # "idle"
    PROVE  c # Idle
BY DEF Idle

\* A step of a command.
LEMMA CommandKeeps ==
    ASSUME InboxInv, NEW t \in Tool,
           tool' \in ToolStates, \A u \in Tool : u # t => tool'[u] = tool[u],
           bundle' = bundle, diskErrors' = diskErrors,
           dirs' \in Directories, Kept, PlacedInv', WritingInv', FinalizedIsSound',
           derived' \in DerivedStates, DerivedInv', CommandOf(t)',
           derived' = derived \/ inboxLock = t,
           \/ inboxLock' = inboxLock /\ (tool'[t].pc \in AtWork => inboxLock = t)
           \/ Release(t) /\ tool'[t].pc \notin AtWork
           \/ Acquire(t)
    PROVE  InboxInv'
<1>1. /\ InboxLockInv /\ CommandInv /\ bundle \in BundleStates /\ diskErrors \in Nat
      /\ inboxLock \in Bundle \cup Tool \cup {NoOne} /\ tool \in ToolStates
  BY DEF InboxInv, InboxType, BundleStates
<1>2. NoOne \notin Bundle \cup Tool /\ Bundle \cap Tool = {}
  BY InboxAssumption
<1>3. \/ inboxLock' = inboxLock /\ (tool'[t].pc \in AtWork => inboxLock = t)
      \/ inboxLock' \in {inboxLock, NoOne} /\ (inboxLock # t => inboxLock' = inboxLock)
         /\ tool'[t].pc \notin AtWork
      \/ inboxLock = NoOne /\ inboxLock' = t
  BY DEF Release, Acquire
<1>4. inboxLock' \in Bundle \cup Tool \cup {NoOne}
  BY <1>1, <1>3
<1>5. ASSUME NEW b \in Bundle, bundle'[b].pc \in {"beginning", "accepting"}
      PROVE  inboxLock' = b
  <2>1. inboxLock = b /\ b # t /\ b # NoOne
    BY <1>1, <1>2, <1>5 DEF InboxLockInv
  <2>2. QED
    BY <1>3, <2>1
<1>6. ASSUME NEW u \in Tool, tool'[u].pc \in AtWork
      PROVE  inboxLock' = u
  <2>1. CASE u = t
    BY <1>3, <1>6, <2>1
  <2>2. CASE u # t
    <3>1. inboxLock = u /\ u # NoOne
      BY <1>1, <1>2, <1>6, <2>2 DEF InboxLockInv, AtWork
    <3>2. QED
      BY <1>3, <2>2, <3>1
  <2>3. QED
    BY <2>1, <2>2
<1>7. InboxLockInv'
  BY <1>5, <1>6 DEF InboxLockInv, AtWork
<1>8. ASSUME NEW u \in Tool, u # t  PROVE CommandOf(u)'
  <2>1. CommandOf(u) /\ tool'[u] = tool[u]
    BY <1>1, <1>8 DEF CommandInv
  <2>2. tool[u] # Idle => tool[u].session \in Session
    BY CommandTyped
  <2>3. tool[u].pc \in {"checked", "wrote"} => derived' = derived
    BY <1>1, <1>8 DEF InboxLockInv
  <2>4. tool[u] # Idle /\ tool[u].op = "derive" => Bound(tool[u].session, tool[u].seen)
    BY <2>1 DEF CommandOf
  <2>5. ASSUME tool[u] # Idle, tool[u].op = "derive", NEW m, NEW s \in Session,
               m = tool[u].seen, s = tool[u].session
        PROVE  Bound(s, m)'
    BY <2>4, <2>5, BoundStays
  <2>6. QED
    BY <2>1, <2>2, <2>3, <2>5 DEF CommandOf
<1>9. CommandInv'
  BY <1>8 DEF CommandInv
<1>10. InboxType'
  BY <1>1, <1>4 DEF InboxType, Directories, BundleStates
<1>11. QED
  BY <1>7, <1>9, <1>10 DEF InboxInv

\* A command set for t.
LEMMA ToolSet ==
    ASSUME InboxInv, NEW t \in Tool, NEW c \in {Idle} \cup CommandType,
           tool' = [tool EXCEPT ![t] = c]
    PROVE  /\ tool' \in ToolStates /\ tool'[t] = c
           /\ \A u \in Tool : u # t => tool'[u] = tool[u]
BY DEF InboxInv, InboxType, ToolStates

\* A command goes on.
LEMMA ToolGoes ==
    ASSUME InboxInv, NEW t \in Tool, NEW pc \in {"waiting", "locked", "checked", "wrote"},
           tool[t] # Idle, tool' = [tool EXCEPT ![t].pc = pc]
    PROVE  /\ tool' \in ToolStates /\ tool'[t].pc = pc /\ tool'[t] # Idle
           /\ tool'[t].op = tool[t].op /\ tool'[t].session = tool[t].session
           /\ tool'[t].from = tool[t].from /\ tool'[t].to = tool[t].to
           /\ tool'[t].seen = tool[t].seen
           /\ \A u \in Tool : u # t => tool'[u] = tool[u]
<1>1. tool[t] \in CommandType /\ tool \in ToolStates
  BY CommandTyped
<1>2. PICK c : c = [tool[t] EXCEPT !.pc = pc]
  OBVIOUS
<1>3. /\ c \in CommandType /\ c.pc = pc /\ c.op = tool[t].op /\ c.session = tool[t].session
      /\ c.from = tool[t].from /\ c.to = tool[t].to /\ c.seen = tool[t].seen
  BY <1>1, <1>2 DEF CommandType
<1>4. tool' = [tool EXCEPT ![t] = c]
  BY <1>2
<1>5. /\ tool' \in ToolStates /\ tool'[t] = c
      /\ \A u \in Tool : u # t => tool'[u] = tool[u]
  BY <1>3, <1>4, ToolSet
<1>6. c # Idle
  BY <1>3, CommandIsBusy
<1>7. QED
  BY <1>3, <1>5, <1>6

\* What is derived stays bound, when only the directories change.
LEMMA DerivedStays ==
    ASSUME InboxInv, Kept, derived' = derived
    PROVE  derived' \in DerivedStates /\ DerivedInv'
<1>1. derived \in DerivedStates
  BY DEF InboxInv, InboxType
<1>2. ASSUME NEW s \in Session, derived[s].source # NoManifest
      PROVE  /\ derived'[s].artifact = derived'[s].by
             /\ \E l \in Final : dirs'[s][l] # NoDirectory
                                 /\ dirs'[s][l].manifest = derived'[s].source
  <2>1. derived[s].artifact = derived[s].by /\ Bound(s, derived[s].source)
    BY <1>2 DEF InboxInv, DerivedInv
  <2>2. PICK m : m = derived[s].source
    OBVIOUS
  <2>3. Bound(s, m)'
    BY <2>1, <2>2, BoundStays
  <2>4. QED
    BY <2>1, <2>2, <2>3 DEF Bound, Exists, At
<1>3. DerivedInv'
  BY <1>2 DEF DerivedInv, Bound, Exists, At
<1>4. QED
  BY <1>1, <1>3

\* A command starts.
LEMMA StartKeeps ==
    ASSUME InboxInv, NEW t \in Tool, tool[t] = Idle, NEW s \in Session,
           NEW op \in {"ingest", "quarantine", "derive"}, NEW from \in Location,
           NEW to \in Location, Command(t, op, s, from, to),
           op = "ingest" => from = "accepted" /\ to = "ingested",
           op = "quarantine" => \/ from = "active" /\ to = "failed.partial"
                                \/ from \in Finalized /\ to = "failed",
           op = "derive" => from \in Finalized /\ Valid(At(s, from)),
           UNCHANGED <<dirs, derived, bundle, inboxLock, diskErrors>>
    PROVE  InboxInv' /\ Kept
<1>1. PICK seen : seen = IF op = "derive" THEN At(s, from).manifest ELSE NoManifest
  OBVIOUS
<1>2. PICK c : c = [pc |-> "waiting", op |-> op, session |-> s, from |-> from, to |-> to,
                    seen |-> seen]
  OBVIOUS
<1>3. tool' = [tool EXCEPT ![t] = c]
  BY <1>1, <1>2 DEF Command
<1>4. op = "derive" => /\ Exists(s, from) /\ At(s, from) \in DirectoryType /\ from \in Final
                       /\ seen # NoManifest /\ seen = At(s, from).manifest
  <2>1. ASSUME op = "derive"  PROVE /\ Exists(s, from) /\ At(s, from) \in DirectoryType
                                    /\ from \in Final /\ seen # NoManifest
                                    /\ seen = At(s, from).manifest
    <3>1. from \in Finalized /\ ContentValid(At(s, from)) /\ Sealed(At(s, from))
      BY <2>1 DEF Valid
    <3>2. Exists(s, from)
      BY <3>1 DEF ContentValid, Exists, At
    <3>3. dirs \in Directories
      BY DEF InboxInv, InboxType, Directories
    <3>4. At(s, from) \in DirectoryType
      BY <3>2, <3>3, ExistsTyped
    <3>5. seen = At(s, from).manifest
      BY <1>1, <2>1
    <3>6. seen # NoManifest
      BY <3>1, <3>5 DEF Sealed
    <3>7. QED
      BY <3>1, <3>2, <3>4, <3>5, <3>6 DEF Finalized, Final
  <2>2. QED
    BY <2>1
<1>5. seen \in Seq(PayloadType)
  <2>1. CASE op = "derive"
    BY <1>4, <2>1, DirectoryIsThere
  <2>2. CASE op # "derive"
    <3>1. seen = <<>>
      BY <1>1, <2>2 DEF NoManifest
    <3>2. <<>> \in Seq(PayloadType)
      OBVIOUS
    <3>3. QED
      BY <3>1, <3>2
  <2>3. QED
    BY <2>1, <2>2
<1>6. /\ c \in CommandType /\ c.pc = "waiting" /\ c.op = op /\ c.session = s
      /\ c.from = from /\ c.to = to /\ c.seen = seen
  BY <1>2, <1>5 DEF CommandType
<1>7. /\ tool' \in ToolStates /\ tool'[t] = c
      /\ \A u \in Tool : u # t => tool'[u] = tool[u]
  BY <1>3, <1>6, ToolSet
<1>8. /\ Kept /\ PlacedInv' /\ WritingInv' /\ FinalizedIsSound' /\ dirs' \in Directories
  BY DiskStays
<1>9. derived' \in DerivedStates /\ DerivedInv'
  BY <1>8, DerivedStays
<1>10. CommandOf(t)'
  <2>1. op = "derive" => \E l \in Final : dirs'[s][l] # NoDirectory /\ dirs'[s][l].manifest = seen
    BY <1>4 DEF Exists, At
  <2>2. QED
    BY <1>4, <1>6, <1>7, <2>1 DEF CommandOf, Bound, Exists, At
<1>11. tool'[t].pc \notin AtWork
  BY <1>6, <1>7 DEF AtWork
<1>12. QED
  BY <1>7, <1>8, <1>9, <1>10, <1>11, CommandKeeps

\* ingest validates an accepted recording.
LEMMA StartIngestKeeps ==
    ASSUME InboxInv, NEW t \in Tool, NEW s \in Session, StartIngest(t, s)
    PROVE  InboxInv' /\ Kept
<1>1. /\ tool[t] = Idle /\ Command(t, "ingest", s, "accepted", "ingested")
      /\ UNCHANGED <<dirs, derived, bundle, inboxLock, diskErrors>>
  BY DEF StartIngest
<1>2. "accepted" \in Location /\ "ingested" \in Location
  BY DEF Location
<1>3. QED
  BY <1>1, <1>2, StartKeeps

\* store_derived validates its source.
LEMMA StartDeriveKeeps ==
    ASSUME InboxInv, NEW t \in Tool, NEW s \in Session, NEW from \in Finalized,
           StartDerive(t, s, from)
    PROVE  InboxInv' /\ Kept
<1>1. /\ tool[t] = Idle /\ Valid(At(s, from)) /\ Command(t, "derive", s, from, from)
      /\ UNCHANGED <<dirs, derived, bundle, inboxLock, diskErrors>>
  BY DEF StartDerive
<1>2. from \in Location
  BY DEF Location, Finalized
<1>3. QED
  BY <1>1, <1>2, StartKeeps

\* quarantine starts.
LEMMA StartQuarantineKeeps ==
    ASSUME InboxInv, NEW t \in Tool, NEW s \in Session, NEW from \in {"active"} \cup Finalized,
           StartQuarantine(t, s, from)
    PROVE  InboxInv' /\ Kept
<1>1. PICK to : to = IF from = "active" THEN "failed.partial" ELSE "failed"
  OBVIOUS
<1>2. /\ tool[t] = Idle /\ Command(t, "quarantine", s, from, to)
      /\ UNCHANGED <<dirs, derived, bundle, inboxLock, diskErrors>>
  BY <1>1 DEF StartQuarantine
<1>3. from \in Location /\ to \in Location
  BY <1>1 DEF Location, Finalized
<1>4. \/ from = "active" /\ to = "failed.partial"
      \/ from \in Finalized /\ to = "failed"
  BY <1>1 DEF Finalized
<1>5. QED
  BY <1>2, <1>3, <1>4, StartKeeps

\* A command takes the lock.
LEMMA EnterCommandKeeps ==
    ASSUME InboxInv, NEW t \in Tool, EnterCommand(t)
    PROVE  InboxInv' /\ Kept
<1>1. /\ tool[t].pc = "waiting" /\ Acquire(t) /\ tool' = [tool EXCEPT ![t].pc = "locked"]
      /\ dirs' = dirs /\ derived' = derived /\ bundle' = bundle /\ diskErrors' = diskErrors
  BY DEF EnterCommand
<1>2. tool[t] # Idle /\ CommandOf(t)
  BY <1>1, CommandIsBusy, CommandTyped
<1>3. /\ tool' \in ToolStates /\ tool'[t].pc = "locked" /\ tool'[t] # Idle
      /\ tool'[t].op = tool[t].op /\ tool'[t].session = tool[t].session
      /\ tool'[t].from = tool[t].from /\ tool'[t].to = tool[t].to
      /\ tool'[t].seen = tool[t].seen
      /\ \A u \in Tool : u # t => tool'[u] = tool[u]
  BY <1>1, <1>2, ToolGoes
<1>4. /\ Kept /\ PlacedInv' /\ WritingInv' /\ FinalizedIsSound' /\ dirs' \in Directories
  BY <1>1, DiskStays
<1>5. derived' \in DerivedStates /\ DerivedInv'
  BY <1>1, <1>4, DerivedStays
<1>6. CommandOf(t)'
  BY <1>1, <1>2, <1>3 DEF CommandOf, Bound, Exists, At
<1>7. QED
  BY <1>1, <1>3, <1>4, <1>5, <1>6, CommandKeeps

\* ingest and quarantine move a directory to a free place, or fail.
LEMMA MoveDirectoryKeeps ==
    ASSUME InboxInv, NEW t \in Tool, MoveDirectory(t)
    PROVE  InboxInv' /\ Kept
<1>1. /\ tool[t].pc = "locked" /\ tool[t].op \in {"ingest", "quarantine"} /\ Release(t)
      /\ tool' = [tool EXCEPT ![t] = Idle]
      /\ derived' = derived /\ bundle' = bundle /\ diskErrors' = diskErrors
  BY DEF MoveDirectory
<1>2. PICK s \in Session, from \in Location, to \in Location :
         s = tool[t].session /\ from = tool[t].from /\ to = tool[t].to
  BY <1>1, CommandIsBusy, CommandTyped
<1>3. \/ Exists(s, from) /\ ~Exists(s, to) /\ Moved(s, from, to)
      \/ dirs' = dirs
  BY <1>2 DEF MoveDirectory
<1>4. \/ from = "accepted" /\ to = "ingested"
      \/ from = "active" /\ to = "failed.partial"
      \/ from \in Finalized /\ to = "failed"
  BY <1>1, <1>2, CommandIsBusy, CommandTyped DEF CommandOf
<1>5. /\ Kept /\ PlacedInv' /\ WritingInv' /\ FinalizedIsSound' /\ dirs' \in Directories
  <2>1. CASE dirs' = dirs
    BY <1>1, <2>1, DiskStays
  <2>2. CASE Exists(s, from) /\ ~Exists(s, to) /\ Moved(s, from, to)
    <3>1. /\ from # to /\ to # "active"
          /\ from \in Final => to \in Final
          /\ to \in Final => from \in Final
          /\ to \in Finalized => from \in Finalized
      BY <1>4 DEF Final, Finalized
    <3>2. to \in Finalized => Valid(At(s, from))
      BY <2>2, <3>1 DEF InboxInv, FinalizedIsSound
    <3>3. to \in Final => bundle'[At(s, from).owner].pc = "accepted"
      BY <1>1, <2>2, <3>1 DEF InboxInv, PlacedInv
    <3>4. \A c \in Bundle : bundle[c].pc = "accepted" => bundle'[c].pc = "accepted"
      BY <1>1
    <3>5. /\ dirs' \in Directories /\ Kept /\ PlacedInv' /\ FinalizedIsSound'
          /\ \A c \in Bundle : PathExists(c)' => PathExists(c) /\ Path(c)' = Path(c)
      BY <2>2, <3>1, <3>2, <3>3, <3>4, MoveKeeps
    <3>6. WritingInv'
      <4>1. ASSUME NEW c \in Bundle  PROVE WritingOf(c)'
        <5>1. WritingOf(c)
          BY DEF InboxInv, WritingInv
        <5>2. QED
          BY <1>1, <3>5, <5>1 DEF WritingOf
      <4>2. QED
        BY <4>1 DEF WritingInv
    <3>7. QED
      BY <3>5, <3>6
  <2>3. QED
    BY <1>3, <2>1, <2>2
<1>6. /\ tool' \in ToolStates /\ tool'[t] = Idle
      /\ \A u \in Tool : u # t => tool'[u] = tool[u]
  BY <1>1, ToolSet
<1>7. derived' \in DerivedStates /\ DerivedInv'
  BY <1>1, <1>5, DerivedStays
<1>8. CommandOf(t)' /\ tool'[t].pc \notin AtWork
  BY <1>6 DEF CommandOf, Idle, AtWork
<1>9. QED
  BY <1>1, <1>5, <1>6, <1>7, <1>8, CommandKeeps

\* store_derived looks for earlier output.
LEMMA CheckDerivedKeeps ==
    ASSUME InboxInv, NEW t \in Tool, CheckDerived(t)
    PROVE  InboxInv' /\ Kept
<1>1. /\ tool[t].pc = "locked" /\ tool[t].op = "derive"
      /\ dirs' = dirs /\ derived' = derived /\ bundle' = bundle /\ diskErrors' = diskErrors
  BY DEF CheckDerived
<1>2. tool[t] # Idle /\ CommandOf(t) /\ tool[t].session \in Session /\ inboxLock = t
  BY <1>1, CommandIsBusy, CommandTyped DEF AtWork
<1>3. /\ Kept /\ PlacedInv' /\ WritingInv' /\ FinalizedIsSound' /\ dirs' \in Directories
  BY <1>1, DiskStays
<1>4. derived' \in DerivedStates /\ DerivedInv'
  BY <1>1, <1>3, DerivedStays
<1>5. CASE derived[tool[t].session].source = NoManifest
           /\ tool' = [tool EXCEPT ![t].pc = "checked"] /\ inboxLock' = inboxLock
  <2>1. /\ tool' \in ToolStates /\ tool'[t].pc = "checked" /\ tool'[t] # Idle
        /\ tool'[t].op = tool[t].op /\ tool'[t].session = tool[t].session
        /\ tool'[t].from = tool[t].from /\ tool'[t].to = tool[t].to
        /\ tool'[t].seen = tool[t].seen
        /\ \A u \in Tool : u # t => tool'[u] = tool[u]
    BY <1>2, <1>5, ToolGoes
  <2>2. CommandOf(t)'
    BY <1>1, <1>2, <1>5, <2>1 DEF CommandOf, Bound, Exists, At
  <2>3. QED
    BY <1>1, <1>2, <1>3, <1>4, <1>5, <2>1, <2>2, CommandKeeps
<1>6. CASE tool' = [tool EXCEPT ![t] = Idle] /\ Release(t)
  <2>1. /\ tool' \in ToolStates /\ tool'[t] = Idle
        /\ \A u \in Tool : u # t => tool'[u] = tool[u]
    BY <1>6, ToolSet
  <2>2. CommandOf(t)' /\ tool'[t].pc \notin AtWork
    BY <2>1 DEF CommandOf, Idle, AtWork
  <2>3. QED
    BY <1>1, <1>3, <1>4, <1>6, <2>1, <2>2, CommandKeeps
<1>7. QED
  BY <1>5, <1>6 DEF CheckDerived

\* store_derived writes the artifact: no manifest is there yet.
LEMMA WriteArtifactKeeps ==
    ASSUME InboxInv, NEW t \in Tool, WriteArtifact(t)
    PROVE  InboxInv' /\ Kept
<1>1. /\ tool[t].pc = "checked" /\ tool' = [tool EXCEPT ![t].pc = "wrote"]
      /\ derived' = [derived EXCEPT ![tool[t].session].artifact = t]
      /\ dirs' = dirs /\ bundle' = bundle /\ inboxLock' = inboxLock /\ diskErrors' = diskErrors
  BY DEF WriteArtifact
<1>2. tool[t] # Idle /\ CommandOf(t) /\ inboxLock = t /\ derived \in DerivedStates
  BY <1>1, CommandIsBusy, CommandTyped DEF AtWork
<1>3. PICK s \in Session : s = tool[t].session
  BY <1>2, CommandTyped
<1>4. derived[s].source = NoManifest /\ tool[t].op = "derive"
  BY <1>1, <1>2, <1>3 DEF CommandOf
<1>5. /\ derived' \in DerivedStates /\ derived'[s].artifact = t
      /\ derived'[s].source = derived[s].source
      /\ \A z \in Session : z # s => derived'[z] = derived[z]
  <2>1. PICK r : r = [derived[s] EXCEPT !.artifact = t]
    OBVIOUS
  <2>2. derived' = [derived EXCEPT ![s] = r]
    BY <1>1, <1>3, <2>1
  <2>3. r.artifact = t /\ r.source = derived[s].source
    BY <1>2, <2>1 DEF DerivedStates
  <2>4. derived' \in DerivedStates
    BY <1>2, <2>1, <2>2 DEF DerivedStates
  <2>5. QED
    BY <1>2, <2>2, <2>3, <2>4 DEF DerivedStates
<1>6. /\ Kept /\ PlacedInv' /\ WritingInv' /\ FinalizedIsSound' /\ dirs' \in Directories
  BY <1>1, DiskStays
<1>7. DerivedInv'
  <2>1. \A z \in Session : derived'[z].source # NoManifest =>
           z # s /\ derived'[z] = derived[z]
    BY <1>4, <1>5
  <2>2. \A z \in Session : derived[z].source # NoManifest =>
           derived[z].artifact = derived[z].by /\ Bound(z, derived[z].source)
    BY DEF InboxInv, DerivedInv
  <2>3. \A z \in Session : derived'[z].source # NoManifest =>
           derived'[z].artifact = derived'[z].by /\ Bound(z, derived'[z].source)
    BY <2>1, <2>2
  <2>4. QED
    BY <1>1, <2>3 DEF DerivedInv, Bound, Exists, At
<1>8. /\ tool' \in ToolStates /\ tool'[t].pc = "wrote" /\ tool'[t] # Idle
      /\ tool'[t].op = tool[t].op /\ tool'[t].session = tool[t].session
      /\ tool'[t].from = tool[t].from /\ tool'[t].to = tool[t].to
      /\ tool'[t].seen = tool[t].seen
      /\ \A u \in Tool : u # t => tool'[u] = tool[u]
  BY <1>1, <1>2, ToolGoes
<1>9. CommandOf(t)'
  BY <1>1, <1>2, <1>3, <1>4, <1>5, <1>8 DEF CommandOf, Bound, Exists, At
<1>10. QED
  BY <1>1, <1>2, <1>5, <1>6, <1>7, <1>8, <1>9, CommandKeeps

\* store_derived writes the manifest that binds its artifact.
LEMMA WriteDerivedManifestKeeps ==
    ASSUME InboxInv, NEW t \in Tool, WriteDerivedManifest(t)
    PROVE  InboxInv' /\ Kept
<1>1. /\ tool[t].pc = "wrote" /\ Release(t) /\ tool' = [tool EXCEPT ![t] = Idle]
      /\ derived' = [derived EXCEPT ![tool[t].session].source = tool[t].seen,
                                    ![tool[t].session].by = t]
      /\ dirs' = dirs /\ bundle' = bundle /\ diskErrors' = diskErrors
  BY DEF WriteDerivedManifest
<1>2. tool[t] # Idle /\ CommandOf(t) /\ inboxLock = t /\ derived \in DerivedStates
  BY <1>1, CommandIsBusy, CommandTyped DEF AtWork
<1>3. PICK s \in Session, m \in Seq(PayloadType) : s = tool[t].session /\ m = tool[t].seen
  BY <1>2, CommandTyped
<1>4. derived[s].artifact = t /\ Bound(s, m)
  BY <1>1, <1>2, <1>3 DEF CommandOf
<1>5. derived' = [derived EXCEPT ![s].source = m, ![s].by = t]
  BY <1>1, <1>3
<1>6. /\ derived' \in DerivedStates /\ derived'[s].artifact = t
      /\ derived'[s].source = m /\ derived'[s].by = t
      /\ \A z \in Session : z # s => derived'[z] = derived[z]
  <2>1. PICK r : r = [derived[s] EXCEPT !.source = m, !.by = t]
    OBVIOUS
  <2>2. derived' = [derived EXCEPT ![s] = r]
    BY <1>5, <2>1
  <2>3. r.artifact = t /\ r.source = m /\ r.by = t
    BY <1>2, <1>4, <2>1 DEF DerivedStates
  <2>4. derived' \in DerivedStates
    BY <1>2, <2>1, <2>2 DEF DerivedStates
  <2>5. QED
    BY <1>2, <2>2, <2>3, <2>4 DEF DerivedStates
<1>7. /\ Kept /\ PlacedInv' /\ WritingInv' /\ FinalizedIsSound' /\ dirs' \in Directories
  BY <1>1, DiskStays
<1>8. DerivedInv'
  <2>1. \A z \in Session : derived[z].source # NoManifest =>
           derived[z].artifact = derived[z].by /\ Bound(z, derived[z].source)
    BY DEF InboxInv, DerivedInv
  <2>2. \A z \in Session : derived'[z].source # NoManifest =>
           derived'[z].artifact = derived'[z].by /\ Bound(z, derived'[z].source)
    BY <1>4, <1>6, <2>1
  <2>3. QED
    BY <1>1, <2>2 DEF DerivedInv, Bound, Exists, At
<1>9. /\ tool' \in ToolStates /\ tool'[t] = Idle
      /\ \A u \in Tool : u # t => tool'[u] = tool[u]
  BY <1>1, ToolSet
<1>10. CommandOf(t)' /\ tool'[t].pc \notin AtWork
  BY <1>9 DEF CommandOf, Idle, AtWork
<1>11. QED
  BY <1>1, <1>2, <1>6, <1>7, <1>8, <1>9, <1>10, CommandKeeps

\* The command's process dies, with or without the lock.
LEMMA ToolDiesKeeps ==
    ASSUME InboxInv, NEW t \in Tool, ToolDies(t)
    PROVE  InboxInv' /\ Kept
<1>1. /\ Release(t) /\ tool' = [tool EXCEPT ![t] = Idle]
      /\ dirs' = dirs /\ derived' = derived /\ bundle' = bundle /\ diskErrors' = diskErrors
  BY DEF ToolDies
<1>2. /\ Kept /\ PlacedInv' /\ WritingInv' /\ FinalizedIsSound' /\ dirs' \in Directories
  BY <1>1, DiskStays
<1>3. derived' \in DerivedStates /\ DerivedInv'
  BY <1>1, <1>2, DerivedStays
<1>4. /\ tool' \in ToolStates /\ tool'[t] = Idle
      /\ \A u \in Tool : u # t => tool'[u] = tool[u]
  BY <1>1, ToolSet
<1>5. CommandOf(t)' /\ tool'[t].pc \notin AtWork
  BY <1>4 DEF CommandOf, Idle, AtWork
<1>6. QED
  BY <1>1, <1>2, <1>3, <1>4, <1>5, CommandKeeps

-----------------------------------------------------------------------------
(* Both at once: a process that writes b and runs the command t gives up.  *)

\* Its locks are given back; the bundle it was beginning or completing stays closed.
LEMMA GivenUp ==
    ASSUME InboxInv, NEW b, NEW t \in Tool, dirs' = dirs, derived' = derived,
           diskErrors' = diskErrors, tool' = [tool EXCEPT ![t] = Idle],
           bundle' \in BundleStates,
           \A c \in Bundle : \/ bundle'[c] = bundle[c]
                             \/ c = b /\ bundle'[c].pc \in {"dead", "raised"}
                                /\ bundle[c].pc # "accepted",
           \/ inboxLock' = inboxLock
           \/ inboxLock' = NoOne /\ inboxLock = t
           \/ inboxLock' = NoOne /\ inboxLock = b
              /\ (b \in Bundle => bundle'[b].pc \notin {"beginning", "accepting"}),
           inboxLock = t => inboxLock' = NoOne,
           b \notin Tool
    PROVE  InboxInv' /\ Kept
<1>1. Kept /\ FinalizedIsSound' /\ dirs' \in Directories
  BY DirectoriesStay
<1>2. /\ tool' \in ToolStates /\ tool'[t] = Idle /\ tool'[t].pc = "idle"
      /\ \A u \in Tool : u # t => tool'[u] = tool[u]
  <2>1. /\ tool' \in ToolStates /\ tool'[t] = Idle
        /\ \A u \in Tool : u # t => tool'[u] = tool[u]
    BY ToolSet
  <2>2. Idle.pc = "idle"
    BY DEF Idle
  <2>3. QED
    BY <2>1, <2>2
<1>3. InboxType'
  BY <1>1, <1>2 DEF InboxInv, InboxType, Directories, BundleStates
<1>4. PlacedInv'
  <2>1. ASSUME NEW s \in Session, NEW l \in Location, Exists(s, l)
        PROVE  /\ SessionOf[At(s, l).owner] = s
               /\ l \in Final => bundle'[At(s, l).owner].pc = "accepted"
    <3>1. At(s, l).owner \in Bundle
      BY <2>1, ExistsTyped, DirectoryIsThere DEF InboxInv, InboxType, Directories
    <3>2. /\ SessionOf[At(s, l).owner] = s
          /\ l \in Final => bundle[At(s, l).owner].pc = "accepted"
      BY <2>1 DEF InboxInv, PlacedInv
    <3>3. QED
      BY <3>1, <3>2
  <2>2. QED
    BY <2>1 DEF PlacedInv, Exists, At
<1>5. WritingInv'
  <2>1. ASSUME NEW c \in Bundle  PROVE WritingOf(c)'
    <3>1. Path(c)' = Path(c) /\ (PathExists(c)' <=> PathExists(c))
      BY DEF Path, PathExists, Exists, At
    <3>2. WritingOf(c)
      BY DEF InboxInv, WritingInv
    <3>3. QED
      BY <3>1, <3>2 DEF WritingOf
  <2>2. QED
    BY <2>1 DEF WritingInv
<1>6. InboxLockInv'
  <2>1. NoOne \notin Bundle \cup Tool /\ Bundle \cap Tool = {}
    BY InboxAssumption
  <2>2. ASSUME NEW c \in Bundle, bundle'[c].pc \in {"beginning", "accepting"}
        PROVE  inboxLock' = c
    <3>1. inboxLock = c
      BY <2>2 DEF InboxInv, InboxLockInv
    <3>2. QED
      BY <2>1, <2>2, <3>1
  <2>3. ASSUME NEW u \in Tool, tool'[u].pc \in {"locked", "checked", "wrote"}
        PROVE  inboxLock' = u
    <3>1. u # t
      BY <1>2, <2>3
    <3>2. inboxLock = u
      BY <1>2, <2>3, <3>1 DEF InboxInv, InboxLockInv
    <3>3. QED
      BY <3>1, <3>2
  <2>4. QED
    BY <2>2, <2>3 DEF InboxLockInv
<1>7. CommandInv'
  <2>1. ASSUME NEW u \in Tool  PROVE CommandOf(u)'
    <3>1. CommandOf(u)
      BY DEF InboxInv, CommandInv
    <3>2. QED
      BY <1>2, <3>1 DEF CommandOf, Bound, Exists, At
  <2>2. QED
    BY <2>1 DEF CommandInv
<1>8. DerivedInv'
  BY <1>1, DerivedStays
<1>9. QED
  BY <1>1, <1>3, <1>4, <1>5, <1>6, <1>7, <1>8 DEF InboxInv

-----------------------------------------------------------------------------
(* The inbox.                                                              *)

\* Any step of a writer.
LEMMA BundleStepKeeps ==
    ASSUME Unique, InboxInv, NEW b \in Bundle, BundleStep(b)
    PROVE  InboxInv' /\ Kept
BY EnterBeginKeeps, BeginKeeps, AppendRecordKeeps, AppendRejectedKeeps, AppendGapKeeps,
   FailBundleKeeps, CloseKeeps, ValidateKeeps, WriteSidecarsKeeps, WriteManifestKeeps,
   SealingRaisesKeeps, EnterAcceptKeeps, AcceptKeeps, AcceptFailsKeeps, WriterDiesKeeps
   DEF BundleStep, CompleteStep

\* Any step of a command.
LEMMA ToolStepKeeps ==
    ASSUME InboxInv, NEW t \in Tool, ToolStep(t)
    PROVE  InboxInv' /\ Kept
BY StartIngestKeeps, StartDeriveKeeps, StartQuarantineKeeps, EnterCommandKeeps,
   MoveDirectoryKeeps, CheckDerivedKeeps, WriteArtifactKeeps, WriteDerivedManifestKeeps,
   ToolDiesKeeps
   DEF ToolStep, StartCommand, CommandStep

\* Nothing of the inbox changes.
LEMMA InboxStutters ==
    ASSUME InboxInv, UNCHANGED inboxVars
    PROVE  InboxInv' /\ Kept
<1>1. /\ dirs' = dirs /\ derived' = derived /\ bundle' = bundle /\ tool' = tool
      /\ inboxLock' = inboxLock /\ diskErrors' = diskErrors
  BY DEF inboxVars
<1>2. /\ Kept /\ PlacedInv' /\ WritingInv' /\ FinalizedIsSound'
  BY <1>1, DiskStays
<1>3. CommandInv' /\ DerivedInv'
  BY <1>1, <1>2, CommandsStay
<1>4. InboxLockInv' /\ InboxType'
  BY <1>1 DEF InboxInv, InboxLockInv, InboxType
<1>5. QED
  BY <1>2, <1>3, <1>4 DEF InboxInv

\* The empty inbox.
LEMMA InboxStarts ==
    ASSUME InboxInit
    PROVE  InboxInv
<1>1. \A s \in Session, l \in Location : ~Exists(s, l)
  BY DEF InboxInit, Exists
<1>2. <<>> \in Seq(PayloadType)
  OBVIOUS
<1>3. InboxType
  BY <1>2 DEF InboxInit, InboxType, DerivedStates, ToolStates, BundlePc, NoManifest
<1>4. PlacedInv
  BY <1>1 DEF PlacedInv
<1>5. FinalizedIsSound
  BY <1>1 DEF FinalizedIsSound, Finalized, Location
<1>6. WritingInv
  <2>1. ASSUME NEW b \in Bundle  PROVE WritingOf(b)
    <3>1. ~PathExists(b)
      BY <1>1, InboxAssumption DEF PathExists, Location
    <3>2. bundle[b].count = 0 /\ ~bundle[b].faults
      BY DEF InboxInit
    <3>3. QED
      BY <3>1, <3>2 DEF WritingOf
  <2>2. QED
    BY <2>1 DEF WritingInv
<1>7. InboxLockInv
  BY DEF InboxInit, InboxLockInv, Idle
<1>8. CommandInv
  BY DEF InboxInit, CommandInv, CommandOf
<1>9. DerivedInv
  BY DEF InboxInit, DerivedInv
<1>10. QED
  BY <1>3, <1>4, <1>5, <1>6, <1>7, <1>8, <1>9 DEF InboxInv

\* What a step keeps is the evidence.
LEMMA KeptIsKept ==
    ASSUME Kept, NEW s \in Session, NEW l \in Location, Exists(s, l)
    PROVE  \E k \in Location :
              /\ dirs'[s][k] # NoDirectory /\ dirs'[s][k].owner = At(s, l).owner
              /\ IF l \in {"accepted", "ingested", "failed"}
                 THEN dirs'[s][k] = At(s, l)
                 ELSE IsPrefix(At(s, l).records, dirs'[s][k].records)
BY DEF Kept, KeptAt, Final

\* What is derived is bound to a run of the inbox.
LEMMA BoundIsThere ==
    ASSUME InboxInv
    PROVE  DerivedIsBound
BY DEF InboxInv, DerivedInv, Bound, DerivedIsBound, Final, Location

\* The inbox in every state: validated, sealed, moved and derived under the lock.
THEOREM InboxInvariance ==
    ASSUME Unique
    PROVE  InboxSpec => []InboxInv
<1>1. InboxInit => InboxInv
  BY InboxStarts
<1>2. InboxInv /\ [InboxNext]_inboxVars => InboxInv'
  BY BundleStepKeeps, ToolStepKeeps, InboxStutters DEF InboxNext
<1>3. QED
  BY <1>1, <1>2, PTL DEF InboxSpec

\* What acceptedunprocessed and ingested hold is a whole lifecycle under a manifest
\* of what is there, whichever of its writers and commands died.
THEOREM FinalizedSound ==
    ASSUME Unique
    PROVE  InboxSpec => []FinalizedIsSound
<1>1. InboxInv => FinalizedIsSound
  BY DEF InboxInv
<1>2. QED
  BY <1>1, InboxInvariance, PTL

\* store_derived binds its artifact to a recording of the inbox.
THEOREM DerivedBound ==
    ASSUME Unique
    PROVE  InboxSpec => []DerivedIsBound
<1>1. InboxInv => DerivedIsBound
  BY BoundIsThere
<1>2. QED
  BY <1>1, InboxInvariance, PTL

\* No step of a writer or a command loses or replaces a recording.
THEOREM EvidenceKept ==
    ASSUME Unique
    PROVE  InboxSpec => EvidenceIsKept
<1>1. InboxInv /\ [InboxNext]_inboxVars => Kept
  BY BundleStepKeeps, ToolStepKeeps, InboxStutters DEF InboxNext
<1>2. InboxInv /\ [InboxNext]_inboxVars =>
         [\A s \in Session, l \in Location :
            Exists(s, l) =>
               \E k \in Location :
                  /\ dirs'[s][k] # NoDirectory /\ dirs'[s][k].owner = At(s, l).owner
                  /\ IF l \in {"accepted", "ingested", "failed"}
                     THEN dirs'[s][k] = At(s, l)
                     ELSE IsPrefix(At(s, l).records, dirs'[s][k].records)]_inboxVars
  BY <1>1, KeptIsKept
<1>3. QED
  BY <1>2, InboxInvariance, PTL DEF InboxSpec, EvidenceIsKept
=============================================================================
