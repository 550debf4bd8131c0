------------------------------- MODULE KvLog -------------------------------
(***************************************************************************)
(* The append-only key/value log every chain-side store is built on        *)
(* (rust/chain/src/kvlog.rs) over the crate's one durable replace          *)
(* (rust/chain/src/durable.rs).                                            *)
(*                                                                         *)
(* One live instance per file.  The state is the file (as a load would     *)
(* read it: header, good frames, what follows them), what of it a power    *)
(* loss cannot take back, the copies kept aside, and the fields of `Log`.  *)
(*                                                                         *)
(* Lengths are in units: a v2 file header is one unit, so is every frame,  *)
(* and a tail is one unit plus the whole frames behind its bad bytes.      *)
(***************************************************************************)
EXTENDS Naturals, Sequences, FiniteSets, SequencesExt

CONSTANTS
  Keys,            \* record keys
  Vals,            \* record bodies
  NoVal,           \* "no record", and the body of a frame that carries none
  NoFile,          \* no older file can come back
  InitFiles,       \* the files the first launch may find
  CompactRatio,    \* COMPACT_RATIO
  CompactFloor,    \* COMPACT_FLOOR, in units
  MaxFrames,       \* bound: no append past this many frames
  MaxForeign,      \* bound: how many times storage damages a frame or something
                   \* else writes the file, together
  ChecksumMayFail, \* whether a launch may find its checksum broken
  DirSyncMayFail   \* whether the platform may refuse a directory fsync

VARIABLES
  file,        \* the log file
  synced,      \* units of it that a power loss cannot take back
  prior,       \* the file a power loss may bring back: its replacement's
               \* rename was not synced (NoFile when it was)
  asides,      \* the unreadable tails copied aside
  up,          \* the instance is open
  records,     \* Log::records
  tombstoned,  \* Log::tombstoned
  end,         \* Log::end
  cutOwed,     \* Log::cut_owed
  held,        \* Log::held is Some
  removed,     \* Log::removed
  erased,      \* history: the user erased the copies kept aside
  rot,         \* how often storage damaged the file
  outside      \* how often something else wrote the file

disk == <<file, synced, prior>>
memory == <<records, tombstoned, end, cutOwed, held, removed>>
environment == <<erased, rot, outside>>
vars == <<file, synced, prior, asides, up, records, tombstoned, end, cutOwed,
          held, removed, erased, rot, outside>>

-----------------------------------------------------------------------------
(* Frames, tails and files                                                 *)

Frame ==
  [op : {"upsert"}, key : Keys, val : Vals]
    \cup [op : {"remove", "tombstone", "untombstone"}, key : Keys, val : {NoVal}]

UpsertFrame(k, v) == [op |-> "upsert", key |-> k, val |-> v]
RemoveFrame(k) == [op |-> "remove", key |-> k, val |-> NoVal]
TombstoneFrame(k) == [op |-> "tombstone", key |-> k, val |-> NoVal]
UntombstoneFrame(k) == [op |-> "untombstone", key |-> k, val |-> NoVal]

(* What follows the last good frame.  "short": fewer bytes than a frame     *)
(* header; "part": a frame whose declared extent reaches the end of the     *)
(* file and does not check; "zeros"; "rot": bytes that do not check and do  *)
(* not reach the end, with the whole frames behind them.                    *)
Rest == [kind : {"clean", "short", "part", "zeros", "rot"}, behind : Seq(Frame)]
Bare(kind) == [kind |-> kind, behind |-> << >>]
Clean == Bare("clean")

V2(frames, tail) == [hdr |-> "v2", frames |-> frames, tail |-> tail]
(* No bytes; part of a v2 file header; and a file of zeros, which starts    *)
(* with no magic and so is read as v1.                                      *)
Empty == [hdr |-> "none", frames |-> << >>, tail |-> Clean]
TornHeader == [hdr |-> "torn", frames |-> << >>, tail |-> Clean]
Zeros == [hdr |-> "v1", frames |-> << >>, tail |-> Bare("zeros")]

(* "newer": the v2 magic with a version this build does not read.           *)
File == {Empty, TornHeader}
          \cup [hdr : {"v1", "v2", "newer"}, frames : Seq(Frame), tail : Rest]

ASSUME ConstantsAssumption ==
  /\ NoVal \notin Vals
  /\ NoFile \notin File
  /\ IsFiniteSet(Keys)
  /\ InitFiles \subseteq File
  /\ CompactRatio \in Nat /\ CompactFloor \in Nat
  /\ MaxFrames \in Nat /\ MaxForeign \in Nat
  /\ ChecksumMayFail \in BOOLEAN /\ DirSyncMayFail \in BOOLEAN

(* The length of everything up to the first byte that does not read.        *)
GoodEnd(f) == IF f.hdr \in {"none", "torn"} THEN 0
              ELSE IF f.hdr = "v1" THEN Len(f.frames) ELSE 1 + Len(f.frames)
TailLen(f) == IF f.hdr = "torn" THEN 1
              ELSE IF f.tail.kind = "clean" THEN 0 ELSE 1 + Len(f.tail.behind)
DiskLen(f) == GoodEnd(f) + TailLen(f)

(* The first n units of a v2 file.                                          *)
Stub(f, n) == IF n = 0 THEN Empty ELSE V2(SubSeq(f.frames, 1, n - 1), Clean)

-----------------------------------------------------------------------------
(* Replay: last write wins per key, removes delete, tombstones flag         *)

(* Frame i stores v under k and no later frame replaces or removes it.      *)
Stores(fs, i, k, v) ==
  /\ fs[i] = UpsertFrame(k, v)
  /\ \A j \in DOMAIN fs : j > i /\ fs[j].key = k => fs[j].op \notin {"upsert", "remove"}

Holds(fs, k, v) == \E i \in DOMAIN fs : Stores(fs, i, k, v)

(* Mutant: a remove leaves the flag standing.                               *)
FlagsPastRemove(fs, i, k) ==
  /\ fs[i] = TombstoneFrame(k)
  /\ \A j \in DOMAIN fs : j > i /\ fs[j].key = k => fs[j].op # "untombstone"

(* Frame i flags k and no later frame clears the flag or removes the key.   *)
Flags(fs, i, k) ==
  /\ fs[i] = TombstoneFrame(k)
  /\ \A j \in DOMAIN fs : j > i /\ fs[j].key = k => fs[j].op \notin {"untombstone", "remove"}

Flagged(fs, k) == \E i \in DOMAIN fs : Flags(fs, i, k)

RecordsOf(fs) ==
  [k \in Keys |-> IF \E v \in Vals : Holds(fs, k, v)
                  THEN CHOOSE v \in Vals : Holds(fs, k, v) ELSE NoVal]
FlagsOf(fs) == {k \in Keys : Flagged(fs, k)}
HasRemove(fs) == \E i \in DOMAIN fs : fs[i].op = "remove"

(* The frames replay to exactly this state.                                 *)
Replays(fs, recs, flags) ==
  /\ \A k \in Keys, v \in Vals : recs[k] = v <=> Holds(fs, k, v)
  /\ \A k \in Keys : k \in flags <=> Flagged(fs, k)

NoRecords == [k \in Keys |-> NoVal]
Live(recs) == {k \in Keys : recs[k] # NoVal}

(* The loop of the code, one frame at a time.                               *)
LoopStep(frame, state) ==
  CASE frame.op = "upsert" -> [state EXCEPT !.recs[frame.key] = frame.val]
    [] frame.op = "remove" -> [recs |-> [state.recs EXCEPT ![frame.key] = NoVal],
                               flags |-> state.flags \ {frame.key}]
    [] frame.op = "tombstone" -> [state EXCEPT !.flags = @ \cup {frame.key}]
    [] OTHER -> [state EXCEPT !.flags = @ \ {frame.key}]

Loop(fs) ==
  LET after[n \in 0 .. Len(fs)] ==
        IF n = 0 THEN [recs |-> NoRecords, flags |-> {}] ELSE LoopStep(fs[n], after[n - 1])
  IN  after[Len(fs)]

(* What the bytes after the last good frame are, to a load.                 *)
Classify(f) ==
  IF TailLen(f) = 0 THEN "Clean"
  ELSE IF f.hdr = "torn" \/ f.tail.kind \in {"zeros", "short"} THEN "Torn"
  ELSE IF f.hdr = "v2" /\ f.tail.kind = "part" THEN "Torn"
  ELSE "Unreadable"

(* The file this state rewrites to.                                         *)
Image(recs, flags) ==
  V2(SetToSeq({UpsertFrame(k, recs[k]) : k \in Live(recs)})
       \o SetToSeq({TombstoneFrame(k) : k \in flags}), Clean)

Grown(f) ==
  LET liveLen == 1 + Cardinality(Live(RecordsOf(f.frames))) + Cardinality(FlagsOf(f.frames))
  IN  DiskLen(f) > CompactFloor /\ DiskLen(f) > CompactRatio * liveLen

-----------------------------------------------------------------------------
(* The durable replace                                                      *)

(* The temp file is synced before the rename, so the new content is whole;  *)
(* the directory sync that makes the rename durable is best-effort.         *)
AtomicWrite(f) ==
  /\ file' = f
  /\ synced' = DiskLen(f)
  /\ prior' \in IF DirSyncMayFail
                THEN {NoFile, IF prior = NoFile THEN file ELSE prior}
                ELSE {NoFile}

-----------------------------------------------------------------------------
(* Load                                                                     *)

Opened(frames, goodEnd) ==
  /\ up' = TRUE
  /\ records' = RecordsOf(frames)
  /\ tombstoned' = FlagsOf(frames)
  /\ end' = goodEnd

(* A version newer than this build's: refused, the file left as it is.      *)
LoadRefused ==
  /\ ~up /\ file.hdr = "newer"
  /\ UNCHANGED vars

(* The checksum fails its known answers: frames are read on their lengths   *)
(* alone, so a damaged frame may decode to anything and the frames behind   *)
(* it are read too.  Nothing is judged, nothing is written.                 *)
LoadUnverified ==
  /\ ~up /\ file.hdr # "newer" /\ ChecksumMayFail
  /\ \/ Opened(file.frames, GoodEnd(file)) /\ removed' = HasRemove(file.frames)
     \/ /\ file.hdr = "v2" /\ file.tail.kind \in {"part", "rot"}
        /\ \E garbled \in Frame :
             LET read == file.frames \o <<garbled>> \o file.tail.behind
             IN  Opened(read, DiskLen(file)) /\ removed' = HasRemove(read)
  /\ held' = TRUE /\ cutOwed' = FALSE
  /\ UNCHANGED <<disk, asides, environment>>

LoadEmpty ==
  /\ ~up /\ file.hdr = "none"
  /\ Opened(file.frames, 0)
  /\ held' = FALSE /\ cutOwed' = FALSE /\ removed' = FALSE
  /\ UNCHANGED <<disk, asides, environment>>

(* Nothing is cut until the unreadable bytes are safe somewhere else.       *)
LoadAsideFailed ==
  /\ ~up /\ file.hdr # "newer" /\ Classify(file) = "Unreadable"
  /\ Opened(file.frames, GoodEnd(file))
  /\ held' = TRUE /\ cutOwed' = FALSE /\ removed' = HasRemove(file.frames)
  /\ UNCHANGED <<disk, asides, environment>>

(* Mutants: the tail is cut without a copy; the whole file is copied.       *)
SetNothingAside == UNCHANGED asides
SetFileAside == asides' = IF Classify(file) = "Unreadable" THEN asides \cup {file} ELSE asides
SetAside == asides' = IF Classify(file) = "Unreadable" THEN asides \cup {file.tail} ELSE asides

NeedsRewrite(f) == f.hdr = "v1" \/ Classify(f) # "Clean" \/ Grown(f)

(* Mutant: replayed removes are not remembered.                             *)
LoadCleanForgetsRemoves ==
  /\ ~up /\ file.hdr = "v2" /\ ~NeedsRewrite(file)
  /\ Opened(file.frames, GoodEnd(file))
  /\ held' = FALSE /\ cutOwed' = FALSE /\ removed' = FALSE
  /\ UNCHANGED <<disk, asides, environment>>

LoadClean ==
  /\ ~up /\ file.hdr = "v2" /\ ~NeedsRewrite(file)
  /\ Opened(file.frames, GoodEnd(file))
  /\ held' = FALSE /\ cutOwed' = FALSE /\ removed' = HasRemove(file.frames)
  /\ UNCHANGED <<disk, asides, environment>>

(* A migration, a cut or a compaction, through `compact`.                   *)
LoadRewritten ==
  /\ ~up /\ file.hdr \notin {"none", "newer"} /\ NeedsRewrite(file)
  /\ SetAside
  /\ LET image == Image(RecordsOf(file.frames), FlagsOf(file.frames))
     IN  /\ Replays(image.frames, RecordsOf(file.frames), FlagsOf(file.frames))
         /\ AtomicWrite(image)
         /\ Opened(file.frames, DiskLen(image))
  /\ held' = FALSE /\ cutOwed' = FALSE /\ removed' = FALSE
  /\ UNCHANGED environment

(* The rewrite failed: a v1 file is served read-only, a tail stays this     *)
(* log's own to cut at its next write.                                      *)
LoadRewriteFailed ==
  /\ ~up /\ file.hdr \notin {"none", "newer"} /\ NeedsRewrite(file)
  /\ SetAside
  /\ Opened(file.frames, GoodEnd(file))
  /\ held' = (file.hdr = "v1")
  /\ cutOwed' = (Classify(file) # "Clean")
  /\ removed' = HasRemove(file.frames)
  /\ UNCHANGED <<disk, environment>>

Load == LoadRefused \/ LoadUnverified \/ LoadEmpty \/ LoadAsideFailed \/ LoadClean
          \/ LoadRewritten \/ LoadRewriteFailed

-----------------------------------------------------------------------------
(* Append                                                                   *)

(* Mutant: anything past the end is cut.                                    *)
WritableOverAnyone ==
  /\ up /\ ~held
  /\ DiskLen(file) >= end
  /\ Len(file.frames) < MaxFrames

(* Another writer's bytes are never cut and a gap is never written behind.  *)
Writable ==
  /\ up /\ ~held
  /\ DiskLen(file) >= end
  /\ DiskLen(file) > end => cutOwed
  /\ Len(file.frames) < MaxFrames

Kept == Stub(file, end)
Minimum(a, b) == IF a < b THEN a ELSE b

(* What a write of f at the end can leave when it stops half-way.           *)
HalfWritten(f) ==
  {Kept, V2(Kept.frames, Clean), V2(Kept.frames, Bare("short")),
   V2(Kept.frames, Bare("part")), V2(Append(Kept.frames, f), Clean)}
    \cup (IF end = 0 THEN {TornHeader} ELSE {})

(* Mutant: the frame is written at the end of the file, behind its garbage. *)
AppendPastTail(f) ==
  /\ Writable
  /\ file' = IF TailLen(file) = 0 THEN V2(Append(Kept.frames, f), Clean)
             ELSE V2(file.frames, [kind |-> "rot", behind |-> Append(file.tail.behind, f)])
  /\ end' = DiskLen(file') /\ synced' = DiskLen(file')
  /\ cutOwed' = FALSE
  /\ UNCHANGED <<prior, asides, up, held, environment>>

AppendOk(f) ==
  /\ Writable
  /\ file' = V2(Append(Kept.frames, f), Clean)
  /\ end' = DiskLen(file') /\ synced' = DiskLen(file')
  /\ cutOwed' = FALSE
  /\ UNCHANGED <<prior, asides, up, held, environment>>

(* Mutant: a failed write does not own what it left.                        *)
AppendFailedUnowned(f) ==
  /\ Writable
  /\ file' \in HalfWritten(f)
  /\ synced' = Minimum(synced, end)
  /\ UNCHANGED <<prior, asides, up, records, tombstoned, end, cutOwed, held, removed, environment>>

(* The write or its sync failed: the memory keeps its state.                *)
AppendFailed(f) ==
  /\ Writable
  /\ file' \in HalfWritten(f)
  /\ synced' = Minimum(synced, end)
  /\ cutOwed' = TRUE
  /\ UNCHANGED <<prior, asides, up, records, tombstoned, end, held, removed, environment>>

Down ==
  /\ up' = FALSE
  /\ records' = NoRecords /\ tombstoned' = {}
  /\ end' = 0 /\ cutOwed' = FALSE /\ held' = FALSE /\ removed' = FALSE

(* The process dies inside the append.                                      *)
AppendDies(f) ==
  /\ Writable
  /\ file' \in HalfWritten(f)
  /\ synced' = Minimum(synced, end)
  /\ Down
  /\ UNCHANGED <<prior, asides, environment>>

(* Refused: read-only, shortened from outside, or grown from outside.       *)
AppendRefused ==
  /\ up
  /\ held \/ DiskLen(file) < end \/ (DiskLen(file) > end /\ ~cutOwed)
  /\ UNCHANGED vars

Interrupted(f) == AppendFailed(f) \/ AppendDies(f)

(* Each operation appends first and changes memory second; an operation     *)
(* that would change nothing appends nothing.                               *)
UpsertRecord(k, v) ==
  /\ up /\ records[k] # v
  /\ \/ /\ AppendOk(UpsertFrame(k, v))
        /\ records' = [records EXCEPT ![k] = v]
        /\ UNCHANGED <<tombstoned, removed>>
     \/ Interrupted(UpsertFrame(k, v))

(* Mutants: memory changes whether or not the append succeeds; the flag     *)
(* outlives the record.                                                     *)
RemoveFirstAppendSecond(k) ==
  /\ up /\ records[k] # NoVal
  /\ records' = [records EXCEPT ![k] = NoVal]
  /\ tombstoned' = tombstoned \ {k}
  /\ removed' = TRUE
  /\ \/ AppendOk(RemoveFrame(k))
     \/ /\ Writable
        /\ file' \in HalfWritten(RemoveFrame(k))
        /\ synced' = Minimum(synced, end) /\ cutOwed' = TRUE
        /\ UNCHANGED <<prior, asides, up, end, held, environment>>

RemoveRecord(k) ==
  /\ up /\ records[k] # NoVal
  /\ \/ /\ AppendOk(RemoveFrame(k))
        /\ records' = [records EXCEPT ![k] = NoVal]
        /\ tombstoned' = tombstoned \ {k}
        /\ removed' = TRUE
     \/ Interrupted(RemoveFrame(k))

TombstoneRecord(k) ==
  /\ up /\ records[k] # NoVal /\ k \notin tombstoned
  /\ \/ /\ AppendOk(TombstoneFrame(k))
        /\ tombstoned' = tombstoned \cup {k}
        /\ UNCHANGED <<records, removed>>
     \/ Interrupted(TombstoneFrame(k))

UntombstoneRecord(k) ==
  /\ up /\ k \in tombstoned
  /\ \/ /\ AppendOk(UntombstoneFrame(k))
        /\ tombstoned' = tombstoned \ {k}
        /\ UNCHANGED <<records, removed>>
     \/ Interrupted(UntombstoneFrame(k))

-----------------------------------------------------------------------------
(* Rewrites                                                                 *)

(* Erase everything: the file first, the maps second.  A failed replace     *)
(* changes neither half.                                                    *)
Wipe ==
  /\ up /\ ~held
  /\ AtomicWrite(Empty)
  /\ records' = NoRecords /\ tombstoned' = {}
  /\ end' = 0 /\ cutOwed' = FALSE /\ removed' = FALSE
  /\ UNCHANGED <<asides, up, held, environment>>

(* A file that grew behind this log is refused; one that shrank is restored *)
(* from memory; the image must replay to the state it was built from.       *)
Compact ==
  /\ up /\ ~held
  /\ DiskLen(file) > end => cutOwed
  /\ LET image == Image(records, tombstoned)
     IN  /\ Replays(image.frames, records, tombstoned)
         /\ AtomicWrite(image)
         /\ end' = DiskLen(image)
  /\ cutOwed' = FALSE /\ removed' = FALSE
  /\ UNCHANGED <<asides, up, records, tombstoned, held, environment>>

(* The user erases the copies kept aside; some may resist deletion.         *)
RemoveAsides ==
  /\ up /\ asides # {}
  /\ asides' \in SUBSET asides
  /\ erased' = TRUE
  /\ UNCHANGED <<disk, up, memory, rot, outside>>

-----------------------------------------------------------------------------
(* The environment                                                          *)

ProcessDies ==
  /\ up
  /\ Down
  /\ UNCHANGED <<disk, asides, environment>>

(* Where a power loss can cut the file.                                     *)
Losable == {n \in synced .. (DiskLen(file) - 1) : n <= GoodEnd(file)}

(* What a power loss can leave of the file: what was never synced is whole, *)
(* gone, torn or a run of zeros.                                            *)
Survivors ==
  {file}
    \cup UNION {LET stub == Stub(file, n)
                IN  {stub, IF n = 0 THEN TornHeader ELSE V2(stub.frames, Bare("part")),
                     IF n = 0 THEN Zeros ELSE V2(stub.frames, Bare("zeros"))}
                : n \in Losable}

PowerLoss ==
  /\ file' \in Survivors \cup (IF prior = NoFile THEN {} ELSE {prior})
  /\ synced' = DiskLen(file')
  /\ prior' = NoFile
  /\ Down
  /\ UNCHANGED <<asides, environment>>

(* Storage damages one frame, or the file header, while the app is down.    *)
Damaged(f) ==
  {V2(SubSeq(f.frames, 1, i - 1),
      [kind |-> IF i = Len(f.frames) /\ f.tail = Clean THEN "part" ELSE "rot",
       behind |-> SubSeq(f.frames, i + 1, Len(f.frames)) \o f.tail.behind])
     : i \in DOMAIN f.frames}
    \cup {[hdr |-> "v1", frames |-> << >>,
           tail |-> [kind |-> "rot", behind |-> f.frames \o f.tail.behind]]}

Rot ==
  /\ ~up /\ file.hdr = "v2" /\ rot + outside < MaxForeign
  /\ file' \in Damaged(file)
  /\ synced' = DiskLen(file')
  /\ rot' = rot + 1
  /\ UNCHANGED <<prior, asides, up, memory, erased, outside>>

(* Something other than this instance appends a frame or empties the file.  *)
Outside ==
  /\ up /\ rot + outside < MaxForeign
  /\ file' \in {Empty}
        \cup (IF file.hdr = "v2" /\ file.tail = Clean /\ Len(file.frames) < MaxFrames
              THEN {V2(Append(file.frames, f), Clean) : f \in Frame} ELSE {})
  /\ synced' = DiskLen(file')
  /\ outside' = outside + 1
  /\ UNCHANGED <<prior, asides, up, memory, erased, rot>>

-----------------------------------------------------------------------------

Init ==
  /\ file \in InitFiles
  /\ synced = DiskLen(file)
  /\ prior = NoFile
  /\ asides = {}
  /\ up = FALSE
  /\ records = NoRecords /\ tombstoned = {}
  /\ end = 0 /\ cutOwed = FALSE /\ held = FALSE /\ removed = FALSE
  /\ erased = FALSE /\ rot = 0 /\ outside = 0

Next ==
  \/ Load
  \/ \E k \in Keys : \/ \E v \in Vals : UpsertRecord(k, v)
                     \/ RemoveRecord(k)
                     \/ TombstoneRecord(k)
                     \/ UntombstoneRecord(k)
  \/ AppendRefused
  \/ Wipe
  \/ Compact
  \/ RemoveAsides
  \/ ProcessDies
  \/ PowerLoss
  \/ Rot
  \/ Outside

Spec == Init /\ [][Next]_vars

-----------------------------------------------------------------------------
(* Properties                                                               *)

TypeOK ==
  /\ file \in File
  /\ synced \in Nat
  /\ prior \in File \cup {NoFile}
  /\ asides \subseteq Rest
  /\ up \in BOOLEAN
  /\ records \in [Keys -> Vals \cup {NoVal}]
  /\ tombstoned \subseteq Keys
  /\ end \in Nat
  /\ cutOwed \in BOOLEAN /\ held \in BOOLEAN /\ removed \in BOOLEAN
  /\ erased \in BOOLEAN /\ rot \in Nat /\ outside \in Nat

(* The frames the log counts as written: everything before `end`.           *)
Written == Kept.frames

(* A writable log nothing else wrote.                                       *)
Sole == up /\ ~held /\ outside = 0

(* The file before `end` replays to exactly the maps in memory, whatever    *)
(* failed, died or was cut on the way (append first, mutate second).        *)
MemoryIsReplay == Sole => Replays(Written, records, tombstoned)

(* Bytes past `end` are always this log's own to cut and the file is never  *)
(* shorter than `end`: append never mistakes its own garbage, or its own    *)
(* failed write, for another writer's and never refuses a sole writer.      *)
OwnsItsTail ==
  Sole => DiskLen(file) >= end /\ (DiskLen(file) > end => cutOwed)

(* `holds_removed` is honest: when it says no, no removed record's bytes    *)
(* are left in the written file.                                            *)
NoRemovedBytes ==
  (Sole /\ ~removed) =>
    \A i \in DOMAIN Written : Written[i].op = "upsert" => records[Written[i].key] # NoVal

(* Frames behind bytes that do not read leave the file only once they are   *)
(* copied aside (by the load that cuts them or the one before the cut), or  *)
(* by an erase the user asked for.                                          *)
NothingCutUnseen ==
  [][(file' # file /\ Classify(file) = "Unreadable" /\ ~Rot /\ ~Outside /\ ~PowerLoss)
        => (file.tail \in asides' \/ erased \/ Wipe)]_vars

(* Bytes something else appended are never cut by an instance that does not *)
(* owe a cut.                                                               *)
OutsideKept ==
  [][(up /\ ~cutOwed /\ DiskLen(file) > end /\ outside' = outside /\ ~Wipe /\ ~PowerLoss)
        => file' = file]_vars

(* On every file reached, the records and flags that the last frames decide *)
(* are the ones that the code's pass over all of them leaves.               *)
ReplayIsTheLoop ==
  /\ RecordsOf(file.frames) = Loop(file.frames).recs
  /\ FlagsOf(file.frames) = Loop(file.frames).flags

(* The contents a later open may find: the file as it stands, and every     *)
(* shorter one that a power loss could leave.                               *)
ContentOf(fs) == [recs |-> RecordsOf(fs), flags |-> FlagsOf(fs)]
MayReturn ==
  {ContentOf(file.frames)} \cup {ContentOf(Stub(file, n).frames) : n \in Losable}

Store == INSTANCE DurableMap WITH recs <- records, flags <- tombstoned, may <- MayReturn

(* The log implements the durable map: what was acknowledged is what every  *)
(* later open finds, through failed writes, deaths inside an append or a    *)
(* rewrite, power loss and migration.                                       *)
StoreSpec == Store!Spec
=============================================================================
