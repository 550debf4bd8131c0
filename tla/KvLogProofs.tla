----------------------------- MODULE KvLogProofs -----------------------------
(* Proofs about KvLog, for every set of keys and values and every bound.    *)
EXTENDS KvLog, FiniteSetTheorems, WellFoundedInduction, TLAPS

(* A frame list replays to what RecordsOf and FlagsOf compute from it: at   *)
(* most one body is the last one stored under a key.                        *)
LEMMA ReplaysItself ==
  ASSUME NEW fs \in Seq(Frame)
  PROVE  /\ RecordsOf(fs) \in [Keys -> Vals \cup {NoVal}]
         /\ FlagsOf(fs) \subseteq Keys
         /\ Replays(fs, RecordsOf(fs), FlagsOf(fs))
<1>1. \A k \in Keys, v \in Vals, w \in Vals : Holds(fs, k, v) /\ Holds(fs, k, w) => v = w
  <2>1. SUFFICES ASSUME NEW k \in Keys, NEW v \in Vals, NEW w \in Vals,
                        Holds(fs, k, v), Holds(fs, k, w)
                 PROVE  v = w
    OBVIOUS
  <2>2. PICK i \in DOMAIN fs : Stores(fs, i, k, v)
    BY <2>1 DEF Holds
  <2>3. PICK j \in DOMAIN fs : Stores(fs, j, k, w)
    BY <2>1 DEF Holds
  <2>4. i \in Nat /\ j \in Nat
    BY <2>2, <2>3
  <2>5. ~(i < j) /\ ~(j < i)
    BY <2>2, <2>3, <2>4 DEF Stores, UpsertFrame
  <2>6. i = j
    BY <2>4, <2>5
  <2> QED
    BY <2>2, <2>3, <2>6 DEF Stores, UpsertFrame
<1>2. \A k \in Keys, v \in Vals : RecordsOf(fs)[k] = v <=> Holds(fs, k, v)
  BY <1>1, ConstantsAssumption DEF RecordsOf
<1> QED
  BY <1>2 DEF Replays, RecordsOf, FlagsOf

(* An empty log replays to no record and no flag.                           *)
LEMMA NothingReplays ==
  Replays(<< >>, NoRecords, {})
BY ConstantsAssumption DEF Replays, NoRecords, Holds, Flagged

(* What one more frame does to the records.                                 *)
LEMMA AppendHolds ==
  ASSUME NEW fs \in Seq(Frame), NEW f \in Frame, NEW k \in Keys, NEW v \in Vals
  PROVE  Holds(Append(fs, f), k, v) <=>
           IF f.key = k /\ f.op \in {"upsert", "remove"}
           THEN f = UpsertFrame(k, v) ELSE Holds(fs, k, v)
<1> DEFINE gs == Append(fs, f)
           n == Len(fs) + 1
<1>1. /\ DOMAIN gs = 1 .. n /\ DOMAIN fs = 1 .. Len(fs) /\ Len(fs) \in Nat
      /\ gs[n] = f /\ \A i \in 1 .. Len(fs) : gs[i] = fs[i]
  OBVIOUS
<1>2. CASE f.key = k /\ f.op \in {"upsert", "remove"}
  <2>1. \A i \in DOMAIN fs : ~Stores(gs, i, k, v)
    BY <1>1, <1>2 DEF Stores
  <2>2. Stores(gs, n, k, v) <=> f = UpsertFrame(k, v)
    BY <1>1 DEF Stores
  <2>3. Holds(gs, k, v) <=> f = UpsertFrame(k, v)
    <3>1. ASSUME Holds(gs, k, v) PROVE f = UpsertFrame(k, v)
      <4>1. PICK i \in DOMAIN gs : Stores(gs, i, k, v)
        BY <3>1 DEF Holds
      <4>2. i = n
        BY <4>1, <2>1, <1>1
      <4> QED
        BY <4>1, <4>2, <2>2
    <3>2. ASSUME f = UpsertFrame(k, v) PROVE Holds(gs, k, v)
      <4>1. n \in DOMAIN gs
        BY <1>1
      <4> QED
        BY <3>2, <2>2, <4>1 DEF Holds
    <3> QED
      BY <3>1, <3>2
  <2> QED
    BY <1>2, <2>3
<1>3. CASE ~(f.key = k /\ f.op \in {"upsert", "remove"})
  <2>1. ~Stores(gs, n, k, v)
    BY <1>1, <1>3 DEF Stores, UpsertFrame
  <2>2. \A i \in DOMAIN fs : Stores(gs, i, k, v) <=> Stores(fs, i, k, v)
    BY <1>1, <1>3 DEF Stores
  <2>3. Holds(gs, k, v) <=> Holds(fs, k, v)
    <3>1. ASSUME Holds(gs, k, v) PROVE Holds(fs, k, v)
      <4>1. PICK i \in DOMAIN gs : Stores(gs, i, k, v)
        BY <3>1 DEF Holds
      <4>2. i \in DOMAIN fs
        BY <4>1, <2>1, <1>1
      <4> QED
        BY <4>1, <4>2, <2>2 DEF Holds
    <3>2. ASSUME Holds(fs, k, v) PROVE Holds(gs, k, v)
      <4>1. PICK i \in DOMAIN fs : Stores(fs, i, k, v)
        BY <3>2 DEF Holds
      <4>2. i \in DOMAIN gs
        BY <4>1, <1>1
      <4> QED
        BY <4>1, <4>2, <2>2 DEF Holds
    <3> QED
      BY <3>1, <3>2
  <2> QED
    BY <1>3, <2>3
<1> QED
  BY <1>2, <1>3

(* What one more frame does to the flags.                                   *)
LEMMA AppendFlagged ==
  ASSUME NEW fs \in Seq(Frame), NEW f \in Frame, NEW k \in Keys
  PROVE  Flagged(Append(fs, f), k) <=>
           \/ f = TombstoneFrame(k)
           \/ ~(f.key = k /\ f.op \in {"untombstone", "remove"}) /\ Flagged(fs, k)
<1> DEFINE gs == Append(fs, f)
           n == Len(fs) + 1
<1>1. /\ DOMAIN gs = 1 .. n /\ DOMAIN fs = 1 .. Len(fs) /\ Len(fs) \in Nat
      /\ gs[n] = f /\ \A i \in 1 .. Len(fs) : gs[i] = fs[i]
  OBVIOUS
<1>2. Flags(gs, n, k) <=> f = TombstoneFrame(k)
  BY <1>1 DEF Flags
<1>3. \A i \in DOMAIN fs : Flags(gs, i, k) <=>
        Flags(fs, i, k) /\ ~(f.key = k /\ f.op \in {"untombstone", "remove"})
  BY <1>1 DEF Flags
<1>4. ASSUME Flagged(gs, k), f # TombstoneFrame(k)
      PROVE  ~(f.key = k /\ f.op \in {"untombstone", "remove"}) /\ Flagged(fs, k)
  <2>1. PICK i \in DOMAIN gs : Flags(gs, i, k)
    BY <1>4 DEF Flagged
  <2>2. i \in DOMAIN fs
    BY <2>1, <1>1, <1>2, <1>4
  <2> QED
    BY <2>1, <2>2, <1>3 DEF Flagged
<1>5. ASSUME f = TombstoneFrame(k) PROVE Flagged(gs, k)
  <2>1. n \in DOMAIN gs
    BY <1>1
  <2> QED
    BY <2>1, <1>2, <1>5 DEF Flagged
<1>6. ASSUME ~(f.key = k /\ f.op \in {"untombstone", "remove"}), Flagged(fs, k)
      PROVE  Flagged(gs, k)
  <2>1. PICK i \in DOMAIN fs : Flags(fs, i, k)
    BY <1>6 DEF Flagged
  <2>2. i \in DOMAIN gs
    BY <2>1, <1>1
  <2> QED
    BY <2>1, <2>2, <1>3, <1>6 DEF Flagged
<1> QED
  BY <1>4, <1>5, <1>6

(* What the frame of an operation makes of the content served.              *)
LEMMA AppendReplays ==
  ASSUME NEW fs \in Seq(Frame), NEW recs \in [Keys -> Vals \cup {NoVal}],
         NEW flags \in SUBSET Keys, Replays(fs, recs, flags), NEW k \in Keys
  PROVE  /\ \A v \in Vals :
              Replays(Append(fs, UpsertFrame(k, v)), [recs EXCEPT ![k] = v], flags)
         /\ Replays(Append(fs, RemoveFrame(k)), [recs EXCEPT ![k] = NoVal], flags \ {k})
         /\ Replays(Append(fs, TombstoneFrame(k)), recs, flags \cup {k})
         /\ Replays(Append(fs, UntombstoneFrame(k)), recs, flags \ {k})
<1>1. /\ \A v \in Vals : UpsertFrame(k, v) \in Frame
      /\ RemoveFrame(k) \in Frame /\ TombstoneFrame(k) \in Frame
      /\ UntombstoneFrame(k) \in Frame
  BY DEF Frame, UpsertFrame, RemoveFrame, TombstoneFrame, UntombstoneFrame
<1>2. ASSUME NEW v \in Vals
      PROVE  Replays(Append(fs, UpsertFrame(k, v)), [recs EXCEPT ![k] = v], flags)
  <2>1. \A x \in Keys, w \in Vals :
          [recs EXCEPT ![k] = v][x] = w <=> Holds(Append(fs, UpsertFrame(k, v)), x, w)
    BY <1>1, AppendHolds DEF Replays, UpsertFrame
  <2>2. \A x \in Keys : x \in flags <=> Flagged(Append(fs, UpsertFrame(k, v)), x)
    BY <1>1, AppendFlagged DEF Replays, UpsertFrame, TombstoneFrame
  <2> QED
    BY <2>1, <2>2 DEF Replays
<1>3. Replays(Append(fs, RemoveFrame(k)), [recs EXCEPT ![k] = NoVal], flags \ {k})
  <2>1. \A x \in Keys, w \in Vals :
          [recs EXCEPT ![k] = NoVal][x] = w <=> Holds(Append(fs, RemoveFrame(k)), x, w)
    BY <1>1, AppendHolds, ConstantsAssumption DEF Replays, UpsertFrame, RemoveFrame
  <2>2. \A x \in Keys : x \in flags \ {k} <=> Flagged(Append(fs, RemoveFrame(k)), x)
    BY <1>1, AppendFlagged DEF Replays, RemoveFrame, TombstoneFrame
  <2> QED
    BY <2>1, <2>2 DEF Replays
<1>4. Replays(Append(fs, TombstoneFrame(k)), recs, flags \cup {k})
  <2>1. \A x \in Keys, w \in Vals : recs[x] = w <=> Holds(Append(fs, TombstoneFrame(k)), x, w)
    BY <1>1, AppendHolds DEF Replays, TombstoneFrame
  <2>2. \A x \in Keys : x \in flags \cup {k} <=> Flagged(Append(fs, TombstoneFrame(k)), x)
    BY <1>1, AppendFlagged DEF Replays, TombstoneFrame
  <2> QED
    BY <2>1, <2>2 DEF Replays
<1>5. Replays(Append(fs, UntombstoneFrame(k)), recs, flags \ {k})
  <2>1. \A x \in Keys, w \in Vals : recs[x] = w <=> Holds(Append(fs, UntombstoneFrame(k)), x, w)
    BY <1>1, AppendHolds DEF Replays, UntombstoneFrame
  <2>2. \A x \in Keys : x \in flags \ {k} <=> Flagged(Append(fs, UntombstoneFrame(k)), x)
    BY <1>1, AppendFlagged DEF Replays, TombstoneFrame, UntombstoneFrame
  <2> QED
    BY <2>1, <2>2 DEF Replays
<1> QED
  BY <1>2, <1>3, <1>4, <1>5

(* SetToSeq lists a finite set.                                             *)
LEMMA SetToSeqType ==
  ASSUME NEW S, IsFiniteSet(S)
  PROVE  SetToSeq(S) \in Seq(S)
<1>1. Cardinality(S) \in Nat /\ ExistsBijection(1 .. Cardinality(S), S)
  BY FS_CardinalityType
<1>2. \E f \in [1 .. Cardinality(S) -> S] : IsInjective(f)
  BY <1>1 DEF ExistsBijection, Bijection, Injection, IsInjective
<1>3. SetToSeq(S) \in [1 .. Cardinality(S) -> S]
  BY <1>2 DEF SetToSeq
<1> QED
  BY <1>1, <1>3

(* A rewrite's image is a v2 file of well-formed frames.                    *)
LEMMA ImageType ==
  ASSUME NEW recs \in [Keys -> Vals \cup {NoVal}], NEW flags \in SUBSET Keys
  PROVE  /\ Image(recs, flags) \in File
         /\ Image(recs, flags).hdr = "v2"
         /\ Image(recs, flags).frames \in Seq(Frame)
         /\ Image(recs, flags).tail = Clean
<1> DEFINE U == {UpsertFrame(k, recs[k]) : k \in Live(recs)}
           T == {TombstoneFrame(k) : k \in flags}
<1>1. IsFiniteSet(Live(recs)) /\ IsFiniteSet(flags)
  BY FS_Subset, ConstantsAssumption DEF Live
<1>2. IsFiniteSet(U)
  <2>1. [k \in Live(recs) |-> UpsertFrame(k, recs[k])] \in Surjection(Live(recs), U)
    BY DEF Surjection
  <2> QED
    BY <1>1, <2>1, FS_Surjection
<1>3. IsFiniteSet(T)
  <2>1. [k \in flags |-> TombstoneFrame(k)] \in Surjection(flags, T)
    BY DEF Surjection
  <2> QED
    BY <1>1, <2>1, FS_Surjection
<1>4. U \subseteq Frame /\ T \subseteq Frame
  BY DEF Live, UpsertFrame, TombstoneFrame, Frame
<1>5. SetToSeq(U) \in Seq(Frame) /\ SetToSeq(T) \in Seq(Frame)
  <2>1. SetToSeq(U) \in Seq(U) /\ SetToSeq(T) \in Seq(T)
    BY <1>2, <1>3, SetToSeqType
  <2> QED
    BY <2>1, <1>4
<1>6. SetToSeq(U) \o SetToSeq(T) \in Seq(Frame)
  BY <1>5
<1>7. Image(recs, flags) = V2(SetToSeq(U) \o SetToSeq(T), Clean)
  BY DEF Image
<1>8. Clean \in Rest
  BY DEF Clean, Bare, Rest
<1> HIDE DEF U, T
<1> QED
  BY <1>6, <1>7, <1>8 DEF V2, File

-----------------------------------------------------------------------------

(* What `end` says of the file: the frames before it are there.             *)
EndInFile ==
  up /\ ~held /\ end > 0 /\ DiskLen(file) >= end
    => file.hdr = "v2" /\ Len(file.frames) >= end - 1

IInv == TypeOK /\ EndInFile /\ OwnsItsTail /\ MemoryIsReplay

(* Cutting a file at its good end leaves a file of the same format, as long *)
(* as its good frames.                                                      *)
LEMMA KeptType ==
  ASSUME TypeOK, EndInFile, up, ~held, DiskLen(file) >= end
  PROVE  /\ Kept \in File
         /\ Kept.frames \in Seq(Frame)
         /\ Kept.tail = Clean
         /\ Len(Kept.frames) = IF end = 0 THEN 0 ELSE end - 1
<1>1. CASE end = 0
  BY <1>1 DEF Kept, Stub, Empty, File
<1>2. CASE end # 0
  <2>1. end \in Nat /\ end > 0 /\ file.hdr = "v2" /\ Len(file.frames) >= end - 1
    BY <1>2 DEF TypeOK, EndInFile
  <2>2. file.frames \in Seq(Frame)
    BY <2>1 DEF TypeOK, File, Empty, TornHeader
  <2>3. SubSeq(file.frames, 1, end - 1) \in Seq(Frame)
        /\ Len(SubSeq(file.frames, 1, end - 1)) = end - 1
    BY <2>1, <2>2
  <2>4. Kept = V2(SubSeq(file.frames, 1, end - 1), Clean)
    BY <1>2 DEF Kept, Stub
  <2>5. Clean \in Rest
    BY DEF Clean, Bare, Rest
  <2> QED
    BY <2>1, <2>3, <2>4, <2>5, <1>2 DEF V2, File
<1> QED
  BY <1>1, <1>2

(* A file of frames is of the type and as long as its frames and header.    *)
LEMMA V2Type ==
  ASSUME NEW fs \in Seq(Frame), NEW t \in Rest
  PROVE  /\ V2(fs, t) \in File
         /\ V2(fs, t).hdr = "v2" /\ V2(fs, t).frames = fs /\ V2(fs, t).tail = t
         /\ DiskLen(V2(fs, t)) \in Nat
         /\ DiskLen(V2(fs, t)) >= 1 + Len(fs)
         /\ t = Clean => DiskLen(V2(fs, t)) = 1 + Len(fs)
<1>1. V2(fs, t) \in File
  BY DEF V2, File
<1>2. t.behind \in Seq(Frame)
  BY DEF Rest
<1>3. Len(fs) \in Nat /\ Len(t.behind) \in Nat
  BY <1>2
<1>4. V2(fs, t).hdr = "v2" /\ V2(fs, t).frames = fs /\ V2(fs, t).tail = t
  BY DEF V2
<1>5. GoodEnd(V2(fs, t)) = 1 + Len(fs)
  BY <1>4 DEF GoodEnd
<1>6. TailLen(V2(fs, t)) = IF t.kind = "clean" THEN 0 ELSE 1 + Len(t.behind)
  BY <1>4 DEF TailLen
<1>7. Clean.kind = "clean"
  BY DEF Clean, Bare
<1>8. TailLen(V2(fs, t)) \in Nat /\ (t = Clean => TailLen(V2(fs, t)) = 0)
  BY <1>3, <1>6, <1>7
<1>9. DiskLen(V2(fs, t)) = 1 + Len(fs) + TailLen(V2(fs, t))
  BY <1>5 DEF DiskLen
<1>10. /\ DiskLen(V2(fs, t)) \in Nat
       /\ DiskLen(V2(fs, t)) >= 1 + Len(fs)
       /\ t = Clean => DiskLen(V2(fs, t)) = 1 + Len(fs)
  BY <1>3, <1>8, <1>9
<1> QED
  BY <1>1, <1>4, <1>10

(* The parts and the lengths of a file are of their types.                  *)
LEMMA LengthType ==
  ASSUME NEW f \in File
  PROVE  /\ f.frames \in Seq(Frame)
         /\ GoodEnd(f) \in Nat /\ TailLen(f) \in Nat /\ DiskLen(f) \in Nat
         /\ f.tail \in Rest
<1>1. f.frames \in Seq(Frame) /\ f.tail \in Rest
  <2>1. Clean \in Rest /\ << >> \in Seq(Frame)
    BY DEF Clean, Bare, Rest
  <2>2. CASE f = Empty
    BY <2>1, <2>2 DEF Empty
  <2>3. CASE f = TornHeader
    BY <2>1, <2>3 DEF TornHeader
  <2>4. CASE f \in [hdr : {"v1", "v2", "newer"}, frames : Seq(Frame), tail : Rest]
    BY <2>4
  <2> QED
    BY <2>2, <2>3, <2>4 DEF File
<1>2. f.tail.behind \in Seq(Frame)
  BY <1>1 DEF Rest
<1>3. Len(f.frames) \in Nat /\ Len(f.tail.behind) \in Nat
  BY <1>1, <1>2
<1>4. GoodEnd(f) \in Nat
  BY <1>3 DEF GoodEnd
<1>5. TailLen(f) \in Nat
  BY <1>3 DEF TailLen
<1> QED
  BY <1>1, <1>4, <1>5 DEF DiskLen

(* An instance that is down constrains nothing but types.                   *)
LEMMA DownKeepsIInv ==
  ASSUME IInv, Down, file' \in File, synced' \in Nat, prior' \in File \cup {NoFile},
         (asides \subseteq Rest)', UNCHANGED environment
  PROVE  IInv'
<1>1. TypeOK'
  BY DEF IInv, TypeOK, Down, NoRecords, environment
<1>2. ~up' /\ ~Sole'
  BY DEF Down, Sole
<1> QED
  BY <1>1, <1>2 DEF IInv, EndInFile, OwnsItsTail, MemoryIsReplay

(* A rewrite of an instance: the new file is all good frames, its end is    *)
(* the log's, and it replays to the new memory.                             *)
LEMMA RewriteKeepsIInv ==
  ASSUME TypeOK', NEW fs \in Seq(Frame),
         file' = V2(fs, Clean), end' = DiskLen(file'),
         Sole' => Replays(fs, records', tombstoned')
  PROVE  IInv'
<1>1. Clean \in Rest
  BY DEF Clean, Bare, Rest
<1>2. Len(fs) \in Nat /\ DiskLen(file') = 1 + Len(fs) /\ file'.hdr = "v2" /\ file'.frames = fs
  BY <1>1, V2Type
<1>3. EndInFile' /\ OwnsItsTail'
  BY <1>2 DEF EndInFile, OwnsItsTail
<1>4. SubSeq(fs, 1, Len(fs)) = fs
  OBVIOUS
<1>5. Written' = fs
  BY <1>2, <1>4 DEF Written, Kept, Stub, V2
<1>6. MemoryIsReplay'
  BY <1>5 DEF MemoryIsReplay
<1> QED
  BY <1>3, <1>6 DEF IInv

(* A frame written whole: the file replays to the maps the caller leaves.   *)
LEMMA AppendOkKeepsIInv ==
  ASSUME IInv, NEW f \in Frame, AppendOk(f),
         records' \in [Keys -> Vals \cup {NoVal}], (tombstoned \subseteq Keys)',
         removed' \in BOOLEAN,
         Sole => Replays(Append(Written, f), records', tombstoned')
  PROVE  IInv'
<1>1. Kept.frames \in Seq(Frame)
  BY KeptType DEF IInv, AppendOk, Writable
<1>2. Append(Kept.frames, f) \in Seq(Frame)
  BY <1>1
<1>3. Clean \in Rest
  BY DEF Clean, Bare, Rest
<1>4. file' \in File /\ DiskLen(file') \in Nat
  BY <1>2, <1>3, V2Type DEF AppendOk
<1>5. TypeOK'
  BY <1>4 DEF AppendOk, TypeOK, IInv, environment
<1> QED
  BY <1>2, <1>5, RewriteKeepsIInv DEF AppendOk, Written, Sole, Writable, environment

(* A write that stops half-way leaves the frames before `end` in place and  *)
(* never a shorter file.                                                    *)
LEMMA HalfWrittenShape ==
  ASSUME IInv, NEW f \in Frame, Writable, NEW g \in HalfWritten(f)
  PROVE  /\ g \in File
         /\ DiskLen(g) >= end
         /\ end > 0 => /\ g.hdr = "v2" /\ Len(g.frames) >= end - 1
                       /\ SubSeq(g.frames, 1, end - 1) = Kept.frames
<1> DEFINE fs == Kept.frames
<1>1. /\ fs \in Seq(Frame) /\ Kept \in File /\ end \in Nat
      /\ Len(fs) = IF end = 0 THEN 0 ELSE end - 1
  BY KeptType DEF IInv, Writable, TypeOK
<1>2. Clean \in Rest /\ Bare("short") \in Rest /\ Bare("part") \in Rest
  BY DEF Clean, Bare, Rest
<1>3. Append(fs, f) \in Seq(Frame) /\ Len(Append(fs, f)) = Len(fs) + 1
  BY <1>1
<1>4. SubSeq(fs, 1, Len(fs)) = fs /\ SubSeq(Append(fs, f), 1, Len(fs)) = fs
  BY <1>1
<1>5. ASSUME NEW hs \in {fs, Append(fs, f)}, NEW t \in Rest, g = V2(hs, t)
      PROVE  /\ g \in File /\ DiskLen(g) >= end
             /\ end > 0 => g.hdr = "v2" /\ Len(g.frames) >= end - 1
                            /\ SubSeq(g.frames, 1, end - 1) = fs
  <2>1. hs \in Seq(Frame) /\ Len(hs) >= Len(fs) /\ Len(hs) \in Nat /\ Len(fs) \in Nat
    BY <1>1, <1>3
  <2>2. /\ g \in File /\ g.hdr = "v2" /\ g.frames = hs
        /\ DiskLen(g) \in Nat /\ DiskLen(g) >= 1 + Len(hs)
    BY <1>5, <2>1, V2Type
  <2>3. SubSeq(hs, 1, Len(fs)) = fs
    BY <1>4
  <2> QED
    BY <1>1, <2>1, <2>2, <2>3
<1>6. CASE end = 0 /\ g \in {Kept, TornHeader}
  <2>1. g \in File /\ DiskLen(g) \in Nat
    BY <1>1, <1>6, LengthType DEF File
  <2> QED
    BY <1>6, <2>1
<1>7. CASE end # 0 /\ g = Kept
  <2>1. g = V2(fs, Clean)
    BY <1>7 DEF Kept, Stub, V2
  <2> QED
    BY <2>1, <1>2, <1>5
<1>8. CASE g \in {V2(fs, Clean), V2(fs, Bare("short")), V2(fs, Bare("part")),
                 V2(Append(fs, f), Clean)}
  BY <1>8, <1>2, <1>5
<1> QED
  BY <1>6, <1>7, <1>8 DEF HalfWritten

(* A write that fails leaves what was written as it was.                    *)
LEMMA FailedLeavesWritten ==
  ASSUME IInv, NEW f \in Frame, AppendFailed(f)
  PROVE  Written' = Written
<1>1. end' = end /\ end \in Nat
  BY DEF AppendFailed, IInv, TypeOK
<1>2. CASE end = 0
  BY <1>1, <1>2 DEF Written, Kept, Stub
<1>3. CASE end # 0
  <2>1. SubSeq(file'.frames, 1, end - 1) = Kept.frames
    BY <1>1, <1>3, HalfWrittenShape DEF AppendFailed
  <2> QED
    BY <1>1, <1>3, <2>1 DEF Written, Kept, Stub, V2
<1> QED
  BY <1>2, <1>3

(* A write that fails or dies half-way changes nothing before `end`, and a  *)
(* log that lives on owns what it left.                                     *)
LEMMA InterruptedKeepsIInv ==
  ASSUME IInv, NEW f \in Frame, Interrupted(f)
  PROVE  IInv'
<1>1. synced \in Nat /\ end \in Nat /\ Minimum(synced, end) \in Nat
  BY DEF IInv, TypeOK, Minimum
<1>2. CASE AppendFailed(f)
  <2>1. /\ file' \in File /\ DiskLen(file') >= end
        /\ end > 0 => /\ file'.hdr = "v2" /\ Len(file'.frames) >= end - 1
                      /\ SubSeq(file'.frames, 1, end - 1) = Kept.frames
    BY <1>2, HalfWrittenShape DEF AppendFailed
  <2>2. TypeOK'
    BY <1>1, <1>2, <2>1 DEF AppendFailed, TypeOK, IInv, environment
  <2>3. EndInFile' /\ OwnsItsTail'
    BY <1>2, <2>1 DEF AppendFailed, EndInFile, OwnsItsTail
  <2>4. Written' = Written
    BY <1>2, FailedLeavesWritten
  <2>5. MemoryIsReplay'
    BY <1>2, <2>4 DEF AppendFailed, MemoryIsReplay, IInv, Sole, environment
  <2> QED
    BY <2>2, <2>3, <2>5 DEF IInv
<1>3. CASE AppendDies(f)
  <2>1. file' \in File
    BY <1>3, HalfWrittenShape DEF AppendDies
  <2> QED
    BY <1>1, <1>3, <2>1, DownKeepsIInv DEF AppendDies, IInv, TypeOK
<1> QED
  BY <1>2, <1>3 DEF Interrupted

(* One more frame that the code appends replays to the memory it leaves.    *)
LEMMA OperationsKeepIInv ==
  ASSUME IInv, NEW k \in Keys
  PROVE  /\ \A v \in Vals : UpsertRecord(k, v) => IInv'
         /\ RemoveRecord(k) => IInv'
         /\ TombstoneRecord(k) => IInv'
         /\ UntombstoneRecord(k) => IInv'
<1>1. /\ \A v \in Vals : UpsertFrame(k, v) \in Frame
      /\ RemoveFrame(k) \in Frame /\ TombstoneFrame(k) \in Frame
      /\ UntombstoneFrame(k) \in Frame
  BY DEF Frame, UpsertFrame, RemoveFrame, TombstoneFrame, UntombstoneFrame
<1>2. records \in [Keys -> Vals \cup {NoVal}] /\ tombstoned \subseteq Keys /\ removed \in BOOLEAN
  BY DEF IInv, TypeOK
<1>3. ASSUME NEW f \in Frame, AppendOk(f), Sole
      PROVE  Written \in Seq(Frame) /\ Replays(Written, records, tombstoned)
  BY <1>3, KeptType DEF IInv, AppendOk, Writable, Written, MemoryIsReplay
<1>4. ASSUME NEW v \in Vals, UpsertRecord(k, v) PROVE IInv'
  <2> DEFINE f == UpsertFrame(k, v)
  <2>1. CASE AppendOk(f) /\ records' = [records EXCEPT ![k] = v] /\ UNCHANGED <<tombstoned, removed>>
    <3>1. Sole => Replays(Append(Written, f), records', tombstoned')
      BY <1>1, <1>2, <1>3, <2>1, AppendReplays
    <3>2. records' \in [Keys -> Vals \cup {NoVal}] /\ (tombstoned \subseteq Keys)' /\ removed' \in BOOLEAN
      BY <1>2, <2>1
    <3> QED
      BY <1>1, <2>1, <3>1, <3>2, AppendOkKeepsIInv
  <2>2. CASE Interrupted(f)
    BY <1>1, <2>2, InterruptedKeepsIInv
  <2> QED
    BY <1>4, <2>1, <2>2 DEF UpsertRecord
<1>5. ASSUME RemoveRecord(k) PROVE IInv'
  <2> DEFINE f == RemoveFrame(k)
  <2>1. CASE /\ AppendOk(f) /\ records' = [records EXCEPT ![k] = NoVal]
             /\ tombstoned' = tombstoned \ {k} /\ removed' = TRUE
    <3>1. Sole => Replays(Append(Written, f), records', tombstoned')
      BY <1>1, <1>2, <1>3, <2>1, AppendReplays
    <3>2. records' \in [Keys -> Vals \cup {NoVal}] /\ (tombstoned \subseteq Keys)' /\ removed' \in BOOLEAN
      BY <1>2, <2>1
    <3> QED
      BY <1>1, <2>1, <3>1, <3>2, AppendOkKeepsIInv
  <2>2. CASE Interrupted(f)
    BY <1>1, <2>2, InterruptedKeepsIInv
  <2> QED
    BY <1>5, <2>1, <2>2 DEF RemoveRecord
<1>6. ASSUME NEW f \in {TombstoneFrame(k), UntombstoneFrame(k)}, AppendOk(f),
             tombstoned' = IF f = TombstoneFrame(k) THEN tombstoned \cup {k} ELSE tombstoned \ {k},
             UNCHANGED <<records, removed>>
      PROVE  IInv'
  <2>1. f \in Frame
    BY <1>1
  <2>2. Sole => Replays(Append(Written, f), records', tombstoned')
    BY <1>2, <1>3, <1>6, <2>1, AppendReplays
  <2>3. records' \in [Keys -> Vals \cup {NoVal}] /\ (tombstoned \subseteq Keys)' /\ removed' \in BOOLEAN
    BY <1>2, <1>6
  <2> QED
    BY <1>6, <2>1, <2>2, <2>3, AppendOkKeepsIInv
<1>7. TombstoneFrame(k) # UntombstoneFrame(k)
  BY DEF TombstoneFrame, UntombstoneFrame
<1>8. TombstoneRecord(k) => IInv'
  BY <1>1, <1>6, InterruptedKeepsIInv DEF TombstoneRecord
<1>9. UntombstoneRecord(k) => IInv'
  BY <1>1, <1>6, <1>7, InterruptedKeepsIInv DEF UntombstoneRecord
<1> QED
  BY <1>4, <1>5, <1>8, <1>9

(* The durable replace leaves the new file, or remembers the old one.       *)
LEMMA AtomicWriteType ==
  ASSUME TypeOK, NEW f \in File, AtomicWrite(f)
  PROVE  file' \in File /\ synced' \in Nat /\ prior' \in File \cup {NoFile}
BY LengthType DEF AtomicWrite, TypeOK

(* Every way a load can end leaves a log whose written file is its memory.  *)
LEMMA LoadKeepsIInv ==
  ASSUME IInv, Load
  PROVE  IInv'
<1>1. /\ file \in File /\ file.frames \in Seq(Frame) /\ file.tail \in Rest
      /\ GoodEnd(file) \in Nat /\ DiskLen(file) \in Nat /\ TailLen(file) \in Nat
  BY LengthType DEF IInv, TypeOK
<1> DEFINE recs == RecordsOf(file.frames)
           flags == FlagsOf(file.frames)
<1>2. /\ recs \in [Keys -> Vals \cup {NoVal}] /\ flags \subseteq Keys
      /\ Replays(file.frames, recs, flags)
  BY <1>1, ReplaysItself
<1>3. CASE LoadRefused
  BY <1>3 DEF LoadRefused, vars, IInv, TypeOK, EndInFile, OwnsItsTail, MemoryIsReplay,
              Sole, Written, Kept, Replays
<1>4. CASE LoadUnverified
  <2>1. PICK fs \in Seq(Frame), n \in Nat : Opened(fs, n) /\ removed' = HasRemove(fs)
    <3>1. CASE Opened(file.frames, GoodEnd(file)) /\ removed' = HasRemove(file.frames)
      BY <1>1, <3>1
    <3>2. ASSUME NEW garbled \in Frame,
                 Opened(file.frames \o <<garbled>> \o file.tail.behind, DiskLen(file)),
                 removed' = HasRemove(file.frames \o <<garbled>> \o file.tail.behind)
          PROVE  \E fs \in Seq(Frame), n \in Nat : Opened(fs, n) /\ removed' = HasRemove(fs)
      <4>1. file.tail.behind \in Seq(Frame)
        BY <1>1 DEF Rest
      <4>2. file.frames \o <<garbled>> \o file.tail.behind \in Seq(Frame)
        BY <1>1, <4>1
      <4> QED
        BY <1>1, <3>2, <4>2
    <3> QED
      BY <1>4, <3>1, <3>2 DEF LoadUnverified
  <2>2. RecordsOf(fs) \in [Keys -> Vals \cup {NoVal}] /\ FlagsOf(fs) \subseteq Keys
    BY ReplaysItself
  <2>3. TypeOK' /\ held'
    BY <1>4, <2>1, <2>2 DEF LoadUnverified, Opened, TypeOK, IInv, disk, environment, HasRemove
  <2> QED
    BY <2>3 DEF IInv, EndInFile, OwnsItsTail, MemoryIsReplay, Sole
<1>5. CASE LoadEmpty
  <2>1. file = Empty /\ file.frames = << >> /\ DiskLen(file) = 0
    BY <1>1, <1>5 DEF LoadEmpty, File, Empty, TornHeader, DiskLen, GoodEnd, TailLen, Clean, Bare
  <2>2. TypeOK'
    BY <1>2, <1>5 DEF LoadEmpty, Opened, TypeOK, IInv, disk, environment
  <2>3. EndInFile' /\ OwnsItsTail'
    BY <1>5, <2>1 DEF LoadEmpty, Opened, EndInFile, OwnsItsTail, disk
  <2>4. Written' = << >>
    BY <1>5 DEF LoadEmpty, Opened, Written, Kept, Stub, Empty
  <2>5. MemoryIsReplay'
    BY <1>2, <1>5, <2>1, <2>4 DEF LoadEmpty, Opened, MemoryIsReplay
  <2> QED
    BY <2>2, <2>3, <2>5 DEF IInv
<1>6. CASE LoadAsideFailed
  <2>1. TypeOK' /\ held'
    BY <1>1, <1>2, <1>6 DEF LoadAsideFailed, Opened, TypeOK, IInv, disk, environment, HasRemove
  <2> QED
    BY <2>1 DEF IInv, EndInFile, OwnsItsTail, MemoryIsReplay, Sole
<1>7. ASSUME file.hdr \in {"v2", "torn"}, UNCHANGED disk, Opened(file.frames, GoodEnd(file)),
             cutOwed' = (Classify(file) # "Clean"), TypeOK'
      PROVE  IInv'
  <2>1. OwnsItsTail'
    <3>1. cutOwed' = (TailLen(file) # 0)
      BY <1>7 DEF Classify
    <3>2. DiskLen(file') = end' + TailLen(file) /\ end' \in Nat
      BY <1>1, <1>7 DEF Opened, disk, DiskLen
    <3>3. DiskLen(file') >= end' /\ (DiskLen(file') > end' => TailLen(file) # 0)
      BY <1>1, <3>2
    <3> QED
      BY <3>1, <3>3 DEF OwnsItsTail
  <2>2. CASE file.hdr = "v2"
    <3>1. end' = 1 + Len(file.frames) /\ file' = file /\ Len(file.frames) \in Nat
      BY <1>1, <1>7, <2>2 DEF Opened, GoodEnd, disk
    <3>2. EndInFile'
      BY <2>2, <3>1 DEF EndInFile
    <3>3. SubSeq(file.frames, 1, Len(file.frames)) = file.frames
      BY <1>1
    <3>4. Written' = file.frames
      <4>1. end' # 0 /\ end' - 1 = Len(file.frames)
        BY <3>1
      <4> QED
        BY <3>1, <3>3, <4>1 DEF Written, Kept, Stub, V2
    <3>5. MemoryIsReplay'
      BY <1>2, <1>7, <3>4 DEF MemoryIsReplay, Opened
    <3> QED
      BY <1>7, <2>1, <3>2, <3>5 DEF IInv
  <2>3. CASE file.hdr = "torn"
    <3>1. file.frames = << >>
      BY <1>1, <2>3 DEF File, Empty, TornHeader
    <3>2. end' = 0
      BY <1>7, <2>3 DEF Opened, GoodEnd
    <3>3. EndInFile'
      BY <3>2 DEF EndInFile
    <3>4. Written' = << >>
      BY <3>2 DEF Written, Kept, Stub, Empty
    <3>5. MemoryIsReplay'
      BY <1>2, <1>7, <3>1, <3>4 DEF MemoryIsReplay, Opened
    <3> QED
      BY <1>7, <2>1, <3>3, <3>5 DEF IInv
  <2> QED
    BY <1>7, <2>2, <2>3
<1>8. CASE LoadClean
  <2>1. TypeOK'
    BY <1>1, <1>2, <1>8 DEF LoadClean, Opened, TypeOK, IInv, disk, environment, HasRemove
  <2> QED
    BY <1>7, <1>8, <2>1 DEF LoadClean, NeedsRewrite
<1>9. CASE LoadRewritten
  <2> DEFINE image == Image(recs, flags)
  <2>1. image \in File /\ image.hdr = "v2" /\ image.frames \in Seq(Frame) /\ image.tail = Clean
    BY <1>2, ImageType
  <2>2. image = V2(image.frames, Clean)
    BY DEF Image, V2
  <2>3. file' = image /\ end' = DiskLen(file') /\ Replays(image.frames, records', tombstoned')
    BY <1>9 DEF LoadRewritten, AtomicWrite, Opened
  <2>4. (asides \subseteq Rest)'
    BY <1>1, <1>9 DEF LoadRewritten, SetAside, IInv, TypeOK
  <2>5. file' \in File /\ synced' \in Nat /\ prior' \in File \cup {NoFile}
    BY <1>9, <2>1, AtomicWriteType DEF LoadRewritten, IInv
  <2>6. TypeOK'
    <3>1. end' \in Nat
      BY <2>3, <2>5, LengthType
    <3> QED
      BY <1>2, <1>9, <2>4, <2>5, <3>1 DEF LoadRewritten, Opened, TypeOK, IInv, environment
  <2> HIDE DEF image
  <2> QED
    BY <2>1, <2>2, <2>3, <2>6, RewriteKeepsIInv
<1>10. CASE LoadRewriteFailed
  <2>1. (asides \subseteq Rest)'
    BY <1>1, <1>10 DEF LoadRewriteFailed, SetAside, IInv, TypeOK
  <2>2. TypeOK'
    BY <1>1, <1>2, <1>10, <2>1
    DEF LoadRewriteFailed, Opened, TypeOK, IInv, disk, environment, HasRemove
  <2>3. CASE file.hdr = "v1"
    <3>1. held'
      BY <1>10, <2>3 DEF LoadRewriteFailed
    <3> QED
      BY <2>2, <3>1 DEF IInv, EndInFile, OwnsItsTail, MemoryIsReplay, Sole
  <2>4. CASE file.hdr # "v1"
    <3>1. file.hdr \in {"v2", "torn"}
      BY <1>1, <1>10, <2>4 DEF LoadRewriteFailed, File, Empty, TornHeader
    <3> QED
      BY <1>7, <1>10, <2>2, <3>1 DEF LoadRewriteFailed
  <2> QED
    BY <2>3, <2>4
<1> QED
  BY <1>3, <1>4, <1>5, <1>6, <1>8, <1>9, <1>10 DEF Load

(* What a power loss leaves, and what storage damage leaves, are files.     *)
LEMMA StubType ==
  ASSUME NEW f \in File, NEW n \in Nat, n <= GoodEnd(f)
  PROVE  Stub(f, n) \in File /\ Stub(f, n).frames \in Seq(Frame)
<1>1. CASE n = 0
  BY <1>1 DEF Stub, File, Empty
<1>2. CASE n # 0
  <2>1. f.frames \in Seq(Frame) /\ Len(f.frames) \in Nat /\ n - 1 <= Len(f.frames) /\ n - 1 \in Nat
    BY <1>2, LengthType DEF GoodEnd
  <2>2. SubSeq(f.frames, 1, n - 1) \in Seq(Frame)
    BY <2>1
  <2>3. Clean \in Rest
    BY DEF Clean, Bare, Rest
  <2>4. Stub(f, n) = V2(SubSeq(f.frames, 1, n - 1), Clean)
    BY <1>2 DEF Stub
  <2> QED
    BY <2>2, <2>3, <2>4, V2Type
<1> QED
  BY <1>1, <1>2

(* What a power loss may leave of a file is a file.                         *)
LEMMA SurvivorsType ==
  ASSUME TypeOK
  PROVE  Survivors \subseteq File
<1>1. file \in File /\ DiskLen(file) \in Nat /\ GoodEnd(file) \in Nat /\ synced \in Nat
  BY LengthType DEF TypeOK
<1>2. ASSUME NEW n \in Losable
      PROVE  {Stub(file, n),
              IF n = 0 THEN TornHeader ELSE V2(Stub(file, n).frames, Bare("part")),
              IF n = 0 THEN Zeros ELSE V2(Stub(file, n).frames, Bare("zeros"))} \subseteq File
  <2>1. n \in Nat /\ n <= GoodEnd(file)
    BY <1>1 DEF Losable
  <2>2. Stub(file, n) \in File /\ Stub(file, n).frames \in Seq(Frame)
    BY <1>1, <2>1, StubType
  <2>3. Bare("part") \in Rest /\ Bare("zeros") \in Rest
    BY DEF Bare, Rest
  <2>4. /\ V2(Stub(file, n).frames, Bare("part")) \in File
        /\ V2(Stub(file, n).frames, Bare("zeros")) \in File
    BY <2>2, <2>3, V2Type
  <2>5. TornHeader \in File /\ Zeros \in File
    BY <2>3 DEF File, Zeros
  <2> QED
    BY <2>2, <2>4, <2>5
<1> QED
  BY <1>1, <1>2 DEF Survivors

(* What storage damage may make of a file is a file.                        *)
LEMMA DamagedType ==
  ASSUME NEW f \in File
  PROVE  Damaged(f) \subseteq File
<1>1. f.frames \in Seq(Frame) /\ f.tail \in Rest /\ f.tail.behind \in Seq(Frame)
  BY LengthType DEF Rest
<1>2. ASSUME NEW i \in DOMAIN f.frames, NEW kind \in {"part", "rot"}
      PROVE  V2(SubSeq(f.frames, 1, i - 1),
                [kind |-> kind,
                 behind |-> SubSeq(f.frames, i + 1, Len(f.frames)) \o f.tail.behind]) \in File
  <2>1. i \in 1 .. Len(f.frames) /\ Len(f.frames) \in Nat
    BY <1>1
  <2>2. /\ SubSeq(f.frames, 1, i - 1) \in Seq(Frame)
        /\ SubSeq(f.frames, i + 1, Len(f.frames)) \in Seq(Frame)
    BY <1>1, <2>1
  <2>3. SubSeq(f.frames, i + 1, Len(f.frames)) \o f.tail.behind \in Seq(Frame)
    BY <1>1, <2>2
  <2>4. [kind |-> kind,
         behind |-> SubSeq(f.frames, i + 1, Len(f.frames)) \o f.tail.behind] \in Rest
    BY <2>3 DEF Rest
  <2> QED
    BY <2>2, <2>4, V2Type
<1>3. [hdr |-> "v1", frames |-> << >>,
       tail |-> [kind |-> "rot", behind |-> f.frames \o f.tail.behind]] \in File
  <2>1. f.frames \o f.tail.behind \in Seq(Frame) /\ << >> \in Seq(Frame)
    BY <1>1
  <2> QED
    BY <2>1 DEF File, Rest
<1> QED
  BY <1>2, <1>3 DEF Damaged

-----------------------------------------------------------------------------

(* The first launch finds a well-formed file and no log open.               *)
LEMMA InitIInv == Init => IInv
<1> SUFFICES ASSUME Init PROVE IInv
  OBVIOUS
<1>1. file \in File /\ synced \in Nat
  BY ConstantsAssumption, LengthType DEF Init
<1>2. TypeOK
  BY <1>1 DEF Init, TypeOK, NoRecords
<1> QED
  BY <1>2 DEF Init, IInv, EndInFile, OwnsItsTail, MemoryIsReplay, Sole

(* Every step, of the log or of its environment, keeps the invariant.       *)
LEMMA NextIInv == IInv /\ [Next]_vars => IInv'
<1> SUFFICES ASSUME IInv, [Next]_vars PROVE IInv'
  OBVIOUS
<1>0. TypeOK
  BY DEF IInv
<1>1. ASSUME UNCHANGED vars PROVE IInv'
  BY <1>1 DEF vars, IInv, TypeOK, EndInFile, OwnsItsTail, MemoryIsReplay, Sole, Written, Kept,
              Replays
<1>2. CASE Load
  BY <1>2, LoadKeepsIInv
<1>3. ASSUME NEW k \in Keys,
             \/ \E v \in Vals : UpsertRecord(k, v)
             \/ RemoveRecord(k) \/ TombstoneRecord(k) \/ UntombstoneRecord(k)
      PROVE  IInv'
  BY <1>3, OperationsKeepIInv
<1>4. CASE AppendRefused
  BY <1>1, <1>4 DEF AppendRefused
<1>5. CASE Wipe
  <2>1. Empty \in File /\ DiskLen(Empty) = 0
    BY DEF File, Empty, DiskLen, GoodEnd, TailLen, Clean, Bare
  <2>2. file' \in File /\ synced' \in Nat /\ prior' \in File \cup {NoFile}
    BY <1>0, <1>5, <2>1, AtomicWriteType DEF Wipe
  <2>3. TypeOK'
    BY <1>0, <1>5, <2>2 DEF Wipe, TypeOK, NoRecords, environment
  <2>4. EndInFile' /\ OwnsItsTail'
    BY <1>5, <2>1 DEF Wipe, AtomicWrite, EndInFile, OwnsItsTail
  <2>5. Written' = << >>
    BY <1>5 DEF Wipe, Written, Kept, Stub, Empty
  <2>6. MemoryIsReplay'
    BY <1>5, <2>5, NothingReplays DEF Wipe, MemoryIsReplay
  <2> QED
    BY <2>3, <2>4, <2>6 DEF IInv
<1>6. CASE Compact
  <2> DEFINE image == Image(records, tombstoned)
  <2>1. image \in File /\ image.frames \in Seq(Frame)
    BY <1>0, ImageType DEF TypeOK
  <2>2. image = V2(image.frames, Clean)
    BY DEF Image, V2
  <2>3. file' = image /\ end' = DiskLen(file') /\ Replays(image.frames, records', tombstoned')
    BY <1>6 DEF Compact, AtomicWrite
  <2>4. file' \in File /\ synced' \in Nat /\ prior' \in File \cup {NoFile}
    BY <1>0, <1>6, <2>1, AtomicWriteType DEF Compact
  <2>5. end' \in Nat
    BY <2>3, <2>4, LengthType
  <2>6. TypeOK'
    BY <1>0, <1>6, <2>4, <2>5 DEF Compact, TypeOK, environment
  <2> HIDE DEF image
  <2> QED
    BY <2>1, <2>2, <2>3, <2>6, RewriteKeepsIInv
<1>7. CASE RemoveAsides
  <2>1. TypeOK'
    BY <1>0, <1>7 DEF RemoveAsides, TypeOK, disk, memory
  <2> QED
    BY <1>7, <2>1 DEF RemoveAsides, disk, memory, IInv, EndInFile, OwnsItsTail, MemoryIsReplay,
                      Sole, Written, Kept, Replays
<1>8. CASE ProcessDies
  BY <1>0, <1>8, DownKeepsIInv DEF ProcessDies, TypeOK, disk
<1>9. CASE PowerLoss
  <2>1. file' \in File
    BY <1>0, <1>9, SurvivorsType DEF PowerLoss, TypeOK
  <2>2. synced' \in Nat
    BY <1>9, <2>1, LengthType DEF PowerLoss
  <2> QED
    BY <1>0, <1>9, <2>1, <2>2, DownKeepsIInv DEF PowerLoss, TypeOK
<1>10. CASE Rot
  <2>1. file' \in File
    BY <1>0, <1>10, DamagedType DEF Rot, TypeOK
  <2>2. synced' \in Nat
    BY <1>10, <2>1, LengthType DEF Rot
  <2>3. TypeOK' /\ ~up' /\ ~Sole'
    BY <1>0, <1>10, <2>1, <2>2 DEF Rot, TypeOK, memory, Sole
  <2> QED
    BY <2>3 DEF IInv, EndInFile, OwnsItsTail, MemoryIsReplay
<1>11. CASE Outside
  <2>0. file \in File /\ file.frames \in Seq(Frame) /\ Clean \in Rest
    BY <1>0, LengthType DEF TypeOK, Clean, Bare, Rest
  <2>1. CASE file' = Empty
    <3>1. Empty \in File /\ DiskLen(Empty) = 0
      BY DEF File, Empty, DiskLen, GoodEnd, TailLen, Clean, Bare
    <3>2. TypeOK' /\ ~Sole'
      BY <1>0, <1>11, <2>1, <3>1 DEF Outside, TypeOK, memory, Sole
    <3>3. EndInFile'
      BY <1>0, <1>11, <2>1, <3>1 DEF Outside, TypeOK, memory, EndInFile
    <3> QED
      BY <3>2, <3>3 DEF IInv, OwnsItsTail, MemoryIsReplay
  <2>2. ASSUME NEW f \in Frame, file' = V2(Append(file.frames, f), Clean)
        PROVE  IInv'
    <3> DEFINE gs == Append(file.frames, f)
    <3>1. gs \in Seq(Frame) /\ Len(gs) \in Nat
      BY <2>0
    <3> HIDE DEF gs
    <3>2. /\ file' \in File /\ DiskLen(file') \in Nat /\ file'.hdr = "v2"
          /\ DiskLen(file') = 1 + Len(file'.frames) /\ Len(file'.frames) \in Nat
      <4>1. file' = V2(gs, Clean)
        BY <2>2 DEF gs
      <4> QED
        BY <2>0, <3>1, <4>1, V2Type
    <3>3. TypeOK' /\ ~Sole'
      BY <1>0, <1>11, <3>2 DEF Outside, TypeOK, memory, Sole
    <3>4. EndInFile'
      BY <3>2, <3>3 DEF EndInFile, TypeOK
    <3> QED
      BY <3>3, <3>4 DEF IInv, OwnsItsTail, MemoryIsReplay
  <2> QED
    BY <1>11, <2>1, <2>2 DEF Outside
<1> QED
  BY <1>1, <1>2, <1>3, <1>4, <1>5, <1>6, <1>7, <1>8, <1>9, <1>10, <1>11 DEF Next

(* The inductive invariant holds in every reachable state, for every set of *)
(* keys and values and every file found at the first launch.                *)
THEOREM LogInvariant == Spec => []IInv
BY InitIInv, NextIInv, PTL DEF Spec

(* Every variable keeps its type.                                           *)
THEOREM TypeCorrect == Spec => []TypeOK
<1>1. IInv => TypeOK
  BY DEF IInv
<1> QED
  BY <1>1, LogInvariant, PTL

(* The written file is the durable replay of the maps in memory: no failed  *)
(* write, death, cut, migration or compaction makes the two disagree.       *)
THEOREM MemoryIsTheReplay == Spec => []MemoryIsReplay
<1>1. IInv => MemoryIsReplay
  BY DEF IInv
<1> QED
  BY <1>1, LogInvariant, PTL

(* A sole writer always owns what is past its end.                          *)
THEOREM TailIsOwned == Spec => []OwnsItsTail
<1>1. IInv => OwnsItsTail
  BY DEF IInv
<1> QED
  BY <1>1, LogInvariant, PTL

-----------------------------------------------------------------------------
(* What the file keeps for others                                           *)

(* Bytes something else appended are never cut by a log that owes no cut:   *)
(* no handler but Wipe writes past a file longer than it left it.           *)
THEOREM ForeignBytesAreKept == Spec => OutsideKept
<1>1. TypeOK /\ [Next]_vars =>
        [(up /\ ~cutOwed /\ DiskLen(file) > end /\ outside' = outside /\ ~Wipe /\ ~PowerLoss)
           => file' = file]_vars
  <2> SUFFICES ASSUME TypeOK, Next, up, ~cutOwed, DiskLen(file) > end, outside' = outside,
                      ~Wipe, ~PowerLoss
               PROVE  file' = file
    BY DEF vars
  <2>1. ~Load
    BY DEF Load, LoadRefused, LoadUnverified, LoadEmpty, LoadAsideFailed, LoadClean,
           LoadRewritten, LoadRewriteFailed
  <2>2. ~Writable
    BY DEF Writable
  <2>3. \A f : ~AppendOk(f) /\ ~Interrupted(f)
    BY <2>2 DEF AppendOk, Interrupted, AppendFailed, AppendDies
  <2>4. \A k \in Keys : /\ \A v \in Vals : ~UpsertRecord(k, v)
                        /\ ~RemoveRecord(k) /\ ~TombstoneRecord(k) /\ ~UntombstoneRecord(k)
    BY <2>3 DEF UpsertRecord, RemoveRecord, TombstoneRecord, UntombstoneRecord
  <2>5. ~Compact /\ ~Rot
    BY DEF Compact, Rot
  <2>6. ~Outside
    <3>1. outside + 1 # outside
      BY DEF TypeOK
    <3> QED
      BY <3>1 DEF Outside
  <2>7. AppendRefused \/ RemoveAsides \/ ProcessDies
    BY <2>1, <2>4, <2>5, <2>6 DEF Next
  <2> QED
    BY <2>7 DEF AppendRefused, RemoveAsides, ProcessDies, vars, disk
<1> QED
  BY <1>1, TypeCorrect, PTL DEF Spec, OutsideKept

(* A writable log over frames that do not read has them copied aside, or    *)
(* the user erased the copies since.                                        *)
TailIsAside ==
  up /\ ~held /\ Classify(file) = "Unreadable" => file.tail \in asides \/ erased

(* The files a log writes hold nothing unreadable: whole frames, and at     *)
(* most part of one.                                                        *)
LEMMA WrittenReads ==
  /\ Classify(Empty) # "Unreadable" /\ Classify(TornHeader) # "Unreadable"
  /\ \A fs, kind : kind \in {"clean", "short", "part"} =>
       Classify(V2(fs, Bare(kind))) # "Unreadable"
BY DEF Classify, TailLen, Empty, TornHeader, V2, Clean, Bare

(* Nor does what a write that stopped half-way leaves.                      *)
LEMMA HalfWrittenReads ==
  ASSUME NEW f, NEW g \in HalfWritten(f)
  PROVE  Classify(g) # "Unreadable"
<1>1. Kept = Empty \/ \E fs : Kept = V2(fs, Clean)
  BY DEF Kept, Stub
<1> QED
  BY <1>1, WrittenReads DEF HalfWritten, Clean

(* A write, whole or not, is of a log that is up and leaves a file that     *)
(* reads.                                                                   *)
LEMMA WritesRead ==
  ASSUME NEW f, AppendOk(f) \/ Interrupted(f)
  PROVE  up /\ ~held /\ Classify(file') # "Unreadable"
         /\ UNCHANGED <<asides, erased>>
BY WrittenReads, HalfWrittenReads
DEF AppendOk, Interrupted, AppendFailed, AppendDies, Writable, environment, Clean

(* Every operation on a key is a write.                                     *)
LEMMA OperationsWrite ==
  ASSUME NEW k \in Keys,
         \/ \E v \in Vals : UpsertRecord(k, v)
         \/ RemoveRecord(k) \/ TombstoneRecord(k) \/ UntombstoneRecord(k)
  PROVE  \E f : AppendOk(f) \/ Interrupted(f)
BY DEF UpsertRecord, RemoveRecord, TombstoneRecord, UntombstoneRecord

(* Only a load makes a log writable over unreadable bytes, and it copies    *)
(* them first.                                                              *)
LEMMA TailIsAsideHolds ==
  ASSUME TypeOK, TailIsAside, [Next]_vars
  PROVE  TailIsAside'
<1>1. CASE UNCHANGED vars
  BY <1>1 DEF vars, TailIsAside, Classify, TailLen
<1>2. CASE Load
  <2>1. CASE LoadRefused
    BY <1>1, <2>1 DEF LoadRefused
  <2>2. CASE LoadUnverified \/ LoadAsideFailed
    BY <2>2 DEF LoadUnverified, LoadAsideFailed, TailIsAside
  <2>3. CASE LoadEmpty
    <3>1. file' = Empty
      BY <2>3 DEF LoadEmpty, TypeOK, File, TornHeader, disk
    <3> QED
      BY <3>1, WrittenReads DEF TailIsAside
  <2>4. CASE LoadClean
    BY <2>4 DEF LoadClean, NeedsRewrite, TailIsAside, Classify, TailLen, disk
  <2>5. CASE LoadRewritten
    <3>1. \E fs : file' = V2(fs, Bare("clean"))
      BY <2>5 DEF LoadRewritten, AtomicWrite, Image, Clean
    <3> QED
      BY <3>1, WrittenReads DEF TailIsAside
  <2>6. CASE LoadRewriteFailed
    BY <2>6 DEF LoadRewriteFailed, SetAside, TailIsAside, Classify, TailLen, disk
  <2> QED
    BY <1>2, <2>1, <2>2, <2>3, <2>4, <2>5, <2>6 DEF Load
<1>3. ASSUME NEW k \in Keys,
             \/ \E v \in Vals : UpsertRecord(k, v)
             \/ RemoveRecord(k) \/ TombstoneRecord(k) \/ UntombstoneRecord(k)
      PROVE  TailIsAside'
  BY <1>3, OperationsWrite, WritesRead DEF TailIsAside
<1>4. CASE AppendRefused
  BY <1>1, <1>4 DEF AppendRefused
<1>5. CASE Wipe
  BY <1>5, WrittenReads DEF Wipe, AtomicWrite, TailIsAside
<1>6. CASE Compact
  <2>1. \E fs : file' = V2(fs, Bare("clean"))
    BY <1>6 DEF Compact, AtomicWrite, Image, Clean
  <2> QED
    BY <2>1, WrittenReads DEF TailIsAside
<1>7. CASE RemoveAsides
  BY <1>7 DEF RemoveAsides, TailIsAside
<1>8. CASE ProcessDies \/ PowerLoss
  BY <1>8 DEF ProcessDies, PowerLoss, Down, TailIsAside
<1>9. CASE Rot
  BY <1>9 DEF Rot, TailIsAside
<1>10. CASE Outside
  <2>1. file' = Empty \/ \E fs : file' = V2(fs, Bare("clean"))
    BY <1>10 DEF Outside, Clean
  <2> QED
    BY <2>1, WrittenReads DEF TailIsAside
<1> QED
  BY <1>1, <1>2, <1>3, <1>4, <1>5, <1>6, <1>7, <1>8, <1>9, <1>10 DEF Next

(* Frames behind bytes that do not read leave the file only once they are   *)
(* copied aside, or by an erase the user asked for.                         *)
THEOREM NothingIsCutUnseen == Spec => NothingCutUnseen
<1>1. Init => TailIsAside
  BY DEF Init, TailIsAside
<1>2. TypeOK /\ TailIsAside /\ [Next]_vars => TailIsAside'
  BY TailIsAsideHolds
<1>3. TailIsAside /\ [Next]_vars =>
        [(file' # file /\ Classify(file) = "Unreadable" /\ ~Rot /\ ~Outside /\ ~PowerLoss)
           => (file.tail \in asides' \/ erased \/ Wipe)]_vars
  <2> SUFFICES ASSUME TailIsAside, Next, file' # file, Classify(file) = "Unreadable",
                      ~Rot, ~Outside, ~PowerLoss, ~Wipe
               PROVE  file.tail \in asides' \/ erased
    BY DEF vars
  <2>1. CASE Load
    <3>1. LoadRewritten
      BY <2>1 DEF Load, LoadRefused, LoadUnverified, LoadEmpty, LoadAsideFailed, LoadClean,
                  LoadRewriteFailed, vars, disk
    <3> QED
      BY <3>1 DEF LoadRewritten, SetAside
  <2>2. ASSUME NEW k \in Keys,
               \/ \E v \in Vals : UpsertRecord(k, v)
               \/ RemoveRecord(k) \/ TombstoneRecord(k) \/ UntombstoneRecord(k)
        PROVE  file.tail \in asides' \/ erased
    BY <2>2, OperationsWrite, WritesRead DEF TailIsAside
  <2>3. CASE Compact
    BY <2>3 DEF Compact, TailIsAside
  <2> QED
    BY <2>1, <2>2, <2>3 DEF Next, AppendRefused, RemoveAsides, ProcessDies, vars, disk
<1> QED
  BY <1>1, <1>2, <1>3, TypeCorrect, PTL DEF Spec, NothingCutUnseen

-----------------------------------------------------------------------------
(* What a wiped or rewritten log leaves of removed records                  *)

(* A nonempty set of naturals has a least element, and one that is bounded  *)
(* a greatest.                                                              *)
LEMMA Least ==
  ASSUME NEW S \in SUBSET Nat, S # {}
  PROVE  \E m \in S : \A n \in S : m <= n
<1> DEFINE R == OpToRel(<, Nat)
<1>1. IsWellFoundedOn(R, Nat)
  BY NatLessThanWellFounded
<1>2. \A m, n \in Nat : n < m => <<n, m>> \in R
  BY DEF OpToRel
<1> HIDE DEF R
<1>3. PICK m \in S : \A n \in S : ~(<<n, m>> \in R)
  BY <1>1, WFMin
<1>4. \A n \in S : ~(n < m)
  BY <1>2, <1>3
<1> QED
  BY <1>3, <1>4

(* The greatest of a bounded set.                                           *)
LEMMA LastOne ==
  ASSUME NEW n \in Nat, NEW T \in SUBSET (1 .. n), T # {}
  PROVE  \E m \in T : \A j \in T : j <= m
<1> DEFINE S == {n - i : i \in T}
<1>1. S \in SUBSET Nat /\ S # {}
  <2>1. \A i \in T : i \in Nat /\ n - i \in Nat
    OBVIOUS
  <2>2. \A x \in S : x \in Nat
    BY <2>1
  <2> QED
    BY <2>2
<1>2. PICK l \in S : \A x \in S : l <= x
  BY <1>1, Least
<1>3. PICK m \in T : l = n - m
  BY <1>2
<1>4. \A j \in T : n - m <= n - j
  BY <1>2, <1>3
<1> QED
  BY <1>3, <1>4

(* On a file without removes every key that was ever stored still has a     *)
(* record: its last upsert.                                                 *)
LEMMA UpsertedIsHeld ==
  ASSUME NEW fs \in Seq(Frame), ~HasRemove(fs), NEW i \in DOMAIN fs, fs[i].op = "upsert"
  PROVE  RecordsOf(fs)[fs[i].key] # NoVal
<1> DEFINE k == fs[i].key
           T == {j \in 1 .. Len(fs) : fs[j].op = "upsert" /\ fs[j].key = k}
<1>1. Len(fs) \in Nat /\ DOMAIN fs = 1 .. Len(fs) /\ \A j \in DOMAIN fs : fs[j] \in Frame
  OBVIOUS
<1>2. T \in SUBSET (1 .. Len(fs)) /\ T # {}
  BY <1>1
<1>3. PICK m \in T : \A j \in T : j <= m
  BY <1>1, <1>2, LastOne
<1>4. m \in DOMAIN fs /\ fs[m].op = "upsert" /\ fs[m].key = k
  BY <1>1
<1>5. fs[m].val \in Vals /\ k \in Keys /\ fs[m] = UpsertFrame(k, fs[m].val)
  BY <1>1, <1>4 DEF Frame, UpsertFrame
<1>6. \A j \in DOMAIN fs : j > m /\ fs[j].key = k => fs[j].op \notin {"upsert", "remove"}
  <2> SUFFICES ASSUME NEW j \in DOMAIN fs, j > m, fs[j].key = k
               PROVE  fs[j].op \notin {"upsert", "remove"}
    OBVIOUS
  <2>1. j \notin T
    BY <1>1, <1>3
  <2>2. fs[j].op # "upsert"
    BY <1>1, <2>1
  <2> QED
    BY <2>2 DEF HasRemove
<1>7. Holds(fs, k, fs[m].val)
  BY <1>4, <1>5, <1>6 DEF Holds, Stores
<1> HIDE DEF k
<1>8. RecordsOf(fs)[k] = fs[m].val
  BY <1>5, <1>7, ReplaysItself DEF Replays
<1> QED
  BY <1>5, <1>8, ConstantsAssumption DEF k

(* A rewrite's image stores live records only.                              *)
LEMMA ImageStoresLive ==
  ASSUME NEW recs \in [Keys -> Vals \cup {NoVal}], NEW flags \in SUBSET Keys,
         NEW i \in DOMAIN Image(recs, flags).frames,
         Image(recs, flags).frames[i].op = "upsert"
  PROVE  recs[Image(recs, flags).frames[i].key] # NoVal
<1> DEFINE U == {UpsertFrame(k, recs[k]) : k \in Live(recs)}
           T == {TombstoneFrame(k) : k \in flags}
           fs == Image(recs, flags).frames
<1>1. IsFiniteSet(Live(recs)) /\ IsFiniteSet(flags)
  BY FS_Subset, ConstantsAssumption DEF Live
<1>2. IsFiniteSet(U)
  <2>1. [k \in Live(recs) |-> UpsertFrame(k, recs[k])] \in Surjection(Live(recs), U)
    BY DEF Surjection
  <2> QED
    BY <1>1, <2>1, FS_Surjection
<1>3. IsFiniteSet(T)
  <2>1. [k \in flags |-> TombstoneFrame(k)] \in Surjection(flags, T)
    BY DEF Surjection
  <2> QED
    BY <1>1, <2>1, FS_Surjection
<1>4. SetToSeq(U) \in Seq(U) /\ SetToSeq(T) \in Seq(T)
  BY <1>2, <1>3, SetToSeqType
<1>5. fs = SetToSeq(U) \o SetToSeq(T)
  BY DEF Image, V2
<1> HIDE DEF U, T
<1>6. SetToSeq(U) \o SetToSeq(T) \in Seq(U \cup T)
  BY <1>4
<1>7. fs[i] \in U \cup T
  BY <1>5, <1>6
<1>8. fs[i] \notin T
  BY DEF T, TombstoneFrame
<1> QED
  BY <1>7, <1>8 DEF U, UpsertFrame, Live

(* A log whose end is that of a clean file counts all its frames written.   *)
LEMMA WholeIsWritten ==
  ASSUME NEW fs \in Seq(Frame), file' = V2(fs, Clean), end' = DiskLen(file')
  PROVE  Written' = fs
<1>1. Clean \in Rest
  BY DEF Clean, Bare, Rest
<1>2. Len(fs) \in Nat /\ DiskLen(file') = 1 + Len(fs) /\ file'.frames = fs
  BY <1>1, V2Type
<1>3. SubSeq(fs, 1, Len(fs)) = fs
  OBVIOUS
<1> QED
  BY <1>2, <1>3 DEF Written, Kept, Stub, V2

(* A rewrite counts its whole image written.                                *)
LEMMA ImageIsWritten ==
  ASSUME NEW recs \in [Keys -> Vals \cup {NoVal}], NEW flags \in SUBSET Keys,
         file' = Image(recs, flags), end' = DiskLen(file')
  PROVE  Written' = Image(recs, flags).frames
<1>1. Image(recs, flags).frames \in Seq(Frame)
  BY ImageType
<1>2. Image(recs, flags) = V2(Image(recs, flags).frames, Clean)
  BY DEF Image, V2
<1> QED
  BY <1>1, <1>2, WholeIsWritten

(* Every way a load can end: a log that counts no removed record has no     *)
(* remove in its written file, or has rewritten it.                         *)
LEMMA LoadKeepsNoRemovedBytes ==
  ASSUME IInv, Load, NoRemovedBytes
  PROVE  NoRemovedBytes'
<1>1. /\ file \in File /\ file.frames \in Seq(Frame) /\ GoodEnd(file) \in Nat
  BY LengthType DEF IInv, TypeOK
<1>2. CASE LoadRefused
  BY <1>2 DEF LoadRefused, vars, NoRemovedBytes, Sole, Written, Kept
<1>3. CASE LoadUnverified \/ LoadAsideFailed
  BY <1>3 DEF LoadUnverified, LoadAsideFailed, NoRemovedBytes, Sole
<1>4. CASE LoadEmpty
  BY <1>4 DEF LoadEmpty, Opened, NoRemovedBytes, Written, Kept, Stub, Empty
<1>5. ASSUME Opened(file.frames, GoodEnd(file)), file' = file, file.hdr \in {"v2", "torn"},
             removed' = HasRemove(file.frames)
      PROVE  NoRemovedBytes'
  <2>1. CASE file.hdr = "torn"
    BY <1>5, <2>1 DEF Opened, GoodEnd, NoRemovedBytes, Written, Kept, Stub, Empty
  <2>2. CASE file.hdr = "v2"
    <3>1. end' # 0 /\ end' - 1 = Len(file.frames)
      BY <1>1, <1>5, <2>2 DEF Opened, GoodEnd
    <3>2. SubSeq(file.frames, 1, Len(file.frames)) = file.frames
      BY <1>1
    <3>3. Written' = file.frames
      BY <1>5, <3>1, <3>2 DEF Written, Kept, Stub, V2
    <3>4. records' = RecordsOf(file.frames)
      BY <1>5 DEF Opened
    <3> QED
      BY <1>1, <1>5, <3>3, <3>4, UpsertedIsHeld DEF NoRemovedBytes
  <2> QED
    BY <1>5, <2>1, <2>2
<1>6. CASE LoadClean
  BY <1>5, <1>6 DEF LoadClean, disk
<1>7. CASE LoadRewritten
  <2> DEFINE recs == RecordsOf(file.frames)
             flags == FlagsOf(file.frames)
  <2>1. recs \in [Keys -> Vals \cup {NoVal}] /\ flags \in SUBSET Keys
    BY <1>1, ReplaysItself
  <2>2. /\ file' = Image(recs, flags) /\ end' = DiskLen(file') /\ records' = recs
    BY <1>7 DEF LoadRewritten, AtomicWrite, Opened
  <2> HIDE DEF recs, flags
  <2>3. Written' = Image(recs, flags).frames
    BY <2>1, <2>2, ImageIsWritten
  <2> QED
    BY <2>1, <2>2, <2>3, ImageStoresLive DEF NoRemovedBytes
<1>8. CASE LoadRewriteFailed
  <2>1. CASE file.hdr = "v1"
    BY <1>8, <2>1 DEF LoadRewriteFailed, NoRemovedBytes, Sole
  <2>2. CASE file.hdr # "v1"
    <3>1. file.hdr \in {"v2", "torn"}
      BY <1>1, <1>8, <2>2 DEF LoadRewriteFailed, File, Empty, TornHeader
    <3> QED
      BY <1>5, <1>8, <3>1 DEF LoadRewriteFailed, disk
  <2> QED
    BY <2>1, <2>2
<1> QED
  BY <1>2, <1>3, <1>4, <1>6, <1>7, <1>8 DEF Load

(* A frame written whole stores nothing under a key without a record, and   *)
(* one that removes a record is remembered.                                 *)
LEMMA AppendKeepsNoRemovedBytes ==
  ASSUME IInv, NoRemovedBytes, NEW f \in Frame, AppendOk(f),
         removed' \in {removed, TRUE},
         f.op = "upsert" => records' = [records EXCEPT ![f.key] = f.val],
         f.op # "upsert" => records' = records \/ removed'
  PROVE  NoRemovedBytes'
<1>1. Kept.frames \in Seq(Frame)
  BY KeptType DEF IInv, AppendOk, Writable
<1>2. Written' = Append(Written, f)
  <2>1. Append(Kept.frames, f) \in Seq(Frame)
    BY <1>1
  <2>2. file' = V2(Append(Kept.frames, f), Clean) /\ end' = DiskLen(file')
    BY DEF AppendOk
  <2> QED
    BY <2>1, <2>2, WholeIsWritten DEF Written
<1>3. SUFFICES ASSUME Sole', ~removed', NEW i \in DOMAIN Written', Written'[i].op = "upsert"
               PROVE  records'[Written'[i].key] # NoVal
  BY DEF NoRemovedBytes
<1>4. Sole /\ ~removed
  <2>1. Sole
    BY <1>3 DEF AppendOk, Sole, environment
  <2>2. ~removed
    BY <1>3
  <2> QED
    BY <2>1, <2>2
<1>5. records \in [Keys -> Vals \cup {NoVal}]
  BY DEF IInv, TypeOK
<1>6. f.op = "upsert" => f.val \in Vals
  BY DEF Frame
<1>7. /\ Len(Written) \in Nat /\ DOMAIN Written = 1 .. Len(Written)
      /\ \A j \in DOMAIN Written : Written[j] \in Frame /\ Written'[j] = Written[j]
      /\ Written'[Len(Written) + 1] = f
      /\ i \in DOMAIN Written \/ i = Len(Written) + 1
  BY <1>1, <1>2, <1>3 DEF Written
<1>8. CASE i = Len(Written) + 1
  <2>1. f.op = "upsert" /\ f.key \in Keys
    BY <1>3, <1>7, <1>8 DEF Frame
  <2> QED
    BY <1>5, <1>6, <1>7, <1>8, <2>1, ConstantsAssumption
<1>9. CASE i \in DOMAIN Written
  <2>1. Written[i].op = "upsert" /\ Written'[i] = Written[i] /\ Written[i].key \in Keys
    BY <1>3, <1>7, <1>9 DEF Frame
  <2>2. records[Written[i].key] # NoVal
    BY <1>4, <1>9, <2>1 DEF NoRemovedBytes
  <2> QED
    BY <1>3, <1>5, <1>6, <2>1, <2>2, ConstantsAssumption
<1> QED
  BY <1>7, <1>8, <1>9

(* Every step keeps it.                                                     *)
LEMMA NoRemovedBytesHolds ==
  ASSUME IInv, NoRemovedBytes, [Next]_vars
  PROVE  NoRemovedBytes'
<1>1. CASE UNCHANGED vars
  BY <1>1 DEF vars, NoRemovedBytes, Sole, Written, Kept
<1>2. CASE Load
  BY <1>2, LoadKeepsNoRemovedBytes
<1>3. ASSUME NEW f \in Frame, Interrupted(f) PROVE NoRemovedBytes'
  <2>1. CASE AppendDies(f)
    BY <2>1 DEF AppendDies, Down, NoRemovedBytes, Sole
  <2>2. CASE AppendFailed(f)
    <3>1. Written' = Written
      BY <2>2, FailedLeavesWritten
    <3> QED
      BY <2>2, <3>1 DEF AppendFailed, NoRemovedBytes, Sole, environment
  <2> QED
    BY <1>3, <2>1, <2>2 DEF Interrupted
<1>4. ASSUME NEW k \in Keys,
             \/ \E v \in Vals : UpsertRecord(k, v)
             \/ RemoveRecord(k) \/ TombstoneRecord(k) \/ UntombstoneRecord(k)
      PROVE  NoRemovedBytes'
  <2>1. /\ \A v \in Vals : UpsertFrame(k, v) \in Frame
        /\ RemoveFrame(k) \in Frame /\ TombstoneFrame(k) \in Frame
        /\ UntombstoneFrame(k) \in Frame
    BY DEF Frame, UpsertFrame, RemoveFrame, TombstoneFrame, UntombstoneFrame
  <2>2. ASSUME NEW v \in Vals, UpsertRecord(k, v) PROVE NoRemovedBytes'
    BY <1>3, <2>1, <2>2, AppendKeepsNoRemovedBytes DEF UpsertRecord, UpsertFrame
  <2>3. CASE RemoveRecord(k)
    BY <1>3, <2>1, <2>3, AppendKeepsNoRemovedBytes DEF RemoveRecord, RemoveFrame
  <2>4. CASE TombstoneRecord(k)
    BY <1>3, <2>1, <2>4, AppendKeepsNoRemovedBytes DEF TombstoneRecord, TombstoneFrame
  <2>5. CASE UntombstoneRecord(k)
    BY <1>3, <2>1, <2>5, AppendKeepsNoRemovedBytes DEF UntombstoneRecord, UntombstoneFrame
  <2> QED
    BY <1>4, <2>2, <2>3, <2>4, <2>5
<1>5. CASE AppendRefused
  BY <1>1, <1>5 DEF AppendRefused
<1>6. CASE Wipe
  BY <1>6 DEF Wipe, NoRemovedBytes, Written, Kept, Stub, Empty
<1>7. CASE Compact
  <2>1. records \in [Keys -> Vals \cup {NoVal}] /\ tombstoned \in SUBSET Keys
    BY DEF IInv, TypeOK
  <2>2. /\ file' = Image(records, tombstoned) /\ end' = DiskLen(file') /\ records' = records
    BY <1>7 DEF Compact, AtomicWrite
  <2>3. Written' = Image(records, tombstoned).frames
    BY <2>1, <2>2, ImageIsWritten
  <2> QED
    BY <2>1, <2>2, <2>3, ImageStoresLive DEF NoRemovedBytes
<1>8. CASE RemoveAsides
  BY <1>8 DEF RemoveAsides, disk, memory, NoRemovedBytes, Sole, Written, Kept
<1>9. CASE ProcessDies \/ PowerLoss
  BY <1>9 DEF ProcessDies, PowerLoss, Down, NoRemovedBytes, Sole
<1>10. CASE Rot
  BY <1>10 DEF Rot, NoRemovedBytes, Sole
<1>11. CASE Outside
  <2>1. outside' # 0
    BY <1>11 DEF Outside, IInv, TypeOK
  <2> QED
    BY <2>1 DEF NoRemovedBytes, Sole
<1> QED
  BY <1>1, <1>2, <1>4, <1>5, <1>6, <1>7, <1>8, <1>9, <1>10, <1>11 DEF Next

(* When `holds_removed` says no, no removed record's bytes are left in the  *)
(* written file.                                                            *)
THEOREM NoRemovedBytesAreLeft == Spec => []NoRemovedBytes
<1>1. Init => NoRemovedBytes
  BY DEF Init, NoRemovedBytes, Sole
<1>2. IInv /\ NoRemovedBytes /\ [Next]_vars => NoRemovedBytes'
  BY NoRemovedBytesHolds
<1> QED
  BY <1>1, <1>2, LogInvariant, PTL DEF Spec

-----------------------------------------------------------------------------
(* The log implements the durable map                                       *)

Served == [recs |-> records, flags |-> tombstoned]

(* Where no storage damage, no other writer, no broken checksum and no      *)
(* refused directory sync is in play, what the log serves is among what a   *)
(* later open may find.                                                     *)
RInv ==
  /\ IInv
  /\ outside = 0 /\ prior = NoFile
  /\ up => Served \in MayReturn

(* Frames replay to one content only.                                       *)
LEMMA ContentIs ==
  ASSUME NEW fs \in Seq(Frame), NEW recs \in [Keys -> Vals \cup {NoVal}],
         NEW flags \in SUBSET Keys, Replays(fs, recs, flags)
  PROVE  ContentOf(fs) = [recs |-> recs, flags |-> flags]
<1>1. /\ RecordsOf(fs) \in [Keys -> Vals \cup {NoVal}] /\ FlagsOf(fs) \subseteq Keys
      /\ Replays(fs, RecordsOf(fs), FlagsOf(fs))
  BY ReplaysItself
<1>2. \A k \in Keys : RecordsOf(fs)[k] = recs[k]
  BY <1>1, ConstantsAssumption DEF Replays
<1>3. RecordsOf(fs) = recs
  BY <1>1, <1>2
<1>4. FlagsOf(fs) = flags
  BY <1>1 DEF Replays
<1> QED
  BY <1>3, <1>4 DEF ContentOf

(* A file that is synced whole is what every later open finds.              *)
LEMMA WholeReturns ==
  ASSUME file' \in File, synced' = DiskLen(file')
  PROVE  MayReturn' = {ContentOf(file'.frames)}
<1>1. DiskLen(file') \in Nat
  BY LengthType
<1>2. Losable' = {}
  BY <1>1 DEF Losable
<1> QED
  BY <1>2 DEF MayReturn

(* What may be found changes with the file only.                            *)
LEMMA SameReturns ==
  ASSUME UNCHANGED <<file, synced>>
  PROVE  MayReturn' = MayReturn
BY DEF MayReturn, Losable

(* A write that stops half-way adds at most its own frame to what may be    *)
(* found, and what is served stays among it.                                *)
LEMMA InterruptedReturns ==
  ASSUME IInv, NEW f \in Frame, Writable, file' \in HalfWritten(f),
         synced' = Minimum(synced, end), ContentOf(Written) \in MayReturn
  PROVE  /\ MayReturn' \subseteq MayReturn \cup {ContentOf(Append(Written, f))}
         /\ ContentOf(Written) \in MayReturn'
<1> DEFINE fs == Written
           L == Len(fs)
<1>1. /\ fs \in Seq(Frame) /\ Kept \in File /\ end \in Nat /\ synced \in Nat
      /\ L \in Nat /\ L = (IF end = 0 THEN 0 ELSE end - 1)
      /\ DiskLen(file) >= end /\ DiskLen(file) \in Nat
      /\ file.frames \in Seq(Frame) /\ GoodEnd(file) \in Nat
  BY KeptType, LengthType DEF IInv, Writable, TypeOK, Written
<1>2. end = 0 => fs = << >>
  BY <1>1
<1>3. end > 0 => /\ file.hdr = "v2" /\ Len(file.frames) >= end - 1
                 /\ fs = SubSeq(file.frames, 1, end - 1)
  BY <1>1 DEF IInv, EndInFile, Writable, Written, Kept, Stub, V2
<1>4. \/ file'.frames = fs
      \/ file' = V2(Append(fs, f), Clean)
  <2>1. file' = TornHeader /\ end = 0 => file'.frames = fs
    BY <1>2 DEF TornHeader
  <2>2. file' = Kept => file'.frames = fs
    BY DEF Written
  <2> QED
    BY <2>1, <2>2 DEF HalfWritten, Written, V2
<1>5. file' \in File
  BY HalfWrittenShape
<1>6. /\ GoodEnd(file') \in Nat /\ DiskLen(file') \in Nat /\ file'.frames \in Seq(Frame)
      /\ Len(file'.frames) \in Nat /\ GoodEnd(file') <= 1 + Len(file'.frames)
  <2>1. /\ GoodEnd(file') \in Nat /\ DiskLen(file') \in Nat /\ file'.frames \in Seq(Frame)
    BY <1>5, LengthType
  <2> QED
    BY <2>1 DEF GoodEnd
<1>7. Append(fs, f) \in Seq(Frame) /\ Len(Append(fs, f)) = L + 1
  BY <1>1
<1>8. ContentOf(file'.frames) \in MayReturn \cup {ContentOf(Append(fs, f))}
  <2>1. file'.frames = fs \/ file'.frames = Append(fs, f)
    BY <1>4 DEF V2
  <2>2. file'.frames = fs => ContentOf(file'.frames) = ContentOf(fs)
    OBVIOUS
  <2>3. file'.frames = Append(fs, f) => ContentOf(file'.frames) = ContentOf(Append(fs, f))
    OBVIOUS
  <2> QED
    BY <2>1, <2>2, <2>3
<1>9. Minimum(synced, end) \in Nat /\ Minimum(synced, end) <= end
      /\ (Minimum(synced, end) = synced \/ Minimum(synced, end) = end)
  BY <1>1 DEF Minimum
<1> HIDE DEF L
<1>10. ASSUME NEW n \in Losable'
       PROVE  ContentOf(Stub(file', n).frames) \in MayReturn \cup {ContentOf(Append(fs, f))}
  <2>1. /\ n \in Nat /\ n >= Minimum(synced, end)
        /\ n <= GoodEnd(file')
    BY <1>6, <1>9 DEF Losable
  <2>2. ASSUME n >= synced, n < end, Stub(file', n).frames = Stub(file, n).frames
        PROVE  ContentOf(Stub(file', n).frames) \in MayReturn
    <3>1. n <= GoodEnd(file)
      BY <1>1, <1>3, <2>1, <2>2 DEF GoodEnd
    <3>2. n \in Losable
      BY <1>1, <2>1, <2>2, <3>1 DEF Losable
    <3> QED
      BY <2>2, <3>2 DEF MayReturn
  <2>3. CASE n = 0
    <3>1. Stub(file', n).frames = << >> /\ Stub(file, n).frames = << >>
      BY <2>3 DEF Stub, Empty
    <3>2. CASE end = 0
      BY <1>2, <3>1, <3>2
    <3>3. CASE end # 0
      BY <1>1, <1>9, <2>1, <2>2, <2>3, <3>1, <3>3
    <3> QED
      BY <3>2, <3>3
  <2>4. CASE n # 0
    <3>1. Stub(file', n).frames = SubSeq(file'.frames, 1, n - 1)
          /\ Stub(file, n).frames = SubSeq(file.frames, 1, n - 1)
      BY <2>4 DEF Stub, V2
    <3>2. n - 1 \in Nat /\ n - 1 <= Len(file'.frames)
      BY <1>6, <2>1, <2>4
    <3>3. CASE n - 1 = Len(file'.frames)
      <4>1. SubSeq(file'.frames, 1, n - 1) = file'.frames
        BY <1>6, <3>3
      <4> QED
        BY <1>8, <3>1, <4>1
    <3>4. CASE n - 1 < Len(file'.frames) /\ n - 1 = L
      <4>1. file'.frames = Append(fs, f)
        BY <1>4, <3>4 DEF V2, L
      <4>2. SubSeq(Append(fs, f), 1, L) = fs
        BY <1>1 DEF L
      <4> QED
        BY <3>1, <3>4, <4>1, <4>2
    <3>5. CASE n - 1 < Len(file'.frames) /\ n - 1 # L
      <4>1. file'.frames = fs \/ file'.frames = Append(fs, f)
        BY <1>4 DEF V2
      <4>2. n - 1 < L
        BY <1>1, <1>7, <3>2, <3>5, <4>1 DEF L
      <4>3. end # 0 /\ n < end
        BY <1>1, <2>1, <3>2, <4>2
      <4>4. SubSeq(Append(fs, f), 1, n - 1) = SubSeq(fs, 1, n - 1)
        BY <1>1, <3>2, <4>2 DEF L
      <4>5. SubSeq(fs, 1, n - 1) = SubSeq(file.frames, 1, n - 1)
        <5>1. end - 1 \in Nat /\ end - 1 <= Len(file.frames) /\ n - 1 <= end - 1
              /\ Len(file.frames) \in Nat
          BY <1>1, <1>3, <2>1, <4>3
        <5>2. SubSeq(SubSeq(file.frames, 1, end - 1), 1, n - 1) = SubSeq(file.frames, 1, n - 1)
          BY <1>1, <3>2, <5>1
        <5>3. fs = SubSeq(file.frames, 1, end - 1)
          BY <1>1, <1>3, <4>3
        <5> QED
          BY <5>2, <5>3, Zenon
      <4>6. n >= synced
        BY <1>1, <1>9, <2>1, <4>3
      <4>7. SubSeq(file'.frames, 1, n - 1) = SubSeq(file.frames, 1, n - 1)
        BY <4>1, <4>4, <4>5
      <4> QED
        BY <2>2, <3>1, <4>3, <4>6, <4>7
    <3> QED
      BY <1>1, <3>2, <3>3, <3>4, <3>5
  <2> QED
    BY <2>3, <2>4
<1>11. MayReturn' \subseteq MayReturn \cup {ContentOf(Append(fs, f))}
  BY <1>8, <1>10 DEF MayReturn
<1>12. ContentOf(fs) \in MayReturn'
  <2>1. CASE file'.frames = fs
    BY <2>1 DEF MayReturn
  <2>2. CASE file' = V2(Append(fs, f), Clean)
    <3>1. /\ DiskLen(file') = L + 2 /\ GoodEnd(file') = L + 2
          /\ file'.frames = Append(fs, f)
      <4>1. Clean \in Rest
        BY DEF Clean, Bare, Rest
      <4> QED
        <5>1. /\ file'.hdr = "v2" /\ file'.frames = Append(fs, f)
              /\ DiskLen(file') = 1 + Len(Append(fs, f))
          BY <1>7, <2>2, <4>1, V2Type
        <5> QED
          BY <1>1, <1>7, <5>1 DEF GoodEnd
    <3>2. end \in Losable'
      BY <1>1, <1>9, <3>1 DEF Losable
    <3>3. Stub(file', end).frames = fs
      <4>1. CASE end = 0
        BY <1>2, <4>1 DEF Stub, Empty
      <4>2. CASE end # 0
        <5>1. SubSeq(Append(fs, f), 1, L) = fs
          BY <1>1 DEF L
        <5> QED
          BY <1>1, <3>1, <4>2, <5>1 DEF Stub, V2
      <4> QED
        BY <4>1, <4>2
    <3> QED
      BY <3>2, <3>3 DEF MayReturn
  <2> QED
    BY <1>4, <2>1, <2>2
<1> QED
  BY <1>11, <1>12

(* A write of the map's operation: whole it is acknowledged, half-way it is *)
(* doubted, and a death inside it is a crash.                               *)
LEMMA WriteImplements ==
  ASSUME RInv, IInv', outside' = 0, NEW f \in Frame,
         NEW recs \in [Keys -> Vals \cup {NoVal}], NEW flags \in SUBSET Keys,
         [recs |-> recs, flags |-> flags] \in Store!Operations,
         Sole => Replays(Append(Written, f), recs, flags),
         \/ AppendOk(f) /\ records' = recs /\ tombstoned' = flags
         \/ Interrupted(f)
  PROVE  Store!Next
<1> DEFINE c == [recs |-> recs, flags |-> flags]
<1>1. Writable /\ Sole /\ up /\ Served \in MayReturn /\ IInv
  BY DEF RInv, AppendOk, Interrupted, AppendFailed, AppendDies, Sole, Writable
<1>2. Written \in Seq(Frame) /\ records \in [Keys -> Vals \cup {NoVal}] /\ tombstoned \in SUBSET Keys
  BY <1>1, KeptType DEF IInv, TypeOK, Writable, Written
<1>3. ContentOf(Written) = Served
  BY <1>1, <1>2, ContentIs DEF IInv, MemoryIsReplay, Served
<1>4. ContentOf(Append(Written, f)) = c
  <2>1. Append(Written, f) \in Seq(Frame)
    BY <1>2
  <2> QED
    BY <1>1, <2>1, ContentIs
<1>5. Store!Current = Served
  BY DEF Store!Current, Store!Content, Served
<1>6. c.recs = recs /\ c.flags = flags
  OBVIOUS
<1>7. CASE AppendOk(f) /\ records' = recs /\ tombstoned' = flags
  <2>1. file'.frames = Append(Written, f) /\ synced' = DiskLen(file') /\ file' \in File /\ up' = up
    BY <1>7 DEF AppendOk, V2, Written, IInv, TypeOK
  <2>2. MayReturn' = {c}
    BY <1>4, <2>1, WholeReturns
  <2> HIDE DEF c
  <2>3. Store!Acknowledge
    BY <1>1, <1>6, <1>7, <2>1, <2>2 DEF Store!Acknowledge, c
  <2> QED
    BY <2>3 DEF Store!Next
<1>8. CASE Interrupted(f)
  <2>1. file' \in HalfWritten(f) /\ synced' = Minimum(synced, end)
    BY <1>8 DEF Interrupted, AppendFailed, AppendDies
  <2>2. MayReturn' \subseteq MayReturn \cup {c} /\ Served \in MayReturn'
    BY <1>1, <1>3, <1>4, <2>1, InterruptedReturns
  <2> HIDE DEF c
  <2>3. c \in Store!Operations
    BY DEF c
  <2>4. CASE AppendFailed(f)
    <3>1. UNCHANGED <<up, records, tombstoned>>
      BY <2>4 DEF AppendFailed
    <3>2. Store!Doubt
      BY <1>1, <1>5, <2>2, <2>3, <3>1 DEF Store!Doubt
    <3> QED
      BY <3>2 DEF Store!Next
  <2>5. CASE AppendDies(f)
    <3>1. up' = FALSE /\ records' = Store!NoRecs /\ tombstoned' = {}
      BY <2>5 DEF AppendDies, Down, NoRecords, Store!NoRecs
    <3>2. Store!Crash
      BY <1>1, <2>2, <2>3, <3>1 DEF Store!Crash
    <3> QED
      BY <3>2 DEF Store!Next
  <2> QED
    BY <1>8, <2>4, <2>5 DEF Interrupted
<1> QED
  BY <1>7, <1>8

(* The operations the map allows, one by one.                               *)
LEMMA MapOperations ==
  ASSUME NEW k \in Keys
  PROVE  /\ \A v \in Vals : [recs |-> [records EXCEPT ![k] = v], flags |-> tombstoned]
                              \in Store!Operations
         /\ [recs |-> [records EXCEPT ![k] = NoVal], flags |-> tombstoned \ {k}]
              \in Store!Operations
         /\ records[k] # NoVal =>
              [recs |-> records, flags |-> tombstoned \cup {k}] \in Store!Operations
         /\ k \in tombstoned =>
              [recs |-> records, flags |-> tombstoned \ {k}] \in Store!Operations
<1> DEFINE C(r, f) == [recs |-> r, flags |-> f]
           A1 == {C([records EXCEPT ![x] = v], tombstoned) : x \in Keys, v \in Vals}
           A2 == {C([records EXCEPT ![x] = NoVal], tombstoned \ {x}) : x \in Keys}
           A3 == {C(records, tombstoned \cup {x}) : x \in {y \in Keys : records[y] # NoVal}}
           A4 == {C(records, tombstoned \ {x}) : x \in tombstoned}
<1>1. A1 \cup A2 \cup A3 \cup A4 \subseteq Store!Operations
  BY DEF Store!Operations, Store!Content
<1>2. \A v \in Vals : C([records EXCEPT ![k] = v], tombstoned) \in A1
  OBVIOUS
<1>3. C([records EXCEPT ![k] = NoVal], tombstoned \ {k}) \in A2
  OBVIOUS
<1>4. records[k] # NoVal => C(records, tombstoned \cup {k}) \in A3
  OBVIOUS
<1>5. k \in tombstoned => C(records, tombstoned \ {k}) \in A4
  OBVIOUS
<1> HIDE DEF A1, A2, A3, A4
<1> QED
  BY <1>1, <1>2, <1>3, <1>4, <1>5

(* Each operation on a key is the map's operation of that name.             *)
LEMMA OperationsImplement ==
  ASSUME RInv, IInv', outside' = 0, NEW k \in Keys,
         \/ \E v \in Vals : UpsertRecord(k, v)
         \/ RemoveRecord(k) \/ TombstoneRecord(k) \/ UntombstoneRecord(k)
  PROVE  Store!Next
<1>1. /\ \A v \in Vals : UpsertFrame(k, v) \in Frame
      /\ RemoveFrame(k) \in Frame /\ TombstoneFrame(k) \in Frame
      /\ UntombstoneFrame(k) \in Frame
  BY DEF Frame, UpsertFrame, RemoveFrame, TombstoneFrame, UntombstoneFrame
<1>2. records \in [Keys -> Vals \cup {NoVal}] /\ tombstoned \in SUBSET Keys
  BY DEF RInv, IInv, TypeOK
<1>3. ASSUME Sole
      PROVE  Written \in Seq(Frame) /\ Replays(Written, records, tombstoned)
  <2>1. DiskLen(file) >= end /\ up /\ ~held
    BY <1>3 DEF RInv, IInv, OwnsItsTail, Sole
  <2> QED
    BY <1>3, <2>1, KeptType DEF RInv, IInv, Written, MemoryIsReplay
<1>4. ASSUME NEW v \in Vals, UpsertRecord(k, v) PROVE Store!Next
  <2>1. [recs |-> [records EXCEPT ![k] = v], flags |-> tombstoned] \in Store!Operations
    BY MapOperations
  <2>2. [records EXCEPT ![k] = v] \in [Keys -> Vals \cup {NoVal}]
    BY <1>2
  <2>3. Sole => Replays(Append(Written, UpsertFrame(k, v)), [records EXCEPT ![k] = v], tombstoned)
    BY <1>2, <1>3, AppendReplays
  <2> QED
    BY <1>1, <1>2, <1>4, <2>1, <2>2, <2>3, WriteImplements DEF UpsertRecord
<1>5. CASE RemoveRecord(k)
  <2>1. [recs |-> [records EXCEPT ![k] = NoVal], flags |-> tombstoned \ {k}] \in Store!Operations
    BY MapOperations
  <2>2. /\ [records EXCEPT ![k] = NoVal] \in [Keys -> Vals \cup {NoVal}]
        /\ tombstoned \ {k} \in SUBSET Keys
    BY <1>2
  <2>3. Sole => Replays(Append(Written, RemoveFrame(k)), [records EXCEPT ![k] = NoVal],
                        tombstoned \ {k})
    BY <1>2, <1>3, AppendReplays
  <2> QED
    BY <1>1, <1>5, <2>1, <2>2, <2>3, WriteImplements DEF RemoveRecord
<1>6. CASE TombstoneRecord(k)
  <2>1. [recs |-> records, flags |-> tombstoned \cup {k}] \in Store!Operations
    BY <1>6, MapOperations DEF TombstoneRecord
  <2>2. tombstoned \cup {k} \in SUBSET Keys
    BY <1>2
  <2>3. Sole => Replays(Append(Written, TombstoneFrame(k)), records, tombstoned \cup {k})
    BY <1>2, <1>3, AppendReplays
  <2> QED
    BY <1>1, <1>2, <1>6, <2>1, <2>2, <2>3, WriteImplements DEF TombstoneRecord
<1>7. CASE UntombstoneRecord(k)
  <2>1. [recs |-> records, flags |-> tombstoned \ {k}] \in Store!Operations
    BY <1>7, MapOperations DEF UntombstoneRecord
  <2>2. tombstoned \ {k} \in SUBSET Keys
    BY <1>2
  <2>3. Sole => Replays(Append(Written, UntombstoneFrame(k)), records, tombstoned \ {k})
    BY <1>2, <1>3, AppendReplays
  <2> QED
    BY <1>1, <1>2, <1>7, <2>1, <2>2, <2>3, WriteImplements DEF UntombstoneRecord
<1> QED
  BY <1>4, <1>5, <1>6, <1>7

(* A load opens the map with the content the file holds; its rewrite, where *)
(* it does one, settles which content that is.                              *)
LEMMA LoadImplements ==
  ASSUME RInv, ~ChecksumMayFail, Load
  PROVE  [Store!Next]_(Store!vars)
<1>1. file \in File /\ file.frames \in Seq(Frame)
  BY LengthType DEF RInv, IInv, TypeOK
<1> DEFINE recs == RecordsOf(file.frames)
           flags == FlagsOf(file.frames)
           c == [recs |-> recs, flags |-> flags]
<1>2. recs \in [Keys -> Vals \cup {NoVal}] /\ flags \in SUBSET Keys
  BY <1>1, ReplaysItself
<1>3. c \in MayReturn /\ c.recs = recs /\ c.flags = flags
  BY DEF MayReturn, ContentOf
<1>4. ASSUME ~up, up' = TRUE, records' = recs, tombstoned' = flags,
             MayReturn' = MayReturn \/ MayReturn' = {c}
      PROVE  Store!Next
  <2>1. Store!Content(records', tombstoned') = c
    BY <1>4 DEF Store!Content
  <2> HIDE DEF c
  <2>2. MayReturn' \subseteq MayReturn /\ c \in MayReturn'
    BY <1>3, <1>4
  <2>3. Store!Open
    <3>1. \E x \in MayReturn : records' = x.recs /\ tombstoned' = x.flags
      BY <1>3, <1>4
    <3>2. Store!Content(records', tombstoned') \in MayReturn'
      BY <2>1, <2>2
    <3> QED
      BY <1>4, <2>2, <3>1, <3>2 DEF Store!Open
  <2> QED
    BY <2>3 DEF Store!Next
<1>5. CASE LoadRefused
  <2>1. UNCHANGED Store!vars
    BY <1>5, SameReturns DEF LoadRefused, vars, Store!vars
  <2> QED
    BY <2>1
<1>6. CASE LoadEmpty \/ LoadAsideFailed \/ LoadClean \/ LoadRewriteFailed
  <2>1. ~up /\ up' = TRUE /\ records' = recs /\ tombstoned' = flags /\ UNCHANGED disk
    BY <1>6 DEF LoadEmpty, LoadAsideFailed, LoadClean, LoadRewriteFailed, Opened
  <2> HIDE DEF recs, flags
  <2> QED
    BY <1>4, <2>1, SameReturns DEF disk
<1>7. CASE LoadRewritten
  <2>1. /\ ~up /\ up' = TRUE /\ records' = recs /\ tombstoned' = flags
        /\ file' = Image(recs, flags) /\ synced' = DiskLen(Image(recs, flags))
        /\ Replays(Image(recs, flags).frames, recs, flags)
    BY <1>7 DEF LoadRewritten, AtomicWrite, Opened
  <2> HIDE DEF recs, flags
  <2>2. Image(recs, flags) \in File /\ Image(recs, flags).frames \in Seq(Frame)
    BY <1>2, ImageType
  <2>3. ContentOf(Image(recs, flags).frames) = c
    BY <1>2, <2>1, <2>2, ContentIs
  <2>4. MayReturn' = {c}
    BY <2>1, <2>2, <2>3, WholeReturns
  <2> QED
    BY <1>4, <2>1, <2>4
<1>8. ~LoadUnverified
  BY DEF LoadUnverified
<1> QED
  BY <1>5, <1>6, <1>7, <1>8 DEF Load

(* What a power loss leaves is something a later open might find.           *)
LEMMA SurvivorsReturn ==
  ASSUME NEW g \in Survivors
  PROVE  ContentOf(g.frames) \in MayReturn
<1>1. CASE g = file
  BY <1>1 DEF MayReturn
<1>2. ASSUME NEW n \in Losable,
             g \in {Stub(file, n),
                    IF n = 0 THEN TornHeader ELSE V2(Stub(file, n).frames, Bare("part")),
                    IF n = 0 THEN Zeros ELSE V2(Stub(file, n).frames, Bare("zeros"))}
      PROVE  ContentOf(g.frames) \in MayReturn
  <2>1. g.frames = Stub(file, n).frames
    <3>1. CASE n = 0
      BY <1>2, <3>1 DEF Stub, Empty, TornHeader, Zeros
    <3>2. CASE n # 0
      <4>1. g \in {Stub(file, n), V2(Stub(file, n).frames, Bare("part")),
                   V2(Stub(file, n).frames, Bare("zeros"))}
        BY <1>2, <3>2
      <4> QED
        BY <4>1 DEF V2
    <3> QED
      BY <3>1, <3>2
  <2> QED
    BY <2>1 DEF MayReturn
<1> QED
  BY <1>1, <1>2 DEF Survivors

(* Every step of the log is a step of the map, or leaves it as it is.       *)
LEMMA StepImplements ==
  ASSUME RInv, IInv', outside' = 0, MaxForeign = 0, ~ChecksumMayFail, [Next]_vars
  PROVE  [Store!Next]_(Store!vars)
<1>0. /\ IInv /\ TypeOK /\ outside = 0 /\ prior = NoFile
      /\ records \in [Keys -> Vals \cup {NoVal}] /\ tombstoned \in SUBSET Keys
  BY DEF RInv, IInv, TypeOK
<1>1. CASE UNCHANGED vars
  <2>1. UNCHANGED Store!vars
    BY <1>1, SameReturns DEF vars, Store!vars
  <2> QED
    BY <2>1
<1>2. CASE Load
  BY <1>2, LoadImplements
<1>3. ASSUME NEW k \in Keys,
             \/ \E v \in Vals : UpsertRecord(k, v)
             \/ RemoveRecord(k) \/ TombstoneRecord(k) \/ UntombstoneRecord(k)
      PROVE  Store!Next
  BY <1>3, OperationsImplement
<1>4. CASE AppendRefused
  BY <1>1, <1>4 DEF AppendRefused
<1>5. CASE Wipe
  <2> DEFINE c == [recs |-> NoRecords, flags |-> {}]
  <2>1. /\ up /\ up' = up /\ records' = NoRecords /\ tombstoned' = {}
        /\ file' = Empty /\ synced' = DiskLen(Empty)
    BY <1>5 DEF Wipe, AtomicWrite
  <2>2. Empty \in File /\ Empty.frames = << >>
    BY DEF File, Empty
  <2>3. ContentOf(<< >>) = c
    <3>1. << >> \in Seq(Frame) /\ NoRecords \in [Keys -> Vals \cup {NoVal}]
      BY DEF NoRecords
    <3> QED
      BY <3>1, NothingReplays, ContentIs
  <2>4. MayReturn' = {c}
    BY <2>1, <2>2, <2>3, WholeReturns
  <2>5. c \in Store!Operations
    BY DEF Store!Operations, Store!Content, Store!NoRecs, NoRecords
  <2>6. c.recs = NoRecords /\ c.flags = {}
    OBVIOUS
  <2> HIDE DEF c
  <2>7. Store!Acknowledge
    BY <2>1, <2>4, <2>5, <2>6 DEF Store!Acknowledge
  <2> QED
    BY <2>7 DEF Store!Next
<1>6. CASE Compact
  <2> DEFINE image == Image(records, tombstoned)
  <2>1. /\ up /\ UNCHANGED <<up, records, tombstoned>>
        /\ file' = image /\ synced' = DiskLen(image)
        /\ Replays(image.frames, records, tombstoned)
    BY <1>6 DEF Compact, AtomicWrite
  <2>2. image \in File /\ image.frames \in Seq(Frame)
    BY <1>0, ImageType
  <2> HIDE DEF image
  <2>3. ContentOf(image.frames) = Store!Current
    BY <1>0, <2>1, <2>2, ContentIs DEF Store!Current, Store!Content
  <2>4. MayReturn' = {Store!Current}
    BY <2>1, <2>2, <2>3, WholeReturns
  <2>5. Store!Settle
    BY <2>1, <2>4 DEF Store!Settle
  <2> QED
    BY <2>5 DEF Store!Next
<1>7. CASE RemoveAsides
  <2>1. UNCHANGED Store!vars
    BY <1>7, SameReturns DEF RemoveAsides, disk, memory, Store!vars
  <2> QED
    BY <2>1
<1>8. ASSUME Down, MayReturn' # {}, MayReturn' \subseteq MayReturn PROVE Store!Next
  BY <1>8 DEF Down, NoRecords, Store!NoRecs, Store!Crash, Store!Next
<1>9. CASE ProcessDies
  <2>1. MayReturn' = MayReturn /\ MayReturn # {}
    BY <1>9, SameReturns DEF ProcessDies, disk, MayReturn
  <2> QED
    BY <1>8, <1>9, <2>1 DEF ProcessDies
<1>10. CASE PowerLoss
  <2>1. file' \in Survivors /\ synced' = DiskLen(file')
    BY <1>0, <1>10 DEF PowerLoss
  <2>2. file' \in File
    BY <1>0, <2>1, SurvivorsType
  <2>3. MayReturn' = {ContentOf(file'.frames)} /\ ContentOf(file'.frames) \in MayReturn
    BY <2>1, <2>2, WholeReturns, SurvivorsReturn
  <2> QED
    BY <1>8, <1>10, <2>3 DEF PowerLoss
<1>11. ~Rot /\ ~Outside
  <2>1. ~(rot + outside < MaxForeign)
    BY <1>0 DEF TypeOK
  <2> QED
    BY <2>1 DEF Rot, Outside
<1> QED
  BY <1>1, <1>2, <1>3, <1>4, <1>5, <1>6, <1>7, <1>9, <1>10, <1>11 DEF Next

(* No step writes from outside, or leaves a rename a power loss can undo.   *)
LEMMA QuietStays ==
  ASSUME TypeOK, outside = 0, prior = NoFile, MaxForeign = 0, ~DirSyncMayFail, [Next]_vars
  PROVE  outside' = 0 /\ prior' = NoFile
<1>1. ~Rot /\ ~Outside
  <2>1. ~(rot + outside < MaxForeign)
    BY DEF TypeOK
  <2> QED
    BY <2>1 DEF Rot, Outside
<1>2. \A g : AtomicWrite(g) => prior' = NoFile
  BY DEF AtomicWrite
<1>3. CASE Load
  BY <1>2, <1>3 DEF Load, LoadRefused, LoadUnverified, LoadEmpty, LoadAsideFailed, LoadClean,
                    LoadRewritten, LoadRewriteFailed, vars, disk, environment
<1>4. ASSUME NEW k \in Keys,
             \/ \E v \in Vals : UpsertRecord(k, v)
             \/ RemoveRecord(k) \/ TombstoneRecord(k) \/ UntombstoneRecord(k)
      PROVE  outside' = 0 /\ prior' = NoFile
  BY <1>4, OperationsWrite DEF AppendOk, Interrupted, AppendFailed, AppendDies, environment
<1>5. CASE Wipe \/ Compact
  BY <1>2, <1>5 DEF Wipe, Compact, environment
<1>6. CASE UNCHANGED vars \/ AppendRefused \/ RemoveAsides \/ ProcessDies \/ PowerLoss
  BY <1>6 DEF vars, AppendRefused, RemoveAsides, ProcessDies, PowerLoss, disk, environment
<1> QED
  BY <1>1, <1>3, <1>4, <1>5, <1>6 DEF Next

(* A step of the map leaves what it serves among what may be found.         *)
LEMMA ServedStays ==
  ASSUME RInv, [Store!Next]_(Store!vars), up'
  PROVE  Served' \in MayReturn'
<1>1. CASE UNCHANGED Store!vars
  BY <1>1 DEF Store!vars, Served, RInv
<1>2. CASE Store!Open
  BY <1>2 DEF Store!Open, Store!Content, Served
<1>3. CASE Store!Acknowledge
  <2>1. PICK c \in Store!Operations : records' = c.recs /\ tombstoned' = c.flags /\ MayReturn' = {c}
    BY <1>3 DEF Store!Acknowledge
  <2>2. c = [recs |-> c.recs, flags |-> c.flags]
    BY <2>1 DEF Store!Operations, Store!Content
  <2>3. Served' = c
    BY <2>1, <2>2 DEF Served
  <2> QED
    BY <2>1, <2>3
<1>4. CASE Store!Doubt \/ Store!Settle
  BY <1>4 DEF Store!Doubt, Store!Settle, Store!Current, Store!Content, Served
<1>5. ~Store!Crash
  BY DEF Store!Crash
<1> QED
  BY <1>1, <1>2, <1>3, <1>4, <1>5 DEF Store!Next

(* The log implements the durable map: what was acknowledged is what every  *)
(* later open finds, through failed writes, deaths inside an append or a    *)
(* rewrite, power loss and migration, for every set of keys and values.     *)
THEOREM LogImplementsMap ==
  ASSUME MaxForeign = 0, ~ChecksumMayFail, ~DirSyncMayFail
  PROVE  Spec => StoreSpec
<1>1. Init => RInv /\ Store!Init
  <2> SUFFICES ASSUME Init PROVE RInv /\ Store!Init
    OBVIOUS
  <2>1. file \in File /\ file.frames \in Seq(Frame) /\ DiskLen(file) \in Nat
    BY ConstantsAssumption, LengthType DEF Init
  <2>2. Losable = {}
    BY <2>1 DEF Init, Losable
  <2>3. MayReturn = {ContentOf(file.frames)}
    BY <2>2 DEF MayReturn
  <2>4. ContentOf(file.frames) \in [recs : [Keys -> Vals \cup {NoVal}], flags : SUBSET Keys]
    BY <2>1, ReplaysItself DEF ContentOf
  <2>5. Store!Init
    BY <2>3, <2>4 DEF Store!Init, Init, NoRecords, Store!NoRecs
  <2> QED
    BY <2>5, InitIInv DEF RInv, Init
<1>2. RInv /\ [Next]_vars => RInv' /\ [Store!Next]_(Store!vars)
  <2> SUFFICES ASSUME RInv, [Next]_vars PROVE RInv' /\ [Store!Next]_(Store!vars)
    OBVIOUS
  <2>1. IInv'
    BY NextIInv DEF RInv
  <2>2. outside' = 0 /\ prior' = NoFile
    BY QuietStays DEF RInv, IInv
  <2>3. [Store!Next]_(Store!vars)
    BY <2>1, <2>2, StepImplements
  <2>4. up' => Served' \in MayReturn'
    BY <2>3, ServedStays
  <2> QED
    BY <2>1, <2>2, <2>3, <2>4 DEF RInv
<1> QED
  BY <1>1, <1>2, PTL DEF Spec, StoreSpec, Store!Spec

-----------------------------------------------------------------------------
(* What the last frames decide is what the code's loop computes             *)

(* One more frame changes the content by the loop's step.                   *)
LEMMA AppendIsLoopStep ==
  ASSUME NEW fs \in Seq(Frame), NEW f \in Frame
  PROVE  ContentOf(Append(fs, f)) = LoopStep(f, ContentOf(fs))
<1> DEFINE recs == RecordsOf(fs)
           flags == FlagsOf(fs)
           k == f.key
<1>1. recs \in [Keys -> Vals \cup {NoVal}] /\ flags \in SUBSET Keys /\ Replays(fs, recs, flags)
  BY ReplaysItself
<1>2. ContentOf(fs) = [recs |-> recs, flags |-> flags]
  BY DEF ContentOf
<1>3. Append(fs, f) \in Seq(Frame)
  OBVIOUS
<1> HIDE DEF recs, flags
<1>4. k \in Keys
  BY DEF Frame
<1>5. CASE f.op = "upsert"
  <2>1. f.val \in Vals /\ f = UpsertFrame(k, f.val)
    BY <1>5 DEF Frame, UpsertFrame
  <2> DEFINE r == [recs EXCEPT ![k] = f.val]
  <2>2. r \in [Keys -> Vals \cup {NoVal}]
    BY <1>1, <2>1
  <2>3. Replays(Append(fs, f), r, flags)
    BY <1>1, <1>4, <2>1, AppendReplays
  <2>4. LoopStep(f, ContentOf(fs)) = [recs |-> r, flags |-> flags]
    BY <1>2, <1>5 DEF LoopStep
  <2> HIDE DEF r
  <2> QED
    BY <1>1, <1>3, <2>2, <2>3, <2>4, ContentIs
<1>6. CASE f.op = "remove"
  <2>1. f = RemoveFrame(k)
    BY <1>6 DEF Frame, RemoveFrame
  <2> DEFINE r == [recs EXCEPT ![k] = NoVal]
  <2>2. r \in [Keys -> Vals \cup {NoVal}] /\ flags \ {k} \in SUBSET Keys
    BY <1>1
  <2>3. Replays(Append(fs, f), r, flags \ {k})
    BY <1>1, <1>4, <2>1, AppendReplays
  <2>4. LoopStep(f, ContentOf(fs)) = [recs |-> r, flags |-> flags \ {k}]
    BY <1>2, <1>6 DEF LoopStep
  <2> HIDE DEF r
  <2> QED
    BY <1>3, <2>2, <2>3, <2>4, ContentIs
<1>7. CASE f.op = "tombstone"
  <2>1. f = TombstoneFrame(k)
    BY <1>7 DEF Frame, TombstoneFrame
  <2>2. flags \cup {k} \in SUBSET Keys
    BY <1>1, <1>4
  <2>3. Replays(Append(fs, f), recs, flags \cup {k})
    BY <1>1, <1>4, <2>1, AppendReplays
  <2>4. LoopStep(f, ContentOf(fs)) = [recs |-> recs, flags |-> flags \cup {k}]
    <3>1. LoopStep(f, ContentOf(fs))
            = [[recs |-> recs, flags |-> flags] EXCEPT !.flags = flags \cup {k}]
      BY <1>2, <1>7 DEF LoopStep
    <3> QED
      BY <3>1
  <2> QED
    BY <1>1, <1>3, <2>2, <2>3, <2>4, ContentIs
<1>8. CASE f.op = "untombstone"
  <2>1. f = UntombstoneFrame(k)
    BY <1>8 DEF Frame, UntombstoneFrame
  <2>2. flags \ {k} \in SUBSET Keys
    BY <1>1
  <2>3. Replays(Append(fs, f), recs, flags \ {k})
    BY <1>1, <1>4, <2>1, AppendReplays
  <2>4. LoopStep(f, ContentOf(fs)) = [recs |-> recs, flags |-> flags \ {k}]
    <3>1. LoopStep(f, ContentOf(fs))
            = [[recs |-> recs, flags |-> flags] EXCEPT !.flags = flags \ {k}]
      BY <1>2, <1>8 DEF LoopStep
    <3> QED
      BY <3>1
  <2> QED
    BY <1>1, <1>3, <2>2, <2>3, <2>4, ContentIs
<1> QED
  BY <1>5, <1>6, <1>7, <1>8 DEF Frame

(* The content after each prefix satisfies the loop's recursion, so the     *)
(* recursion has a solution; two solutions differ nowhere first.            *)
LEMMA LoopIsContent ==
  ASSUME NEW fs \in Seq(Frame)
  PROVE  Loop(fs) = ContentOf(fs)
<1> DEFINE L == Len(fs)
           F(a) == [n \in 0 .. L |-> IF n = 0 THEN [recs |-> NoRecords, flags |-> {}]
                                     ELSE LoopStep(fs[n], a[n - 1])]
           after == CHOOSE a : a = F(a)
           prefix(n) == SubSeq(fs, 1, n)
           content == [n \in 0 .. L |-> ContentOf(prefix(n))]
<1>1. L \in Nat /\ prefix(L) = fs
  OBVIOUS
<1>2. \A n \in 0 .. L : prefix(n) \in Seq(Frame)
  OBVIOUS
<1>3. ContentOf(prefix(0)) = [recs |-> NoRecords, flags |-> {}]
  <2>1. prefix(0) = << >>
    OBVIOUS
  <2>2. NoRecords \in [Keys -> Vals \cup {NoVal}] /\ << >> \in Seq(Frame)
    BY DEF NoRecords
  <2> HIDE DEF prefix
  <2> QED
    BY <2>1, <2>2, NothingReplays, ContentIs
<1>4. ASSUME NEW n \in 1 .. L
      PROVE  /\ n - 1 \in 0 .. L
             /\ ContentOf(prefix(n)) = LoopStep(fs[n], ContentOf(prefix(n - 1)))
  <2>1. n - 1 \in 0 .. L /\ n \in 1 .. Len(fs)
    BY <1>1
  <2>2. prefix(n) = Append(prefix(n - 1), fs[n]) /\ fs[n] \in Frame
    BY <2>1
  <2>3. prefix(n - 1) \in Seq(Frame)
    BY <1>2, <2>1
  <2> HIDE DEF prefix
  <2> QED
    BY <2>1, <2>2, <2>3, AppendIsLoopStep
<1> HIDE DEF L, prefix
<1>5. content = F(content)
  <2>1. ASSUME NEW n \in 0 .. L PROVE content[n] = F(content)[n]
    <3>1. CASE n = 0
      BY <1>3, <3>1
    <3>2. CASE n # 0
      <4>1. n \in 1 .. L
        BY <1>1, <3>2
      <4> QED
        BY <1>4, <3>2, <4>1
    <3> QED
      BY <3>1, <3>2
  <2> QED
    BY <2>1
<1>6. after = F(after)
  <2> HIDE DEF F, content
  <2> QED
    BY <1>5
<1> HIDE DEF after
<1>7. \A n \in 0 .. L : after[n] = content[n]
  <2> DEFINE Apart == {n \in 0 .. L : after[n] # content[n]}
  <2> SUFFICES ASSUME Apart # {} PROVE FALSE
    OBVIOUS
  <2>1. Apart \in SUBSET Nat
    BY <1>1
  <2>2. PICK n \in Apart : \A m \in Apart : n <= m
    BY <2>1, Least
  <2>3. n \in 0 .. L /\ after[n] # content[n]
    BY <2>2
  <2>4. CASE n = 0
    BY <1>3, <1>6, <2>3, <2>4
  <2>5. CASE n # 0
    <3>1. n \in 1 .. L /\ n - 1 \in 0 .. L /\ ~(n <= n - 1)
      BY <1>1, <2>3, <2>5
    <3>2. after[n - 1] = content[n - 1]
      BY <2>2, <3>1
    <3>3. after[n] = LoopStep(fs[n], after[n - 1])
      BY <1>6, <2>3, <2>5
    <3>4. content[n] = LoopStep(fs[n], content[n - 1])
      BY <1>4, <3>1
    <3> QED
      BY <2>3, <3>2, <3>3, <3>4
  <2> QED
    BY <2>4, <2>5
<1>8. Loop(fs) = after[L]
  BY DEF Loop, after, F, L
<1>9. L \in 0 .. L
  BY <1>1
<1> QED
  BY <1>1, <1>7, <1>8, <1>9

(* On every file reached, the code's pass over the frames computes what the *)
(* last frame about each key decides.                                       *)
THEOREM ReplayMatchesTheLoop == Spec => []ReplayIsTheLoop
<1>1. IInv => ReplayIsTheLoop
  <2> SUFFICES ASSUME IInv PROVE ReplayIsTheLoop
    OBVIOUS
  <2>1. file.frames \in Seq(Frame)
    BY LengthType DEF IInv, TypeOK
  <2>2. Loop(file.frames) = [recs |-> RecordsOf(file.frames), flags |-> FlagsOf(file.frames)]
    BY <2>1, LoopIsContent DEF ContentOf
  <2> QED
    BY <2>2 DEF ReplayIsTheLoop
<1> QED
  BY <1>1, LogInvariant, PTL
=============================================================================
