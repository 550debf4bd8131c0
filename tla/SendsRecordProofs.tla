------------------------- MODULE SendsRecordProofs -------------------------
(***************************************************************************)
(* OnRecord and OnDisk hold in every reachable state, and RetryConflicts   *)
(* of every step, for any number of transactions, coins, snapshots and     *)
(* relaunches, when no send is prepared while another of its kind is       *)
(* committing.                                                             *)
(***************************************************************************)
EXTENDS SendsRecord, FiniteSetTheorems, WellFoundedInduction, TLAPS

\* What a snapshot of r taken with these legs in their submit copies.
Kept(r, submitting) == Unknown(r) \cup r.carried \cup (r.meta \cap (r.taken \cup submitting))

\* Until its request leaves again, a leg that may land is kept for what it was
\* before: nothing a refusal takes back.
HeldBeforeRequest ==
  \A t \in Txs : MayLand(t) /\ pc[t] # "out" =>
    t \in Unknown(rec) \cup rec.carried \cup (rec.meta \cap rec.taken)

\* A prepared send is not being committed, and no leg in its commit is counted
\* as taken.
NotTakenYet ==
  /\ \A t \in stash : pc[t] = "idle" /\ t \notin rec.taken
  /\ \A t \in Txs : pc[t] # "idle" => t \notin rec.taken

\* A commit in its first write waits for a number already handed out.
WaitsForItsWrite ==
  \A t \in Txs : IF pc[t] = "recording" THEN awaits[t] \in 1..next ELSE awaits[t] = 0

\* A leg in its submit is remembered.
CommitsAreRemembered == Submitting \subseteq rec.meta

\* No write that can still land would drop a leg that may land.
WritesKeepLegs ==
  \A w \in queue : w.gen > written => \A t \in Txs : MayLand(t) => w.legs[t] # "none"

\* The states of a leg that a load lists as one of unknown fate.
Back == {"Submitting", "Unknown"}

\* Past its first write, a leg is in the file and in every write still to land,
\* as one a load brings back.
RecordedIsWritten ==
  \A t \in Txs : pc[t] \in {"recorded", "out"} =>
    /\ file[t] \in Back
    /\ \A w \in queue : w.gen > written => w.legs[t] \in Back

\* In it, the leg is in every copy numbered from its own on, landed or not.
RecordingIsQueued ==
  \A t \in Txs : pc[t] = "recording" =>
    /\ awaits[t] <= written => file[t] \in Back
    /\ \A w \in queue : w.gen >= awaits[t] => w.legs[t] \in Back

\* The same of a leg that ended with no answer and may land.
UnansweredIsWritten ==
  \A u \in unanswered : MayLand(u) =>
    /\ file[u] \in Back
    /\ \A w \in queue : w.gen > written => w.legs[u] \in Back

\* Until it is submitted again, such a leg is of unknown fate.
UnansweredIsUnknown ==
  \A u \in unanswered : MayLand(u) /\ pc[u] # "out" => u \in Unknown(rec)

\* What a record lists.
Listed(r) == Unknown(r) \cup r.taken \cup r.carried \cup r.meta

\* No record and no copy lists a leg no commit has logged.
OnlyTried ==
  /\ Listed(rec) \cup Submitting \subseteq tried
  /\ \A t \in Txs \ tried : file[t] = "none" /\ \A w \in queue : w.legs[t] = "none"

Numbered == written <= next

AcceptedIsSpent == \A t \in accepted : In[t] \subseteq spent

\* What the copies owe the legs, in one place.
Copies == WritesKeepLegs /\ RecordedIsWritten /\ RecordingIsQueued /\ UnansweredIsWritten /\ OnDisk

IInv ==
  /\ TypeOK /\ Numbered /\ AcceptedIsSpent
  /\ HeldBeforeRequest /\ NotTakenYet /\ WaitsForItsWrite /\ CommitsAreRemembered
  /\ UnansweredIsUnknown /\ OnlyTried
  /\ Copies

---------------------------------------------------------------------------
(***************************************************************************)
(* The operations of InFlightSends.                                        *)
(***************************************************************************)

\* Dropping legs from the list of unknown fate touches nothing else.
LEMMA WithoutDrops ==
  ASSUME NEW r \in Record, NEW T
  PROVE  /\ Without(r, T) \in Record
         /\ Unknown(Without(r, T)) = Unknown(r) \ T
         /\ Without(r, T).taken = r.taken /\ Without(r, T).carried = r.carried
         /\ Without(r, T).meta = r.meta
  BY DEF Without, Record, Unknown

\* A leg of unknown fate joins the list.
LEMMA FateUnknownAdds ==
  ASSUME NEW r \in Record, NEW t \in Txs
  PROVE  /\ fate_unknown(r, t) \in Record
         /\ Unknown(fate_unknown(r, t)) = Unknown(r) \cup {t}
         /\ fate_unknown(r, t).taken = r.taken /\ fate_unknown(r, t).carried = r.carried
         /\ fate_unknown(r, t).meta = r.meta
<1> DEFINE s == fate_unknown(r, t)
<1>1. /\ r.unknown \in [Txs -> Nat] /\ r.next_unknown \in Nat
      /\ r.taken \in SUBSET Txs /\ r.carried \in SUBSET Txs /\ r.meta \in SUBSET Txs
  BY DEF Record
<1>2. /\ s.unknown = [r.unknown EXCEPT ![t] = r.next_unknown + 1]
      /\ s.next_unknown = r.next_unknown + 1
      /\ s.taken = r.taken /\ s.carried = r.carried /\ s.meta = r.meta
  BY DEF fate_unknown, Record
<1>3. s \in Record
  <2>1. [r.unknown EXCEPT ![t] = r.next_unknown + 1] \in [Txs -> Nat]
    BY <1>1
  <2> DEFINE u == [r EXCEPT !.unknown = [r.unknown EXCEPT ![t] = r.next_unknown + 1]]
  <2>2. u \in Record
    BY <1>1, <2>1 DEF Record
  <2>3. s = [u EXCEPT !.next_unknown = r.next_unknown + 1]
    BY DEF fate_unknown
  <2>4. r.next_unknown + 1 \in Nat
    BY <1>1
  <2> HIDE DEF s, u
  <2> QED BY <2>2, <2>3, <2>4 DEF Record
<1>4. Unknown(s) = Unknown(r) \cup {t}
  <2>1. \A u \in Txs : s.unknown[u] = IF u = t THEN r.next_unknown + 1 ELSE r.unknown[u]
    BY <1>1, <1>2
  <2> HIDE DEF s
  <2> QED BY <1>1, <2>1 DEF Unknown
<1> QED BY <1>2, <1>3, <1>4

\* A submit that returned, its request possibly sent, leaves its leg taken or
\* of unknown fate.
LEMMA ReturnedIsHeld ==
  ASSUME NEW r \in Record, NEW t \in Txs, t \in r.meta
  PROVE  LET s == submit_returned(r, t, TRUE)
         IN  /\ s \in Record /\ s.taken = r.taken /\ s.meta = r.meta
             /\ s.carried = r.carried \ {t}
             /\ Unknown(r) \subseteq Unknown(s) /\ Unknown(s) \subseteq Unknown(r) \cup {t}
             /\ t \in Unknown(s) \cup s.taken
<1> DEFINE s == [r EXCEPT !.carried = @ \ {t}]
<1>1. /\ s \in Record /\ Unknown(s) = Unknown(r) /\ s.taken = r.taken /\ s.meta = r.meta
      /\ s.carried = r.carried \ {t}
  BY DEF Record, Unknown
<1>2. CASE t \in s.taken \cup Unknown(s)
  BY <1>1, <1>2 DEF submit_returned
<1>3. CASE t \notin s.taken \cup Unknown(s)
  <2>1. submit_returned(r, t, TRUE) = fate_unknown(s, t)
    BY <1>1, <1>3 DEF submit_returned
  <2>2. /\ fate_unknown(s, t) \in Record
        /\ Unknown(fate_unknown(s, t)) = Unknown(s) \cup {t}
        /\ fate_unknown(s, t).taken = s.taken /\ fate_unknown(s, t).carried = s.carried
        /\ fate_unknown(s, t).meta = s.meta
    BY <1>1, FateUnknownAdds
  <2> HIDE DEF s
  <2> QED BY <1>1, <2>1, <2>2
<1> QED BY <1>2, <1>3

\* A copy holds what its record keeps.
LEMMA CopyKeeps ==
  ASSUME NEW r \in Record, NEW S \in SUBSET Txs
  PROVE  /\ pruned(r, S) \in Record
         /\ Unknown(pruned(r, S)) = Unknown(r)
         /\ pruned(r, S).taken = r.taken /\ pruned(r, S).carried = r.carried
         /\ pruned(r, S).meta = r.meta \cap (Unknown(r) \cup r.taken \cup S)
         /\ legs(pruned(r, S)) \in [Txs -> LegState]
         /\ \A t \in Kept(r, S) : legs(pruned(r, S))[t] # "none"
         /\ \A t \in Unknown(r) \cup ((r.meta \cap S) \ r.taken) : legs(pruned(r, S))[t] \in Back
         /\ \A t \in Txs \ Listed(r) : legs(pruned(r, S))[t] = "none"
<1> DEFINE p == pruned(r, S)
<1>1. /\ p \in Record /\ Unknown(p) = Unknown(r) /\ p.taken = r.taken /\ p.carried = r.carried
      /\ p.meta = r.meta \cap (Unknown(r) \cup r.taken \cup S)
  BY DEF pruned, Record, Unknown
<1>2. legs(p) \in [Txs -> LegState]
  BY DEF legs, LegState
<1>3. ASSUME NEW t \in Kept(r, S) PROVE legs(p)[t] # "none"
  <2>1. t \in Txs /\ (t \in Unknown(p) \/ t \in p.meta \/ t \in p.carried)
    BY <1>1 DEF Kept, Unknown, Record
  <2> QED BY <2>1 DEF legs
<1>4. ASSUME NEW t \in Unknown(r) \cup ((r.meta \cap S) \ r.taken) PROVE legs(p)[t] \in Back
  <2>1. t \in Txs /\ (t \in Unknown(p) \/ t \in p.meta \ p.taken)
    BY <1>1 DEF Unknown, Record
  <2> QED BY <2>1 DEF legs, Back
<1>5. ASSUME NEW t \in Txs \ Listed(r) PROVE legs(p)[t] = "none"
  <2>1. t \notin Unknown(p) /\ t \notin p.meta /\ t \notin p.carried
    BY <1>1 DEF Listed
  <2> QED BY <2>1 DEF legs
<1> QED BY <1>1, <1>2, <1>3, <1>4, <1>5

\* A read drops only legs that can no longer land; a stale carried send stays,
\* of unknown fate.
LEMMA ReadKeeps ==
  ASSUME TypeOK, NEW listed \in SUBSET accepted, NEW gone \in SUBSET spent,
         NEW T \in SUBSET rec.carried,
         NEW stale \in [T -> Nat], \A t \in T : stale[t] # 0
  PROVE  LET s == Judged(rec, listed, gone, stale)
         IN  /\ s \in Record
             /\ \A t \in Txs : MayLand(t) =>
                  /\ t \in Unknown(rec) => t \in Unknown(s)
                  /\ t \in rec.carried => t \in Unknown(s) \cup s.carried
                  /\ t \in rec.taken => t \in s.taken
             /\ rec.meta \subseteq s.meta /\ s.taken \subseteq rec.taken
             /\ Listed(s) \subseteq Listed(rec)
<1> DEFINE s == Judged(rec, listed, gone, stale)
<1>1. /\ rec \in Record
      /\ rec.unknown \in [Txs -> Nat] /\ rec.next_unknown \in Nat
      /\ rec.taken \in SUBSET Txs /\ rec.carried \in SUBSET Txs /\ rec.meta \in SUBSET Txs
  BY DEF TypeOK, Record
<1>2. DOMAIN stale = T /\ T \subseteq Txs
  BY <1>1
<1>3. rec.next_unknown + Cardinality(T) \in Nat
  <2>1. Cardinality(T) \in Nat
    BY <1>2, TxsAreNumbers, FS_Subset, FS_CardinalityType
  <2> QED BY <1>1, <2>1
<1> DEFINE U == [t \in Txs |-> IF t \in T THEN stale[t]
                               ELSE IF Ends(t, listed, gone) THEN 0 ELSE rec.unknown[t]]
<1>4. /\ s.unknown = U /\ s.next_unknown = rec.next_unknown + Cardinality(T)
      /\ s.taken = {t \in rec.taken : ~Ends(t, listed, gone)}
      /\ s.carried = {t \in rec.carried : ~Ends(t, listed, gone)} \ T
      /\ s.meta = rec.meta \cup T
  BY <1>2 DEF Judged
<1>5. U \in [Txs -> Nat]
  BY <1>1
<1>6. s \in Record
  BY <1>1, <1>2, <1>3, <1>5 DEF Judged, Record
<1>7. ASSUME NEW t \in Txs, MayLand(t) PROVE ~Ends(t, listed, gone)
  BY <1>7 DEF MayLand, Ends
<1>8. ASSUME NEW t \in Txs, MayLand(t)
      PROVE  /\ t \in Unknown(rec) => t \in Unknown(s)
             /\ t \in rec.carried => t \in Unknown(s) \cup s.carried
             /\ t \in rec.taken => t \in s.taken
  <2>1. ~Ends(t, listed, gone)
    BY <1>7, <1>8
  <2>2. s.unknown[t] = IF t \in T THEN stale[t] ELSE rec.unknown[t]
    BY <1>4, <2>1
  <2> HIDE DEF s, U
  <2> QED BY <1>4, <2>1, <2>2 DEF Unknown
<1> HIDE DEF s, U
<1>9. rec.meta \subseteq s.meta /\ s.taken \subseteq rec.taken
  BY <1>4
<1>10. Listed(s) \subseteq Listed(rec)
  <2>1. \A t \in Txs : U[t] # 0 => t \in T \/ rec.unknown[t] # 0
    BY DEF U
  <2>2. Unknown(s) \subseteq Unknown(rec) \cup T
    BY <1>4, <2>1 DEF Unknown
  <2> QED BY <1>4, <2>2 DEF Listed
<1> QED BY <1>6, <1>8, <1>9, <1>10 DEF s

\* A loaded record keeps every leg of the file.
LEMMA LoadKeeps ==
  ASSUME NEW f \in [Txs -> LegState]
  PROVE  /\ load(f) \in Record /\ load(f).taken = {}
         /\ \A t \in Txs : f[t] # "none" => t \in Unknown(load(f)) \cup load(f).carried
         /\ \A t \in Txs : f[t] \in Back => t \in Unknown(load(f))
         /\ \A t \in Listed(load(f)) : t \in Txs /\ f[t] # "none"
<1> DEFINE back == {t \in Txs : f[t] \in {"Submitting", "Unknown"}}
           to(t) == {u \in back : u <= t}
           U == [t \in Txs |-> IF t \in back THEN Cardinality(to(t)) ELSE 0]
<1>1. IsFiniteSet(back) /\ \A t \in Txs : IsFiniteSet(to(t))
  BY TxsAreNumbers, FS_Subset
<1>2. Cardinality(back) \in Nat /\ \A t \in Txs : Cardinality(to(t)) \in Nat
  BY <1>1, FS_CardinalityType
<1>3. \A t \in back : Cardinality(to(t)) # 0
  <2> SUFFICES ASSUME NEW t \in back PROVE Cardinality(to(t)) # 0
    OBVIOUS
  <2>1. t \in to(t)
    BY TxsAreNumbers
  <2> HIDE DEF to
  <2> QED BY <1>1, <2>1, FS_EmptySet
<1>4. U \in [Txs -> Nat] /\ \A t \in back : U[t] # 0
  <2> HIDE DEF to
  <2> QED BY <1>2, <1>3
<1>5. load(f) = [unknown |-> U, next_unknown |-> Cardinality(back), taken |-> {},
                 carried |-> {t \in Txs : f[t] = "Sent"}, meta |-> back]
  BY DEF load
<1>6. /\ load(f) \in Record /\ load(f).taken = {}
      /\ load(f).unknown = U /\ load(f).carried = {t \in Txs : f[t] = "Sent"}
  <2>1. back \in SUBSET Txs /\ {t \in Txs : f[t] = "Sent"} \in SUBSET Txs
    OBVIOUS
  <2> HIDE DEF U, back
  <2> QED BY <1>2, <1>4, <1>5, <2>1 DEF Record
<1>7. ASSUME NEW t \in Txs, f[t] # "none" PROVE t \in Unknown(load(f)) \cup load(f).carried
  <2>1. t \in back \/ f[t] = "Sent"
    BY <1>7 DEF LegState
  <2> HIDE DEF U, back
  <2> QED BY <1>4, <1>6, <2>1 DEF Unknown
<1>8. \A t \in Txs : f[t] \in Back => t \in Unknown(load(f))
  <2>1. \A t \in Txs : f[t] \in Back => t \in back
    BY DEF Back
  <2> HIDE DEF U, back
  <2> QED BY <1>4, <1>6, <2>1 DEF Unknown
<1>9. \A t \in Listed(load(f)) : t \in Txs /\ f[t] # "none"
  <2>1. load(f).meta = back
    BY <1>5
  <2>2. \A t \in Txs : U[t] # 0 => t \in back
    OBVIOUS
  <2>3. \A t \in back : t \in Txs /\ f[t] # "none"
    OBVIOUS
  <2> HIDE DEF U, back
  <2>4. \A t \in Unknown(load(f)) : t \in back
    BY <1>6, <2>2 DEF Unknown
  <2> QED BY <1>6, <2>1, <2>3, <2>4 DEF Listed
<1> QED BY <1>6, <1>7, <1>8, <1>9

---------------------------------------------------------------------------
(***************************************************************************)
(* A step that persists its record: what is left to show for it.           *)
(***************************************************************************)

\* A snapshot joins the queue of writes: numbered last, it holds every leg that
\* may land, and so keeps what the file owes.
LEMMA PersistStep ==
  ASSUME IInv, NEW r \in Record, NEW S \in SUBSET Txs, Persist(r, S),
         S = Submitting', S \subseteq r.meta,
         pc' \in [Txs -> Commit], stash' \subseteq Txs, unanswered' \subseteq Txs,
         tried' \subseteq Txs, UNCHANGED <<file, written, starts, chain>>,
         \A t \in Txs : MayLand(t) /\ pc'[t] # "out" =>
           t \in Unknown(r) \cup r.carried \cup (r.meta \cap r.taken),
         \A t \in Txs : pc'[t] \in {"recorded", "out"} => pc[t] = pc'[t],
         awaits' \in [Txs -> Nat],
         \A t \in Txs : IF pc'[t] = "recording"
                        THEN \/ awaits'[t] = next + 1
                             \/ pc[t] = "recording" /\ awaits'[t] = awaits[t]
                        ELSE awaits'[t] = 0,
         \A t \in stash' : pc'[t] = "idle" /\ t \notin r.taken,
         \A t \in Txs : pc'[t] # "idle" => t \notin r.taken,
         unanswered' \subseteq unanswered \cup {t \in Txs : pc[t] = "out"},
         \A u \in unanswered' : MayLand(u) /\ pc'[u] # "out" => u \in Unknown(r),
         Listed(r) \subseteq tried', tried \subseteq tried'
  PROVE  IInv'
<1> DEFINE p == pruned(r, S)
           w == [gen |-> next + 1, legs |-> legs(p)]
<1>1. /\ p \in Record /\ Unknown(p) = Unknown(r) /\ p.taken = r.taken /\ p.carried = r.carried
      /\ p.meta = r.meta \cap (Unknown(r) \cup r.taken \cup S)
      /\ legs(p) \in [Txs -> LegState]
      /\ \A t \in Kept(r, S) : legs(p)[t] # "none"
      /\ \A t \in Unknown(r) \cup ((r.meta \cap S) \ r.taken) : legs(p)[t] \in Back
      /\ \A t \in Txs \ Listed(r) : legs(p)[t] = "none"
  BY CopyKeeps
<1>2. rec' = p /\ next' = next + 1 /\ queue' = queue \cup {w}
  BY DEF Persist
<1>3. /\ file' = file /\ written' = written /\ starts' = starts
      /\ left' = left /\ accepted' = accepted /\ spent' = spent
  BY DEF chain
<1>4. /\ next \in Nat /\ written \in Nat /\ written <= next
      /\ queue \subseteq [gen : 1..next, legs : [Txs -> LegState]]
      /\ file \in [Txs -> LegState] /\ awaits \in [Txs -> Nat] /\ pc \in [Txs -> Commit]
  BY DEF IInv, TypeOK, Numbered
<1>5. w \in [gen : 1..(next + 1), legs : [Txs -> LegState]] /\ w.gen = next + 1 /\ w.legs = legs(p)
  BY <1>1, <1>4
<1>6. \A t \in Txs : MayLand(t)' <=> MayLand(t)
  BY <1>3 DEF MayLand
<1>7. \A t \in Txs : MayLand(t) => t \in Kept(r, S)
  <2> SUFFICES ASSUME NEW t \in Txs, MayLand(t) PROVE t \in Kept(r, S)
    OBVIOUS
  <2>1. CASE pc'[t] = "out"
    BY <2>1 DEF Submitting, Kept
  <2>2. CASE pc'[t] # "out"
    BY <2>2 DEF Kept
  <2> QED BY <2>1, <2>2
<1> HIDE DEF p, w
<1>8. TypeOK'
  <2>1. queue' \subseteq [gen : 1..next', legs : [Txs -> LegState]]
    <3>1. \A v \in queue : v \in [gen : 1..(next + 1), legs : [Txs -> LegState]]
      BY <1>4
    <3> QED BY <1>2, <1>5, <3>1
  <2> QED BY <1>1, <1>2, <1>3, <1>4, <2>1 DEF IInv, TypeOK
<1>9. Numbered' /\ AcceptedIsSpent'
  BY <1>2, <1>3, <1>4 DEF IInv, Numbered, AcceptedIsSpent
<1>10. HeldBeforeRequest'
  BY <1>1, <1>2, <1>6 DEF HeldBeforeRequest
<1>11. NotTakenYet' /\ CommitsAreRemembered'
  BY <1>1, <1>2 DEF NotTakenYet, CommitsAreRemembered
<1>12. WaitsForItsWrite'
  BY <1>2, <1>4 DEF IInv, WaitsForItsWrite
<1>13. OnDisk'
  BY <1>3, <1>6 DEF IInv, Copies, OnDisk
<1>14. WritesKeepLegs'
  BY <1>1, <1>2, <1>3, <1>5, <1>6, <1>7 DEF IInv, Copies, WritesKeepLegs
<1>15. \A t \in S : w.legs[t] \in Back
  <2>1. \A t \in S : t \in (r.meta \cap S) \ r.taken
    BY DEF Submitting
  <2> QED BY <1>1, <1>5, <2>1
<1>16. RecordedIsWritten'
  <2> SUFFICES ASSUME NEW t \in Txs, pc'[t] \in {"recorded", "out"}
               PROVE  /\ file'[t] \in Back
                      /\ \A v \in queue' : v.gen > written' => v.legs[t] \in Back
    BY DEF RecordedIsWritten
  <2>1. t \in S
    BY DEF Submitting
  <2> QED BY <1>2, <1>3, <1>15, <2>1 DEF IInv, Copies, RecordedIsWritten
<1>17. RecordingIsQueued'
  <2> SUFFICES ASSUME NEW t \in Txs, pc'[t] = "recording"
               PROVE  /\ awaits'[t] <= written' => file'[t] \in Back
                      /\ \A v \in queue' : v.gen >= awaits'[t] => v.legs[t] \in Back
    BY DEF RecordingIsQueued
  <2>1. t \in S
    BY DEF Submitting
  <2>2. CASE awaits'[t] = next + 1
    <3>1. \A v \in queue : v.gen <= next /\ v.gen \in Nat
      BY <1>4
    <3> QED BY <1>2, <1>3, <1>4, <1>15, <2>1, <2>2, <3>1
  <2>3. CASE pc[t] = "recording" /\ awaits'[t] = awaits[t]
    BY <1>2, <1>3, <1>15, <2>1, <2>3 DEF IInv, Copies, RecordingIsQueued
  <2> QED BY <2>2, <2>3
<1>18. UnansweredIsWritten'
  <2> SUFFICES ASSUME NEW u \in unanswered', MayLand(u)
               PROVE  /\ file'[u] \in Back
                      /\ \A v \in queue' : v.gen > written' => v.legs[u] \in Back
    BY <1>6 DEF UnansweredIsWritten
  <2>1. /\ file[u] \in Back
        /\ \A v \in queue : v.gen > written => v.legs[u] \in Back
    <3>1. CASE u \in unanswered
      BY <3>1 DEF IInv, Copies, UnansweredIsWritten
    <3>2. CASE u \in Txs /\ pc[u] = "out"
      BY <3>2 DEF IInv, Copies, RecordedIsWritten
    <3> QED BY <3>1, <3>2
  <2>2. w.legs[u] \in Back
    <3>1. CASE pc'[u] = "out"
      <4>1. u \in S
        BY <3>1 DEF Submitting
      <4> QED BY <1>15, <4>1
    <3>2. CASE pc'[u] # "out"
      BY <1>1, <1>5, <3>2
    <3> QED BY <3>1, <3>2
  <2> QED BY <1>2, <1>3, <2>1, <2>2
<1>19. UnansweredIsUnknown'
  BY <1>1, <1>2, <1>6 DEF UnansweredIsUnknown
<1>20. OnlyTried'
  <2>1. Listed(p) \cup S \subseteq tried'
    BY <1>1 DEF Listed
  <2>2. \A t \in Txs \ tried' : w.legs[t] = "none"
    BY <1>1, <1>5
  <2> QED BY <1>2, <1>3, <2>1, <2>2 DEF IInv, OnlyTried
<1> QED BY <1>8, <1>9, <1>10, <1>11, <1>12, <1>13, <1>14, <1>16, <1>17, <1>18, <1>19, <1>20
        DEF IInv, Copies

\* The invariant's parts that the steps below use, with the types expanded.
LEMMA Facts ==
  ASSUME IInv
  PROVE  /\ rec \in Record /\ pc \in [Txs -> Commit] /\ awaits \in [Txs -> Nat]
         /\ rec.taken \subseteq Txs /\ rec.carried \subseteq Txs /\ rec.meta \subseteq Txs
         /\ Submitting \subseteq Txs /\ Submitting \subseteq rec.meta
         /\ stash \subseteq Txs /\ unanswered \subseteq Txs /\ tried \subseteq Txs
         /\ \A t \in Txs : pc[t] # "recording" => awaits[t] = 0
         /\ \A t \in Txs : MayLand(t) /\ pc[t] # "out" =>
              t \in Unknown(rec) \cup rec.carried \cup (rec.meta \cap rec.taken)
         /\ \A t \in stash : pc[t] = "idle" /\ t \notin rec.taken
         /\ \A t \in Txs : pc[t] # "idle" => t \notin rec.taken
         /\ \A u \in unanswered : MayLand(u) /\ pc[u] # "out" => u \in Unknown(rec)
         /\ Listed(rec) \subseteq tried
  BY DEF IInv, TypeOK, Record, Submitting, CommitsAreRemembered, WaitsForItsWrite,
         HeldBeforeRequest, NotTakenYet, UnansweredIsUnknown, OnlyTried

\* A step that leaves every commit where it is.
LEMMA FoldStep ==
  ASSUME IInv, NEW r \in Record, Persist(r, Submitting),
         UNCHANGED <<pc, awaits, file, written, starts, chain, unanswered, tried>>,
         stash' \subseteq Txs, \A t \in stash' : pc[t] = "idle" /\ t \notin r.taken,
         rec.meta \subseteq r.meta, r.taken \subseteq rec.taken, Listed(r) \subseteq Listed(rec),
         \A t \in Txs : MayLand(t) =>
           /\ pc[t] # "out" /\ t \in Unknown(rec) => t \in Unknown(r)
           /\ t \in rec.carried => t \in Unknown(r) \cup r.carried
           /\ t \in rec.taken => t \in r.taken
  PROVE  IInv'
<1>1. Submitting' = Submitting /\ Submitting \in SUBSET Txs
  BY DEF Submitting
<1>2. \A t \in Txs : MayLand(t) /\ pc'[t] # "out" =>
        t \in Unknown(r) \cup r.carried \cup (r.meta \cap r.taken)
  BY Facts
<1>3. \A t \in Txs : IF pc'[t] = "recording"
                     THEN \/ awaits'[t] = next + 1
                          \/ pc[t] = "recording" /\ awaits'[t] = awaits[t]
                     ELSE awaits'[t] = 0
  BY Facts
<1>4. \A t \in Txs : pc'[t] # "idle" => t \notin r.taken
  BY Facts
<1>5. /\ unanswered' \subseteq unanswered \cup {t \in Txs : pc[t] = "out"}
      /\ \A u \in unanswered' : MayLand(u) /\ pc'[u] # "out" => u \in Unknown(r)
      /\ Listed(r) \subseteq tried' /\ tried \subseteq tried'
  BY Facts
<1> QED BY <1>1, <1>2, <1>3, <1>4, <1>5, Facts, PersistStep

\* A step in which t's commit ends, and only t's place in the record changes.
LEMMA ReturnStep ==
  ASSUME IInv, NEW t \in Txs, NEW r \in Record, pc[t] \in {"recorded", "out"},
         Persist(r, Submitting \ {t}), pc' = [pc EXCEPT ![t] = "idle"],
         UNCHANGED <<stash, awaits, file, written, starts, chain, tried>>,
         unanswered' \ {t} = unanswered \ {t}, pc[t] = "recorded" => unanswered' = unanswered,
         MayLand(t) /\ t \in unanswered' => t \in Unknown(r), Listed(r) \subseteq Listed(rec) \cup {t},
         \A u \in Txs \ {t} : /\ u \in Unknown(rec) => u \in Unknown(r)
                              /\ u \in rec.carried => u \in r.carried
                              /\ u \in rec.meta => u \in r.meta
                              /\ u \in rec.taken <=> u \in r.taken,
         MayLand(t) => t \in Unknown(r) \cup r.carried \cup (r.meta \cap r.taken)
  PROVE  IInv'
<1>1. pc' \in [Txs -> Commit] /\ pc'[t] = "idle" /\ \A u \in Txs \ {t} : pc'[u] = pc[u]
  BY Facts DEF Commit
<1>2. Submitting' = Submitting \ {t} /\ Submitting \ {t} \in SUBSET Txs
  BY <1>1 DEF Submitting
<1>3. Submitting \ {t} \subseteq r.meta
  BY Facts
<1>4. \A u \in Txs : MayLand(u) /\ pc'[u] # "out" =>
        u \in Unknown(r) \cup r.carried \cup (r.meta \cap r.taken)
  BY <1>1, Facts
<1>5. \A u \in Txs : pc'[u] \in {"recorded", "out"} => pc[u] = pc'[u]
  BY <1>1
<1>6. \A u \in Txs : IF pc'[u] = "recording"
                     THEN \/ awaits'[u] = next + 1
                          \/ pc[u] = "recording" /\ awaits'[u] = awaits[u]
                     ELSE awaits'[u] = 0
  BY <1>1, Facts
<1>7. /\ stash' \subseteq Txs /\ awaits' \in [Txs -> Nat]
      /\ \A u \in stash' : pc'[u] = "idle" /\ u \notin r.taken
      /\ \A u \in Txs : pc'[u] # "idle" => u \notin r.taken
  BY <1>1, Facts
<1>8. /\ unanswered' \subseteq unanswered \cup {u \in Txs : pc[u] = "out"}
      /\ \A u \in unanswered' : MayLand(u) /\ pc'[u] # "out" => u \in Unknown(r)
      /\ unanswered' \subseteq Txs
  BY <1>1, Facts
<1>9. t \in tried
  BY DEF IInv, OnlyTried, Submitting
<1>10. Listed(r) \subseteq tried' /\ tried \subseteq tried' /\ tried' \subseteq Txs
  BY <1>9, Facts
<1> QED BY <1>1, <1>2, <1>3, <1>4, <1>5, <1>6, <1>7, <1>8, <1>10, Facts, PersistStep

---------------------------------------------------------------------------
(***************************************************************************)
(* Each action.                                                            *)
(***************************************************************************)

\* prepare_send: its read of the node retires only legs that can no longer land,
\* and the plan it stashes is not in a commit.
LEMMA PrepareStep ==
  ASSUME IInv, ~Overlap, NEW t \in Txs, Prepare(t)
  PROVE  IInv'
<1>1. PICK listed \in SUBSET accepted, gone \in SUBSET spent :
        LET r == Judged(rec, listed, gone, NoneStale)
        IN  Builds(r, t) /\ Persist(r, Submitting)
  BY DEF Prepare
<1> DEFINE r == Judged(rec, listed, gone, NoneStale)
<1>2. /\ r \in Record
      /\ \A u \in Txs : MayLand(u) =>
           /\ u \in Unknown(rec) => u \in Unknown(r)
           /\ u \in rec.carried => u \in Unknown(r) \cup r.carried
           /\ u \in rec.taken => u \in r.taken
      /\ rec.meta \subseteq r.meta /\ r.taken \subseteq rec.taken
      /\ Listed(r) \subseteq Listed(rec)
  <2>1. TypeOK /\ {} \in SUBSET rec.carried /\ NoneStale \in [{} -> Nat]
    BY DEF IInv, NoneStale
  <2>2. \A u \in {} : NoneStale[u] # 0
    OBVIOUS
  <2> QED BY <2>1, <2>2, ReadKeeps
<1>3. In[t] \cap Withheld(r) = {}
  BY <1>1 DEF Builds
<1>4. t \notin r.taken
  <2>1. In[t] # {}
    BY CoinsAreSpent
  <2>2. t \in r.taken => In[t] \subseteq Withheld(r)
    BY DEF Withheld, Inputs
  <2> QED BY <1>3, <2>1, <2>2
<1>5. pc[t] = "idle"
  BY DEF Prepare, Submitting, SameStash
<1> HIDE DEF r
<1>6. stash' \subseteq Txs /\ \A u \in stash' : pc[u] = "idle" /\ u \notin r.taken
  BY <1>2, <1>4, <1>5, Facts DEF Prepare
<1>7. UNCHANGED <<pc, awaits, file, written, starts, chain, unanswered, tried>>
  BY DEF Prepare
<1> QED BY <1>1, <1>2, <1>6, <1>7, FoldStep DEF r

\* An abandoned plan was never sent.
LEMMA AbandonStep ==
  ASSUME IInv, NEW t \in Txs, Abandon(t)
  PROVE  IInv'
<1> USE DEF Abandon, chain
<1>1. TypeOK' /\ NotTakenYet'
  BY DEF IInv, TypeOK, NotTakenYet
<1>2. Submitting' = Submitting /\ \A u \in Txs : MayLand(u)' <=> MayLand(u)
  BY DEF Submitting, MayLand
<1>3. Numbered' /\ AcceptedIsSpent' /\ WaitsForItsWrite'
  BY DEF IInv, Numbered, AcceptedIsSpent, WaitsForItsWrite
<1>4. HeldBeforeRequest' /\ CommitsAreRemembered'
  BY <1>2 DEF IInv, HeldBeforeRequest, CommitsAreRemembered
<1>5. Copies'
  BY <1>2, Facts DEF IInv, Copies, OnDisk, WritesKeepLegs, RecordedIsWritten, RecordingIsQueued,
              UnansweredIsWritten
<1>6. UnansweredIsUnknown' /\ OnlyTried'
  BY <1>2, Facts DEF IInv, UnansweredIsUnknown, OnlyTried
<1> QED BY <1>1, <1>3, <1>4, <1>5, <1>6 DEF IInv

\* LoggedLeg::begin: the leg is remembered, logged and copied before anything
\* leaves, and its commit awaits that copy.
LEMMA BeginStep ==
  ASSUME IInv, NEW t \in Txs, Begin(t)
  PROVE  IInv'
<1> DEFINE r == remember_leg(rec, t)
<1>1. /\ r \in Record /\ Unknown(r) = Unknown(rec) /\ r.taken = rec.taken
      /\ r.carried = rec.carried /\ r.meta = rec.meta \cup {t}
  BY Facts DEF remember_leg, Record, Unknown
<1>2. pc' \in [Txs -> Commit] /\ pc'[t] = "recording" /\ \A u \in Txs \ {t} : pc'[u] = pc[u]
  BY Facts DEF Begin, Commit
<1>3. awaits'[t] = next + 1 /\ \A u \in Txs \ {t} : awaits'[u] = awaits[u]
  BY Facts DEF Begin
<1>4. awaits' \in [Txs -> Nat]
  BY Facts DEF Begin, IInv, TypeOK
<1>5. Submitting' = Submitting \cup {t}
  BY <1>2 DEF Submitting, Begin
<1>6. Submitting \cup {t} \in SUBSET Txs /\ Submitting \cup {t} \subseteq r.meta
  BY <1>1, Facts
<1> HIDE DEF r
<1>7. \A u \in Txs : MayLand(u) /\ pc'[u] # "out" =>
        u \in Unknown(r) \cup r.carried \cup (r.meta \cap r.taken)
  BY <1>1, <1>2, Facts DEF Begin
<1>8. \A u \in Txs : pc'[u] \in {"recorded", "out"} => pc[u] = pc'[u]
  BY <1>2
<1>9. \A u \in Txs : IF pc'[u] = "recording"
                     THEN \/ awaits'[u] = next + 1
                          \/ pc[u] = "recording" /\ awaits'[u] = awaits[u]
                     ELSE awaits'[u] = 0
  BY <1>2, <1>3, Facts
<1>10. /\ \A u \in stash' : pc'[u] = "idle" /\ u \notin r.taken
       /\ \A u \in Txs : pc'[u] # "idle" => u \notin r.taken
  BY <1>1, <1>2, Facts DEF Begin
<1>11. /\ stash' \subseteq Txs /\ unanswered' \subseteq Txs /\ tried' \subseteq Txs
       /\ UNCHANGED <<file, written, starts, chain>>
  BY Facts DEF Begin
<1>12. Persist(r, Submitting \cup {t})
  BY DEF Begin, r
<1>13. unanswered' \subseteq unanswered \cup {u \in Txs : pc[u] = "out"}
  BY DEF Begin
<1>14. \A u \in unanswered' : MayLand(u) /\ pc'[u] # "out" => u \in Unknown(r)
  BY <1>1, <1>2, Facts DEF Begin
<1>15. Listed(r) \subseteq tried' /\ tried \subseteq tried'
  BY <1>1, Facts DEF Begin, Listed
<1> QED BY <1>1, <1>2, <1>4, <1>5, <1>6, <1>7, <1>8, <1>9, <1>10, <1>11, <1>12, <1>13, <1>14,
           <1>15, PersistStep

\* A leg refused at admission leaves the record: its request never left.
LEMMA RefusedStep ==
  ASSUME IInv, NEW t \in Txs, Refused(t)
  PROVE  IInv'
<1> DEFINE r == forget_leg(rec, t)
<1>1. /\ r \in Record /\ Unknown(r) = Unknown(rec) /\ r.taken = rec.taken
      /\ r.carried = rec.carried /\ r.meta = rec.meta \ {t}
  BY Facts DEF forget_leg, submit_returned, Record, Unknown
<1>2. /\ pc[t] = "recorded" /\ pc' = [pc EXCEPT ![t] = "idle"] /\ Persist(r, Submitting \ {t})
      /\ UNCHANGED <<stash, awaits, file, written, starts, chain, tried, unanswered>>
  BY DEF Refused
<1> HIDE DEF r
<1>3. MayLand(t) => t \in Unknown(r) \cup r.carried
  BY <1>1, <1>2, Facts
<1>4. Listed(r) \subseteq Listed(rec)
  BY <1>1 DEF Listed
<1> QED BY <1>1, <1>2, <1>3, <1>4, Facts, ReturnStep

\* An error that proves nothing reached a node ends the commit like a refusal.
LEMMA NotSentStep ==
  ASSUME IInv, NEW t \in Txs, NotSent(t)
  PROVE  IInv'
<1>1. /\ pc[t] = "recorded" /\ pc' = [pc EXCEPT ![t] = "idle"] /\ Persist(rec, Submitting \ {t})
      /\ UNCHANGED <<stash, awaits, file, written, starts, chain, tried, unanswered>>
  BY DEF NotSent, submit_returned
<1>2. MayLand(t) => t \in Unknown(rec) \cup rec.carried
  BY <1>1, Facts
<1> QED BY <1>1, <1>2, Facts, ReturnStep

\* A leg that t's submit may have sent is kept when t was remembered.
LEMMA SubmitReturns ==
  ASSUME IInv, NEW t \in Txs, NEW r \in Record, pc[t] = "out",
         Persist(submit_returned(r, t, TRUE), Submitting \ {t}),
         pc' = [pc EXCEPT ![t] = "idle"], unanswered' \ {t} = unanswered \ {t},
         t \in unanswered' => t \in Unknown(r),
         UNCHANGED <<stash, awaits, file, written, starts, chain, tried>>,
         r.meta = rec.meta, r.carried = rec.carried,
         r.taken \ {t} = rec.taken \ {t}, Unknown(r) \ {t} = Unknown(rec) \ {t}
  PROVE  IInv'
<1> DEFINE s == submit_returned(r, t, TRUE)
<1>1. t \in r.meta
  BY Facts DEF Submitting
<1>2. /\ s \in Record /\ s.taken = r.taken /\ s.meta = r.meta /\ s.carried = r.carried \ {t}
      /\ Unknown(r) \subseteq Unknown(s) /\ Unknown(s) \subseteq Unknown(r) \cup {t}
      /\ t \in Unknown(s) \cup s.taken
  BY <1>1, ReturnedIsHeld
<1> HIDE DEF s
<1>3. Persist(s, Submitting \ {t})
  BY DEF s
<1>4. Listed(s) \subseteq Listed(rec) \cup {t}
  BY <1>2 DEF Listed
<1> QED BY <1>1, <1>2, <1>3, <1>4, ReturnStep

\* The node took the leg: it stays on record as taken when the pin kept its record,
\* and of unknown fate when it did not.
LEMMA SubmitOkStep ==
  ASSUME IInv, NEW t \in Txs, NEW kept \in BOOLEAN, SubmitOk(t, kept)
  PROVE  IInv'
<1> DEFINE taken == IF kept THEN [rec EXCEPT !.taken = @ \cup {t}] ELSE rec
           r == own_send_seen(taken, t)
<1>1. /\ taken \in Record /\ Unknown(taken) = Unknown(rec)
      /\ taken.taken \ {t} = rec.taken \ {t}
      /\ taken.carried = rec.carried /\ taken.meta = rec.meta
  <2>1. CASE kept
    BY <2>1, Facts DEF Record, Unknown
  <2>2. CASE ~kept
    BY <2>2, Facts
  <2> QED BY <2>1, <2>2
<1>2. /\ pc[t] = "out" /\ pc' = [pc EXCEPT ![t] = "idle"] /\ unanswered' = unanswered \ {t}
      /\ Persist(submit_returned(r, t, TRUE), Submitting \ {t})
      /\ UNCHANGED <<stash, awaits, file, written, starts, chain, tried>>
  BY DEF SubmitOk
<1> HIDE DEF taken
<1>3. /\ r \in Record /\ Unknown(r) = Unknown(taken) \ {t} /\ r.taken = taken.taken
      /\ r.carried = taken.carried /\ r.meta = taken.meta
  BY <1>1, WithoutDrops DEF own_send_seen
<1> HIDE DEF r
<1> QED BY <1>1, <1>2, <1>3, SubmitReturns

\* No answer, the pin cancelled the leg: it becomes one of unknown fate.
LEMMA SubmitErrStep ==
  ASSUME IInv, NEW t \in Txs, SubmitErr(t)
  PROVE  IInv'
<1>1. /\ pc[t] = "out" /\ pc' = [pc EXCEPT ![t] = "idle"] /\ unanswered' = unanswered \cup {t}
      /\ Persist(submit_returned(fate_unknown(rec, t), t, TRUE), Submitting \ {t})
      /\ UNCHANGED <<stash, awaits, file, written, starts, chain, tried>>
  BY DEF SubmitErr
<1>2. /\ fate_unknown(rec, t) \in Record
      /\ Unknown(fate_unknown(rec, t)) = Unknown(rec) \cup {t}
      /\ fate_unknown(rec, t).taken = rec.taken /\ fate_unknown(rec, t).carried = rec.carried
      /\ fate_unknown(rec, t).meta = rec.meta
  BY Facts, FateUnknownAdds
<1> QED BY <1>1, <1>2, Facts, SubmitReturns

\* No answer, the pin kept its record: the leg counts as taken.
LEMMA SubmitErrKeptStep ==
  ASSUME IInv, NEW t \in Txs, SubmitErrKept(t)
  PROVE  IInv'
<1> DEFINE r == [rec EXCEPT !.taken = @ \cup {t}]
<1>1. /\ r \in Record /\ Unknown(r) = Unknown(rec) /\ r.taken \ {t} = rec.taken \ {t}
      /\ r.carried = rec.carried /\ r.meta = rec.meta
  BY Facts DEF Record, Unknown
<1>2. /\ pc[t] = "out" /\ pc' = [pc EXCEPT ![t] = "idle"] /\ unanswered' = unanswered \ {t}
      /\ Persist(submit_returned(r, t, TRUE), Submitting \ {t})
      /\ UNCHANGED <<stash, awaits, file, written, starts, chain, tried>>
  BY DEF SubmitErrKept
<1> HIDE DEF r
<1> QED BY <1>1, <1>2, Facts, SubmitReturns

\* The request leaves: from here the leg may land, and it is already written.
LEMMA RequestStep ==
  ASSUME IInv, NEW t \in Txs, Request(t)
  PROVE  IInv'
<1> USE DEF Request
<1>1. /\ pc[t] = "recorded" /\ pc'[t] = "out" /\ pc' \in [Txs -> Commit]
      /\ \A u \in Txs \ {t} : pc'[u] = pc[u]
  BY Facts DEF Commit
<1>2. Submitting' = Submitting
  BY <1>1 DEF Submitting
<1>3. \A u \in Txs \ {t} : MayLand(u)' <=> MayLand(u)
  BY DEF MayLand
<1>4. TypeOK'
  BY <1>1 DEF IInv, TypeOK
<1>5. Numbered' /\ AcceptedIsSpent'
  BY DEF IInv, Numbered, AcceptedIsSpent
<1>6. WaitsForItsWrite' /\ NotTakenYet'
  BY <1>1, Facts DEF IInv, WaitsForItsWrite, NotTakenYet
<1>7. HeldBeforeRequest' /\ CommitsAreRemembered'
  BY <1>1, <1>2, <1>3 DEF IInv, HeldBeforeRequest, CommitsAreRemembered
<1>8. /\ file[t] \in Back
      /\ \A w \in queue : w.gen > written => w.legs[t] \in Back
  BY <1>1 DEF IInv, Copies, RecordedIsWritten
<1>9. OnDisk' /\ WritesKeepLegs' /\ UnansweredIsWritten'
  BY <1>3, <1>8, Facts DEF IInv, Copies, OnDisk, WritesKeepLegs, UnansweredIsWritten, Back
<1>10. RecordedIsWritten' /\ RecordingIsQueued'
  BY <1>1, <1>8 DEF IInv, Copies, RecordedIsWritten, RecordingIsQueued
<1>11. UnansweredIsUnknown' /\ OnlyTried'
  BY <1>1, <1>2, <1>3, Facts DEF IInv, UnansweredIsUnknown, OnlyTried
<1> QED BY <1>4, <1>5, <1>6, <1>7, <1>9, <1>10, <1>11 DEF IInv, Copies

\* The commit is dropped: its leg, remembered, becomes one of unknown fate.
LEMMA DroppedStep ==
  ASSUME IInv, NEW t \in Txs, Dropped(t)
  PROVE  IInv'
<1>1. /\ pc'[t] = "idle" /\ pc' \in [Txs -> Commit] /\ \A u \in Txs \ {t} : pc'[u] = pc[u]
      /\ awaits'[t] = 0 /\ awaits' \in [Txs -> Nat]
      /\ \A u \in Txs \ {t} : awaits'[u] = awaits[u]
  BY Facts DEF Dropped, Commit
<1>2. t \in rec.meta
  BY Facts DEF Dropped, Submitting
<1>3. /\ rec' \in Record /\ rec'.taken = rec.taken /\ rec'.meta = rec.meta
      /\ rec'.carried = rec.carried \ {t}
      /\ Unknown(rec) \subseteq Unknown(rec') /\ Unknown(rec') \subseteq Unknown(rec) \cup {t}
      /\ t \in Unknown(rec') \cup rec'.taken
  BY <1>2, Facts, ReturnedIsHeld DEF Dropped
<1>4. /\ UNCHANGED <<stash, file, written, next, queue, starts, left, accepted, spent, tried>>
      /\ unanswered' \subseteq unanswered \cup {u \in {t} : pc[u] = "out"}
      /\ unanswered' \subseteq Txs
  BY Facts DEF Dropped, chain
<1>5. Submitting' = Submitting \ {t} /\ \A u \in Txs : MayLand(u)' <=> MayLand(u)
  BY <1>1, <1>4 DEF Submitting, MayLand
<1>6. TypeOK'
  BY <1>1, <1>3, <1>4 DEF IInv, TypeOK
<1>7. Numbered' /\ AcceptedIsSpent'
  BY <1>4 DEF IInv, Numbered, AcceptedIsSpent
<1>8. HeldBeforeRequest' /\ CommitsAreRemembered'
  <2>1. \A u \in Txs : MayLand(u) /\ pc'[u] # "out" =>
          u \in Unknown(rec') \cup rec'.carried \cup (rec'.meta \cap rec'.taken)
    BY <1>1, <1>2, <1>3, Facts
  <2>2. Submitting \ {t} \subseteq rec'.meta
    BY <1>3, Facts
  <2> QED BY <1>5, <2>1, <2>2 DEF HeldBeforeRequest, CommitsAreRemembered
<1>9. WaitsForItsWrite' /\ NotTakenYet'
  BY <1>1, <1>3, <1>4, Facts DEF IInv, WaitsForItsWrite, NotTakenYet
<1>10. Copies'
  <2>1. UnansweredIsWritten'
    BY <1>4, <1>5 DEF IInv, Copies, RecordedIsWritten, UnansweredIsWritten
  <2> QED BY <1>1, <1>4, <1>5, <2>1
          DEF IInv, Copies, OnDisk, WritesKeepLegs, RecordedIsWritten, RecordingIsQueued
<1>11. UnansweredIsUnknown'
  <2>1. t \notin rec.taken
    BY Facts DEF Dropped
  <2>2. t \in Unknown(rec')
    BY <1>3, <2>1
  <2> QED BY <1>1, <1>3, <1>4, <1>5, <2>2, Facts DEF UnansweredIsUnknown
<1>12. OnlyTried'
  <2>1. Listed(rec') \subseteq Listed(rec) \cup {t} /\ t \in Submitting
    BY <1>2, <1>3 DEF Listed, Dropped, Submitting
  <2> QED BY <1>4, <1>5, <2>1 DEF IInv, OnlyTried
<1> QED BY <1>6, <1>7, <1>8, <1>9, <1>10, <1>11, <1>12 DEF IInv

\* A write lands: no older copy takes the place of a newer one, and the commit
\* that awaits it finds its leg in the file.
LEMMA LandsStep ==
  ASSUME IInv, NEW w \in queue, Lands(w)
  PROVE  IInv'
<1>1. /\ w.gen \in 1..next /\ w.legs \in [Txs -> LegState] /\ next \in Nat /\ written \in Nat
      /\ file \in [Txs -> LegState]
      /\ \A v \in queue : v.gen \in Nat
  BY DEF IInv, TypeOK
<1>2. \A t \in Awaiting(w) : t \in Txs /\ pc[t] = "recording" /\ awaits[t] = w.gen
  BY <1>1, Facts DEF Awaiting
<1>3. /\ pc' = [t \in Txs |-> IF t \in Awaiting(w) THEN "recorded" ELSE pc[t]]
      /\ awaits' = [t \in Txs |-> IF t \in Awaiting(w) THEN 0 ELSE awaits[t]]
      /\ queue' = queue \ {w}
      /\ UNCHANGED <<rec, stash, next, starts, left, accepted, spent, unanswered, tried>>
  BY DEF Lands, chain
<1>4. \/ w.gen <= written /\ file' = file /\ written' = written
      \/ w.gen > written /\ file' = w.legs /\ written' = w.gen
  BY <1>1 DEF Lands
<1>5. /\ \A t \in Txs : pc'[t] = IF t \in Awaiting(w) THEN "recorded" ELSE pc[t]
      /\ \A t \in Txs : awaits'[t] = IF t \in Awaiting(w) THEN 0 ELSE awaits[t]
      /\ pc' \in [Txs -> Commit] /\ awaits' \in [Txs -> Nat]
  BY <1>3, Facts DEF Commit
<1>6. Submitting' = Submitting /\ \A t \in Txs : MayLand(t)' <=> MayLand(t)
  BY <1>2, <1>3, <1>5 DEF Submitting, MayLand
<1>7. TypeOK' /\ Numbered' /\ AcceptedIsSpent'
  BY <1>1, <1>3, <1>4, <1>5 DEF IInv, TypeOK, Numbered, AcceptedIsSpent
<1>8. HeldBeforeRequest' /\ CommitsAreRemembered'
  BY <1>2, <1>3, <1>5, <1>6 DEF IInv, HeldBeforeRequest, CommitsAreRemembered
<1>9. WaitsForItsWrite' /\ NotTakenYet'
  BY <1>2, <1>3, <1>5, Facts DEF IInv, WaitsForItsWrite, NotTakenYet
<1>10. OnDisk' /\ WritesKeepLegs' /\ UnansweredIsWritten'
  BY <1>1, <1>3, <1>4, <1>6, Facts DEF IInv, Copies, OnDisk, WritesKeepLegs, UnansweredIsWritten
<1>11. RecordedIsWritten'
  <2> SUFFICES ASSUME NEW t \in Txs, pc'[t] \in {"recorded", "out"}
               PROVE  /\ file'[t] \in Back
                      /\ \A v \in queue' : v.gen > written' => v.legs[t] \in Back
    BY DEF RecordedIsWritten
  <2>1. CASE t \in Awaiting(w)
    <3>1. /\ awaits[t] <= written => file[t] \in Back
          /\ \A v \in queue : v.gen >= awaits[t] => v.legs[t] \in Back
      BY <1>2, <2>1 DEF IInv, Copies, RecordingIsQueued
    <3> QED BY <1>1, <1>2, <1>3, <1>4, <2>1, <3>1
  <2>2. CASE t \notin Awaiting(w)
    <3>1. /\ file[t] \in Back
          /\ \A v \in queue : v.gen > written => v.legs[t] \in Back
      BY <1>5, <2>2 DEF IInv, Copies, RecordedIsWritten
    <3> QED BY <1>1, <1>3, <1>4, <3>1
  <2> QED BY <2>1, <2>2
<1>12. RecordingIsQueued'
  <2> SUFFICES ASSUME NEW t \in Txs, pc'[t] = "recording"
               PROVE  /\ awaits'[t] <= written' => file'[t] \in Back
                      /\ \A v \in queue' : v.gen >= awaits'[t] => v.legs[t] \in Back
    BY DEF RecordingIsQueued
  <2>1. pc[t] = "recording" /\ awaits'[t] = awaits[t] /\ awaits[t] \in Nat
    BY <1>5, Facts
  <2>2. /\ awaits[t] <= written => file[t] \in Back
        /\ \A v \in queue : v.gen >= awaits[t] => v.legs[t] \in Back
    BY <2>1 DEF IInv, Copies, RecordingIsQueued
  <2> QED BY <1>1, <1>3, <1>4, <2>1, <2>2
<1>13. UnansweredIsUnknown'
  BY <1>2, <1>3, <1>5, <1>6, Facts DEF IInv, UnansweredIsUnknown
<1>14. OnlyTried'
  BY <1>3, <1>4, <1>6 DEF IInv, OnlyTried
<1> QED BY <1>7, <1>8, <1>9, <1>10, <1>11, <1>12, <1>13, <1>14 DEF IInv, Copies

\* A write fails: the leg refused for it was never sent by this commit, and
\* what an earlier one left of it stays.
LEMMA LandFailsStep ==
  ASSUME IInv, NEW w \in queue, LandFails(w)
  PROVE  IInv'
<1>1. w.gen \in 1..next
  BY DEF IInv, TypeOK
<1>2. \A t \in Awaiting(w) : t \in Txs /\ pc[t] = "recording" /\ t \notin rec.taken
  BY <1>1, Facts DEF Awaiting
<1>3. /\ pc' = [t \in Txs |-> IF t \in Awaiting(w) THEN "idle" ELSE pc[t]]
      /\ awaits' = [t \in Txs |-> IF t \in Awaiting(w) THEN 0 ELSE awaits[t]]
      /\ queue' = queue \ {w}
      /\ UNCHANGED <<stash, file, written, next, starts, left, accepted, spent, unanswered, tried>>
  BY DEF LandFails, chain
<1>4. /\ rec' \in Record /\ Unknown(rec') = Unknown(rec) /\ rec'.taken = rec.taken
      /\ rec'.carried = rec.carried
      /\ rec'.meta \subseteq rec.meta /\ rec.meta \ Awaiting(w) \subseteq rec'.meta
  <2>1. CASE rec' = rec
    BY <2>1, Facts
  <2>2. CASE \E t \in Awaiting(w) : rec' = forget_leg(rec, t)
    BY <2>2, Facts DEF forget_leg, submit_returned, Record, Unknown
  <2> QED BY <2>1, <2>2 DEF LandFails
<1>5. /\ \A t \in Txs : pc'[t] = IF t \in Awaiting(w) THEN "idle" ELSE pc[t]
      /\ \A t \in Txs : awaits'[t] = IF t \in Awaiting(w) THEN 0 ELSE awaits[t]
      /\ pc' \in [Txs -> Commit] /\ awaits' \in [Txs -> Nat]
  BY <1>3, Facts DEF Commit
<1>6. Submitting' = Submitting \ Awaiting(w) /\ \A t \in Txs : MayLand(t)' <=> MayLand(t)
  BY <1>2, <1>3, <1>5 DEF Submitting, MayLand
<1>7. TypeOK'
  BY <1>3, <1>4, <1>5 DEF IInv, TypeOK
<1>8. Numbered' /\ AcceptedIsSpent'
  BY <1>3 DEF IInv, Numbered, AcceptedIsSpent
<1>9. HeldBeforeRequest'
  <2>1. \A t \in Txs : MayLand(t) /\ pc'[t] # "out" =>
          t \in Unknown(rec') \cup rec'.carried \cup (rec'.meta \cap rec'.taken)
    BY <1>2, <1>4, <1>5, Facts
  <2> QED BY <1>6, <2>1 DEF HeldBeforeRequest
<1>10. CommitsAreRemembered'
  BY <1>4, <1>6, Facts DEF CommitsAreRemembered
<1>11. WaitsForItsWrite' /\ NotTakenYet'
  BY <1>2, <1>3, <1>4, <1>5, Facts DEF IInv, WaitsForItsWrite, NotTakenYet
<1>12. Copies'
  BY <1>2, <1>3, <1>5, <1>6, Facts
     DEF IInv, Copies, OnDisk, WritesKeepLegs, RecordedIsWritten, RecordingIsQueued,
         UnansweredIsWritten
<1>13. UnansweredIsUnknown'
  BY <1>2, <1>3, <1>4, <1>5, <1>6, Facts DEF IInv, UnansweredIsUnknown
<1>14. OnlyTried'
  <2>1. Listed(rec') \subseteq Listed(rec)
    BY <1>4 DEF Listed
  <2> QED BY <1>3, <1>6, <2>1 DEF IInv, OnlyTried
<1> QED BY <1>7, <1>8, <1>9, <1>10, <1>11, <1>12, <1>13, <1>14 DEF IInv

\* The fold sees t land: the legs it retires can no longer land themselves.
LEMMA SeenLandedStep ==
  ASSUME IInv, NEW t \in Txs, NEW entered \in BOOLEAN, SeenLanded(t, entered)
  PROVE  IInv'
<1> DEFINE o == own_send_seen(rec, t)
           s == [o EXCEPT !.taken = @ \ {t}, !.carried = @ \ {t}]
           r == leave(rec, t, entered)
<1>1. /\ o \in Record /\ Unknown(o) = Unknown(rec) \ {t} /\ o.taken = rec.taken
      /\ o.carried = rec.carried /\ o.meta = rec.meta
  BY Facts, WithoutDrops DEF own_send_seen
<1>2. /\ s \in Record /\ Unknown(s) = Unknown(rec) \ {t} /\ s.taken = rec.taken \ {t}
      /\ s.carried = rec.carried \ {t} /\ s.meta = rec.meta
  <2> HIDE DEF o
  <2> QED BY <1>1 DEF Record, Unknown
<1>3. r = IF entered THEN coins_spent(s, In[t]) ELSE s
  BY DEF leave
<1>4. In[t] \subseteq spent /\ In[t] # {}
  BY CoinsAreSpent DEF IInv, AcceptedIsSpent, SeenLanded
<1> HIDE DEF o, s, r
<1>5. /\ r \in Record /\ r.taken = rec.taken \ {t} /\ r.carried = rec.carried \ {t}
      /\ r.meta = rec.meta
      /\ \A u \in Txs : u \in Unknown(rec) /\ u # t /\ In[u] \cap In[t] = {} => u \in Unknown(r)
      /\ Unknown(r) \subseteq Unknown(rec)
  <2>1. CASE ~entered
    BY <1>2, <1>3, <2>1
  <2>2. CASE entered
    BY <1>2, <1>3, <2>2, WithoutDrops DEF coins_spent
  <2> QED BY <2>1, <2>2
<1>6. \A u \in Txs : MayLand(u) => u # t /\ In[u] \cap In[t] = {}
  BY <1>4 DEF MayLand
<1>7. /\ Persist(r, Submitting)
      /\ UNCHANGED <<stash, pc, awaits, file, written, starts, chain, unanswered, tried>>
  BY DEF SeenLanded, r
<1>8. Listed(r) \subseteq Listed(rec)
  BY <1>5 DEF Listed
<1> QED BY <1>5, <1>6, <1>7, <1>8, Facts, FoldStep

\* Our own Pending record: the leg is in its submit, and stays logged for it.
LEMMA OwnPendingStep ==
  ASSUME IInv, NEW t \in Txs, OwnPending(t)
  PROVE  IInv'
<1> DEFINE r == own_send_seen(rec, t)
<1>1. /\ r \in Record /\ Unknown(r) = Unknown(rec) \ {t} /\ r.taken = rec.taken
      /\ r.carried = rec.carried /\ r.meta = rec.meta
  BY Facts, WithoutDrops DEF own_send_seen
<1>2. /\ pc[t] = "out" /\ Persist(r, Submitting)
      /\ UNCHANGED <<stash, pc, awaits, file, written, starts, chain, unanswered, tried>>
  BY DEF OwnPending
<1> HIDE DEF r
<1>3. Listed(r) \subseteq Listed(rec)
  BY <1>1 DEF Listed
<1> QED BY <1>1, <1>2, <1>3, Facts, FoldStep

\* A coin spent by nobody here: the legs that wanted it cannot land.
LEMMA CoinGoneStep ==
  ASSUME IInv, NEW c \in Coins, CoinGone(c)
  PROVE  IInv'
<1> DEFINE T == {t \in Txs : In[t] \cap {c} # {}}
           r == coins_spent(rec, {c})
<1>1. /\ r \in Record /\ Unknown(r) = Unknown(rec) \ T /\ r.taken = rec.taken
      /\ r.carried = rec.carried /\ r.meta = rec.meta
  BY Facts, WithoutDrops DEF coins_spent
<1>2. \A t \in Txs : MayLand(t) => t \notin T
  BY DEF MayLand, CoinGone
<1>3. /\ Persist(r, Submitting)
      /\ UNCHANGED <<stash, pc, awaits, file, written, starts, chain, unanswered, tried>>
  BY DEF CoinGone
<1> HIDE DEF T, r
<1>4. Listed(r) \subseteq Listed(rec)
  BY <1>1 DEF Listed
<1> QED BY <1>1, <1>2, <1>3, <1>4, Facts, FoldStep

\* A send that lost a coin to a conflict is no longer counted.
LEMMA LostToConflictStep ==
  ASSUME IInv, NEW t \in Txs, LostToConflict(t)
  PROVE  IInv'
<1> DEFINE o == own_send_seen(rec, t)
           r == done_with(rec, t)
<1>1. /\ o \in Record /\ Unknown(o) = Unknown(rec) \ {t} /\ o.taken = rec.taken
      /\ o.carried = rec.carried /\ o.meta = rec.meta
  BY Facts, WithoutDrops DEF own_send_seen
<1>2. r = [o EXCEPT !.taken = @ \ {t}]
  BY DEF done_with
<1> HIDE DEF o
<1>3. /\ r \in Record /\ Unknown(r) = Unknown(rec) \ {t} /\ r.taken = rec.taken \ {t}
      /\ r.carried = rec.carried /\ r.meta = rec.meta
  BY <1>1, <1>2 DEF Record, Unknown
<1>4. ~MayLand(t)
  BY DEF MayLand, LostToConflict
<1>5. /\ Persist(r, Submitting)
      /\ UNCHANGED <<stash, pc, awaits, file, written, starts, chain, unanswered, tried>>
  BY DEF LostToConflict
<1> HIDE DEF r
<1>6. Listed(r) \subseteq Listed(rec)
  BY <1>3 DEF Listed
<1> QED BY <1>3, <1>4, <1>5, <1>6, Facts, FoldStep

\* A read of the node: the carried sends it takes over stay on record.
LEMMA ReadingStep ==
  ASSUME IInv, Reading
  PROVE  IInv'
<1>1. PICK listed \in SUBSET accepted, gone \in SUBSET spent :
        \E T \in SUBSET {t \in rec.carried : ~Ends(t, listed, gone)} :
          \E stale \in Places(rec, T) : Read(listed, gone, stale)
  BY DEF Reading
<1>2. PICK T \in SUBSET {t \in rec.carried : ~Ends(t, listed, gone)} :
        \E stale \in Places(rec, T) : Read(listed, gone, stale)
  BY <1>1
<1>3. PICK stale \in Places(rec, T) : Read(listed, gone, stale)
  BY <1>2
<1>4. T \in SUBSET rec.carried /\ T \subseteq Txs
  BY Facts
<1>5. rec.next_unknown \in Nat /\ Cardinality(T) \in Nat
  BY <1>4, Facts, TxsAreNumbers, FS_Subset, FS_CardinalityType DEF Record
<1>6. stale \in [T -> Nat] /\ \A t \in T : stale[t] # 0
  <2>1. stale \in [T -> rec.next_unknown + 1 .. rec.next_unknown + Cardinality(T)]
    BY DEF Places
  <2> QED BY <1>5, <2>1
<1> DEFINE r == Judged(rec, listed, gone, stale)
<1>7. /\ r \in Record
      /\ \A t \in Txs : MayLand(t) =>
           /\ t \in Unknown(rec) => t \in Unknown(r)
           /\ t \in rec.carried => t \in Unknown(r) \cup r.carried
           /\ t \in rec.taken => t \in r.taken
      /\ rec.meta \subseteq r.meta /\ r.taken \subseteq rec.taken
      /\ Listed(r) \subseteq Listed(rec)
  <2>1. TypeOK
    BY DEF IInv
  <2> QED BY <1>4, <1>6, <2>1, ReadKeeps
<1>8. /\ Persist(r, Submitting)
      /\ UNCHANGED <<stash, pc, awaits, file, written, starts, chain, unanswered, tried>>
  BY <1>3 DEF Read
<1> HIDE DEF r
<1> QED BY <1>7, <1>8, Facts, FoldStep

\* The network only makes fewer legs able to land.
LEMMA NetworkStep ==
  ASSUME IInv,
         UNCHANGED <<rec, stash, pc, awaits, file, written, next, queue, starts, left,
                     unanswered, tried>>,
         accepted' \subseteq left, spent' \subseteq Coins, AcceptedIsSpent',
         accepted \subseteq accepted', spent \subseteq spent'
  PROVE  IInv'
<1>1. TypeOK' /\ Numbered'
  BY DEF IInv, TypeOK, Numbered
<1>2. Submitting' = Submitting /\ \A t \in Txs : MayLand(t)' => MayLand(t)
  BY DEF Submitting, MayLand
<1>3. HeldBeforeRequest' /\ CommitsAreRemembered'
  BY <1>2 DEF IInv, HeldBeforeRequest, CommitsAreRemembered
<1>4. WaitsForItsWrite' /\ NotTakenYet'
  BY DEF IInv, WaitsForItsWrite, NotTakenYet
<1>5. Copies'
  BY <1>2, Facts DEF IInv, Copies, OnDisk, WritesKeepLegs, RecordedIsWritten, RecordingIsQueued,
              UnansweredIsWritten
<1>6. UnansweredIsUnknown' /\ OnlyTried'
  BY <1>2, Facts DEF IInv, UnansweredIsUnknown, OnlyTried
<1> QED BY <1>1, <1>3, <1>4, <1>5, <1>6 DEF IInv

\* A record loaded again, in a new process or in this one, holds every leg of
\* the file, and with it every leg that may land.
LEMMA LoadStep ==
  ASSUME IInv, Relaunch \/ Reload
  PROVE  IInv'
<1>1. /\ rec' = load(file) /\ file' = file /\ left' = left /\ accepted' = accepted
      /\ spent' = spent /\ tried' = tried /\ starts < MaxStarts /\ starts' = starts + 1
  BY DEF Relaunch, Reload, chain
<1>2. file \in [Txs -> LegState]
  BY DEF IInv, TypeOK
<1>3. /\ rec' \in Record /\ rec'.taken = {}
      /\ \A t \in Txs : file[t] # "none" => t \in Unknown(rec') \cup rec'.carried
      /\ \A t \in Txs : file[t] \in Back => t \in Unknown(rec')
      /\ \A t \in Listed(rec') : t \in Txs /\ file[t] # "none"
  BY <1>1, <1>2, LoadKeeps
<1>4. \A t \in Txs : MayLand(t)' <=> MayLand(t)
  BY <1>1 DEF MayLand
<1>5. \A t \in Txs : MayLand(t) => file[t] # "none"
  BY DEF IInv, Copies, OnDisk
<1>6. /\ pc' = [t \in Txs |-> "idle"] /\ awaits' = [t \in Txs |-> 0] /\ stash' = {}
      /\ unanswered' \subseteq unanswered \cup {t \in Txs : pc[t] = "out"}
  <2>1. CASE Relaunch
    BY <2>1, Facts DEF Relaunch
  <2>2. CASE Reload
    <3>1. \A t \in Txs : pc[t] = "idle"
      BY <2>2 DEF Reload, Submitting
    <3>2. \A t \in Txs : awaits[t] = 0
      BY <3>1, Facts
    <3> QED BY <2>2, <3>1, <3>2, Facts DEF Reload
  <2> QED BY <2>1, <2>2
<1>7. \A t \in Txs : pc'[t] = "idle" /\ awaits'[t] = 0
  BY <1>6
<1>8. \/ queue' = {} /\ written' = 0 /\ next' = 0
      \/ queue' = queue /\ written' = written /\ next' = next
  BY DEF Relaunch, Reload
<1>9. TypeOK'
  <2>1. pc' \in [Txs -> Commit] /\ awaits' \in [Txs -> Nat] /\ starts' \in 0..MaxStarts
    BY <1>1, <1>6, BoundsAreNumbers DEF Commit, IInv, TypeOK
  <2>2. /\ written' \in Nat /\ next' \in Nat
        /\ queue' \subseteq [gen : 1..next', legs : [Txs -> LegState]]
    BY <1>8 DEF IInv, TypeOK
  <2> QED BY <1>1, <1>2, <1>3, <1>6, <2>1, <2>2 DEF IInv, TypeOK
<1>10. Numbered' /\ AcceptedIsSpent'
  BY <1>1, <1>8 DEF IInv, Numbered, AcceptedIsSpent
<1>11. HeldBeforeRequest'
  BY <1>3, <1>4, <1>5 DEF HeldBeforeRequest
<1>12. CommitsAreRemembered' /\ WaitsForItsWrite' /\ NotTakenYet'
  BY <1>3, <1>6, <1>7 DEF CommitsAreRemembered, Submitting, WaitsForItsWrite, NotTakenYet
<1>13. OnDisk'
  BY <1>1, <1>4, <1>5 DEF OnDisk
<1>14. WritesKeepLegs' /\ RecordedIsWritten' /\ RecordingIsQueued'
  BY <1>4, <1>7, <1>8 DEF IInv, Copies, WritesKeepLegs, RecordedIsWritten, RecordingIsQueued
<1>15. \A u \in unanswered' : MayLand(u) =>
        /\ file[u] \in Back
        /\ \A w \in queue : w.gen > written => w.legs[u] \in Back
  BY <1>6 DEF IInv, Copies, UnansweredIsWritten, RecordedIsWritten
<1>16. UnansweredIsWritten' /\ UnansweredIsUnknown'
  <2>1. unanswered' \subseteq Txs
    BY <1>6, Facts
  <2> QED BY <1>1, <1>3, <1>4, <1>8, <1>15, <2>1 DEF UnansweredIsWritten, UnansweredIsUnknown
<1>17. OnlyTried'
  <2>1. Submitting' = {}
    BY <1>7 DEF Submitting
  <2>2. \A t \in Txs \ tried : file[t] = "none" /\ \A w \in queue : w.legs[t] = "none"
    BY DEF IInv, OnlyTried
  <2> QED BY <1>1, <1>3, <1>8, <2>1, <2>2 DEF OnlyTried
<1> QED BY <1>9, <1>10, <1>11, <1>12, <1>13, <1>14, <1>16, <1>17 DEF IInv, Copies

---------------------------------------------------------------------------
(***************************************************************************)
(* The theorems.                                                           *)
(***************************************************************************)

\* A first start has nothing on record and nothing sent.
LEMMA InitHolds == Init => IInv
<1> SUFFICES ASSUME Init PROVE IInv
  OBVIOUS
<1> USE DEF Init
<1>1. TypeOK
  BY BoundsAreNumbers DEF TypeOK, Record, Commit, LegState
<1>2. \A t \in Txs : ~MayLand(t) /\ pc[t] = "idle" /\ awaits[t] = 0
  BY DEF MayLand
<1>3. Numbered /\ AcceptedIsSpent
  BY DEF Numbered, AcceptedIsSpent
<1>4. HeldBeforeRequest /\ NotTakenYet /\ WaitsForItsWrite /\ CommitsAreRemembered
  BY <1>2 DEF HeldBeforeRequest, NotTakenYet, WaitsForItsWrite, CommitsAreRemembered, Submitting
<1>5. Copies
  BY <1>2 DEF Copies, WritesKeepLegs, RecordedIsWritten, RecordingIsQueued, UnansweredIsWritten,
              OnDisk
<1>6. UnansweredIsUnknown /\ OnlyTried
  BY <1>2 DEF UnansweredIsUnknown, OnlyTried, Listed, Unknown, Submitting
<1> QED BY <1>1, <1>3, <1>4, <1>5, <1>6 DEF IInv

\* A step that changes nothing.
LEMMA StutterHolds == IInv /\ UNCHANGED vars => IInv'
<1> SUFFICES ASSUME IInv, UNCHANGED vars PROVE IInv'
  OBVIOUS
<1>1. /\ UNCHANGED <<rec, stash, pc, awaits, file, written, next, queue, starts, left,
                     unanswered, tried>>
      /\ accepted' = accepted /\ spent' = spent
  BY DEF vars
<1>2. accepted' \subseteq left /\ spent' \subseteq Coins /\ AcceptedIsSpent'
  BY <1>1 DEF IInv, TypeOK, AcceptedIsSpent
<1> QED BY <1>1, <1>2, NetworkStep

\* Every step keeps the invariant, as long as no send is prepared while another
\* of its kind is committing.
LEMMA NextHolds == ~Overlap /\ IInv /\ Next => IInv'
<1> SUFFICES ASSUME ~Overlap, IInv, Next PROVE IInv'
  OBVIOUS
<1>1. CASE \E t \in Txs : Prepare(t) \/ Abandon(t) \/ Committing(t) \/ Folding(t) \/ Accepted(t)
  <2>1. PICK t \in Txs : Prepare(t) \/ Abandon(t) \/ Committing(t) \/ Folding(t) \/ Accepted(t)
    BY <1>1
  <2>2. CASE Prepare(t)
    BY <2>2, PrepareStep
  <2>3. CASE Abandon(t)
    BY <2>3, AbandonStep
  <2>4. CASE Committing(t)
    BY <2>4, BeginStep, RefusedStep, NotSentStep, RequestStep, SubmitOkStep, SubmitErrStep,
       SubmitErrKeptStep, DroppedStep DEF Committing
  <2>5. CASE Folding(t)
    BY <2>5, SeenLandedStep, OwnPendingStep, LostToConflictStep DEF Folding
  <2>6. CASE Accepted(t)
    <3>1. /\ UNCHANGED <<rec, stash, pc, awaits, file, written, next, queue, starts, left,
                         unanswered, tried>>
          /\ accepted' = accepted \cup {t} /\ spent' = spent \cup In[t] /\ t \in left
      BY <2>6 DEF Accepted, MayLand
    <3>2. /\ accepted' \subseteq left /\ spent' \subseteq Coins /\ AcceptedIsSpent'
      BY <3>1, CoinsAreSpent DEF IInv, TypeOK, AcceptedIsSpent
    <3> QED BY <3>1, <3>2, NetworkStep
  <2> QED BY <2>1, <2>2, <2>3, <2>4, <2>5, <2>6
<1>2. CASE \E w \in queue : Lands(w) \/ LandFails(w)
  BY <1>2, LandsStep, LandFailsStep
<1>3. CASE \E c \in Coins : CoinGone(c) \/ SpentElsewhere(c)
  <2>1. PICK c \in Coins : CoinGone(c) \/ SpentElsewhere(c)
    BY <1>3
  <2>2. CASE CoinGone(c)
    BY <2>2, CoinGoneStep
  <2>3. CASE SpentElsewhere(c)
    <3>1. /\ UNCHANGED <<rec, stash, pc, awaits, file, written, next, queue, starts, left,
                         unanswered, tried>>
          /\ accepted' = accepted /\ spent' = spent \cup {c}
      BY <2>3 DEF SpentElsewhere
    <3>2. accepted' \subseteq left /\ spent' \subseteq Coins /\ AcceptedIsSpent'
      BY <3>1 DEF IInv, TypeOK, AcceptedIsSpent
    <3> QED BY <3>1, <3>2, NetworkStep
  <2> QED BY <2>1, <2>2, <2>3
<1>4. CASE Reading
  BY <1>4, ReadingStep
<1>5. CASE Relaunch \/ Reload
  BY <1>5, LoadStep
<1> QED BY <1>1, <1>2, <1>3, <1>4, <1>5 DEF Next

\* The inductive invariant holds throughout, for every set of transactions and
\* coins and every bound.
THEOREM LegsInvariant == ASSUME ~Overlap PROVE Spec => []IInv
<1>1. IInv /\ [Next]_vars => IInv'
  BY NextHolds, StutterHolds
<1> QED BY InitHolds, <1>1, PTL DEF Spec

\* A leg whose request has left and that can still land is in the file, in
\* whatever order the writes of the blocking pool land and whichever fail.
THEOREM LegsAreOnDisk == ASSUME ~Overlap PROVE Spec => []OnDisk
<1>1. IInv => OnDisk
  BY DEF IInv, Copies
<1> QED BY <1>1, LegsInvariant, PTL

\* Such a leg is in the record that a snapshot copies.
THEOREM LegsAreOnRecord == ASSUME ~Overlap PROVE Spec => []OnRecord
<1>1. IInv => OnRecord
  <2> SUFFICES ASSUME IInv, NEW t \in Txs, MayLand(t)
               PROVE  t \in Unknown(rec) \cup rec.carried \cup (rec.meta \cap (rec.taken \cup Submitting))
    BY DEF OnRecord
  <2>1. CASE pc[t] = "out"
    BY <2>1, Facts DEF Submitting
  <2>2. CASE pc[t] # "out"
    BY <2>2, Facts
  <2> QED BY <2>1, <2>2
<1> QED BY <1>1, LegsInvariant, PTL

\* The record, the file and every numbered copy keep their shape, the bound on
\* the numbers handed out included.
THEOREM RecordTypeCorrect == ASSUME ~Overlap PROVE Spec => []TypeOK
<1>1. IInv => TypeOK
  BY DEF IInv
<1> QED BY <1>1, LegsInvariant, PTL

---------------------------------------------------------------------------
(***************************************************************************)
(* The coins a retry leads with.                                           *)
(***************************************************************************)

\* A nonempty set of naturals has a least element.
LEMMA Least ==
  ASSUME NEW S \in SUBSET Nat, S # {}
  PROVE  \E m \in S : \A n \in S : m <= n
<1> DEFINE R == OpToRel(<, Nat)
<1>1. IsWellFoundedOn(R, Nat)
  BY NatLessThanWellFounded
<1>2. \A m, n \in Nat : n < m => <<n, m>> \in R
  BY DEF OpToRel
<1> HIDE DEF R
<1>3. PICK m \in S : \A n \in S : ~(<<n, m>> \in R)
  BY <1>1, WFMin
<1>4. \A n \in S : ~(n < m)
  BY <1>2, <1>3
<1> QED BY <1>3, <1>4

\* Any set of coins can be listed largest first, so LargestFirst lists it.
LEMMA LargestFirstLists ==
  ASSUME NEW C \in SUBSET Coins
  PROVE  LargestFirst(C) \in [1..Cardinality(C) -> C]
<1> DEFINE Lists(D, s) ==
             /\ s \in [1..Cardinality(D) -> D]
             /\ \A i, j \in 1..Cardinality(D) : i < j => s[i] # s[j] /\ Value[s[i]] >= Value[s[j]]
           Unlisted == {n \in Nat : \E D \in SUBSET Coins : Cardinality(D) = n /\ \A s : ~Lists(D, s)}
<1>1. \A D \in SUBSET Coins : IsFiniteSet(D) /\ Cardinality(D) \in Nat
  BY CoinsAreFinite, FS_Subset, FS_CardinalityType
<1>2. Unlisted = {}
  <2> SUFFICES ASSUME Unlisted # {} PROVE FALSE
    OBVIOUS
  <2>1. PICK n \in Unlisted : \A m \in Unlisted : n <= m
    BY Least
  <2>2. PICK D \in SUBSET Coins : Cardinality(D) = n /\ \A s : ~Lists(D, s)
    BY <2>1
  <2>3. D # {}
    <3>1. ASSUME D = {} PROVE FALSE
      <4>1. Cardinality(D) = 0
        BY <3>1, FS_EmptySet
      <4>2. Lists(D, [i \in 1..0 |-> 0])
        BY <4>1
      <4> QED BY <2>2, <4>2
    <3> QED BY <3>1
  <2>4. PICK c \in D : \A d \in D : Value[d] >= Value[c]
    <3> DEFINE worths == {Value[d] : d \in D}
    <3>1. worths \in SUBSET Nat /\ worths # {}
      BY <2>3, WorthIsANumber
    <3>2. PICK v \in worths : \A x \in worths : v <= x
      BY <3>1, Least
    <3>3. PICK c \in D : Value[c] = v
      BY <3>2
    <3>4. \A d \in D : v <= Value[d]
      BY <3>2
    <3> QED BY <3>1, <3>2, <3>3, <3>4
  <2> DEFINE E == D \ {c}
             m == n - 1
  <2>5. E \in SUBSET Coins /\ m \in Nat /\ Cardinality(E) = m /\ n = m + 1
    <3>1. IsFiniteSet(D) /\ n \in Nat
      BY <1>1, <2>1
    <3>2. Cardinality(E) = n - 1
      BY <2>2, <3>1, FS_RemoveElement
    <3>3. Cardinality(E) \in Nat
      BY <1>1
    <3> QED BY <3>1, <3>2, <3>3
  <2>6. m \notin Unlisted
    BY <2>1, <2>5
  <2> HIDE DEF m
  <2>7. PICK s : Lists(E, s)
    BY <2>5, <2>6
  <2> DEFINE z == [i \in 1..n |-> IF i = n THEN c ELSE s[i]]
  <2>8. s \in [1..m -> E] /\ \A i, j \in 1..m : i < j => s[i] # s[j] /\ Value[s[i]] >= Value[s[j]]
    BY <2>5, <2>7
  <2>9. \A i \in 1..n : i # n => i \in 1..m
    BY <2>5
  <2>10. \A i \in 1..n : z[i] = IF i = n THEN c ELSE s[i]
    OBVIOUS
  <2>11. z \in [1..n -> D]
    BY <2>8, <2>9
  <2> HIDE DEF z
  <2>12. ASSUME NEW i \in 1..n, NEW j \in 1..n, i < j
         PROVE  z[i] # z[j] /\ Value[z[i]] >= Value[z[j]]
    <3>1. i # n /\ i \in 1..m /\ z[i] = s[i] /\ s[i] \in E
      BY <2>5, <2>8, <2>9, <2>10, <2>12
    <3>2. CASE j = n
      BY <2>4, <2>10, <3>1, <3>2
    <3>3. CASE j # n
      BY <2>8, <2>9, <2>10, <2>12, <3>1, <3>3
    <3> QED BY <3>2, <3>3
  <2>13. Lists(D, z)
    BY <2>2, <2>11, <2>12
  <2> QED BY <2>2, <2>13
<1>3. PICK s : Lists(C, s)
  BY <1>1, <1>2
<1>4. s \in [1..Cardinality(C) -> C]
      /\ \A i, j \in DOMAIN s : i < j => s[i] # s[j] /\ Value[s[i]] >= Value[s[j]]
  BY <1>3
<1> QED BY <1>4 DEF LargestFirst

\* One list flattened is that list.
LEMMA FlattenOne ==
  ASSUME NEW s PROVE FlattenSeq(<<s>>) = s
<1> DEFINE seqs == <<s>>
           F(f) == [i \in 1..Len(seqs) |-> IF i = 1 THEN seqs[i] ELSE f[i - 1] \o seqs[i]]
           g == CHOOSE f : f = F(f)
<1>1. Len(seqs) = 1 /\ seqs[1] = s
  OBVIOUS
<1> HIDE DEF seqs
<1>2. \A f : F(f) = [i \in {1} |-> s]
  <2>1. 1..Len(seqs) = {1}
    BY <1>1
  <2> QED BY <1>1, <2>1
<1> HIDE DEF F
<1>3. g = F(g)
  <2>1. \E f : f = F(f)
    BY <1>2
  <2> QED BY <2>1
<1> HIDE DEF g
<1>4. g[1] = s
  BY <1>2, <1>3
<1>5. FlattenSeq(seqs) = g[1]
  BY <1>1 DEF FlattenSeq, g, F
<1> QED BY <1>4, <1>5 DEF seqs

\* With one leg of the payment of unknown fate, and a coin of it free, a build
\* leads with coins of that leg and with nothing else.
LEMMA LoneLegLeads ==
  ASSUME NEW r \in Record, NEW u \in Txs, NEW key,
         {v \in Unknown(r) : PaidTo[v] = key} = {u}, ~Blocked(r, key)
  PROVE  First(r, key) # <<>> /\ ToSet(First(r, key)) \subseteq In[u]
<1> DEFINE free == In[u] \ Withheld(r)
           a == LargestFirst(free)
           n == Cardinality(free)
<1>1. u \in Unknown(r) /\ PaidTo[u] = key /\ ~(In[u] \subseteq Withheld(r))
  BY DEF Blocked
<1>2. free \in SUBSET Coins /\ free # {}
  BY <1>1, CoinsAreSpent
<1>3. IsFiniteSet(free) /\ n \in Nat /\ n # 0
  BY <1>2, CoinsAreFinite, FS_Subset, FS_CardinalityType, FS_EmptySet
<1> HIDE DEF free
<1>4. a \in [1..n -> free]
  BY <1>2, LargestFirstLists
<1> HIDE DEF a, n
<1>5. a \in Seq(free) /\ Len(a) = n /\ a # <<>> /\ a[1] \in free
  BY <1>3, <1>4
<1>6. Leading(r, key) = {u} /\ Cardinality({u}) = 1
  BY <1>1, FS_Singleton DEF Leading
<1> DEFINE Order(s) == /\ s \in [1..Cardinality({u}) -> {u}]
                       /\ \A i, j \in DOMAIN s : i < j => r.unknown[s[i]] < r.unknown[s[j]]
           each == CHOOSE s : Order(s)
<1>7. each = [i \in {1} |-> u]
  <2>1. 1..Cardinality({u}) = {1}
    BY <1>6
  <2>2. Order([i \in {1} |-> u])
    BY <2>1
  <2>3. Order(each)
    BY <2>2
  <2>4. each \in [{1} -> {u}]
    BY <2>1, <2>3
  <2> HIDE DEF each
  <2> QED BY <2>4
<1>8. Anchors(r, key) = [i \in DOMAIN each |-> LargestFirst(In[each[i]] \ Withheld(r))]
  BY <1>6 DEF Anchors
<1> HIDE DEF each
<1>9. Anchors(r, key) = <<a>>
  BY <1>7, <1>8 DEF a, free
<1>10. First(r, key) = <<a[1]>> \o FlattenSeq(<<Tail(a)>>)
  <2> DEFINE heads == [i \in DOMAIN <<a>> |-> <<a>>[i][1]]
             rests == [i \in DOMAIN <<a>> |-> Tail(<<a>>[i])]
  <2>1. heads = <<a[1]>> /\ rests = <<Tail(a)>>
    OBVIOUS
  <2>2. First(r, key) = heads \o FlattenSeq(rests)
    BY <1>9 DEF First
  <2> HIDE DEF heads, rests
  <2> QED BY <2>1, <2>2
<1>11. First(r, key) = <<a[1]>> \o Tail(a)
  BY <1>10, FlattenOne
<1>12. Tail(a) \in Seq(free)
  BY <1>5
<1>13. First(r, key) \in Seq(free) /\ Len(First(r, key)) # 0
  BY <1>5, <1>11, <1>12
<1>14. ToSet(First(r, key)) \subseteq free
  BY <1>13 DEF ToSet
<1> QED BY <1>13, <1>14 DEF free

\* A payment prepared while the only leg tried for it is unanswered and may
\* land conflicts with that leg.
LEMMA PreparedConflicts ==
  ASSUME IInv, ~Overlap, NEW t \in Txs \ Messages, Prepare(t),
         NEW u \in unanswered, PaidTo[u] = PaidTo[t], MayLand(u),
         {v \in tried : PaidTo[v] = PaidTo[t]} = {u}
  PROVE  In[t] \cap In[u] # {}
<1> DEFINE key == PaidTo[t]
<1>1. PICK listed \in SUBSET accepted, gone \in SUBSET spent :
        LET r == Judged(rec, listed, gone, NoneStale)
        IN  Builds(r, t) /\ Persist(r, Submitting)
  BY DEF Prepare
<1> DEFINE r == Judged(rec, listed, gone, NoneStale)
<1>2. r \in Record /\ (u \in Unknown(rec) => u \in Unknown(r)) /\ Listed(r) \subseteq Listed(rec)
  <2>1. TypeOK /\ {} \in SUBSET rec.carried /\ NoneStale \in [{} -> Nat] /\ u \in Txs
    BY Facts DEF IInv, NoneStale
  <2>2. \A v \in {} : NoneStale[v] # 0
    OBVIOUS
  <2> QED BY <2>1, <2>2, ReadKeeps
<1>3. Builds(r, t)
  BY <1>1
<1> HIDE DEF r
<1>4. u \in Txs /\ pc[u] # "out"
  <2>1. ASSUME pc[u] = "out" PROVE FALSE
    <3>1. u \in Txs /\ u \in Submitting
      BY <2>1, Facts DEF Submitting
    <3>2. ~SameStash(t, u)
      BY <3>1 DEF Prepare
    <3> QED BY <3>1, <3>2, MessagesHaveOwnKeys DEF SameStash
  <2> QED BY <2>1, Facts
<1>5. u \in Unknown(r)
  BY <1>2, <1>4, Facts
<1>6. {v \in Unknown(r) : PaidTo[v] = key} = {u}
  <2>1. Unknown(r) \subseteq tried
    BY <1>2, Facts DEF Listed
  <2> QED BY <1>5, <2>1
<1>7. /\ ~Blocked(r, key)
      /\ First(r, key) # <<>> => In[t] \cap ToSet(First(r, key)) # {}
  BY <1>3 DEF Builds
<1>8. First(r, key) # <<>> /\ ToSet(First(r, key)) \subseteq In[u]
  BY <1>2, <1>4, <1>6, <1>7, LoneLegLeads
<1> QED BY <1>7, <1>8

\* No other step stashes a prepared send.
LEMMA OnlyPrepareStashes ==
  ASSUME IInv, [Next]_vars, NEW t \in stash' \ stash
  PROVE  t \in Txs /\ Prepare(t)
<1>1. CASE UNCHANGED vars
  BY <1>1 DEF vars
<1>2. CASE \E u \in Txs : Prepare(u) \/ Abandon(u) \/ Committing(u) \/ Folding(u) \/ Accepted(u)
  <2>1. PICK u \in Txs : Prepare(u) \/ Abandon(u) \/ Committing(u) \/ Folding(u) \/ Accepted(u)
    BY <1>2
  <2>2. CASE Prepare(u)
    BY <2>2 DEF Prepare
  <2>3. CASE Abandon(u) \/ Accepted(u)
    BY <2>3 DEF Abandon, Accepted
  <2>4. CASE Committing(u)
    BY <2>4 DEF Committing, Begin, Refused, NotSent, Request, SubmitOk, SubmitErr, SubmitErrKept, Dropped
  <2>5. CASE Folding(u)
    BY <2>5 DEF Folding, SeenLanded, OwnPending, LostToConflict
  <2> QED BY <2>1, <2>2, <2>3, <2>4, <2>5
<1>3. CASE \E w \in queue : Lands(w) \/ LandFails(w)
  BY <1>3 DEF Lands, LandFails
<1>4. CASE \E c \in Coins : CoinGone(c) \/ SpentElsewhere(c)
  BY <1>4 DEF CoinGone, SpentElsewhere
<1>5. CASE Reading \/ Relaunch \/ Reload
  BY <1>5 DEF Reading, Read, Relaunch, Reload
<1> QED BY <1>1, <1>2, <1>3, <1>4, <1>5 DEF Next

\* A payment tried once and not answered, relaunched or not, conflicts with
\* the next send prepared for it: at most one of the two lands.
THEOREM RetriesConflict == ASSUME ~Overlap PROVE Spec => RetryConflicts
<1>1. ASSUME IInv, [Next]_vars, NEW t \in (stash' \ stash) \ Messages, NEW u \in unanswered,
             PaidTo[u] = PaidTo[t], MayLand(u), {v \in tried : PaidTo[v] = PaidTo[t]} = {u}
      PROVE  In[t] \cap In[u] # {}
  BY <1>1, OnlyPrepareStashes, PreparedConflicts
<1>2. IInv /\ [Next]_vars
        => [\A t \in (stash' \ stash) \ Messages : \A u \in unanswered :
              PaidTo[u] = PaidTo[t] /\ MayLand(u) /\ {v \in tried : PaidTo[v] = PaidTo[t]} = {u}
                => In[t] \cap In[u] # {}]_vars
  BY <1>1
<1>3. Spec => []IInv
  BY LegsInvariant
<1> QED BY <1>2, <1>3, PTL DEF Spec, RetryConflicts
===========================================================================
