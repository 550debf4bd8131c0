---------------------------- MODULE VaultProofs ----------------------------
(***************************************************************************)
(* Proofs about the vault session, for any pool of threads, secrets, seeds *)
(* and delays. Every call is described by what its locals still have in    *)
(* common with the memory and the files: the generation it sampled, the    *)
(* gate it holds, the blob and the lockout it read.                        *)
(***************************************************************************)
EXTENDS Vault, FiniteSetTheorems, TLAPS

USE DEF memory, disk, At, Idle

----------------------------------------------------------------------------
(* The inductive invariant *)

\* A call that has sampled the generation is behind it as soon as a lock
\* overtakes it; one that has not sampled yet was not overtaken in its work.
SampleIsKnown(c) ==
  /\ call[c].pc \in {"queued", "entered", "held"} => seen.overtaken[c] # "sampled"
  /\ call[c].pc \in {"kdf", "sealing", "install"} =>
       /\ call[c].epoch <= epoch
       /\ seen.overtaken[c] = "sampled" => call[c].epoch < epoch

LockPart ==
  /\ epoch <= used.locks
  /\ \A c \in Calls : SampleIsKnown(c)
  /\ vault # None => seen.by \in Calls /\ seen.overtaken[seen.by] # "sampled"

Inside(c) == call[c].op \in Proving /\ call[c].pc # "queued"

\* UNLOCK_GATE admits one call that proves the secret.
GatePart == \A c \in Calls : Inside(c) => gate = c

\* What a call will write is safe to write: a creating call runs while there is
\* no file, every other one writes the seed of the file there is, and a secret
\* the seal would refuse was refused.
WritesSafely(c) ==
  /\ call[c].pc \in {"held", "sealing"} =>
       blob = None /\ ~RefusesPin(call[c].secret, call[c].pepper)
  /\ call[c].pc \in {"kdf", "install", "settle", "rewrite"} =>
       blob # None /\ call[c].seed = blob.seed
  /\ call[c].pc = "kdf" => call[c].blob = blob
  /\ call[c].pc = "rewrite" => call[c].op = "reseal"
  /\ Inside(c) /\ call[c].op = "reseal" => ~RefusesPin(call[c].next, call[c].pepper)

BlobPart ==
  /\ \A c \in Calls : WritesSafely(c)
  /\ \A c, d \in Calls : call[c].op \in Creating /\ call[d].op \in Creating => c = d
  /\ enrolled # None => blob # None /\ blob.seed = enrolled
  /\ ResidentIsBlob /\ PinsAreBound /\ OpensWithChosen

Proofs == {c \in Calls : call[c].op \in Proving}

\* A call inside the gate began after the delay owed, and counts on from the
\* counter on the disk, or from one that a biometric reset has overwritten.
Paces(c) ==
  call[c].pc \in {"entered", "kdf"} =>
    /\ call[c].at <= now
    /\ seen.lost = 0 => seen.owed <= call[c].at /\ seen.failures <= call[c].lockout.failed
    /\ ~seen.blurred => call[c].lockout = lockout
    /\ call[c].lockout.failed + Cardinality(Proofs) <= used.calls

CountPart ==
  /\ \A c \in Calls : Paces(c)
  /\ lockout.failed + Cardinality(Proofs) <= used.calls
  /\ seen.lost = 0 => /\ seen.failures <= lockout.failed
                      /\ seen.owed <= lockout.until \/ seen.owed <= now
  /\ AttemptsCounted

IInv == TypeOK /\ LockPart /\ GatePart /\ BlobPart /\ CountPart

----------------------------------------------------------------------------
(* Facts about the operators *)

\* The constants.
LEMMA Constants ==
  /\ FreeAttempts \in Nat /\ BaseDelay \in Nat /\ MaxDelay \in Nat /\ MaxTime \in Nat
  /\ MaxCalls \in Nat /\ MaxLocks \in Nat /\ MaxFaults \in Nat
  /\ Weak \subseteq Pins /\ Pins \subseteq Secrets
  /\ None \notin Calls /\ None \notin Seeds /\ None \notin Blobs
  BY VaultAssumption

\* A call's place tells the shape of its locals.
LEMMA Shapes ==
  ASSUME NEW r \in Locals
  PROVE  /\ r.pc = "idle" => r = Idle
         /\ r.pc = "queued" => r \in Queued
         /\ r.pc = "entered" => r \in Entered
         /\ r.pc \in {"kdf", "rewrite"} => r \in Opening
         /\ r.pc = "settle" => r \in Opening \cup Loading
         /\ r.pc = "install" => r \in Opening \cup Loading \cup Sealing
         /\ r.pc = "held" => r \in Held
         /\ r.pc = "sealing" => r \in Sealing
         /\ r.pc \in {"idle", "queued", "entered", "kdf", "install", "settle", "rewrite", "held", "sealing"}
<1>1. r = Idle \/ r \in Queued \/ r \in Entered \/ r \in Opening \/ r \in Held \/ r \in Sealing \/ r \in Loading
  BY DEF Locals
<1>2. /\ r = Idle => r.pc = "idle"
      /\ r \in Queued => r.pc = "queued"
      /\ r \in Entered => r.pc = "entered"
      /\ r \in Opening => r.pc \in {"kdf", "install", "settle", "rewrite"}
      /\ r \in Held => r.pc = "held"
      /\ r \in Sealing => r.pc \in {"sealing", "install"}
      /\ r \in Loading => r.pc \in {"install", "settle"}
  BY DEF Queued, Entered, Opening, Held, Sealing, Loading
<1> QED BY <1>1, <1>2

\* The operation of a call, by the shape of its locals.
LEMMA Ops ==
  ASSUME NEW r \in Locals
  PROVE  /\ r.op \in Proving => r \in Queued \cup Entered \cup Opening
         /\ r.op \in Creating => r \in Held \cup Sealing
         /\ r \in Queued \cup Entered \cup Opening => r.op \in Proving /\ r.op \notin Creating
         /\ r \in Held \cup Sealing => r.op \in Creating /\ r.op \notin Proving
         /\ r \in Loading => r.op = "bio" /\ r.op \notin Proving /\ r.op \notin Creating
         /\ r = Idle => r.op \notin Proving /\ r.op \notin Creating
<1>1. r = Idle \/ r \in Queued \/ r \in Entered \/ r \in Opening \/ r \in Held \/ r \in Sealing \/ r \in Loading
  BY DEF Locals
<1>2. /\ r = Idle => r.op = "none"
      /\ r \in Queued => r.op \in Proving
      /\ r \in Entered => r.op \in Proving
      /\ r \in Opening => r.op \in Proving
      /\ r \in Held => r.op = "seal"
      /\ r \in Sealing => r.op \in Creating
      /\ r \in Loading => r.op = "bio"
  BY DEF Queued, Entered, Opening, Held, Sealing, Loading
<1> QED BY <1>1, <1>2 DEF Proving, Creating

\* The invariant's parts, with the types spelled out.
LEMMA Parts ==
  ASSUME IInv
  PROVE  /\ vault \in Seeds \cup {None} /\ epoch \in Nat /\ epoch \in 0..MaxLocks
         /\ gate \in Calls \cup {None} /\ pepper \in BOOLEAN
         /\ ceremony \in Seeds \cup {None} /\ enrolled \in Seeds \cup {None}
         /\ blob \in Blobs \cup {None} /\ lockout \in Lockouts
         /\ now \in 0..MaxTime /\ now \in Nat
         /\ call \in [Calls -> Locals]
         /\ used \in [calls : 0..MaxCalls, locks : 0..MaxLocks, faults : 0..MaxFaults]
         /\ seen \in Seen
         /\ TypeOK /\ LockPart /\ GatePart /\ BlobPart /\ CountPart
<1>1. TypeOK /\ LockPart /\ GatePart /\ BlobPart /\ CountPart
  BY DEF IInv
<1>2. epoch \in Nat /\ now \in Nat
  BY <1>1, Constants DEF TypeOK
<1> QED BY <1>1, <1>2 DEF TypeOK

\* The sum of one call's move: it takes locals of a shape there is, and every
\* other call keeps its own.
LEMMA CallUpdate ==
  ASSUME IInv, NEW c \in Calls, NEW r \in Locals, call' = [call EXCEPT ![c] = r]
  PROVE  /\ call' \in [Calls -> Locals] /\ call'[c] = r
         /\ \A d \in Calls \ {c} : call'[d] = call[d]
  BY Parts

\* The calls that are proving a secret are counted.
LEMMA ProofsCount ==
  /\ IsFiniteSet(Proofs) /\ Cardinality(Proofs) \in Nat
  /\ IsFiniteSet(Proofs') /\ Cardinality(Proofs') \in Nat
  /\ Proofs' \subseteq Proofs => Cardinality(Proofs') <= Cardinality(Proofs)
  /\ \A c \in Calls : Proofs' \subseteq Proofs \cup {c} => Cardinality(Proofs') <= Cardinality(Proofs) + 1
  /\ \A c \in Proofs : Proofs' \subseteq Proofs \ {c} => Cardinality(Proofs') + 1 <= Cardinality(Proofs)
<1>1. Proofs \subseteq Calls /\ Proofs' \subseteq Calls /\ IsFiniteSet(Calls)
  BY VaultAssumption DEF Proofs
<1>2. IsFiniteSet(Proofs) /\ IsFiniteSet(Proofs')
  BY <1>1, FS_Subset
<1>3. Cardinality(Proofs) \in Nat /\ Cardinality(Proofs') \in Nat
  BY <1>2, FS_CardinalityType
<1>4. Proofs' \subseteq Proofs => Cardinality(Proofs') <= Cardinality(Proofs)
  BY <1>2, FS_Subset
<1>5. ASSUME NEW c \in Calls, Proofs' \subseteq Proofs \cup {c}
      PROVE  Cardinality(Proofs') <= Cardinality(Proofs) + 1
  <2>1. /\ IsFiniteSet(Proofs \cup {c})
        /\ Cardinality(Proofs \cup {c}) = IF c \in Proofs THEN Cardinality(Proofs) ELSE Cardinality(Proofs) + 1
    BY <1>2, FS_AddElement
  <2>2. Cardinality(Proofs') <= Cardinality(Proofs \cup {c})
    BY <1>5, <2>1, FS_Subset
  <2> QED BY <1>3, <2>1, <2>2
<1>6. ASSUME NEW c \in Proofs, Proofs' \subseteq Proofs \ {c}
      PROVE  Cardinality(Proofs') + 1 <= Cardinality(Proofs)
  <2>1. IsFiniteSet(Proofs \ {c}) /\ Cardinality(Proofs \ {c}) = Cardinality(Proofs) - 1
    BY <1>2, FS_RemoveElement
  <2>2. Cardinality(Proofs') <= Cardinality(Proofs \ {c})
    BY <1>6, <2>1, FS_Subset
  <2> QED BY <1>3, <2>1, <2>2
<1> QED BY <1>2, <1>3, <1>4, <1>5, <1>6

\* A product grows with its second factor.
LEMMA TimesGrows ==
  ASSUME NEW x \in Nat, NEW i \in Nat, NEW j \in Nat, i <= j
  PROVE  x * i <= x * j
<1>1. PICK k \in Nat : j = i + k
  <2>1. j - i \in Nat /\ j = i + (j - i)
    OBVIOUS
  <2> QED BY <2>1
<1>2. x * j = x * i + x * k
  BY <1>1
<1>3. x * k \in Nat /\ x * i \in Nat
  OBVIOUS
<1> QED BY <1>2, <1>3

\* The delay grows with the failures and has a cap.
LEMMA DelayFacts ==
  ASSUME NEW a \in Nat
  PROVE  /\ lockout_delay_secs(a) \in Nat /\ lockout_delay_secs(a) <= MaxDelay
         /\ \A b \in Nat : b <= a => lockout_delay_secs(b) <= lockout_delay_secs(a)
<1> DEFINE over(n) == Least(n - FreeAttempts - 1, 7)
           full(n) == BaseDelay * Shifted[over(n) + 1]
<1>1. \A i \in 1..8 : /\ Shifted[i] \in Nat
                      /\ \A j \in 1..8 : j <= i => Shifted[j] <= Shifted[i]
  BY DEF Shifted
<1>2. \A n \in Nat : n > FreeAttempts => over(n) + 1 \in 1..8
  BY Constants DEF Least
<1>3. \A n \in Nat : n > FreeAttempts => full(n) \in Nat
  <2> SUFFICES ASSUME NEW n \in Nat, n > FreeAttempts PROVE full(n) \in Nat
    OBVIOUS
  <2>1. Shifted[over(n) + 1] \in Nat
    BY <1>1, <1>2
  <2> HIDE DEF over
  <2> QED BY <2>1, Constants
<1>4. ASSUME NEW b \in Nat, b <= a, b > FreeAttempts PROVE full(b) <= full(a)
  <2>1. a > FreeAttempts /\ over(b) + 1 <= over(a) + 1
    BY <1>4, Constants DEF Least
  <2>2. over(b) + 1 \in 1..8 /\ over(a) + 1 \in 1..8
    <3> HIDE DEF over
    <3> QED BY <1>2, <1>4, <2>1
  <2> HIDE DEF over
  <2>3. /\ Shifted[over(b) + 1] \in Nat /\ Shifted[over(a) + 1] \in Nat
        /\ Shifted[over(b) + 1] <= Shifted[over(a) + 1]
    BY <1>1, <2>1, <2>2
  <2> QED BY <2>3, Constants, TimesGrows
<1>5. \A n \in Nat : /\ n <= FreeAttempts => lockout_delay_secs(n) = 0
                     /\ n > FreeAttempts => lockout_delay_secs(n) = Least(full(n), MaxDelay)
  BY Constants DEF lockout_delay_secs
<1> HIDE DEF full
<1>6. \A n \in Nat : lockout_delay_secs(n) \in Nat /\ lockout_delay_secs(n) <= MaxDelay
  BY <1>3, <1>5, Constants DEF Least
<1>7. ASSUME NEW b \in Nat, b <= a PROVE lockout_delay_secs(b) <= lockout_delay_secs(a)
  <2>1. CASE b <= FreeAttempts
    BY <1>5, <1>6, <2>1
  <2>2. CASE b > FreeAttempts
    <3>1. full(b) <= full(a) /\ full(b) \in Nat /\ full(a) \in Nat /\ a > FreeAttempts
      BY <1>3, <1>4, <1>7, <2>2, Constants
    <3> QED BY <1>5, <2>2, <3>1, Constants DEF Least
  <2> QED BY <2>1, <2>2, Constants
<1> QED BY <1>6, <1>7

----------------------------------------------------------------------------
(* What the move of one call leaves alone *)

\* Locals as they were: every call but c.
Others(c) == \A d \in Calls \ {c} : call'[d] = call[d]

\* The generations, when one call moves and no lock or install happens.
LEMMA LockFrame ==
  ASSUME IInv, NEW c \in Calls, Others(c), UNCHANGED <<vault, epoch>>,
         seen' \in Seen, seen'.by = seen.by,
         \A d \in Calls \ {c} : seen'.overtaken[d] = seen.overtaken[d],
         seen'.overtaken[c] \in {seen.overtaken[c], "no"},
         used'.locks = used.locks,
         SampleIsKnown(c)'
  PROVE  LockPart'
<1>1. ASSUME NEW d \in Calls \ {c} PROVE SampleIsKnown(d)'
  <2>1. SampleIsKnown(d) /\ call'[d] = call[d] /\ seen'.overtaken[d] = seen.overtaken[d]
    BY Parts DEF LockPart, Others
  <2> QED BY <2>1 DEF SampleIsKnown
<1>2. vault' # None => seen'.by \in Calls /\ seen'.overtaken[seen'.by] # "sampled"
  BY Parts DEF LockPart
<1> QED BY <1>1, <1>2, Parts DEF LockPart

\* The gate, when one call moves and takes it, leaves it or is not inside.
LEMMA GateFrame ==
  ASSUME IInv, NEW c \in Calls, Others(c),
         gate' = gate \/ (gate = c /\ gate' = None) \/ (gate = None /\ gate' = c),
         Inside(c)' => gate' = c
  PROVE  GatePart'
<1>1. ASSUME NEW d \in Calls \ {c}, Inside(d)' PROVE gate' = d
  <2>1. gate = d
    BY <1>1, Parts DEF GatePart, Inside, Others
  <2> QED BY <2>1, Constants
<1> QED BY <1>1 DEF GatePart

\* The files and what is to be written, when one call moves and writes none.
LEMMA BlobFrame ==
  ASSUME IInv, NEW c \in Calls, Others(c), UNCHANGED <<blob, enrolled>>,
         seen'.chosen = seen.chosen, vault' \in {vault, None},
         call'[c].op \in Creating => CreatingIdle \/ call[c].op \in Creating,
         WritesSafely(c)'
  PROVE  BlobPart'
<1>1. ASSUME NEW d \in Calls \ {c} PROVE WritesSafely(d)'
  <2>1. WritesSafely(d) /\ call'[d] = call[d]
    BY Parts DEF BlobPart, Others
  <2> QED BY <2>1 DEF WritesSafely, Inside, RefusesPin
<1>2. ASSUME NEW a \in Calls, NEW b \in Calls, call'[a].op \in Creating, call'[b].op \in Creating
      PROVE  a = b
  <2>1. \A d \in Calls \ {c} : call'[d] = call[d]
    BY DEF Others
  <2>2. \A x, y \in Calls : call[x].op \in Creating /\ call[y].op \in Creating => x = y
    BY Parts DEF BlobPart
  <2> QED BY <1>2, <2>1, <2>2 DEF CreatingIdle
<1>3. ResidentIsBlob' /\ PinsAreBound' /\ OpensWithChosen' /\ (enrolled' # None => blob' # None /\ blob'.seed = enrolled')
  BY Parts DEF BlobPart, ResidentIsBlob, PinsAreBound, OpensWithChosen
<1> QED BY <1>1, <1>2, <1>3 DEF BlobPart

\* The lockout's history is as it was.
SameCount ==
  /\ UNCHANGED <<lockout, now>>
  /\ seen'.failures = seen.failures /\ seen'.lost = seen.lost
  /\ seen'.owed = seen.owed /\ seen'.blurred = seen.blurred

\* The lockout, when one call moves and counts nothing: it was proving before
\* it moved, or it is a call that was counted.
LEMMA CountFrame ==
  ASSUME IInv, NEW c \in Calls, Others(c), SameCount, used'.calls \in Nat,
         \/ used'.calls = used.calls /\ (call'[c].op \in Proving => call[c].op \in Proving)
         \/ used'.calls = used.calls + 1,
         Cardinality(Proofs') <= Cardinality(Proofs) + (used'.calls - used.calls) => Paces(c)'
  PROVE  CountPart'
<1>1. used.calls \in Nat /\ lockout.failed \in Nat
  BY Parts, Constants DEF Lockouts
<1>2. Cardinality(Proofs) \in Nat /\ Cardinality(Proofs') \in Nat
  BY ProofsCount
<1>3. Cardinality(Proofs') <= Cardinality(Proofs) + (used'.calls - used.calls)
  <2>1. CASE used'.calls = used.calls /\ (call'[c].op \in Proving => call[c].op \in Proving)
    <3>1. Proofs' \subseteq Proofs
      BY <2>1 DEF Proofs, Others
    <3>2. Cardinality(Proofs') <= Cardinality(Proofs)
      BY <3>1, ProofsCount
    <3> QED BY <1>1, <1>2, <2>1, <3>2
  <2>2. CASE used'.calls = used.calls + 1
    <3>1. Proofs' \subseteq Proofs \cup {c}
      BY DEF Proofs, Others
    <3>2. Cardinality(Proofs') <= Cardinality(Proofs) + 1
      BY <3>1, ProofsCount
    <3> QED BY <1>1, <1>2, <2>2, <3>2
  <2> QED BY <2>1, <2>2
<1>4. \A n \in Nat : n + Cardinality(Proofs) <= used.calls => n + Cardinality(Proofs') <= used'.calls
  BY <1>1, <1>2, <1>3
<1>5. ASSUME NEW d \in Calls \ {c}, call'[d].pc \in {"entered", "kdf"}
      PROVE  /\ call'[d].at <= now'
             /\ seen'.lost = 0 => seen'.owed <= call'[d].at /\ seen'.failures <= call'[d].lockout.failed
             /\ ~seen'.blurred => call'[d].lockout = lockout'
             /\ call'[d].lockout.failed + Cardinality(Proofs') <= used'.calls
  <2>1. call'[d] = call[d]
    BY DEF Others
  <2>2. /\ call[d].at <= now
        /\ seen.lost = 0 => seen.owed <= call[d].at /\ seen.failures <= call[d].lockout.failed
        /\ ~seen.blurred => call[d].lockout = lockout
        /\ call[d].lockout.failed + Cardinality(Proofs) <= used.calls
    BY <1>5, <2>1, Parts DEF CountPart, Paces
  <2>3. call[d].lockout.failed \in Nat
    <3>1. call[d] \in Entered \cup Opening
      BY <1>5, <2>1, Parts, Shapes
    <3> QED BY <3>1, Constants DEF Entered, Opening, Lockouts
  <2>4. call[d].lockout.failed + Cardinality(Proofs') <= used'.calls
    BY <1>4, <2>2, <2>3
  <2> QED BY <2>1, <2>2, <2>4 DEF SameCount
<1>6. \A d \in Calls : Paces(d)'
  BY <1>3, <1>5 DEF Paces
<1>7. lockout'.failed + Cardinality(Proofs') <= used'.calls
  BY <1>1, <1>4, Parts DEF CountPart, SameCount
<1>8. /\ seen'.lost = 0 => /\ seen'.failures <= lockout'.failed
                           /\ seen'.owed <= lockout'.until \/ seen'.owed <= now'
      /\ AttemptsCounted'
  BY Parts DEF CountPart, SameCount, AttemptsCounted
<1> QED BY <1>6, <1>7, <1>8 DEF CountPart

\* The gate after a call returns.
LEMMA ReturnGate ==
  ASSUME IInv, NEW c \in Calls, gate' = IF gate = c THEN None ELSE gate
  PROVE  gate' = gate \/ (gate = c /\ gate' = None)
  OBVIOUS

\* A call returns, or is not taken on: it is idle, and owes nothing.
LEMMA IdleIsSafe ==
  ASSUME NEW c \in Calls, call'[c] = Idle
  PROVE  SampleIsKnown(c)' /\ ~Inside(c)' /\ WritesSafely(c)' /\ Paces(c)'
  BY DEF SampleIsKnown, Inside, WritesSafely, Paces, Proving

Spendings == [calls : 0..MaxCalls, locks : 0..MaxLocks, faults : 0..MaxFaults]

\* A call is counted.
LEMMA CallSpent ==
  ASSUME IInv, used.calls < MaxCalls, Spends("calls")
  PROVE  /\ used' \in Spendings /\ used'.calls = used.calls + 1 /\ used'.locks = used.locks
         /\ used.calls \in Nat /\ used'.calls \in Nat
<1>1. used \in Spendings /\ used.calls \in Nat
  BY Parts, Constants DEF Spendings
<1>2. used.calls + 1 \in 0..MaxCalls /\ used.calls + 1 \in Nat
  BY <1>1, Constants
<1>3. used' = [used EXCEPT !.calls = used.calls + 1]
  BY <1>1 DEF Spends, Spendings
<1> QED BY <1>1, <1>2, <1>3 DEF Spendings

\* A write that fails is counted, and one that does not is not.
LEMMA WriteSpent ==
  ASSUME IInv, NEW wrote \in BOOLEAN, Written(wrote)
  PROVE  used' \in Spendings /\ used'.calls = used.calls /\ used'.locks = used.locks
<1>1. used \in Spendings /\ used.faults \in Nat
  BY Parts, Constants DEF Spendings
<1>2. CASE wrote
  BY <1>1, <1>2 DEF Written
<1>3. CASE ~wrote
  <2>1. used.faults + 1 \in 0..MaxFaults
    BY <1>1, <1>3, Constants DEF Written, MayFail
  <2>2. used' = [used EXCEPT !.faults = used.faults + 1]
    BY <1>1, <1>3 DEF Written, Spends, Spendings
  <2> QED BY <1>1, <2>1, <2>2 DEF Spendings
<1> QED BY <1>2, <1>3

\* A new call has not been overtaken.
LEMMA FreshSeen ==
  ASSUME IInv, NEW c \in Calls, seen' = [seen EXCEPT !.overtaken[c] = "no"]
  PROVE  /\ seen' \in Seen /\ seen'.by = seen.by /\ seen'.chosen = seen.chosen
         /\ seen'.overtaken[c] = "no"
         /\ \A d \in Calls \ {c} : seen'.overtaken[d] = seen.overtaken[d]
         /\ seen'.failures = seen.failures /\ seen'.lost = seen.lost
         /\ seen'.owed = seen.owed /\ seen'.blurred = seen.blurred
<1>1. seen \in Seen /\ seen.overtaken \in [Calls -> {"no", "waiting", "sampled"}]
  BY Parts DEF Seen
<1> DEFINE o == [seen.overtaken EXCEPT ![c] = "no"]
<1>2. /\ o \in [Calls -> {"no", "waiting", "sampled"}] /\ o[c] = "no"
      /\ \A d \in Calls \ {c} : o[d] = seen.overtaken[d]
  BY <1>1
<1>3. seen' = [seen EXCEPT !.overtaken = o]
  BY <1>1 DEF Seen
<1> HIDE DEF o
<1> QED BY <1>1, <1>2, <1>3 DEF Seen

\* The first state satisfies the invariant.
LEMMA InitHolds == Init => IInv
<1> SUFFICES ASSUME Init PROVE IInv
  OBVIOUS
<1>1. \A c \in Calls : call[c] = Idle
  BY DEF Init
<1>2. blob \in Blobs \cup {None} /\ (blob # None => blob.secret \in Secrets \ Pins)
  <2>1. CASE blob = None
    BY <2>1
  <2>2. CASE \E s \in Secrets \ Pins, w \in Seeds :
               blob = [ver |-> 1, bound |-> FALSE, secret |-> s, seed |-> w]
    <3>1. PICK s \in Secrets \ Pins, w \in Seeds :
               blob = [ver |-> 1, bound |-> FALSE, secret |-> s, seed |-> w]
      BY <2>2
    <3> QED BY <3>1 DEF Blobs
  <2> QED BY <2>1, <2>2 DEF Init
<1>3. /\ seen.chosen = IF blob = None THEN None ELSE blob.secret
      /\ seen.failures = 0 /\ seen.lost = 0 /\ seen.owed = 0 /\ seen.by = None
      /\ seen \in Seen
  <2>1. seen.chosen \in Secrets \cup {None}
    BY <1>2 DEF Init
  <2> QED BY <2>1 DEF Init, Seen
<1>4. lockout \in Lockouts /\ lockout.failed = 0 /\ lockout.until = 0
  BY Constants DEF Init, NoLockout, Lockouts
<1>5. TypeOK
  <2>1. call \in [Calls -> Locals]
    BY DEF Init, Locals
  <2>2. used \in [calls : 0..MaxCalls, locks : 0..MaxLocks, faults : 0..MaxFaults]
    BY Constants DEF Init
  <2>3. epoch \in 0..MaxLocks /\ now \in 0..MaxTime
    BY Constants DEF Init
  <2>4. pepper \in BOOLEAN
    BY DEF Init
  <2>5. /\ vault \in Seeds \cup {None} /\ gate \in Calls \cup {None}
        /\ ceremony \in Seeds \cup {None} /\ enrolled \in Seeds \cup {None}
    BY DEF Init
  <2> QED BY <1>2, <1>3, <1>4, <2>1, <2>2, <2>3, <2>4, <2>5 DEF TypeOK
<1>6. LockPart
  BY <1>1 DEF Init, LockPart, SampleIsKnown
<1>7. GatePart
  BY <1>1 DEF GatePart, Inside, Proving
<1>8. BlobPart
  <2>1. \A c \in Calls : WritesSafely(c) /\ call[c].op \notin Creating
    BY <1>1 DEF WritesSafely, Inside, Creating, Proving
  <2>2. PinsAreBound /\ OpensWithChosen
    BY <1>2, <1>3, Constants DEF PinsAreBound, OpensWithChosen
  <2> QED BY <2>1, <2>2 DEF Init, BlobPart, ResidentIsBlob
<1>9. CountPart
  <2>1. Proofs = {}
    BY <1>1 DEF Proofs, Proving
  <2>2. Cardinality(Proofs) = 0
    BY <2>1, FS_EmptySet
  <2>3. \A c \in Calls : Paces(c)
    BY <1>1 DEF Paces
  <2>4. used.calls = 0
    BY DEF Init
  <2> QED BY <1>3, <1>4, <2>2, <2>3, <2>4 DEF CountPart, AttemptsCounted
<1> QED BY <1>5, <1>6, <1>7, <1>8, <1>9 DEF IInv

\* A step in which no call moves and the files, the vault and the history stay.
LEMMA StillCalls ==
  ASSUME IInv, UNCHANGED <<call, gate, lockout, blob, epoch, vault, seen>>,
         used'.calls \in Nat, used'.calls >= used.calls, used'.locks = used.locks,
         now' \in Nat, now' >= now,
         enrolled' \in {enrolled, vault}
  PROVE  LockPart' /\ GatePart' /\ BlobPart' /\ CountPart'
<1>1. LockPart' /\ GatePart'
  BY Parts DEF LockPart, GatePart, SampleIsKnown, Inside
<1>2. BlobPart'
  <2>1. \A c \in Calls : WritesSafely(c)'
    BY Parts DEF BlobPart, WritesSafely, Inside
  <2>2. ResidentIsBlob' /\ PinsAreBound' /\ OpensWithChosen' /\ (enrolled' # None => blob' # None /\ blob'.seed = enrolled')
    BY Parts DEF BlobPart, ResidentIsBlob, PinsAreBound, OpensWithChosen
  <2> QED BY <2>1, <2>2, Parts DEF BlobPart
<1>3. CountPart'
  <2>1. Proofs' = Proofs /\ Cardinality(Proofs) \in Nat
    BY ProofsCount DEF Proofs
  <2>2. used.calls \in Nat /\ lockout.failed \in Nat /\ seen.owed \in Nat /\ now \in Nat
    BY Parts, Constants DEF Lockouts, Seen
  <2>3. ASSUME NEW c \in Calls, call[c].pc \in {"entered", "kdf"}
        PROVE  /\ call[c].at <= now'
               /\ call[c].lockout.failed + Cardinality(Proofs) <= used'.calls
    <3>1. call[c] \in Entered \cup Opening
      BY <2>3, Parts, Shapes
    <3>2. call[c].at \in Nat /\ call[c].lockout.failed \in Nat
      BY <3>1, Constants DEF Entered, Opening, Lockouts
    <3>3. call[c].at <= now /\ call[c].lockout.failed + Cardinality(Proofs) <= used.calls
      BY <2>3, Parts DEF CountPart, Paces
    <3> QED BY <2>1, <2>2, <3>2, <3>3
  <2>4. \A c \in Calls : Paces(c)'
    BY <2>1, <2>3, Parts DEF CountPart, Paces
  <2>5. lockout.failed + Cardinality(Proofs) <= used'.calls
    BY <2>1, <2>2, Parts DEF CountPart
  <2>6. seen.lost = 0 => seen.failures <= lockout.failed /\ (seen.owed <= lockout.until \/ seen.owed <= now')
    BY <2>2, Parts DEF CountPart
  <2>7. AttemptsCounted'
    BY Parts DEF CountPart, AttemptsCounted
  <2> QED BY <2>1, <2>4, <2>5, <2>6, <2>7 DEF CountPart
<1> QED BY <1>1, <1>2, <1>3

\* The steps of the ceremony's screens, the pepper, the enrolment and the clock.
LEMMA QuietStep ==
  ASSUME IInv,
         \/ \E w \in Seeds : begin_create(w) \/ regenerate_ceremony(w)
         \/ abandon_create \/ install_pepper \/ export_seed_for_keystore \/ Tick
  PROVE  IInv'
<1>1. UNCHANGED <<call, gate, lockout, blob, epoch, vault, seen>>
  BY DEF begin_create, regenerate_ceremony, abandon_create, install_pepper, export_seed_for_keystore, Tick
<1>2. /\ used' \in Spendings /\ used'.calls \in Nat /\ used'.calls >= used.calls /\ used'.locks = used.locks
  <2>1. CASE \E w \in Seeds : begin_create(w) \/ regenerate_ceremony(w)
    <3>1. used.calls < MaxCalls /\ Spends("calls")
      BY <2>1 DEF begin_create, regenerate_ceremony
    <3> QED BY <3>1, CallSpent
  <2>2. CASE abandon_create \/ install_pepper \/ export_seed_for_keystore \/ Tick
    <3>1. used' = used
      BY <2>2 DEF abandon_create, install_pepper, export_seed_for_keystore, Tick
    <3>2. used \in Spendings /\ used.calls \in Nat
      BY Parts, Constants DEF Spendings
    <3> QED BY <3>1, <3>2
  <2> QED BY <2>1, <2>2
<1>3. now' \in 0..MaxTime /\ now' \in Nat /\ now' >= now
  BY Parts, Constants DEF begin_create, regenerate_ceremony, abandon_create, install_pepper, export_seed_for_keystore, Tick
<1>4. enrolled' \in {enrolled, vault}
  BY DEF begin_create, regenerate_ceremony, abandon_create, install_pepper, export_seed_for_keystore, Tick
<1>5. ceremony' \in Seeds \cup {None}
  BY Parts DEF begin_create, regenerate_ceremony, abandon_create, install_pepper, export_seed_for_keystore, Tick
<1>6. pepper' \in BOOLEAN
  BY Parts DEF begin_create, regenerate_ceremony, abandon_create, install_pepper, export_seed_for_keystore, Tick
<1>7. TypeOK'
  BY <1>1, <1>2, <1>3, <1>4, <1>5, <1>6, Parts DEF TypeOK, Spendings
<1> QED BY <1>1, <1>2, <1>3, <1>4, <1>7, StillCalls DEF IInv

\* lock_vault: the generation moves past every call that sampled it.
LEMMA LockStep == ASSUME IInv, lock_vault PROVE IInv'
<1>1. /\ used.locks < MaxLocks /\ epoch' = epoch + 1 /\ vault' = None
      /\ pepper' = FALSE /\ ceremony' = None /\ seen' = [seen EXCEPT !.overtaken = Overtakes]
      /\ UNCHANGED <<gate, blob, lockout, enrolled, now, call>>
  BY DEF lock_vault
<1>2. used' \in Spendings /\ used'.calls = used.calls /\ used'.locks = used.locks + 1 /\ used.locks \in Nat
  <2>1. used \in Spendings /\ used.locks \in Nat
    BY Parts, Constants DEF Spendings
  <2>2. used.locks + 1 \in 0..MaxLocks
    BY <1>1, <2>1, Constants
  <2>3. used' = [used EXCEPT !.locks = used.locks + 1]
    BY <2>1 DEF lock_vault, Spends, Spendings
  <2> QED BY <2>1, <2>2, <2>3 DEF Spendings
<1>3. seen \in Seen
  BY Parts
<1>4. ASSUME NEW c \in Calls
      PROVE  /\ call[c].pc \in {"queued", "entered", "held"} => Overtakes[c] = "waiting"
             /\ call[c].pc \in {"kdf", "sealing", "install"} => Overtakes[c] = "sampled"
             /\ Overtakes[c] \in {"no", "waiting", "sampled"}
  BY <1>3 DEF Overtakes, Seen
<1>5. /\ seen' \in Seen /\ seen'.overtaken = Overtakes /\ seen'.chosen = seen.chosen
      /\ seen'.failures = seen.failures /\ seen'.lost = seen.lost
      /\ seen'.owed = seen.owed /\ seen'.blurred = seen.blurred
  <2>1. Overtakes \in [Calls -> {"no", "waiting", "sampled"}]
    BY <1>4 DEF Overtakes
  <2> QED BY <1>1, <1>3, <2>1 DEF Seen
<1>6. epoch' \in 0..MaxLocks /\ epoch' <= used'.locks
  <2>1. epoch \in Nat /\ epoch <= used.locks
    BY Parts DEF LockPart
  <2> QED BY <1>1, <1>2, <2>1, Constants
<1>7. TypeOK'
  <2>1. pepper' \in BOOLEAN
    BY <1>1
  <2> QED BY <1>1, <1>2, <1>5, <1>6, <2>1, Parts DEF TypeOK, Spendings
<1>8. LockPart'
  <2>1. ASSUME NEW c \in Calls PROVE SampleIsKnown(c)'
    <3>1. call[c].pc \in {"kdf", "sealing", "install"} => call[c].epoch \in Nat /\ call[c].epoch <= epoch
      <4>1. ASSUME call[c].pc \in {"kdf", "sealing", "install"} PROVE call[c].epoch \in Nat
        <5>1. call[c] \in Opening \cup Loading \cup Sealing
          BY <4>1, Parts, Shapes
        <5> QED BY <5>1, Constants DEF Opening, Loading, Sealing
      <4> QED BY <4>1, Parts DEF LockPart, SampleIsKnown
    <3>2. call[c].pc \in {"kdf", "sealing", "install"} => call[c].epoch < epoch' /\ call[c].epoch <= epoch'
      BY <1>1, <3>1, Parts
    <3> QED BY <1>1, <1>4, <1>5, <3>2 DEF SampleIsKnown
  <2> QED BY <1>1, <1>6, <2>1 DEF LockPart
<1>9. GatePart'
  BY <1>1, Parts DEF GatePart, Inside
<1>10. BlobPart'
  <2>1. \A c \in Calls : WritesSafely(c)'
    BY <1>1, Parts DEF BlobPart, WritesSafely, Inside
  <2>2. ResidentIsBlob' /\ PinsAreBound' /\ OpensWithChosen'
    BY <1>1, <1>5, Parts DEF BlobPart, ResidentIsBlob, PinsAreBound, OpensWithChosen
  <2> QED BY <1>1, <2>1, <2>2, Parts DEF BlobPart
<1>11. CountPart'
  <2>1. Proofs' = Proofs
    BY <1>1 DEF Proofs
  <2>2. \A c \in Calls : Paces(c)'
    BY <1>1, <1>2, <1>5, <2>1, Parts DEF CountPart, Paces
  <2>3. AttemptsCounted'
    BY <1>1, <1>5, Parts DEF CountPart, AttemptsCounted
  <2> QED BY <1>1, <1>2, <1>5, <2>1, <2>2, <2>3, Parts DEF CountPart
<1> QED BY <1>7, <1>8, <1>9, <1>10, <1>11 DEF IInv

\* The process dies.
LEMMA DiesStep == ASSUME IInv, Dies PROVE IInv'
<1>1. /\ vault' = None /\ epoch' = 0 /\ gate' = None /\ pepper' = FALSE /\ ceremony' = None
      /\ call' = [c \in Calls |-> Idle] /\ UNCHANGED <<blob, lockout, enrolled, now, seen>>
  BY DEF Dies
<1>2. used' \in Spendings /\ used'.calls = used.calls /\ used'.locks = used.locks
  <2>1. Written(FALSE)
    BY DEF Dies, Written
  <2> QED BY <2>1, WriteSpent
<1>3. \A c \in Calls : call'[c] = Idle
  BY <1>1
<1>4. \A c \in Calls : SampleIsKnown(c)' /\ ~Inside(c)' /\ WritesSafely(c)' /\ Paces(c)'
  BY <1>3, IdleIsSafe
<1>5. TypeOK'
  <2>1. call' \in [Calls -> Locals]
    BY <1>1 DEF Locals
  <2>2. pepper' \in BOOLEAN
    BY <1>1
  <2>3. epoch' \in 0..MaxLocks
    BY <1>1, Constants
  <2> QED BY <1>1, <1>2, <2>1, <2>2, <2>3, Parts DEF TypeOK, Spendings
<1>6. LockPart'
  <2>1. epoch' <= used'.locks
    BY <1>1, <1>2, Constants DEF Spendings
  <2> QED BY <1>1, <1>4, <2>1 DEF LockPart
<1>7. GatePart'
  BY <1>4 DEF GatePart
<1>8. BlobPart'
  <2>1. \A c \in Calls : call'[c].op \notin Creating
    BY <1>3 DEF Creating
  <2>2. ResidentIsBlob' /\ PinsAreBound' /\ OpensWithChosen'
    BY <1>1, Parts DEF BlobPart, ResidentIsBlob, PinsAreBound, OpensWithChosen
  <2> QED BY <1>1, <1>4, <2>1, <2>2, Parts DEF BlobPart
<1>9. CountPart'
  <2>1. Proofs' \subseteq Proofs
    BY <1>3 DEF Proofs, Proving
  <2>2. Cardinality(Proofs') <= Cardinality(Proofs) /\ Cardinality(Proofs') \in Nat /\ Cardinality(Proofs) \in Nat
    BY <2>1, ProofsCount
  <2>3. lockout.failed \in Nat /\ used.calls \in Nat
    BY Parts, Constants DEF Lockouts
  <2>4. lockout.failed + Cardinality(Proofs') <= used.calls
    BY <2>2, <2>3, Parts DEF CountPart
  <2>5. AttemptsCounted'
    BY <1>1, Parts DEF CountPart, AttemptsCounted
  <2> QED BY <1>1, <1>2, <1>4, <2>4, <2>5, Parts DEF CountPart
<1> QED BY <1>5, <1>6, <1>7, <1>8, <1>9 DEF IInv

----------------------------------------------------------------------------
(* The calls begin *)

\* One call moves, and nothing is installed, written or counted wrong.
LEMMA PlainMove ==
  ASSUME IInv, NEW c \in Calls, NEW r \in Locals, call' = [call EXCEPT ![c] = r],
         UNCHANGED <<vault, epoch, blob, enrolled>>, SameCount,
         pepper' \in BOOLEAN, ceremony' \in Seeds \cup {None},
         used' \in Spendings, used'.locks = used.locks,
         \/ used'.calls = used.calls /\ (r.op \in Proving => call[c].op \in Proving)
         \/ used'.calls = used.calls + 1,
         seen' \in Seen, seen'.by = seen.by, seen'.chosen = seen.chosen,
         \A d \in Calls \ {c} : seen'.overtaken[d] = seen.overtaken[d],
         seen'.overtaken[c] \in {seen.overtaken[c], "no"},
         gate' = gate \/ (gate = c /\ gate' = None) \/ (gate = None /\ gate' = c),
         Inside(c)' => gate' = c,
         r.op \in Creating => CreatingIdle \/ call[c].op \in Creating,
         SampleIsKnown(c)', WritesSafely(c)',
         Cardinality(Proofs') <= Cardinality(Proofs) + (used'.calls - used.calls) => Paces(c)'
  PROVE  IInv'
<1>1. call' \in [Calls -> Locals] /\ call'[c] = r /\ Others(c)
  BY CallUpdate DEF Others
<1>2. gate' \in Calls \cup {None} /\ used'.calls \in Nat
  BY Parts, Constants DEF Spendings
<1>3. TypeOK'
  BY <1>1, <1>2, Parts DEF TypeOK, SameCount, Spendings
<1>4. LockPart'
  BY <1>1, LockFrame
<1>5. GatePart'
  BY <1>1, GateFrame
<1>6. BlobPart'
  BY <1>1, BlobFrame
<1>7. CountPart'
  BY <1>1, <1>2, CountFrame
<1> QED BY <1>3, <1>4, <1>5, <1>6, <1>7 DEF IInv

\* A call queues at the gate.
LEMMA ProveStep ==
  ASSUME IInv, NEW c \in Calls, NEW op \in Proving, NEW s \in Secrets, NEW n \in Secrets,
         Prove(c, op, s, n)
  PROVE  IInv'
<1> DEFINE r == Call(op, s, n)
<1>1. /\ used.calls < MaxCalls /\ Spends("calls") /\ call' = [call EXCEPT ![c] = r]
      /\ seen' = [seen EXCEPT !.overtaken[c] = "no"]
      /\ UNCHANGED <<vault, epoch, gate, pepper, ceremony, blob, lockout, enrolled, now>>
  BY DEF Prove
<1>2. r \in Queued /\ r \in Locals /\ r.pc = "queued" /\ r.op \in Proving /\ r.op \notin Creating
  BY DEF Call, Queued, Locals, Proving, Creating
<1> HIDE DEF r
<1>3. call'[c] = r
  BY <1>1, <1>2, CallUpdate
<1>4. /\ used' \in Spendings /\ used'.calls = used.calls + 1 /\ used'.locks = used.locks
  BY <1>1, CallSpent
<1>5. /\ seen' \in Seen /\ seen'.by = seen.by /\ seen'.chosen = seen.chosen
      /\ seen'.overtaken[c] = "no"
      /\ \A d \in Calls \ {c} : seen'.overtaken[d] = seen.overtaken[d]
      /\ SameCount
  BY <1>1, FreshSeen DEF SameCount
<1>6. SampleIsKnown(c)' /\ ~Inside(c)' /\ WritesSafely(c)' /\ Paces(c)'
  BY <1>2, <1>3, <1>5 DEF SampleIsKnown, Inside, WritesSafely, Paces
<1>7. pepper' \in BOOLEAN
  BY <1>1, Parts
<1>8. ceremony' \in Seeds \cup {None}
  BY <1>1, Parts
<1> QED BY <1>1, <1>2, <1>4, <1>5, <1>6, <1>7, <1>8, PlainMove

\* seal_and_persist and restore_and_persist: refused, or one creating call more.
LEMMA CreateStep ==
  ASSUME IInv, NEW c \in Calls, NEW s \in Secrets,
         seal_and_persist(c, s) \/ \E w \in Seeds : restore_and_persist(c, w, s)
  PROVE  IInv'
<1>1. /\ used.calls < MaxCalls /\ Spends("calls") /\ CreatingIdle /\ blob = None
      /\ pepper' = FALSE /\ seen' = [seen EXCEPT !.overtaken[c] = "no"]
      /\ UNCHANGED <<vault, epoch, gate, ceremony, blob, lockout, enrolled, now>>
  BY DEF seal_and_persist, restore_and_persist
<1>2. PICK r \in Locals :
        /\ call' = [call EXCEPT ![c] = r]
        /\ \/ r = Idle
           \/ /\ ~RefusesPin(s, pepper) /\ r \in Held \cup Sealing
              /\ r.secret = s /\ r.pepper = pepper
              /\ r.pc = "held" \/ (r.pc = "sealing" /\ r.epoch = epoch)
  <2>1. CASE RefusesPin(s, pepper)
    <3>1. call' = [call EXCEPT ![c] = Idle]
      BY <2>1 DEF seal_and_persist, restore_and_persist
    <3>2. Idle \in Locals
      BY DEF Locals
    <3> QED BY <3>1, <3>2
  <2>2. CASE ~RefusesPin(s, pepper) /\ seal_and_persist(c, s)
    <3> DEFINE q == [pc |-> "held", op |-> "seal", secret |-> s, pepper |-> pepper]
    <3>1. call' = [call EXCEPT ![c] = q]
      BY <2>2 DEF seal_and_persist
    <3>2. q \in Held /\ q.secret = s /\ q.pepper = pepper /\ q.pc = "held"
      BY Parts DEF Held
    <3> HIDE DEF q
    <3> QED BY <2>2, <3>1, <3>2 DEF Locals
  <2>3. CASE ~RefusesPin(s, pepper) /\ \E w \in Seeds : restore_and_persist(c, w, s)
    <3>1. PICK w \in Seeds : restore_and_persist(c, w, s)
      BY <2>3
    <3> DEFINE q == [pc |-> "sealing", op |-> "restore", secret |-> s,
                     pepper |-> pepper, epoch |-> epoch, seed |-> w]
    <3>2. call' = [call EXCEPT ![c] = q]
      BY <2>3, <3>1 DEF restore_and_persist
    <3>3. q \in Sealing /\ q.secret = s /\ q.pepper = pepper /\ q.pc = "sealing" /\ q.epoch = epoch
      BY Parts DEF Sealing, Creating
    <3> HIDE DEF q
    <3> QED BY <2>3, <3>2, <3>3 DEF Locals
  <2> QED BY <2>1, <2>2, <2>3
<1>3. call'[c] = r
  BY <1>2, CallUpdate
<1>4. r.op \notin Proving /\ r.pc \in {"idle", "held", "sealing"}
  BY <1>2, Ops
<1>5. /\ used' \in Spendings /\ used'.calls = used.calls + 1 /\ used'.locks = used.locks
  BY <1>1, CallSpent
<1>6. /\ seen' \in Seen /\ seen'.by = seen.by /\ seen'.chosen = seen.chosen
      /\ seen'.overtaken[c] = "no"
      /\ \A d \in Calls \ {c} : seen'.overtaken[d] = seen.overtaken[d]
      /\ SameCount
  BY <1>1, FreshSeen DEF SameCount
<1>7. SampleIsKnown(c)'
  <2>1. epoch <= epoch
    BY Parts
  <2> QED BY <1>1, <1>2, <1>3, <1>4, <1>6, <2>1 DEF SampleIsKnown
<1>8. ~Inside(c)' /\ WritesSafely(c)' /\ Paces(c)'
  BY <1>1, <1>2, <1>3, <1>4 DEF Inside, WritesSafely, Paces
<1>9. pepper' \in BOOLEAN
  BY <1>1
<1>10. ceremony' \in Seeds \cup {None}
  BY <1>1, Parts
<1> QED BY <1>1, <1>2, <1>5, <1>6, <1>7, <1>8, <1>9, <1>10, PlainMove

\* The ceremony is taken, unless a lock dropped it.
LEMMA TakeStep == ASSUME IInv, NEW c \in Calls, TakeCeremony(c) PROVE IInv'
<1>1. /\ call[c].pc = "held" /\ ceremony' = None
      /\ UNCHANGED <<vault, epoch, gate, pepper, blob, lockout, enrolled, now, used, seen>>
  BY DEF TakeCeremony
<1>2. call[c] \in Held /\ call[c].op \in Creating
  BY <1>1, Parts, Shapes, Ops
<1>3. PICK r \in Locals :
        /\ call' = [call EXCEPT ![c] = r]
        /\ \/ r = Idle
           \/ /\ r \in Sealing /\ r.secret = call[c].secret /\ r.pepper = call[c].pepper
              /\ r.pc = "sealing" /\ r.epoch = epoch
  <2>1. CASE ceremony = None
    <3>1. call' = [call EXCEPT ![c] = Idle]
      BY <2>1 DEF TakeCeremony
    <3> QED BY <3>1 DEF Locals
  <2>2. CASE ceremony # None
    <3> DEFINE q == [pc |-> "sealing", op |-> "seal", secret |-> call[c].secret,
                     pepper |-> call[c].pepper, epoch |-> epoch, seed |-> ceremony]
    <3>1. call' = [call EXCEPT ![c] = q]
      BY <2>2 DEF TakeCeremony
    <3>2. ceremony \in Seeds
      BY <2>2, Parts
    <3>3. /\ q \in Sealing /\ q.secret = call[c].secret /\ q.pepper = call[c].pepper
          /\ q.pc = "sealing" /\ q.epoch = epoch
      BY <1>2, <3>2, Parts DEF Held, Sealing, Creating
    <3> HIDE DEF q
    <3> QED BY <3>1, <3>3 DEF Locals
  <2> QED BY <2>1, <2>2
<1>4. call'[c] = r
  BY <1>3, CallUpdate
<1>5. r.op \notin Proving /\ r.pc \in {"idle", "sealing"}
  BY <1>3, Ops
<1>6. SampleIsKnown(c)'
  <2>1. epoch <= epoch /\ seen.overtaken[c] # "sampled"
    BY <1>1, Parts DEF LockPart, SampleIsKnown
  <2> QED BY <1>1, <1>3, <1>4, <1>5, <2>1 DEF SampleIsKnown
<1>7. ~Inside(c)' /\ WritesSafely(c)' /\ Paces(c)'
  <2>1. blob = None /\ ~RefusesPin(call[c].secret, call[c].pepper)
    BY <1>1, Parts DEF BlobPart, WritesSafely
  <2> QED BY <1>1, <1>3, <1>4, <1>5, <2>1 DEF Inside, WritesSafely, Paces, RefusesPin
<1>8. pepper' \in BOOLEAN
  BY <1>1, Parts
<1>9. used' \in Spendings /\ seen' \in Seen /\ SameCount
  BY <1>1, Parts DEF Spendings, SameCount
<1> QED BY <1>1, <1>2, <1>3, <1>5, <1>6, <1>7, <1>8, <1>9, PlainMove

\* The biometric lane begins.
LEMMA LoadStep == ASSUME IInv, NEW c \in Calls, load_vault_from_seed_bytes(c) PROVE IInv'
<1> DEFINE r == [pc |-> "install", op |-> "bio", epoch |-> epoch, seed |-> enrolled]
<1>1. /\ used.calls < MaxCalls /\ Spends("calls") /\ enrolled # None
      /\ call' = [call EXCEPT ![c] = r] /\ seen' = [seen EXCEPT !.overtaken[c] = "no"]
      /\ UNCHANGED <<vault, epoch, gate, pepper, ceremony, blob, lockout, enrolled, now>>
  BY DEF load_vault_from_seed_bytes
<1>2. enrolled \in Seeds /\ blob # None /\ blob.seed = enrolled
  BY <1>1, Parts DEF BlobPart
<1>3. /\ r \in Loading /\ r \in Locals /\ r.pc = "install" /\ r.epoch = epoch /\ r.seed = enrolled
      /\ r.op \notin Proving /\ r.op \notin Creating
  BY <1>2, Parts DEF Loading, Locals, Proving, Creating
<1> HIDE DEF r
<1>4. call'[c] = r
  BY <1>1, <1>3, CallUpdate
<1>5. /\ used' \in Spendings /\ used'.calls = used.calls + 1 /\ used'.locks = used.locks
  BY <1>1, CallSpent
<1>6. /\ seen' \in Seen /\ seen'.by = seen.by /\ seen'.chosen = seen.chosen
      /\ seen'.overtaken[c] = "no"
      /\ \A d \in Calls \ {c} : seen'.overtaken[d] = seen.overtaken[d]
      /\ SameCount
  BY <1>1, FreshSeen DEF SameCount
<1>7. SampleIsKnown(c)'
  <2>1. epoch <= epoch
    BY Parts
  <2> QED BY <1>1, <1>3, <1>4, <1>6, <2>1 DEF SampleIsKnown
<1>8. ~Inside(c)' /\ WritesSafely(c)' /\ Paces(c)'
  BY <1>1, <1>2, <1>3, <1>4 DEF Inside, WritesSafely, Paces
<1>9. pepper' \in BOOLEAN
  BY <1>1, Parts
<1>10. ceremony' \in Seeds \cup {None}
  BY <1>1, Parts
<1> QED BY <1>1, <1>3, <1>5, <1>6, <1>7, <1>8, <1>9, <1>10, PlainMove

----------------------------------------------------------------------------
(* The calls under the gate *)

\* A call that only returns.
LEMMA ReturnStep ==
  ASSUME IInv, NEW c \in Calls, Returns(c), pepper' \in BOOLEAN,
         UNCHANGED <<vault, epoch, ceremony, blob, lockout, enrolled, now, used, seen>>
  PROVE  IInv'
<1>1. call' = [call EXCEPT ![c] = Idle] /\ gate' = IF gate = c THEN None ELSE gate
  BY DEF Returns
<1>2. Idle \in Locals /\ Idle.op \notin Proving /\ Idle.op \notin Creating
  BY DEF Locals, Proving, Creating
<1>3. call'[c] = Idle
  BY <1>1, <1>2, CallUpdate
<1>4. SampleIsKnown(c)' /\ ~Inside(c)' /\ WritesSafely(c)' /\ Paces(c)'
  BY <1>3, IdleIsSafe
<1>5. gate' = gate \/ (gate = c /\ gate' = None)
  BY <1>1, ReturnGate
<1>6. used' \in Spendings /\ seen' \in Seen /\ SameCount
  BY Parts DEF Spendings, SameCount
<1>7. ceremony' \in Seeds \cup {None}
  BY Parts
<1> HIDE DEF Idle
<1> QED BY <1>1, <1>2, <1>4, <1>5, <1>6, <1>7, PlainMove

\* The gate is entered, or the call is refused.
LEMMA EnterStep == ASSUME IInv, NEW c \in Calls, Enter(c) PROVE IInv'
<1>1. /\ call[c].pc = "queued" /\ gate = None /\ pepper' = FALSE
      /\ UNCHANGED <<vault, epoch, ceremony, blob, lockout, enrolled, now, used, seen>>
  BY DEF Enter
<1>2. pepper' \in BOOLEAN
  BY <1>1
<1>3. CASE Refused(c)
  BY <1>1, <1>2, <1>3, ReturnStep DEF Enter
<1>4. CASE ~Refused(c)
  <2> DEFINE r == [pc |-> "entered", op |-> call[c].op, secret |-> call[c].secret, next |-> call[c].next,
                   pepper |-> pepper, at |-> now, lockout |-> lockout]
  <2>1. gate' = c /\ call' = [call EXCEPT ![c] = r]
    BY <1>4 DEF Enter
  <2>2. call[c] \in Queued /\ call[c].op \in Proving
    BY <1>1, Parts, Shapes, Ops
  <2>3. /\ r \in Entered /\ r.pc = "entered" /\ r.op = call[c].op /\ r.next = call[c].next
        /\ r.pepper = pepper /\ r.at = now /\ r.lockout = lockout
    BY <2>2, Parts DEF Queued, Entered
  <2> HIDE DEF r
  <2>4. r \in Locals /\ call'[c] = r
    BY <2>1, <2>3, CallUpdate DEF Locals
  <2>5. r.op \in Proving /\ r.op \notin Creating
    BY <2>2, <2>3, <2>4, Ops
  <2>6. SampleIsKnown(c)'
    <3>1. seen.overtaken[c] # "sampled"
      BY <1>1, Parts DEF LockPart, SampleIsKnown
    <3> QED BY <1>1, <2>3, <2>4, <3>1 DEF SampleIsKnown
  <2>7. WritesSafely(c)'
    <3>1. call[c].op = "reseal" => ~RefusesPin(call[c].next, pepper)
      BY <1>4 DEF Refused
    <3> QED BY <2>3, <2>4, <3>1 DEF WritesSafely, RefusesPin
  <2>8. SameCount /\ used' \in Spendings /\ seen' \in Seen
    BY <1>1, Parts DEF SameCount, Spendings
  <2>9. ASSUME Cardinality(Proofs') <= Cardinality(Proofs) + (used'.calls - used.calls) PROVE Paces(c)'
    <3>1. /\ now \in Nat /\ lockout.failed \in Nat /\ lockout.until \in Nat /\ used.calls \in Nat
          /\ seen.owed \in Nat
      BY Parts, Constants DEF Lockouts, Seen
    <3>2. lockout.until <= now
      BY <1>4, <3>1 DEF Refused, Active
    <3>3. seen.lost = 0 => seen.owed <= now /\ seen.failures <= lockout.failed
      <4>1. seen.lost = 0 => /\ seen.failures <= lockout.failed
                             /\ seen.owed <= lockout.until \/ seen.owed <= now
        BY Parts DEF CountPart
      <4> QED BY <3>1, <3>2, <4>1
    <3>4. lockout.failed + Cardinality(Proofs') <= used.calls
      <4>1. lockout.failed + Cardinality(Proofs) <= used.calls
        BY Parts DEF CountPart
      <4>2. Cardinality(Proofs) \in Nat /\ Cardinality(Proofs') \in Nat
        BY ProofsCount
      <4> QED BY <1>1, <2>9, <3>1, <4>1, <4>2
    <3>5. now <= now
      BY <3>1
    <3> QED BY <1>1, <2>3, <2>4, <3>3, <3>4, <3>5 DEF Paces
  <2>10. ceremony' \in Seeds \cup {None}
    BY <1>1, Parts
  <2> QED BY <1>1, <1>2, <2>1, <2>2, <2>4, <2>5, <2>6, <2>7, <2>8, <2>9, <2>10, PlainMove
<1> QED BY <1>3, <1>4

\* What Paces says of a call stays when it keeps what it read at the gate.
LEMMA PacesOn ==
  ASSUME IInv, NEW c \in Calls, SameCount, call[c].pc \in {"entered", "kdf"}, call[c] \in Entered \cup Opening,
         call'[c].at = call[c].at, call'[c].lockout = call[c].lockout, used'.calls = used.calls,
         Cardinality(Proofs') <= Cardinality(Proofs) + (used'.calls - used.calls)
  PROVE  Paces(c)'
<1>1. /\ call[c].at <= now
      /\ seen.lost = 0 => seen.owed <= call[c].at /\ seen.failures <= call[c].lockout.failed
      /\ ~seen.blurred => call[c].lockout = lockout
      /\ call[c].lockout.failed + Cardinality(Proofs) <= used.calls
  BY Parts DEF CountPart, Paces
<1>2. call[c].lockout.failed \in Nat /\ used.calls \in Nat
  BY Parts, Constants DEF Entered, Opening, Lockouts
<1>3. call[c].lockout.failed + Cardinality(Proofs') <= used.calls
  <2>1. Cardinality(Proofs) \in Nat /\ Cardinality(Proofs') \in Nat
    BY ProofsCount
  <2> QED BY <1>1, <1>2, <2>1
<1> QED BY <1>1, <1>3 DEF Paces, SameCount

\* The generation is sampled and the blob read.
LEMMA SampleStep == ASSUME IInv, NEW c \in Calls, Sample(c) PROVE IInv'
<1>1. /\ call[c].pc = "entered"
      /\ UNCHANGED <<vault, epoch, pepper, ceremony, blob, lockout, enrolled, now, used, seen>>
  BY DEF Sample
<1>2. pepper' \in BOOLEAN
  BY <1>1, Parts
<1>3. CASE blob = None
  BY <1>1, <1>2, <1>3, ReturnStep DEF Sample
<1>4. CASE blob # None
  <2> DEFINE r == [pc |-> "kdf", op |-> call[c].op, secret |-> call[c].secret, next |-> call[c].next,
                   pepper |-> call[c].pepper, at |-> call[c].at, lockout |-> call[c].lockout,
                   epoch |-> epoch, blob |-> blob, seed |-> blob.seed]
  <2>1. gate' = gate /\ call' = [call EXCEPT ![c] = r]
    BY <1>4 DEF Sample
  <2>2. call[c] \in Entered /\ call[c].op \in Proving
    BY <1>1, Parts, Shapes, Ops
  <2>3. blob \in Blobs /\ blob.seed \in Seeds
    BY <1>4, Parts DEF Blobs
  <2>4. /\ r \in Opening /\ r.pc = "kdf" /\ r.op = call[c].op /\ r.next = call[c].next
        /\ r.pepper = call[c].pepper /\ r.at = call[c].at /\ r.lockout = call[c].lockout
        /\ r.epoch = epoch /\ r.blob = blob /\ r.seed = blob.seed
    BY <2>2, <2>3, Parts DEF Entered, Opening
  <2> HIDE DEF r
  <2>5. r \in Locals /\ call'[c] = r
    BY <2>1, <2>4, CallUpdate DEF Locals
  <2>6. r.op \in Proving /\ r.op \notin Creating
    BY <2>4, <2>5, Ops
  <2>7. SampleIsKnown(c)'
    <3>1. seen.overtaken[c] # "sampled" /\ epoch <= epoch
      BY <1>1, Parts DEF LockPart, SampleIsKnown
    <3> QED BY <1>1, <2>4, <2>5, <3>1 DEF SampleIsKnown
  <2>8. Inside(c) /\ gate = c
    BY <1>1, <2>2, Parts DEF GatePart, Inside
  <2>9. WritesSafely(c)'
    <3>1. call[c].op = "reseal" => ~RefusesPin(call[c].next, call[c].pepper)
      BY <2>8, Parts DEF BlobPart, WritesSafely
    <3> QED BY <1>1, <1>4, <2>4, <2>5, <3>1 DEF WritesSafely, RefusesPin
  <2>10. SameCount /\ used' \in Spendings /\ seen' \in Seen
    BY <1>1, Parts DEF SameCount, Spendings
  <2>11. ASSUME Cardinality(Proofs') <= Cardinality(Proofs) + (used'.calls - used.calls) PROVE Paces(c)'
    BY <1>1, <2>2, <2>4, <2>5, <2>10, <2>11, PacesOn
  <2>12. ceremony' \in Seeds \cup {None}
    BY <1>1, Parts
  <2> QED BY <1>1, <1>2, <2>1, <2>2, <2>5, <2>6, <2>7, <2>8, <2>9, <2>10, <2>11, <2>12, PlainMove
<1> QED BY <1>3, <1>4

\* A call inside the gate, past its read of the blob, goes on to another place.
LEMMA GoesFacts ==
  ASSUME IInv, NEW c \in Calls, NEW p \in {"kdf", "install", "settle", "rewrite"},
         call[c] \in Opening \/ (call[c] \in Loading /\ p \in {"install", "settle"}),
         Goes(c, p)
  PROVE  \E r \in Locals :
           /\ call' = [call EXCEPT ![c] = r] /\ call'[c] = r /\ r.pc = p /\ r.op = call[c].op
           /\ r.epoch = call[c].epoch /\ r.seed = call[c].seed
           /\ call[c] \in Opening => /\ r.next = call[c].next /\ r.pepper = call[c].pepper
                                     /\ r.secret = call[c].secret /\ r \in Opening
<1> DEFINE r == [call[c] EXCEPT !.pc = p]
<1>1. call' = [call EXCEPT ![c] = r]
  BY DEF Goes
<1>2. CASE call[c] \in Opening
  <2>1. /\ r \in Opening /\ r.pc = p /\ r.op = call[c].op /\ r.epoch = call[c].epoch /\ r.seed = call[c].seed
        /\ r.next = call[c].next /\ r.pepper = call[c].pepper /\ r.secret = call[c].secret
    BY <1>2 DEF Opening
  <2> HIDE DEF r
  <2>2. r \in Locals
    BY <2>1 DEF Locals
  <2> QED BY <1>1, <2>1, <2>2, CallUpdate
<1>3. CASE call[c] \in Loading /\ call[c] \notin Opening /\ p \in {"install", "settle"}
  <2>1. r \in Loading /\ r.pc = p /\ r.op = call[c].op /\ r.epoch = call[c].epoch /\ r.seed = call[c].seed
    BY <1>3 DEF Loading
  <2> HIDE DEF r
  <2>2. r \in Locals
    BY <2>1 DEF Locals
  <2> QED BY <1>1, <1>3, <2>1, <2>2, CallUpdate
<1> QED BY <1>2, <1>3

\* The secret was right: the confirm and the re-key go on to settle.
LEMMA OpenedStep == ASSUME IInv, NEW c \in Calls, Opened(c) PROVE IInv'
<1>1. /\ call[c].pc = "kdf" /\ Goes(c, "settle")
      /\ UNCHANGED <<vault, epoch, gate, pepper, ceremony, blob, lockout, enrolled, now, used, seen>>
  BY DEF Opened
<1>2. call[c] \in Opening /\ call[c].op \in Proving /\ call[c].op \notin Creating
  BY <1>1, Parts, Shapes, Ops
<1>3. PICK r \in Locals :
           /\ call' = [call EXCEPT ![c] = r] /\ call'[c] = r /\ r.pc = "settle" /\ r.op = call[c].op
           /\ r.epoch = call[c].epoch /\ r.seed = call[c].seed
           /\ r.next = call[c].next /\ r.pepper = call[c].pepper
  BY <1>1, <1>2, GoesFacts
<1>4. Inside(c) /\ gate = c
  BY <1>1, <1>2, Parts DEF GatePart, Inside
<1>5. SampleIsKnown(c)' /\ Paces(c)'
  BY <1>3 DEF SampleIsKnown, Paces
<1>6. WritesSafely(c)'
  <2>1. /\ call[c].op = "reseal" => ~RefusesPin(call[c].next, call[c].pepper)
        /\ blob # None /\ call[c].seed = blob.seed
    BY <1>1, <1>4, Parts DEF BlobPart, WritesSafely
  <2> QED BY <1>1, <1>3, <2>1 DEF WritesSafely, RefusesPin
<1>7. SameCount /\ used' \in Spendings /\ seen' \in Seen
  BY <1>1, Parts DEF SameCount, Spendings
<1>8. pepper' \in BOOLEAN
  BY <1>1, Parts
<1>9. ceremony' \in Seeds \cup {None}
  BY <1>1, Parts
<1> QED BY <1>1, <1>2, <1>3, <1>4, <1>5, <1>6, <1>7, <1>8, <1>9, PlainMove

\* The greater of two numbers.
LEMMA MaxPair ==
  ASSUME NEW a \in Nat, NEW b \in Nat
  PROVE  Max({a, b}) \in {a, b} /\ Max({a, b}) >= a /\ Max({a, b}) >= b
<1>1. PICK x \in {a, b} : \A y \in {a, b} : x >= y
  OBVIOUS
<1> QED BY <1>1 DEF Max

\* What a call counts to, from the counter it read at the gate.
LEMMA CountedFacts ==
  ASSUME IInv, NEW c \in Calls, call[c] \in Opening
  PROVE  LET n == call[c].lockout.failed + 1
             delay == lockout_delay_secs(n)
         IN /\ n \in Nat /\ delay \in Nat /\ delay <= MaxDelay
            /\ Counted(c).failed = n
            /\ Counted(c).until = IF delay > 0 THEN call[c].at + delay ELSE call[c].lockout.until
            /\ Counted(c).until \in 0..(MaxTime + MaxDelay)
            /\ n <= MaxCalls => Counted(c) \in Lockouts
<1> DEFINE n == call[c].lockout.failed + 1
           delay == lockout_delay_secs(n)
           until == IF delay > 0 THEN call[c].at + delay ELSE call[c].lockout.until
<1>1. call[c].lockout.failed \in Nat /\ call[c].lockout.until \in 0..(MaxTime + MaxDelay) /\ call[c].at \in 0..MaxTime
  BY Constants DEF Opening, Lockouts
<1>2. n \in Nat
  BY <1>1
<1>3. delay \in Nat /\ delay <= MaxDelay
  BY <1>2, DelayFacts
<1>4. Counted(c) = [failed |-> n, until |-> until]
  BY DEF Counted
<1>5. until \in 0..(MaxTime + MaxDelay)
  <2> HIDE DEF delay, n
  <2> QED BY <1>1, <1>3, Constants
<1> HIDE DEF until, delay, n
<1>6. n <= MaxCalls => [failed |-> n, until |-> until] \in Lockouts
  BY <1>2, <1>5, Constants DEF Lockouts
<1>7. Counted(c).failed = n /\ Counted(c).until = until
  BY <1>4
<1> QED BY <1>2, <1>3, <1>4, <1>5, <1>6, <1>7 DEF until, delay, n

\* A wrong secret is counted.
LEMMA WrongStep == ASSUME IInv, NEW c \in Calls, NEW wrote \in BOOLEAN, Wrong(c, wrote) PROVE IInv'
<1> DEFINE n == call[c].lockout.failed + 1
           earned == call[c].at + lockout_delay_secs(seen.failures + 1)
<1>1. /\ call[c].pc = "kdf" /\ call[c].op \in Proving /\ Written(wrote)
      /\ lockout' = IF wrote THEN Counted(c) ELSE lockout
      /\ seen' = [seen EXCEPT !.failures = seen.failures + 1,
                              !.lost = IF wrote THEN seen.lost ELSE seen.lost + 1,
                              !.owed = Max({seen.owed, earned})]
      /\ call' = [call EXCEPT ![c] = Idle] /\ gate' = IF gate = c THEN None ELSE gate
      /\ UNCHANGED <<vault, epoch, pepper, ceremony, blob, enrolled, now>>
  BY DEF Wrong, Returns
<1>2. call[c] \in Opening /\ gate = c
  BY <1>1, Parts, Shapes DEF GatePart, Inside
<1>3. used' \in Spendings /\ used'.calls = used.calls /\ used'.locks = used.locks
  BY <1>1, WriteSpent
<1>4. Idle \in Locals /\ call'[c] = Idle /\ Others(c) /\ call' \in [Calls -> Locals]
  <2>1. Idle \in Locals
    BY DEF Locals
  <2> QED BY <1>1, <2>1, CallUpdate DEF Others
<1>5. SampleIsKnown(c)' /\ ~Inside(c)' /\ WritesSafely(c)' /\ Paces(c)'
  BY <1>4, IdleIsSafe
<1>6. /\ seen.failures \in Nat /\ seen.lost \in Nat /\ seen.owed \in Nat /\ now \in Nat /\ used.calls \in Nat
      /\ used.calls <= MaxCalls /\ lockout.failed \in Nat /\ lockout.until \in Nat /\ call[c].at \in Nat
      /\ call[c].lockout.failed \in Nat
  BY <1>2, Parts, Constants DEF Seen, Lockouts, Opening
<1>7. lockout_delay_secs(seen.failures + 1) \in Nat /\ earned \in Nat
  <2>1. seen.failures + 1 \in Nat
    BY <1>6
  <2>2. lockout_delay_secs(seen.failures + 1) \in Nat
    BY <2>1, DelayFacts
  <2> QED BY <1>6, <2>2
<1>8. Max({seen.owed, earned}) \in {seen.owed, earned}
  <2> HIDE DEF earned
  <2> QED BY <1>6, <1>7, MaxPair
<1>9. /\ seen' \in Seen /\ seen'.by = seen.by /\ seen'.chosen = seen.chosen
      /\ seen'.overtaken = seen.overtaken /\ seen'.blurred = seen.blurred
      /\ seen'.failures = seen.failures + 1
      /\ seen'.lost = (IF wrote THEN seen.lost ELSE seen.lost + 1)
      /\ seen'.owed \in {seen.owed, earned}
  <2> DEFINE f == seen.failures + 1
             l == IF wrote THEN seen.lost ELSE seen.lost + 1
             o == Max({seen.owed, earned})
  <2>1. f \in Nat /\ l \in Nat /\ o \in Nat /\ o \in {seen.owed, earned}
    <3> HIDE DEF earned
    <3> QED BY <1>6, <1>7, <1>8
  <2>2. seen' = [seen EXCEPT !.failures = f, !.lost = l, !.owed = o]
    BY <1>1
  <2>3. seen \in Seen
    BY Parts
  <2> HIDE DEF f, l, o, earned
  <2>4. /\ seen' \in Seen /\ seen'.by = seen.by /\ seen'.chosen = seen.chosen
        /\ seen'.overtaken = seen.overtaken /\ seen'.blurred = seen.blurred
        /\ seen'.failures = f /\ seen'.lost = l /\ seen'.owed = o
    BY <2>1, <2>2, <2>3 DEF Seen
  <2> QED BY <2>1, <2>4 DEF f, l
<1> HIDE DEF earned
<1>10. /\ Cardinality(Proofs') \in Nat /\ Cardinality(Proofs) \in Nat
       /\ Cardinality(Proofs') + 1 <= Cardinality(Proofs)
  <2>1. c \in Proofs /\ Proofs' \subseteq Proofs \ {c}
    BY <1>1, <1>4 DEF Proofs, Others, Proving
  <2> QED BY <2>1, ProofsCount
<1>11. /\ call[c].at <= now
       /\ seen.lost = 0 => seen.owed <= call[c].at /\ seen.failures <= call[c].lockout.failed
       /\ ~seen.blurred => call[c].lockout = lockout
       /\ call[c].lockout.failed + Cardinality(Proofs) <= used.calls
  BY <1>1, Parts DEF CountPart, Paces
<1>12. /\ n \in Nat /\ n <= MaxCalls /\ n + Cardinality(Proofs') <= used.calls
       /\ lockout.failed + Cardinality(Proofs') <= used.calls
  <2>1. lockout.failed + Cardinality(Proofs) <= used.calls
    BY Parts DEF CountPart
  <2> QED BY <1>6, <1>10, <1>11, <2>1, Constants
<1>13. /\ Counted(c).failed = n /\ Counted(c) \in Lockouts /\ lockout_delay_secs(n) \in Nat
       /\ Counted(c).until = IF lockout_delay_secs(n) > 0 THEN call[c].at + lockout_delay_secs(n)
                             ELSE call[c].lockout.until
  BY <1>2, <1>12, CountedFacts
<1>14. TypeOK'
  <2>1. lockout' \in Lockouts
    BY <1>1, <1>13, Parts
  <2>2. gate' \in Calls \cup {None}
    BY <1>1, Parts
  <2> QED BY <1>1, <1>3, <1>4, <1>9, <2>1, <2>2, Parts DEF TypeOK, Spendings
<1>15. LockPart'
  BY <1>1, <1>3, <1>4, <1>5, <1>9, LockFrame
<1>16. GatePart'
  BY <1>1, <1>4, <1>5, ReturnGate, GateFrame
<1>17. BlobPart'
  <2>1. call'[c].op \notin Creating
    BY <1>4 DEF Creating
  <2> QED BY <1>1, <1>4, <1>5, <1>9, <2>1, BlobFrame
<1>18. \A d \in Calls : Paces(d)'
  <2> SUFFICES ASSUME NEW d \in Calls \ {c} PROVE call'[d].pc \notin {"entered", "kdf"}
    BY <1>5 DEF Paces
  <2>1. call'[d] = call[d] /\ ~Inside(d)
    BY <1>2, <1>4, Parts DEF Others, GatePart
  <2>2. call[d].pc \in {"entered", "kdf"} => call[d].op \in Proving
    BY Parts, Shapes, Ops
  <2> QED BY <2>1, <2>2 DEF Inside
<1>19. lockout'.failed + Cardinality(Proofs') <= used'.calls
  BY <1>1, <1>3, <1>12, <1>13
<1>20. ASSUME seen'.lost = 0
       PROVE  seen'.failures <= lockout'.failed /\ (seen'.owed <= lockout'.until \/ seen'.owed <= now')
  <2>1. wrote /\ seen.lost = 0
    BY <1>6, <1>9, <1>20
  <2>2. seen.owed <= call[c].at /\ seen.failures <= call[c].lockout.failed
    BY <1>11, <2>1
  <2>3. seen.failures + 1 \in Nat /\ seen.failures + 1 <= n
    BY <1>6, <2>2
  <2>4. lockout_delay_secs(seen.failures + 1) <= lockout_delay_secs(n)
    BY <1>12, <2>3, DelayFacts
  <2>5. earned <= call[c].at + lockout_delay_secs(n)
    BY <1>6, <1>7, <1>13, <2>4 DEF earned
  <2>6. seen'.owed \in Nat /\ seen'.owed <= call[c].at + lockout_delay_secs(n)
    BY <1>6, <1>7, <1>9, <1>13, <2>2, <2>5
  <2>7. CASE lockout_delay_secs(n) > 0
    BY <1>1, <1>9, <1>13, <2>1, <2>3, <2>6, <2>7
  <2>8. CASE ~(lockout_delay_secs(n) > 0)
    <3>1. seen'.owed <= now
      BY <1>6, <1>11, <1>13, <2>6, <2>8
    <3> QED BY <1>1, <1>9, <1>13, <2>1, <2>3, <3>1
  <2> QED BY <2>7, <2>8
<1>21. AttemptsCounted'
  <2> SUFFICES ASSUME ~seen'.blurred PROVE lockout'.failed + seen'.lost = seen'.failures
    BY DEF AttemptsCounted
  <2>1. ~seen.blurred
    BY <1>9
  <2>2. lockout.failed + seen.lost = seen.failures /\ call[c].lockout = lockout
    BY <1>11, <2>1, Parts DEF CountPart, AttemptsCounted
  <2>3. CASE wrote
    <3>1. lockout'.failed = lockout.failed + 1
      BY <1>1, <1>13, <2>2, <2>3
    <3> QED BY <1>6, <1>9, <2>2, <2>3, <3>1
  <2>4. CASE ~wrote
    BY <1>1, <1>6, <1>9, <2>2, <2>4
  <2> QED BY <2>3, <2>4
<1>22. CountPart'
  BY <1>18, <1>19, <1>20, <1>21 DEF CountPart
<1> QED BY <1>14, <1>15, <1>16, <1>17, <1>22 DEF IInv

\* The file is replaced by one of the same seed, by the call in the gate.
LEMMA Resealed ==
  ASSUME IInv, NEW c \in Calls, Others(c), gate = c, blob # None,
         NEW b \in Blobs, blob' = b, b.seed = blob.seed, b.secret = seen'.chosen,
         ~RefusesPin(b.secret, b.bound),
         UNCHANGED <<vault, enrolled>>, call'[c].op \notin Creating, WritesSafely(c)'
  PROVE  BlobPart'
<1>1. b # None
  BY Constants
<1>2. ASSUME NEW d \in Calls \ {c} PROVE WritesSafely(d)'
  <2>1. WritesSafely(d) /\ call'[d] = call[d] /\ ~Inside(d)
    BY Parts DEF BlobPart, Others, GatePart
  <2>2. call[d].pc = "kdf" => call[d].op \in Proving
    BY Parts, Shapes, Ops
  <2>3. call[d].pc # "kdf"
    BY <2>1, <2>2 DEF Inside
  <2> QED BY <1>1, <2>1, <2>3 DEF WritesSafely, Inside
<1>3. \A x, y \in Calls : call'[x].op \in Creating /\ call'[y].op \in Creating => x = y
  BY Parts DEF BlobPart, Others
<1>4. ResidentIsBlob' /\ OpensWithChosen' /\ (enrolled' # None => blob' # None /\ blob'.seed = enrolled')
  BY <1>1, Parts DEF BlobPart, ResidentIsBlob, OpensWithChosen
<1>5. PinsAreBound'
  BY DEF PinsAreBound, RefusesPin
<1> QED BY <1>2, <1>3, <1>4, <1>5 DEF BlobPart

\* A sealed blob.
LEMMA SealedFacts ==
  ASSUME NEW w \in Seeds, NEW s \in Secrets, NEW p \in BOOLEAN
  PROVE  /\ Sealed(w, s, p) \in Blobs /\ Sealed(w, s, p).seed = w
         /\ Sealed(w, s, p).secret = s /\ Sealed(w, s, p).bound = p
  BY DEF Sealed, Blobs

\* The unlock's migration: the secret and the seed stay.
LEMMA MigrateStep == ASSUME IInv, NEW c \in Calls, NEW wrote \in BOOLEAN, Migrate(c, wrote) PROVE IInv'
<1>1. /\ call[c].pc = "kdf" /\ Outcome(c) = "ok" /\ Goes(c, "install")
      /\ UNCHANGED <<vault, epoch, gate, pepper, ceremony, lockout, enrolled, now, seen>>
  BY DEF Migrate
<1>2. call[c] \in Opening /\ call[c].op \in Proving /\ call[c].op \notin Creating
  BY <1>1, Parts, Shapes, Ops
<1>3. Inside(c) /\ gate = c
  BY <1>1, <1>2, Parts DEF GatePart, Inside
<1>4. PICK r \in Locals :
           /\ call' = [call EXCEPT ![c] = r] /\ call'[c] = r /\ r.pc = "install" /\ r.op = call[c].op
           /\ r.epoch = call[c].epoch /\ r.seed = call[c].seed
           /\ r.next = call[c].next /\ r.pepper = call[c].pepper
  BY <1>1, <1>2, GoesFacts
<1>5. Others(c) /\ call' \in [Calls -> Locals]
  BY <1>4, CallUpdate DEF Others
<1>6. used' \in Spendings /\ used'.calls = used.calls /\ used'.locks = used.locks
  <2>1. Written(wrote) \/ used' = used
    BY DEF Migrate
  <2>2. used \in Spendings
    BY Parts DEF Spendings
  <2> QED BY <2>1, <2>2, WriteSpent
<1>7. /\ blob # None /\ blob \in Blobs /\ call[c].seed = blob.seed /\ call[c].blob = blob
      /\ (call[c].op = "reseal" => ~RefusesPin(call[c].next, call[c].pepper))
  BY <1>1, <1>3, Parts DEF BlobPart, WritesSafely
<1>8. LockPart'
  <2>1. SampleIsKnown(c)'
    BY <1>1, <1>4, Parts DEF LockPart, SampleIsKnown
  <2>2. seen' \in Seen
    BY <1>1, Parts
  <2> QED BY <1>1, <1>5, <1>6, <2>1, <2>2, LockFrame
<1>9. GatePart'
  BY <1>1, <1>3, <1>5, GateFrame
<1>10. CountPart'
  <2>1. Paces(c)'
    BY <1>4 DEF Paces
  <2>2. SameCount /\ used'.calls \in Nat
    BY <1>1, <1>6, Constants DEF SameCount, Spendings
  <2> QED BY <1>2, <1>4, <1>5, <1>6, <2>1, <2>2, CountFrame
<1> DEFINE b == Sealed(call[c].seed, call[c].secret, call[c].pepper)
<1>11. b \in Blobs /\ b.seed = blob.seed /\ b.secret = call[c].secret /\ b.bound = call[c].pepper
  BY <1>2, <1>7, SealedFacts DEF Opening
<1>12. blob' = blob \/ blob' = b
  BY DEF Migrate
<1> HIDE DEF b
<1>13. BlobPart'
  <2>1. CASE blob' = blob
    <3>1. WritesSafely(c)'
      BY <1>4, <1>7, <2>1 DEF WritesSafely, RefusesPin
    <3> QED BY <1>1, <1>2, <1>4, <1>5, <2>1, <3>1, BlobFrame
  <2>2. CASE blob' = b
    <3>1. b # None
      BY <1>11, Constants
    <3>2. WritesSafely(c)'
      BY <1>4, <1>7, <1>11, <2>2, <3>1 DEF WritesSafely, RefusesPin
    <3>3. blob.secret = call[c].secret /\ ~(blob.bound /\ ~call[c].pepper)
      <4>1. Unsealed(blob, call[c].secret, call[c].pepper) = "ok"
        BY <1>1, <1>7 DEF Outcome
      <4> QED BY <4>1 DEF Unsealed
    <3>4. blob.secret \notin Weak /\ (blob.secret \in Pins => blob.bound) /\ blob.secret = seen.chosen
      BY <1>7, Parts DEF BlobPart, PinsAreBound, OpensWithChosen
    <3>5. ~RefusesPin(b.secret, b.bound) /\ b.secret = seen'.chosen
      BY <1>1, <1>11, <3>3, <3>4 DEF RefusesPin
    <3> QED BY <1>1, <1>2, <1>3, <1>4, <1>5, <1>7, <1>11, <2>2, <3>2, <3>5, Resealed
  <2> QED BY <1>12, <2>1, <2>2
<1>14. TypeOK'
  <2>1. blob' \in Blobs \cup {None}
    BY <1>7, <1>11, <1>12
  <2> QED BY <1>1, <1>5, <1>6, <2>1, Parts DEF TypeOK, Spendings
<1> QED BY <1>8, <1>9, <1>10, <1>13, <1>14 DEF IInv

\* The re-keyed blob replaces the old one.
LEMMA RewriteStep == ASSUME IInv, NEW c \in Calls, NEW wrote \in BOOLEAN, Rewrite(c, wrote) PROVE IInv'
<1> DEFINE b == Sealed(call[c].seed, call[c].next, call[c].pepper)
<1>1. /\ call[c].pc = "rewrite" /\ Written(wrote)
      /\ call' = [call EXCEPT ![c] = Idle] /\ gate' = IF gate = c THEN None ELSE gate
      /\ UNCHANGED <<vault, epoch, pepper, ceremony, lockout, enrolled, now>>
  BY DEF Rewrite, Returns
<1>2. call[c] \in Opening /\ call[c].op \in Proving
  BY <1>1, Parts, Shapes, Ops
<1>3. Inside(c) /\ gate = c
  BY <1>1, <1>2, Parts DEF GatePart, Inside
<1>4. used' \in Spendings /\ used'.calls = used.calls /\ used'.locks = used.locks
  BY <1>1, WriteSpent
<1>5. Idle \in Locals /\ call'[c] = Idle /\ Others(c) /\ call' \in [Calls -> Locals]
  <2>1. Idle \in Locals
    BY DEF Locals
  <2> QED BY <1>1, <2>1, CallUpdate DEF Others
<1>6. SampleIsKnown(c)' /\ ~Inside(c)' /\ WritesSafely(c)' /\ Paces(c)' /\ call'[c].op \notin Creating /\ call'[c].op \notin Proving
  BY <1>5, IdleIsSafe DEF Creating, Proving
<1>7. blob # None /\ blob \in Blobs /\ call[c].seed = blob.seed
  BY <1>1, Parts DEF BlobPart, WritesSafely
<1>8. b \in Blobs /\ b.seed = blob.seed /\ b.secret = call[c].next /\ b.bound = call[c].pepper
  BY <1>2, <1>7, SealedFacts DEF Opening
<1>9. wrote => blob' = b /\ seen' = [seen EXCEPT !.chosen = call[c].next]
  BY DEF Rewrite
<1>10. ~wrote => blob' = blob /\ seen' = seen
  BY DEF Rewrite
<1> HIDE DEF b
<1>11. /\ seen' \in Seen /\ seen'.by = seen.by /\ seen'.overtaken = seen.overtaken
       /\ wrote => seen'.chosen = call[c].next
       /\ SameCount
  <2>1. seen \in Seen /\ call[c].next \in Secrets
    BY <1>2, Parts DEF Opening
  <2>2. CASE wrote
    BY <1>1, <1>9, <2>1, <2>2 DEF Seen, SameCount
  <2>3. CASE ~wrote
    BY <1>1, <1>10, <2>1, <2>3 DEF SameCount
  <2> QED BY <2>2, <2>3
<1>12. LockPart'
  BY <1>1, <1>4, <1>5, <1>6, <1>11, LockFrame
<1>13. GatePart'
  BY <1>1, <1>5, <1>6, ReturnGate, GateFrame
<1>14. CountPart'
  <2>1. used'.calls \in Nat
    BY <1>4, Constants DEF Spendings
  <2> QED BY <1>4, <1>5, <1>6, <1>11, <2>1, CountFrame
<1>15. BlobPart'
  <2>1. CASE ~wrote
    BY <1>1, <1>5, <1>6, <1>10, <2>1, BlobFrame
  <2>2. CASE wrote
    <3>1. call[c].op = "reseal"
      BY <1>1, Parts DEF BlobPart, WritesSafely
    <3>2. ~RefusesPin(b.secret, b.bound) /\ b.secret = seen'.chosen
      <4>1. ~RefusesPin(call[c].next, call[c].pepper)
        BY <1>3, <3>1, Parts DEF BlobPart, WritesSafely
      <4> QED BY <1>8, <1>11, <2>2, <4>1
    <3> QED BY <1>1, <1>3, <1>5, <1>6, <1>7, <1>8, <1>9, <2>2, <3>2, Resealed
  <2> QED BY <2>1, <2>2
<1>16. TypeOK'
  <2>1. blob' \in Blobs \cup {None} /\ gate' \in Calls \cup {None}
    BY <1>1, <1>7, <1>8, <1>9, <1>10, Parts
  <2> QED BY <1>1, <1>4, <1>5, <1>11, <2>1, Parts DEF TypeOK, Spendings, SameCount
<1> QED BY <1>12, <1>13, <1>14, <1>15, <1>16 DEF IInv

\* The creating call writes the first blob.
LEMMA WriteBlobStep == ASSUME IInv, NEW c \in Calls, NEW wrote \in BOOLEAN, WriteBlob(c, wrote) PROVE IInv'
<1> DEFINE b == Sealed(call[c].seed, call[c].secret, call[c].pepper)
           q == [call[c] EXCEPT !.pc = "install"]
<1>1. /\ call[c].pc = "sealing" /\ Written(wrote)
      /\ UNCHANGED <<vault, epoch, gate, pepper, ceremony, lockout, enrolled, now>>
  BY DEF WriteBlob
<1>2. call[c] \in Sealing /\ call[c].op \in Creating /\ call[c].op \notin Proving
  BY <1>1, Parts, Shapes, Ops
<1>3. used' \in Spendings /\ used'.calls = used.calls /\ used'.locks = used.locks /\ used'.calls \in Nat
  <2>1. used' \in Spendings /\ used'.calls = used.calls /\ used'.locks = used.locks
    BY <1>1, WriteSpent
  <2> QED BY <2>1, Constants DEF Spendings
<1>4. blob = None /\ ~RefusesPin(call[c].secret, call[c].pepper)
  BY <1>1, Parts DEF BlobPart, WritesSafely
<1>5. CASE ~wrote
  <2>1. blob' = blob /\ seen' = seen /\ call' = [call EXCEPT ![c] = Idle]
    BY <1>5 DEF WriteBlob
  <2>2. Idle \in Locals /\ Idle.op \notin Proving /\ Idle.op \notin Creating
    BY DEF Locals, Proving, Creating
  <2>3. call'[c] = Idle
    BY <2>1, <2>2, CallUpdate
  <2>4. SampleIsKnown(c)' /\ ~Inside(c)' /\ WritesSafely(c)' /\ Paces(c)'
    BY <2>3, IdleIsSafe
  <2>5. pepper' \in BOOLEAN
    BY <1>1, Parts
  <2>6. seen' \in Seen /\ SameCount /\ ceremony' \in Seeds \cup {None}
    BY <1>1, <2>1, Parts DEF SameCount
  <2> HIDE DEF Idle
  <2> QED BY <1>1, <1>3, <2>1, <2>2, <2>4, <2>5, <2>6, PlainMove
<1>6. CASE wrote
  <2>1. blob' = b /\ seen' = [seen EXCEPT !.chosen = call[c].secret] /\ call' = [call EXCEPT ![c] = q]
    BY <1>6 DEF WriteBlob, Goes
  <2>2. /\ b \in Blobs /\ b.seed = call[c].seed /\ b.secret = call[c].secret /\ b.bound = call[c].pepper
        /\ b # None
    BY <1>2, SealedFacts, Constants DEF Sealing
  <2>3. /\ q \in Sealing /\ q.pc = "install" /\ q.op = call[c].op /\ q.epoch = call[c].epoch
        /\ q.seed = call[c].seed
    BY <1>2 DEF Sealing
  <2> HIDE DEF q, b
  <2>4. q \in Locals /\ call'[c] = q /\ Others(c) /\ call' \in [Calls -> Locals]
    <3>1. q \in Locals
      BY <2>3 DEF Locals
    <3> QED BY <2>1, <3>1, CallUpdate DEF Others
  <2>5. /\ seen' \in Seen /\ seen'.by = seen.by /\ seen'.overtaken = seen.overtaken
        /\ seen'.chosen = call[c].secret /\ SameCount
    <3>1. seen \in Seen /\ call[c].secret \in Secrets
      BY <1>2, Parts DEF Sealing
    <3> QED BY <1>1, <2>1, <3>1 DEF Seen, SameCount
  <2>6. LockPart'
    <3>1. SampleIsKnown(c)'
      BY <1>1, <2>3, <2>4, <2>5, Parts DEF LockPart, SampleIsKnown
    <3> QED BY <1>1, <1>3, <2>4, <2>5, <3>1, LockFrame
  <2>7. ~Inside(c)' /\ Paces(c)'
    BY <1>2, <2>3, <2>4 DEF Inside, Paces
  <2>8. GatePart'
    BY <1>1, <2>4, <2>7, GateFrame
  <2>9. CountPart'
    BY <1>2, <1>3, <2>3, <2>4, <2>5, <2>7, CountFrame
  <2>10. BlobPart'
    <3>1. WritesSafely(c)'
      BY <2>1, <2>2, <2>3, <2>4, <2>7 DEF WritesSafely
    <3>2. ASSUME NEW d \in Calls \ {c} PROVE WritesSafely(d)'
      <4>1. WritesSafely(d) /\ call'[d] = call[d] /\ call[d].op \notin Creating
        BY <1>2, <2>4, Parts DEF BlobPart, Others
      <4>2. call[d].pc \in {"held", "sealing"} => call[d].op \in Creating
        BY Parts, Shapes, Ops
      <4>3. call[d].pc \notin {"held", "sealing", "kdf", "install", "settle", "rewrite"}
        BY <1>4, <4>1, <4>2 DEF WritesSafely
      <4> QED BY <4>1, <4>3 DEF WritesSafely, Inside
    <3>3. \A x, y \in Calls : call'[x].op \in Creating /\ call'[y].op \in Creating => x = y
      BY <1>2, <2>4, Parts DEF BlobPart, Others
    <3>4. ResidentIsBlob' /\ (enrolled' # None => blob' # None /\ blob'.seed = enrolled')
      BY <1>1, <1>4, Parts DEF BlobPart, ResidentIsBlob
    <3>5. PinsAreBound' /\ OpensWithChosen'
      BY <1>4, <2>1, <2>2, <2>5 DEF PinsAreBound, OpensWithChosen, RefusesPin
    <3> QED BY <3>1, <3>2, <3>3, <3>4, <3>5 DEF BlobPart
  <2>11. TypeOK'
    BY <1>1, <1>3, <2>1, <2>2, <2>4, <2>5, Parts DEF TypeOK, Spendings
  <2> QED BY <2>6, <2>8, <2>9, <2>10, <2>11 DEF IInv
<1> QED BY <1>5, <1>6

\* set_vault_if_current installs the seed only for a generation that no lock
\* has moved.
LEMMA InstallStep == ASSUME IInv, NEW c \in Calls, Install(c) PROVE IInv'
<1>1. /\ call[c].pc = "install" /\ set_vault_if_current(c)
      /\ UNCHANGED <<epoch, pepper, ceremony, blob, lockout, enrolled, now, used>>
  BY DEF Install
<1>2. call[c] \in Opening \cup Loading \cup Sealing
  BY <1>1, Parts, Shapes
<1>3. /\ blob # None /\ call[c].seed = blob.seed
      /\ Inside(c) /\ call[c].op = "reseal" => ~RefusesPin(call[c].next, call[c].pepper)
  BY <1>1, Parts DEF BlobPart, WritesSafely
<1>4. PICK r \in Locals :
        /\ call' = [call EXCEPT ![c] = r]
        /\ \/ r = Idle /\ gate' = IF gate = c THEN None ELSE gate
           \/ /\ r.pc = "settle" /\ r.op = call[c].op /\ gate' = gate /\ r.seed = call[c].seed
              /\ call[c].op \notin Creating
              /\ call[c].op \in Proving => r.next = call[c].next /\ r.pepper = call[c].pepper
  <2>1. CASE call[c].op \in Creating
    <3>1. call' = [call EXCEPT ![c] = Idle] /\ gate' = IF gate = c THEN None ELSE gate
      BY <2>1 DEF Install, Returns
    <3> QED BY <3>1 DEF Locals
  <2>2. CASE call[c].op \notin Creating
    <3>1. Goes(c, "settle") /\ gate' = gate
      BY <2>2 DEF Install
    <3>2. call[c] \in Opening \cup Loading /\ (call[c].op \in Proving => call[c] \in Opening)
      <4>1. call[c] \in Opening \cup Loading
        BY <1>2, <2>2, Ops, Parts
      <4>2. call[c] \in Loading => call[c].op \notin Proving
        BY Ops, Parts
      <4> QED BY <4>1, <4>2
    <3>3. PICK r \in Locals :
           /\ call' = [call EXCEPT ![c] = r] /\ r.pc = "settle" /\ r.op = call[c].op /\ r.seed = call[c].seed
           /\ call[c] \in Opening => r.next = call[c].next /\ r.pepper = call[c].pepper
      BY <3>1, <3>2, GoesFacts
    <3> QED BY <2>2, <3>1, <3>2, <3>3
  <2> QED BY <2>1, <2>2
<1>5. call'[c] = r /\ Others(c) /\ call' \in [Calls -> Locals]
  BY <1>4, CallUpdate DEF Others
<1>6. r.op \notin Creating /\ (r.op \in Proving => call[c].op \in Proving) /\ r.pc \in {"idle", "settle"}
  BY <1>4 DEF Creating, Proving
<1>7. SampleIsKnown(c)' /\ Paces(c)'
  BY <1>5, <1>6 DEF SampleIsKnown, Paces
<1>8. WritesSafely(c)'
  <2>1. Inside(c)' /\ r.op = "reseal" => r.pc = "settle" /\ call[c].op = "reseal" /\ Inside(c)
    BY <1>1, <1>4, <1>5, <1>6 DEF Inside, Proving
  <2>2. Inside(c) => call[c].op \in Proving
    BY DEF Inside
  <2>3. r.op = "reseal" /\ r.pc = "settle" /\ call[c].op \in Proving => r.next = call[c].next /\ r.pepper = call[c].pepper
    BY <1>4
  <2>4. Inside(c)' /\ r.op = "reseal" => ~RefusesPin(r.next, r.pepper)
    BY <1>3, <2>1, <2>2, <2>3
  <2>5. r.pc = "settle" => r.seed = blob.seed
    BY <1>3, <1>4
  <2> QED BY <1>1, <1>3, <1>5, <1>6, <2>4, <2>5 DEF WritesSafely, RefusesPin
<1>9. /\ seen' \in Seen /\ seen'.chosen = seen.chosen /\ seen'.overtaken = seen.overtaken /\ SameCount
      /\ \/ vault' = vault /\ seen'.by = seen.by
         \/ vault' = call[c].seed /\ seen'.by = c /\ epoch = call[c].epoch
  <2>1. seen \in Seen
    BY Parts
  <2>2. CASE epoch = call[c].epoch
    <3>1. vault' = call[c].seed /\ seen' = [seen EXCEPT !.by = c]
      BY <1>1, <2>2 DEF set_vault_if_current
    <3> QED BY <1>1, <2>1, <2>2, <3>1 DEF Seen, SameCount
  <2>3. CASE epoch # call[c].epoch
    <3>1. vault' = vault /\ seen' = seen
      BY <1>1, <2>3 DEF set_vault_if_current
    <3> QED BY <1>1, <2>1, <3>1 DEF SameCount
  <2> QED BY <2>2, <2>3
<1>10. LockPart'
  <2>1. \A d \in Calls : SampleIsKnown(d)'
    <3>1. ASSUME NEW d \in Calls \ {c} PROVE SampleIsKnown(d)'
      <4>1. SampleIsKnown(d) /\ call'[d] = call[d]
        BY <1>5, Parts DEF LockPart, Others
      <4> QED BY <1>1, <1>9, <4>1 DEF SampleIsKnown
    <3> QED BY <1>7, <3>1
  <2>2. epoch = call[c].epoch => seen.overtaken[c] # "sampled"
    <3>1. seen.overtaken[c] = "sampled" => call[c].epoch < epoch
      BY <1>1, Parts DEF LockPart, SampleIsKnown
    <3>2. ~(epoch < epoch)
      BY Parts
    <3> QED BY <3>1, <3>2
  <2>3. vault' # None => seen'.by \in Calls /\ seen'.overtaken[seen'.by] # "sampled"
    BY <1>9, <2>2, Parts DEF LockPart
  <2> QED BY <1>1, <2>1, <2>3, Parts DEF LockPart
<1>11. GatePart'
  <2>1. Inside(c)' => gate' = c
    <3>1. ASSUME Inside(c)' PROVE gate' = c
      <4>1. r.pc = "settle" /\ Inside(c) /\ gate' = gate
        BY <1>1, <1>4, <1>5, <3>1 DEF Inside, Proving
      <4> QED BY <4>1, Parts DEF GatePart
    <3> QED BY <3>1
  <2> QED BY <1>4, <1>5, <2>1, GateFrame
<1>12. BlobPart'
  <2>1. \A d \in Calls : WritesSafely(d)'
    <3>1. ASSUME NEW d \in Calls \ {c} PROVE WritesSafely(d)'
      <4>1. WritesSafely(d) /\ call'[d] = call[d]
        BY <1>5, Parts DEF BlobPart, Others
      <4> QED BY <1>1, <4>1 DEF WritesSafely, Inside
    <3> QED BY <1>8, <3>1
  <2>2. \A x, y \in Calls : call'[x].op \in Creating /\ call'[y].op \in Creating => x = y
    BY <1>5, <1>6, Parts DEF BlobPart, Others
  <2>3. ResidentIsBlob' /\ PinsAreBound' /\ OpensWithChosen'
    BY <1>1, <1>3, <1>9, Parts DEF BlobPart, ResidentIsBlob, PinsAreBound, OpensWithChosen
  <2> QED BY <1>1, <2>1, <2>2, <2>3, Parts DEF BlobPart
<1>13. CountPart'
  <2>1. used'.calls = used.calls /\ used'.calls \in Nat
    BY <1>1, Parts, Constants
  <2> QED BY <1>5, <1>6, <1>7, <1>9, <2>1, CountFrame
<1>14. TypeOK'
  <2>1. vault' \in Seeds \cup {None}
    <3>1. call[c].seed \in Seeds
      BY <1>2 DEF Opening, Loading, Sealing
    <3> QED BY <1>9, <3>1, Parts
  <2>2. gate' \in Calls \cup {None}
    BY <1>4, Parts
  <2> QED BY <1>1, <1>5, <1>9, <2>1, <2>2, Parts DEF TypeOK
<1> QED BY <1>10, <1>11, <1>12, <1>13, <1>14 DEF IInv

\* settle_attempt of the right secret, and the biometric lane's bare reset.
LEMMA SettleStep == ASSUME IInv, NEW c \in Calls, NEW wrote \in BOOLEAN, Settle(c, wrote) PROVE IInv'
<1>1. /\ call[c].pc = "settle" /\ Written(wrote) /\ ResetLockout(wrote)
      /\ UNCHANGED <<vault, epoch, pepper, ceremony, blob, enrolled, now>>
  BY DEF Settle, ResetLockout
<1>2. call[c] \in Opening \cup Loading
  BY <1>1, Parts, Shapes
<1>3. /\ blob # None /\ call[c].seed = blob.seed
      /\ Inside(c) /\ call[c].op = "reseal" => ~RefusesPin(call[c].next, call[c].pepper)
  BY <1>1, Parts DEF BlobPart, WritesSafely
<1>4. PICK r \in Locals :
        /\ call' = [call EXCEPT ![c] = r]
        /\ \/ r = Idle /\ gate' = IF gate = c THEN None ELSE gate
           \/ /\ r.pc = "rewrite" /\ r.op = "reseal" /\ call[c].op = "reseal" /\ gate' = gate
              /\ r.seed = call[c].seed /\ r.next = call[c].next /\ r.pepper = call[c].pepper
  <2>1. CASE call[c].op # "reseal"
    <3>1. call' = [call EXCEPT ![c] = Idle] /\ gate' = IF gate = c THEN None ELSE gate
      BY <2>1 DEF Settle, Returns
    <3> QED BY <3>1 DEF Locals
  <2>2. CASE call[c].op = "reseal"
    <3>1. Goes(c, "rewrite") /\ gate' = gate
      BY <2>2 DEF Settle
    <3>2. call[c] \in Opening
      BY <1>2, <2>2 DEF Loading
    <3>3. PICK r \in Locals :
           /\ call' = [call EXCEPT ![c] = r] /\ r.pc = "rewrite" /\ r.op = call[c].op /\ r.seed = call[c].seed
           /\ r.next = call[c].next /\ r.pepper = call[c].pepper
      BY <3>1, <3>2, GoesFacts
    <3> QED BY <2>2, <3>1, <3>3
  <2> QED BY <2>1, <2>2
<1>5. call'[c] = r /\ Others(c) /\ call' \in [Calls -> Locals]
  BY <1>4, CallUpdate DEF Others
<1>6. r.op \notin Creating /\ (r.op \in Proving => call[c].op \in Proving) /\ r.pc \in {"idle", "rewrite"}
  BY <1>4 DEF Creating, Proving
<1>7. SampleIsKnown(c)' /\ Paces(c)'
  BY <1>5, <1>6 DEF SampleIsKnown, Paces
<1>8. Inside(c)' => r.pc = "rewrite" /\ Inside(c) /\ gate' = gate
  BY <1>1, <1>4, <1>5 DEF Inside, Proving
<1>9. WritesSafely(c)'
  <2>1. CASE r = Idle
    BY <1>5, <2>1, IdleIsSafe
  <2>2. CASE r.pc = "rewrite" /\ r.op = "reseal" /\ call[c].op = "reseal"
    <3>1. r.seed = call[c].seed /\ r.next = call[c].next /\ r.pepper = call[c].pepper
      BY <1>4, <2>2
    <3>2. ~RefusesPin(r.next, r.pepper)
      BY <1>1, <1>3, <2>2, <3>1 DEF Inside, Proving
    <3> QED BY <1>1, <1>3, <1>5, <2>2, <3>1, <3>2 DEF WritesSafely, RefusesPin
  <2> QED BY <1>4, <2>1, <2>2
<1>10. used' \in Spendings /\ used'.calls = used.calls /\ used'.locks = used.locks /\ used'.calls \in Nat
  <2>1. used' \in Spendings /\ used'.calls = used.calls /\ used'.locks = used.locks
    BY <1>1, WriteSpent
  <2> QED BY <2>1, Constants DEF Spendings
<1>11. /\ wrote => /\ lockout' = NoLockout /\ seen'.failures = 0 /\ seen'.lost = 0 /\ seen'.owed = 0
                   /\ ~seen'.blurred => gate = None \/ call[gate].pc = "settle"
       /\ ~wrote => SameCount
       /\ seen' \in Seen /\ seen'.by = seen.by /\ seen'.chosen = seen.chosen /\ seen'.overtaken = seen.overtaken
  <2>1. seen \in Seen
    BY Parts
  <2>2. CASE wrote
    <3> DEFINE x == gate # None /\ call[gate].pc # "settle"
    <3>1. x \in BOOLEAN
      OBVIOUS
    <3>2. lockout' = NoLockout /\ seen' = [seen EXCEPT !.failures = 0, !.lost = 0, !.owed = 0, !.blurred = x]
      BY <1>1, <2>2 DEF ResetLockout
    <3> HIDE DEF x
    <3>3. /\ seen' \in Seen /\ seen'.by = seen.by /\ seen'.chosen = seen.chosen
          /\ seen'.overtaken = seen.overtaken
          /\ seen'.failures = 0 /\ seen'.lost = 0 /\ seen'.owed = 0 /\ seen'.blurred = x
      BY <2>1, <3>1, <3>2 DEF Seen
    <3> QED BY <2>2, <3>2, <3>3 DEF x
  <2>3. CASE ~wrote
    BY <1>1, <2>1, <2>3 DEF ResetLockout, SameCount
  <2> QED BY <2>2, <2>3
<1>12. LockPart'
  BY <1>1, <1>5, <1>7, <1>10, <1>11, LockFrame
<1>13. GatePart'
  <2>1. Inside(c)' => gate' = c
    BY <1>8, Parts DEF GatePart
  <2> QED BY <1>4, <1>5, <2>1, GateFrame
<1>14. BlobPart'
  BY <1>1, <1>5, <1>6, <1>9, <1>11, BlobFrame
<1>15. CountPart'
  <2>1. CASE ~wrote
    BY <1>5, <1>6, <1>7, <1>10, <1>11, <2>1, CountFrame
  <2>2. CASE wrote
    <3>1. lockout'.failed = 0 /\ lockout'.until = 0
      BY <1>11, <2>2 DEF NoLockout
    <3>2. Cardinality(Proofs') <= Cardinality(Proofs) /\ Cardinality(Proofs') \in Nat /\ Cardinality(Proofs) \in Nat
      <4>1. Proofs' \subseteq Proofs
        BY <1>5, <1>6 DEF Proofs, Others
      <4> QED BY <4>1, ProofsCount
    <3>3. used.calls \in Nat /\ lockout.failed \in Nat
      BY Parts, Constants DEF Lockouts
    <3>4. Cardinality(Proofs') <= used'.calls
      <4>1. lockout.failed + Cardinality(Proofs) <= used.calls
        BY Parts DEF CountPart
      <4> QED BY <1>10, <3>2, <3>3, <4>1
    <3>5. ASSUME NEW d \in Calls \ {c}, call'[d].pc \in {"entered", "kdf"}
          PROVE  /\ call'[d].at <= now'
                 /\ seen'.owed <= call'[d].at /\ seen'.failures <= call'[d].lockout.failed
                 /\ ~seen'.blurred => call'[d].lockout = lockout'
                 /\ call'[d].lockout.failed + Cardinality(Proofs') <= used'.calls
      <4>1. call'[d] = call[d]
        BY <1>5 DEF Others
      <4>2. call[d] \in Entered \cup Opening /\ call[d].op \in Proving
        BY <3>5, <4>1, Parts, Shapes, Ops
      <4>3. call[d].at \in Nat /\ call[d].lockout.failed \in Nat
        BY <4>2, Constants DEF Entered, Opening, Lockouts
      <4>4. call[d].at <= now /\ call[d].lockout.failed + Cardinality(Proofs) <= used.calls
        BY <3>5, <4>1, Parts DEF CountPart, Paces
      <4>5. gate = d
        BY <3>5, <4>1, <4>2, Parts DEF GatePart, Inside
      <4>6. seen'.blurred
        BY <1>11, <2>2, <3>5, <4>1, <4>5, Constants
      <4>7. call[d].lockout.failed + Cardinality(Proofs') <= used'.calls
        BY <1>10, <3>2, <3>3, <4>3, <4>4
      <4>8. 0 <= call[d].at /\ 0 <= call[d].lockout.failed
        BY <4>3
      <4> QED BY <1>1, <1>11, <2>2, <4>1, <4>4, <4>6, <4>7, <4>8
    <3>6. \A d \in Calls : Paces(d)'
      BY <1>7, <3>5 DEF Paces
    <3>7. lockout'.failed + Cardinality(Proofs') <= used'.calls
      BY <3>1, <3>2, <3>4
    <3>8. AttemptsCounted'
      BY <1>11, <2>2, <3>1 DEF AttemptsCounted
    <3>9. seen'.failures <= lockout'.failed /\ seen'.owed <= lockout'.until
      BY <1>11, <2>2, <3>1
    <3> QED BY <3>6, <3>7, <3>8, <3>9 DEF CountPart
  <2> QED BY <2>1, <2>2
<1>16. TypeOK'
  <2>1. lockout' \in Lockouts
    <3>1. NoLockout \in Lockouts
      BY Constants DEF NoLockout, Lockouts
    <3> QED BY <1>11, <3>1, Parts DEF SameCount
  <2>2. gate' \in Calls \cup {None}
    BY <1>4, Parts
  <2> QED BY <1>1, <1>5, <1>10, <1>11, <2>1, <2>2, Parts DEF TypeOK, Spendings
<1> QED BY <1>12, <1>13, <1>14, <1>15, <1>16 DEF IInv

----------------------------------------------------------------------------
(* Theorems *)

\* Every step, and a stutter, preserves the invariant.
LEMMA NextHolds == IInv /\ [Next]_vars => IInv'
<1> SUFFICES ASSUME IInv, [Next]_vars PROVE IInv'
  OBVIOUS
<1>1. ASSUME NEW c \in Calls, Types(c) PROVE IInv'
  <2>1. PICK s \in Secrets :
          \/ Prove(c, "unlock", s, s) \/ Prove(c, "confirm", s, s)
          \/ \E n \in Secrets \ {s} : Prove(c, "reseal", s, n)
          \/ seal_and_persist(c, s)
          \/ \E w \in Seeds : restore_and_persist(c, w, s)
    BY <1>1 DEF Types
  <2>2. "unlock" \in Proving /\ "confirm" \in Proving /\ "reseal" \in Proving
    BY DEF Proving
  <2> QED BY <2>1, <2>2, ProveStep, CreateStep
<1>2. ASSUME NEW c \in Calls, Step(c) PROVE IInv'
  <2>1. CASE Unbound(c)
    <3>1. /\ Returns(c)
          /\ UNCHANGED <<vault, epoch, pepper, ceremony, blob, lockout, enrolled, now, used, seen>>
      BY <2>1 DEF Unbound
    <3>2. pepper' \in BOOLEAN
      BY <3>1, Parts
    <3> QED BY <3>1, <3>2, ReturnStep
  <2>2. ASSUME NEW wrote \in BOOLEAN,
               \/ Wrong(c, wrote) \/ Migrate(c, wrote) \/ Settle(c, wrote)
               \/ Rewrite(c, wrote) \/ WriteBlob(c, wrote)
        PROVE  IInv'
    BY <2>2, WrongStep, MigrateStep, SettleStep, RewriteStep, WriteBlobStep
  <2> QED BY <1>2, <2>1, <2>2, EnterStep, SampleStep, OpenedStep, InstallStep, TakeStep DEF Step
<1>3. CASE UNCHANGED vars
  <2>1. used.calls \in Nat /\ now \in Nat
    BY Parts, Constants
  <2>2. /\ UNCHANGED <<call, gate, lockout, blob, epoch, vault, seen>>
        /\ used'.calls \in Nat /\ used'.calls >= used.calls /\ used'.locks = used.locks
        /\ now' \in Nat /\ now' >= now /\ enrolled' = enrolled
    BY <1>3, <2>1 DEF vars
  <2>3. TypeOK'
    BY <1>3, Parts DEF vars, TypeOK
  <2> QED BY <2>2, <2>3, StillCalls DEF IInv
<1> QED BY <1>1, <1>2, <1>3, LoadStep, QuietStep, LockStep, DiesStep DEF Next

\* The inductive invariant holds throughout.
THEOREM VaultInductive == Spec => []IInv
  BY InitHolds, NextHolds, PTL DEF Spec

\* No call that sampled the lock generation before a lock leaves the vault
\* installed behind it, in any interleaving of unlocks, creations, restores,
\* biometric loads, locks and process deaths.
THEOREM LockAlwaysWins == Spec => []LockWins
<1>1. IInv => LockWins
  BY DEF IInv, LockPart, LockWins
<1> QED BY <1>1, VaultInductive, PTL

\* One wallet in memory and on disk, every PIN bound to the phone, and the file
\* opened by the secret the user chose last.
THEOREM VaultIsConsistent == Spec => []VaultInv
<1>1. IInv => VaultInv
  BY DEF IInv, BlobPart, VaultInv
<1> QED BY <1>1, VaultInductive, PTL

\* Every wrong secret is on the disk's counter but for the writes that failed,
\* and none is tried before the delay the ones before it earned.
THEOREM LockoutAlwaysHolds == Spec => []LockoutHolds
<1>1. IInv => LockoutHolds
  <2> SUFFICES ASSUME IInv PROVE AttemptsCounted /\ GuessesPaced
    BY DEF LockoutHolds
  <2>1. AttemptsCounted
    BY Parts DEF CountPart
  <2>2. ASSUME seen.lost = 0, NEW c \in Calls, call[c].pc = "kdf" PROVE call[c].at >= seen.owed
    <3>1. call[c] \in Opening
      BY <2>2, Parts, Shapes
    <3>2. call[c].at \in Nat /\ seen.owed \in Nat
      BY <3>1, Parts, Constants DEF Opening, Seen
    <3>3. seen.owed <= call[c].at
      BY <2>2, Parts DEF CountPart, Paces
    <3> QED BY <3>2, <3>3
  <2> QED BY <2>1, <2>2 DEF GuessesPaced
<1> QED BY <1>1, VaultInductive, PTL

=============================================================================
