------------------------------- MODULE Vault -------------------------------
(***************************************************************************)
(* The vault session of the bridge (bridge/src/api/vault.rs): the sealed   *)
(* blob and the lockout counter on disk, the unlocked vault, the lock      *)
(* generation, the device pepper and the create ceremony in memory, and    *)
(* the calls that run against them on a pool of worker threads.            *)
(*                                                                         *)
(* Every call is cut where another thread can come between two of its      *)
(* reads and writes: UNLOCK_GATE is held from the entry of a call that     *)
(* proves the secret to its return; a lock, a biometric unlock and the     *)
(* creating calls do not take it.                                          *)
(***************************************************************************)
EXTENDS Naturals, FiniteSets, FiniteSetsExt

CONSTANTS
  Calls,          \* worker threads that may be inside a vault call
  Secrets,        \* what a user may type
  Pins,           \* the secrets that are six digits
  Weak,           \* the PINs is_trivially_guessable_pin refuses
  Seeds,          \* the wallets a ceremony may draw or a phrase restore
  None,
  FreeAttempts,   \* LOCKOUT_FREE_ATTEMPTS
  BaseDelay,      \* the first delay (30 s)
  MaxDelay,       \* its cap (one hour)
  MaxTime,        \* bound: the last instant of the wall clock
  MaxCalls,       \* bound: calls started
  MaxLocks,       \* bound: lifecycle locks
  MaxFaults       \* bound: failed file writes and process deaths

\* vault.kvsb: its version, whether the phone's pepper binds it, and the
\* secret that opens it to its seed.
Blobs == [ver : {1, 2}, bound : BOOLEAN, secret : Secrets, seed : Seeds]

ASSUME VaultAssumption ==
  /\ Weak \subseteq Pins /\ Pins \subseteq Secrets
  /\ FreeAttempts \in Nat /\ BaseDelay \in Nat /\ MaxDelay \in Nat
  /\ MaxTime \in Nat /\ MaxCalls \in Nat /\ MaxLocks \in Nat /\ MaxFaults \in Nat
  /\ IsFiniteSet(Calls)
  /\ None \notin Calls /\ None \notin Seeds /\ None \notin Blobs

VARIABLES
  vault,      \* VAULT: the wallet that is unlocked, or None
  epoch,      \* LOCK_EPOCH
  gate,       \* the call that holds UNLOCK_GATE, or None
  pepper,     \* whether PEPPER is filled
  ceremony,   \* CREATE_CEREMONY: the seed its phrase derives, or None
  blob,       \* vault.kvsb, or None
  lockout,    \* vault.lockout
  enrolled,   \* the seed the Keystore wraps for the biometric lane, or None
  now,        \* now_unix()
  call,       \* where each thread stands in its call
  used,       \* calls, locks and faults spent
  seen        \* history (no code): what the properties compare with

vars == <<vault, epoch, gate, pepper, ceremony, blob, lockout, enrolled, now,
          call, used, seen>>
memory == <<vault, epoch, gate, pepper, ceremony>>
disk   == <<blob, lockout>>

Proving  == {"unlock", "confirm", "reseal"}     \* the calls under the gate
Creating == {"seal", "restore"}
Idle == [pc |-> "idle", op |-> "none"]
NoLockout == [failed |-> 0, until |-> 0]

----------------------------------------------------------------------------
(* The lockout's arithmetic and the rules of a seal. *)

Least(a, b) == IF a <= b THEN a ELSE b

\* 1 << over, for the eight values over takes.
Shifted == <<1, 2, 4, 8, 16, 32, 64, 128>>

lockout_delay_secs(failed) ==
  IF failed <= FreeAttempts THEN 0
  ELSE LET over == Least(failed - FreeAttempts - 1, 7)
       IN Least(BaseDelay * Shifted[over + 1], MaxDelay)

\* Lockout::active_until
Active(l, at) == l.until > at

\* refuse_unsafe_pin, and check_seal_inputs behind it
RefusesPin(secret, hasPepper) == secret \in Weak \/ (secret \in Pins /\ ~hasPepper)

\* seal_seed: always version 2, bound when there is a pepper.
Sealed(seed, secret, hasPepper) ==
  [ver |-> 2, bound |-> hasPepper, secret |-> secret, seed |-> seed]

\* unseal_seed's three answers.
Unsealed(b, secret, hasPepper) ==
  CASE b.bound /\ ~hasPepper -> "binding"
    [] ~(b.bound /\ ~hasPepper) /\ b.secret = secret -> "ok"
    [] OTHER -> "wrong"

NeedsMigration(b, hasPepper) == b.ver < 2 \/ (~b.bound /\ hasPepper)

----------------------------------------------------------------------------
(* Steps shared by the calls. *)

At(c, pc) == call[c].pc = pc
Goes(c, pc) == call' = [call EXCEPT ![c].pc = pc]
Spends(what) == used' = [used EXCEPT ![what] = @ + 1]
MayFail == used.faults < MaxFaults

Returns(c) ==
  /\ call' = [call EXCEPT ![c] = Idle]
  /\ gate' = IF gate = c THEN None ELSE gate

\* atomic_write: the rename takes place, or the old file stays whole.
Written(wrote) == IF wrote THEN UNCHANGED used ELSE MayFail /\ Spends("faults")

\* write_lockout(Lockout::default()), whose result every caller drops. A
\* reset that lands between a proving call's read of the file and its count
\* is overwritten by that count.
ResetLockout(wrote) ==
  /\ Written(wrote)
  /\ lockout' = IF wrote THEN NoLockout ELSE lockout
  /\ seen' = IF ~wrote THEN seen
             ELSE [seen EXCEPT !.failures = 0, !.lost = 0, !.owed = 0,
                   !.blurred = gate # None /\ call[gate].pc # "settle"]

\* set_vault_if_current
set_vault_if_current(c) ==
  IF epoch = call[c].epoch
  THEN vault' = call[c].seed /\ seen' = [seen EXCEPT !.by = c]
  ELSE UNCHANGED <<vault, seen>>

----------------------------------------------------------------------------
(* unlock_with_passphrase, vault_confirm_secret, vault_reseal *)

Call(op, secret, next) == [pc |-> "queued", op |-> op, secret |-> secret, next |-> next]

\* The user types a secret; the call queues at UNLOCK_GATE.
Prove(c, op, secret, next) ==
  /\ At(c, "idle") /\ used.calls < MaxCalls
  /\ Spends("calls")
  /\ call' = [call EXCEPT ![c] = Call(op, secret, next)]
  /\ seen' = [seen EXCEPT !.overtaken[c] = "no"]
  /\ UNCHANGED <<memory, disk, enrolled, now>>

\* Refusals that are no attempt: locked (confirm and re-key), locked out, and
\* a next secret the seal would refuse.
Refused(c) ==
  \/ call[c].op # "unlock" /\ vault = None
  \/ Active(lockout, now)
  \/ call[c].op = "reseal" /\ RefusesPin(call[c].next, pepper)

\* The gate is entered, the pepper taken, and lockout_gate asked.
Enter(c) ==
  /\ At(c, "queued") /\ gate = None
  /\ pepper' = FALSE
  /\ IF Refused(c)
     THEN Returns(c)
     ELSE /\ gate' = c
          /\ call' = [call EXCEPT ![c] =
               [pc |-> "entered", op |-> @.op, secret |-> @.secret, next |-> @.next,
                pepper |-> pepper, at |-> now, lockout |-> lockout]]
  /\ UNCHANGED <<vault, epoch, ceremony, disk, enrolled, now, used, seen>>

\* lock_epoch() and read_blob(): no file, no attempt.
Sample(c) ==
  /\ At(c, "entered")
  /\ IF blob = None
     THEN Returns(c)
     ELSE /\ call' = [call EXCEPT ![c] =
               [pc |-> "kdf", op |-> @.op, secret |-> @.secret, next |-> @.next,
                pepper |-> @.pepper, at |-> @.at, lockout |-> @.lockout,
                epoch |-> epoch, blob |-> blob, seed |-> blob.seed]]
          /\ UNCHANGED gate
  /\ UNCHANGED <<vault, epoch, pepper, ceremony, disk, enrolled, now, used, seen>>

Outcome(c) == Unsealed(call[c].blob, call[c].secret, call[c].pepper)

\* settle_attempt of a wrong secret: the count read at the gate goes up by one
\* and is written; the result of the write is dropped.
Counted(c) ==
  LET n == call[c].lockout.failed + 1
      delay == lockout_delay_secs(n)
  IN [failed |-> n,
      until |-> IF delay > 0 THEN call[c].at + delay ELSE call[c].lockout.until]

Wrong(c, wrote) ==
  /\ At(c, "kdf") /\ call[c].op \in Proving /\ Outcome(c) = "wrong"
  /\ Written(wrote)
  /\ lockout' = IF wrote THEN Counted(c) ELSE lockout
  /\ seen' = [seen EXCEPT
       !.failures = @ + 1,
       !.lost = IF wrote THEN @ ELSE @ + 1,
       !.owed = Max({@, call[c].at + lockout_delay_secs(seen.failures + 1)})]
  /\ Returns(c)
  /\ UNCHANGED <<vault, epoch, pepper, ceremony, blob, enrolled, now>>

\* Mutant: a phone that cannot produce its key counts as a wrong secret.
UnboundCounts(c) ==
  /\ At(c, "kdf") /\ call[c].op \in Proving /\ Outcome(c) = "binding"
  /\ lockout' = Counted(c)
  /\ Returns(c)
  /\ UNCHANGED <<vault, epoch, pepper, ceremony, blob, enrolled, now, used, seen>>

\* settle_attempt of a DeviceBinding refusal: not an attempt.
Unbound(c) ==
  /\ At(c, "kdf") /\ call[c].op \in Proving /\ Outcome(c) = "binding"
  /\ Returns(c)
  /\ UNCHANGED <<vault, epoch, pepper, ceremony, disk, enrolled, now, used, seen>>

\* The unlock's seed is open: migrate_blob, whose every failure leaves the old
\* file and is dropped.
Migrate(c, wrote) ==
  /\ At(c, "kdf") /\ call[c].op = "unlock" /\ Outcome(c) = "ok"
  /\ IF NeedsMigration(call[c].blob, call[c].pepper)
     THEN /\ Written(wrote)
          /\ blob' = IF wrote
                     THEN Sealed(call[c].seed, call[c].secret, call[c].pepper)
                     ELSE blob
     ELSE wrote /\ UNCHANGED <<blob, used>>
  /\ Goes(c, "install")
  /\ UNCHANGED <<memory, lockout, enrolled, now, seen>>

Install(c) ==
  /\ At(c, "install")
  /\ set_vault_if_current(c)
  /\ IF call[c].op \in Creating THEN Returns(c) ELSE Goes(c, "settle") /\ UNCHANGED gate
  /\ UNCHANGED <<epoch, pepper, ceremony, disk, enrolled, now, used>>

\* The secret was right: confirm and re-key settle as soon as it is known.
Opened(c) ==
  /\ At(c, "kdf") /\ call[c].op \in {"confirm", "reseal"} /\ Outcome(c) = "ok"
  /\ Goes(c, "settle")
  /\ UNCHANGED <<memory, disk, enrolled, now, used, seen>>

\* Mutant: a re-key leaves the gate before it writes the file.
SettleLeaves(c, wrote) ==
  /\ At(c, "settle")
  /\ ResetLockout(wrote)
  /\ gate' = IF gate = c THEN None ELSE gate
  /\ call' = [call EXCEPT ![c] = IF @.op = "reseal" THEN [@ EXCEPT !.pc = "rewrite"] ELSE Idle]
  /\ UNCHANGED <<vault, epoch, pepper, ceremony, blob, enrolled, now>>

Settle(c, wrote) ==
  /\ At(c, "settle")
  /\ ResetLockout(wrote)
  /\ IF call[c].op = "reseal" THEN Goes(c, "rewrite") /\ UNCHANGED gate ELSE Returns(c)
  /\ UNCHANGED <<vault, epoch, pepper, ceremony, blob, enrolled, now>>

\* The re-keyed blob replaces the old one, whatever was locked meanwhile.
Rewrite(c, wrote) ==
  /\ At(c, "rewrite")
  /\ Written(wrote)
  /\ IF wrote
     THEN /\ blob' = Sealed(call[c].seed, call[c].next, call[c].pepper)
          /\ seen' = [seen EXCEPT !.chosen = call[c].next]
     ELSE UNCHANGED <<blob, seen>>
  /\ Returns(c)
  /\ UNCHANGED <<vault, epoch, pepper, ceremony, lockout, enrolled, now>>

----------------------------------------------------------------------------
(* The create ceremony and the restore. The onboarding screens await one     *)
(* creating call before they offer the next.                                 *)

CreatingIdle == \A d \in Calls : call[d].op \notin Creating

\* begin_create, and regenerate_ceremony when one is held
begin_create(seed) ==
  /\ blob = None /\ ceremony = None /\ used.calls < MaxCalls
  /\ Spends("calls")
  /\ ceremony' = seed
  /\ UNCHANGED <<vault, epoch, gate, pepper, disk, enrolled, now, call, seen>>

regenerate_ceremony(seed) ==
  /\ blob = None /\ ceremony # None /\ ceremony # seed /\ used.calls < MaxCalls
  /\ Spends("calls")
  /\ ceremony' = seed
  /\ UNCHANGED <<vault, epoch, gate, pepper, disk, enrolled, now, call, seen>>

abandon_create ==
  /\ ceremony # None
  /\ ceremony' = None /\ pepper' = FALSE
  /\ UNCHANGED <<vault, epoch, gate, disk, enrolled, now, call, used, seen>>

\* The cheap checks, in order, and the pepper (binding_for takes it first).
seal_and_persist(c, secret) ==
  /\ At(c, "idle") /\ used.calls < MaxCalls /\ CreatingIdle
  /\ blob = None /\ ceremony # None
  /\ Spends("calls")
  /\ pepper' = FALSE
  /\ call' = [call EXCEPT ![c] =
       IF RefusesPin(secret, pepper) THEN Idle
       ELSE [pc |-> "held", op |-> "seal", secret |-> secret, pepper |-> pepper]]
  /\ seen' = [seen EXCEPT !.overtaken[c] = "no"]
  /\ UNCHANGED <<vault, epoch, gate, ceremony, disk, enrolled, now>>

\* lock_epoch(), then the ceremony is taken; a lock may have dropped it.
TakeCeremony(c) ==
  /\ At(c, "held")
  /\ call' = [call EXCEPT ![c] =
       IF ceremony = None THEN Idle
       ELSE [pc |-> "sealing", op |-> "seal", secret |-> @.secret,
             pepper |-> @.pepper, epoch |-> epoch, seed |-> ceremony]]
  /\ ceremony' = None
  /\ UNCHANGED <<vault, epoch, gate, pepper, disk, enrolled, now, used, seen>>

restore_and_persist(c, seed, secret) ==
  /\ At(c, "idle") /\ used.calls < MaxCalls /\ CreatingIdle
  /\ blob = None
  /\ Spends("calls")
  /\ pepper' = FALSE
  /\ call' = [call EXCEPT ![c] =
       IF RefusesPin(secret, pepper) THEN Idle
       ELSE [pc |-> "sealing", op |-> "restore", secret |-> secret,
             pepper |-> pepper, epoch |-> epoch, seed |-> seed]]
  /\ seen' = [seen EXCEPT !.overtaken[c] = "no"]
  /\ UNCHANGED <<vault, epoch, gate, ceremony, disk, enrolled, now>>

\* The blob is written; a failed write is the call's error.
WriteBlob(c, wrote) ==
  /\ At(c, "sealing")
  /\ Written(wrote)
  /\ IF wrote
     THEN /\ blob' = Sealed(call[c].seed, call[c].secret, call[c].pepper)
          /\ seen' = [seen EXCEPT !.chosen = call[c].secret]
          /\ Goes(c, "install")
     ELSE UNCHANGED <<blob, seen>> /\ call' = [call EXCEPT ![c] = Idle]
  /\ UNCHANGED <<memory, lockout, enrolled, now>>

----------------------------------------------------------------------------
(* The JNI lane, the lifecycle, the clock and the process. *)

install_pepper ==
  /\ ~pepper /\ pepper' = TRUE
  /\ UNCHANGED <<vault, epoch, gate, ceremony, disk, enrolled, now, call, used, seen>>

export_seed_for_keystore ==
  /\ vault # None /\ enrolled # vault /\ enrolled' = vault
  /\ UNCHANGED <<memory, disk, now, call, used, seen>>

\* load_vault_from_seed_bytes: its settle is the bare reset, without the gate.
load_vault_from_seed_bytes(c) ==
  /\ At(c, "idle") /\ used.calls < MaxCalls /\ enrolled # None
  /\ Spends("calls")
  /\ call' = [call EXCEPT ![c] =
       [pc |-> "install", op |-> "bio", epoch |-> epoch, seed |-> enrolled]]
  /\ seen' = [seen EXCEPT !.overtaken[c] = "no"]
  /\ UNCHANGED <<memory, disk, enrolled, now>>

\* Which of the calls in flight a lock overtakes, and where.
Overtakes ==
  [c \in Calls |->
     CASE call[c].pc \in {"queued", "entered", "held"} -> "waiting"
       [] call[c].pc \in {"kdf", "sealing", "install"} -> "sampled"
       [] OTHER -> seen.overtaken[c]]

\* Mutant: a lock is remembered only when there was a vault to take.
LockIfUnlocked ==
  /\ used.locks < MaxLocks /\ Spends("locks")
  /\ epoch' = IF vault = None THEN epoch ELSE epoch + 1
  /\ vault' = None
  /\ pepper' = FALSE /\ ceremony' = None
  /\ seen' = [seen EXCEPT !.overtaken = Overtakes]
  /\ UNCHANGED <<gate, disk, enrolled, now, call>>

lock_vault ==
  /\ used.locks < MaxLocks /\ Spends("locks")
  /\ epoch' = epoch + 1 /\ vault' = None
  /\ pepper' = FALSE /\ ceremony' = None
  /\ seen' = [seen EXCEPT !.overtaken = Overtakes]
  /\ UNCHANGED <<gate, disk, enrolled, now, call>>

Tick ==
  /\ now < MaxTime /\ now' = now + 1
  /\ UNCHANGED <<memory, disk, enrolled, call, used, seen>>

\* The process dies: memory goes, the files stay.
Dies ==
  /\ MayFail /\ Spends("faults")
  /\ vault' = None /\ epoch' = 0 /\ gate' = None /\ pepper' = FALSE /\ ceremony' = None
  /\ call' = [c \in Calls |-> Idle]
  /\ UNCHANGED <<disk, enrolled, now, seen>>

----------------------------------------------------------------------------
\* An install begins empty, or carries a version 1 file from an older build.
Init ==
  /\ vault = None /\ epoch = 0 /\ gate = None /\ pepper = FALSE /\ ceremony = None
  /\ \/ blob = None
     \/ \E s \in Secrets \ Pins, w \in Seeds :
          blob = [ver |-> 1, bound |-> FALSE, secret |-> s, seed |-> w]
  /\ lockout = NoLockout /\ enrolled = None /\ now = 0
  /\ call = [c \in Calls |-> Idle]
  /\ used = [calls |-> 0, locks |-> 0, faults |-> 0]
  /\ seen = [chosen |-> IF blob = None THEN None ELSE blob.secret, by |-> None,
             overtaken |-> [c \in Calls |-> "no"],
             failures |-> 0, lost |-> 0, owed |-> 0, blurred |-> FALSE]

Types(c) ==
  \E s \in Secrets :
    \/ Prove(c, "unlock", s, s) \/ Prove(c, "confirm", s, s)
    \/ \E n \in Secrets \ {s} : Prove(c, "reseal", s, n)
    \/ seal_and_persist(c, s)
    \/ \E w \in Seeds : restore_and_persist(c, w, s)

Step(c) ==
  \/ Enter(c) \/ Sample(c) \/ Unbound(c) \/ Opened(c) \/ Install(c) \/ TakeCeremony(c)
  \/ \E wrote \in BOOLEAN :
       Wrong(c, wrote) \/ Migrate(c, wrote) \/ Settle(c, wrote)
         \/ Rewrite(c, wrote) \/ WriteBlob(c, wrote)

Next ==
  \/ \E c \in Calls : Types(c) \/ Step(c) \/ load_vault_from_seed_bytes(c)
  \/ \E w \in Seeds : begin_create(w) \/ regenerate_ceremony(w)
  \/ abandon_create \/ install_pepper \/ export_seed_for_keystore
  \/ lock_vault \/ Tick \/ Dies

Spec == Init /\ [][Next]_vars

----------------------------------------------------------------------------
(* Properties *)

Lockouts == [failed : 0..MaxCalls, until : 0..(MaxTime + MaxDelay)]

\* A call's locals, by how far it has come: at the gate, inside it, past the
\* read of the blob; the ceremony's, the sealing one's and the biometric's.
Queued   == [pc : {"queued"}, op : Proving, secret : Secrets, next : Secrets]
Entered  == [pc : {"entered"}, op : Proving, secret : Secrets, next : Secrets,
             pepper : BOOLEAN, at : 0..MaxTime, lockout : Lockouts]
Opening  == [pc : {"kdf", "install", "settle", "rewrite"}, op : Proving,
             secret : Secrets, next : Secrets, pepper : BOOLEAN, at : 0..MaxTime,
             lockout : Lockouts, epoch : 0..MaxLocks, blob : Blobs, seed : Seeds]
Held     == [pc : {"held"}, op : {"seal"}, secret : Secrets, pepper : BOOLEAN]
Sealing  == [pc : {"sealing", "install"}, op : Creating, secret : Secrets,
             pepper : BOOLEAN, epoch : 0..MaxLocks, seed : Seeds]
Loading  == [pc : {"install", "settle"}, op : {"bio"}, epoch : 0..MaxLocks, seed : Seeds]
Locals   == {Idle} \cup Queued \cup Entered \cup Opening \cup Held \cup Sealing \cup Loading

Seen == [chosen : Secrets \cup {None}, by : Calls \cup {None},
         overtaken : [Calls -> {"no", "waiting", "sampled"}],
         failures : Nat, lost : Nat, owed : Nat, blurred : BOOLEAN]

\* The types of the vault's memory and files, and of every call's locals.
TypeOK ==
  /\ vault \in Seeds \cup {None} /\ epoch \in 0..MaxLocks
  /\ gate \in Calls \cup {None} /\ pepper \in BOOLEAN
  /\ ceremony \in Seeds \cup {None} /\ enrolled \in Seeds \cup {None}
  /\ blob \in Blobs \cup {None} /\ lockout \in Lockouts
  /\ now \in 0..MaxTime
  /\ call \in [Calls -> Locals]
  /\ used \in [calls : 0..MaxCalls, locks : 0..MaxLocks, faults : 0..MaxFaults]
  /\ seen \in Seen

\* A lock wins over every unlock, creation or restore whose slow work it lands
\* in: a call that had sampled the lock generation before the lock never
\* leaves the vault installed behind it (set_vault_if_current, lock_vault).
LockWins == vault # None => seen.overtaken[seen.by] # "sampled"

\* Every answered wrong secret is on the disk's counter, and nothing else is:
\* the counter is short by exactly the writes whose failure settle_attempt
\* drops, across concurrent calls, refusals, resets and process deaths. Only a
\* biometric reset landing inside a proving call blurs it.
AttemptsCounted == ~seen.blurred => lockout.failed + seen.lost = seen.failures

\* No secret is tried before the delay that the wrong ones before it earned,
\* whichever of the three lanes they came through (lockout_gate).
GuessesPaced ==
  seen.lost = 0 =>
    \A c \in Calls : At(c, "kdf") => call[c].at >= seen.owed

\* The lockout holds: every wrong answer is counted, and none comes early.
LockoutHolds == AttemptsCounted /\ GuessesPaced

\* The file opens with the secret the user last chose: a migration that runs
\* beside a re-key, or a lock, never puts an older secret back.
OpensWithChosen == blob # None => blob.secret = seen.chosen

\* The wallet in memory is the wallet on disk: one wallet per install.
ResidentIsBlob == vault # None => blob # None /\ blob.seed = vault

\* A PIN is never sealed without the phone's hardware factor, and none of the
\* first a stranger would try is sealed at all: through creation, restore,
\* re-key and migration.
PinsAreBound == blob # None => blob.secret \notin Weak /\ (blob.secret \in Pins => blob.bound)

\* The vault's consistency in every state: its types, one wallet in memory and
\* on disk, every PIN bound to the phone, and the file the user's own.
VaultInv == TypeOK /\ ResidentIsBlob /\ PinsAreBound /\ OpensWithChosen

=============================================================================
