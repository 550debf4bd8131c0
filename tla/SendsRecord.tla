---------------------------- MODULE SendsRecord ----------------------------
(***************************************************************************)
(* The wallet's record of its own sends: `InFlightSends`                   *)
(* (rust/chain/src/wallet_sync.rs), the file that carries it over a        *)
(* relaunch (`DurableFile`, rust/chain/src/sends_store.rs), and the commit *)
(* of a prepared send that writes to both (rust/chain/src/send.rs).        *)
(*                                                                         *)
(* A transaction is named by its txid, a number, and what it is follows    *)
(* from it: the coins it spends, the payment it is for, its amount.  A     *)
(* retry built alike is the same transaction.  The chain is what it has    *)
(* accepted and the coins spent on it.                                     *)
(***************************************************************************)
EXTENDS Naturals, Sequences, FiniteSets, SequencesExt

CONSTANTS
  Txs,       \* txids, numbers: a loaded record lists its legs in their order
  Coins,
  In,        \* In[t]: the coins transaction t spends
  PaidTo,    \* PaidTo[t]: the anchor key of the payment or message t is for
  Messages,  \* the transactions that are messages; every other is a payment
  Value,     \* Value[c]: what coin c is worth
  Amount,    \* Amount[t]: what t has to cover
  Overlap,   \* whether a send may be prepared while another's commit runs
  MaxGen,    \* bound: snapshots numbered in one run of the app
  MaxQueue,  \* bound: writes waiting for the blocking pool
  MaxStarts, \* bound: how often the record is loaded again
  MaxForeign \* bound: coins another wallet spends

ASSUME TxsAreNumbers == Txs \subseteq Nat /\ IsFiniteSet(Txs)
ASSUME CoinsAreSpent == \A t \in Txs : In[t] \in SUBSET Coins /\ In[t] # {}
\* A message is keyed by its conversation, its invitation or "backup", a payment
\* by an address.
ASSUME MessagesHaveOwnKeys == \A m \in Messages, t \in Txs \ Messages : PaidTo[m] # PaidTo[t]
ASSUME WorthIsANumber == \A c \in Coins : Value[c] \in Nat
ASSUME CoinsAreFinite == IsFiniteSet(Coins)
ASSUME BoundsAreNumbers == {MaxGen, MaxQueue, MaxStarts, MaxForeign} \subseteq Nat
ASSUME OverlapIsABoolean == Overlap \in BOOLEAN

VARIABLES
  rec,        \* the fields of InFlightSends that are kept on disk
  stash,      \* prepared sends waiting for their commit
  pc,         \* where each transaction's commit is
  awaits,     \* the snapshot number a commit waits to land, or 0
  file,       \* the legs file: each leg's state, or "none"
  written,    \* Writer: the number of the snapshot last landed
  next,       \* Writer: the last number handed out
  queue,      \* numbered snapshots not landed yet
  starts,     \* how often the record was loaded again
  left,       \* transactions whose request has left this device
  accepted,   \* transactions the chain has accepted
  spent,      \* coins spent on the chain
  unanswered, \* legs whose submit ended with no answer, and none since
  tried       \* legs a commit has logged

vars == <<rec, stash, pc, awaits, file, written, next, queue, starts,
          left, accepted, spent, unanswered, tried>>

chain == <<left, accepted, spent>>

LegState == {"none", "Submitting", "Sent", "Unknown"}
Record == [unknown : [Txs -> Nat], next_unknown : Nat,
           taken : SUBSET Txs, carried : SUBSET Txs, meta : SUBSET Txs]
Commit == {"idle", "recording", "recorded", "out"}

\* A leg of unknown fate has a place (its `seq`, counted from 1); any other, 0.
Unknown(r) == {t \in Txs : r.unknown[t] # 0}

Inputs(T) == UNION {In[t] : t \in T}

\* The legs still between their log entry and their return.
Submitting == {t \in Txs : pc[t] # "idle"}

\* A transaction that may still be accepted.
MayLand(t) == t \in left /\ t \notin accepted /\ In[t] \cap spent = {}

---------------------------------------------------------------------------
\* InFlightSends

Without(r, T) == [r EXCEPT !.unknown = [t \in Txs |-> IF t \in T THEN 0 ELSE r.unknown[t]]]

fate_unknown(r, t) == [r EXCEPT !.unknown[t] = r.next_unknown + 1, !.next_unknown = @ + 1]

\* retire(): legs of unknown fate that spend one of these coins cannot land.
coins_spent(r, C) == Without(r, {t \in Txs : In[t] \cap C # {}})

own_send_seen(r, t) == Without(r, {t})

remember_leg(r, t) == [r EXCEPT !.meta = @ \cup {t}]

\* Mutant of submit_returned: a leg whose commit was dropped is not kept.
submit_returned_forgets(r, t, mayHaveLeft) ==
  IF mayHaveLeft THEN [r EXCEPT !.carried = @ \ {t}] ELSE r

submit_returned(r, t, mayHaveLeft) ==
  LET s == [r EXCEPT !.carried = @ \ {t}]
  IN  IF ~mayHaveLeft THEN r
      ELSE IF t \in s.taken \cup Unknown(s) \/ t \notin s.meta THEN s
      ELSE fate_unknown(s, t)

forget_leg(r, t) == submit_returned([r EXCEPT !.meta = @ \ {t}], t, FALSE)

\* A send leaves at its acceptance; `entered`: the fold holds its record, so
\* the legs that conflict with it go too.
leave(r, t, entered) ==
  LET s == [own_send_seen(r, t) EXCEPT !.taken = @ \ {t}, !.carried = @ \ {t}]
  IN  IF entered THEN coins_spent(s, In[t]) ELSE s

\* settled(), creator_lost(): a send that can no longer land is not counted.
done_with(r, t) == [own_send_seen(r, t) EXCEPT !.taken = @ \ {t}]

\* The prune of `meta` a snapshot starts with.
pruned(r, submitting) == [r EXCEPT !.meta = @ \cap (Unknown(r) \cup r.taken \cup submitting)]

\* The store's copy of a pruned record.
legs(r) ==
  [t \in Txs |-> CASE t \in Unknown(r) -> "Unknown"
                   [] t \notin Unknown(r) /\ t \in r.meta ->
                        IF t \in r.taken THEN "Sent" ELSE "Submitting"
                   [] t \notin Unknown(r) /\ t \notin r.meta /\ t \in r.carried -> "Sent"
                   [] OTHER -> "none"]

\* The file lists its legs by txid: they are placed in that order.
load(f) ==
  LET back == {t \in Txs : f[t] \in {"Submitting", "Unknown"}}
  IN  [unknown |-> [t \in Txs |-> IF t \in back THEN Cardinality({u \in back : u <= t}) ELSE 0],
       next_unknown |-> Cardinality(back),
       taken |-> {}, carried |-> {t \in Txs : f[t] = "Sent"}, meta |-> back]

\* A numbered copy of r joins the blocking pool's queue.
\* Room for one more snapshot, within the bounds.
MayPersist == next < MaxGen /\ Cardinality(queue) < MaxQueue

Persist(r, submitting) ==
  /\ MayPersist
  /\ rec' = pruned(r, submitting)
  /\ next' = next + 1
  /\ queue' = queue \cup {[gen |-> next + 1, legs |-> legs(pruned(r, submitting))]}

---------------------------------------------------------------------------
\* One read of the node's unspent set, as far as the record goes.

\* The places the carried sends T take on, in any order.
Places(r, T) == {p \in [T -> r.next_unknown + 1 .. r.next_unknown + Cardinality(T)] :
                   \A t, u \in T : p[t] = p[u] => t = u}

\* What a read can end: what it shows of any other send changes nothing here.
Endable(r) == Unknown(r) \cup r.taken \cup r.carried

NoneStale == [t \in {} |-> 0]

\* Ended by a read that lists an output of `listed` and proves `gone` spent.
Ends(t, listed, gone) == t \in listed \/ In[t] \cap gone # {}

\* judge_carried(), the sends settled, retire_unknown(), outputs_listed(); the
\* carried sends that are a day old take the places `stale` gives them.
Judged(r, listed, gone, stale) ==
  LET T == DOMAIN stale
  IN  [unknown |-> [t \in Txs |-> IF t \in T THEN stale[t]
                                  ELSE IF Ends(t, listed, gone) THEN 0 ELSE r.unknown[t]],
       next_unknown |-> r.next_unknown + Cardinality(T),
       taken   |-> {t \in r.taken : ~Ends(t, listed, gone)},
       carried |-> {t \in r.carried : ~Ends(t, listed, gone)} \ T,
       meta    |-> r.meta \cup T]

---------------------------------------------------------------------------
\* Building a send

\* The coins a send of ours in flight holds: off the spendable list.
Withheld(r) == Inputs(r.taken \cup r.carried \cup {t \in Txs : pc[t] = "out"})

LargestFirst(C) == CHOOSE s \in [1..Cardinality(C) -> C] :
                     \A i, j \in DOMAIN s : i < j => s[i] # s[j] /\ Value[s[i]] >= Value[s[j]]

\* The unknown legs of payment key that hold a coin no other send of ours wants.
Leading(r, key) == {t \in Unknown(r) : PaidTo[t] = key /\ ~(In[t] \subseteq Withheld(r))}

\* Each as its own free coins, in the order they were registered.
Anchors(r, key) ==
  LET L    == Leading(r, key)
      each == CHOOSE s \in [1..Cardinality(L) -> L] :
                \A i, j \in DOMAIN s : i < j => r.unknown[s[i]] < r.unknown[s[j]]
  IN  [i \in DOMAIN each |-> LargestFirst(In[each[i]] \ Withheld(r))]

\* A leg of the payment every coin of which another send of ours spends.
Blocked(r, key) == \E t \in Unknown(r) : PaidTo[t] = key /\ In[t] \subseteq Withheld(r)

\* Mutant of First: an unanswered leg's coins do not lead the retry.
FirstUnanchored(r, key) == <<>>

\* The first coin of each leg, then the rest of each.
First(r, key) ==
  LET each  == Anchors(r, key)
      heads == [i \in DOMAIN each |-> each[i][1]]
      rests == [i \in DOMAIN each |-> Tail(each[i])]
  IN  heads \o FlattenSeq(rests)

WorthOf[S \in SUBSET Coins] ==
  IF S = {} THEN 0 ELSE LET c == CHOOSE c \in S : TRUE IN Value[c] + WorthOf[S \ {c}]
Worth(C) == WorthOf[C]

\* The Generator takes coins in the order given until the amount is covered:
\* the anchors, then the rest in whatever order policy and shape give, then
\* the coins of other payments' unanswered legs.
Draws(t, first, rest, last) ==
  LET covers(C) == Worth(C) >= Amount[t]
      lead(n)   == {first[i] : i \in 1..n}
  IN  /\ covers(In[t])
      /\ \/ \E n \in 1..Len(first) : In[t] = lead(n) /\ ~covers(lead(n - 1))
         \/ /\ ToSet(first) \subseteq In[t] /\ ~covers(ToSet(first))
            /\ In[t] \subseteq ToSet(first) \cup rest \cup last
            /\ \E c \in In[t] \ ToSet(first) : ~covers(In[t] \ {c})
            /\ In[t] \cap (last \ ToSet(first)) # {} =>
                 rest \subseteq In[t] /\ ~covers(ToSet(first) \cup rest)

Builds(r, t) ==
  LET key   == PaidTo[t]
      first == First(r, key)
      last  == Inputs({u \in Unknown(r) : PaidTo[u] # key}) \ Withheld(r)
  IN  /\ In[t] \cap Withheld(r) = {}
      /\ Draws(t, first, Coins \ (Withheld(r) \cup last), last)
      /\ t \notin Messages =>
           /\ ~Blocked(r, key)
           /\ first # <<>> => In[t] \cap ToSet(first) # {}   \* anchor_fence

SameStash(t, u) == t \in Messages <=> u \in Messages

\* prepare_send: read the node, then build on what the read left.
Prepare(t) ==
  /\ MayPersist
  /\ Overlap \/ \A u \in Submitting : ~SameStash(t, u)
  /\ \E listed \in SUBSET (accepted \cap Endable(rec)),
        gone \in SUBSET (spent \cap Inputs(Endable(rec))) :
       LET r == Judged(rec, listed, gone, NoneStale)
       IN  Builds(r, t) /\ Persist(r, Submitting)
  /\ stash' = {u \in stash : ~SameStash(t, u)} \cup {t}
  /\ UNCHANGED <<pc, awaits, file, written, starts, chain, unanswered, tried>>

\* send_abandon
Abandon(t) ==
  /\ t \in stash
  /\ stash' = stash \ {t}
  /\ UNCHANGED <<rec, pc, awaits, file, written, next, queue, starts, chain, unanswered, tried>>

---------------------------------------------------------------------------
\* Committing it

\* LoggedLeg::begin, to its write: logged, copied and queued under one lock.
Begin(t) ==
  /\ t \in stash /\ pc[t] = "idle"
  /\ stash' = stash \ {t}
  /\ pc' = [pc EXCEPT ![t] = "recording"]
  /\ awaits' = [awaits EXCEPT ![t] = next + 1]
  /\ tried' = tried \cup {t}
  /\ Persist(remember_leg(rec, t), Submitting \cup {t})
  /\ UNCHANGED <<file, written, starts, chain, unanswered>>

Awaiting(w) == {t \in Txs : awaits[t] = w.gen}

\* Mutant of Lands: a write lands whatever has landed since it was numbered.
LandsLate(w) ==
  /\ file' = w.legs /\ written' = w.gen
  /\ queue' = queue \ {w}
  /\ pc' = [t \in Txs |-> IF t \in Awaiting(w) THEN "recorded" ELSE pc[t]]
  /\ awaits' = [t \in Txs |-> IF t \in Awaiting(w) THEN 0 ELSE awaits[t]]
  /\ UNCHANGED <<rec, stash, next, starts, chain, unanswered, tried>>

\* DurableFile::write on the blocking thread, and the commit that awaits it.
Lands(w) ==
  /\ IF w.gen <= written THEN UNCHANGED <<file, written>>
     ELSE file' = w.legs /\ written' = w.gen
  /\ queue' = queue \ {w}
  /\ pc' = [t \in Txs |-> IF t \in Awaiting(w) THEN "recorded" ELSE pc[t]]
  /\ awaits' = [t \in Txs |-> IF t \in Awaiting(w) THEN 0 ELSE awaits[t]]
  /\ UNCHANGED <<rec, stash, next, starts, chain, unanswered, tried>>

\* The write fails: a commit that awaits it refuses its leg.
LandFails(w) ==
  /\ w.gen > written /\ w.legs # file
  /\ queue' = queue \ {w}
  /\ pc' = [t \in Txs |-> IF t \in Awaiting(w) THEN "idle" ELSE pc[t]]
  /\ awaits' = [t \in Txs |-> IF t \in Awaiting(w) THEN 0 ELSE awaits[t]]
  /\ \/ Awaiting(w) = {} /\ rec' = rec
     \/ \E t \in Awaiting(w) : rec' = forget_leg(rec, t)
  /\ UNCHANGED <<stash, file, written, next, starts, chain, unanswered, tried>>

\* admit_submit refuses: LoggedLeg::refused.
Refused(t) ==
  /\ pc[t] = "recorded"
  /\ pc' = [pc EXCEPT ![t] = "idle"]
  /\ Persist(forget_leg(rec, t), Submitting \ {t})
  /\ UNCHANGED <<stash, awaits, file, written, starts, chain, unanswered, tried>>

\* try_submit fails before its request: no DAA score, or no socket.
NotSent(t) ==
  /\ pc[t] = "recorded"
  /\ pc' = [pc EXCEPT ![t] = "idle"]
  /\ Persist(submit_returned(rec, t, FALSE), Submitting \ {t})
  /\ UNCHANGED <<stash, awaits, file, written, starts, chain, unanswered, tried>>

\* Admitted and registered: the request leaves.
Request(t) ==
  /\ pc[t] = "recorded"
  /\ pc' = [pc EXCEPT ![t] = "out"]
  /\ left' = left \cup {t}
  /\ UNCHANGED <<rec, stash, awaits, file, written, next, queue, starts, accepted, spent,
                 unanswered, tried>>

\* try_submit succeeds; `kept`: the processor still holds its record.
SubmitOk(t, kept) ==
  LET taken == IF kept THEN [rec EXCEPT !.taken = @ \cup {t}] ELSE rec
  IN  /\ pc[t] = "out"
      /\ pc' = [pc EXCEPT ![t] = "idle"]
      /\ unanswered' = unanswered \ {t}
      /\ Persist(submit_returned(own_send_seen(taken, t), t, TRUE), Submitting \ {t})
      /\ UNCHANGED <<stash, awaits, file, written, starts, chain, tried>>

\* try_submit fails once its request may have left: the pin cancelled it.
SubmitErr(t) ==
  /\ pc[t] = "out"
  /\ pc' = [pc EXCEPT ![t] = "idle"]
  /\ unanswered' = unanswered \cup {t}
  /\ Persist(submit_returned(fate_unknown(rec, t), t, TRUE), Submitting \ {t})
  /\ UNCHANGED <<stash, awaits, file, written, starts, chain, tried>>

\* It fails after the node's answer: the pin kept its record.
SubmitErrKept(t) ==
  /\ pc[t] = "out"
  /\ pc' = [pc EXCEPT ![t] = "idle"]
  /\ unanswered' = unanswered \ {t}
  /\ Persist(submit_returned([rec EXCEPT !.taken = @ \cup {t}], t, TRUE), Submitting \ {t})
  /\ UNCHANGED <<stash, awaits, file, written, starts, chain, tried>>

\* The commit is dropped at an await: LoggedLeg's Drop.
Dropped(t) ==
  /\ pc[t] # "idle"
  /\ pc' = [pc EXCEPT ![t] = "idle"]
  /\ awaits' = [awaits EXCEPT ![t] = 0]
  /\ rec' = submit_returned(rec, t, TRUE)
  /\ unanswered' = IF pc[t] = "out" THEN unanswered \cup {t} ELSE unanswered
  /\ UNCHANGED <<stash, file, written, next, queue, starts, chain, tried>>

---------------------------------------------------------------------------
\* What the fold and the reads learn

\* A record of t's own transaction from the network, or a Maturity once every
\* coin of a send the fold keeps is gone.
SeenLanded(t, entered) ==
  /\ t \in accepted \/ (t \in rec.taken /\ In[t] \subseteq spent)
  /\ t \in Unknown(rec) \cup rec.taken \cup rec.carried
  /\ Persist(leave(rec, t, entered), Submitting)
  /\ UNCHANGED <<stash, pc, awaits, file, written, starts, chain, unanswered, tried>>

\* Our own Pending record, raised inside a submit that succeeds.
OwnPending(t) ==
  /\ pc[t] = "out" /\ t \in Unknown(rec)
  /\ Persist(own_send_seen(rec, t), Submitting)
  /\ UNCHANGED <<stash, pc, awaits, file, written, starts, chain, unanswered, tried>>

\* An External record: a frame removed a coin no send of ours spends.
CoinGone(c) ==
  /\ c \in spent /\ \E t \in Unknown(rec) : c \in In[t]
  /\ Persist(coins_spent(rec, {c}), Submitting)
  /\ UNCHANGED <<stash, pc, awaits, file, written, starts, chain, unanswered, tried>>

\* Maturity of a send that lost a coin to a conflict.
LostToConflict(t) ==
  /\ t \in rec.taken /\ In[t] \cap spent # {}
  /\ Persist(done_with(rec, t), Submitting)
  /\ UNCHANGED <<stash, pc, awaits, file, written, starts, chain, unanswered, tried>>

\* file_from_node for a reopen, a pull or a widened window.
Read(listed, gone, stale) ==
  /\ Persist(Judged(rec, listed, gone, stale), Submitting)
  /\ UNCHANGED <<stash, pc, awaits, file, written, starts, chain, unanswered, tried>>

---------------------------------------------------------------------------
\* The network, and the app's own life

Accepted(t) ==
  /\ MayLand(t)
  /\ accepted' = accepted \cup {t}
  /\ spent' = spent \cup In[t]
  /\ UNCHANGED <<rec, stash, pc, awaits, file, written, next, queue, starts, left,
                 unanswered, tried>>

\* Another wallet on this seed spends a coin.
SpentElsewhere(c) ==
  /\ c \notin spent /\ Cardinality(spent \ Inputs(accepted)) < MaxForeign
  /\ spent' = spent \cup {c}
  /\ UNCHANGED <<rec, stash, pc, awaits, file, written, next, queue, starts, left, accepted,
                 unanswered, tried>>

\* The process dies and the app starts again.
Relaunch ==
  /\ starts < MaxStarts /\ starts' = starts + 1
  /\ rec' = load(file)
  /\ stash' = {} /\ queue' = {} /\ written' = 0 /\ next' = 0
  /\ pc' = [t \in Txs |-> "idle"]
  /\ awaits' = [t \in Txs |-> 0]
  /\ unanswered' = unanswered \cup {t \in Txs : pc[t] = "out"}
  /\ UNCHANGED <<file, chain, tried>>

\* Mutant of Reload: the numbering starts again with the record.
ReloadRenumbers ==
  /\ starts < MaxStarts /\ starts' = starts + 1
  /\ stash = {} /\ Submitting = {}
  /\ rec' = load(file)
  /\ written' = 0 /\ next' = 0
  /\ UNCHANGED <<stash, pc, awaits, file, queue, chain, unanswered, tried>>

\* The last engine is gone and a new one loads the same files in the same
\* process: writes still in the pool and the file's numbering outlive it.
Reload ==
  /\ starts < MaxStarts /\ starts' = starts + 1
  /\ stash = {} /\ Submitting = {}
  /\ rec' = load(file)
  /\ UNCHANGED <<stash, pc, awaits, file, written, next, queue, chain, unanswered, tried>>

Init ==
  /\ rec = [unknown |-> [t \in Txs |-> 0], next_unknown |-> 0, taken |-> {}, carried |-> {}, meta |-> {}]
  /\ stash = {} /\ queue = {} /\ written = 0 /\ next = 0 /\ starts = 0
  /\ pc = [t \in Txs |-> "idle"]
  /\ awaits = [t \in Txs |-> 0]
  /\ file = [t \in Txs |-> "none"]
  /\ left = {} /\ accepted = {} /\ spent = {} /\ unanswered = {} /\ tried = {}

Committing(t) ==
  \/ Begin(t) \/ Refused(t) \/ NotSent(t) \/ Request(t)
  \/ \E kept \in BOOLEAN : SubmitOk(t, kept)
  \/ SubmitErr(t) \/ SubmitErrKept(t) \/ Dropped(t)

Folding(t) ==
  \/ \E entered \in BOOLEAN : SeenLanded(t, entered)
  \/ OwnPending(t) \/ LostToConflict(t)

Reading ==
  /\ MayPersist
  /\ \E listed \in SUBSET (accepted \cap Endable(rec)),
        gone \in SUBSET (spent \cap Inputs(Endable(rec))) :
       \E T \in SUBSET {t \in rec.carried : ~Ends(t, listed, gone)} :
         \E stale \in Places(rec, T) : Read(listed, gone, stale)

Next ==
  \/ \E t \in Txs : Prepare(t) \/ Abandon(t) \/ Committing(t) \/ Folding(t) \/ Accepted(t)
  \/ \E w \in queue : Lands(w) \/ LandFails(w)
  \/ \E c \in Coins : CoinGone(c) \/ SpentElsewhere(c)
  \/ Reading \/ Relaunch \/ Reload

Spec == Init /\ [][Next]_vars

---------------------------------------------------------------------------
\* Properties

TypeOK ==
  /\ rec \in Record
  /\ stash \subseteq Txs
  /\ pc \in [Txs -> Commit]
  /\ awaits \in [Txs -> Nat]
  /\ file \in [Txs -> LegState]
  /\ written \in Nat /\ next \in Nat /\ starts \in 0..MaxStarts
  /\ queue \subseteq [gen : 1..next, legs : [Txs -> LegState]]
  /\ left \subseteq Txs /\ accepted \subseteq left /\ spent \subseteq Coins
  /\ unanswered \subseteq Txs /\ tried \subseteq Txs

\* A leg whose request has left and that can still land is in the wallet's
\* record, in a list a snapshot copies: through every return of a submit, a
\* commit dropped in it, what a read or a record from the network retires,
\* and a relaunch at any point.
OnRecord ==
  \A t \in Txs : MayLand(t) =>
    t \in Unknown(rec) \cup rec.carried \cup (rec.meta \cap (rec.taken \cup Submitting))

\* The same leg is in the file, whatever order the writes of the blocking pool
\* land in and whichever of them fail: a relaunch finds it.
OnDisk == \A t \in Txs : MayLand(t) => file[t] # "none"

\* A payment tried once, with no answer and able to land yet, conflicts with
\* the next send prepared for the same payment, relaunched or not: at most one
\* of the two lands.
RetryConflicts ==
  [][\A t \in (stash' \ stash) \ Messages : \A u \in unanswered :
       PaidTo[u] = PaidTo[t] /\ MayLand(u) /\ {v \in tried : PaidTo[v] = PaidTo[t]} = {u}
         => In[t] \cap In[u] # {}]_vars

===========================================================================
