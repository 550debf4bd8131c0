-------------------------- MODULE SendDeskProofs --------------------------
(***************************************************************************)
(* Proofs about the send desk, for any number of plans, walks and stashes  *)
(* and any two holds. The inductive invariant says which plan may be in    *)
(* which stash, that every claim's id has one holder (the review's slot or *)
(* one send) until it is released and none after, that ids are handed out  *)
(* at most twice a plan, and what a walk may still be waiting for.         *)
(***************************************************************************)
EXTENDS SendDesk, FiniteSetTheorems, WellFoundedInduction, TLAPS

USE DEF desk, claims, Awake, Plans, Walkers

----------------------------------------------------------------------------
(* The inductive invariant *)

Holds(n) == send[n].pc \in {"going", "sent"}

\* A token names one plan: a plan not prepared yet is in no stash, a stash
\* holds only a plan that was not taken, and a plan is taken once.
TokensNameOnce ==
  \A n \in Nonces :
    /\ n >= nonce => send[n].pc = "none"
    /\ \A s \in Stashes : stash[s] = n => send[n].pc \in {"stashed", "shown"} /\ send[n].of = s
    /\ send[n].pc # "none" => send[n].of \in Stashes
    /\ send[n].pc \in {"none", "stashed", "shown"} => send[n].times = 0
    /\ send[n].times <= 1
    /\ send[n].pc \in {"none", "stashed", "shown", "taken"} => send[n].claim = None

Reviewed  == {n \in Nonces : send[n].pc \notin {"none", "stashed"}}
Committed == {n \in Nonces : send[n].claim # None}

\* A plan's review takes one id, and its commit one more at most.
IdsCounted == nextId <= 1 + Cardinality(Reviewed) + Cardinality(Committed)

\* An id that was handed out has one holder until its release, and none after.
OneHolder ==
  /\ \A id \in history.released : id < nextId
  /\ \A c \in live : c.id < nextId /\ c.id \notin history.released
  /\ review # None => review < nextId /\ review \notin history.released
  /\ \A n \in Nonces : Holds(n) =>
       /\ send[n].claim # None /\ send[n].claim < nextId
       /\ send[n].claim \notin history.released /\ send[n].claim # review
       /\ \A m \in Nonces \ {n} : Holds(m) => send[m].claim # send[n].claim

\* A walk that read the claims, or sleeps on them, and was not notified since,
\* read one that is not released yet.
ReadsUnreleased ==
  \A w \in Walks : walk[w].pc \in {"read", "asleep"} /\ ~walk[w].woken =>
    \E id \in 1..(nextId - 1) : id \notin history.released

\* A claim a page was asked behind is released or still running, and a walk
\* has its turn again only when each of those it slipped behind is released.
SlipsRunOut ==
  /\ \A p \in history.asked : p[2] \in history.released \/ \E c \in live : c.id = p[2] /\ c.left > 0
  /\ \A w \in Walks : walk[w].pc = "turn" =>
       \A id \in Ids : <<w, id>> \in history.asked => id \in history.released

IInv ==
  /\ TypeOK
  /\ TokensNameOnce
  /\ IdsCounted
  /\ OneHolder
  /\ CommitHoldsSocket
  /\ ReadsUnreleased
  /\ SlipsRunOut

----------------------------------------------------------------------------
(* Facts about the operators *)

\* A set of numbers that is not empty has a least one.
LEMMA NatMin ==
  ASSUME NEW S \in SUBSET Nat, S # {}
  PROVE  \E x \in S : \A y \in S : x <= y
<1>1. IsWellFoundedOn(OpToRel(<,Nat), Nat)
  BY NatLessThanWellFounded
<1>2. PICK x \in S : \A y \in S : <<y, x>> \notin OpToRel(<,Nat)
  BY <1>1, WFMin, Zenon
<1>3. ASSUME NEW y \in S PROVE ~(y < x)
  <2>1. <<y, x>> \notin OpToRel(<,Nat)
    BY <1>2
  <2> QED BY <2>1 DEF OpToRel
<1> QED BY <1>3

\* Max is the greatest of a bounded set of numbers that is not empty.
LEMMA MaxOf ==
  ASSUME NEW S \in SUBSET Nat, S # {}, NEW M \in Nat, \A x \in S : x <= M
  PROVE  Max(S) \in S /\ \A y \in S : Max(S) >= y
<1> DEFINE D == {d \in Nat : \E x \in S : d = M - x}
<1>1. D # {}
  <2>1. PICK x \in S : TRUE
    OBVIOUS
  <2>2. M - x \in Nat
    OBVIOUS
  <2> QED BY <2>2
<1>2. PICK d \in D : \A y \in D : d <= y
  BY <1>1, NatMin
<1>3. PICK x \in S : d = M - x
  OBVIOUS
<1>4. ASSUME NEW y \in S PROVE x >= y
  <2>1. y \in Nat /\ y <= M /\ x \in Nat /\ x <= M
    OBVIOUS
  <2>2. M - y \in D
    BY <2>1
  <2>3. d <= M - y
    BY <2>2, <1>2
  <2> QED BY <2>1, <2>3, <1>3
<1> QED BY <1>4 DEF Max

Longest == Max({ReviewHold, AcceptanceHold})

\* The longer of the two holds.
LEMMA LongestFacts ==
  /\ Longest \in Nat /\ ReviewHold \in 1..Longest /\ AcceptanceHold \in 1..Longest
  /\ 0 \in 0..Longest
<1>1. ReviewHold \in Nat /\ AcceptanceHold \in Nat /\ ReviewHold > 0 /\ AcceptanceHold > 0
  BY SendDeskAssumption
<1>2. /\ Longest \in {ReviewHold, AcceptanceHold}
      /\ \A y \in {ReviewHold, AcceptanceHold} : Longest >= y
  <2>1. PICK x \in {ReviewHold, AcceptanceHold} : \A y \in {ReviewHold, AcceptanceHold} : x >= y
    BY <1>1
  <2> QED BY <2>1 DEF Max, Longest
<1> QED BY <1>1, <1>2

\* The invariant's parts, with the types spelled out.
LEMMA Parts ==
  ASSUME IInv
  PROVE  /\ nonce \in 1..(MaxSends + 1) /\ nextId \in 1..(2 * MaxSends + 1) /\ MaxSends \in Nat
         /\ nextId \in Nat /\ nonce \in Nat
         /\ stash \in [Stashes -> Nonces \cup {None}] /\ review \in Ids \cup {None}
         /\ live \subseteq [id : Ids, left : 0..Longest]
         /\ send \in [Nonces -> Plans]
         /\ walk \in [Walks -> Walkers]
         /\ history \in [released : SUBSET Ids, asked : SUBSET (Walks \X Ids)]
         /\ TokensNameOnce /\ IdsCounted /\ OneHolder /\ CommitHoldsSocket
         /\ ReadsUnreleased /\ SlipsRunOut
         /\ None \notin Ids /\ None \notin Nonces /\ Nonces \subseteq Nat /\ Ids \subseteq Nat
<1>1. MaxSends \in Nat /\ None \notin Nat
  BY SendDeskAssumption
<1>2. nonce \in 1..(MaxSends + 1) /\ nextId \in 1..(2 * MaxSends + 1)
  BY <1>1 DEF IInv, TypeOK, Ids
<1>3. None \notin Ids /\ None \notin Nonces /\ Nonces \subseteq Nat /\ Ids \subseteq Nat
  BY <1>1 DEF Ids, Nonces
<1>4. nextId \in Nat /\ nonce \in Nat
  BY <1>1, <1>2
<1>5. TypeOK
  BY DEF IInv
<1>6. /\ stash \in [Stashes -> Nonces \cup {None}] /\ review \in Ids \cup {None}
      /\ live \subseteq [id : Ids, left : 0..Longest]
  BY <1>5 DEF TypeOK, Longest
<1>7. /\ send \in [Nonces -> Plans]
      /\ walk \in [Walks -> Walkers]
      /\ history \in [released : SUBSET Ids, asked : SUBSET (Walks \X Ids)]
  BY <1>5, Zenon DEF TypeOK
<1>8. /\ TokensNameOnce /\ IdsCounted /\ OneHolder /\ CommitHoldsSocket
      /\ ReadsUnreleased /\ SlipsRunOut
  BY Zenon DEF IInv
<1> QED BY <1>1, <1>2, <1>3, <1>4, <1>6, <1>7, <1>8

\* Until answers a time there is while a claim runs, and None when none does.
LEMMA UntilFacts ==
  ASSUME IInv
  PROVE  /\ Unexpired(live) = {} => Until(live) = None
         /\ Unexpired(live) # {} => Until(live) \in Nat /\ Until(live) # None
<1> DEFINE S == {c.left : c \in Unexpired(live)}
<1>1. S \in SUBSET Nat /\ \A x \in S : x <= Longest
  BY Parts, LongestFacts DEF Unexpired
<1>2. ASSUME Unexpired(live) # {} PROVE Until(live) \in Nat
  <2>1. S # {}
    BY <1>2
  <2>2. Max(S) \in S
    BY <1>1, <2>1, MaxOf, LongestFacts
  <2> QED BY <1>1, <1>2, <2>2 DEF Until
<1> QED BY <1>2, SendDeskAssumption DEF Until

\* The counts of plans reviewed and committed: each fits the number of plans,
\* and a set that grows by one new plan counts one more.
LEMMA CountFacts ==
  ASSUME NEW R \in SUBSET Nonces
  PROVE  /\ IsFiniteSet(R) /\ Cardinality(R) \in Nat /\ Cardinality(R) <= MaxSends
         /\ \A n \in Nonces \ R : Cardinality(R \cup {n}) = Cardinality(R) + 1
<1>1. IsFiniteSet(Nonces) /\ Cardinality(Nonces) = MaxSends
  <2>1. MaxSends \in Nat
    BY SendDeskAssumption
  <2>2. /\ IsFiniteSet(1..MaxSends)
        /\ Cardinality(1..MaxSends) = IF 1 > MaxSends THEN 0 ELSE MaxSends - 1 + 1
    BY <2>1, FS_Interval
  <2> QED BY <2>1, <2>2 DEF Nonces
<1>2. IsFiniteSet(R) /\ Cardinality(R) <= Cardinality(Nonces)
  BY <1>1, FS_Subset
<1>3. Cardinality(R) \in Nat
  BY <1>2, FS_CardinalityType
<1>4. ASSUME NEW n \in Nonces \ R PROVE Cardinality(R \cup {n}) = Cardinality(R) + 1
  BY <1>2, FS_AddElement
<1> QED BY <1>1, <1>2, <1>3, <1>4

----------------------------------------------------------------------------
(* What a step leaves alone *)

\* Tokens, when the desk and the plans' fields they speak of stay.
LEMMA TokensFrame ==
  ASSUME IInv, UNCHANGED <<nonce, stash>>,
         \A n \in Nonces : /\ send'[n].pc = send[n].pc /\ send'[n].of = send[n].of
                           /\ send'[n].times = send[n].times /\ send'[n].claim = send[n].claim
  PROVE  TokensNameOnce'
  BY Parts DEF TokensNameOnce

\* The count of ids, when nobody takes one.
LEMMA CountFrame ==
  ASSUME IInv, nextId' = nextId,
         \A n \in Nonces : /\ send[n].pc \notin {"none", "stashed"} => send'[n].pc \notin {"none", "stashed"}
                           /\ send[n].claim # None => send'[n].claim # None
  PROVE  IdsCounted'
<1>1. Reviewed \subseteq Reviewed' /\ Committed \subseteq Committed'
  BY DEF Reviewed, Committed
<1>2. /\ IsFiniteSet(Reviewed') /\ Cardinality(Reviewed') \in Nat /\ Cardinality(Reviewed) \in Nat
      /\ IsFiniteSet(Committed') /\ Cardinality(Committed') \in Nat /\ Cardinality(Committed) \in Nat
  <2>1. /\ Reviewed \in SUBSET Nonces /\ Reviewed' \in SUBSET Nonces
        /\ Committed \in SUBSET Nonces /\ Committed' \in SUBSET Nonces
    BY DEF Reviewed, Committed
  <2> QED BY <2>1, CountFacts
<1>3. Cardinality(Reviewed) <= Cardinality(Reviewed') /\ Cardinality(Committed) <= Cardinality(Committed')
  BY <1>1, <1>2, FS_Subset
<1> QED BY <1>2, <1>3, Parts DEF IdsCounted

\* A step that frees nothing and hands out nothing new leaves the holders, if
\* the claims in the vector are among those of before or a holder's.
LEMMA HoldersFrame ==
  ASSUME IInv, UNCHANGED <<nextId, review>>, history'.released = history.released,
         \A n \in Nonces : Holds(n)' => Holds(n) /\ send'[n].claim = send[n].claim,
         \A c \in live' : (\E d \in live : d.id = c.id) \/ (\E n \in Nonces : Holds(n) /\ send[n].claim = c.id)
  PROVE  OneHolder'
<1> USE Parts DEF OneHolder
<1>1. \A c \in live' : c.id < nextId' /\ c.id \notin history'.released
  OBVIOUS
<1>2. \A n \in Nonces : Holds(n)' =>
       /\ send'[n].claim # None /\ send'[n].claim < nextId'
       /\ send'[n].claim \notin history'.released /\ send'[n].claim # review'
       /\ \A m \in Nonces \ {n} : Holds(m)' => send'[m].claim # send'[n].claim
  OBVIOUS
<1> QED BY <1>1, <1>2

\* The ids handed out only grow.
LEMMA IdsStay ==
  ASSUME NEW a \in Nat, NEW b \in Nat, b >= a
  PROVE  1..(a - 1) \subseteq 1..(b - 1)
  OBVIOUS

\* An id below the next one was handed out.
LEMMA IdBelow ==
  ASSUME NEW b \in Nat, NEW id \in Ids, id < b
  PROVE  id \in 1..(b - 1)
  BY SendDeskAssumption DEF Ids

\* What the walks read, when no release is made and no id is forgotten.
LEMMA ReadsFrame ==
  ASSUME IInv, nextId' \in Nat, nextId' >= nextId, history'.released = history.released,
         \A w \in Walks : walk'[w].pc \in {"read", "asleep"} /\ ~walk'[w].woken =>
           walk[w].pc \in {"read", "asleep"} /\ ~walk[w].woken
  PROVE  ReadsUnreleased'
<1> SUFFICES ASSUME NEW w \in Walks, walk'[w].pc \in {"read", "asleep"}, ~walk'[w].woken
             PROVE  \E id \in 1..(nextId' - 1) : id \notin history'.released
  BY DEF ReadsUnreleased
<1>1. PICK id \in 1..(nextId - 1) : id \notin history.released
  BY Parts DEF ReadsUnreleased
<1>2. id \in 1..(nextId' - 1)
  BY Parts, IdsStay
<1> QED BY <1>1, <1>2

\* The pages asked, when the running claims of before still run.
LEMMA SlipsFrame ==
  ASSUME IInv, UNCHANGED history,
         \A c \in live : c.left > 0 => \E d \in live' : d.id = c.id /\ d.left > 0,
         \A w \in Walks : walk'[w].pc = "turn" => walk[w].pc = "turn"
  PROVE  SlipsRunOut'
<1>1. \A p \in history.asked : p[2] \in history.released \/ \E c \in live' : c.id = p[2] /\ c.left > 0
  BY Parts DEF SlipsRunOut
<1> QED BY <1>1, Parts DEF SlipsRunOut

\* A release: the claim leaves the vector, every walk that enabled its Notified
\* is notified, and the id is never live again.
LEMMA ReleaseWalks ==
  ASSUME IInv, walk' = Notified, nextId' \in Nat,
         NEW id \in Ids, history' = Released({id}),
         \A c \in live : c.left > 0 /\ c.id # id => \E d \in live' : d.id = c.id /\ d.left > 0
  PROVE  /\ walk' \in [Walks -> Walkers]
         /\ history' \in [released : SUBSET Ids, asked : SUBSET (Walks \X Ids)]
         /\ history'.released = history.released \cup {id} /\ history'.asked = history.asked
         /\ ReadsUnreleased' /\ SlipsRunOut'
<1>1. /\ history' \in [released : SUBSET Ids, asked : SUBSET (Walks \X Ids)]
      /\ history'.released = history.released \cup {id} /\ history'.asked = history.asked
  BY Parts DEF Released
<1>2. \A w \in Walks :
        /\ walk'[w] \in Walkers
        /\ walk'[w].pc = walk[w].pc
        /\ walk[w].pc \in {"enabled", "read", "asleep"} => walk'[w].woken
  <2> SUFFICES ASSUME NEW w \in Walks
               PROVE  /\ walk'[w] \in Walkers
                      /\ walk'[w].pc = walk[w].pc
                      /\ walk[w].pc \in {"enabled", "read", "asleep"} => walk'[w].woken
    OBVIOUS
  <2>1. walk[w] \in Walkers
    BY Parts
  <2>2. CASE walk[w].pc \in {"enabled", "read", "asleep"}
    <3>1. walk'[w] = [walk[w] EXCEPT !.woken = TRUE]
      BY <2>2 DEF Notified
    <3> QED BY <2>1, <3>1
  <2>3. CASE walk[w].pc \notin {"enabled", "read", "asleep"}
    <3>1. walk'[w] = walk[w]
      BY <2>3 DEF Notified
    <3> QED BY <2>1, <2>3, <3>1
  <2> QED BY <2>2, <2>3
<1>3. walk' \in [Walks -> Walkers]
  BY <1>2 DEF Notified
<1>4. ReadsUnreleased'
  BY <1>2 DEF ReadsUnreleased
<1>5. \A p \in history.asked : p[2] \in history'.released \/ \E c \in live' : c.id = p[2] /\ c.left > 0
  BY <1>1, Parts DEF SlipsRunOut
<1>6. SlipsRunOut'
  BY <1>1, <1>2, <1>5, Parts DEF SlipsRunOut
<1> QED BY <1>1, <1>3, <1>4, <1>6

----------------------------------------------------------------------------
(* The steps *)

\* The first state satisfies the invariant.
LEMMA InitHolds == Init => IInv
<1> SUFFICES ASSUME Init PROVE IInv
  OBVIOUS
<1>1. MaxSends \in Nat /\ None \notin Nat
  BY SendDeskAssumption
<1>2. \A n \in Nonces : send[n] = [pc |-> "none", of |-> None, claim |-> None,
                                   left |-> 0, times |-> 0, again |-> FALSE]
  BY DEF Init
<1>3. TypeOK
  <2>1. nonce \in 1..(MaxSends + 1) /\ nextId \in Ids \cup {2 * MaxSends + 1}
    BY <1>1 DEF Init, Ids
  <2>2. send \in [Nonces -> Plans]
    BY DEF Init, Stages
  <2>3. walk \in [Walks -> Walkers]
    BY DEF Init, Turns
  <2> QED BY <2>1, <2>2, <2>3 DEF Init, TypeOK
<1>4. TokensNameOnce
  BY <1>1, <1>2 DEF Init, TokensNameOnce, Nonces
<1>5. IdsCounted
  <2>1. Cardinality(Reviewed) \in Nat /\ Cardinality(Committed) \in Nat
    BY CountFacts DEF Reviewed, Committed
  <2> QED BY <2>1 DEF Init, IdsCounted
<1>6. OneHolder /\ CommitHoldsSocket
  BY <1>2 DEF Init, OneHolder, CommitHoldsSocket, Holds
<1>7. ReadsUnreleased /\ SlipsRunOut
  BY DEF Init, ReadsUnreleased, SlipsRunOut
<1> QED BY <1>3, <1>4, <1>5, <1>6, <1>7 DEF IInv

\* The claims' steps keep the vector's type.
LEMMA LiveTypes ==
  ASSUME IInv
  PROVE  /\ Unexpired(live) \subseteq [id : Ids, left : 0..Longest]
         /\ \A id \in Ids : Without(live, id) \subseteq [id : Ids, left : 0..Longest]
         /\ \A id \in Ids : Renewed(live, id, AcceptanceHold) \subseteq [id : Ids, left : 0..Longest]
<1>1. \A id \in Ids : [id |-> id, left |-> AcceptanceHold] \in [id : Ids, left : 0..Longest]
  BY LongestFacts
<1> QED BY <1>1, Parts DEF Unexpired, Without, Renewed

\* A plan is prepared.
LEMMA PrepareStep == ASSUME IInv, NEW s \in Stashes, Prepare(s) PROVE IInv'
<1>1. /\ nonce \in Nonces /\ stash' = [stash EXCEPT ![s] = nonce] /\ nonce' = nonce + 1
      /\ send' = [send EXCEPT ![nonce] = [@ EXCEPT !.pc = "stashed", !.of = s]]
      /\ UNCHANGED <<review, nextId, live, walk, history>>
  BY DEF Prepare
<1>2. /\ send[nonce].pc = "none" /\ send[nonce].times = 0 /\ send[nonce].claim = None
  <2>1. nonce >= nonce
    BY Parts
  <2> QED BY <1>1, <2>1, Parts DEF TokensNameOnce
<1>3. /\ send' \in [Nonces -> Plans]
      /\ send'[nonce].pc = "stashed" /\ send'[nonce].of = s
      /\ send'[nonce].times = 0 /\ send'[nonce].claim = None
      /\ \A n \in Nonces \ {nonce} : send'[n] = send[n]
  <2>1. send[nonce] \in Plans
    BY <1>1, Parts
  <2> DEFINE r == [send[nonce] EXCEPT !.pc = "stashed", !.of = s]
  <2>2. /\ r \in Plans
        /\ r.pc = "stashed" /\ r.of = s /\ r.times = 0 /\ r.claim = None
    BY <2>1, <1>2 DEF Stages
  <2>3. send' = [send EXCEPT ![nonce] = r]
    BY <1>1
  <2> HIDE DEF r
  <2>4. /\ send' \in [Nonces -> Plans]
        /\ send'[nonce] = r /\ \A n \in Nonces \ {nonce} : send'[n] = send[n]
    BY <1>1, <2>2, <2>3, Parts
  <2> QED BY <2>2, <2>4
<1>4. TypeOK'
  <2>1. nonce' \in 1..(MaxSends + 1)
    BY <1>1, Parts DEF Nonces
  <2>2. stash' \in [Stashes -> Nonces \cup {None}]
    BY <1>1, Parts
  <2> QED BY <1>1, <1>3, <2>1, <2>2, Parts DEF IInv, TypeOK
<1>5. TokensNameOnce'
  <2> SUFFICES ASSUME NEW n \in Nonces
               PROVE  /\ n >= nonce' => send'[n].pc = "none"
                      /\ \A t \in Stashes : stash'[t] = n => send'[n].pc \in {"stashed", "shown"} /\ send'[n].of = t
                      /\ send'[n].pc # "none" => send'[n].of \in Stashes
                      /\ send'[n].pc \in {"none", "stashed", "shown"} => send'[n].times = 0
                      /\ send'[n].times <= 1
                      /\ send'[n].pc \in {"none", "stashed", "shown", "taken"} => send'[n].claim = None
    BY DEF TokensNameOnce
  <2>1. \A t \in Stashes : stash'[t] = IF t = s THEN nonce ELSE stash[t]
    BY <1>1, Parts
  <2>2. n \in Nat /\ nonce \in Nat
    BY Parts
  <2>3. CASE n = nonce
    BY <1>1, <1>2, <1>3, <2>1, <2>2, <2>3, Parts DEF TokensNameOnce
  <2>4. CASE n # nonce
    <3>1. n >= nonce' => n >= nonce
      BY <1>1, <2>2
    <3> QED BY <1>3, <2>1, <2>4, <3>1, Parts DEF TokensNameOnce
  <2> QED BY <2>3, <2>4
<1>6. \A n \in Nonces : Holds(n)' => Holds(n) /\ send'[n] = send[n]
  BY <1>3 DEF Holds
<1>7. IdsCounted'
  <2>1. \A n \in Nonces : /\ send[n].pc \notin {"none", "stashed"} => send'[n].pc \notin {"none", "stashed"}
                          /\ send[n].claim # None => send'[n].claim # None
    BY <1>2, <1>3
  <2> QED BY <1>1, <2>1, CountFrame
<1>8. OneHolder'
  BY <1>1, <1>6, HoldersFrame
<1>9. CommitHoldsSocket'
  BY <1>1, <1>6, Parts DEF CommitHoldsSocket, Holds
<1>10. ReadsUnreleased' /\ SlipsRunOut'
  BY <1>1, Parts DEF ReadsUnreleased, SlipsRunOut
<1> QED BY <1>4, <1>5, <1>7, <1>8, <1>9, <1>10 DEF IInv

\* One plan's record is replaced.
LEMMA PlanUpdate ==
  ASSUME IInv, NEW n \in Nonces, NEW r \in Plans, send' = [send EXCEPT ![n] = r]
  PROVE  /\ send' \in [Nonces -> Plans] /\ send'[n] = r
         /\ \A m \in Nonces \ {n} : send'[m] = send[m]
  BY Parts

\* The sums behind the count of ids.
LEMMA CountSums ==
  ASSUME NEW x \in Nat, NEW y \in Nat, NEW x1 \in Nat, NEW y1 \in Nat, NEW m \in Nat, NEW id \in Nat,
         x1 <= m, y1 <= m, x1 + y1 = x + y + 1, id <= 1 + x + y, id >= 1
  PROVE  id + 1 <= 1 + x1 + y1 /\ id \in 1..(2 * m) /\ id + 1 \in 1..(2 * m + 1)
  OBVIOUS

\* The next id can be handed out to a plan that is reviewed or committed now.
LEMMA CountUp ==
  ASSUME IInv, NEW n \in Nonces, nextId' = nextId + 1,
         \/ n \notin Reviewed /\ Reviewed' = Reviewed \cup {n} /\ Committed' = Committed
         \/ n \notin Committed /\ Reviewed' = Reviewed /\ Committed' = Committed \cup {n}
  PROVE  IdsCounted' /\ nextId \in Ids /\ nextId' \in Ids \cup {2 * MaxSends + 1}
<1> DEFINE r == Cardinality(Reviewed)   c == Cardinality(Committed)
<1>1. Reviewed \in SUBSET Nonces /\ Committed \in SUBSET Nonces
  BY DEF Reviewed, Committed
<1>2. Reviewed' \in SUBSET Nonces /\ Committed' \in SUBSET Nonces
  BY DEF Reviewed, Committed
<1>3. r \in Nat /\ c \in Nat
  BY <1>1, CountFacts
<1>4. r' \in Nat /\ c' \in Nat /\ r' <= MaxSends /\ c' <= MaxSends
  BY <1>2, CountFacts
<1>5. r' + c' = r + c + 1
  BY <1>1, <1>3, CountFacts
<1>6. nextId <= 1 + r + c /\ nextId \in Nat /\ nextId >= 1 /\ MaxSends \in Nat
  BY Parts DEF IdsCounted
<1>7. /\ nextId' <= 1 + r' + c'
      /\ nextId \in 1..(2 * MaxSends) /\ nextId' \in 1..(2 * MaxSends + 1)
  BY <1>3, <1>4, <1>5, <1>6, CountSums
<1> QED BY <1>6, <1>7 DEF IdsCounted, Ids

\* review_claim takes an id, and releases the review's before.
LEMMA ReviewStep == ASSUME IInv, NEW n \in Nonces, review_claim(n) PROVE IInv'
<1> DEFINE new == [id |-> nextId, left |-> ReviewHold]
           r == [send[n] EXCEPT !.pc = "shown"]
<1>1. /\ send[n].pc = "stashed" /\ nextId' = nextId + 1 /\ review' = nextId
      /\ send' = [send EXCEPT ![n] = r] /\ UNCHANGED <<nonce, stash>>
  BY DEF review_claim
<1>2. \/ review = None /\ live' = live \cup {new} /\ UNCHANGED <<walk, history>>
      \/ /\ review # None /\ live' = Without(live \cup {new}, review)
         /\ walk' = Notified /\ history' = Released({review})
  BY DEF review_claim
<1>3. /\ r \in Plans /\ r.pc = "shown" /\ r.of = send[n].of /\ r.claim = send[n].claim
      /\ r.times = send[n].times
  <2>1. send[n] \in Plans
    BY Parts
  <2> QED BY <2>1 DEF Stages
<1> HIDE DEF r
<1>4. send' \in [Nonces -> Plans] /\ send'[n] = r /\ \A m \in Nonces \ {n} : send'[m] = send[m]
  BY <1>1, <1>3, PlanUpdate
<1>5. TokensNameOnce'
  <2> SUFFICES ASSUME NEW m \in Nonces
               PROVE  /\ m >= nonce => send'[m].pc = "none"
                      /\ \A t \in Stashes : stash[t] = m => send'[m].pc \in {"stashed", "shown"} /\ send'[m].of = t
                      /\ send'[m].pc # "none" => send'[m].of \in Stashes
                      /\ send'[m].pc \in {"none", "stashed", "shown"} => send'[m].times = 0
                      /\ send'[m].times <= 1
                      /\ send'[m].pc \in {"none", "stashed", "shown", "taken"} => send'[m].claim = None
    BY <1>1 DEF TokensNameOnce
  <2>1. CASE m = n
    BY <1>1, <1>3, <1>4, <2>1, Parts DEF TokensNameOnce
  <2>2. CASE m # n
    BY <1>4, <2>2, Parts DEF TokensNameOnce
  <2> QED BY <2>1, <2>2
<1>6. n \notin Reviewed /\ Reviewed' = Reviewed \cup {n} /\ Committed' = Committed
  BY <1>1, <1>3, <1>4 DEF Reviewed, Committed
<1>7. IdsCounted' /\ nextId \in Ids /\ nextId' \in Ids \cup {2 * MaxSends + 1}
  BY <1>1, <1>6, CountUp
<1>8. \A m \in Nonces : (Holds(m)' <=> Holds(m)) /\ (Holds(m) => m # n /\ send'[m] = send[m])
  BY <1>1, <1>3, <1>4 DEF Holds
<1>9. new \in [id : Ids, left : 0..Longest] /\ new.id = nextId /\ new.left > 0
  BY <1>7, LongestFacts
<1>10. nextId \in Nat /\ nextId' \in Nat /\ nextId' >= nextId /\ \A id \in Ids : id < nextId => id < nextId' /\ id # nextId
  BY <1>1, Parts
<1>11. /\ live' \subseteq [id : Ids, left : 0..Longest]
       /\ \A c \in live' : c = new \/ (c \in live /\ c.id # review)
       /\ \A c \in live : c.id # review => c \in live'
  <2>1. live \subseteq [id : Ids, left : 0..Longest] /\ \A c \in live : c.id \in Ids
    BY Parts
  <2>2. review = None => \A c \in live : c.id # review
    BY <2>1, Parts
  <2> HIDE DEF new
  <2> QED BY <1>2, <1>9, <2>1, <2>2 DEF Without
<1>12. /\ walk' \in [Walks -> Walkers]
       /\ history' \in [released : SUBSET Ids, asked : SUBSET (Walks \X Ids)]
       /\ history'.released = IF review = None THEN history.released ELSE history.released \cup {review}
       /\ ReadsUnreleased' /\ SlipsRunOut'
  <2>1. CASE review = None
    <3>1. \A c \in live : c.left > 0 => \E d \in live' : d.id = c.id /\ d.left > 0
      BY <1>2, <2>1
    <3>2. walk' = walk /\ history' = history
      BY <1>2, <2>1
    <3>3. ReadsUnreleased'
      BY <1>10, <3>2, ReadsFrame
    <3>4. SlipsRunOut'
      BY <3>1, <3>2, SlipsFrame
    <3> QED BY <2>1, <3>2, <3>3, <3>4, Parts
  <2>2. CASE review # None
    <3>1. \A c \in live : c.left > 0 /\ c.id # review => \E d \in live' : d.id = c.id /\ d.left > 0
      BY <1>11
    <3>2. walk' = Notified /\ history' = Released({review}) /\ review \in Ids
      BY <1>2, <2>2, Parts
    <3> QED BY <1>10, <2>2, <3>1, <3>2, ReleaseWalks
  <2> QED BY <2>1, <2>2
<1>13. OneHolder'
  <2>1. \A id \in history'.released : id < nextId'
    BY <1>10, <1>12, Parts DEF OneHolder
  <2>2. nextId \notin history'.released
    BY <1>10, <1>12, Parts DEF OneHolder
  <2>3. \A c \in live' : c.id < nextId' /\ c.id \notin history'.released
    <3>1. new.id < nextId' /\ new.id \notin history'.released
      BY <1>1, <1>10, <2>2
    <3>2. ASSUME NEW c \in live, c.id # review PROVE c.id < nextId' /\ c.id \notin history'.released
      BY <1>10, <1>12, <3>2, Parts DEF OneHolder
    <3> HIDE DEF new
    <3> QED BY <1>11, <3>1, <3>2
  <2>4. review' # None => review' < nextId' /\ review' \notin history'.released
    BY <1>1, <1>10, <2>2
  <2>5. ASSUME NEW m \in Nonces, Holds(m)'
        PROVE  /\ send'[m].claim # None /\ send'[m].claim < nextId'
               /\ send'[m].claim \notin history'.released /\ send'[m].claim # review'
               /\ \A k \in Nonces \ {m} : Holds(k)' => send'[k].claim # send'[m].claim
    <3>1. Holds(m) /\ send'[m] = send[m]
      BY <1>8, <2>5
    <3>2. /\ send[m].claim # None /\ send[m].claim < nextId /\ send[m].claim # review
          /\ send[m].claim \notin history.released
          /\ \A k \in Nonces \ {m} : Holds(k) => send[k].claim # send[m].claim
      BY <3>1, Parts DEF OneHolder
    <3>3. send[m].claim \in Ids
      BY <3>2, Parts
    <3> QED BY <1>1, <1>8, <1>10, <1>12, <3>1, <3>2, <3>3
  <2> QED BY <2>1, <2>3, <2>4, <2>5 DEF OneHolder
<1>14. CommitHoldsSocket'
  <2> SUFFICES ASSUME NEW m \in Nonces, send'[m].pc \in {"going", "sent"}, send'[m].left > 0
               PROVE  \E c \in live' : c.id = send'[m].claim /\ c.left >= send'[m].left
    BY DEF CommitHoldsSocket
  <2>1. Holds(m) /\ send'[m] = send[m]
    BY <1>8 DEF Holds
  <2>2. PICK c \in live : c.id = send[m].claim /\ c.left >= send[m].left
    BY <2>1, Parts DEF CommitHoldsSocket, Holds
  <2>3. c.id # review
    BY <2>1, <2>2, Parts DEF OneHolder
  <2> QED BY <1>11, <2>1, <2>2, <2>3
<1>15. TypeOK'
  BY <1>1, <1>4, <1>7, <1>11, <1>12, Parts DEF TypeOK, Longest
<1> QED BY <1>5, <1>7, <1>12, <1>13, <1>14, <1>15 DEF IInv

\* A claim is given back by the one that held it.
LEMMA ReleaseHolders ==
  ASSUME IInv, nextId' = nextId, NEW id \in Ids, id < nextId, live' = Without(live, id),
         history'.released = history.released \cup {id},
         review' = None \/ (review' = review /\ review # id),
         \A n \in Nonces : Holds(n)' => Holds(n) /\ send'[n] = send[n] /\ send[n].claim # id
  PROVE  OneHolder' /\ CommitHoldsSocket'
<1>1. \A c \in live' : c \in live /\ c.id # id
  BY DEF Without
<1>2. \A k \in history'.released : k < nextId'
  BY Parts DEF OneHolder
<1>3. \A c \in live' : c.id < nextId' /\ c.id \notin history'.released
  BY <1>1, Parts DEF OneHolder
<1>4. review' # None => review' < nextId' /\ review' \notin history'.released
  BY Parts DEF OneHolder
<1>5. ASSUME NEW m \in Nonces, Holds(m)'
      PROVE  /\ send'[m].claim # None /\ send'[m].claim < nextId'
             /\ send'[m].claim \notin history'.released /\ send'[m].claim # review'
             /\ \A k \in Nonces \ {m} : Holds(k)' => send'[k].claim # send'[m].claim
  <2>1. /\ send[m].claim # None /\ send[m].claim < nextId /\ send[m].claim # review
        /\ send[m].claim \notin history.released
        /\ \A k \in Nonces \ {m} : Holds(k) => send[k].claim # send[m].claim
    BY <1>5, Parts DEF OneHolder
  <2> QED BY <1>5, <2>1
<1>6. CommitHoldsSocket'
  <2> SUFFICES ASSUME NEW m \in Nonces, send'[m].pc \in {"going", "sent"}, send'[m].left > 0
               PROVE  \E c \in live' : c.id = send'[m].claim /\ c.left >= send'[m].left
    BY DEF CommitHoldsSocket
  <2>1. Holds(m) /\ send'[m] = send[m] /\ send[m].claim # id
    BY DEF Holds
  <2>2. PICK c \in live : c.id = send[m].claim /\ c.left >= send[m].left
    BY <2>1, Parts DEF CommitHoldsSocket, Holds
  <2>3. c \in live'
    BY <2>1, <2>2 DEF Without
  <2> QED BY <2>1, <2>2, <2>3
<1> QED BY <1>2, <1>3, <1>4, <1>5, <1>6 DEF OneHolder

\* send_abandon and transport_abandon.
LEMMA AbandonStep == ASSUME IInv, NEW s \in Stashes, Abandon(s) PROVE IInv'
<1>1. /\ stash' = [stash EXCEPT ![s] = None] /\ review' = None
      /\ UNCHANGED <<nonce, nextId, send>>
  BY DEF Abandon
<1>2. \/ review = None /\ UNCHANGED <<live, walk, history>>
      \/ /\ review # None /\ live' = Without(live, review)
         /\ walk' = Notified /\ history' = Released({review})
  BY DEF Abandon
<1>3. stash' \in [Stashes -> Nonces \cup {None}] /\ \A t \in Stashes : stash'[t] \in {None, stash[t]}
  BY <1>1, Parts
<1>4. TokensNameOnce'
  <2> SUFFICES ASSUME NEW m \in Nonces
               PROVE  \A t \in Stashes : stash'[t] = m => send[m].pc \in {"stashed", "shown"} /\ send[m].of = t
    BY <1>1, Parts DEF TokensNameOnce
  <2> QED BY <1>3, Parts DEF TokensNameOnce
<1>5. IdsCounted'
  BY <1>1, CountFrame
<1>6. \A n \in Nonces : (Holds(n)' <=> Holds(n)) /\ send'[n] = send[n]
  BY <1>1 DEF Holds
<1>7. CASE review = None
  <2>1. UNCHANGED <<live, walk, history, review>>
    BY <1>1, <1>2, <1>7
  <2>2. OneHolder'
    BY <1>1, <1>6, <2>1, HoldersFrame
  <2>3. CommitHoldsSocket' /\ ReadsUnreleased' /\ SlipsRunOut'
    BY <1>1, <2>1, Parts DEF CommitHoldsSocket, ReadsUnreleased, SlipsRunOut
  <2>4. TypeOK'
    BY <1>1, <1>3, <2>1, Parts DEF IInv, TypeOK
  <2> QED BY <1>4, <1>5, <2>2, <2>3, <2>4 DEF IInv
<1>8. CASE review # None
  <2>1. live' = Without(live, review) /\ walk' = Notified /\ history' = Released({review})
    BY <1>2, <1>8
  <2>2. review \in Ids /\ review < nextId /\ nextId' \in Nat
    BY <1>1, <1>8, Parts DEF OneHolder
  <2>3. \A c \in live : c.left > 0 /\ c.id # review => \E d \in live' : d.id = c.id /\ d.left > 0
    BY <2>1 DEF Without
  <2>4. /\ walk' \in [Walks -> Walkers]
        /\ history' \in [released : SUBSET Ids, asked : SUBSET (Walks \X Ids)]
        /\ history'.released = history.released \cup {review}
        /\ ReadsUnreleased' /\ SlipsRunOut'
    BY <2>1, <2>2, <2>3, ReleaseWalks
  <2>5. \A n \in Nonces : Holds(n)' => Holds(n) /\ send'[n] = send[n] /\ send[n].claim # review
    BY <1>6, Parts DEF OneHolder
  <2>6. OneHolder' /\ CommitHoldsSocket'
    BY <1>1, <2>1, <2>2, <2>4, <2>5, ReleaseHolders
  <2>7. TypeOK'
    BY <1>1, <1>3, <2>1, <2>2, <2>4, Parts, LiveTypes DEF TypeOK, Longest, IInv
  <2> QED BY <1>4, <1>5, <2>4, <2>6, <2>7 DEF IInv
<1> QED BY <1>7, <1>8

\* take_stashed, with the plan's token or after another plan took its place.
LEMMA TakeStep == ASSUME IInv, NEW n \in Nonces, take_stashed(n) PROVE IInv'
<1>1. /\ send[n].pc \in {"shown", "going"} /\ UNCHANGED <<nonce, review, nextId, live, walk, history>>
  BY DEF take_stashed
<1>2. send[n] \in Plans /\ send[n].of \in Stashes
  BY <1>1, Parts DEF TokensNameOnce
<1>3. PICK r \in Plans :
        /\ send' = [send EXCEPT ![n] = r]
        /\ r.of = send[n].of /\ r.claim = send[n].claim /\ r.left = send[n].left
        /\ \/ /\ stash[send[n].of] = n /\ stash' = [stash EXCEPT ![send[n].of] = None]
              /\ r.pc = "taken" /\ r.times = send[n].times + 1
           \/ /\ stash[send[n].of] # n /\ stash' = stash
              /\ r.pc = (IF send[n].pc = "shown" THEN "over" ELSE send[n].pc) /\ r.times = send[n].times
  <2>1. CASE stash[send[n].of] = n
    <3> DEFINE t == send[n].times + 1
               q == [send[n] EXCEPT !.pc = "taken", !.times = t]
    <3>0. t \in Nat
      BY <1>2
    <3>1. /\ q \in Plans /\ q.of = send[n].of /\ q.claim = send[n].claim /\ q.left = send[n].left
          /\ q.pc = "taken" /\ q.times = t
      <4> HIDE DEF t
      <4> QED BY <1>2, <3>0 DEF Stages
    <3>2. send' = [send EXCEPT ![n].pc = "taken", ![n].times = @ + 1]
      BY <2>1 DEF take_stashed
    <3>3. send' = [send EXCEPT ![n] = q]
      BY <1>2, <3>2, Parts
    <3>4. stash' = [stash EXCEPT ![send[n].of] = None]
      BY <2>1 DEF take_stashed
    <3> HIDE DEF q
    <3> QED BY <2>1, <3>1, <3>3, <3>4
  <2>2. CASE stash[send[n].of] # n
    <3> DEFINE p == IF send[n].pc = "shown" THEN "over" ELSE send[n].pc
               q == [send[n] EXCEPT !.pc = p, !.again = TRUE]
    <3>0. p \in Stages
      BY <1>1 DEF Stages
    <3>1. /\ q \in Plans /\ q.of = send[n].of /\ q.claim = send[n].claim /\ q.left = send[n].left
          /\ q.pc = p /\ q.times = send[n].times
      <4> HIDE DEF p
      <4> QED BY <1>2, <3>0
    <3>2. send' = [send EXCEPT ![n].pc = IF @ = "shown" THEN "over" ELSE @, ![n].again = TRUE]
      BY <2>2 DEF take_stashed
    <3>3. send' = [send EXCEPT ![n] = q]
      BY <1>2, <3>2, Parts
    <3>4. stash' = stash
      BY <2>2 DEF take_stashed
    <3> HIDE DEF q
    <3> QED BY <2>2, <3>1, <3>3, <3>4
  <2> QED BY <2>1, <2>2
<1>4. send' \in [Nonces -> Plans] /\ send'[n] = r /\ \A m \in Nonces \ {n} : send'[m] = send[m]
  BY <1>3, PlanUpdate
<1>5. stash' \in [Stashes -> Nonces \cup {None}] /\ \A t \in Stashes : stash'[t] \in {None, stash[t]}
  BY <1>2, <1>3, Parts
<1>6. TokensNameOnce'
  <2> SUFFICES ASSUME NEW m \in Nonces
               PROVE  /\ m >= nonce => send'[m].pc = "none"
                      /\ \A t \in Stashes : stash'[t] = m => send'[m].pc \in {"stashed", "shown"} /\ send'[m].of = t
                      /\ send'[m].pc # "none" => send'[m].of \in Stashes
                      /\ send'[m].pc \in {"none", "stashed", "shown"} => send'[m].times = 0
                      /\ send'[m].times <= 1
                      /\ send'[m].pc \in {"none", "stashed", "shown", "taken"} => send'[m].claim = None
    BY <1>1 DEF TokensNameOnce
  <2>1. CASE m # n
    BY <1>4, <1>5, <2>1, Parts DEF TokensNameOnce
  <2>2. CASE m = n
    <3>1. /\ ~(n >= nonce) /\ \A t \in Stashes : stash[t] = n => send[n].pc = "shown" /\ send[n].of = t
          /\ send[n].pc = "shown" => send[n].times = 0 /\ send[n].claim = None
          /\ send[n].times <= 1
      BY <1>1, Parts DEF TokensNameOnce
    <3>2. \A t \in Stashes : stash'[t] # n
      BY <1>2, <1>3, <1>5, <3>1, Parts
    <3>3. r.times <= 1
      BY <1>2, <1>3, <3>1
    <3> QED BY <1>1, <1>2, <1>3, <1>4, <2>2, <3>1, <3>2, <3>3
  <2> QED BY <2>1, <2>2
<1>7. \A m \in Nonces : /\ send'[m].claim = send[m].claim
                        /\ Holds(m)' => Holds(m) /\ send'[m].left = send[m].left
                        /\ send[m].pc \notin {"none", "stashed"} => send'[m].pc \notin {"none", "stashed"}
  BY <1>1, <1>3, <1>4 DEF Holds
<1>8. IdsCounted'
  BY <1>1, <1>7, CountFrame
<1>9. OneHolder'
  BY <1>1, <1>7, HoldersFrame
<1>10. CommitHoldsSocket'
  BY <1>1, <1>7, Parts DEF CommitHoldsSocket, Holds
<1>11. ReadsUnreleased' /\ SlipsRunOut'
  BY <1>1, Parts DEF ReadsUnreleased, SlipsRunOut
<1>12. TypeOK'
  BY <1>1, <1>4, <1>5, Parts DEF IInv, TypeOK
<1> QED BY <1>6, <1>8, <1>9, <1>10, <1>11, <1>12 DEF IInv

\* The vector after a claim is taken again with a hold of its own: it runs, and
\* every other one is as it was.
LEMMA RenewedFacts ==
  ASSUME IInv, NEW id \in Ids, live' = Renewed(live, id, AcceptanceHold)
  PROVE  /\ live' \subseteq [id : Ids, left : 0..Longest]
         /\ \A c \in live' : c.id = id \/ c \in live
         /\ \A c \in live : c.id # id => c \in live'
         /\ \E c \in live' : c.id = id /\ c.left = AcceptanceHold
         /\ \A c \in live : c.left > 0 => \E d \in live' : d.id = c.id /\ d.left > 0
<1> DEFINE new == [id |-> id, left |-> AcceptanceHold]
<1>1. new \in [id : Ids, left : 0..Longest] /\ new.id = id /\ new.left = AcceptanceHold /\ new.left > 0
  BY LongestFacts
<1>2. live' = {c \in live : c.id # id} \cup {new}
  BY DEF Renewed
<1> HIDE DEF new
<1>3. new \in live' /\ \A c \in live : c.id # id => c \in live'
  BY <1>2
<1> QED BY <1>1, <1>2, <1>3, Parts

\* claim_socket_for_commit: the review's claim becomes the commit's.
LEMMA CommitStep == ASSUME IInv, NEW n \in Nonces, review_into_commit(n) PROVE IInv'
<1> DEFINE id == IF review = None THEN nextId ELSE review
           r == [send[n] EXCEPT !.pc = "going", !.claim = id, !.left = AcceptanceHold]
<1>1. /\ send[n].pc = "taken" /\ live' = Renewed(live, id, AcceptanceHold)
      /\ nextId' = IF review = None THEN nextId + 1 ELSE nextId
      /\ send' = [send EXCEPT ![n] = r]
      /\ review' = None /\ UNCHANGED <<nonce, stash, walk, history>>
  BY DEF review_into_commit
<1>2. /\ send[n] \in Plans /\ n \notin Committed /\ n \in Reviewed
      /\ \A t \in Stashes : stash[t] # n
      /\ ~(n >= nonce) /\ send[n].of \in Stashes /\ send[n].times <= 1
  BY <1>1, Parts DEF TokensNameOnce, Committed, Reviewed
<1>3. /\ id \in Ids => /\ r \in Plans /\ r.of = send[n].of /\ r.times = send[n].times
                       /\ r.pc = "going" /\ r.claim = id /\ r.left = AcceptanceHold
      /\ DOMAIN r = DOMAIN send[n] /\ r.pc = "going" /\ r.claim = id
  <2>1. AcceptanceHold \in Nat
    BY LongestFacts
  <2> HIDE DEF id
  <2> QED BY <1>2, <2>1 DEF Stages
<1>4. /\ Reviewed' = Reviewed /\ (id # None => Committed' = Committed \cup {n})
  <2>1. send'[n] = r /\ \A m \in Nonces \ {n} : send'[m] = send[m]
    BY <1>1, Parts
  <2> HIDE DEF r, id
  <2> QED BY <1>2, <1>3, <2>1 DEF Reviewed, Committed
<1>5. /\ IdsCounted' /\ id \in Ids /\ nextId' \in Ids \cup {2 * MaxSends + 1}
      /\ nextId' \in Nat /\ nextId' >= nextId /\ id < nextId'
      /\ id \notin history.released /\ \A m \in Nonces : Holds(m) => send[m].claim # id
  <2>1. CASE review = None
    <3>1. nextId \in Nat /\ nextId # None /\ id = nextId /\ nextId' = nextId + 1
      BY <1>1, <2>1, Parts, SendDeskAssumption
    <3>2. IdsCounted' /\ nextId \in Ids /\ nextId' \in Ids \cup {2 * MaxSends + 1}
      <4> HIDE DEF id, r
      <4> QED BY <1>2, <1>4, <3>1, CountUp
    <3>3. nextId \notin history.released
      BY <3>1, Parts DEF OneHolder
    <3>4. \A m \in Nonces : Holds(m) => send[m].claim # nextId
      BY <3>1, Parts DEF OneHolder
    <3>5. nextId' \in Nat /\ nextId' >= nextId /\ nextId < nextId'
      BY <3>1
    <3> HIDE DEF id
    <3> QED BY <3>1, <3>2, <3>3, <3>4, <3>5
  <2>2. CASE review # None
    <3>1. id = review /\ nextId' = nextId
      BY <1>1, <2>2
    <3>2. review \in Ids /\ review < nextId /\ review \notin history.released
      BY <2>2, Parts DEF OneHolder
    <3>3. \A m \in Nonces : Holds(m) => send[m].claim # review
      BY Parts DEF OneHolder
    <3>4. IdsCounted'
      <4>1. \A m \in Nonces : send[m].claim # None => send'[m].claim # None
        BY <1>2, <1>4, <3>1, <2>2 DEF Committed
      <4>2. \A m \in Nonces : send[m].pc \notin {"none", "stashed"} => send'[m].pc \notin {"none", "stashed"}
        BY <1>4 DEF Reviewed
      <4> QED BY <3>1, <4>1, <4>2, CountFrame
    <3>5. nextId \in Nat /\ nextId \in Ids \cup {2 * MaxSends + 1}
      BY Parts DEF IInv, TypeOK
    <3> QED BY <3>1, <3>2, <3>3, <3>4, <3>5
  <2> QED BY <2>1, <2>2
<1> HIDE DEF id, r
<1>6. send' \in [Nonces -> Plans] /\ send'[n] = r /\ \A m \in Nonces \ {n} : send'[m] = send[m]
  BY <1>1, <1>3, <1>5, PlanUpdate
<1>7. /\ live' \subseteq [id : Ids, left : 0..Longest]
      /\ \A c \in live' : c.id = id \/ c \in live
      /\ \A c \in live : c.id # id => c \in live'
      /\ \E c \in live' : c.id = id /\ c.left = AcceptanceHold
      /\ \A c \in live : c.left > 0 => \E d \in live' : d.id = c.id /\ d.left > 0
  BY <1>1, <1>5, RenewedFacts
<1>8. TokensNameOnce'
  <2> SUFFICES ASSUME NEW m \in Nonces
               PROVE  /\ m >= nonce => send'[m].pc = "none"
                      /\ \A t \in Stashes : stash[t] = m => send'[m].pc \in {"stashed", "shown"} /\ send'[m].of = t
                      /\ send'[m].pc # "none" => send'[m].of \in Stashes
                      /\ send'[m].pc \in {"none", "stashed", "shown"} => send'[m].times = 0
                      /\ send'[m].times <= 1
                      /\ send'[m].pc \in {"none", "stashed", "shown", "taken"} => send'[m].claim = None
    BY <1>1 DEF TokensNameOnce
  <2>1. CASE m = n
    BY <1>2, <1>3, <1>5, <1>6, <2>1
  <2>2. CASE m # n
    BY <1>6, <2>2, Parts DEF TokensNameOnce
  <2> QED BY <2>1, <2>2
<1>9. \A m \in Nonces \ {n} : Holds(m)' => Holds(m) /\ send'[m] = send[m] /\ send[m].claim # id
  BY <1>5, <1>6 DEF Holds
<1>10. OneHolder'
  <2>1. \A k \in history'.released : k < nextId'
    <3>1. \A k \in history.released : k \in Nat /\ k < nextId
      BY Parts DEF OneHolder
    <3>2. nextId \in Nat
      BY Parts
    <3> QED BY <1>1, <1>5, <3>1, <3>2
  <2>2. \A c \in live' : c.id < nextId' /\ c.id \notin history'.released
    <3>1. \A c \in live : c.id \in Nat /\ c.id < nextId /\ c.id \notin history.released
      BY Parts DEF OneHolder
    <3>2. nextId \in Nat
      BY Parts
    <3> QED BY <1>1, <1>5, <1>7, <3>1, <3>2
  <2>3. ASSUME NEW m \in Nonces, Holds(m)'
        PROVE  /\ send'[m].claim # None /\ send'[m].claim < nextId'
               /\ send'[m].claim \notin history'.released /\ send'[m].claim # review'
               /\ \A k \in Nonces \ {m} : Holds(k)' => send'[k].claim # send'[m].claim
    <3>1. id # None /\ id \notin history'.released /\ send'[n].claim = id
      BY <1>1, <1>3, <1>5, <1>6, Parts
    <3>2. CASE m = n
      BY <1>1, <1>5, <1>9, <3>1, <3>2
    <3>3. CASE m # n
      <4>1. Holds(m) /\ send'[m] = send[m] /\ send[m].claim # id
        BY <1>9, <2>3, <3>3
      <4>2. /\ send[m].claim # None /\ send[m].claim < nextId /\ send[m].claim \notin history.released
            /\ \A k \in Nonces \ {m} : Holds(k) => send[k].claim # send[m].claim
        BY <4>1, Parts DEF OneHolder
      <4>3. send[m].claim \in Nat /\ nextId \in Nat
        BY <4>2, Parts
      <4>4. send[m].claim < nextId'
        BY <1>5, <4>2, <4>3
      <4> QED BY <1>1, <1>9, <3>1, <4>1, <4>2, <4>4
    <3> QED BY <3>2, <3>3
  <2> QED BY <1>1, <2>1, <2>2, <2>3 DEF OneHolder
<1>11. CommitHoldsSocket'
  <2> SUFFICES ASSUME NEW m \in Nonces, send'[m].pc \in {"going", "sent"}, send'[m].left > 0
               PROVE  \E c \in live' : c.id = send'[m].claim /\ c.left >= send'[m].left
    BY DEF CommitHoldsSocket
  <2>1. CASE m = n
    BY <1>3, <1>5, <1>6, <1>7, <2>1, LongestFacts
  <2>2. CASE m # n
    <3>1. Holds(m) /\ send'[m] = send[m] /\ send[m].claim # id
      BY <1>9, <2>2 DEF Holds
    <3>2. PICK c \in live : c.id = send[m].claim /\ c.left >= send[m].left
      BY <3>1, Parts DEF CommitHoldsSocket, Holds
    <3> QED BY <1>7, <3>1, <3>2
  <2> QED BY <2>1, <2>2
<1>12. ReadsUnreleased'
  BY <1>1, <1>5, ReadsFrame
<1>13. SlipsRunOut'
  BY <1>1, <1>7, SlipsFrame
<1>14. TypeOK'
  BY <1>1, <1>5, <1>6, <1>7, Parts DEF TypeOK, Longest
<1> QED BY <1>5, <1>8, <1>10, <1>11, <1>12, <1>13, <1>14 DEF IInv

\* release_socket_at_acceptance renews the commit's claim until the acceptance.
LEMMA BroadcastStep == ASSUME IInv, NEW n \in Nonces, Broadcast(n) PROVE IInv'
<1> DEFINE id == send[n].claim
           r == [send[n] EXCEPT !.pc = "sent", !.left = AcceptanceHold]
<1>1. /\ send[n].pc = "going" /\ live' = Renewed(live, id, AcceptanceHold)
      /\ send' = [send EXCEPT ![n] = r]
      /\ UNCHANGED <<nonce, stash, review, nextId, walk, history>>
  BY DEF Broadcast
<1>2. /\ send[n] \in Plans /\ id \in Ids
      /\ \A t \in Stashes : stash[t] # n
      /\ ~(n >= nonce) /\ send[n].of \in Stashes /\ send[n].times <= 1
  BY <1>1, Parts DEF TokensNameOnce, OneHolder, Holds
<1>3. /\ r \in Plans /\ r.of = send[n].of /\ r.times = send[n].times
      /\ r.pc = "sent" /\ r.claim = id /\ r.left = AcceptanceHold
  <2>1. AcceptanceHold \in Nat
    BY LongestFacts
  <2> QED BY <1>2, <2>1 DEF Stages
<1>4. \A m \in Nonces : Holds(m) /\ m # n => send[m].claim # id
  BY <1>1, Parts DEF OneHolder, Holds
<1> HIDE DEF r
<1>5. send' \in [Nonces -> Plans] /\ send'[n] = r /\ \A m \in Nonces \ {n} : send'[m] = send[m]
  BY <1>1, <1>3, PlanUpdate
<1>6. \A m \in Nonces : /\ send'[m].claim = send[m].claim /\ (Holds(m)' <=> Holds(m))
                        /\ send[m].pc \notin {"none", "stashed"} => send'[m].pc \notin {"none", "stashed"}
  BY <1>1, <1>3, <1>5 DEF Holds
<1>7. /\ live' \subseteq [id : Ids, left : 0..Longest]
      /\ \A c \in live' : c.id = id \/ c \in live
      /\ \A c \in live : c.id # id => c \in live'
      /\ \E c \in live' : c.id = id /\ c.left = AcceptanceHold
      /\ \A c \in live : c.left > 0 => \E d \in live' : d.id = c.id /\ d.left > 0
  BY <1>1, <1>2, RenewedFacts
<1>8. TokensNameOnce'
  <2> SUFFICES ASSUME NEW m \in Nonces
               PROVE  /\ m >= nonce => send'[m].pc = "none"
                      /\ \A t \in Stashes : stash[t] = m => send'[m].pc \in {"stashed", "shown"} /\ send'[m].of = t
                      /\ send'[m].pc # "none" => send'[m].of \in Stashes
                      /\ send'[m].pc \in {"none", "stashed", "shown"} => send'[m].times = 0
                      /\ send'[m].times <= 1
                      /\ send'[m].pc \in {"none", "stashed", "shown", "taken"} => send'[m].claim = None
    BY <1>1 DEF TokensNameOnce
  <2>1. CASE m = n
    BY <1>2, <1>3, <1>5, <2>1
  <2>2. CASE m # n
    BY <1>5, <2>2, Parts DEF TokensNameOnce
  <2> QED BY <2>1, <2>2
<1>9. IdsCounted'
  BY <1>1, <1>6, CountFrame
<1>10. OneHolder'
  <2>1. \A c \in live' : (\E d \in live : d.id = c.id) \/ (\E m \in Nonces : Holds(m) /\ send[m].claim = c.id)
    BY <1>1, <1>7 DEF Holds
  <2> QED BY <1>1, <1>6, <2>1, HoldersFrame
<1>11. CommitHoldsSocket'
  <2> SUFFICES ASSUME NEW m \in Nonces, send'[m].pc \in {"going", "sent"}, send'[m].left > 0
               PROVE  \E c \in live' : c.id = send'[m].claim /\ c.left >= send'[m].left
    BY DEF CommitHoldsSocket
  <2>1. CASE m = n
    BY <1>3, <1>5, <1>7, <2>1, LongestFacts
  <2>2. CASE m # n
    <3>1. Holds(m) /\ send'[m] = send[m] /\ send[m].claim # id
      BY <1>4, <1>5, <2>2 DEF Holds
    <3>2. PICK c \in live : c.id = send[m].claim /\ c.left >= send[m].left
      BY <3>1, Parts DEF CommitHoldsSocket, Holds
    <3> QED BY <1>7, <3>1, <3>2
  <2> QED BY <2>1, <2>2
<1>12. ReadsUnreleased' /\ SlipsRunOut'
  <2>1. nextId' \in Nat /\ nextId' >= nextId
    BY <1>1, Parts
  <2> QED BY <1>1, <1>7, <2>1, ReadsFrame, SlipsFrame
<1>13. TypeOK'
  BY <1>1, <1>5, <1>7, Parts DEF IInv, TypeOK, Longest
<1> QED BY <1>8, <1>9, <1>10, <1>11, <1>12, <1>13 DEF IInv

\* The commit's claim is given back: not everything went out, the acceptance
\* is seen, or its time is up.
LEMMA GivesBackStep == ASSUME IInv, NEW n \in Nonces, Holds(n), GivesBack(n) PROVE IInv'
<1> DEFINE id == send[n].claim
           r == [send[n] EXCEPT !.pc = "over"]
<1>1. /\ live' = Without(live, id) /\ walk' = Notified /\ history' = Released({id})
      /\ send' = [send EXCEPT ![n] = r] /\ UNCHANGED <<nonce, stash, review, nextId>>
  BY DEF GivesBack
<1>2. /\ send[n] \in Plans /\ id \in Ids /\ id < nextId /\ review # id /\ nextId' \in Nat
      /\ \A t \in Stashes : stash[t] # n
      /\ ~(n >= nonce) /\ send[n].of \in Stashes /\ send[n].times <= 1
  BY <1>1, Parts DEF TokensNameOnce, OneHolder, Holds
<1>3. r \in Plans /\ r.of = send[n].of /\ r.times = send[n].times /\ r.pc = "over" /\ r.claim = id
  BY <1>2 DEF Stages
<1>4. \A m \in Nonces : Holds(m) /\ m # n => send[m].claim # id
  BY Parts DEF OneHolder
<1> HIDE DEF r
<1>5. send' \in [Nonces -> Plans] /\ send'[n] = r /\ \A m \in Nonces \ {n} : send'[m] = send[m]
  BY <1>1, <1>3, PlanUpdate
<1>6. \A m \in Nonces : /\ send'[m].claim = send[m].claim
                        /\ Holds(m)' => Holds(m) /\ send'[m] = send[m] /\ send[m].claim # id
                        /\ send[m].pc \notin {"none", "stashed"} => send'[m].pc \notin {"none", "stashed"}
  BY <1>3, <1>4, <1>5 DEF Holds
<1>7. TokensNameOnce'
  <2> SUFFICES ASSUME NEW m \in Nonces
               PROVE  /\ m >= nonce => send'[m].pc = "none"
                      /\ \A t \in Stashes : stash[t] = m => send'[m].pc \in {"stashed", "shown"} /\ send'[m].of = t
                      /\ send'[m].pc # "none" => send'[m].of \in Stashes
                      /\ send'[m].pc \in {"none", "stashed", "shown"} => send'[m].times = 0
                      /\ send'[m].times <= 1
                      /\ send'[m].pc \in {"none", "stashed", "shown", "taken"} => send'[m].claim = None
    BY <1>1 DEF TokensNameOnce
  <2>1. CASE m = n
    BY <1>2, <1>3, <1>5, <2>1
  <2>2. CASE m # n
    BY <1>5, <2>2, Parts DEF TokensNameOnce
  <2> QED BY <2>1, <2>2
<1>8. IdsCounted'
  BY <1>1, <1>6, CountFrame
<1>9. \A c \in live : c.left > 0 /\ c.id # id => \E d \in live' : d.id = c.id /\ d.left > 0
  BY <1>1 DEF Without
<1>10. /\ walk' \in [Walks -> Walkers]
       /\ history' \in [released : SUBSET Ids, asked : SUBSET (Walks \X Ids)]
       /\ history'.released = history.released \cup {id}
       /\ ReadsUnreleased' /\ SlipsRunOut'
  BY <1>1, <1>2, <1>9, ReleaseWalks
<1>11. OneHolder' /\ CommitHoldsSocket'
  BY <1>1, <1>2, <1>6, <1>10, ReleaseHolders
<1>12. TypeOK'
  BY <1>1, <1>2, <1>5, <1>10, Parts, LiveTypes DEF IInv, TypeOK, Longest
<1> QED BY <1>7, <1>8, <1>10, <1>11, <1>12 DEF IInv

\* The parts that speak of no walk, when a walk only moves.
LEMMA WalkOnly ==
  ASSUME IInv, UNCHANGED <<nonce, stash, review, nextId, live, send>>,
         history'.released = history.released
  PROVE  TokensNameOnce' /\ IdsCounted' /\ OneHolder' /\ CommitHoldsSocket'
<1>1. TokensNameOnce' /\ IdsCounted' /\ CommitHoldsSocket'
  BY Parts DEF TokensNameOnce, IdsCounted, CommitHoldsSocket, Reviewed, Committed
<1>2. OneHolder'
  BY Parts DEF OneHolder, Holds
<1> QED BY <1>1, <1>2

\* One walk's record is replaced.
LEMMA WalkUpdate ==
  ASSUME IInv, NEW w \in Walks, NEW r \in Walkers, walk' = [walk EXCEPT ![w] = r]
  PROVE  /\ walk' \in [Walks -> Walkers] /\ walk'[w] = r
         /\ \A v \in Walks \ {w} : walk'[v] = walk[v]
  BY Parts

\* A walk moves to where it neither waits for a claim nor has its turn, or from
\* the read to its sleep.
LEMMA WalkMoves ==
  ASSUME IInv, NEW w \in Walks, NEW r \in Walkers, walk' = [walk EXCEPT ![w] = r],
         \/ r.pc \in {"awake", "enabled", "paging"}
         \/ walk[w].pc = "read" /\ r.pc = "asleep" /\ r.woken = walk[w].woken,
         UNCHANGED <<nonce, stash, review, nextId, live, send, history>>
  PROVE  IInv'
<1>1. walk' \in [Walks -> Walkers] /\ walk'[w] = r /\ \A v \in Walks \ {w} : walk'[v] = walk[v]
  BY WalkUpdate
<1>2. ReadsUnreleased'
  <2>1. \A v \in Walks : walk'[v].pc \in {"read", "asleep"} /\ ~walk'[v].woken =>
           walk[v].pc \in {"read", "asleep"} /\ ~walk[v].woken
    BY <1>1
  <2>2. nextId' \in Nat /\ nextId' >= nextId
    BY Parts
  <2> QED BY <2>1, <2>2, ReadsFrame
<1>3. SlipsRunOut'
  <2>1. \A v \in Walks : walk'[v].pc = "turn" => walk[v].pc = "turn"
    BY <1>1
  <2> QED BY <2>1, SlipsFrame
<1>4. TypeOK'
  BY <1>1, Parts DEF IInv, TypeOK
<1> QED BY <1>2, <1>3, <1>4, WalkOnly DEF IInv

\* wait_turn's read of the claims, which drops those that ran out.
LEMMA ReadStep == ASSUME IInv, NEW w \in Walks, ReadClaims(w) PROVE IInv'
<1>1. /\ walk[w].pc = "enabled" /\ live' = Unexpired(live)
      /\ walk' = [walk EXCEPT ![w] =
           IF Until(live) = None THEN [walk[w] EXCEPT !.pc = "turn"]
           ELSE [walk[w] EXCEPT !.pc = "read", !.left = Until(live)]]
      /\ UNCHANGED <<nonce, stash, review, nextId, send, history>>
  BY DEF ReadClaims
<1>2. PICK r \in Walkers :
        /\ walk' = [walk EXCEPT ![w] = r]
        /\ \/ Unexpired(live) = {} /\ r.pc = "turn"
           \/ Unexpired(live) # {} /\ r.pc = "read"
  <2>1. walk[w] \in Walkers
    BY Parts
  <2>2. CASE Unexpired(live) = {}
    <3>1. walk' = [walk EXCEPT ![w] = [walk[w] EXCEPT !.pc = "turn"]]
      BY <1>1, <2>2, UntilFacts
    <3>2. [walk[w] EXCEPT !.pc = "turn"] \in Walkers /\ [walk[w] EXCEPT !.pc = "turn"].pc = "turn"
      BY <2>1 DEF Turns
    <3> QED BY <2>2, <3>1, <3>2
  <2>3. CASE Unexpired(live) # {}
    <3> DEFINE q == [walk[w] EXCEPT !.pc = "read", !.left = Until(live)]
    <3>1. walk' = [walk EXCEPT ![w] = q] /\ Until(live) \in Nat
      BY <1>1, <2>3, UntilFacts
    <3>2. q \in Walkers /\ q.pc = "read"
      BY <2>1, <3>1 DEF Turns
    <3> HIDE DEF q
    <3> QED BY <2>3, <3>1, <3>2
  <2> QED BY <2>2, <2>3
<1>3. walk' \in [Walks -> Walkers] /\ walk'[w] = r /\ \A v \in Walks \ {w} : walk'[v] = walk[v]
  BY <1>2, WalkUpdate
<1>4. \A c \in live' : c \in live /\ c.left > 0
  BY <1>1 DEF Unexpired
<1>5. TokensNameOnce' /\ IdsCounted'
  BY <1>1, TokensFrame, CountFrame
<1>6. OneHolder'
  <2>1. \A n \in Nonces : Holds(n)' => Holds(n) /\ send'[n].claim = send[n].claim
    BY <1>1 DEF Holds
  <2> QED BY <1>1, <1>4, <2>1, HoldersFrame
<1>7. CommitHoldsSocket'
  <2> SUFFICES ASSUME NEW m \in Nonces, send[m].pc \in {"going", "sent"}, send[m].left > 0
               PROVE  \E c \in live' : c.id = send[m].claim /\ c.left >= send[m].left
    BY <1>1 DEF CommitHoldsSocket
  <2>1. PICK c \in live : c.id = send[m].claim /\ c.left >= send[m].left
    BY Parts DEF CommitHoldsSocket
  <2>2. c.left \in Nat /\ send[m].left \in Nat
    BY Parts, LongestFacts
  <2>3. c.left > 0
    BY <2>1, <2>2
  <2> QED BY <1>1, <2>1, <2>3 DEF Unexpired
<1>8. ReadsUnreleased'
  <2> SUFFICES ASSUME NEW v \in Walks, walk'[v].pc \in {"read", "asleep"}, ~walk'[v].woken
               PROVE  \E id \in 1..(nextId - 1) : id \notin history.released
    BY <1>1 DEF ReadsUnreleased
  <2>1. CASE v # w
    BY <1>3, <2>1, Parts DEF ReadsUnreleased
  <2>2. CASE v = w
    <3>1. PICK c \in live : c.left > 0
      BY <1>2, <1>3, <2>2 DEF Unexpired
    <3>2. c.id \in Ids /\ c.id < nextId /\ c.id \notin history.released /\ nextId \in Nat
      BY <3>1, Parts DEF OneHolder
    <3>3. c.id \in 1..(nextId - 1)
      BY <3>2, IdBelow
    <3> QED BY <3>2, <3>3
  <2> QED BY <2>1, <2>2
<1>9. SlipsRunOut'
  <2>1. \A p \in history.asked : p[2] \in history.released \/ \E c \in live' : c.id = p[2] /\ c.left > 0
    BY <1>1, Parts DEF SlipsRunOut, Unexpired
  <2>2. ASSUME NEW v \in Walks, walk'[v].pc = "turn", NEW id \in Ids, <<v, id>> \in history.asked
        PROVE  id \in history.released
    <3>1. CASE v # w
      BY <1>3, <2>2, <3>1, Parts DEF SlipsRunOut
    <3>2. CASE v = w
      <4>1. live' = {}
        BY <1>1, <1>2, <1>3, <2>2, <3>2
      <4>2. <<v, id>>[2] = id
        OBVIOUS
      <4> QED BY <2>1, <2>2, <4>1, <4>2
    <3> QED BY <3>1, <3>2
  <2> QED BY <1>1, <2>1, <2>2 DEF SlipsRunOut
<1>10. TypeOK'
  BY <1>1, <1>3, Parts, LiveTypes DEF IInv, TypeOK, Longest
<1> QED BY <1>5, <1>6, <1>7, <1>8, <1>9, <1>10 DEF IInv

\* The page is asked.
LEMMA AskStep == ASSUME IInv, NEW w \in Walks, Ask(w) PROVE IInv'
<1> DEFINE r == [walk[w] EXCEPT !.pc = "paging"]
           new == {<<w, c.id>> : c \in Unexpired(live)}
<1>1. /\ walk[w].pc = "turn" /\ walk' = [walk EXCEPT ![w] = r]
      /\ history' = [history EXCEPT !.asked = history.asked \cup new]
      /\ UNCHANGED <<nonce, stash, review, nextId, live, send>>
  BY DEF Ask
<1>2. r \in Walkers /\ r.pc = "paging"
  <2>1. walk[w] \in Walkers
    BY Parts
  <2> QED BY <2>1 DEF Turns
<1> HIDE DEF r
<1>3. walk' \in [Walks -> Walkers] /\ walk'[w] = r /\ \A v \in Walks \ {w} : walk'[v] = walk[v]
  BY <1>1, <1>2, WalkUpdate
<1>4. /\ new \in SUBSET (Walks \X Ids)
      /\ \A p \in new : p[1] = w /\ \E c \in live : c.id = p[2] /\ c.left > 0
  BY Parts DEF Unexpired
<1> HIDE DEF new
<1>5. /\ history' \in [released : SUBSET Ids, asked : SUBSET (Walks \X Ids)]
      /\ history'.released = history.released /\ history'.asked = history.asked \cup new
  BY <1>1, <1>4, Parts
<1>6. ReadsUnreleased'
  <2>1. \A v \in Walks : walk'[v].pc \in {"read", "asleep"} /\ ~walk'[v].woken =>
           walk[v].pc \in {"read", "asleep"} /\ ~walk[v].woken
    BY <1>2, <1>3
  <2>2. nextId' \in Nat /\ nextId' >= nextId
    BY <1>1, Parts
  <2> QED BY <1>5, <2>1, <2>2, ReadsFrame
<1>7. SlipsRunOut'
  <2>1. \A p \in history'.asked : p[2] \in history'.released \/ \E c \in live' : c.id = p[2] /\ c.left > 0
    BY <1>1, <1>4, <1>5, Parts DEF SlipsRunOut
  <2>2. ASSUME NEW v \in Walks, walk'[v].pc = "turn", NEW id \in Ids, <<v, id>> \in history'.asked
        PROVE  id \in history'.released
    <3>1. v # w /\ walk[v].pc = "turn"
      BY <1>2, <1>3, <2>2
    <3>2. <<v, id>> \in history.asked
      <4>1. <<v, id>>[1] = v
        OBVIOUS
      <4> QED BY <1>4, <1>5, <2>2, <3>1, <4>1
    <3> QED BY <1>5, <3>1, <3>2, Parts DEF SlipsRunOut
  <2> QED BY <2>1, <2>2 DEF SlipsRunOut
<1>8. TypeOK'
  BY <1>1, <1>3, <1>5, Parts DEF IInv, TypeOK
<1> QED BY <1>1, <1>5, <1>6, <1>7, <1>8, WalkOnly DEF IInv

Down(x) == IF x = 0 THEN 0 ELSE x - 1

\* A timer that a tick takes down.
LEMMA DownFacts ==
  ASSUME NEW x \in Nat
  PROVE  /\ Down(x) \in Nat /\ Down(x) <= x
         /\ \A y \in Nat : y >= x => Down(y) >= Down(x)
         /\ x > 1 => Down(x) > 0
         /\ Down(x) > 0 => x > 0
  BY DEF Down

\* Time passes.
LEMMA TickStep == ASSUME IInv, Tick PROVE IInv'
<1>1. /\ live' = {[c EXCEPT !.left = Down(c.left)] : c \in live}
      /\ walk' = [w \in Walks |-> [walk[w] EXCEPT !.left = Down(walk[w].left)]]
      /\ send' = [n \in Nonces |-> [send[n] EXCEPT !.left = Down(send[n].left)]]
      /\ history' = [history EXCEPT
           !.asked = {p \in history.asked : \E c \in live : c.id = p[2] /\ c.left > 1}]
      /\ UNCHANGED <<nonce, stash, review, nextId>>
  BY DEF Tick, Down
<1>2. ASSUME NEW n \in Nonces
      PROVE  /\ send'[n] \in Plans /\ send'[n].pc = send[n].pc /\ send'[n].of = send[n].of
             /\ send'[n].claim = send[n].claim /\ send'[n].times = send[n].times
             /\ send'[n].left = Down(send[n].left)
  <2>1. send[n] \in Plans /\ send'[n] = [send[n] EXCEPT !.left = Down(send[n].left)]
    BY <1>1, Parts
  <2>2. Down(send[n].left) \in Nat
    BY <2>1, DownFacts
  <2> QED BY <2>1, <2>2
<1>3. ASSUME NEW w \in Walks
      PROVE  walk'[w] \in Walkers /\ walk'[w].pc = walk[w].pc /\ walk'[w].woken = walk[w].woken
  <2>1. walk[w] \in Walkers /\ walk'[w] = [walk[w] EXCEPT !.left = Down(walk[w].left)]
    BY <1>1, Parts
  <2>2. Down(walk[w].left) \in Nat
    BY <2>1, DownFacts
  <2> QED BY <2>1, <2>2
<1>4. ASSUME NEW c \in live
      PROVE  /\ [c EXCEPT !.left = Down(c.left)] \in [id : Ids, left : 0..Longest]
             /\ [c EXCEPT !.left = Down(c.left)].id = c.id
             /\ [c EXCEPT !.left = Down(c.left)].left = Down(c.left)
             /\ c.left \in Nat
  <2>1. c \in [id : Ids, left : 0..Longest] /\ Longest \in Nat
    BY Parts, LongestFacts
  <2>2. c.left \in Nat /\ c.left <= Longest
    BY <2>1
  <2>3. Down(c.left) \in 0..Longest
    BY <2>1, <2>2, DownFacts
  <2> QED BY <2>1, <2>2, <2>3
<1>5. /\ live' \subseteq [id : Ids, left : 0..Longest]
      /\ \A d \in live' : \E c \in live : d.id = c.id
      /\ \A c \in live : \E d \in live' : d.id = c.id /\ d.left = Down(c.left)
  BY <1>1, <1>4
<1>6. /\ history' \in [released : SUBSET Ids, asked : SUBSET (Walks \X Ids)]
      /\ history'.released = history.released
      /\ history'.asked = {p \in history.asked : \E c \in live : c.id = p[2] /\ c.left > 1}
  BY <1>1, Parts
<1>7. TypeOK'
  <2>1. send' \in [Nonces -> Plans] /\ walk' \in [Walks -> Walkers]
    BY <1>1, <1>2, <1>3
  <2> QED BY <1>1, <1>5, <1>6, <2>1, Parts DEF IInv, TypeOK, Longest
<1>8. TokensNameOnce'
  BY <1>1, <1>2, TokensFrame
<1>9. IdsCounted'
  BY <1>1, <1>2, CountFrame
<1>10. OneHolder'
  <2>1. \A n \in Nonces : Holds(n)' => Holds(n) /\ send'[n].claim = send[n].claim
    BY <1>2 DEF Holds
  <2> QED BY <1>1, <1>5, <1>6, <2>1, HoldersFrame
<1>11. CommitHoldsSocket'
  <2> SUFFICES ASSUME NEW m \in Nonces, send'[m].pc \in {"going", "sent"}, send'[m].left > 0
               PROVE  \E c \in live' : c.id = send'[m].claim /\ c.left >= send'[m].left
    BY DEF CommitHoldsSocket
  <2>1. send[m].left \in Nat
    BY Parts
  <2>2. send[m].left > 0
    BY <1>2, <2>1, DownFacts
  <2>3. PICK c \in live : c.id = send[m].claim /\ c.left >= send[m].left
    BY <1>2, <2>2, Parts DEF CommitHoldsSocket
  <2>4. Down(c.left) >= Down(send[m].left)
    BY <1>4, <2>1, <2>3, DownFacts
  <2> QED BY <1>2, <1>5, <2>3, <2>4
<1>12. ReadsUnreleased'
  <2>1. nextId' \in Nat /\ nextId' >= nextId
    BY <1>1, Parts
  <2> QED BY <1>3, <1>6, <2>1, ReadsFrame
<1>13. SlipsRunOut'
  <2>1. ASSUME NEW p \in history'.asked PROVE \E d \in live' : d.id = p[2] /\ d.left > 0
    <3>1. PICK c \in live : c.id = p[2] /\ c.left > 1
      BY <1>6
    <3>2. Down(c.left) > 0
      BY <1>4, <3>1, DownFacts
    <3> QED BY <1>5, <3>1, <3>2
  <2>2. ASSUME NEW w \in Walks, walk'[w].pc = "turn", NEW id \in Ids, <<w, id>> \in history'.asked
        PROVE  id \in history'.released
    BY <1>3, <1>6, <2>2, Parts DEF SlipsRunOut
  <2> QED BY <2>1, <2>2 DEF SlipsRunOut
<1> QED BY <1>7, <1>8, <1>9, <1>10, <1>11, <1>12, <1>13 DEF IInv

\* Every step, and a stutter, preserves the invariant.
LEMMA NextHolds == IInv /\ [Next]_vars => IInv'
<1> SUFFICES ASSUME IInv, [Next]_vars PROVE IInv'
  OBVIOUS
<1>1. ASSUME NEW n \in Nonces, take_stashed(n) \/ Sending(n) \/ Accepted(n) \/ TimedOut(n) PROVE IInv'
  <2>1. CASE Partial(n) \/ Accepted(n) \/ TimedOut(n)
    BY <2>1, GivesBackStep DEF Partial, Accepted, TimedOut, Holds
  <2> QED BY <1>1, <2>1, TakeStep, ReviewStep, CommitStep, BroadcastStep DEF Sending
<1>2. ASSUME NEW w \in Walks, Walking(w) PROVE IInv'
  <2>1. walk[w] \in Walkers
    BY Parts
  <2>2. CASE Enable(w)
    <3> DEFINE r == [walk[w] EXCEPT !.pc = "enabled", !.woken = FALSE]
    <3>1. r \in Walkers /\ r.pc = "enabled"
      BY <2>1 DEF Turns
    <3>2. walk' = [walk EXCEPT ![w] = r] /\ UNCHANGED <<nonce, stash, review, nextId, live, send, history>>
      BY <2>2 DEF Enable
    <3> HIDE DEF r
    <3> QED BY <3>1, <3>2, WalkMoves
  <2>3. CASE Wait(w)
    <3> DEFINE r == [walk[w] EXCEPT !.pc = "asleep"]
    <3>1. r \in Walkers /\ r.pc = "asleep" /\ r.woken = walk[w].woken
      BY <2>1 DEF Turns
    <3>2. /\ walk[w].pc = "read" /\ walk' = [walk EXCEPT ![w] = r]
          /\ UNCHANGED <<nonce, stash, review, nextId, live, send, history>>
      BY <2>3 DEF Wait
    <3> HIDE DEF r
    <3> QED BY <3>1, <3>2, WalkMoves
  <2>4. CASE Wake(w) \/ Answered(w)
    <3>1. Awake \in Walkers /\ Awake.pc = "awake"
      BY DEF Turns
    <3>2. walk' = [walk EXCEPT ![w] = Awake] /\ UNCHANGED <<nonce, stash, review, nextId, live, send, history>>
      BY <2>4 DEF Wake, Answered
    <3> QED BY <3>1, <3>2, WalkMoves
  <2> QED BY <1>2, <2>2, <2>3, <2>4, ReadStep, AskStep DEF Walking
<1>3. CASE UNCHANGED vars
  <2>1. TypeOK' /\ ReadsUnreleased' /\ SlipsRunOut'
    BY <1>3, Parts DEF IInv, vars, TypeOK, ReadsUnreleased, SlipsRunOut
  <2> QED BY <1>3, <2>1, WalkOnly DEF IInv, vars
<1> QED BY <1>1, <1>2, <1>3, PrepareStep, AbandonStep, TickStep DEF Next

----------------------------------------------------------------------------
(* Theorems *)

\* The inductive invariant holds throughout, for any plans, walks and holds.
THEOREM DeskInductive == Spec => []IInv
  BY InitHolds, NextHolds, PTL DEF Spec

\* Each plan goes out at most once and only from the stash its token names, and
\* a commit keeps the socket for its whole time, whatever is prepared,
\* reviewed, abandoned and committed beside it.
THEOREM DeskIsConsistent == Spec => []DeskInv
<1>1. IInv => DeskInv
  <2> SUFFICES ASSUME IInv PROVE CommittedOnce
    BY DEF IInv, DeskInv
  <2> SUFFICES ASSUME NEW n \in Nonces
               PROVE  send[n].times <= 1 /\ (send[n].times = 1 => stash[send[n].of] # n)
    BY DEF CommittedOnce
  <2>1. send[n].times = 1 => send[n].of \in Stashes /\ send[n].pc \notin {"stashed", "shown"}
    BY Parts DEF TokensNameOnce
  <2> QED BY <2>1, Parts DEF TokensNameOnce
<1> QED BY <1>1, DeskInductive, PTL

\* A walk sleeps only behind a claim that is not released: a release between
\* wait_turn's read and its wait is never lost.
THEOREM NoReleaseIsLost == Spec => []ReleaseWakes
<1>1. IInv => ReleaseWakes
  BY Parts DEF ReleaseWakes, ReadsUnreleased, Sleeping
<1> QED BY <1>1, DeskInductive, PTL

\* A walk asks for at most one page behind any one claim.
THEOREM AtMostOnePageSlips == Spec => OnePageSlips
<1>1. IInv /\ [Next]_vars =>
        [\A w \in Walks : walk[w].pc = "turn" /\ walk'[w].pc = "paging" =>
           \A c \in Unexpired(live) : <<w, c.id>> \notin history.asked]_vars
  <2> SUFFICES ASSUME IInv, NEW w \in Walks, walk[w].pc = "turn", NEW c \in Unexpired(live)
               PROVE  <<w, c.id>> \notin history.asked
    OBVIOUS
  <2>1. c.id \in Ids /\ c.id \notin history.released
    BY Parts DEF Unexpired, OneHolder
  <2> QED BY <2>1, Parts DEF SlipsRunOut
<1> QED BY <1>1, DeskInductive, PTL DEF Spec, OnePageSlips

=============================================================================
