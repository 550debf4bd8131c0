------------------------------ MODULE SendDesk ------------------------------
(***************************************************************************)
(* A send from its review to its acceptance, as the bridge holds it: the   *)
(* two one-plan stashes and the nonce that guards them (bridge/api/send.rs,*)
(* bridge/api/transport.rs), the claim each send has on the one socket     *)
(* (chain/foreground.rs, bridge/api/dag.rs), and the catch-up walks that   *)
(* wait for their turn behind the claims.                                  *)
(*                                                                         *)
(* A claim is [id, left] in the vector `live`: its deadline is kept as the *)
(* time left to it, as is every timer's. A claim whose time is up stays in *)
(* the vector until somebody reads it.                                     *)
(***************************************************************************)
EXTENDS Naturals, FiniteSets, FiniteSetsExt

CONSTANTS
  Walks,            \* the catch-up walks: the tracker's and the message walk's
  Stashes,          \* PENDING_SEND and PENDING_TRANSPORT
  None,
  ReviewHold,       \* REVIEW_HOLD (20 s)
  AcceptanceHold,   \* ACCEPTANCE_HOLD (15 s)
  MaxSends          \* bound: plans prepared

ASSUME SendDeskAssumption ==
  /\ {ReviewHold, AcceptanceHold} \subseteq Nat \ {0}
  /\ MaxSends \in Nat /\ None \notin Nat

VARIABLES
  nonce,      \* NONCE: the next token
  stash,      \* stash[s]: the token of the plan it holds, or None
  review,     \* REVIEW_CLAIM: a claim's id, or None
  nextId,     \* Claims::next_id
  live,       \* Claims::live
  send,       \* send[n]: how far the plan of token n has come
  walk,       \* walk[w]: where the walk is in wait_turn or its page
  history     \* no code: releases made, and pages asked behind a claim

vars == <<nonce, stash, review, nextId, live, send, walk, history>>
desk == <<nonce, stash>>
claims == <<review, nextId, live>>

Nonces == 1..MaxSends
Ids == 1..(2 * MaxSends)

----------------------------------------------------------------------------
(* Foreground *)

\* Mutant: a claim is dropped only by its release.
AllHeld(cs) == cs

\* Claims::until, which drops what has run out.
Unexpired(cs) == {c \in cs : c.left > 0}
Until(cs) == IF Unexpired(cs) = {} THEN None
             ELSE Max({c.left : c \in Unexpired(cs)})

Renewed(cs, id, hold) ==
  {c \in cs : c.id # id} \cup {[id |-> id, left |-> hold]}

Without(cs, id) == {c \in cs : c.id # id}

\* Mutant: the Notified is enabled by the wait, after the claims are read.
NotifiedAsleep == [w \in Walks |-> IF walk[w].pc = "asleep"
                                   THEN [walk[w] EXCEPT !.woken = TRUE] ELSE walk[w]]

\* notify_waiters: every walk that has enabled its Notified.
Notified == [w \in Walks |-> IF walk[w].pc \in {"enabled", "read", "asleep"}
                             THEN [walk[w] EXCEPT !.woken = TRUE] ELSE walk[w]]

Released(ids) == [history EXCEPT !.released = @ \cup ids]

----------------------------------------------------------------------------
(* The review and the commit of one send. *)

\* send_prepare, sweep_prepare, consolidate_prepare, transport_prepare_*: the
\* built plan is stashed under a fresh token.
Prepare(s) ==
  /\ nonce \in Nonces
  /\ \A n \in Nonces : send[n].pc # "stashed"      \* a screen awaits its prepare
  /\ stash' = [stash EXCEPT ![s] = nonce]
  /\ send' = [send EXCEPT ![nonce] = [@ EXCEPT !.pc = "stashed", !.of = s]]
  /\ nonce' = nonce + 1
  /\ UNCHANGED <<claims, walk, history>>

\* review_claim: the claim of the review before is released.
review_claim(n) ==
  /\ send[n].pc = "stashed"
  /\ nextId' = nextId + 1
  /\ LET taken == live \cup {[id |-> nextId, left |-> ReviewHold]}
     IN IF review = None
        THEN live' = taken /\ UNCHANGED <<walk, history>>
        ELSE /\ live' = Without(taken, review)
             /\ walk' = Notified /\ history' = Released({review})
  /\ review' = nextId
  /\ send' = [send EXCEPT ![n].pc = "shown"]
  /\ UNCHANGED <<desk>>

\* send_abandon, transport_abandon; the slot is one for both stashes.
Abandon(s) ==
  /\ stash[s] # None \/ review # None
  /\ stash' = [stash EXCEPT ![s] = None]
  /\ review' = None
  /\ IF review = None
     THEN UNCHANGED <<live, walk, history>>
     ELSE /\ live' = Without(live, review)
          /\ walk' = Notified /\ history' = Released({review})
  /\ UNCHANGED <<nonce, nextId, send>>

\* send_commit, transport_commit: take_stashed refuses another plan's token
\* and leaves the plan where it is.
take_stashed(n) ==
  /\ send[n].pc = "shown" \/ (send[n].pc = "going" /\ ~send[n].again)
  /\ LET s == send[n].of IN
       IF stash[s] = n
       THEN /\ stash' = [stash EXCEPT ![s] = None]
            /\ send' = [send EXCEPT ![n].pc = "taken", ![n].times = @ + 1]
       ELSE /\ send' = [send EXCEPT ![n].pc = IF @ = "shown" THEN "over" ELSE @,
                                    ![n].again = TRUE]
            /\ UNCHANGED stash
  /\ UNCHANGED <<nonce, claims, walk, history>>

\* Mutant: the commit renews the review's claim and leaves it in the slot.
CommitLeavesReview(n) ==
  /\ send[n].pc = "taken"
  /\ LET id == IF review = None THEN nextId ELSE review IN
       /\ live' = Renewed(live, id, AcceptanceHold)
       /\ nextId' = IF review = None THEN nextId + 1 ELSE nextId
       /\ send' = [send EXCEPT ![n] = [@ EXCEPT !.pc = "going", !.claim = id,
                                       !.left = AcceptanceHold]]
  /\ UNCHANGED <<desk, review, walk, history>>

\* claim_socket_for_commit, once the tracker is resolved: the review's claim
\* becomes the commit's, or a new one is taken.
review_into_commit(n) ==
  /\ send[n].pc = "taken"
  /\ LET id == IF review = None THEN nextId ELSE review IN
       /\ live' = Renewed(live, id, AcceptanceHold)
       /\ nextId' = IF review = None THEN nextId + 1 ELSE nextId
       /\ send' = [send EXCEPT ![n] = [@ EXCEPT !.pc = "going", !.claim = id,
                                       !.left = AcceptanceHold]]
  /\ review' = None
  /\ UNCHANGED <<desk, walk, history>>

\* release_socket_at_acceptance: everything went out and a tracker watches ...
Broadcast(n) ==
  /\ send[n].pc = "going"
  /\ live' = Renewed(live, send[n].claim, AcceptanceHold)
  /\ send' = [send EXCEPT ![n] = [@ EXCEPT !.pc = "sent", !.left = AcceptanceHold]]
  /\ UNCHANGED <<desk, review, nextId, walk, history>>

GivesBack(n) ==
  /\ live' = Without(live, send[n].claim)
  /\ walk' = Notified /\ history' = Released({send[n].claim})
  /\ send' = [send EXCEPT ![n].pc = "over"]
  /\ UNCHANGED <<desk, review, nextId>>

\* ... or it did not.
Partial(n) == send[n].pc = "going" /\ GivesBack(n)

\* release_at_acceptance: the acceptance is seen, or its time is up.
Accepted(n) == send[n].pc = "sent" /\ GivesBack(n)
TimedOut(n) == send[n].pc = "sent" /\ send[n].left = 0 /\ GivesBack(n)

----------------------------------------------------------------------------
(* wait_turn, and the page behind it. *)

Awake == [pc |-> "awake", woken |-> FALSE, left |-> 0]

\* The Notified is made and enabled before the claims are read.
Enable(w) ==
  /\ walk[w].pc = "awake"
  /\ walk' = [walk EXCEPT ![w] = [@ EXCEPT !.pc = "enabled", !.woken = FALSE]]
  /\ UNCHANGED <<desk, claims, send, history>>

ReadClaims(w) ==
  /\ walk[w].pc = "enabled"
  /\ live' = Unexpired(live)
  /\ walk' = [walk EXCEPT ![w] =
       IF Until(live) = None THEN [@ EXCEPT !.pc = "turn"]
       ELSE [@ EXCEPT !.pc = "read", !.left = Until(live)]]
  /\ UNCHANGED <<desk, review, nextId, send, history>>

\* The select begins: a release may have landed since the read.
Wait(w) ==
  /\ walk[w].pc = "read"
  /\ walk' = [walk EXCEPT ![w].pc = "asleep"]
  /\ UNCHANGED <<desk, claims, send, history>>

\* Mutant: a walk that is woken does not look at the claims again.
WakeToTurn(w) ==
  /\ walk[w].pc = "asleep" /\ (walk[w].woken \/ walk[w].left = 0)
  /\ walk' = [walk EXCEPT ![w] = [Awake EXCEPT !.pc = "turn"]]
  /\ UNCHANGED <<desk, claims, send, history>>

Wake(w) ==
  /\ walk[w].pc = "asleep" /\ (walk[w].woken \/ walk[w].left = 0)
  /\ walk' = [walk EXCEPT ![w] = Awake]
  /\ UNCHANGED <<desk, claims, send, history>>

\* The page is asked. One that is in flight cannot be recalled.
Ask(w) ==
  /\ walk[w].pc = "turn"
  /\ walk' = [walk EXCEPT ![w] = [@ EXCEPT !.pc = "paging"]]
  /\ history' = [history EXCEPT !.asked = @ \cup {<<w, c.id>> : c \in Unexpired(live)}]
  /\ UNCHANGED <<desk, claims, send>>

Answered(w) ==
  /\ walk[w].pc = "paging"
  /\ walk' = [walk EXCEPT ![w] = Awake]
  /\ UNCHANGED <<desk, claims, send, history>>

\* Time passes for every claim and every timer.
Tick ==
  /\ live' = {[c EXCEPT !.left = IF @ = 0 THEN 0 ELSE @ - 1] : c \in live}
  /\ walk' = [w \in Walks |-> [walk[w] EXCEPT !.left = IF @ = 0 THEN 0 ELSE @ - 1]]
  /\ send' = [n \in Nonces |-> [send[n] EXCEPT !.left = IF @ = 0 THEN 0 ELSE @ - 1]]
  /\ history' = [history EXCEPT
       !.asked = {p \in @ : \E c \in live : c.id = p[2] /\ c.left > 1}]
  /\ UNCHANGED <<desk, review, nextId>>

----------------------------------------------------------------------------
Init ==
  /\ nonce = 1 /\ stash = [s \in Stashes |-> None]
  /\ review = None /\ nextId = 1 /\ live = {}
  /\ send = [n \in Nonces |-> [pc |-> "none", of |-> None, claim |-> None,
                               left |-> 0, times |-> 0, again |-> FALSE]]
  /\ walk = [w \in Walks |-> Awake]
  /\ history = [released |-> {}, asked |-> {}]

Walking(w) == Enable(w) \/ ReadClaims(w) \/ Wait(w) \/ Wake(w) \/ Ask(w) \/ Answered(w)
Sending(n) == review_claim(n) \/ review_into_commit(n) \/ Broadcast(n) \/ Partial(n)

Next ==
  \/ \E s \in Stashes : Prepare(s) \/ Abandon(s)
  \/ \E n \in Nonces : take_stashed(n) \/ Sending(n) \/ Accepted(n) \/ TimedOut(n)
  \/ \E w \in Walks : Walking(w)
  \/ Tick

Spec == Init /\ [][Next]_vars

\* The runtime runs every task that can run, a submit ends (answered, refused
\* or out of time), and time passes. Nobody has to confirm or abandon.
FairSpec ==
  /\ Spec /\ WF_vars(Tick)
  /\ \A w \in Walks : WF_vars(Walking(w))
  /\ \A n \in Nonces : WF_vars(Sending(n)) /\ WF_vars(TimedOut(n))

----------------------------------------------------------------------------
(* Properties *)

Stages == {"none", "stashed", "shown", "taken", "going", "sent", "over"}
Turns  == {"awake", "enabled", "read", "asleep", "turn", "paging"}
Plans   == [pc : Stages, of : Stashes \cup {None}, claim : Ids \cup {None},
            left : Nat, times : Nat, again : BOOLEAN]
Walkers == [pc : Turns, woken : BOOLEAN, left : Nat]

\* The types of the desk, the claims and the walks.
TypeOK ==
  /\ nonce \in 1..(MaxSends + 1) /\ nextId \in Ids \cup {2 * MaxSends + 1}
  /\ stash \in [Stashes -> Nonces \cup {None}] /\ review \in Ids \cup {None}
  /\ live \subseteq [id : Ids, left : 0..Max({ReviewHold, AcceptanceHold})]
  /\ send \in [Nonces -> Plans]
  /\ walk \in [Walks -> Walkers]
  /\ history \in [released : SUBSET Ids, asked : SUBSET (Walks \X Ids)]

Sleeping(w) == walk[w].pc = "asleep" /\ ~walk[w].woken /\ walk[w].left > 0

\* A walk sleeps only behind a send that still holds its claim: a release that
\* lands between wait_turn's read of the claims and its wait still wakes it.
ReleaseWakes ==
  \A w \in Walks : Sleeping(w) => \E id \in 1..(nextId - 1) : id \notin history.released

\* Behind a claim a walk asks for at most the one page it had already been
\* given its turn for, however the claims change hands.
OnePageSlips ==
  [][\A w \in Walks : walk[w].pc = "turn" /\ walk'[w].pc = "paging" =>
       \A c \in Unexpired(live) : <<w, c.id>> \notin history.asked]_vars

\* A send that is going out, or waiting for its acceptance, holds the socket
\* for its whole time: no other review, abandon or commit gives it back.
CommitHoldsSocket ==
  \A n \in Nonces : send[n].pc \in {"going", "sent"} /\ send[n].left > 0 =>
    \E c \in live : c.id = send[n].claim /\ c.left >= send[n].left

\* A plan goes out at most once, and only from the stash its token names.
CommittedOnce ==
  \A n \in Nonces : send[n].times <= 1 /\ (send[n].times = 1 => stash[send[n].of] # n)

\* The desk's consistency in every state: its types, each plan committed once,
\* and its commit's hold on the socket.
DeskInv == TypeOK /\ CommittedOnce /\ CommitHoldsSocket

\* No review, no lost answer and no missed acceptance keeps a walk from its
\* next page for good.
WalksGoOn == \A w \in Walks : walk[w].pc = "asleep" ~> walk[w].pc = "paging"

=============================================================================
