----------------------------- MODULE WalletLane -----------------------------
(***************************************************************************)
(* One wallet lane: the boundary between the link's ctl and the pinned     *)
(* UtxoProcessor (rust/chain/src/wallet_lane.rs), the fold's part in a     *)
(* reopen, a read's re-arming of pending coins and the lane's replacement  *)
(* (rust/chain/src/wallet_sync.rs).                                        *)
(*                                                                         *)
(* The processor is external, modelled from what the boundary relies on:   *)
(* it reads its ctl before its notifications, takes its notification lock  *)
(* for each frame, and clears its maps when it disconnects.  A frame is a  *)
(* `UtxosChanged`; the other notifications cannot meet its `.expect`.      *)
(***************************************************************************)
EXTENDS Naturals, Sequences, FiniteSets

CONSTANTS
  Submits,     \* legs whose submit is asked for on this lane
  Coins,       \* coins that may be pending in the wallet's context
  MaxSignals,  \* bound: transitions the link's ctl announces
  MaxFrames,   \* bound: frames between the gate and the handler
  MaxEvents    \* bound: events of the processor the relay has not read

ASSUME LaneBounds == MaxSignals \in Nat \ {0} /\ MaxFrames \in Nat /\ MaxEvents \in Nat

\* A submit is not one of the fence's writers.
ASSUME LaneWaiters == Submits \cap {"close", "stop"} = {}

VARIABLES
  told,      \* the ctl's transitions the relay has not followed yet
  signals,   \* how many it announced
  step,      \* the relay's Step; "Ended" once the lane is retired
  epoch,     \* GateState.epoch
  regs,      \* epochs of the listeners registered with node clients
  retired,   \* Gate.retired
  counts,    \* opens, opens_failed, starts_folded, closes_begun
  closing,   \* Lane.closing
  hand,      \* frames admitted, still with their forwarder
  chan,      \* frames in the processor's channel
  proc,      \* where the processor's task is
  conn,      \* UtxoProcessor::is_connected
  ctlq,      \* the lane's ctl: what only the relay signals
  events,    \* the processor's events, as the relay reads them
  foldq,     \* starts the fold has not followed through
  fenceq,    \* the fence's waiters, first come first served
  fence,     \* who holds it: submits (read), "close" or "stop" (write)
  sub,       \* where each submit is
  outgoing,  \* the processor's map of outgoing transactions
  context,   \* coins the context holds pending
  pending,   \* the processor's map of pending coins
  at_close,  \* Lane.pending_at_close
  read,      \* the read that re-arms coins, and the closes it counted
  adrift     \* history: coins filed behind a close's snapshot, before its cleanup

gate == <<epoch, regs, retired>>
processor == <<proc, conn, ctlq, chan>>
coins == <<context, pending, at_close, read, adrift>>
relay == <<told, signals, step, closing, counts>>
locks == <<fenceq, fence>>

vars == <<gate, processor, coins, relay, locks, hand, events, foldq, sub, outgoing>>

Held(state) == {s \in Submits : sub[s] = state}

---------------------------------------------------------------------------
\* What the boundary decides with

is_ready ==
  /\ ~closing /\ conn
  /\ counts.starts_folded + counts.opens_failed >= counts.opens

\* A frame the processor was handed and has not released.
drained == hand = 0 /\ chan = 0 /\ proc \notin {"locking", "handling"}

processor_ended == proc \in {"dead", "stopped"}

\* The notification lock prefers a waiting writer, the handler.
LockFree == proc \notin {"locking", "handling"}
LockRead == Held("out") # {} \/ read.at # "none"

\* A waiter leaves the fence's queue, where it stands once at most.
Without(q, x) ==
  IF \E i \in DOMAIN q : q[i] = x
  THEN LET at == CHOOSE i \in DOMAIN q : q[i] = x
       IN  [i \in 1..(Len(q) - 1) |-> IF i < at THEN q[i] ELSE q[i + 1]]
  ELSE q

---------------------------------------------------------------------------
\* Frames

\* forward(): the epoch is looked at under the lock a sever takes.
Admit(e) ==
  /\ e = epoch /\ ~retired /\ hand + chan < MaxFrames
  /\ hand' = hand + 1
  /\ UNCHANGED <<gate, processor, coins, relay, locks, events, foldq, sub, outgoing>>

Forward ==
  /\ hand > 0 /\ hand' = hand - 1 /\ chan' = chan + 1
  /\ UNCHANGED <<gate, proc, conn, ctlq, coins, relay, locks, events, foldq, sub, outgoing>>

---------------------------------------------------------------------------
\* The relay

\* The link's ctl: a publish, a retirement, a re-announce.
Announce(state) ==
  /\ signals < MaxSignals /\ signals' = signals + 1
  /\ told' = Append(told, state)
  /\ UNCHANGED <<gate, processor, coins, step, closing, counts, locks, hand, events, foldq, sub,
                 outgoing>>

\* Mutant of RelayOpen: a connected processor's acknowledgement is awaited.
RelayOpenAwaits ==
  /\ step = "Idle" /\ told # <<>> /\ Head(told) = "Connected"
  /\ told' = Tail(told) /\ closing' = FALSE
  /\ ctlq' = Append(ctlq, "Connected")
  /\ step' = "AwaitingOpen"
  /\ counts' = [counts EXCEPT !.opens = @ + 1]
  /\ UNCHANGED <<gate, proc, conn, chan, coins, signals, locks, hand, events, foldq, sub, outgoing>>

\* open()
RelayOpen ==
  /\ step = "Idle" /\ told # <<>> /\ Head(told) = "Connected"
  /\ told' = Tail(told) /\ closing' = FALSE
  /\ ctlq' = Append(ctlq, "Connected")
  /\ \/ conn /\ UNCHANGED <<step, counts>>
     \/ ~conn /\ step' = "AwaitingOpen" /\ counts' = [counts EXCEPT !.opens = @ + 1]
  /\ UNCHANGED <<gate, proc, conn, chan, coins, signals, locks, hand, events, foldq, sub, outgoing>>

\* close_begin(): sever, and queue for the fence from a task of its own.
RelayCloseBegin ==
  /\ step = "Idle" /\ told # <<>> /\ Head(told) = "Disconnected"
  /\ told' = Tail(told) /\ closing' = TRUE
  /\ counts' = [counts EXCEPT !.closes_begun = @ + 1]
  /\ epoch' = epoch + 1
  /\ step' = "Draining"
  /\ UNCHANGED <<regs, retired, processor, coins, signals, locks, hand, events, foldq, sub, outgoing>>

\* Mutants of RelayDeliver: no drain; no fence.
RelayDeliverUndrained ==
  /\ step = "Draining" /\ "close" \in fence
  /\ at_close' = at_close \cup pending
  /\ ctlq' = Append(ctlq, "Disconnected")
  /\ step' = IF conn THEN "AwaitingStop" ELSE "Idle"
  /\ fence' = IF conn THEN fence ELSE fence \ {"close"}
  /\ UNCHANGED <<gate, proc, conn, chan, context, pending, read, told, signals, closing, counts,
                 fenceq, hand, events, foldq, sub, outgoing, adrift>>

RelayDeliverUnfenced ==
  /\ step = "Draining" /\ (drained \/ processor_ended)
  /\ at_close' = at_close \cup pending
  /\ ctlq' = Append(ctlq, "Disconnected")
  /\ step' = IF conn THEN "AwaitingStop" ELSE "Idle"
  /\ fence' = IF conn THEN fence ELSE fence \ {"close"}
  /\ UNCHANGED <<gate, proc, conn, chan, context, pending, read, told, signals, closing, counts,
                 fenceq, hand, events, foldq, sub, outgoing, adrift>>

\* close_deliver(), once drained and with the fence held.
RelayDeliver ==
  /\ step = "Draining" /\ (drained \/ processor_ended) /\ "close" \in fence
  /\ at_close' = at_close \cup pending
  /\ ctlq' = Append(ctlq, "Disconnected")
  /\ step' = IF conn THEN "AwaitingStop" ELSE "Idle"
  /\ fence' = IF conn THEN fence ELSE fence \ {"close"}
  /\ UNCHANGED <<gate, proc, conn, chan, context, pending, read, told, signals, closing, counts,
                 fenceq, hand, events, foldq, sub, outgoing, adrift>>

\* An event of the processor, an acknowledgement or not.
RelayHears ==
  LET e == Head(events)
      acknowledged == \/ step = "AwaitingOpen" /\ e \in {"start", "error"}
                      \/ step = "AwaitingStop" /\ e = "stop"
  IN  /\ step # "Ended" /\ events # <<>>
      /\ events' = Tail(events)
      /\ step' = IF acknowledged THEN "Idle" ELSE step
      /\ counts' = IF acknowledged /\ e = "error"
                   THEN [counts EXCEPT !.opens_failed = @ + 1] ELSE counts
      /\ fence' = IF acknowledged /\ e = "stop" THEN fence \ {"close"} ELSE fence
      /\ UNCHANGED <<gate, processor, coins, told, signals, closing, fenceq, hand, foldq, sub,
                     outgoing>>

---------------------------------------------------------------------------
\* The fence: tokio's RwLock, fair

Writers == {"close", "stop"}

\* queue_for_fence()'s task, some time after the close began.  A claim it makes
\* only after a retirement is dropped when granted and is left out.
CloseClaims ==
  /\ step = "Draining" /\ "close" \notin fence
  /\ ~ \E i \in DOMAIN fenceq : fenceq[i] = "close"
  /\ fenceq' = Append(fenceq, "close")
  /\ UNCHANGED <<gate, processor, coins, relay, fence, hand, events, foldq, sub, outgoing>>

\* The first waiter gets its guard; an ended relay drops its own at once.
WriterGranted ==
  /\ fenceq # <<>> /\ Head(fenceq) \in Writers /\ fence = {}
  /\ fenceq' = Tail(fenceq)
  /\ fence' = IF Head(fenceq) = "close" /\ step = "Ended" THEN {} ELSE {Head(fenceq)}
  /\ UNCHANGED <<gate, processor, coins, relay, hand, events, foldq, sub, outgoing>>

---------------------------------------------------------------------------
\* A submit

Unsent == <<gate, processor, coins, relay, hand, events, foldq, outgoing>>

\* admit_submit()
Asks(s) ==
  /\ sub[s] = "idle"
  /\ sub' = [sub EXCEPT ![s] = "asking"]
  /\ UNCHANGED <<Unsent, locks>>

Queues(s) ==
  /\ sub[s] = "asking" /\ ~retired /\ is_ready
  /\ sub' = [sub EXCEPT ![s] = "queued"]
  /\ fenceq' = Append(fenceq, s)
  /\ UNCHANGED <<Unsent, fence>>

\* The read guard, and the second look.
ReaderGranted(s) ==
  /\ sub[s] = "queued" /\ Head(fenceq) = s /\ fence \cap Writers = {}
  /\ fenceq' = Tail(fenceq)
  /\ \/ ~retired /\ is_ready /\ sub' = [sub EXCEPT ![s] = "waiting"] /\ fence' = fence \cup {s}
     \/ ~retired /\ ~is_ready /\ sub' = [sub EXCEPT ![s] = "asking"] /\ UNCHANGED fence
     \/ retired /\ sub' = [sub EXCEPT ![s] = "idle"] /\ UNCHANGED fence
  /\ UNCHANGED Unsent

\* The notification lock was free, and the third look.
Admitted(s) ==
  /\ sub[s] = "waiting" /\ LockFree
  /\ \/ is_ready /\ sub' = [sub EXCEPT ![s] = "admitted"] /\ UNCHANGED fence
     \/ ~is_ready /\ sub' = [sub EXCEPT ![s] = "asking"] /\ fence' = fence \ {s}
  /\ UNCHANGED <<Unsent, fenceq>>

\* Retired, or not ready in time: nothing has left.
NotAdmitted(s) ==
  /\ sub[s] \in {"asking", "queued", "waiting"}
  /\ sub' = [sub EXCEPT ![s] = "idle"]
  /\ fenceq' = Without(fenceq, s) /\ fence' = fence \ {s}
  /\ UNCHANGED Unsent

\* The pinned try_submit: locked and registered, then sent.
Registers(s) ==
  /\ sub[s] = "admitted" /\ LockFree
  /\ sub' = [sub EXCEPT ![s] = "out"]
  /\ outgoing' = outgoing \cup {s}
  /\ UNCHANGED <<gate, processor, coins, relay, locks, hand, events, foldq>>

\* It reads its record back and returns.
Returns(s) ==
  /\ sub[s] = "out"
  /\ sub' = [sub EXCEPT ![s] = "idle"]
  /\ outgoing' = outgoing \ {s} /\ fence' = fence \ {s}
  /\ UNCHANGED <<gate, processor, coins, relay, fenceq, hand, events, foldq>>

---------------------------------------------------------------------------
\* The processor

\* handle_disconnect: cleanup() empties its maps.
Disconnect == conn' = FALSE /\ outgoing' = {} /\ pending' = {}

TakesCtl ==
  /\ proc = "loop" /\ ctlq # <<>> /\ ctlq' = Tail(ctlq)
  /\ \/ /\ Head(ctlq) = "Connected" /\ ~conn
        /\ proc' = "opening" /\ UNCHANGED <<conn, outgoing, pending, events>>
     \/ /\ Head(ctlq) = "Disconnected" /\ conn
        /\ Disconnect /\ events' = Append(events, "stop") /\ UNCHANGED proc
     \/ /\ Head(ctlq) = "Connected" <=> conn
        /\ UNCHANGED <<proc, conn, outgoing, pending, events>>
  /\ UNCHANGED <<gate, chan, context, at_close, read, relay, locks, hand, foldq, sub, adrift>>

\* The negotiation: the bit first, then the listener, then the start.
Negotiates ==
  /\ proc = "opening" /\ proc' = "opened" /\ conn' = TRUE
  /\ UNCHANGED <<gate, ctlq, chan, coins, relay, locks, hand, events, foldq, sub, outgoing>>

NegotiationFails ==
  /\ proc = "opening" /\ proc' = "loop" /\ events' = Append(events, "error")
  /\ UNCHANGED <<gate, conn, ctlq, chan, coins, relay, locks, hand, foldq, sub, outgoing>>

\* register_new_listener(), stamped with the epoch of now.
Starts ==
  /\ proc = "opened" /\ proc' = "loop"
  /\ regs' = IF retired THEN regs ELSE regs \cup {epoch}
  /\ events' = Append(events, "start") /\ foldq' = foldq + 1
  /\ UNCHANGED <<epoch, retired, conn, ctlq, chan, coins, relay, locks, hand, sub, outgoing>>

TakesFrame ==
  /\ proc = "loop" /\ ctlq = <<>> /\ chan > 0
  /\ chan' = chan - 1 /\ proc' = "locking"
  /\ UNCHANGED <<gate, conn, ctlq, coins, relay, locks, hand, events, foldq, sub, outgoing>>

\* The write side; on a disconnected processor the `.expect` ends the task.
LocksFrame ==
  /\ proc = "locking" /\ ~LockRead
  /\ proc' = IF conn THEN "handling" ELSE "dead"
  /\ UNCHANGED <<gate, conn, ctlq, chan, coins, relay, locks, hand, events, foldq, sub, outgoing>>

\* The frame may bring a coin, and its handling may end in an error.
Handles(C, fails) ==
  /\ proc = "handling" /\ proc' = "loop"
  /\ context' = context \cup C /\ pending' = pending \cup (C \ context)
  /\ fails => Len(events) < MaxEvents
  /\ events' = IF fails THEN Append(events, "error") ELSE events
  /\ UNCHANGED <<gate, conn, ctlq, chan, at_close, read, relay, locks, hand, foldq, sub, outgoing, adrift>>

\* A tick promotes what the processor's own map holds.
Matures(c) ==
  /\ proc = "loop" /\ ctlq = <<>> /\ conn /\ c \in pending /\ ~LockRead
  /\ pending' = pending \ {c} /\ context' = context \ {c}
  /\ UNCHANGED <<gate, processor, at_close, read, relay, locks, hand, events, foldq, sub, outgoing, adrift>>

\* A panic of its own, anywhere in its task: the bit stays as it was.
Dies ==
  /\ proc \notin {"dead", "stopped"} /\ proc' = "dead"
  /\ UNCHANGED <<gate, conn, ctlq, chan, coins, relay, locks, hand, events, foldq, sub, outgoing>>

---------------------------------------------------------------------------
\* The fold and the reads

\* A start followed through; a retired lane's is not.
Folds ==
  /\ foldq > 0 /\ foldq' = foldq - 1
  /\ counts' = IF retired THEN counts ELSE [counts EXCEPT !.starts_folded = @ + 1]
  /\ UNCHANGED <<gate, processor, coins, told, signals, step, closing, locks, hand, events, sub,
                 outgoing>>

\* rearm_pending(), under the notification lock: closes counted, then the look.
ReadBegins ==
  /\ read.at = "none" /\ LockFree /\ ~retired /\ ~closing /\ at_close # {}
  /\ read' = [at |-> "counted", closes |-> counts.closes_begun, done |-> {}]
  /\ UNCHANGED <<gate, processor, context, pending, at_close, relay, locks, hand, events, foldq,
                 sub, outgoing, adrift>>

\* One coin: handed back to the processor's map, or already there or mature.
\* Coinbase coins, and coins the node no longer lists, are not among Coins.
ReadRearms(c) ==
  /\ read.at = "counted" /\ c \in at_close \ read.done
  /\ pending' = IF c \in context THEN pending \cup {c} ELSE pending
  /\ read' = [read EXCEPT !.done = @ \cup {c}]
  /\ UNCHANGED <<gate, processor, context, at_close, relay, locks, hand, events, foldq, sub,
                 outgoing, adrift>>

\* Mutant of ReadSettles: whatever began since.
ReadSettlesAlways ==
  /\ read.at = "counted"
  /\ at_close' = at_close \ read.done
  /\ read' = [at |-> "none", closes |-> 0, done |-> {}]
  /\ UNCHANGED <<gate, processor, context, pending, relay, locks, hand, events, foldq, sub, outgoing, adrift>>

\* pending_settled_unless_closed()
ReadSettles ==
  /\ read.at = "counted"
  /\ at_close' = IF counts.closes_begun = read.closes THEN at_close \ read.done ELSE at_close
  /\ read' = [at |-> "none", closes |-> 0, done |-> {}]
  /\ UNCHANGED <<gate, processor, context, pending, relay, locks, hand, events, foldq, sub, outgoing, adrift>>

\* extend_from_scan, after the lock: a coin the context does not hold yet.
ReadFiles(c) ==
  /\ ~retired /\ c \notin context
  /\ context' = context \cup {c} /\ pending' = pending \cup {c}
  /\ adrift' = IF conn /\ "Disconnected" \in {ctlq[i] : i \in DOMAIN ctlq} THEN adrift \cup {c} ELSE adrift
  /\ UNCHANGED <<gate, processor, at_close, read, relay, locks, hand, events, foldq, sub, outgoing>>

---------------------------------------------------------------------------
\* The lane's replacement

\* retire() from a rebuild or a stop: the gate shuts, the relay is aborted,
\* and the pinned stop() queues for the fence.
Retire ==
  /\ ~retired /\ retired' = TRUE
  /\ step' = "Ended" /\ fence' = fence \ {"close"}
  /\ fenceq' = Append(fenceq, "stop")
  /\ UNCHANGED <<epoch, regs, processor, coins, told, signals, closing, counts, hand, events, foldq,
                 sub, outgoing>>

\* stop_processor(): its task hands out what it holds, then disconnects.
StopProcessor ==
  /\ "stop" \in fence /\ proc \in {"loop", "dead"}
  /\ fence' = {}
  /\ \/ /\ proc = "loop" /\ proc' = "stopped" /\ chan' = 0
        /\ IF conn THEN Disconnect ELSE UNCHANGED <<conn, outgoing, pending>>
     \/ /\ proc = "dead" /\ UNCHANGED <<proc, chan, conn, outgoing, pending>>
  /\ UNCHANGED <<gate, ctlq, context, at_close, read, relay, fenceq, hand, events, foldq, sub, adrift>>

---------------------------------------------------------------------------

Init ==
  /\ told \in {<<>>, <<"Connected">>} /\ signals = Len(told)
  /\ step = "Idle" /\ closing = FALSE
  /\ counts = [opens |-> 0, opens_failed |-> 0, starts_folded |-> 0, closes_begun |-> 0]
  /\ epoch = 1 /\ regs = {} /\ retired = FALSE
  /\ hand = 0 /\ chan = 0 /\ proc = "loop" /\ conn = FALSE /\ ctlq = <<>>
  /\ events = <<>> /\ foldq = 0
  /\ fenceq = <<>> /\ fence = {}
  /\ sub = [s \in Submits |-> "idle"] /\ outgoing = {}
  /\ context = {} /\ pending = {} /\ at_close = {}
  /\ read = [at |-> "none", closes |-> 0, done |-> {}] /\ adrift = {}

Relaying == RelayOpen \/ RelayCloseBegin \/ RelayDeliver \/ RelayHears \/ CloseClaims \/ WriterGranted

Submitting(s) ==
  Asks(s) \/ Queues(s) \/ ReaderGranted(s) \/ Admitted(s) \/ NotAdmitted(s) \/ Registers(s) \/ Returns(s)

Processing ==
  \/ TakesCtl \/ Negotiates \/ NegotiationFails \/ Starts \/ TakesFrame \/ LocksFrame
  \/ \E C \in SUBSET Coins, fails \in BOOLEAN : Handles(C, fails)

Next ==
  \/ \E e \in regs : Admit(e)
  \/ Forward
  \/ \E state \in {"Connected", "Disconnected"} : Announce(state)
  \/ Relaying
  \/ \E s \in Submits : Submitting(s)
  \/ Processing \/ Dies \/ Folds
  \/ ReadBegins \/ ReadSettles
  \/ \E c \in Coins : ReadRearms(c) \/ ReadFiles(c) \/ Matures(c)
  \/ Retire \/ StopProcessor

Spec == Init /\ [][Next]_vars

\* Every task of the runtime that can run does: the relay and the tasks it
\* spawns, the forwarders, the processor, the fold, a read under way.  A submit
\* and a negotiation are answered, or fail with their socket.
FairSpec ==
  /\ Spec
  /\ WF_vars(Relaying) /\ WF_vars(Forward) /\ WF_vars(Processing) /\ WF_vars(Folds)
  /\ WF_vars(\E c \in Coins : ReadRearms(c)) /\ WF_vars(ReadSettles) /\ WF_vars(StopProcessor)
  /\ \A s \in Submits :
       WF_vars(ReaderGranted(s)) /\ WF_vars(Admitted(s)) /\ WF_vars(Registers(s)) /\ WF_vars(Returns(s))

---------------------------------------------------------------------------
\* Properties

\* Every variable keeps its shape; no listener is stamped with an epoch to come.
TypeOK ==
  /\ told \in Seq({"Connected", "Disconnected"}) /\ signals \in 0..MaxSignals
  /\ step \in {"Idle", "AwaitingOpen", "Draining", "AwaitingStop", "Ended"}
  /\ closing \in BOOLEAN /\ retired \in BOOLEAN /\ conn \in BOOLEAN
  /\ counts \in [opens : Nat, opens_failed : Nat, starts_folded : Nat, closes_begun : Nat]
  /\ epoch \in Nat /\ regs \subseteq 1..epoch
  /\ hand \in 0..MaxFrames /\ chan \in 0..MaxFrames
  /\ proc \in {"loop", "opening", "opened", "locking", "handling", "dead", "stopped"}
  /\ ctlq \in Seq({"Connected", "Disconnected"})
  /\ events \in Seq({"start", "error", "stop"}) /\ foldq \in Nat
  /\ fenceq \in Seq(Submits \cup Writers) /\ fence \subseteq Submits \cup Writers
  /\ sub \in [Submits -> {"idle", "asking", "queued", "waiting", "admitted", "out"}]
  /\ outgoing \subseteq Submits
  /\ context \subseteq Coins /\ pending \subseteq Coins /\ at_close \subseteq Coins /\ adrift \subseteq Coins
  /\ read \in [at : {"none", "counted"}, closes : Nat, done : SUBSET Coins]

\* The rule the boundary is for: no `UtxosChanged` is with a living processor,
\* in its channel or on its way there, while the processor reads disconnected,
\* so its handler's `.expect` is never met.
FramesMeetAConnection == ~drained /\ ~processor_ended => conn

\* A close, a stop or a replacement never clears the outgoing map between a
\* submit's registration and its reading the record back.
SubmitsReadBack == \A s \in Submits : sub[s] = "out" => s \in outgoing

\* A submit registers only after the fold has followed the latest start
\* through: its sends handed back, its subscription armed, its read done.
SubmitsFollowTheReopen ==
  Held("out") # {} => foldq = 0 /\ proc \notin {"opening", "opened"}

\* A coin the context holds pending is in the processor's map, from which
\* alone it matures, or on the list the next read re-arms from, through
\* closes that race reads, but for one filed behind a close's snapshot.
\* (A replaced lane's context goes with it.)
PendingCoinsKept == ~retired => context \subseteq pending \cup at_close \cup adrift

\* Each transition the relay begins ends: acknowledged, or the lane replaced, or
\* its processor dead, which the supervisor's structural witness reports.  Drain,
\* fence and notification lock never wait on each other in a ring.
TransitionsEnd ==
  step \in {"AwaitingOpen", "Draining", "AwaitingStop"} ~> step \in {"Idle", "Ended"} \/ proc = "dead"

\* The processor of a rebuilt lane is stopped, or dead already: the stop waits
\* for the submits in flight, and nothing the relay held keeps it waiting.
ReplacedIsStopped == retired ~> processor_ended

\* The lane's consistency in every state: its types, and each submit in flight
\* registered after the reopen and still there to be read back.
LaneInv == TypeOK /\ SubmitsReadBack /\ SubmitsFollowTheReopen

\* Neither a transition nor a retirement waits for ever on the relay's drain,
\* the fence or the notification lock.
LaneComesToRest == TransitionsEnd /\ ReplacedIsStopped

===========================================================================
