-------------------------- MODULE ChainWatchProofs --------------------------
(***************************************************************************)
(* The two components that watch the chain on the node's word.             *)
(*                                                                         *)
(* The wallet lane (WalletLane.tla), for any number of submits, coins,     *)
(* transitions and frames: no frame is with a living processor that reads  *)
(* disconnected, a submit registers after the reopen was followed through  *)
(* and reads its record back, and no pending coin is lost between a close  *)
(* and a read.                                                             *)
(*                                                                         *)
(* The acceptance tracker (Acceptance.tla), for any tree of blocks whose   *)
(* changes stay shallow, any messages and any number of faults: the log    *)
(* and the index stay in step, and with nothing left to fold the records   *)
(* and the cursor agree with the chain.                                    *)
(***************************************************************************)
EXTENDS WalletLane, Acceptance, FiniteSetTheorems, SequenceTheorems, WellFoundedInduction, TLAPS

All(q, x) == \A i \in 1..Len(q) : q[i] = x
EndsWith(q, x, y) == q # <<>> /\ q[Len(q)] = y /\ \A i \in 1..(Len(q) - 1) : q[i] = x
Alive == proc \notin {"dead", "stopped"}
Severed == epoch \notin regs

\* The processor's resting places, as an idle or a draining relay finds them.
OpenLane == conn /\ proc \in {"loop", "locking", "handling"} /\ All(ctlq, "Connected")
ShutLane == ~conn /\ proc = "loop" /\ drained /\ Severed /\ All(ctlq, "Disconnected")

\* An open the relay waits for: asked, negotiated, started or failed.
OpenAsked ==
  ~conn /\ proc = "loop" /\ drained /\ Severed /\ events = <<>>
  /\ EndsWith(ctlq, "Disconnected", "Connected")
OpenUnderWay ==
  /\ \/ proc = "opening" /\ ~conn
     \/ proc = "opened" /\ conn
  /\ drained /\ Severed /\ events = <<>> /\ ctlq = <<>>
OpenStarted == conn /\ proc \in {"loop", "locking", "handling"} /\ events # <<>> /\ ctlq = <<>>
OpenFailed == ~conn /\ proc = "loop" /\ drained /\ Severed /\ events # <<>> /\ ctlq = <<>>

\* A close the relay waits for: delivered, or taken.
CloseDelivered ==
  conn /\ proc = "loop" /\ drained /\ Severed /\ EndsWith(ctlq, "Connected", "Disconnected")
CloseTaken == ~conn /\ proc = "loop" /\ drained /\ Severed /\ ctlq = <<>>

\* A living processor is where the relay's step says.
InStep ==
  Alive => /\ step \in {"Idle", "Draining"} => OpenLane \/ ShutLane
           /\ step = "AwaitingOpen" => OpenAsked \/ OpenUnderWay \/ OpenStarted \/ OpenFailed
           /\ step = "AwaitingStop" => CloseDelivered \/ CloseTaken

\* What the relay has not read: only the answer it waits for, and errors of the
\* handler that a start precedes and a stop follows.
Unread ==
  /\ step \in {"Idle", "Draining"} => IF conn THEN All(events, "error") ELSE events = <<>>
  /\ step = "AwaitingOpen" /\ events # <<>> =>
       IF conn THEN events[1] = "start" /\ \A i \in 2..Len(events) : events[i] = "error"
               ELSE events[1] = "error" /\ Len(events) = 1
  /\ step = "AwaitingStop" => IF conn THEN All(events, "error") ELSE EndsWith(events, "error", "stop")

\* What a relay has signalled and the processor has not taken, also once the
\* relay is gone: a close comes after it all or before it all.
CtlOrder ==
  Alive =>
    /\ conn => \A i \in 1..(Len(ctlq) - 1) : ctlq[i] = "Connected"
    /\ ~conn => \A i, j \in 1..Len(ctlq) : i <= j /\ ctlq[i] = "Connected" => ctlq[j] = "Connected"
    /\ proc \in {"opening", "opened"} => All(ctlq, "Connected")
    /\ proc = "opening" => ~conn
    /\ proc = "opened" => conn

\* A frame is with a connected processor that no close is on its way to.
FramesGuarded == Alive /\ ~drained => conn /\ All(ctlq, "Connected")

\* The relay's own facts: it ends when the lane retires, a close has severed the
\* gate, and one delivered holds the fence.
RelayHolds ==
  /\ (step = "Ended") <=> retired
  /\ step \in {"Draining", "AwaitingStop"} => closing /\ Severed
  /\ step = "AwaitingStop" => "close" \in fence

Holding == {"waiting", "admitted", "out"}

\* The fence: one writer or readers, a submit past its grant among them.
FenceHolds ==
  /\ \A w \in Writers : w \in fence => fence = {w}
  /\ \A s \in Submits : sub[s] \in Holding => s \in fence
  /\ "stop" \in fence => retired
  /\ (\E i \in 1..Len(fenceq) : fenceq[i] = "stop") => retired

\* No close reaches the processor while a submit has the fence.
NoCloseUnderSubmit ==
  \A s \in Submits : sub[s] \in Holding /\ Alive /\ conn => All(ctlq, "Connected")

\* A submit admitted stays on a connection the fold has followed.
AdmittedReady ==
  \A s \in Submits : sub[s] \in {"admitted", "out"} =>
    conn /\ foldq = 0 /\ proc \notin {"opening", "opened"}

\* An open not yet answered, or answered with an error not yet counted.
Owed ==
  \/ step = "AwaitingOpen" /\ (events = <<>> \/ events[1] = "error")
  \/ Alive /\ (proc \in {"opening", "opened"} \/ (~conn /\ \E i \in 1..Len(ctlq) : ctlq[i] = "Connected"))

\* Every open is counted as folded or failed once, or is still to be.
OpensCounted ==
  counts.starts_folded + counts.opens_failed + foldq + (IF Owed THEN 1 ELSE 0) <= counts.opens

\* A read counted the closes before the one now under way.
ReadsCounted ==
  read.at = "counted" =>
    /\ read.closes <= counts.closes_begun
    /\ closing => read.closes < counts.closes_begun

\* What a read no close has overtaken re-armed is in the processor's map.
RearmedIsPending ==
  read.at = "counted" /\ read.closes = counts.closes_begun /\ ~retired =>
    read.done \cap context \subseteq pending \cup adrift

\* While a close is on its way, its snapshot lists what the map will lose.
SnapshotTaken ==
  ~retired /\ Alive /\ conn /\ ~All(ctlq, "Connected") => context \subseteq at_close \cup adrift

FramesFit == hand + chan <= MaxFrames
EpochStarted == epoch # 0

\* The relay and the processor; the fence and the submits; the coins.
RelayPart == FramesFit /\ EpochStarted /\ RelayHolds /\ InStep /\ Unread /\ CtlOrder /\ FramesGuarded
SubmitPart == FenceHolds /\ NoCloseUnderSubmit /\ AdmittedReady /\ SubmitsReadBack
CoinPart == ReadsCounted /\ RearmedIsPending /\ SnapshotTaken /\ PendingCoinsKept

IInv == TypeOK /\ RelayPart /\ SubmitPart /\ OpensCounted /\ CoinPart

---------------------------------------------------------------------------
(***************************************************************************)
(* Queues.                                                                 *)
(***************************************************************************)

\* A signal joins the back of a queue.
LEMMA AppendFacts ==
  ASSUME NEW S, NEW q \in Seq(S), NEW y \in S
  PROVE  /\ Append(q, y) \in Seq(S) /\ Append(q, y) # <<>>
         /\ \A x : All(Append(q, y), x) <=> All(q, x) /\ y = x
         /\ \A x : All(q, x) => EndsWith(Append(q, y), x, y)
         /\ q = <<>> => Append(q, y)[1] = y /\ Len(Append(q, y)) = 1
         /\ q # <<>> => Append(q, y)[1] = q[1]
         /\ Len(Append(q, y)) = Len(q) + 1
         /\ \A i \in 1..Len(q) : Append(q, y)[i] = q[i]
         /\ Append(q, y)[Len(q) + 1] = y
<1>1. /\ Append(q, y) \in Seq(S) /\ Append(q, y) # <<>> /\ Len(Append(q, y)) = Len(q) + 1
      /\ \A i \in 1..Len(q) : Append(q, y)[i] = q[i]
      /\ Append(q, y)[Len(q) + 1] = y
  BY AppendProperties
<1>2. Len(q) \in Nat /\ (q = <<>> <=> Len(q) = 0)
  BY LenProperties, EmptySeq
<1> QED BY <1>1, <1>2 DEF All, EndsWith

\* The first signal leaves it.
LEMMA TailFacts ==
  ASSUME NEW S, NEW q \in Seq(S), q # <<>>
  PROVE  /\ Tail(q) \in Seq(S) /\ Head(q) \in S /\ Head(q) = q[1] /\ Len(q) \in Nat \ {0}
         /\ Len(Tail(q)) = Len(q) - 1
         /\ \A i \in 1..Len(Tail(q)) : Tail(q)[i] = q[i + 1]
         /\ \A x : All(q, x) => Head(q) = x /\ All(Tail(q), x)
         /\ \A x, y : EndsWith(q, x, y) /\ Head(q) # x => Head(q) = y /\ Tail(q) = <<>>
         /\ \A x, y : EndsWith(q, x, y) /\ Head(q) # y => Head(q) = x /\ EndsWith(Tail(q), x, y)
<1>1. /\ Head(q) \in S /\ Tail(q) \in Seq(S) /\ Len(Tail(q)) = Len(q) - 1
      /\ \A i \in 1..Len(Tail(q)) : Tail(q)[i] = q[i + 1]
  BY HeadTailProperties
<1>2. Head(q) = q[1]
  OBVIOUS
<1>3. Len(q) \in Nat \ {0}
  BY LenProperties, EmptySeq
<1>4. Tail(q) = <<>> <=> Len(Tail(q)) = 0
  BY <1>1, EmptySeq
<1>5. \A x : All(q, x) => Head(q) = x /\ All(Tail(q), x)
  BY <1>1, <1>2, <1>3 DEF All
<1>6. \A x, y : EndsWith(q, x, y) /\ Head(q) # x => Head(q) = y /\ Tail(q) = <<>>
  BY <1>1, <1>2, <1>3, <1>4 DEF EndsWith
<1>7. \A x, y : EndsWith(q, x, y) /\ Head(q) # y => Head(q) = x /\ EndsWith(Tail(q), x, y)
  <2> SUFFICES ASSUME NEW x, NEW y, EndsWith(q, x, y), Head(q) # y
               PROVE  Head(q) = x /\ EndsWith(Tail(q), x, y)
    OBVIOUS
  <2>1. Len(q) > 1
    BY <1>2, <1>3 DEF EndsWith
  <2>2. Tail(q)[Len(q) - 1] = q[Len(q)]
    BY <1>1, <1>3, <2>1
  <2> QED BY <1>1, <1>2, <1>3, <1>4, <2>1, <2>2 DEF EndsWith
<1> QED BY <1>1, <1>2, <1>3, <1>5, <1>6, <1>7

\* Leaving the fence's queue keeps the other waiters.
LEMMA WithoutFacts ==
  ASSUME NEW S, NEW q \in Seq(S), NEW x
  PROVE  /\ Without(q, x) \in Seq(S)
         /\ \A i \in 1..Len(Without(q, x)) : \E j \in 1..Len(q) : Without(q, x)[i] = q[j]
<1>1. CASE \E i \in DOMAIN q : q[i] = x
  <2> DEFINE at == CHOOSE i \in DOMAIN q : q[i] = x
             r == [i \in 1..(Len(q) - 1) |-> IF i < at THEN q[i] ELSE q[i + 1]]
  <2>1. Without(q, x) = r
    BY <1>1 DEF Without
  <2>2. at \in 1..Len(q) /\ Len(q) \in Nat /\ \A i \in 1..Len(q) : q[i] \in S
    BY <1>1, LenProperties, ElementOfSeq
  <2> HIDE DEF at
  <2>3. \A i \in 1..(Len(q) - 1) : r[i] \in S /\ \E j \in 1..Len(q) : r[i] = q[j]
    BY <2>2
  <2>4. Len(q) - 1 \in Nat
    BY <2>2
  <2>5. r \in Seq(S) /\ Len(r) = Len(q) - 1
    <3>1. r \in [1..(Len(q) - 1) -> S]
      BY <2>3
    <3> HIDE DEF r
    <3> QED BY <2>4, <3>1, IsASeq, LenProperties
  <2> QED BY <2>1, <2>3, <2>5
<1>2. CASE ~ \E i \in DOMAIN q : q[i] = x
  BY <1>2 DEF Without
<1> QED BY <1>1, <1>2

---------------------------------------------------------------------------
(***************************************************************************)
(* The steps: each lemma names the parts of the invariant its action can   *)
(* disturb, and leaves the others to the frame lemmas.                     *)
(***************************************************************************)

USE DEF gate, processor, coins, relay, locks, Unsent

Signals == {"Connected", "Disconnected"}
Reports == {"start", "error", "stop"}

\* The parts of the invariant, and the types the steps use most.
LEMMA Parts ==
  ASSUME IInv
  PROVE  /\ TypeOK /\ RelayPart /\ SubmitPart /\ OpensCounted /\ CoinPart
         /\ ctlq \in Seq(Signals) /\ events \in Seq(Reports) /\ told \in Seq(Signals)
         /\ fenceq \in Seq(Submits \cup Writers)
         /\ conn \in BOOLEAN /\ closing \in BOOLEAN /\ retired \in BOOLEAN
         /\ counts \in [opens : Nat, opens_failed : Nat, starts_folded : Nat, closes_begun : Nat]
         /\ foldq \in Nat /\ hand \in Nat /\ chan \in Nat /\ epoch \in Nat
         /\ sub \in [Submits -> {"idle", "asking", "queued", "waiting", "admitted", "out"}]
  BY LaneBounds DEF IInv, TypeOK, Signals, Reports

Counts == [opens : Nat, opens_failed : Nat, starts_folded : Nat, closes_begun : Nat]

\* One of the lane's counters goes up.
LEMMA CountUp ==
  ASSUME NEW c \in Counts
  PROVE  /\ c.opens \in Nat /\ c.opens_failed \in Nat /\ c.starts_folded \in Nat /\ c.closes_begun \in Nat
         /\ LET o == [c EXCEPT !.opens = @ + 1]
            IN  /\ o \in Counts /\ o.opens = c.opens + 1 /\ o.opens_failed = c.opens_failed
                /\ o.starts_folded = c.starts_folded /\ o.closes_begun = c.closes_begun
         /\ LET o == [c EXCEPT !.opens_failed = @ + 1]
            IN  /\ o \in Counts /\ o.opens = c.opens /\ o.opens_failed = c.opens_failed + 1
                /\ o.starts_folded = c.starts_folded /\ o.closes_begun = c.closes_begun
         /\ LET o == [c EXCEPT !.starts_folded = @ + 1]
            IN  /\ o \in Counts /\ o.opens = c.opens /\ o.opens_failed = c.opens_failed
                /\ o.starts_folded = c.starts_folded + 1 /\ o.closes_begun = c.closes_begun
         /\ LET o == [c EXCEPT !.closes_begun = @ + 1]
            IN  /\ o \in Counts /\ o.opens = c.opens /\ o.opens_failed = c.opens_failed
                /\ o.starts_folded = c.starts_folded /\ o.closes_begun = c.closes_begun + 1
  BY DEF Counts

\* The numbers of a state.
LEMMA Numbers ==
  ASSUME IInv
  PROVE  /\ counts \in Counts /\ counts.opens \in Nat /\ counts.opens_failed \in Nat
         /\ counts.starts_folded \in Nat /\ counts.closes_begun \in Nat /\ read.closes \in Nat
         /\ foldq \in Nat /\ hand \in Nat /\ chan \in Nat /\ epoch \in Nat /\ regs \subseteq 1..epoch
  BY Parts, CountUp DEF Counts, TypeOK

\* Nothing the relay and the processor agree on has changed.
LEMMA RelayFrame ==
  ASSUME IInv, UNCHANGED <<step, retired, closing, epoch, regs, proc, conn, ctlq, events, hand, chan>>,
         "close" \in fence => "close" \in fence'
  PROVE  RelayPart'
  BY Parts DEF RelayPart, RelayHolds, InStep, Unread, CtlOrder, FramesGuarded, FramesFit, EpochStarted, Alive, Severed, drained,
     OpenLane, ShutLane, OpenAsked, OpenUnderWay, OpenStarted, OpenFailed, CloseDelivered, CloseTaken

\* Nothing of the fence, the submits and what they rely on has changed.
LEMMA SubmitFrame ==
  ASSUME IInv, UNCHANGED <<retired, fenceq, fence, sub, outgoing, foldq, proc, conn, ctlq>>
  PROVE  SubmitPart'
  BY Parts DEF SubmitPart, FenceHolds, NoCloseUnderSubmit, AdmittedReady, SubmitsReadBack, Alive

\* Nothing of the opens' count has changed.
LEMMA OpensFrame ==
  ASSUME IInv, UNCHANGED <<counts, foldq, step, events, proc, conn, ctlq>>
  PROVE  OpensCounted'
  BY Parts DEF OpensCounted, Owed, Alive

\* Nothing of the coins, the closes' count and the processor has changed.
LEMMA CoinFrame ==
  ASSUME IInv, UNCHANGED <<context, pending, at_close, read, adrift, counts, closing, retired, proc, conn, ctlq>>
  PROVE  CoinPart'
  BY Parts DEF CoinPart, ReadsCounted, RearmedIsPending, SnapshotTaken, PendingCoinsKept, Alive

\* While the lane lives, a close is on its way to a connected processor only
\* when the relay waits for its stop.
LEMMA CloseOnItsWay ==
  ASSUME IInv, Alive, conn, ~retired, ~All(ctlq, "Connected")
  PROVE  step = "AwaitingStop" /\ "close" \in fence /\ closing
<1>1. step # "Ended"
  BY Parts DEF RelayPart, RelayHolds
<1>2. All(<<>>, "Connected")
  BY DEF All
<1> QED BY <1>1, <1>2, Parts DEF RelayPart, RelayHolds, InStep, TypeOK, OpenLane, ShutLane, OpenAsked,
      OpenUnderWay, OpenStarted, OpenFailed

\* A frame is admitted under the gate's epoch: the lane is open.
LEMMA AdmitStep ==
  ASSUME IInv, NEW e \in regs, Admit(e)
  PROVE  IInv'
<1>1. /\ e = epoch /\ ~retired /\ hand + chan < MaxFrames /\ hand' = hand + 1
      /\ UNCHANGED <<gate, processor, coins, relay, locks, events, foldq, sub, outgoing>>
  BY DEF Admit
<1>2. TypeOK'
  BY <1>1, LaneBounds, Parts DEF TypeOK
<1>3. Alive => OpenLane \/ OpenStarted
  BY <1>1, Parts DEF RelayPart, RelayHolds, InStep, TypeOK, Severed, ShutLane, OpenAsked, OpenUnderWay,
                     OpenFailed, CloseDelivered, CloseTaken
<1>4. Alive => conn /\ All(ctlq, "Connected")
  BY <1>3 DEF OpenLane, OpenStarted, All
<1>5. RelayPart'
  <2>1. FramesFit' /\ EpochStarted' /\ RelayHolds' /\ Unread' /\ CtlOrder'
    BY <1>1, LaneBounds, Parts DEF RelayPart, FramesFit, EpochStarted, RelayHolds, Unread, CtlOrder, Alive, Severed
  <2>2. InStep'
    BY <1>1, <1>3, Parts DEF RelayPart, RelayHolds, InStep, Alive, Severed, TypeOK, OpenLane, OpenStarted,
         ShutLane, OpenAsked, OpenUnderWay, OpenFailed, CloseDelivered, CloseTaken
  <2>3. FramesGuarded'
    BY <1>1, <1>4 DEF FramesGuarded, Alive
  <2> QED BY <2>1, <2>2, <2>3 DEF RelayPart
<1> QED BY <1>1, <1>2, <1>5, SubmitFrame, OpensFrame, CoinFrame DEF IInv

\* A frame admitted goes on to the channel.
LEMMA ForwardStep ==
  ASSUME IInv, Forward
  PROVE  IInv'
<1>1. /\ hand > 0 /\ hand' = hand - 1 /\ chan' = chan + 1
      /\ UNCHANGED <<gate, proc, conn, ctlq, coins, relay, locks, events, foldq, sub, outgoing>>
  BY DEF Forward
<1>2. hand' \in Nat /\ chan' \in Nat /\ hand' + chan' = hand + chan /\ hand + chan <= MaxFrames
  <2>1. hand \in Nat /\ chan \in Nat /\ hand + chan <= MaxFrames
    BY Parts DEF RelayPart, FramesFit
  <2> QED BY <1>1, <2>1, LaneBounds
<1>3. TypeOK'
  <2>1. hand' \in 0..MaxFrames /\ chan' \in 0..MaxFrames
    BY <1>2, LaneBounds
  <2> QED BY <1>1, <2>1, Parts DEF TypeOK
<1>4. ~drained
  BY <1>1, Parts DEF drained
<1>5. RelayPart'
  <2>1. FramesFit' /\ EpochStarted' /\ RelayHolds' /\ Unread' /\ CtlOrder'
    BY <1>1, <1>2, Parts DEF RelayPart, FramesFit, EpochStarted, RelayHolds, Unread, CtlOrder, Alive, Severed
  <2>2. InStep'
    BY <1>1, <1>4, Parts DEF RelayPart, InStep, Alive, Severed, OpenLane, OpenStarted,
         ShutLane, OpenAsked, OpenUnderWay, OpenFailed, CloseDelivered, CloseTaken
  <2>3. FramesGuarded'
    BY <1>1, <1>4, Parts DEF RelayPart, FramesGuarded, Alive
  <2> QED BY <2>1, <2>2, <2>3 DEF RelayPart
<1> QED BY <1>1, <1>3, <1>5, SubmitFrame, OpensFrame, CoinFrame DEF IInv

\* A transition of the link is announced.
LEMMA AnnounceStep ==
  ASSUME IInv, NEW state \in Signals, Announce(state)
  PROVE  IInv'
<1>1. /\ signals < MaxSignals /\ signals' = signals + 1 /\ told' = Append(told, state)
      /\ UNCHANGED <<gate, processor, coins, step, closing, counts, locks, hand, events, foldq, sub, outgoing>>
  BY DEF Announce
<1>2. told' \in Seq(Signals)
  BY <1>1, Parts, AppendFacts
<1>3. TypeOK'
  <2>1. signals' \in 0..MaxSignals
    BY <1>1, LaneBounds, Parts DEF TypeOK
  <2> QED BY <1>1, <1>2, <2>1, Parts DEF TypeOK, Signals
<1> QED BY <1>1, <1>3, RelayFrame, SubmitFrame, OpensFrame, CoinFrame DEF IInv

\* open(): on a lane already open only the signal is repeated.
LEMMA RelayOpenStep ==
  ASSUME IInv, RelayOpen
  PROVE  IInv'
<1>1. /\ step = "Idle" /\ told # <<>> /\ told' = Tail(told) /\ closing' = FALSE
      /\ ctlq' = Append(ctlq, "Connected")
      /\ UNCHANGED <<gate, proc, conn, chan, coins, signals, locks, hand, events, foldq, sub, outgoing>>
  BY DEF RelayOpen
<1>2. \/ conn /\ UNCHANGED <<step, counts>>
      \/ ~conn /\ step' = "AwaitingOpen" /\ counts' = [counts EXCEPT !.opens = @ + 1]
  BY DEF RelayOpen
<1>3. told' \in Seq(Signals)
  BY <1>1, Parts, TailFacts
<1>4. /\ ctlq' \in Seq(Signals) /\ ctlq' # <<>>
      /\ \A x : All(ctlq', x) <=> All(ctlq, x) /\ x = "Connected"
      /\ \A x : All(ctlq, x) => EndsWith(ctlq', x, "Connected")
      /\ Len(ctlq) \in Nat /\ Len(ctlq') = Len(ctlq) + 1
      /\ \A i \in 1..Len(ctlq) : ctlq'[i] = ctlq[i]
      /\ ctlq'[Len(ctlq) + 1] = "Connected"
  <2>1. ctlq' = Append(ctlq, "Connected") /\ ctlq \in Seq(Signals) /\ "Connected" \in Signals
    BY <1>1, Parts DEF Signals
  <2> QED BY <2>1, AppendFacts, LenProperties
<1>5. /\ counts' \in Counts
      /\ counts'.closes_begun = counts.closes_begun /\ counts'.starts_folded = counts.starts_folded
      /\ counts'.opens_failed = counts.opens_failed
      /\ counts'.opens = IF conn THEN counts.opens ELSE counts.opens + 1
  BY <1>2, Numbers, CountUp
<1>6. TypeOK'
  BY <1>1, <1>2, <1>3, <1>4, <1>5, Parts DEF TypeOK, Signals, Counts
<1>7. Alive => OpenLane \/ ShutLane
  BY <1>1, Parts DEF RelayPart, InStep
<1>8. RelayPart'
  <2>1. FramesFit' /\ EpochStarted' /\ RelayHolds'
    BY <1>1, <1>2, Parts DEF RelayPart, FramesFit, EpochStarted, RelayHolds, Severed
  <2>2. Unread'
    BY <1>1, <1>2, Parts DEF RelayPart, Unread
  <2>3. InStep'
    <3>1. CASE conn
      BY <1>1, <1>2, <1>4, <1>7, <3>1 DEF InStep, Alive, OpenLane, ShutLane
    <3>2. CASE ~conn
      <4>1. events = <<>>
        BY <1>1, <3>2, Parts DEF RelayPart, Unread
      <4> QED BY <1>1, <1>2, <1>4, <1>7, <3>2, <4>1 DEF InStep, Alive, OpenLane, ShutLane, OpenAsked, Severed,
                drained
    <3> QED BY <3>1, <3>2
  <2>4. CtlOrder'
    <3>1. ASSUME Alive, conn
          PROVE  All(ctlq', "Connected") /\ proc \in {"loop", "locking", "handling"}
      BY <1>4, <1>7, <3>1 DEF OpenLane, ShutLane
    <3>2. ASSUME Alive, ~conn
          PROVE  /\ proc = "loop"
                 /\ \A i, j \in 1..Len(ctlq') : i <= j /\ ctlq'[i] = "Connected" => ctlq'[j] = "Connected"
      BY <1>4, <1>7, <3>2 DEF OpenLane, ShutLane, All
    <3> QED BY <1>1, <1>4, <3>1, <3>2 DEF CtlOrder, Alive, All
  <2>5. FramesGuarded'
    BY <1>1, <1>4, Parts DEF RelayPart, FramesGuarded, Alive, drained
  <2> QED BY <2>1, <2>2, <2>3, <2>4, <2>5 DEF RelayPart
<1>9. SubmitPart'
  BY <1>1, <1>4, Parts DEF SubmitPart, FenceHolds, NoCloseUnderSubmit, AdmittedReady, SubmitsReadBack, Alive
<1>10. OpensCounted'
  <2>1. CASE conn
    BY <1>1, <1>2, <1>5, <2>1, Parts DEF OpensCounted, Owed, Alive
  <2>2. CASE ~conn
    <3>1. ~Owed
      BY <1>1, <1>7, <2>2, Parts DEF Owed, OpenLane, ShutLane, All
    <3> QED BY <1>1, <1>5, <2>2, <3>1, Numbers, Parts DEF OpensCounted
  <2> QED BY <2>1, <2>2
<1>11. CoinPart'
  BY <1>1, <1>4, <1>5, Parts DEF CoinPart, ReadsCounted, RearmedIsPending, SnapshotTaken, PendingCoinsKept, Alive
<1> QED BY <1>6, <1>8, <1>9, <1>10, <1>11 DEF IInv

\* close_begin(): no listener has the new epoch.
LEMMA RelayCloseBeginStep ==
  ASSUME IInv, RelayCloseBegin
  PROVE  IInv'
<1>1. /\ step = "Idle" /\ told # <<>> /\ told' = Tail(told) /\ closing' = TRUE
      /\ counts' = [counts EXCEPT !.closes_begun = @ + 1] /\ epoch' = epoch + 1 /\ step' = "Draining"
      /\ UNCHANGED <<regs, retired, processor, coins, signals, locks, hand, events, foldq, sub, outgoing>>
  BY DEF RelayCloseBegin
<1>2. told' \in Seq(Signals)
  BY <1>1, Parts, TailFacts
<1>3. /\ counts' \in Counts
      /\ counts'.closes_begun = counts.closes_begun + 1 /\ counts'.starts_folded = counts.starts_folded
      /\ counts'.opens_failed = counts.opens_failed /\ counts'.opens = counts.opens
      /\ counts.closes_begun \in Nat
  BY <1>1, Numbers, CountUp
<1>4. Severed' /\ epoch' \in Nat /\ regs' \subseteq 1..epoch'
  BY <1>1, Numbers DEF Severed
<1>5. TypeOK'
  BY <1>1, <1>2, <1>3, <1>4, Parts DEF TypeOK, Signals, Counts
<1>6. RelayPart'
  <2>1. FramesFit' /\ EpochStarted' /\ RelayHolds' /\ Unread' /\ CtlOrder' /\ FramesGuarded'
    BY <1>1, <1>4, Parts DEF RelayPart, FramesFit, EpochStarted, RelayHolds, Unread, CtlOrder, FramesGuarded, Alive, drained
  <2>2. InStep'
    BY <1>1, <1>4, Parts DEF RelayPart, InStep, Alive, drained, OpenLane, ShutLane
  <2> QED BY <2>1, <2>2 DEF RelayPart
<1>7. OpensCounted'
  BY <1>1, <1>3, Parts DEF OpensCounted, Owed, Alive
<1>8. CoinPart'
  <2>1. read.at = "counted" => read.closes < counts'.closes_begun
    BY <1>3, Numbers, Parts DEF CoinPart, ReadsCounted
  <2>2. read.closes \in Nat /\ counts'.closes_begun \in Nat
    BY <1>3, Numbers
  <2>3. ReadsCounted' /\ RearmedIsPending'
    BY <1>1, <2>1, <2>2 DEF ReadsCounted, RearmedIsPending
  <2> QED BY <1>1, <2>3, Parts DEF CoinPart, SnapshotTaken, PendingCoinsKept, Alive
<1> QED BY <1>1, <1>5, <1>6, <1>7, <1>8, SubmitFrame DEF IInv

\* close_deliver(): drained and fenced, the map's coins on its list.
LEMMA RelayDeliverStep ==
  ASSUME IInv, RelayDeliver
  PROVE  IInv'
<1>1. /\ step = "Draining" /\ (drained \/ processor_ended) /\ "close" \in fence
      /\ at_close' = at_close \cup pending /\ ctlq' = Append(ctlq, "Disconnected")
      /\ step' = (IF conn THEN "AwaitingStop" ELSE "Idle")
      /\ fence' = (IF conn THEN fence ELSE fence \ {"close"})
      /\ UNCHANGED <<gate, proc, conn, chan, context, pending, read, told, signals, closing, counts,
                     fenceq, hand, events, foldq, sub, outgoing, adrift>>
  BY DEF RelayDeliver
<1>2. /\ ctlq' \in Seq(Signals) /\ ctlq' # <<>>
      /\ \A x : All(ctlq', x) <=> All(ctlq, x) /\ x = "Disconnected"
      /\ \A x : All(ctlq, x) => EndsWith(ctlq', x, "Disconnected")
      /\ Len(ctlq) \in Nat /\ Len(ctlq') = Len(ctlq) + 1
      /\ \A i \in 1..Len(ctlq) : ctlq'[i] = ctlq[i]
      /\ ctlq'[Len(ctlq) + 1] = "Disconnected"
  <2>1. ctlq' = Append(ctlq, "Disconnected") /\ ctlq \in Seq(Signals) /\ "Disconnected" \in Signals
    BY <1>1, Parts DEF Signals
  <2> QED BY <2>1, AppendFacts, LenProperties
<1>3. TypeOK'
  BY <1>1, <1>2, Parts DEF TypeOK, Signals
<1>4. Alive => (OpenLane /\ proc = "loop") \/ ShutLane
  BY <1>1, Parts DEF RelayPart, InStep, drained, processor_ended, Alive, OpenLane
<1>5. Severed /\ closing /\ ~retired /\ (Alive => drained)
  BY <1>1, Parts DEF RelayPart, RelayHolds, Alive, processor_ended
<1>6. \A s \in Submits : sub[s] \notin Holding
  <2>1. fence = {"close"}
    BY <1>1, Parts DEF SubmitPart, FenceHolds, Writers
  <2> QED BY <2>1, LaneWaiters, Parts DEF SubmitPart, FenceHolds
<1>7. RelayPart'
  <2>1. FramesFit' /\ EpochStarted' /\ RelayHolds' /\ Unread'
    BY <1>1, <1>5, Parts DEF RelayPart, FramesFit, EpochStarted, RelayHolds, Unread, Severed
  <2>2. InStep'
    BY <1>1, <1>2, <1>4, <1>5 DEF InStep, Alive, drained, Severed, OpenLane, ShutLane, CloseDelivered
  <2>3. CtlOrder'
    BY <1>1, <1>2, <1>4 DEF CtlOrder, Alive, OpenLane, ShutLane, All
  <2>4. FramesGuarded'
    BY <1>1, <1>5 DEF FramesGuarded, Alive, drained
  <2> QED BY <2>1, <2>2, <2>3, <2>4 DEF RelayPart
<1>8. SubmitPart'
  <2>1. FenceHolds'
    BY <1>1, <1>6, Parts DEF SubmitPart, FenceHolds, Writers
  <2>2. NoCloseUnderSubmit' /\ AdmittedReady' /\ SubmitsReadBack'
    BY <1>1, <1>6 DEF NoCloseUnderSubmit, AdmittedReady, SubmitsReadBack, Holding
  <2> QED BY <2>1, <2>2 DEF SubmitPart
<1>9. OpensCounted'
  <2>1. Owed' => Owed
    BY <1>1, <1>2, <1>4 DEF Owed, Alive, OpenLane, ShutLane, All
  <2>2. counts' = counts /\ foldq' = foldq
    BY <1>1
  <2> QED BY <2>1, <2>2, Parts DEF OpensCounted
<1>10. CoinPart'
  <2>1. context \subseteq pending \cup at_close \cup adrift
    BY <1>5, Parts DEF CoinPart, PendingCoinsKept
  <2> QED BY <1>1, <2>1, Parts DEF CoinPart, ReadsCounted, RearmedIsPending, SnapshotTaken, PendingCoinsKept
<1> QED BY <1>3, <1>7, <1>8, <1>9, <1>10 DEF IInv

\* An event read: the answer the relay waits for comes when the processor is
\* through with the transition.
LEMMA RelayHearsStep ==
  ASSUME IInv, RelayHears
  PROVE  IInv'
<1> DEFINE e == Head(events)
           acknowledged == \/ step = "AwaitingOpen" /\ e \in {"start", "error"}
                           \/ step = "AwaitingStop" /\ e = "stop"
<1>1. /\ step # "Ended" /\ events # <<>> /\ events' = Tail(events)
      /\ step' = (IF acknowledged THEN "Idle" ELSE step)
      /\ counts' = (IF acknowledged /\ e = "error" THEN [counts EXCEPT !.opens_failed = @ + 1] ELSE counts)
      /\ fence' = (IF acknowledged /\ e = "stop" THEN fence \ {"close"} ELSE fence)
      /\ UNCHANGED <<gate, processor, coins, told, signals, closing, fenceq, hand, foldq, sub, outgoing>>
  BY DEF RelayHears
<1>2. /\ events' \in Seq(Reports) /\ e = events[1] /\ e \in Reports
      /\ Len(events) \in Nat \ {0} /\ Len(events') = Len(events) - 1
      /\ \A i \in 1..Len(events') : events'[i] = events[i + 1]
      /\ \A x : All(events, x) => e = x /\ All(events', x)
      /\ \A x, y : EndsWith(events, x, y) /\ e # x => e = y /\ events' = <<>>
      /\ \A x, y : EndsWith(events, x, y) /\ e # y => e = x /\ EndsWith(events', x, y)
  BY <1>1, Parts, TailFacts
<1>3. events' = <<>> <=> Len(events') = 0
  BY <1>2, EmptySeq
<1> HIDE DEF e
<1>4. /\ counts' \in Counts
      /\ counts'.closes_begun = counts.closes_begun /\ counts'.starts_folded = counts.starts_folded
      /\ counts'.opens_failed = (IF acknowledged /\ e = "error" THEN counts.opens_failed + 1 ELSE counts.opens_failed)
      /\ counts'.opens = counts.opens
  <2>1. CASE acknowledged /\ e = "error"
    <3>1. counts' = [counts EXCEPT !.opens_failed = @ + 1]
      BY <1>1, <2>1
    <3> QED BY <2>1, <3>1, Numbers, CountUp
  <2>2. CASE ~(acknowledged /\ e = "error")
    BY <1>1, <2>2, Numbers
  <2> QED BY <2>1, <2>2
<1>5. TypeOK'
  BY <1>1, <1>2, <1>4, Parts DEF TypeOK, Reports, Counts
<1>6. step = "AwaitingOpen" => acknowledged /\ step' = "Idle"
  BY <1>1, <1>2, Parts DEF RelayPart, Unread
<1>7. step = "AwaitingOpen" => /\ conn => e = "start" /\ All(events', "error")
                               /\ ~conn => e = "error" /\ events' = <<>>
  <2>1. CASE conn /\ step = "AwaitingOpen"
    <3>1. events[1] = "start" /\ \A i \in 2..Len(events) : events[i] = "error"
      BY <1>1, <2>1, Parts DEF RelayPart, Unread
    <3> QED BY <1>2, <2>1, <3>1 DEF All
  <2>2. CASE ~conn /\ step = "AwaitingOpen"
    <3>1. events[1] = "error" /\ Len(events) = 1
      BY <1>1, <2>2, Parts DEF RelayPart, Unread
    <3> QED BY <1>2, <1>3, <2>2, <3>1
  <2> QED BY <2>1, <2>2
<1>8. RelayPart'
  <2>1. FramesFit' /\ EpochStarted' /\ CtlOrder' /\ FramesGuarded'
    BY <1>1, Parts DEF RelayPart, FramesFit, EpochStarted, CtlOrder, FramesGuarded, Alive, drained
  <2>2. RelayHolds'
    BY <1>1, <1>2, Parts DEF RelayPart, RelayHolds, Severed
  <2>3. Unread'
    <3>1. CASE step \in {"Idle", "Draining"}
      BY <1>1, <1>2, <3>1, Parts DEF RelayPart, Unread
    <3>2. CASE step = "AwaitingOpen"
      BY <1>1, <1>6, <1>7, <3>2 DEF Unread
    <3>3. CASE step = "AwaitingStop"
      <4>1. CASE conn
        BY <1>1, <1>2, <3>3, <4>1, Parts DEF RelayPart, Unread
      <4>2. CASE ~conn
        BY <1>1, <1>2, <3>3, <4>2, Parts DEF RelayPart, Unread
      <4> QED BY <4>1, <4>2
    <3> QED BY <1>1, <3>1, <3>2, <3>3, Parts DEF TypeOK
  <2>4. InStep'
    <3>1. CASE step \in {"Idle", "Draining"}
      BY <1>1, <3>1, Parts DEF RelayPart, InStep, Alive, drained, Severed, OpenLane, ShutLane
    <3>2. CASE step = "AwaitingOpen"
      BY <1>1, <1>6, <3>2, Parts DEF RelayPart, InStep, Alive, drained, Severed, OpenLane, ShutLane, OpenAsked,
         OpenUnderWay, OpenStarted, OpenFailed, All
    <3>3. CASE step = "AwaitingStop"
      <4>1. acknowledged => ~conn
        BY <1>2, <3>3, Parts DEF RelayPart, Unread
      <4> QED BY <1>1, <3>3, <4>1, Parts DEF RelayPart, InStep, Alive, drained, Severed, ShutLane, CloseDelivered,
                CloseTaken, All
    <3> QED BY <1>1, <3>1, <3>2, <3>3, Parts DEF TypeOK
  <2> QED BY <2>1, <2>2, <2>3, <2>4 DEF RelayPart
<1>9. SubmitPart'
  <2>1. fence' \in {fence, fence \ {"close"}}
    BY <1>1
  <2> QED BY <1>1, <2>1, LaneWaiters, Parts DEF SubmitPart, FenceHolds, NoCloseUnderSubmit, AdmittedReady,
            SubmitsReadBack, Alive, Writers
<1>10. OpensCounted'
  <2>1. CASE step = "AwaitingOpen"
    <3>1. ~Owed'
      BY <1>1, <1>6, <2>1, Parts DEF Owed, RelayPart, InStep, Alive, OpenAsked, OpenUnderWay, OpenStarted, OpenFailed
    <3>2. ~conn => Owed
      BY <1>2, <1>7, <2>1 DEF Owed
    <3>3. conn => counts'.opens_failed = counts.opens_failed
      BY <1>4, <1>7, <2>1
    <3>4. counts'.opens_failed <= counts.opens_failed + (IF Owed THEN 1 ELSE 0)
      BY <1>4, <3>2, <3>3, Numbers
    <3>5. foldq' = foldq /\ counts'.opens_failed \in Nat
      BY <1>1, <1>4, CountUp
    <3>6. counts.starts_folded + counts.opens_failed + foldq + (IF Owed THEN 1 ELSE 0) <= counts.opens
      BY Parts DEF OpensCounted
    <3>7. counts'.starts_folded + counts'.opens_failed + foldq' <= counts'.opens
      BY <1>4, <3>4, <3>5, <3>6, Numbers
    <3> QED BY <1>4, <3>1, <3>5, <3>7, Numbers DEF OpensCounted
  <2>2. CASE step # "AwaitingOpen"
    <3>1. counts'.opens_failed = counts.opens_failed
      BY <1>4, <2>2
    <3>2. Owed' => Owed
      BY <1>1, <2>2 DEF Owed, Alive
    <3>3. foldq' = foldq
      BY <1>1
    <3> QED BY <1>4, <3>1, <3>2, <3>3, Numbers, Parts DEF OpensCounted
  <2> QED BY <2>1, <2>2
<1>11. CoinPart'
  BY <1>1, <1>4, Parts DEF CoinPart, ReadsCounted, RearmedIsPending, SnapshotTaken, PendingCoinsKept, Alive
<1> QED BY <1>5, <1>8, <1>9, <1>10, <1>11 DEF IInv

\* A claim on the fence joins its queue.
LEMMA CloseClaimsStep ==
  ASSUME IInv, CloseClaims
  PROVE  IInv'
<1>1. /\ fenceq' = Append(fenceq, "close") /\ fenceq \in Seq(Submits \cup Writers)
      /\ UNCHANGED <<gate, processor, coins, relay, fence, hand, events, foldq, sub, outgoing>>
      /\ "close" \in Submits \cup Writers
  BY Parts DEF CloseClaims, Writers
<1>2. /\ fenceq' \in Seq(Submits \cup Writers) /\ Len(fenceq') = Len(fenceq) + 1 /\ Len(fenceq) \in Nat
      /\ \A i \in 1..Len(fenceq) : fenceq'[i] = fenceq[i]
      /\ fenceq'[Len(fenceq) + 1] = "close"
  BY <1>1, AppendFacts, LenProperties
<1>3. TypeOK'
  BY <1>1, <1>2, Parts DEF TypeOK
<1>4. SubmitPart'
  <2>1. (\E i \in 1..Len(fenceq') : fenceq'[i] = "stop") => \E i \in 1..Len(fenceq) : fenceq[i] = "stop"
    BY <1>2
  <2> QED BY <1>1, <2>1, Parts DEF SubmitPart, FenceHolds, NoCloseUnderSubmit, AdmittedReady, SubmitsReadBack, Alive
<1> QED BY <1>1, <1>3, <1>4, RelayFrame, OpensFrame, CoinFrame DEF IInv

\* The first waiter leaves the fence's queue.
LEMMA FenceHead ==
  ASSUME IInv, fenceq # <<>>, fenceq' = Tail(fenceq)
  PROVE  /\ fenceq' \in Seq(Submits \cup Writers) /\ Head(fenceq) \in Submits \cup Writers
         /\ Head(fenceq) = "stop" => retired
         /\ (\E i \in 1..Len(fenceq') : fenceq'[i] = "stop") => retired
<1>1. /\ fenceq' \in Seq(Submits \cup Writers) /\ Head(fenceq) \in Submits \cup Writers
      /\ Head(fenceq) = fenceq[1] /\ Len(fenceq) \in Nat \ {0} /\ Len(fenceq') = Len(fenceq) - 1
      /\ \A i \in 1..Len(fenceq') : fenceq'[i] = fenceq[i + 1]
  BY Parts, TailFacts
<1>2. (\E i \in 1..Len(fenceq) : fenceq[i] = "stop") => retired
  BY Parts DEF SubmitPart, FenceHolds
<1>3. \A i \in 1..Len(fenceq') : i + 1 \in 1..Len(fenceq)
  BY <1>1
<1> QED BY <1>1, <1>2, <1>3

\* A writer gets the fence when nobody has it.
LEMMA WriterGrantedStep ==
  ASSUME IInv, WriterGranted
  PROVE  IInv'
<1>1. /\ fenceq # <<>> /\ Head(fenceq) \in Writers /\ fence = {} /\ fenceq' = Tail(fenceq)
      /\ fence' \in {{}, {Head(fenceq)}}
      /\ UNCHANGED <<gate, processor, coins, relay, hand, events, foldq, sub, outgoing>>
  BY DEF WriterGranted
<1>2. /\ fenceq' \in Seq(Submits \cup Writers) /\ (Head(fenceq) = "stop" => retired)
      /\ (\E i \in 1..Len(fenceq') : fenceq'[i] = "stop") => retired
  BY <1>1, FenceHead
<1>3. TypeOK'
  BY <1>1, <1>2, Parts DEF TypeOK
<1>4. \A s \in Submits : sub[s] \notin Holding
  BY <1>1, Parts DEF SubmitPart, FenceHolds
<1>5. SubmitPart'
  <2>1. FenceHolds'
    BY <1>1, <1>2, <1>4 DEF FenceHolds
  <2>2. NoCloseUnderSubmit' /\ AdmittedReady' /\ SubmitsReadBack'
    BY <1>1, <1>4 DEF NoCloseUnderSubmit, AdmittedReady, SubmitsReadBack, Holding
  <2> QED BY <2>1, <2>2 DEF SubmitPart
<1> QED BY <1>1, <1>3, <1>5, RelayFrame, OpensFrame, CoinFrame DEF IInv

\* The submits' part of the invariant, for one submit at a time: a step of s
\* that only moves s, its place in the queue and its guard.
LEMMA SubmitStep ==
  ASSUME IInv, NEW s \in Submits, NEW a \in {"idle", "asking", "queued", "waiting", "admitted", "out"},
         sub' = [sub EXCEPT ![s] = a],
         UNCHANGED <<gate, processor, coins, relay, hand, events, foldq>>,
         outgoing' \subseteq Submits, outgoing \ {s} \subseteq outgoing', a = "out" => s \in outgoing',
         fenceq' \in Seq(Submits \cup Writers),
         (\E i \in 1..Len(fenceq') : fenceq'[i] = "stop") => retired,
         fence' \subseteq Submits \cup Writers, fence' \ {s} = fence \ {s},
         a \in Holding => s \in fence',
         s \in fence' \ fence => fence \cap Writers = {},
         a \in Holding /\ Alive /\ conn => All(ctlq, "Connected"),
         a \in {"admitted", "out"} => conn /\ foldq = 0 /\ proc \notin {"opening", "opened"}
  PROVE  IInv'
<1>1. sub' \in [Submits -> {"idle", "asking", "queued", "waiting", "admitted", "out"}]
      /\ \A t \in Submits : sub'[t] = IF t = s THEN a ELSE sub[t]
  BY Parts
<1>2. TypeOK'
  BY <1>1, Parts DEF TypeOK
<1>3. s \notin Writers
  BY LaneWaiters DEF Writers
<1>4. SubmitPart'
  <2>1. FenceHolds'
    <3>1. \A w \in Writers : w \in fence' => fence' = {w}
      BY <1>3, Parts DEF SubmitPart, FenceHolds
    <3>2. \A t \in Submits : sub'[t] \in Holding => t \in fence'
      BY <1>1, Parts DEF SubmitPart, FenceHolds
    <3>3. "stop" \in fence' => retired
      BY <1>3, Parts DEF SubmitPart, FenceHolds, Writers
    <3> QED BY <3>1, <3>2, <3>3 DEF FenceHolds
  <2>2. NoCloseUnderSubmit' /\ AdmittedReady' /\ SubmitsReadBack'
    BY <1>1, Parts DEF SubmitPart, NoCloseUnderSubmit, AdmittedReady, SubmitsReadBack, Alive
  <2> QED BY <2>1, <2>2 DEF SubmitPart
<1>5. "close" \in fence => "close" \in fence'
  BY <1>3 DEF Writers
<1> QED BY <1>2, <1>4, <1>5, RelayFrame, OpensFrame, CoinFrame DEF IInv

\* A submit asks, queues, is granted or refused: it gets the fence while no
\* writer has it, so no close is on its way.
LEMMA AdmissionStep ==
  ASSUME IInv, NEW s \in Submits, Asks(s) \/ Queues(s) \/ ReaderGranted(s) \/ NotAdmitted(s)
  PROVE  IInv'
<1>1. /\ outgoing' = outgoing /\ outgoing \subseteq Submits
      /\ UNCHANGED <<gate, processor, coins, relay, hand, events, foldq>>
      /\ fence \subseteq Submits \cup Writers /\ fenceq \in Seq(Submits \cup Writers)
      /\ (\E i \in 1..Len(fenceq) : fenceq[i] = "stop") => retired
  BY Parts DEF Asks, Queues, ReaderGranted, NotAdmitted, TypeOK, SubmitPart, FenceHolds
<1>2. CASE Asks(s)
  <2>1. sub' = [sub EXCEPT ![s] = "asking"] /\ fenceq' = fenceq /\ fence' = fence
    BY <1>2 DEF Asks
  <2> QED BY <1>1, <2>1, SubmitStep DEF Holding
<1>3. CASE Queues(s)
  <2>1. sub' = [sub EXCEPT ![s] = "queued"] /\ fenceq' = Append(fenceq, s) /\ fence' = fence /\ s # "stop"
    BY <1>3, LaneWaiters DEF Queues
  <2>2. /\ fenceq' \in Seq(Submits \cup Writers) /\ Len(fenceq') = Len(fenceq) + 1 /\ Len(fenceq) \in Nat
        /\ \A i \in 1..Len(fenceq) : fenceq'[i] = fenceq[i]
        /\ fenceq'[Len(fenceq) + 1] = s
    BY <1>1, <2>1, AppendFacts, LenProperties
  <2>3. (\E i \in 1..Len(fenceq') : fenceq'[i] = "stop") => \E i \in 1..Len(fenceq) : fenceq[i] = "stop"
    BY <2>1, <2>2
  <2> QED BY <1>1, <2>1, <2>2, <2>3, SubmitStep DEF Holding
<1>4. CASE NotAdmitted(s)
  <2>1. sub' = [sub EXCEPT ![s] = "idle"] /\ fenceq' = Without(fenceq, s) /\ fence' = fence \ {s}
    BY <1>4 DEF NotAdmitted
  <2>2. /\ fenceq' \in Seq(Submits \cup Writers)
        /\ \A i \in 1..Len(fenceq') : \E j \in 1..Len(fenceq) : fenceq'[i] = fenceq[j]
    BY <1>1, <2>1, WithoutFacts
  <2>3. (\E i \in 1..Len(fenceq') : fenceq'[i] = "stop") => retired
    BY <1>1, <2>2
  <2>4. fence' \subseteq Submits \cup Writers /\ fence' \ {s} = fence \ {s} /\ s \notin fence' \ fence
    BY <1>1, <2>1
  <2> QED BY <1>1, <2>1, <2>2, <2>3, <2>4, SubmitStep DEF Holding
<1>5. CASE ReaderGranted(s)
  <2>1. sub[s] = "queued" /\ Head(fenceq) = s /\ fence \cap Writers = {} /\ fenceq' = Tail(fenceq)
    BY <1>5 DEF ReaderGranted
  <2>2. fenceq' \in Seq(Submits \cup Writers) /\ ((\E i \in 1..Len(fenceq') : fenceq'[i] = "stop") => retired)
    <3>1. CASE fenceq # <<>>
      BY <2>1, <3>1, FenceHead
    <3>2. CASE fenceq = <<>>
      BY <1>1, <2>1, <3>2
    <3> QED BY <3>1, <3>2
  <2>3. CASE ~retired /\ sub' = [sub EXCEPT ![s] = "waiting"] /\ fence' = fence \cup {s}
    <3>1. Alive /\ conn => All(ctlq, "Connected")
      BY <2>1, <2>3, CloseOnItsWay DEF Writers
    <3> QED BY <1>1, <2>1, <2>2, <2>3, <3>1, SubmitStep DEF Holding
  <2>4. CASE sub' = [sub EXCEPT ![s] = "asking"] /\ UNCHANGED fence
    BY <1>1, <2>2, <2>4, SubmitStep DEF Holding
  <2>5. CASE sub' = [sub EXCEPT ![s] = "idle"] /\ UNCHANGED fence
    BY <1>1, <2>2, <2>5, SubmitStep DEF Holding
  <2> QED BY <1>5, <2>3, <2>4, <2>5 DEF ReaderGranted
<1> QED BY <1>2, <1>3, <1>4, <1>5

\* The last look, the registration and the return: a lane found ready has no
\* open under way and no start unfolded.
LEMMA SubmitsStep ==
  ASSUME IInv, NEW s \in Submits, Admitted(s) \/ Registers(s) \/ Returns(s)
  PROVE  IInv'
<1>1. /\ UNCHANGED <<gate, processor, coins, relay, hand, events, foldq, fenceq>>
      /\ outgoing \subseteq Submits
      /\ fence \subseteq Submits \cup Writers /\ fenceq \in Seq(Submits \cup Writers)
      /\ (\E i \in 1..Len(fenceq) : fenceq[i] = "stop") => retired
      /\ sub[s] \in Holding /\ s \in fence
      /\ Alive /\ conn => All(ctlq, "Connected")
  BY Parts DEF Admitted, Registers, Returns, TypeOK, SubmitPart, FenceHolds, NoCloseUnderSubmit, Holding
<1>2. CASE Admitted(s)
  <2>1. CASE is_ready /\ sub' = [sub EXCEPT ![s] = "admitted"] /\ UNCHANGED fence
    <3>1. outgoing' = outgoing
      BY <1>2 DEF Admitted
    <3>2. conn /\ counts.starts_folded + counts.opens_failed >= counts.opens
      BY <2>1 DEF is_ready
    <3>3. counts.starts_folded + counts.opens_failed + foldq + (IF Owed THEN 1 ELSE 0) <= counts.opens
      BY Parts DEF OpensCounted
    <3>4. foldq = 0 /\ ~Owed
      BY <3>2, <3>3, Numbers
    <3>5. proc \notin {"opening", "opened"}
      BY <3>4 DEF Owed, Alive
    <3> QED BY <1>1, <2>1, <3>1, <3>2, <3>4, <3>5, SubmitStep
  <2>2. CASE sub' = [sub EXCEPT ![s] = "asking"] /\ fence' = fence \ {s}
    <3>1. outgoing' = outgoing
      BY <1>2 DEF Admitted
    <3> QED BY <1>1, <2>2, <3>1, SubmitStep DEF Holding
  <2> QED BY <1>2, <2>1, <2>2 DEF Admitted
<1>3. CASE Registers(s)
  <2>1. sub[s] = "admitted" /\ sub' = [sub EXCEPT ![s] = "out"] /\ outgoing' = outgoing \cup {s} /\ fence' = fence
    BY <1>3 DEF Registers
  <2>2. conn /\ foldq = 0 /\ proc \notin {"opening", "opened"}
    BY <2>1, Parts DEF SubmitPart, AdmittedReady
  <2> QED BY <1>1, <2>1, <2>2, SubmitStep
<1>4. CASE Returns(s)
  <2>1. sub' = [sub EXCEPT ![s] = "idle"] /\ outgoing' = outgoing \ {s} /\ fence' = fence \ {s}
    BY <1>4 DEF Returns
  <2> QED BY <1>1, <2>1, SubmitStep DEF Holding
<1> QED BY <1>2, <1>3, <1>4

\* The ctl's first signal is read: what is left keeps its order.
LEMMA CtlHead ==
  ASSUME IInv, Alive, ctlq # <<>>, ctlq' = Tail(ctlq)
  PROVE  /\ ctlq' \in Seq(Signals) /\ Head(ctlq) \in Signals
         /\ Len(ctlq') \in Nat
         /\ \A i \in 1..Len(ctlq') : ctlq'[i] = ctlq[i + 1] /\ i + 1 \in 1..Len(ctlq)
         /\ \A x : All(ctlq, x) => Head(ctlq) = x /\ All(ctlq', x)
         /\ \A x, y : EndsWith(ctlq, x, y) /\ Head(ctlq) # x => Head(ctlq) = y /\ ctlq' = <<>>
         /\ \A x, y : EndsWith(ctlq, x, y) /\ Head(ctlq) # y => Head(ctlq) = x /\ EndsWith(ctlq', x, y)
         /\ conn /\ Head(ctlq) = "Disconnected" => ctlq' = <<>> /\ ~All(ctlq, "Connected")
         /\ ~conn /\ Head(ctlq) = "Connected" => All(ctlq', "Connected")
         /\ conn => \A i \in 1..(Len(ctlq') - 1) : ctlq'[i] = "Connected"
         /\ ~conn => \A i, j \in 1..Len(ctlq') : i <= j /\ ctlq'[i] = "Connected" => ctlq'[j] = "Connected"
<1>1. /\ ctlq' \in Seq(Signals) /\ Head(ctlq) \in Signals /\ Head(ctlq) = ctlq[1]
      /\ Len(ctlq) \in Nat \ {0} /\ Len(ctlq') = Len(ctlq) - 1
      /\ \A i \in 1..Len(ctlq') : ctlq'[i] = ctlq[i + 1]
      /\ \A x : All(ctlq, x) => Head(ctlq) = x /\ All(ctlq', x)
      /\ \A x, y : EndsWith(ctlq, x, y) /\ Head(ctlq) # x => Head(ctlq) = y /\ ctlq' = <<>>
      /\ \A x, y : EndsWith(ctlq, x, y) /\ Head(ctlq) # y => Head(ctlq) = x /\ EndsWith(ctlq', x, y)
  BY Parts, TailFacts
<1>2. ctlq' = <<>> <=> Len(ctlq') = 0
  BY <1>1, EmptySeq
<1>3. /\ conn => \A i \in 1..(Len(ctlq) - 1) : ctlq[i] = "Connected"
      /\ ~conn => \A i, j \in 1..Len(ctlq) : i <= j /\ ctlq[i] = "Connected" => ctlq[j] = "Connected"
  BY Parts DEF RelayPart, CtlOrder
<1>4. conn /\ Head(ctlq) = "Disconnected" => ctlq' = <<>> /\ ~All(ctlq, "Connected")
  BY <1>1, <1>2, <1>3 DEF All
<1>5. ~conn /\ Head(ctlq) = "Connected" => All(ctlq', "Connected")
  BY <1>1, <1>3 DEF All
<1>6. conn => \A i \in 1..(Len(ctlq') - 1) : ctlq'[i] = "Connected"
  BY <1>1, <1>3
<1>7. ~conn => \A i, j \in 1..Len(ctlq') : i <= j /\ ctlq'[i] = "Connected" => ctlq'[j] = "Connected"
  BY <1>1, <1>3
<1>8. Len(ctlq') \in Nat /\ \A i \in 1..Len(ctlq') : i + 1 \in 1..Len(ctlq)
  BY <1>1
<1> QED BY <1>1, <1>4, <1>5, <1>6, <1>7, <1>8

\* A signal that asks for what the processor is already: ignored.
LEMMA IgnoresCtlStep ==
  ASSUME IInv, TakesCtl, Head(ctlq) = "Connected" <=> conn
  PROVE  IInv'
<1>1. /\ proc = "loop" /\ ctlq # <<>> /\ ctlq' = Tail(ctlq)
      /\ UNCHANGED <<proc, conn, outgoing, pending, events>>
      /\ UNCHANGED <<gate, chan, context, at_close, read, relay, locks, hand, foldq, sub, adrift>>
  BY DEF TakesCtl
<1>2. Alive
  BY <1>1 DEF Alive
<1>3. TypeOK'
  BY <1>1, <1>2, CtlHead, Parts DEF TypeOK, Signals
<1>4. RelayPart'
  <2>1. FramesFit' /\ EpochStarted' /\ RelayHolds' /\ Unread'
    BY <1>1, Parts DEF RelayPart, FramesFit, EpochStarted, RelayHolds, Unread, Severed
  <2>2. InStep'
    <3>1. CASE step \in {"Idle", "Draining"}
      BY <1>1, <1>2, <3>1, CtlHead, Parts DEF RelayPart, InStep, drained, Severed, OpenLane, ShutLane
    <3>2. CASE step = "AwaitingOpen"
      BY <1>1, <1>2, <3>2, CtlHead, Parts DEF RelayPart, InStep, drained, Severed, OpenAsked, OpenUnderWay,
         OpenStarted, OpenFailed
    <3>3. CASE step = "AwaitingStop"
      BY <1>1, <1>2, <3>3, CtlHead, Parts DEF RelayPart, InStep, drained, Severed, CloseDelivered, CloseTaken
    <3>4. CASE step = "Ended"
      BY <1>1, <3>4 DEF InStep
    <3> QED BY <3>1, <3>2, <3>3, <3>4, Parts DEF TypeOK
  <2>3. CtlOrder'
    BY <1>1, <1>2, CtlHead DEF CtlOrder, Alive
  <2>4. FramesGuarded'
    BY <1>1, <1>2, CtlHead, Parts DEF RelayPart, FramesGuarded, Alive, drained
  <2> QED BY <2>1, <2>2, <2>3, <2>4 DEF RelayPart
<1>5. SubmitPart'
  BY <1>1, <1>2, CtlHead, Parts DEF SubmitPart, FenceHolds, NoCloseUnderSubmit, AdmittedReady, SubmitsReadBack
<1>6. OpensCounted'
  <2>1. Owed' => Owed
    BY <1>1, <1>2, CtlHead DEF Owed, Alive
  <2> QED BY <1>1, <2>1, Numbers, Parts DEF OpensCounted
<1>7. CoinPart'
  BY <1>1, <1>2, CtlHead, Parts DEF CoinPart, ReadsCounted, RearmedIsPending, SnapshotTaken, PendingCoinsKept
<1> QED BY <1>3, <1>4, <1>5, <1>6, <1>7 DEF IInv

\* The relay's open is taken: the negotiation begins.
LEMMA TakesOpenStep ==
  ASSUME IInv, TakesCtl, Head(ctlq) = "Connected", ~conn
  PROVE  IInv'
<1>1. /\ proc = "loop" /\ ctlq # <<>> /\ ctlq' = Tail(ctlq) /\ proc' = "opening"
      /\ UNCHANGED <<conn, outgoing, pending, events>>
      /\ UNCHANGED <<gate, chan, context, at_close, read, relay, locks, hand, foldq, sub, adrift>>
  BY DEF TakesCtl
<1>2. Alive
  BY <1>1 DEF Alive
<1>3. TypeOK'
  BY <1>1, <1>2, CtlHead, Parts DEF TypeOK, Signals
<1>4. drained
  BY <1>2, Parts DEF RelayPart, FramesGuarded
<1>5. RelayPart'
  <2>1. FramesFit' /\ EpochStarted' /\ RelayHolds' /\ Unread'
    BY <1>1, Parts DEF RelayPart, FramesFit, EpochStarted, RelayHolds, Unread, Severed
  <2>2. InStep'
    <3>1. step \notin {"Idle", "Draining"}
      BY <1>1, <1>2, CtlHead, Parts DEF RelayPart, InStep, OpenLane, ShutLane
    <3>2. step # "AwaitingStop"
      BY <1>1, <1>2, Parts DEF RelayPart, InStep, CloseDelivered, CloseTaken
    <3>3. step = "AwaitingOpen" => OpenAsked
      BY <1>1, <1>2, Parts DEF RelayPart, InStep, OpenUnderWay, OpenStarted, OpenFailed
    <3>4. step = "AwaitingOpen" => OpenUnderWay'
      BY <1>1, <1>2, <1>4, <3>3, CtlHead DEF OpenAsked, OpenUnderWay, drained, Severed
    <3> QED BY <1>1, <3>1, <3>2, <3>4 DEF InStep
  <2>3. CtlOrder'
    BY <1>1, <1>2, CtlHead DEF CtlOrder, Alive
  <2>4. FramesGuarded'
    BY <1>1, <1>4 DEF FramesGuarded, drained
  <2> QED BY <2>1, <2>2, <2>3, <2>4 DEF RelayPart
<1>6. SubmitPart'
  BY <1>1, Parts DEF SubmitPart, FenceHolds, NoCloseUnderSubmit, AdmittedReady, SubmitsReadBack, Alive
<1>7. OpensCounted'
  <2>1. Owed
    <3>1. ctlq[1] = "Connected" /\ Len(ctlq) \in Nat \ {0}
      BY <1>1, Parts, TailFacts
    <3> QED BY <1>2, <3>1 DEF Owed
  <2> QED BY <1>1, <2>1, Numbers, Parts DEF OpensCounted
<1>8. CoinPart'
  BY <1>1, Parts DEF CoinPart, ReadsCounted, RearmedIsPending, SnapshotTaken, PendingCoinsKept
<1> QED BY <1>3, <1>5, <1>6, <1>7, <1>8 DEF IInv

\* The relay's close is taken: no submit has the fence, and the coins the map
\* loses are listed.
LEMMA TakesCloseStep ==
  ASSUME IInv, TakesCtl, Head(ctlq) = "Disconnected", conn
  PROVE  IInv'
<1>1. /\ proc = "loop" /\ ctlq # <<>> /\ ctlq' = Tail(ctlq)
      /\ conn' = FALSE /\ outgoing' = {} /\ pending' = {} /\ events' = Append(events, "stop") /\ proc' = proc
      /\ UNCHANGED <<gate, chan, context, at_close, read, relay, locks, hand, foldq, sub, adrift>>
  BY DEF TakesCtl, Disconnect
<1>2. Alive
  BY <1>1 DEF Alive
<1>3. ctlq' = <<>> /\ ~All(ctlq, "Connected")
  BY <1>1, <1>2, CtlHead
<1>4. /\ events' \in Seq(Reports) /\ (\A x : All(events, x) => EndsWith(events', x, "stop"))
  <2>1. events \in Seq(Reports) /\ "stop" \in Reports
    BY Parts DEF Reports
  <2> QED BY <1>1, <2>1, AppendFacts
<1>5. TypeOK'
  <2>1. ctlq' \in Seq(Signals) /\ conn' \in BOOLEAN
    BY <1>1, <1>2, CtlHead
  <2> QED BY <1>1, <1>4, <2>1, Parts DEF TypeOK, Reports, Signals
<1>6. drained
  BY <1>2, <1>3, Parts DEF RelayPart, FramesGuarded
<1>7. ~retired => step = "AwaitingStop" /\ closing
  BY <1>2, <1>3, CloseOnItsWay
<1>8. \A s \in Submits : sub[s] \notin Holding
  BY <1>2, <1>3, Parts DEF SubmitPart, NoCloseUnderSubmit
<1>9. RelayPart'
  <2>1. FramesFit' /\ EpochStarted' /\ RelayHolds'
    BY <1>1, Parts DEF RelayPart, FramesFit, EpochStarted, RelayHolds, Severed
  <2>2. step \in {"AwaitingStop", "Ended"}
    BY <1>7, Parts DEF RelayPart, RelayHolds
  <2>3. Unread'
    BY <1>1, <1>4, <2>2, Parts DEF RelayPart, Unread
  <2>4. InStep'
    BY <1>1, <1>2, <1>3, <1>6, <2>2, Parts DEF RelayPart, RelayHolds, InStep, CloseTaken, drained, Severed
  <2>5. CtlOrder'
    BY <1>1, <1>3 DEF CtlOrder, All
  <2>6. FramesGuarded'
    BY <1>1, <1>6 DEF FramesGuarded, drained
  <2> QED BY <2>1, <2>3, <2>4, <2>5, <2>6 DEF RelayPart
<1>10. SubmitPart'
  <2>1. FenceHolds'
    BY <1>1, Parts DEF SubmitPart, FenceHolds
  <2> QED BY <1>1, <1>8, <2>1 DEF SubmitPart, NoCloseUnderSubmit, AdmittedReady, SubmitsReadBack, Holding
<1>11. OpensCounted'
  <2>1. ~Owed'
    <3>1. step # "AwaitingOpen"
      BY <1>7, Parts DEF RelayPart, RelayHolds
    <3> QED BY <1>1, <1>3, <3>1 DEF Owed, Alive
  <2> QED BY <1>1, <2>1, Numbers, Parts DEF OpensCounted
<1>12. CoinPart'
  <2>1. ~retired => context \subseteq at_close \cup adrift
    BY <1>2, <1>3, Parts DEF CoinPart, SnapshotTaken
  <2>2. read.at = "counted" /\ ~retired => read.closes # counts.closes_begun
    BY <1>7, Numbers, Parts DEF CoinPart, ReadsCounted
  <2> QED BY <1>1, <2>1, <2>2, Parts DEF CoinPart, ReadsCounted, RearmedIsPending, SnapshotTaken, PendingCoinsKept
<1> QED BY <1>5, <1>9, <1>10, <1>11, <1>12 DEF IInv

\* The negotiation: connected before the listener, and nothing admitted yet.
LEMMA NegotiatesStep ==
  ASSUME IInv, Negotiates
  PROVE  IInv'
<1>1. /\ proc = "opening" /\ proc' = "opened" /\ conn' = TRUE
      /\ UNCHANGED <<gate, ctlq, chan, coins, relay, locks, hand, events, foldq, sub, outgoing>>
  BY DEF Negotiates
<1>2. Alive /\ ~conn /\ All(ctlq, "Connected")
  BY <1>1, Parts DEF Alive, RelayPart, CtlOrder
<1>3. TypeOK'
  <2>1. conn' \in BOOLEAN
    BY <1>1
  <2> QED BY <1>1, <2>1, Parts DEF TypeOK
<1>4. RelayPart'
  <2>1. FramesFit' /\ EpochStarted' /\ RelayHolds'
    BY <1>1, Parts DEF RelayPart, FramesFit, EpochStarted, RelayHolds, Severed
  <2>2. step \in {"AwaitingOpen", "Ended"}
    BY <1>1, <1>2, Parts DEF RelayPart, InStep, TypeOK, OpenLane, ShutLane, CloseDelivered, CloseTaken
  <2>3. step = "AwaitingOpen" => OpenUnderWay
    BY <1>1, <1>2, Parts DEF RelayPart, InStep, OpenAsked, OpenStarted, OpenFailed
  <2>4. Unread'
    BY <1>1, <2>2, <2>3 DEF Unread, OpenUnderWay
  <2>5. InStep'
    BY <1>1, <2>2, <2>3 DEF InStep, OpenUnderWay, drained, Severed
  <2>6. CtlOrder' /\ FramesGuarded'
    BY <1>1, <1>2 DEF CtlOrder, FramesGuarded, All, drained
  <2> QED BY <2>1, <2>4, <2>5, <2>6 DEF RelayPart
<1>5. SubmitPart'
  BY <1>1, <1>2, Parts DEF SubmitPart, FenceHolds, NoCloseUnderSubmit, AdmittedReady, SubmitsReadBack
<1>6. OpensCounted'
  <2>1. Owed
    BY <1>1, <1>2 DEF Owed
  <2> QED BY <1>1, <2>1, Numbers, Parts DEF OpensCounted
<1>7. CoinPart'
  BY <1>1, <1>2, Parts DEF CoinPart, ReadsCounted, RearmedIsPending, SnapshotTaken, PendingCoinsKept
<1> QED BY <1>3, <1>4, <1>5, <1>6, <1>7 DEF IInv

\* It fails: the relay hears of it, and counts it.
LEMMA NegotiationFailsStep ==
  ASSUME IInv, NegotiationFails
  PROVE  IInv'
<1>1. /\ proc = "opening" /\ proc' = "loop" /\ events' = Append(events, "error")
      /\ UNCHANGED <<gate, conn, ctlq, chan, coins, relay, locks, hand, foldq, sub, outgoing>>
  BY DEF NegotiationFails
<1>2. Alive /\ ~conn /\ All(ctlq, "Connected")
  BY <1>1, Parts DEF Alive, RelayPart, CtlOrder
<1>3. /\ events' \in Seq(Reports) /\ events' # <<>>
      /\ events = <<>> => events'[1] = "error" /\ Len(events') = 1
  <2>1. events \in Seq(Reports) /\ "error" \in Reports
    BY Parts DEF Reports
  <2> QED BY <1>1, <2>1, AppendFacts
<1>4. TypeOK'
  BY <1>1, <1>3, Parts DEF TypeOK, Reports
<1>5. /\ step \in {"AwaitingOpen", "Ended"}
      /\ step = "AwaitingOpen" => OpenUnderWay
  BY <1>1, <1>2, Parts DEF RelayPart, InStep, TypeOK, OpenLane, ShutLane, CloseDelivered, CloseTaken,
                           OpenAsked, OpenStarted, OpenFailed
<1>6. RelayPart'
  <2>1. FramesFit' /\ EpochStarted' /\ RelayHolds'
    BY <1>1, Parts DEF RelayPart, FramesFit, EpochStarted, RelayHolds, Severed
  <2>2. Unread'
    BY <1>1, <1>2, <1>3, <1>5 DEF Unread, OpenUnderWay
  <2>3. InStep'
    BY <1>1, <1>2, <1>3, <1>5 DEF InStep, OpenUnderWay, OpenFailed, drained, Severed
  <2>4. CtlOrder'
    BY <1>1, <1>2 DEF CtlOrder, All
  <2>5. FramesGuarded'
    BY <1>1, <1>2, Parts DEF RelayPart, FramesGuarded, drained, Alive
  <2> QED BY <2>1, <2>2, <2>3, <2>4, <2>5 DEF RelayPart
<1>7. SubmitPart'
  BY <1>1, <1>2, Parts DEF SubmitPart, FenceHolds, NoCloseUnderSubmit, AdmittedReady, SubmitsReadBack
<1>8. OpensCounted'
  <2>1. Owed
    BY <1>1, <1>2 DEF Owed
  <2> QED BY <1>1, <2>1, Numbers, Parts DEF OpensCounted
<1>9. CoinPart'
  BY <1>1, <1>2, Parts DEF CoinPart, ReadsCounted, RearmedIsPending, SnapshotTaken, PendingCoinsKept
<1> QED BY <1>4, <1>6, <1>7, <1>8, <1>9 DEF IInv

\* The listener and the start: from here frames are admitted, on a connection no
\* close is on its way to.
LEMMA StartsStep ==
  ASSUME IInv, Starts
  PROVE  IInv'
<1>1. /\ proc = "opened" /\ proc' = "loop" /\ regs' \in {regs, regs \cup {epoch}}
      /\ events' = Append(events, "start") /\ foldq' = foldq + 1
      /\ UNCHANGED <<epoch, retired, conn, ctlq, chan, coins, relay, locks, hand, sub, outgoing>>
  BY DEF Starts
<1>2. Alive /\ conn /\ All(ctlq, "Connected")
  BY <1>1, Parts DEF Alive, RelayPart, CtlOrder
<1>3. /\ events' \in Seq(Reports) /\ events' # <<>>
      /\ events = <<>> => events'[1] = "start" /\ Len(events') = 1
  <2>1. events \in Seq(Reports) /\ "start" \in Reports
    BY Parts DEF Reports
  <2> QED BY <1>1, <2>1, AppendFacts
<1>4. TypeOK'
  <2>1. regs' \subseteq 1..epoch /\ foldq' \in Nat
    <3>1. epoch # 0
      BY Parts DEF RelayPart, EpochStarted
    <3> QED BY <1>1, <3>1, Numbers
  <2> QED BY <1>1, <1>3, <2>1, Parts DEF TypeOK, Reports
<1>5. /\ step \in {"AwaitingOpen", "Ended"}
      /\ step = "AwaitingOpen" => OpenUnderWay
  BY <1>1, <1>2, Parts DEF RelayPart, InStep, TypeOK, OpenLane, ShutLane, CloseDelivered, CloseTaken,
                           OpenAsked, OpenStarted, OpenFailed
<1>6. RelayPart'
  <2>1. FramesFit' /\ RelayHolds' /\ EpochStarted'
    BY <1>1, <1>5, Parts DEF RelayPart, FramesFit, EpochStarted, RelayHolds
  <2>2. Unread'
    BY <1>1, <1>2, <1>3, <1>5 DEF Unread, OpenUnderWay
  <2>3. InStep'
    BY <1>1, <1>2, <1>3, <1>5 DEF InStep, OpenUnderWay, OpenStarted
  <2>4. CtlOrder'
    BY <1>1, <1>2 DEF CtlOrder, All
  <2>5. FramesGuarded'
    BY <1>1, <1>2 DEF FramesGuarded
  <2> QED BY <2>1, <2>2, <2>3, <2>4, <2>5 DEF RelayPart
<1>7. SubmitPart'
  BY <1>1, <1>2, Parts DEF SubmitPart, FenceHolds, NoCloseUnderSubmit, AdmittedReady, SubmitsReadBack
<1>8. OpensCounted'
  <2>1. Owed
    BY <1>1, <1>2 DEF Owed
  <2>2. ~Owed'
    BY <1>1, <1>2, <1>3, <1>5 DEF Owed, OpenUnderWay
  <2> QED BY <1>1, <2>1, <2>2, Numbers, Parts DEF OpensCounted
<1>9. CoinPart'
  BY <1>1, <1>2, Parts DEF CoinPart, ReadsCounted, RearmedIsPending, SnapshotTaken, PendingCoinsKept
<1> QED BY <1>4, <1>6, <1>7, <1>8, <1>9 DEF IInv

\* What fits with b fits with no more than b.
LEMMA FewerFit ==
  ASSUME NEW a \in Nat, NEW b \in Nat, NEW m \in Nat, a + b <= m, NEW c \in 0..b
  PROVE  c \in 0..m /\ a + c <= m
OBVIOUS

\* A living, connected processor moves between its loop and its frames.
LEMMA FrameMoves ==
  ASSUME IInv, Alive, conn, proc \in {"loop", "locking", "handling"}, ~drained,
         proc' \in {"loop", "locking", "handling"}, chan' \in 0..chan,
         events' = events \/ events' = Append(events, "error"),
         UNCHANGED <<gate, conn, ctlq, relay, locks, hand, foldq, sub, outgoing>>
  PROVE  /\ events' \in Seq(Reports) /\ chan' \in 0..MaxFrames
         /\ RelayPart' /\ SubmitPart' /\ OpensCounted'
<1>1. All(ctlq, "Connected")
  BY Parts DEF RelayPart, FramesGuarded
<1>2. /\ events' \in Seq(Reports)
      /\ events # <<>> => events' # <<>> /\ events'[1] = events[1]
      /\ All(events, "error") => All(events', "error")
      /\ \A i \in 2..Len(events') : (i \in 2..Len(events) /\ events'[i] = events[i]) \/ events'[i] = "error"
  <2>1. events \in Seq(Reports) /\ "error" \in Reports /\ Len(events) \in Nat
    BY Parts, LenProperties DEF Reports
  <2>2. CASE events' = Append(events, "error")
    <3>1. /\ events' \in Seq(Reports) /\ events' # <<>> /\ (events # <<>> => events'[1] = events[1])
          /\ \A x : All(events', x) <=> All(events, x) /\ "error" = x
          /\ Len(events') = Len(events) + 1
          /\ \A i \in 1..Len(events) : events'[i] = events[i]
          /\ events'[Len(events) + 1] = "error"
      BY <2>1, <2>2, AppendFacts
    <3> QED BY <2>1, <3>1
  <2> QED BY <2>1, <2>2
<1>3. step \in {"AwaitingOpen", "Idle", "Draining", "Ended"}
  BY Parts DEF RelayPart, InStep, TypeOK, CloseDelivered, CloseTaken
<1>4. step = "AwaitingOpen" => OpenStarted
  BY Parts DEF RelayPart, InStep, OpenAsked, OpenUnderWay, OpenFailed
<1>5. chan' \in 0..MaxFrames /\ hand + chan' <= MaxFrames
  <2>1. hand \in Nat /\ chan \in Nat /\ MaxFrames \in Nat
    BY LaneBounds, Numbers
  <2>2. hand + chan <= MaxFrames
    BY Parts DEF RelayPart, FramesFit
  <2>3. chan' \in 0..chan
    OBVIOUS
  <2> QED BY <2>1, <2>2, <2>3, FewerFit
<1>6. RelayPart'
  <2>1. FramesFit' /\ RelayHolds' /\ EpochStarted'
    BY <1>5, Parts DEF RelayPart, FramesFit, EpochStarted, RelayHolds, Severed
  <2>2. Unread'
    <3>1. CASE step \in {"Idle", "Draining"}
      BY <1>2, <3>1, Parts DEF RelayPart, Unread
    <3>2. CASE step = "AwaitingOpen"
      <4>1. events # <<>> /\ events[1] = "start" /\ \A i \in 2..Len(events) : events[i] = "error"
        BY <1>4, <3>2, Parts DEF RelayPart, Unread, OpenStarted
      <4> QED BY <1>2, <3>2, <4>1 DEF Unread
    <3>3. CASE step = "Ended"
      BY <3>3 DEF Unread
    <3> QED BY <1>3, <3>1, <3>2, <3>3
  <2>3. InStep'
    BY <1>1, <1>2, <1>3, <1>4 DEF InStep, OpenLane, OpenStarted
  <2>4. CtlOrder'
    BY <1>1 DEF CtlOrder, All
  <2>5. FramesGuarded'
    BY <1>1 DEF FramesGuarded
  <2> QED BY <2>1, <2>2, <2>3, <2>4, <2>5 DEF RelayPart
<1>7. SubmitPart'
  BY <1>1, Parts DEF SubmitPart, FenceHolds, NoCloseUnderSubmit, AdmittedReady, SubmitsReadBack
<1>8. OpensCounted'
  <2>1. Owed' => Owed
    BY <1>2, <1>4 DEF Owed, OpenStarted
  <2> QED BY <2>1, Numbers, Parts DEF OpensCounted
<1> QED BY <1>2, <1>5, <1>6, <1>7, <1>8

\* A frame is taken and locked: on a connection, so the `.expect` is not met.
LEMMA FrameStep ==
  ASSUME IInv, TakesFrame \/ LocksFrame
  PROVE  IInv'
<1>1. /\ UNCHANGED <<gate, conn, ctlq, coins, relay, locks, hand, events, foldq, sub, outgoing>>
      /\ proc \in {"loop", "locking"} /\ Alive
      /\ TakesFrame => chan > 0 /\ chan' = chan - 1 /\ proc' = "locking"
      /\ LocksFrame => chan' = chan /\ proc = "locking" /\ (conn => proc' = "handling")
  BY DEF TakesFrame, LocksFrame, Alive
<1>2. ~drained
  BY <1>1, Numbers DEF drained
<1>3. conn /\ proc' \in {"loop", "locking", "handling"} /\ chan' \in 0..chan
  BY <1>1, <1>2, Numbers, Parts DEF RelayPart, FramesGuarded
<1>4. chan' \in 0..MaxFrames /\ RelayPart' /\ SubmitPart' /\ OpensCounted'
  BY <1>1, <1>2, <1>3, FrameMoves
<1>5. TypeOK'
  BY <1>1, <1>3, <1>4, Parts DEF TypeOK
<1>6. CoinPart'
  BY <1>1, <1>3, Parts DEF CoinPart, ReadsCounted, RearmedIsPending, SnapshotTaken, PendingCoinsKept, Alive
<1> QED BY <1>4, <1>5, <1>6 DEF IInv

\* A frame handled may file coins, in the context and in the map.
LEMMA HandlesStep ==
  ASSUME IInv, NEW C \in SUBSET Coins, NEW fails \in BOOLEAN, Handles(C, fails)
  PROVE  IInv'
<1>1. /\ proc = "handling" /\ proc' = "loop" /\ context' = context \cup C /\ pending' = pending \cup (C \ context)
      /\ events' = events \/ events' = Append(events, "error")
      /\ UNCHANGED <<gate, conn, ctlq, chan, at_close, read, relay, locks, hand, foldq, sub, outgoing, adrift>>
  BY DEF Handles
<1>2. Alive /\ ~drained
  BY <1>1 DEF Alive, drained
<1>3. conn /\ All(ctlq, "Connected") /\ chan' \in 0..chan
  BY <1>1, <1>2, Numbers, Parts DEF RelayPart, FramesGuarded
<1>4. /\ events' \in Seq(Reports) /\ RelayPart' /\ SubmitPart' /\ OpensCounted'
  BY <1>1, <1>2, <1>3, FrameMoves
<1>5. TypeOK'
  BY <1>1, <1>4, Parts DEF TypeOK, Reports
<1>6. CoinPart'
  <2>1. ReadsCounted' /\ SnapshotTaken'
    BY <1>1, <1>3, Parts DEF CoinPart, ReadsCounted, SnapshotTaken
  <2>2. RearmedIsPending' /\ PendingCoinsKept'
    BY <1>1, Parts DEF CoinPart, RearmedIsPending, PendingCoinsKept
  <2> QED BY <2>1, <2>2 DEF CoinPart
<1> QED BY <1>4, <1>5, <1>6 DEF IInv

\* The processor's task ends in a panic: the bit stays, and nothing of the
\* relay's waiting is answered any more.
LEMMA DiesStep ==
  ASSUME IInv, Dies
  PROVE  IInv'
<1>1. /\ proc' = "dead"
      /\ UNCHANGED <<gate, conn, ctlq, chan, coins, relay, locks, hand, events, foldq, sub, outgoing>>
  BY DEF Dies
<1>2. TypeOK'
  BY <1>1, Parts DEF TypeOK
<1>3. RelayPart'
  BY <1>1, Parts DEF RelayPart, FramesFit, EpochStarted, RelayHolds, InStep, Unread, CtlOrder, FramesGuarded, Alive, Severed
<1>4. SubmitPart'
  BY <1>1, Parts DEF SubmitPart, FenceHolds, NoCloseUnderSubmit, AdmittedReady, SubmitsReadBack, Alive
<1>5. OpensCounted'
  <2>1. Owed' => Owed
    BY <1>1 DEF Owed, Alive
  <2> QED BY <1>1, <2>1, Numbers, Parts DEF OpensCounted
<1>6. CoinPart'
  BY <1>1, Parts DEF CoinPart, ReadsCounted, RearmedIsPending, SnapshotTaken, PendingCoinsKept, Alive
<1> QED BY <1>2, <1>3, <1>4, <1>5, <1>6 DEF IInv

\* The fold follows a start through.
LEMMA FoldsStep ==
  ASSUME IInv, Folds
  PROVE  IInv'
<1>1. /\ foldq > 0 /\ foldq' = foldq - 1
      /\ counts' \in {counts, [counts EXCEPT !.starts_folded = @ + 1]}
      /\ UNCHANGED <<gate, processor, coins, told, signals, step, closing, locks, hand, events, sub, outgoing>>
  BY DEF Folds
<1>2. /\ counts' \in Counts /\ counts'.opens = counts.opens /\ counts'.opens_failed = counts.opens_failed
      /\ counts'.starts_folded \in {counts.starts_folded, counts.starts_folded + 1}
      /\ counts'.closes_begun = counts.closes_begun
  BY <1>1, Numbers, CountUp
<1>3. foldq' \in Nat
  BY <1>1, Numbers
<1>4. TypeOK'
  BY <1>1, <1>2, <1>3, Parts DEF TypeOK, Counts
<1>5. SubmitPart'
  <2>1. foldq = 0 => FALSE
    BY <1>1
  <2> QED BY <1>1, <2>1, Parts DEF SubmitPart, FenceHolds, NoCloseUnderSubmit, AdmittedReady, SubmitsReadBack, Alive
<1>6. OpensCounted'
  <2>1. Owed' <=> Owed
    BY <1>1 DEF Owed, Alive
  <2>2. counts.starts_folded + counts.opens_failed + foldq + (IF Owed THEN 1 ELSE 0) <= counts.opens
    BY Parts DEF OpensCounted
  <2> QED BY <1>1, <1>2, <2>1, <2>2, Numbers DEF OpensCounted
<1>7. CoinPart'
  BY <1>1, <1>2, Parts DEF CoinPart, ReadsCounted, RearmedIsPending, SnapshotTaken, PendingCoinsKept, Alive
<1> QED BY <1>1, <1>4, <1>5, <1>6, <1>7, RelayFrame DEF IInv

\* A read begins, or a coin of it is re-armed or settled, or a new one filed: only
\* the coins change.
LEMMA CoinStep ==
  ASSUME IInv, CoinPart', UNCHANGED <<gate, processor, relay, locks, hand, events, foldq, sub, outgoing>>,
         context' \subseteq Coins, pending' \subseteq Coins, at_close' \subseteq Coins, adrift' \subseteq Coins,
         read' \in [at : {"none", "counted"}, closes : Nat, done : SUBSET Coins]
  PROVE  IInv'
<1>1. TypeOK'
  BY Parts DEF TypeOK
<1> QED BY <1>1, RelayFrame, SubmitFrame, OpensFrame DEF IInv

\* rearm_pending(): the closes are counted first, and none is under way.
LEMMA ReadBeginsStep ==
  ASSUME IInv, ReadBegins
  PROVE  IInv'
<1>1. /\ ~closing /\ read' = [at |-> "counted", closes |-> counts.closes_begun, done |-> {}]
      /\ UNCHANGED <<gate, processor, context, pending, at_close, relay, locks, hand, events, foldq,
                     sub, outgoing, adrift>>
  BY DEF ReadBegins
<1>2. /\ read' \in [at : {"none", "counted"}, closes : Nat, done : SUBSET Coins]
      /\ read'.closes = counts.closes_begun /\ read'.done = {}
  BY <1>1, Numbers
<1>3. CoinPart'
  <2>1. ReadsCounted'
    BY <1>1, <1>2, Numbers DEF ReadsCounted
  <2> QED BY <1>1, <1>2, <2>1, Parts DEF CoinPart, RearmedIsPending, SnapshotTaken, PendingCoinsKept, Alive
<1> QED BY <1>1, <1>2, <1>3, Parts, CoinStep DEF TypeOK

\* One coin re-armed.
LEMMA ReadRearmsStep ==
  ASSUME IInv, NEW c \in Coins, ReadRearms(c)
  PROVE  IInv'
<1>1. /\ read.at = "counted" /\ pending' = (IF c \in context THEN pending \cup {c} ELSE pending)
      /\ read' = [read EXCEPT !.done = @ \cup {c}]
      /\ UNCHANGED <<gate, processor, context, at_close, relay, locks, hand, events, foldq, sub,
                     outgoing, adrift>>
  BY DEF ReadRearms
<1>2. /\ read' \in [at : {"none", "counted"}, closes : Nat, done : SUBSET Coins]
      /\ read'.closes = read.closes /\ read'.done = read.done \cup {c} /\ read'.at = read.at
  BY <1>1, Parts DEF TypeOK
<1>3. pending \subseteq pending' /\ pending' \subseteq Coins
  BY <1>1, Parts DEF TypeOK
<1>4. CoinPart'
  <2>1. ReadsCounted'
    BY <1>1, <1>2, Parts DEF CoinPart, ReadsCounted
  <2>2. RearmedIsPending'
    BY <1>1, <1>2, <1>3, Parts DEF CoinPart, RearmedIsPending
  <2> QED BY <1>1, <1>3, <2>1, <2>2, Parts DEF CoinPart, SnapshotTaken, PendingCoinsKept, Alive
<1> QED BY <1>1, <1>2, <1>3, <1>4, Parts, CoinStep DEF TypeOK

\* pending_settled_unless_closed(): what leaves the list is in the map.
LEMMA ReadSettlesStep ==
  ASSUME IInv, ReadSettles
  PROVE  IInv'
<1>1. /\ read.at = "counted"
      /\ at_close' = (IF counts.closes_begun = read.closes THEN at_close \ read.done ELSE at_close)
      /\ read' = [at |-> "none", closes |-> 0, done |-> {}]
      /\ UNCHANGED <<gate, processor, context, pending, relay, locks, hand, events, foldq, sub, outgoing, adrift>>
  BY DEF ReadSettles
<1>2. read' \in [at : {"none", "counted"}, closes : Nat, done : SUBSET Coins] /\ read'.at = "none"
  BY <1>1
<1>3. at_close' \subseteq Coins
  BY <1>1, Parts DEF TypeOK
<1>4. CoinPart'
  <2>1. ReadsCounted' /\ RearmedIsPending'
    BY <1>2 DEF ReadsCounted, RearmedIsPending
  <2>2. PendingCoinsKept'
    BY <1>1, Parts DEF CoinPart, PendingCoinsKept, RearmedIsPending
  <2>3. SnapshotTaken'
    <3>1. ASSUME ~retired, Alive, conn, ~All(ctlq, "Connected")
          PROVE  at_close' = at_close
      <4>1. closing
        BY <3>1, CloseOnItsWay
      <4> QED BY <1>1, <4>1, Numbers, Parts DEF CoinPart, ReadsCounted
    <3> QED BY <1>1, <3>1, Parts DEF CoinPart, SnapshotTaken, Alive
  <2> QED BY <2>1, <2>2, <2>3 DEF CoinPart
<1> QED BY <1>1, <1>2, <1>3, <1>4, Parts, CoinStep DEF TypeOK

\* A coin a read files: behind a close on its way it is adrift.
LEMMA ReadFilesStep ==
  ASSUME IInv, NEW c \in Coins, ReadFiles(c)
  PROVE  IInv'
<1>1. /\ context' = context \cup {c} /\ pending' = pending \cup {c}
      /\ adrift' = (IF conn /\ "Disconnected" \in {ctlq[i] : i \in DOMAIN ctlq} THEN adrift \cup {c} ELSE adrift)
      /\ UNCHANGED <<gate, processor, at_close, read, relay, locks, hand, events, foldq, sub, outgoing>>
  BY DEF ReadFiles
<1>2. context' \subseteq Coins /\ pending' \subseteq Coins /\ adrift' \subseteq Coins /\ adrift \subseteq adrift'
  BY <1>1, Parts DEF TypeOK
<1>3. conn /\ ~All(ctlq, "Connected") => c \in adrift'
  <2>1. \A i \in 1..Len(ctlq) : i \in DOMAIN ctlq /\ ctlq[i] \in {"Connected", "Disconnected"}
    BY Parts, ElementOfSeq DEF Signals
  <2> QED BY <1>1, <2>1 DEF All
<1>4. CoinPart'
  <2>1. ReadsCounted'
    BY <1>1, Parts DEF CoinPart, ReadsCounted
  <2>2. RearmedIsPending' /\ PendingCoinsKept'
    BY <1>1, <1>2, Parts DEF CoinPart, RearmedIsPending, PendingCoinsKept
  <2>3. SnapshotTaken'
    BY <1>1, <1>2, <1>3, Parts DEF CoinPart, SnapshotTaken, Alive
  <2> QED BY <2>1, <2>2, <2>3 DEF CoinPart
<1> QED BY <1>1, <1>2, <1>4, Parts, CoinStep DEF TypeOK

\* A coin matures out of the map and the context together.
LEMMA MaturesStep ==
  ASSUME IInv, NEW c \in Coins, Matures(c)
  PROVE  IInv'
<1>1. /\ ctlq = <<>> /\ pending' = pending \ {c} /\ context' = context \ {c}
      /\ UNCHANGED <<gate, processor, at_close, read, relay, locks, hand, events, foldq, sub, outgoing, adrift>>
  BY DEF Matures
<1>2. context' \subseteq Coins /\ pending' \subseteq Coins
  BY <1>1, Parts DEF TypeOK
<1>3. CoinPart'
  <2>1. ReadsCounted'
    BY <1>1, Parts DEF CoinPart, ReadsCounted
  <2>2. RearmedIsPending' /\ PendingCoinsKept'
    BY <1>1, Parts DEF CoinPart, RearmedIsPending, PendingCoinsKept
  <2>3. SnapshotTaken'
    BY <1>1 DEF SnapshotTaken, All
  <2> QED BY <2>1, <2>2, <2>3 DEF CoinPart
<1> QED BY <1>1, <1>2, <1>3, Parts, CoinStep DEF TypeOK

\* retire(): the relay is gone, what it signalled stays on its way, and no submit
\* is under a close it had delivered.
LEMMA RetireStep ==
  ASSUME IInv, Retire
  PROVE  IInv'
<1>1. /\ ~retired /\ retired' = TRUE /\ step' = "Ended" /\ fence' = fence \ {"close"}
      /\ fenceq' = Append(fenceq, "stop") /\ "stop" \in Submits \cup Writers
      /\ UNCHANGED <<epoch, regs, processor, coins, told, signals, closing, counts, hand, events, foldq,
                     sub, outgoing>>
  BY DEF Retire, Writers
<1>2. fenceq' \in Seq(Submits \cup Writers)
  BY <1>1, Parts, AppendFacts
<1>3. TypeOK'
  <2>1. retired' \in BOOLEAN /\ step' \in {"Idle", "AwaitingOpen", "Draining", "AwaitingStop", "Ended"}
    BY <1>1
  <2> QED BY <1>1, <1>2, <2>1, Parts DEF TypeOK
<1>4. RelayPart'
  <2>1. FramesFit' /\ EpochStarted' /\ RelayHolds' /\ Unread' /\ InStep'
    BY <1>1, Parts DEF RelayPart, FramesFit, EpochStarted, RelayHolds, Unread, InStep
  <2>2. CtlOrder' /\ FramesGuarded'
    BY <1>1, Parts DEF RelayPart, CtlOrder, FramesGuarded, Alive, drained
  <2> QED BY <2>1, <2>2 DEF RelayPart
<1>5. SubmitPart'
  <2>1. FenceHolds'
    BY <1>1, LaneWaiters, Parts DEF SubmitPart, FenceHolds, Writers
  <2>2. NoCloseUnderSubmit' /\ AdmittedReady' /\ SubmitsReadBack'
    BY <1>1, Parts DEF SubmitPart, NoCloseUnderSubmit, AdmittedReady, SubmitsReadBack, Alive
  <2> QED BY <2>1, <2>2 DEF SubmitPart
<1>6. OpensCounted'
  <2>1. Owed' => Owed
    BY <1>1 DEF Owed, Alive
  <2> QED BY <1>1, <2>1, Numbers, Parts DEF OpensCounted
<1>7. CoinPart'
  <2>1. ReadsCounted'
    BY <1>1, Parts DEF CoinPart, ReadsCounted
  <2> QED BY <1>1, <2>1 DEF CoinPart, RearmedIsPending, SnapshotTaken, PendingCoinsKept
<1> QED BY <1>3, <1>4, <1>5, <1>6, <1>7 DEF IInv

\* stop_processor(): with the fence alone, so no submit is between its
\* registration and its return.
LEMMA StopProcessorStep ==
  ASSUME IInv, StopProcessor
  PROVE  IInv'
<1>1. /\ "stop" \in fence /\ fence' = {} /\ proc' \in {"stopped", "dead"} /\ chan' \in {0, chan}
      /\ conn' \in {conn, FALSE} /\ outgoing' \in {outgoing, {}} /\ pending' \in {pending, {}}
      /\ proc \in {"loop", "dead"} /\ (proc = "dead" => UNCHANGED <<proc, conn, outgoing, pending, chan>>)
      /\ (proc = "loop" => proc' = "stopped")
      /\ UNCHANGED <<gate, ctlq, context, at_close, read, relay, fenceq, hand, events, foldq, sub, adrift>>
  BY DEF StopProcessor, Disconnect
<1>2. retired /\ fence = {"stop"} /\ step = "Ended"
  BY <1>1, Parts DEF SubmitPart, FenceHolds, Writers, RelayPart, RelayHolds
<1>3. \A s \in Submits : sub[s] \notin Holding
  BY <1>2, LaneWaiters, Parts DEF SubmitPart, FenceHolds
<1>4. TypeOK'
  <2>1. conn' \in BOOLEAN
    BY <1>1, Parts
  <2>2. chan' \in 0..MaxFrames
    BY <1>1, LaneBounds, Parts DEF TypeOK
  <2> QED BY <1>1, <2>1, <2>2, Parts DEF TypeOK
<1>5. RelayPart'
  <2>1. hand' + chan' <= MaxFrames
    BY <1>1, LaneBounds, Numbers, Parts DEF RelayPart, FramesFit
  <2>2. FramesFit' /\ EpochStarted' /\ RelayHolds' /\ Unread'
    BY <1>1, <1>2, <2>1, Parts DEF RelayPart, FramesFit, EpochStarted, RelayHolds, Unread
  <2>3. InStep' /\ CtlOrder' /\ FramesGuarded'
    BY <1>1 DEF InStep, CtlOrder, FramesGuarded, Alive
  <2> QED BY <2>2, <2>3 DEF RelayPart
<1>6. SubmitPart'
  <2>1. FenceHolds'
    BY <1>1, <1>2, <1>3 DEF FenceHolds
  <2> QED BY <1>1, <1>3, <2>1 DEF SubmitPart, NoCloseUnderSubmit, AdmittedReady, SubmitsReadBack, Holding
<1>7. OpensCounted'
  <2>1. Owed' => Owed
    BY <1>1, <1>2 DEF Owed, Alive
  <2> QED BY <1>1, <2>1, Numbers, Parts DEF OpensCounted
<1>8. CoinPart'
  <2>1. ReadsCounted'
    BY <1>1, Parts DEF CoinPart, ReadsCounted
  <2> QED BY <1>1, <1>2, <2>1 DEF CoinPart, RearmedIsPending, SnapshotTaken, PendingCoinsKept
<1> QED BY <1>4, <1>5, <1>6, <1>7, <1>8 DEF IInv

---------------------------------------------------------------------------
(***************************************************************************)
(* The theorems.                                                           *)
(***************************************************************************)

\* A lane as it is built: shut, and perhaps told of a link already up.
LEMMA InitHolds == Init => IInv
<1> SUFFICES ASSUME Init PROVE IInv
  OBVIOUS
<1>1. /\ step = "Idle" /\ closing = FALSE /\ epoch = 1 /\ regs = {} /\ retired = FALSE
      /\ hand = 0 /\ chan = 0 /\ proc = "loop" /\ conn = FALSE /\ ctlq = <<>> /\ events = <<>> /\ foldq = 0
      /\ fenceq = <<>> /\ fence = {} /\ outgoing = {} /\ context = {} /\ pending = {} /\ at_close = {}
      /\ adrift = {} /\ \A s \in Submits : sub[s] = "idle"
  BY DEF Init
<1>2. counts \in Counts /\ counts.opens = 0 /\ counts.opens_failed = 0 /\ counts.starts_folded = 0
  BY DEF Init, Counts
<1>3. /\ read \in [at : {"none", "counted"}, closes : Nat, done : SUBSET Coins] /\ read.at = "none"
  BY DEF Init
<1>4. TypeOK
  <2>1. told \in Seq(Signals) /\ Len(told) \in {0, 1} /\ signals = Len(told)
    <3>1. told = <<>> \/ told = <<"Connected">>
      BY DEF Init
    <3>2. <<>> \in Seq(Signals) /\ Len(<<>>) = 0
      OBVIOUS
    <3>3. <<"Connected">> \in Seq(Signals) /\ Len(<<"Connected">>) = 1
      BY DEF Signals
    <3> QED BY <3>1, <3>2, <3>3 DEF Init
  <2>2. closing \in BOOLEAN /\ retired \in BOOLEAN /\ conn \in BOOLEAN
    BY <1>1
  <2>3. sub \in [Submits -> {"idle", "asking", "queued", "waiting", "admitted", "out"}]
    BY DEF Init
  <2>4. signals \in 0..MaxSignals
    BY <2>1, LaneBounds
  <2> QED BY <1>1, <1>2, <1>3, <2>1, <2>2, <2>3, <2>4, LaneBounds DEF TypeOK, Signals, Counts
<1>5. RelayPart
  <2>1. InStep
    BY <1>1 DEF InStep, ShutLane, drained, Severed, All
  <2>2. FramesFit /\ EpochStarted /\ RelayHolds /\ Unread /\ CtlOrder /\ FramesGuarded
    BY <1>1, LaneBounds DEF FramesFit, EpochStarted, RelayHolds, Unread, CtlOrder, FramesGuarded, drained, All
  <2> QED BY <2>1, <2>2 DEF RelayPart
<1>6. SubmitPart
  BY <1>1 DEF SubmitPart, FenceHolds, NoCloseUnderSubmit, AdmittedReady, SubmitsReadBack, Holding
<1>7. OpensCounted
  <2>1. ~Owed
    BY <1>1 DEF Owed
  <2> QED BY <1>1, <1>2, <2>1 DEF OpensCounted
<1>8. CoinPart
  BY <1>1, <1>3 DEF CoinPart, ReadsCounted, RearmedIsPending, SnapshotTaken, PendingCoinsKept
<1> QED BY <1>4, <1>5, <1>6, <1>7, <1>8 DEF IInv

\* Every step of the relay, the submits, the processor, the fold and the reads
\* keeps the invariant.
LEMMA NextHolds == IInv /\ [Next]_vars => IInv'
<1> SUFFICES ASSUME IInv, [Next]_vars PROVE IInv'
  OBVIOUS
<1>1. CASE \E e \in regs : Admit(e)
  BY <1>1, AdmitStep
<1>2. CASE \E state \in {"Connected", "Disconnected"} : Announce(state)
  BY <1>2, AnnounceStep DEF Signals
<1>3. CASE Relaying
  BY <1>3, RelayOpenStep, RelayCloseBeginStep, RelayDeliverStep, RelayHearsStep, CloseClaimsStep,
     WriterGrantedStep DEF Relaying
<1>4. CASE \E s \in Submits : Submitting(s)
  BY <1>4, AdmissionStep, SubmitsStep DEF Submitting
<1>5. CASE TakesCtl
  <2>1. Head(ctlq) \in Signals
    BY <1>5, Parts, TailFacts DEF TakesCtl
  <2> QED BY <1>5, <2>1, IgnoresCtlStep, TakesOpenStep, TakesCloseStep, Parts DEF Signals
<1>6. CASE Processing
  BY <1>5, <1>6, NegotiatesStep, NegotiationFailsStep, StartsStep, FrameStep, HandlesStep DEF Processing
<1>7. CASE \E c \in Coins : ReadRearms(c) \/ ReadFiles(c) \/ Matures(c)
  BY <1>7, ReadRearmsStep, ReadFilesStep, MaturesStep
<1>8. CASE UNCHANGED vars
  <2>1. TypeOK'
    BY <1>8, Parts DEF vars, TypeOK
  <2>2. UNCHANGED <<gate, processor, coins, relay, locks, hand, events, foldq, sub, outgoing>>
    BY <1>8 DEF vars
  <2> QED BY <2>1, <2>2, RelayFrame, SubmitFrame, OpensFrame, CoinFrame DEF IInv
<1> QED BY <1>1, <1>2, <1>3, <1>4, <1>6, <1>7, <1>8, ForwardStep, DiesStep, FoldsStep, ReadBeginsStep,
      ReadSettlesStep, RetireStep, StopProcessorStep DEF Next

\* The inductive invariant holds throughout, for any submits, coins, transitions
\* and frames.
THEOREM LaneInductive == Spec => []IInv
  BY InitHolds, NextHolds, PTL DEF Spec

\* No `UtxosChanged` is with a living processor that reads disconnected.
THEOREM NoFrameMeetsADisconnect == Spec => []FramesMeetAConnection
<1>1. IInv => FramesMeetAConnection
  BY DEF IInv, RelayPart, FramesGuarded, FramesMeetAConnection, Alive, processor_ended
<1> QED BY <1>1, LaneInductive, PTL

\* Each submit in flight was registered after the reopen was followed through,
\* and its record is still there to be read back, through closes, stops and
\* replacements.
THEOREM LaneIsConsistent == Spec => []LaneInv
<1>1. IInv => LaneInv
  <2> SUFFICES ASSUME IInv PROVE LaneInv
    OBVIOUS
  <2>1. SubmitsFollowTheReopen
    BY Parts DEF SubmitPart, AdmittedReady, SubmitsFollowTheReopen, Held
  <2> QED BY <2>1, Parts DEF SubmitPart, LaneInv
<1> QED BY <1>1, LaneInductive, PTL

\* No pending coin is lost between a close's snapshot and the reads that re-arm
\* from it, but for one filed behind the snapshot.
THEOREM PendingCoinsAreKept == Spec => []PendingCoinsKept
<1>1. IInv => PendingCoinsKept
  BY DEF IInv, CoinPart
<1> QED BY <1>1, LaneInductive, PTL

---------------------------------------------------------------------------
(***************************************************************************)
(* The acceptance tracker.                                                 *)
(***************************************************************************)

\* Blocks of one selected chain, such as a chain change removes or adds.
OneChain(S) == \E b \in Blocks : S \subseteq Chain[b]

\* What the feed carries: batches of chain changes and the message walk's pages.
Pages == {p \in [kind : {"walk"}, removed : SUBSET Blocks, added : SUBSET Blocks, to : Blocks] : OneChain(p.added)}
Deliveries ==
  Pages \cup {d \in [kind : {"vcc"}, removed : SUBSET Blocks, added : SUBSET Blocks] : OneChain(d.added)}

Walks == [pc : {"off", "page", "fold", "drain"}, at : Blocks \cup {None}, clean : BOOLEAN, pages : Nat]

BatchFolds ==
  {f \in [by : {"none", "live", "walk"}, added : SUBSET Blocks, todo : SUBSET Blocks, seen : SUBSET Txids,
          complete : BOOLEAN] : OneChain(f.added) /\ f.todo \subseteq f.added}

Words == [st : {"accepted", "displaced"}, at : Blocks]

\* The types, of the queues and the records whole.
Shapes ==
  /\ Messages \subseteq Txids /\ feed \in Seq(Deliveries) /\ held \in Seq(Deliveries) /\ page \in {None} \cup Pages
  /\ walk \in Walks /\ fold \in BatchFolds /\ memory \in [Messages -> {None} \cup Words]

TrackerIInv == TrackerInv /\ Shapes

\* A record is never None: an acceptance that was written is one.
LEMMA RecordsAreSome ==
  /\ \A b \in Blocks, s \in Nat : Accepted(b, s) # None /\ Accepted(b, s) \in Records
  /\ \A b \in Blocks \cup {None} : Displaced(b) \in Records
  /\ \A r \in Records : r # None => /\ Finalized(r) \in Records /\ Finalized(r).st = "finalized"
                                    /\ r.at \in Blocks \cup {None}
  /\ Submitted \in Records /\ None \in Records
<1>1. \A b \in Blocks, s \in Nat : Accepted(b, s) # None /\ Accepted(b, s) \in Records
  <2> TAKE b \in Blocks, s \in Nat
  <2>1. Accepted(b, s) \in [st : {"submitted", "accepted", "displaced", "finalized"},
                            at : Blocks \cup {None}, score : Nat]
    BY DEF Accepted
  <2> QED BY <2>1, NoneIsNoRecord DEF Records
<1>2. \A b \in Blocks \cup {None} : Displaced(b) \in Records
  BY DEF Displaced, Records
<1>3. Submitted \in Records /\ None \in Records
  BY DEF Submitted, Records
<1>4. ASSUME NEW r \in Records, r # None
      PROVE  Finalized(r) \in Records /\ Finalized(r).st = "finalized" /\ r.at \in Blocks \cup {None}
  <2>1. r \in [st : {"submitted", "accepted", "displaced", "finalized"}, at : Blocks \cup {None}, score : Nat]
    BY <1>4 DEF Records
  <2>2. Finalized(r) \in [st : {"submitted", "accepted", "displaced", "finalized"},
                          at : Blocks \cup {None}, score : Nat]
    BY <2>1 DEF Finalized
  <2>3. Finalized(r).st = "finalized"
    BY <2>1 DEF Finalized
  <2> QED BY <2>1, <2>2, <2>3 DEF Records
<1> QED BY <1>1, <1>2, <1>3, <1>4

\* Among blocks of one chain there is a last one and a first one.
LEMMA LastOfChain ==
  ASSUME NEW S, OneChain(S), S # {}
  PROVE  Last(S) \in S /\ \A c \in S : Score[c] <= Score[Last(S)]
<1>1. PICK b \in Blocks : S \subseteq Chain[b]
  BY DEF OneChain
<1>2. Score[b] \in Nat /\ \A c \in S : Score[c] \in Nat /\ Score[c] <= Score[b]
  BY <1>1, ChainIsATree
<1> DEFINE D == {Score[b] - Score[c] : c \in S}
           R == OpToRel(<, Nat)
<1>3. D \in SUBSET Nat /\ D # {}
  <2>1. \A c \in S : Score[b] - Score[c] \in Nat
    BY <1>2
  <2>2. \A d \in D : d \in Nat
    BY <2>1
  <2> QED BY <2>2
<1>4. PICK d \in D : \A e \in D : ~(<<e, d>> \in R)
  <2>1. IsWellFoundedOn(R, Nat)
    BY NatLessThanWellFounded
  <2> QED BY <1>3, <2>1, WFMin
<1>5. PICK c \in S : d = Score[b] - Score[c]
  OBVIOUS
<1>6. \A m, n \in Nat : n < m => <<n, m>> \in R
  BY DEF OpToRel
<1>7. ASSUME NEW e \in S PROVE Score[e] <= Score[c]
  <2>1. Score[b] - Score[e] \in D
    OBVIOUS
  <2>2. ~(Score[b] - Score[e] < Score[b] - Score[c])
    BY <1>3, <1>4, <1>5, <1>6, <2>1
  <2> QED BY <1>2, <2>2
<1> QED BY <1>7 DEF Last

LEMMA FirstOfChain ==
  ASSUME NEW S \in SUBSET Blocks, S # {}
  PROVE  First(S) \in S /\ \A c \in S : Score[First(S)] <= Score[c]
<1> DEFINE D == {Score[c] : c \in S}
           R == OpToRel(<, Nat)
<1>1. D \in SUBSET Nat /\ D # {}
  BY ChainIsATree
<1>2. PICK d \in D : \A e \in D : ~(<<e, d>> \in R)
  <2>1. IsWellFoundedOn(R, Nat)
    BY NatLessThanWellFounded
  <2> QED BY <1>1, <2>1, WFMin
<1>3. \A m, n \in Nat : n < m => <<n, m>> \in R
  BY DEF OpToRel
<1>4. PICK c \in S : d = Score[c]
  OBVIOUS
<1>5. ASSUME NEW e \in S PROVE Score[c] <= Score[e]
  <2>1. ~(Score[e] < Score[c])
    BY <1>1, <1>2, <1>3, <1>4
  <2>2. Score[e] \in Nat /\ Score[c] \in Nat
    BY ChainIsATree
  <2> QED BY <2>1, <2>2
<1> QED BY <1>5 DEF First

\* Blocks on a chain of one that is in the tree, and no block or a subset of some.
LEMMA ChainsAreBlocks ==
  ASSUME NEW b \in Blocks
  PROVE  /\ Chain[b] \subseteq Blocks /\ OneChain(Chain[b]) /\ OneChain({}) /\ Score[b] \in Nat
         /\ \A S : S \subseteq Chain[b] => OneChain(S) /\ S \subseteq Blocks
BY ChainIsATree DEF OneChain

\* What a step has to keep of the log, the index and the tombstones.
LogPart ==
  /\ rec \in [Txids -> Records] /\ index \in [Blocks -> SUBSET Txids] /\ tomb \subseteq Txids
  /\ IndexMatches /\ TombstonesReversed

LEMMA LogOf ==
  ASSUME TrackerIInv
  PROVE  LogPart
BY DEF TrackerIInv, TrackerInv, TrackerTypeOK, LogPart

\* on_removed: what is displaced leaves the index with its record.
LEMMA RemovalKeepsLog ==
  ASSUME LogPart, NEW R \in SUBSET Blocks, NEW F, on_removed(R, F), tomb' = tomb
  PROVE  LogPart'
<1> DEFINE hit == UNION {index[b] : b \in R}
<1>1. /\ F \subseteq hit
      /\ rec' = [t \in Txids |-> IF t \in hit \ F THEN Displaced(rec[t].at) ELSE rec[t]]
      /\ index' = [b \in Blocks |-> IF b \in R THEN index[b] \cap F ELSE index[b]]
  BY DEF on_removed
<1>2. hit \subseteq Txids /\ \A t \in Txids : t \in hit <=> IsAccepted(t) /\ rec[t].at \in R
  BY DEF LogPart, IndexMatches
<1>3. ASSUME NEW t \in hit PROVE Displaced(rec[t].at) \in Records /\ Displaced(rec[t].at).st = "displaced"
  <2>1. rec[t] \in Records /\ rec[t] # None
    BY <1>2, <1>3 DEF LogPart, IsAccepted
  <2> QED BY <2>1, RecordsAreSome DEF Displaced
<1> HIDE DEF hit
<1>4. rec' \in [Txids -> Records] /\ index' \in [Blocks -> SUBSET Txids]
  BY <1>1, <1>3 DEF LogPart
<1>5. \A t \in Txids : IsAccepted(t)' <=> IsAccepted(t) /\ t \notin hit \ F
  BY <1>1, <1>3 DEF IsAccepted
<1>6. \A t \in Txids : IsAccepted(t)' => rec'[t] = rec[t]
  BY <1>1, <1>5
<1>7. \A b \in Blocks : index'[b] = {t \in Txids : IsAccepted(t)' /\ rec'[t].at = b}
  <2> TAKE b \in Blocks
  <2>1. index[b] = {t \in Txids : IsAccepted(t) /\ rec[t].at = b}
    BY DEF LogPart, IndexMatches
  <2> QED BY <1>1, <1>2, <1>5, <1>6, <2>1
<1>8. TombstonesReversed'
  BY <1>5 DEF LogPart, TombstonesReversed
<1> QED BY <1>4, <1>7, <1>8 DEF LogPart, IndexMatches

\* on_accepted: what lands is in its block's entry, and in no other.
LEMMA AcceptanceKeepsLog ==
  ASSUME LogPart, NEW b \in Blocks, NEW s \in Nat, NEW T \in SUBSET Txids, NEW F, on_accepted(b, s, T, F)
  PROVE  LogPart' /\ ahead' \subseteq ahead
<1> DEFINE landed == Moved(b, T) \ F
<1>1. /\ rec' = [t \in Txids |-> IF t \in landed THEN Accepted(b, s) ELSE rec[t]]
      /\ index' = [c \in Blocks |-> IF c = b THEN index[c] \cup landed ELSE index[c] \ landed]
      /\ ahead' = ahead \ landed /\ tomb' = tomb \ landed
  BY DEF on_accepted
<1>2. landed \subseteq Txids
  BY DEF Moved
<1>3. Accepted(b, s) # None /\ Accepted(b, s) \in Records /\ Accepted(b, s).st = "accepted" /\ Accepted(b, s).at = b
  BY RecordsAreSome DEF Accepted
<1> HIDE DEF landed
<1>4. rec' \in [Txids -> Records] /\ index' \in [Blocks -> SUBSET Txids]
  BY <1>1, <1>2, <1>3 DEF LogPart
<1>5. \A t \in Txids : IF t \in landed THEN IsAccepted(t)' /\ rec'[t].at = b
                       ELSE rec'[t] = rec[t] /\ (IsAccepted(t)' <=> IsAccepted(t))
  BY <1>1, <1>3 DEF IsAccepted
<1>6. \A c \in Blocks : index'[c] = {t \in Txids : IsAccepted(t)' /\ rec'[t].at = c}
  <2> TAKE c \in Blocks
  <2>1. index[c] = {t \in Txids : IsAccepted(t) /\ rec[t].at = c}
    BY DEF LogPart, IndexMatches
  <2> QED BY <1>1, <1>2, <1>5, <2>1
<1>7. TombstonesReversed' /\ tomb' \subseteq Txids
  BY <1>1, <1>5 DEF LogPart, TombstonesReversed
<1> QED BY <1>1, <1>4, <1>6, <1>7 DEF LogPart, IndexMatches

\* The log left alone.
LEMMA LogStands ==
  ASSUME LogPart, rec' = rec, index' = index, tomb' = tomb
  PROVE  LogPart'
BY DEF LogPart, IndexMatches, TombstonesReversed, IsAccepted

\* The types of the rest.
OtherTypes ==
  /\ sink \in Blocks /\ up \in BOOLEAN /\ reconn \in BOOLEAN /\ mpos \in Blocks /\ known \subseteq Messages
  /\ cursor \in Blocks \cup {None} /\ ahead \subseteq Sends /\ off \subseteq Blocks
  /\ sinkBlue \in Nat /\ frozen \in BOOLEAN /\ owed \in BOOLEAN
  /\ late \subseteq Sends /\ torn \in BOOLEAN /\ missed \in BOOLEAN

\* The three parts make the invariant.
LEMMA PartsOfTracker ==
  TrackerIInv <=> LogPart /\ OtherTypes /\ Shapes
<1>1. walk \in Walks => walk.pc \in {"off", "page", "fold", "drain"} /\ walk.at \in Blocks \cup {None}
  BY DEF Walks
<1>2. fold \in BatchFolds => /\ fold.by \in {"none", "live", "walk"} /\ fold.todo \subseteq fold.added
                        /\ fold.added \subseteq Blocks
  BY DEF BatchFolds
<1> QED BY <1>1, <1>2 DEF TrackerIInv, TrackerInv, TrackerTypeOK, LogPart, OtherTypes, Shapes

LEMMA NextParts ==
  ASSUME LogPart', OtherTypes', Shapes'
  PROVE  TrackerIInv'
<1>1. walk' \in Walks => walk'.pc \in {"off", "page", "fold", "drain"} /\ walk'.at \in Blocks \cup {None}
  BY DEF Walks
<1>2. fold' \in BatchFolds => /\ fold'.by \in {"none", "live", "walk"} /\ fold'.todo \subseteq fold'.added
                         /\ fold'.added \subseteq Blocks
  BY DEF BatchFolds
<1> QED BY <1>1, <1>2 DEF TrackerIInv, TrackerInv, TrackerTypeOK, LogPart, OtherTypes, Shapes

\* The front of a queue of deliveries is one, and the rest is such a queue.
LEMMA FrontOfQueue ==
  ASSUME NEW q \in Seq(Deliveries), q # <<>>
  PROVE  /\ Head(q) \in Deliveries /\ Tail(q) \in Seq(Deliveries)
         /\ Head(q).added \subseteq Blocks /\ Head(q).removed \subseteq Blocks /\ OneChain(Head(q).added)
<1>1. Head(q) \in Deliveries /\ Tail(q) \in Seq(Deliveries)
  BY HeadTailProperties
<1>2. \A d \in Deliveries : d.added \subseteq Blocks /\ d.removed \subseteq Blocks /\ OneChain(d.added)
  BY DEF Deliveries, Pages
<1> QED BY <1>1, <1>2

\* The idle values are of their types.
LEMMA IdleShapes ==
  /\ NoFold \in BatchFolds
  /\ \A c \in Blocks \cup {None} : /\ [NoWalk EXCEPT !.pc = "drain"] \in Walks /\ NoWalk \in Walks
                                   /\ [NoWalk EXCEPT !.pc = "page", !.at = c] \in Walks
<1>1. OneChain({})
  BY ChainIsATree DEF OneChain
<1>2. NoFold \in BatchFolds
  BY <1>1 DEF NoFold, BatchFolds
<1> QED BY <1>2 DEF NoWalk, Walks

\* A fold's beginning: removals are written, and what it is to fold is of one chain.
LEMMA FoldBeginsKeeps ==
  ASSUME LogPart, OtherTypes, tomb' = tomb, NEW who \in {"live", "walk"}, NEW d, FoldBegins(who, d),
         d.added \subseteq Blocks, d.removed \subseteq Blocks, OneChain(d.added)
  PROVE  LogPart' /\ fold' \in BatchFolds /\ off' \subseteq Blocks /\ missed' \in BOOLEAN /\ ahead' = ahead
<1> DEFINE seen == {t \in Txids : rec[t] # None}
<1>1. PICK F : /\ on_removed(d.removed, F)
               /\ off' = (off \cup d.removed) \ d.added
               /\ missed' = (missed \/ \E t \in F : cursor = None \/ rec[t].at \notin Chain[cursor])
               /\ fold' = [by |-> who, added |-> d.added, complete |-> F = {}, seen |-> seen,
                           todo |-> {b \in d.added : Accepts[b] \cap seen # {}}]
               /\ ahead' = ahead
  BY DEF FoldBegins
<1>2. LogPart'
  BY <1>1, RemovalKeepsLog
<1>3. fold' \in BatchFolds
  <2>1. seen \in SUBSET Txids /\ {b \in d.added : Accepts[b] \cap seen # {}} \subseteq d.added
    OBVIOUS
  <2> HIDE DEF seen
  <2> QED BY <1>1, <2>1 DEF BatchFolds
<1>4. off' \subseteq Blocks
  BY <1>1 DEF OtherTypes
<1>5. missed' \in BOOLEAN
  BY <1>1 DEF OtherTypes
<1> QED BY <1>1, <1>2, <1>3, <1>4, <1>5

\* The cursor's write leaves it on a block, or alone.
LEMMA CursorWritten ==
  ASSUME OtherTypes, NEW b \in Blocks \cup {None}, NEW force \in BOOLEAN, NEW was \in BOOLEAN, write_cursor(b, force, was)
  PROVE  cursor' \in Blocks \cup {None} /\ owed' \in BOOLEAN
BY DEF OtherTypes, write_cursor

LEMMA TakesBatchKeeps ==
  ASSUME TrackerIInv, TakesBatch
  PROVE  TrackerIInv'
<1>1. LogPart /\ OtherTypes /\ Shapes
  BY PartsOfTracker
<1>2. PICK d : /\ d \in Deliveries /\ d.added \subseteq Blocks /\ d.removed \subseteq Blocks /\ OneChain(d.added)
               /\ FoldBegins("live", d) /\ feed' \in Seq(Deliveries) /\ held' \in Seq(Deliveries)
  <2>1. CASE feed # <<>> /\ FoldBegins("live", Head(feed)) /\ feed' = Tail(feed) /\ held' = held
    <3>1. feed \in Seq(Deliveries) /\ held \in Seq(Deliveries)
      BY <1>1 DEF Shapes
    <3> QED BY <2>1, <3>1, FrontOfQueue
  <2>2. CASE held # <<>> /\ FoldBegins("live", Head(held)) /\ held' = Tail(held) /\ feed' = feed
    <3>1. feed \in Seq(Deliveries) /\ held \in Seq(Deliveries)
      BY <1>1 DEF Shapes
    <3> QED BY <2>2, <3>1, FrontOfQueue
  <2> QED BY <2>1, <2>2 DEF TakesBatch
<1>3. /\ UNCHANGED <<Messages, sink, up, reconn, page, mpos, known, cursor, sinkBlue, memory, frozen, owed, walk, again, tomb, late>>
      /\ torn' = (torn \/ reconn \/ again)
  BY DEF TakesBatch, hold
<1>4. LogPart' /\ fold' \in BatchFolds /\ off' \subseteq Blocks /\ missed' \in BOOLEAN /\ ahead' = ahead
  BY <1>1, <1>2, <1>3, FoldBeginsKeeps
<1>5. OtherTypes'
  <2>1. torn' \in BOOLEAN
    BY <1>3
  <2> QED BY <1>1, <1>3, <1>4, <2>1 DEF OtherTypes, Sends
<1>6. Shapes'
  BY <1>1, <1>2, <1>3, <1>4 DEF Shapes
<1> QED BY <1>4, <1>5, <1>6, NextParts

LEMMA WalkPageKeeps ==
  ASSUME TrackerIInv, WalkPage
  PROVE  TrackerIInv'
<1>1. LogPart /\ OtherTypes /\ Shapes
  BY PartsOfTracker
<1> DEFINE d == PageOf(walk.at)
<1>2. FoldBegins("walk", d) /\ walk' = [walk EXCEPT !.pc = "fold"]
  BY DEF WalkPage
<1>3. UNCHANGED <<Messages, sink, up, reconn, feed, page, mpos, known, cursor, sinkBlue, memory, frozen, owed, again, held, tomb, late, torn>>
  BY DEF WalkPage, node, hold
<1>4. d.added \subseteq Blocks /\ d.removed \subseteq Blocks /\ OneChain(d.added)
  <2>1. walk.at \in Blocks /\ sink \in Blocks
    BY <1>1 DEF WalkPage, Shapes, Walks, OtherTypes
  <2>2. d.added \subseteq Chain[sink] /\ d.removed \subseteq Chain[walk.at]
    BY DEF PageOf
  <2> QED BY <2>1, <2>2, ChainsAreBlocks
<1> HIDE DEF d
<1>5. LogPart' /\ fold' \in BatchFolds /\ off' \subseteq Blocks /\ missed' \in BOOLEAN /\ ahead' = ahead
  BY <1>1, <1>2, <1>3, <1>4, FoldBeginsKeeps
<1>6. OtherTypes'
  BY <1>1, <1>3, <1>5 DEF OtherTypes, Sends
<1>7. Shapes'
  <2>1. walk' \in Walks
    BY <1>1, <1>2 DEF Shapes, Walks
  <2> QED BY <1>1, <1>3, <1>5, <2>1 DEF Shapes
<1> QED BY <1>5, <1>6, <1>7, NextParts

LEMMA FoldBlockKeeps ==
  ASSUME TrackerIInv, FoldBlock
  PROVE  TrackerIInv'
<1>1. LogPart /\ OtherTypes /\ Shapes
  BY PartsOfTracker
<1> DEFINE b == First(fold.todo)
           T == Accepts[b] \cap fold.seen
<1>2. UNCHANGED <<Messages, sink, up, reconn, feed, page, mpos, known, cursor, off, memory, frozen, owed, walk, again, held, late, torn, missed>>
  BY DEF FoldBlock, node, hold
<1>3. fold \in BatchFolds /\ b \in Blocks /\ T \in SUBSET Txids
  <2>1. fold \in BatchFolds
    BY <1>1 DEF Shapes
  <2>2. fold.todo \in SUBSET Blocks /\ fold.todo # {} /\ fold.seen \subseteq Txids
    BY <2>1 DEF FoldBlock, BatchFolds
  <2> QED BY <2>1, <2>2, FirstOfChain
<1>4. fold' \in BatchFolds
  <2>1. \/ fold' = [fold EXCEPT !.todo = @ \ {b}]
        \/ fold' = [fold EXCEPT !.todo = @ \ {b}, !.complete = FALSE]
        \/ fold' = [fold EXCEPT !.todo = @ \ {b}, !.complete = @ /\ T = {}]
    BY DEF FoldBlock
  <2> HIDE DEF b, T
  <2> QED BY <1>3, <2>1 DEF BatchFolds
<1>5. LogPart' /\ ahead' \subseteq ahead /\ sinkBlue' \in Nat
  <2>1. CASE \E s \in {Score[c] : c \in Blocks} : read_accepting_block(b, s) /\ on_accepted(b, s, T, {})
    <3>1. PICK s \in {Score[c] : c \in Blocks} : read_accepting_block(b, s) /\ on_accepted(b, s, T, {})
      BY <2>1
    <3>2. s \in Nat
      BY ChainIsATree
    <3>3. sinkBlue' \in Nat
      BY <1>1, <3>1, <3>2 DEF read_accepting_block, OtherTypes
    <3> QED BY <1>1, <1>3, <3>1, <3>2, <3>3, AcceptanceKeepsLog
  <2>2. CASE (\E F \in (SUBSET T) \ {{}} : on_accepted(b, Score[b], T, F)) /\ sinkBlue' = sinkBlue
    <3>1. Score[b] \in Nat
      BY <1>3, ChainIsATree
    <3>2. PICK F : on_accepted(b, Score[b], T, F)
      BY <2>2
    <3>3. LogPart' /\ ahead' \subseteq ahead
      BY <1>1, <1>3, <3>1, <3>2, AcceptanceKeepsLog
    <3> QED BY <1>1, <2>2, <3>3 DEF OtherTypes
  <2>3. CASE UNCHANGED <<rec, index, ahead, tomb, sinkBlue>>
    BY <1>1, <2>3, LogStands DEF OtherTypes
  <2> QED BY <2>1, <2>2, <2>3 DEF FoldBlock
<1>6. OtherTypes'
  BY <1>1, <1>2, <1>5 DEF OtherTypes, Sends
<1>7. Shapes'
  BY <1>1, <1>2, <1>4 DEF Shapes
<1> QED BY <1>5, <1>6, <1>7, NextParts

LEMMA FoldLiveKeeps ==
  ASSUME TrackerIInv, FoldLive
  PROVE  TrackerIInv'
<1>1. LogPart /\ OtherTypes /\ Shapes
  BY PartsOfTracker
<1>2. /\ UNCHANGED <<Messages, sink, up, reconn, feed, page, mpos, known, rec, index, ahead, off, sinkBlue, memory, walk, again, held, tomb, late, torn>>
      /\ fold' = NoFold
      /\ missed' = (missed \/ (~fold.complete /\ cursor # None /\ fold.added \cap Chain[cursor] # {}))
  BY DEF FoldLive, node, maps
<1>3. cursor' \in Blocks \cup {None} /\ owed' \in BOOLEAN /\ frozen' \in BOOLEAN
  <2>1. CASE UNCHANGED <<cursor, owed>> /\ frozen' \in {TRUE, frozen}
    BY <1>1, <2>1 DEF OtherTypes
  <2>2. CASE fold.added # {} /\ write_cursor(Last(fold.added), Carries \/ owed, FALSE) /\ UNCHANGED frozen
    <3>1. Last(fold.added) \in Blocks
      <4>1. OneChain(fold.added) /\ fold.added \subseteq Blocks
        BY <1>1 DEF Shapes, BatchFolds
      <4> QED BY <2>2, <4>1, LastOfChain
    <3>2. (Carries \/ owed) \in BOOLEAN
      BY DEF Carries
    <3> QED BY <1>1, <2>2, <3>1, <3>2, CursorWritten DEF OtherTypes
  <2> QED BY <2>1, <2>2 DEF FoldLive, hold
<1>4. LogPart'
  BY <1>1, <1>2, LogStands
<1>5. OtherTypes'
  BY <1>1, <1>2, <1>3 DEF OtherTypes, Sends
<1>6. Shapes'
  BY <1>1, <1>2, IdleShapes DEF Shapes
<1> QED BY <1>4, <1>5, <1>6, NextParts

LEMMA HoldsBackKeeps ==
  ASSUME TrackerIInv, HoldsBack
  PROVE  TrackerIInv'
<1>1. LogPart /\ OtherTypes /\ Shapes
  BY PartsOfTracker
<1> DEFINE due == {t \in Txids : /\ awaits_first_acceptance(t) /\ Head(feed).kind = "vcc"
                                 /\ \E b \in Head(feed).added : t \in Accepts[b]}
<1>2. /\ UNCHANGED <<Messages, sink, up, reconn, page, mpos, known, rec, cursor, index, off, memory, frozen, owed, walk, again, fold, tomb, late, torn, missed>>
      /\ feed # <<>> /\ feed' = Tail(feed) /\ held' = Append(held, Head(feed))
  BY DEF HoldsBack, hold, disk, hist
<1>3. ahead' \subseteq Sends /\ sinkBlue' \in Nat
  <2>1. due \subseteq Sends
    BY DEF awaits_first_acceptance
  <2>2. ahead' \in {ahead, ahead \cup due} /\ sinkBlue' \in {sinkBlue, Score[sink]}
    BY DEF HoldsBack
  <2> HIDE DEF due
  <2>3. Score[sink] \in Nat
    BY <1>1, ChainIsATree DEF OtherTypes
  <2> QED BY <1>1, <2>1, <2>2, <2>3 DEF OtherTypes
<1>4. feed' \in Seq(Deliveries) /\ held' \in Seq(Deliveries)
  <2>1. feed \in Seq(Deliveries) /\ held \in Seq(Deliveries)
    BY <1>1 DEF Shapes
  <2>2. Head(feed) \in Deliveries /\ Tail(feed) \in Seq(Deliveries)
    BY <1>2, <2>1, FrontOfQueue
  <2> QED BY <1>2, <2>1, <2>2, AppendProperties
<1>5. LogPart'
  BY <1>1, <1>2, LogStands
<1>6. OtherTypes'
  BY <1>1, <1>2, <1>3 DEF OtherTypes, Sends
<1>7. Shapes'
  BY <1>1, <1>2, <1>4 DEF Shapes
<1> QED BY <1>5, <1>6, <1>7, NextParts

LEMMA WalkSeedsKeeps ==
  ASSUME TrackerIInv, WalkSeeds
  PROVE  TrackerIInv'
<1>1. LogPart /\ OtherTypes /\ Shapes
  BY PartsOfTracker
<1>2. /\ UNCHANGED <<Messages, sink, up, reconn, feed, page, mpos, known, rec, index, ahead, off, sinkBlue, memory, again, held, fold, tomb, late, missed>>
      /\ walk' = [NoWalk EXCEPT !.pc = "drain"]
  BY DEF WalkSeeds, node, maps, WalkStops
<1>3. cursor' \in Blocks \cup {None} /\ owed' \in BOOLEAN /\ frozen' \in BOOLEAN /\ torn' \in BOOLEAN
  <2>1. PICK gap \in BOOLEAN : Reseeds(gap)
    BY DEF WalkSeeds
  <2>2. CASE write_cursor(sink, TRUE, owed) /\ frozen' = FALSE /\ torn' = (torn \/ gap)
    BY <1>1, <2>2, CursorWritten DEF OtherTypes
  <2>3. CASE UNCHANGED <<cursor, frozen, owed>> /\ torn' = (torn \/ gap)
    BY <1>1, <2>3 DEF OtherTypes
  <2> QED BY <2>1, <2>2, <2>3 DEF Reseeds, hold
<1>4. LogPart'
  BY <1>1, <1>2, LogStands
<1>5. OtherTypes'
  BY <1>1, <1>2, <1>3 DEF OtherTypes, Sends
<1>6. Shapes'
  BY <1>1, <1>2, IdleShapes DEF Shapes
<1> QED BY <1>4, <1>5, <1>6, NextParts

LEMMA WalkUnansweredKeeps ==
  ASSUME TrackerIInv, WalkUnanswered
  PROVE  TrackerIInv'
<1>1. LogPart /\ OtherTypes /\ Shapes
  BY PartsOfTracker
<1>2. /\ UNCHANGED <<Messages, sink, up, reconn, feed, page, mpos, known, rec, index, ahead, off, sinkBlue, memory, frozen, owed, again, held, fold, tomb, late, missed>>
      /\ walk' = [NoWalk EXCEPT !.pc = "drain"]
      /\ torn' \in {torn, TRUE} /\ cursor' \in {cursor, sink}
  BY DEF WalkUnanswered, node, maps, hold, WalkStops
<1>3. LogPart'
  BY <1>1, <1>2, LogStands
<1>4. OtherTypes'
  BY <1>1, <1>2 DEF OtherTypes, Sends
<1>5. Shapes'
  BY <1>1, <1>2, IdleShapes DEF Shapes
<1> QED BY <1>3, <1>4, <1>5, NextParts

LEMMA WalkFoldedKeeps ==
  ASSUME TrackerIInv, WalkFolded
  PROVE  TrackerIInv'
<1>1. LogPart /\ OtherTypes /\ Shapes
  BY PartsOfTracker
<1> DEFINE clean == walk.clean /\ fold.complete
           at == IF fold.added = {} THEN walk.at ELSE Last(fold.added)
<1>2. /\ UNCHANGED <<Messages, sink, up, reconn, feed, page, mpos, known, rec, index, ahead, off, sinkBlue, memory, again, held, tomb, late, missed>>
      /\ fold' = NoFold
  BY DEF WalkFolded, node, maps
<1>3. at \in Blocks \cup {None} /\ clean \in BOOLEAN /\ walk \in Walks
  <2>1. walk \in Walks /\ OneChain(fold.added) /\ fold.added \subseteq Blocks /\ fold.complete \in BOOLEAN
    BY <1>1 DEF Shapes, BatchFolds
  <2>2. fold.added # {} => Last(fold.added) \in Blocks
    BY <2>1, LastOfChain
  <2> QED BY <2>1, <2>2 DEF Walks
<1>4. walk' \in Walks
  <2>1. CASE walk' = [pc |-> "page", at |-> at, clean |-> clean, pages |-> walk.pages + 1]
    <3> HIDE DEF at, clean
    <3> QED BY <1>3, <2>1 DEF Walks
  <2>2. CASE WalkStops
    BY <2>2, IdleShapes DEF WalkStops
  <2> QED BY <2>1, <2>2 DEF WalkFolded
<1>5. cursor' \in Blocks \cup {None} /\ owed' \in BOOLEAN /\ frozen' \in BOOLEAN /\ torn' \in BOOLEAN
  <2>1. /\ \/ UNCHANGED <<cursor, owed>> \/ write_cursor(at, TRUE, owed) \/ write_cursor(sink, TRUE, owed)
        /\ frozen' \in {TRUE, FALSE, frozen, frozen \/ ~clean, ~clean} /\ torn' \in {torn, TRUE}
    BY DEF WalkFolded
  <2> HIDE DEF at, clean
  <2>2. cursor' \in Blocks \cup {None} /\ owed' \in BOOLEAN
    BY <1>1, <1>3, <2>1, CursorWritten DEF OtherTypes
  <2>3. frozen' \in BOOLEAN /\ torn' \in BOOLEAN
    BY <1>1, <1>3, <2>1 DEF OtherTypes
  <2> QED BY <2>2, <2>3
<1>6. LogPart'
  BY <1>1, <1>2, LogStands
<1>7. OtherTypes'
  BY <1>1, <1>2, <1>5 DEF OtherTypes, Sends
<1>8. Shapes'
  BY <1>1, <1>2, <1>4, IdleShapes DEF Shapes
<1> QED BY <1>6, <1>7, <1>8, NextParts

\* A walk that begins, ends or is asked for: the log is left alone.
LEMMA WalkEndsKeeps ==
  ASSUME TrackerIInv, WalkEnds \/ TakesConnected \/ TickWalks
  PROVE  TrackerIInv'
<1>1. LogPart /\ OtherTypes /\ Shapes
  BY PartsOfTracker
<1>2. /\ UNCHANGED <<Messages, sink, up, feed, page, mpos, known, rec, cursor, index, off, sinkBlue, memory, frozen, owed, held, fold, tomb, late, torn, missed>>
      /\ walk' \in {walk, Begun, NoWalk} /\ ahead' \in {ahead, {}} /\ reconn' \in {reconn, FALSE}
  BY DEF WalkEnds, TakesConnected, TickWalks, node, disk, maps, hold, hist, loop
<1>3. LogPart'
  BY <1>1, <1>2, LogStands
<1>4. OtherTypes'
  BY <1>1, <1>2 DEF OtherTypes, Sends
<1>5. walk' \in Walks
  <2>1. cursor \in Blocks \cup {None} /\ walk \in Walks
    BY <1>1 DEF OtherTypes, Shapes
  <2> QED BY <1>2, <2>1, IdleShapes DEF Begun
<1>6. Shapes'
  BY <1>1, <1>2, <1>5 DEF Shapes
<1> QED BY <1>3, <1>4, <1>6, NextParts

\* The page the message walk is answered with, and its hand-over to the feed.
LEMMA PageAnsweredKeeps ==
  ASSUME TrackerIInv, PageAnswered
  PROVE  TrackerIInv'
<1>1. LogPart /\ OtherTypes /\ Shapes
  BY PartsOfTracker
<1>2. /\ UNCHANGED <<Messages, sink, up, reconn, feed, mpos, rec, cursor, index, ahead, off, sinkBlue, memory, frozen, owed, walk, again, held, fold, tomb, late, torn, missed>>
      /\ page' = [kind |-> "walk", removed |-> Chain[mpos] \ Chain[sink], added |-> Chain[sink] \ Chain[mpos], to |-> sink]
      /\ known' = known \cup MatchedIn(page')
  BY DEF PageAnswered, disk, maps, hold, loop, hist
<1>3. page' \in Pages
  <2>1. sink \in Blocks /\ mpos \in Blocks
    BY <1>1 DEF OtherTypes
  <2>2. /\ Chain[mpos] \ Chain[sink] \subseteq Blocks /\ Chain[sink] \ Chain[mpos] \subseteq Blocks
        /\ OneChain(Chain[sink] \ Chain[mpos])
    BY <2>1, ChainsAreBlocks
  <2> QED BY <1>2, <2>1, <2>2 DEF Pages
<1>4. known' \subseteq Messages
  BY <1>1, <1>2 DEF OtherTypes, MatchedIn
<1>5. LogPart'
  BY <1>1, <1>2, LogStands
<1>6. OtherTypes'
  BY <1>1, <1>2, <1>4 DEF OtherTypes, Sends
<1>7. Shapes'
  BY <1>1, <1>2, <1>3 DEF Shapes
<1> QED BY <1>5, <1>6, <1>7, NextParts

LEMMA PageFedKeeps ==
  ASSUME TrackerIInv, PageFed
  PROVE  TrackerIInv'
<1>1. LogPart /\ OtherTypes /\ Shapes
  BY PartsOfTracker
<1>2. /\ UNCHANGED <<Messages, sink, up, reconn, known, rec, cursor, index, ahead, off, sinkBlue, memory, frozen, owed, walk, again, held, fold, tomb, late, torn, missed>>
      /\ page # None /\ page' = None /\ mpos' = page.to /\ (feed' = feed \/ feed' = Append(feed, page))
  BY DEF PageFed, disk, maps, hold, loop, hist
<1>3. page \in Pages
  BY <1>1, <1>2 DEF Shapes
<1>4. mpos' \in Blocks /\ page \in Deliveries
  BY <1>2, <1>3 DEF Pages, Deliveries
<1>5. feed' \in Seq(Deliveries)
  BY <1>1, <1>2, <1>4, AppendProperties DEF Shapes
<1>6. LogPart'
  BY <1>1, <1>2, LogStands
<1>7. OtherTypes'
  BY <1>1, <1>2, <1>4 DEF OtherTypes, Sends
<1>8. Shapes'
  BY <1>1, <1>2, <1>5 DEF Shapes
<1> QED BY <1>6, <1>7, <1>8, NextParts

\* The score primed, a window run out, the socket lost or back.
LEMMA SmallStepsKeep ==
  ASSUME TrackerIInv, PrimesScore \/ Drops \/ Connects \/ UNCHANGED tracker_vars
  PROVE  TrackerIInv'
<1>1. LogPart /\ OtherTypes /\ Shapes
  BY PartsOfTracker
<1>2. /\ UNCHANGED <<Messages, sink, feed, page, mpos, known, rec, cursor, index, ahead, off, memory, frozen, owed, walk, again, held, fold, tomb, late, missed>>
      /\ up' \in {up, TRUE, FALSE} /\ reconn' \in {reconn, TRUE} /\ sinkBlue' \in {sinkBlue, Score[sink]}
      /\ torn' \in {torn, torn \/ Outstanding}
  BY DEF PrimesScore, Drops, Connects, tracker_vars, node, disk, maps, hold, loop, hist
<1>3. LogPart'
  BY <1>1, <1>2, LogStands
<1>4. OtherTypes'
  <2>1. Score[sink] \in Nat /\ (torn \/ Outstanding) \in BOOLEAN
    BY <1>1, ChainIsATree DEF OtherTypes
  <2> QED BY <1>1, <1>2, <2>1 DEF OtherTypes, Sends
<1>5. Shapes'
  BY <1>1, <1>2 DEF Shapes
<1> QED BY <1>3, <1>4, <1>5, NextParts

LEMMA SinkMovesKeeps ==
  ASSUME TrackerIInv, SinkMoves
  PROVE  TrackerIInv'
<1>1. LogPart /\ OtherTypes /\ Shapes
  BY PartsOfTracker
<1>2. UNCHANGED <<Messages, up, reconn, page, mpos, known, rec, cursor, index, ahead, off, sinkBlue, memory, frozen, owed, walk, again, held, fold, tomb, late, torn, missed>>
  BY DEF SinkMoves, disk, maps, hold, loop, hist
<1>3. PICK b \in Blocks : sink' = b /\ (feed' = feed \/ feed' = Append(feed, Batch(sink, b)))
  BY DEF SinkMoves
<1>4. Batch(sink, b) \in Deliveries
  <2>1. sink \in Blocks
    BY <1>1 DEF OtherTypes
  <2>2. Chain[sink] \ Chain[b] \subseteq Blocks /\ Chain[b] \ Chain[sink] \subseteq Blocks /\ OneChain(Chain[b] \ Chain[sink])
    BY <2>1, ChainsAreBlocks
  <2> QED BY <2>2 DEF Batch, Deliveries
<1>5. feed' \in Seq(Deliveries)
  BY <1>1, <1>3, <1>4, AppendProperties DEF Shapes
<1>6. LogPart'
  BY <1>1, <1>2, LogStands
<1>7. OtherTypes'
  BY <1>1, <1>2, <1>3 DEF OtherTypes, Sends
<1>8. Shapes'
  BY <1>1, <1>2, <1>5 DEF Shapes
<1> QED BY <1>6, <1>7, <1>8, NextParts

\* What a page says of a transaction it may name.
LEMMA WordsOfPages ==
  ASSUME LogPart, OtherTypes, Shapes, NEW p \in Pages, NEW t \in Messages
  PROVE  /\ Word(p, t) \in {None} \cup Words
         /\ t \in MatchedIn(p) => Last({b \in p.added : t \in Accepts[b]}) \in Blocks
<1> DEFINE by == {b \in p.added : t \in Accepts[b]}
<1>1. by \subseteq Blocks /\ OneChain(by)
  BY DEF Pages, OneChain
<1>2. memory[t] \in {None} \cup Words
  BY DEF Shapes
<1>3. by # {} => Last(by) \in Blocks
  BY <1>1, LastOfChain
<1>4. t \in MatchedIn(p) => by # {}
  BY DEF MatchedIn
<1>5. CASE by = {}
  <2>1. Word(p, t) = IF memory[t] # None /\ memory[t].at \in p.removed
                     THEN [memory[t] EXCEPT !.st = "displaced"] ELSE memory[t]
    BY <1>5 DEF Word
  <2>2. memory[t] \in Words => [memory[t] EXCEPT !.st = "displaced"] \in Words
    BY DEF Words
  <2>3. t \notin MatchedIn(p)
    BY <1>4, <1>5
  <2> QED BY <1>2, <2>1, <2>2, <2>3
<1>6. CASE by # {}
  <2>1. Word(p, t) = [st |-> IF Last(by) \in off THEN "displaced" ELSE "accepted", at |-> Last(by)]
    BY <1>6 DEF Word
  <2>2. Last(by) \in Blocks
    BY <1>3, <1>6
  <2> HIDE DEF by
  <2>3. Word(p, t) \in Words
    BY <2>1, <2>2 DEF Words
  <2> QED BY <2>2, <2>3 DEF by
<1> QED BY <1>5, <1>6

LEMMA FoldWalkKeeps ==
  ASSUME TrackerIInv, FoldWalk
  PROVE  TrackerIInv'
<1>1. LogPart /\ OtherTypes /\ Shapes
  BY PartsOfTracker
<1>2. PICK p \in {Head(q) : q \in {feed, held} \ {<<>>}}, F \in SUBSET Messages :
        LET at == [t \in MatchedIn(p) |-> Last({b \in p.added : t \in Accepts[b]})]
            moved == {t \in MatchedIn(p) : walk_accepted(at[t], t)}
            exact == {t \in MatchedIn(p) : IsAccepted(t) /\ rec[t].at = at[t]} IN
        /\ p.kind = "walk" /\ fold.by = "none"
        /\ \/ ~Walking /\ feed # <<>> /\ p = Head(feed) /\ feed' = Tail(feed) /\ UNCHANGED held
           \/ walk.pc = "drain" /\ held # <<>> /\ p = Head(held) /\ held' = Tail(held) /\ UNCHANGED feed
        /\ F \subseteq moved /\ Refused(Cardinality(F)) /\ torn' = (torn \/ F # {})
        /\ rec' = [t \in Txids |-> IF t \in (moved \ F) \cup exact THEN Accepted(at[t], Score[at[t]]) ELSE rec[t]]
        /\ index' = [b \in Blocks |-> index[b] \cup {t \in moved \ F : at[t] = b}]
        /\ tomb' = tomb \ (moved \ F)
        /\ memory' = [t \in Messages |-> Word(p, t)]
        /\ UNCHANGED <<Messages, sink, up, reconn, page, mpos, known, cursor, ahead, off, sinkBlue, hold, walk, again, fold, late, missed>>
  BY DEF FoldWalk
<1> DEFINE at == [t \in MatchedIn(p) |-> Last({b \in p.added : t \in Accepts[b]})]
           moved == {t \in MatchedIn(p) : walk_accepted(at[t], t)}
           exact == {t \in MatchedIn(p) : IsAccepted(t) /\ rec[t].at = at[t]}
<1>3. /\ p.kind = "walk"
      /\ \/ feed # <<>> /\ p = Head(feed) /\ feed' = Tail(feed) /\ UNCHANGED held
         \/ held # <<>> /\ p = Head(held) /\ held' = Tail(held) /\ UNCHANGED feed
      /\ torn' = (torn \/ F # {})
      /\ rec' = [t \in Txids |-> IF t \in (moved \ F) \cup exact THEN Accepted(at[t], Score[at[t]]) ELSE rec[t]]
      /\ index' = [b \in Blocks |-> index[b] \cup {t \in moved \ F : at[t] = b}]
      /\ tomb' = tomb \ (moved \ F)
      /\ memory' = [t \in Messages |-> Word(p, t)]
      /\ UNCHANGED <<Messages, sink, up, reconn, page, mpos, known, cursor, ahead, off, sinkBlue, frozen, owed, walk, again, fold, late, missed>>
  BY <1>2 DEF hold
<1>4. p \in Pages /\ feed' \in Seq(Deliveries) /\ held' \in Seq(Deliveries)
  <2>1. feed \in Seq(Deliveries) /\ held \in Seq(Deliveries)
    BY <1>1 DEF Shapes
  <2>2. p \in Deliveries /\ feed' \in Seq(Deliveries) /\ held' \in Seq(Deliveries)
    BY <1>3, <2>1, FrontOfQueue
  <2> QED BY <1>3, <2>2 DEF Deliveries
<1>5. MatchedIn(p) \subseteq Messages /\ Messages \subseteq Txids
  BY <1>1 DEF MatchedIn, Shapes
<1>6. \A t \in MatchedIn(p) : at[t] \in Blocks /\ Score[at[t]] \in Nat
  BY <1>1, <1>4, <1>5, WordsOfPages, ChainIsATree
<1>7. /\ moved \subseteq MatchedIn(p) /\ exact \subseteq MatchedIn(p)
      /\ \A t \in moved : ~IsAccepted(t)
      /\ \A t \in exact : IsAccepted(t) /\ rec[t].at = at[t]
  BY DEF walk_accepted, IsAccepted
<1> HIDE DEF at, moved, exact
<1>8. \A t \in (moved \ F) \cup exact :
        /\ rec'[t] \in Records /\ rec'[t] # None /\ rec'[t].st = "accepted" /\ rec'[t].at = at[t] /\ t \in Txids
  <2> TAKE t \in (moved \ F) \cup exact
  <2>1. t \in MatchedIn(p) /\ t \in Txids
    BY <1>5, <1>7
  <2>2. rec'[t] = Accepted(at[t], Score[at[t]])
    BY <1>3, <2>1
  <2>3. Accepted(at[t], Score[at[t]]) # None /\ Accepted(at[t], Score[at[t]]) \in Records
    BY <1>6, <2>1, RecordsAreSome
  <2> QED BY <2>1, <2>2, <2>3 DEF Accepted
<1>9. \A t \in Txids : t \notin (moved \ F) \cup exact => rec'[t] = rec[t]
  BY <1>3
<1>10. LogPart'
  <2>1. rec' \in [Txids -> Records]
    BY <1>1, <1>3, <1>8, <1>9 DEF LogPart
  <2>2. index' \in [Blocks -> SUBSET Txids] /\ tomb' \subseteq Txids
    BY <1>1, <1>3, <1>5, <1>7 DEF LogPart
  <2>3. \A t \in Txids : IsAccepted(t)' <=> IsAccepted(t) \/ t \in moved \ F
    BY <1>7, <1>8, <1>9 DEF IsAccepted
  <2>4. \A t \in Txids : IsAccepted(t) => rec'[t].at = rec[t].at
    BY <1>7, <1>8, <1>9
  <2>5. IndexMatches'
    <3> SUFFICES ASSUME NEW b \in Blocks
                 PROVE  index'[b] = {t \in Txids : IsAccepted(t)' /\ rec'[t].at = b}
      BY DEF IndexMatches
    <3>1. index[b] = {t \in Txids : IsAccepted(t) /\ rec[t].at = b}
      BY <1>1 DEF LogPart, IndexMatches
    <3>2. index'[b] = index[b] \cup {t \in moved \ F : at[t] = b}
      BY <1>3
    <3>3. \A t \in moved \ F : t \in Txids /\ rec'[t].at = at[t] /\ ~IsAccepted(t)
      BY <1>7, <1>8
    <3> QED BY <2>3, <2>4, <3>1, <3>2, <3>3
  <2>6. TombstonesReversed'
    BY <1>1, <1>3, <2>2, <2>3 DEF LogPart, TombstonesReversed
  <2> QED BY <2>1, <2>2, <2>5, <2>6 DEF LogPart
<1>11. OtherTypes'
  BY <1>1, <1>3 DEF OtherTypes, Sends
<1>12. Shapes'
  <2>1. memory' \in [Messages -> {None} \cup Words]
    BY <1>1, <1>3, <1>4, WordsOfPages
  <2> QED BY <1>1, <1>3, <1>4, <2>1 DEF Shapes
<1> QED BY <1>10, <1>11, <1>12, NextParts

\* One record written, the index with it: what the watches do to the log.
LEMMA RecordWritten ==
  ASSUME LogPart, NEW t \in Txids, ~IsAccepted(t), NEW r \in Records,
         rec' = [rec EXCEPT ![t] = r],
         \/ (r # None => r.st # "accepted") /\ index' = index
         \/ r # None /\ r.st = "accepted" /\ r.at \in Blocks /\ index' = [index EXCEPT ![r.at] = @ \cup {t}],
         (r # None => r.st # "accepted") \/ t \notin tomb',
         tomb' \subseteq tomb
  PROVE  LogPart'
<1>1. rec' \in [Txids -> Records] /\ index' \in [Blocks -> SUBSET Txids] /\ tomb' \subseteq Txids
  BY DEF LogPart
<1>2. \A u \in Txids : u # t => rec'[u] = rec[u] /\ (IsAccepted(u)' <=> IsAccepted(u))
  BY DEF IsAccepted
<1>3. rec'[t] = r /\ (IsAccepted(t)' <=> r # None /\ r.st = "accepted")
  BY DEF LogPart, IsAccepted
<1>4. IndexMatches'
  <2> SUFFICES ASSUME NEW b \in Blocks
               PROVE  index'[b] = {u \in Txids : IsAccepted(u)' /\ rec'[u].at = b}
    BY DEF IndexMatches
  <2>1. index[b] = {u \in Txids : IsAccepted(u) /\ rec[u].at = b}
    BY DEF LogPart, IndexMatches
  <2>2. CASE (r # None => r.st # "accepted") /\ index' = index
    BY <1>2, <1>3, <2>1, <2>2
  <2>3. CASE r # None /\ r.st = "accepted" /\ r.at \in Blocks /\ index' = [index EXCEPT ![r.at] = @ \cup {t}]
    <3>1. index'[b] = IF b = r.at THEN index[b] \cup {t} ELSE index[b]
      BY <2>3 DEF LogPart
    <3> QED BY <1>2, <1>3, <2>1, <2>3, <3>1
  <2> QED BY <2>2, <2>3
<1>5. TombstonesReversed'
  BY <1>1, <1>2, <1>3 DEF LogPart, TombstonesReversed
<1> QED BY <1>1, <1>4, <1>5 DEF LogPart

LEMMA WatchSendKeeps ==
  ASSUME TrackerIInv, NEW t \in Txids, WatchSend(t)
  PROVE  TrackerIInv'
<1>1. LogPart /\ OtherTypes /\ Shapes
  BY PartsOfTracker
<1>2. /\ UNCHANGED <<Messages, sink, up, reconn, feed, page, mpos, known, cursor, index, ahead, off, sinkBlue, memory, frozen, owed, walk, again, held, fold, tomb, torn, missed>>
      /\ t \in Sends /\ rec[t] = None /\ rec' = [rec EXCEPT ![t] = Submitted]
      /\ late' \in {late, late \cup {t}}
  BY DEF WatchSend, node, maps, hold, loop
<1>3. LogPart'
  <2>1. Submitted \in Records /\ Submitted.st # "accepted" /\ ~IsAccepted(t)
    BY <1>2, RecordsAreSome DEF Submitted, IsAccepted
  <2> QED BY <1>1, <1>2, <2>1, RecordWritten
<1>4. OtherTypes'
  BY <1>1, <1>2 DEF OtherTypes, Sends
<1>5. Shapes'
  BY <1>1, <1>2 DEF Shapes
<1> QED BY <1>3, <1>4, <1>5, NextParts

LEMMA WatchMessageKeeps ==
  ASSUME TrackerIInv, NEW t \in Txids, WatchMessage(t)
  PROVE  TrackerIInv'
<1>1. LogPart /\ OtherTypes /\ Shapes
  BY PartsOfTracker
<1> DEFINE word == memory[t]
<1>2. /\ UNCHANGED <<Messages, sink, up, reconn, feed, page, mpos, known, cursor, ahead, off, sinkBlue, memory, frozen, owed, walk, again, held, fold, late, missed>>
      /\ t \in known /\ rec[t] = None /\ torn' \in {TRUE, torn}
  BY DEF WatchMessage, node, hold, loop
<1>3. ~IsAccepted(t) /\ word \in {None} \cup Words
  BY <1>1, <1>2 DEF IsAccepted, Shapes, OtherTypes
<1>4. word # None => word.at \in Blocks /\ Score[word.at] \in Nat
  BY <1>3, ChainIsATree DEF Words
<1>5. LogPart'
  <2>1. CASE rec' = [rec EXCEPT ![t] = Submitted] /\ UNCHANGED <<index, tomb>>
    <3>1. Submitted \in Records /\ Submitted.st # "accepted"
      BY RecordsAreSome DEF Submitted
    <3> QED BY <1>1, <1>3, <2>1, <3>1, RecordWritten
  <2>2. CASE word # None /\ rec' = [rec EXCEPT ![t] = Displaced(word.at)] /\ UNCHANGED <<index, tomb>>
    <3>1. Displaced(word.at) \in Records /\ Displaced(word.at).st # "accepted"
      BY <1>4, <2>2, RecordsAreSome DEF Displaced
    <3> QED BY <1>1, <1>3, <2>2, <3>1, RecordWritten
  <2>3. CASE /\ word # None /\ rec' = [rec EXCEPT ![t] = Accepted(word.at, Score[word.at])]
             /\ index' = [index EXCEPT ![word.at] = @ \cup {t}] /\ tomb' = tomb \ {t}
    <3> DEFINE r == Accepted(word.at, Score[word.at])
    <3>1. r \in Records /\ r # None /\ r.st = "accepted" /\ r.at = word.at
      BY <1>4, <2>3, RecordsAreSome DEF Accepted
    <3> HIDE DEF r
    <3>2. rec' = [rec EXCEPT ![t] = r]
      BY <2>3 DEF r
    <3> QED BY <1>1, <1>3, <1>4, <2>3, <3>1, <3>2, RecordWritten
  <2> QED BY <2>1, <2>2, <2>3 DEF WatchMessage
<1>6. OtherTypes'
  BY <1>1, <1>2 DEF OtherTypes, Sends
<1>7. Shapes'
  BY <1>1, <1>2 DEF Shapes
<1> QED BY <1>5, <1>6, <1>7, NextParts

LEMMA DropWatchKeeps ==
  ASSUME TrackerIInv, NEW t \in Txids, DropWatch(t)
  PROVE  TrackerIInv'
<1>1. LogPart /\ OtherTypes /\ Shapes
  BY PartsOfTracker
<1>2. /\ UNCHANGED <<Messages, sink, up, reconn, feed, page, mpos, known, cursor, ahead, off, sinkBlue, memory, frozen, owed, walk, again, held, fold, tomb, late, torn, missed>>
      /\ rec' = [rec EXCEPT ![t] = None] /\ index' = [b \in Blocks |-> index[b] \ {t}]
  BY DEF DropWatch, node, hold, loop, hist
<1>3. LogPart'
  <2>1. rec' \in [Txids -> Records] /\ index' \in [Blocks -> SUBSET Txids] /\ tomb' \subseteq Txids
    BY <1>1, <1>2, RecordsAreSome DEF LogPart
  <2>2. /\ ~IsAccepted(t)'
        /\ \A u \in Txids : u # t => rec'[u] = rec[u] /\ (IsAccepted(u)' <=> IsAccepted(u))
    BY <1>1, <1>2 DEF LogPart, IsAccepted
  <2>3. IndexMatches'
    <3> SUFFICES ASSUME NEW b \in Blocks
                 PROVE  index'[b] = {u \in Txids : IsAccepted(u)' /\ rec'[u].at = b}
      BY DEF IndexMatches
    <3>1. index[b] = {u \in Txids : IsAccepted(u) /\ rec[u].at = b}
      BY <1>1 DEF LogPart, IndexMatches
    <3> QED BY <1>2, <2>2, <3>1
  <2>4. TombstonesReversed'
    BY <1>1, <1>2, <2>1, <2>2 DEF LogPart, TombstonesReversed
  <2> QED BY <2>1, <2>3, <2>4 DEF LogPart
<1>4. OtherTypes'
  BY <1>1, <1>2 DEF OtherTypes, Sends
<1>5. Shapes'
  BY <1>1, <1>2 DEF Shapes
<1> QED BY <1>3, <1>4, <1>5, NextParts

\* A tombstone is set only on a message that is displaced.
LEMMA TickElapsesKeeps ==
  ASSUME TrackerIInv, NEW t \in Txids, TickElapses(t)
  PROVE  TrackerIInv'
<1>1. LogPart /\ OtherTypes /\ Shapes
  BY PartsOfTracker
<1>2. /\ UNCHANGED <<Messages, sink, up, reconn, feed, page, mpos, known, rec, index, cursor, ahead, off, sinkBlue, memory, frozen, owed, walk, again, held, fold, late, torn, missed>>
      /\ rec[t].st = "displaced" /\ tomb' = tomb \cup {t}
  BY DEF TickElapses, node, disk, maps, hold, loop
<1>3. LogPart'
  BY <1>1, <1>2 DEF LogPart, IndexMatches, TombstonesReversed, IsAccepted
<1>4. OtherTypes'
  BY <1>1, <1>2 DEF OtherTypes, Sends
<1>5. Shapes'
  BY <1>1, <1>2 DEF Shapes
<1> QED BY <1>3, <1>4, <1>5, NextParts

\* A deep acceptance that is finalized leaves the index with its state.
LEMMA SinkBlueKeeps ==
  ASSUME TrackerIInv, on_sink_blue
  PROVE  TrackerIInv'
<1>1. LogPart /\ OtherTypes /\ Shapes
  BY PartsOfTracker
<1>2. /\ UNCHANGED <<Messages, sink, up, reconn, feed, page, mpos, known, cursor, ahead, off, memory, frozen, owed, walk, again, held, fold, tomb, late, torn, missed>>
      /\ sinkBlue' = Score[sink]
  BY DEF on_sink_blue, node, hold, loop, hist
<1>3. PICK final : /\ \A t \in final : t \in Txids /\ IsAccepted(t)
                   /\ rec' = [t \in Txids |-> IF t \in final THEN Finalized(rec[t]) ELSE rec[t]]
                   /\ index' = [b \in Blocks |-> index[b] \ final]
  <2> DEFINE deep == {t \in Txids : IsAccepted(t) /\ rec[t].score + Terminal <= Score[sink]}
             final(F) == IF claims_depth THEN deep \ F ELSE {}
  <2>1. PICK F : /\ rec' = [t \in Txids |-> IF t \in final(F) THEN Finalized(rec[t]) ELSE rec[t]]
                 /\ index' = [b \in Blocks |-> index[b] \ final(F)]
    BY DEF on_sink_blue
  <2>2. \A t \in final(F) : t \in Txids /\ IsAccepted(t)
    OBVIOUS
  <2> QED BY <2>1, <2>2
<1>4. \A t \in final : Finalized(rec[t]) \in Records /\ Finalized(rec[t]).st = "finalized"
  BY <1>1, <1>3, RecordsAreSome DEF LogPart, IsAccepted
<1>5. LogPart'
  <2>1. rec' \in [Txids -> Records] /\ index' \in [Blocks -> SUBSET Txids] /\ tomb' \subseteq Txids
    BY <1>1, <1>2, <1>3, <1>4 DEF LogPart
  <2>2. \A t \in Txids : /\ IsAccepted(t)' <=> IsAccepted(t) /\ t \notin final
                         /\ IsAccepted(t)' => rec'[t] = rec[t]
    BY <1>3, <1>4 DEF IsAccepted
  <2>3. IndexMatches'
    <3> SUFFICES ASSUME NEW b \in Blocks
                 PROVE  index'[b] = {t \in Txids : IsAccepted(t)' /\ rec'[t].at = b}
      BY DEF IndexMatches
    <3>1. index[b] = {t \in Txids : IsAccepted(t) /\ rec[t].at = b}
      BY <1>1 DEF LogPart, IndexMatches
    <3> QED BY <1>3, <2>2, <3>1
  <2>4. TombstonesReversed'
    BY <1>1, <1>2, <2>1, <2>2 DEF LogPart, TombstonesReversed
  <2> QED BY <2>1, <2>3, <2>4 DEF LogPart
<1>6. OtherTypes'
  <2>1. Score[sink] \in Nat
    BY <1>1, ChainIsATree DEF OtherTypes
  <2> QED BY <1>1, <1>2, <2>1 DEF OtherTypes, Sends
<1>7. Shapes'
  BY <1>1, <1>2 DEF Shapes
<1> QED BY <1>5, <1>6, <1>7, NextParts

\* A restart rebuilds the index from the records it reads.
LEMMA TrackerDiesKeeps ==
  ASSUME TrackerIInv, TrackerDies
  PROVE  TrackerIInv'
<1>1. LogPart /\ OtherTypes /\ Shapes
  BY PartsOfTracker
<1>2. /\ UNCHANGED <<Messages, sink, mpos, known, rec, cursor, tomb, late, missed>>
      /\ up' = FALSE /\ reconn' = FALSE /\ feed' = <<>> /\ page' = None
      /\ index' = [b \in Blocks |-> {t \in Txids : IsAccepted(t) /\ rec[t].at = b}]
      /\ ahead' = {} /\ off' = {} /\ sinkBlue' = 0 /\ memory' = [t \in Messages |-> None]
      /\ frozen' = FALSE /\ owed' = FALSE
      /\ walk' = Begun /\ again' = FALSE /\ held' = <<>> /\ fold' = NoFold /\ torn' \in BOOLEAN
  BY DEF TrackerDies, disk
<1>3. LogPart'
  <2>1. \A b \in Blocks : {t \in Txids : IsAccepted(t) /\ rec[t].at = b} \subseteq Txids
    OBVIOUS
  <2>2. rec' = rec /\ tomb' = tomb /\ \A t \in Txids : IsAccepted(t)' <=> IsAccepted(t)
    BY <1>2 DEF IsAccepted
  <2>3. IndexMatches'
    BY <1>2, <2>2 DEF IndexMatches
  <2>4. index' \in [Blocks -> SUBSET Txids]
    BY <1>2, <2>1
  <2> QED BY <1>1, <2>2, <2>3, <2>4 DEF LogPart, TombstonesReversed
<1>4. OtherTypes'
  BY <1>1, <1>2 DEF OtherTypes, Sends
<1>5. Shapes'
  <2>1. walk' \in Walks /\ fold' \in BatchFolds
    BY <1>1, <1>2, IdleShapes DEF Begun, OtherTypes
  <2> QED BY <1>1, <1>2, <2>1 DEF Shapes
<1> QED BY <1>3, <1>4, <1>5, NextParts

LEMMA TrackerBegins ==
  ASSUME TrackerInit
  PROVE  TrackerIInv
<1>1. LogPart
  <2>1. rec = [t \in Txids |-> None] /\ index = [b \in Blocks |-> {}] /\ tomb = {}
    BY DEF TrackerInit
  <2> QED BY <2>1, RecordsAreSome DEF LogPart, IndexMatches, TombstonesReversed, IsAccepted
<1>2. OtherTypes
  BY ChainIsATree DEF TrackerInit, OtherTypes
<1>3. Shapes
  <2>1. walk \in Walks /\ fold \in BatchFolds
    BY IdleShapes, ChainIsATree DEF TrackerInit, Begun
  <2>2. <<>> \in Seq(Deliveries)
    OBVIOUS
  <2> QED BY <2>1, <2>2 DEF TrackerInit, Shapes
<1> QED BY <1>1, <1>2, <1>3, PartsOfTracker

\* Every step of the tracker keeps its types, the index and the tombstones.
LEMMA TrackerKept ==
  ASSUME TrackerIInv, [TrackerNext]_tracker_vars
  PROVE  TrackerIInv'
<1>1. CASE Task
  BY <1>1, TakesBatchKeeps, FoldBlockKeeps, FoldLiveKeeps, HoldsBackKeeps, FoldWalkKeeps, WalkSeedsKeeps,
     WalkPageKeeps, WalkUnansweredKeeps, WalkFoldedKeeps, WalkEndsKeeps DEF Task
<1>2. CASE \E t \in Txids : WatchSend(t) \/ WatchMessage(t) \/ DropWatch(t) \/ TickElapses(t)
  BY <1>2, WatchSendKeeps, WatchMessageKeeps, DropWatchKeeps, TickElapsesKeeps
<1>3. CASE TickWalks \/ PageAnswered \/ PageFed
  BY <1>3, WalkEndsKeeps, PageAnsweredKeeps, PageFedKeeps
<1>4. CASE on_sink_blue \/ PrimesScore \/ SinkMoves \/ Drops \/ Connects \/ TrackerDies \/ UNCHANGED tracker_vars
  BY <1>4, SinkBlueKeeps, SmallStepsKeep, SinkMovesKeeps, TrackerDiesKeeps
<1> QED BY <1>1, <1>2, <1>3, <1>4 DEF TrackerNext

\* In every state the tracker's types hold, the index from accepting blocks to
\* transactions is the records' own, and no message that is accepted bears a
\* tombstone: after any interleaving of live batches, the walk from the cursor,
\* the message walk's pages, watches, failed writes, deaths and restarts
\* (on_removed, on_accepted, drop_watch, load, tick).
THEOREM TrackerIsConsistent == TrackerSpec => []TrackerInv
<1>1. TrackerInit => TrackerIInv
  BY TrackerBegins
<1>2. TrackerIInv /\ [TrackerNext]_tracker_vars => TrackerIInv'
  BY TrackerKept
<1>3. TrackerIInv => TrackerInv
  BY DEF TrackerIInv
<1> QED BY <1>1, <1>2, <1>3, PTL DEF TrackerSpec

---------------------------------------------------------------------------
(***************************************************************************)
(* The records agree with the chain.  What relates them to it while        *)
(* batches wait, a walk runs, a hold stands and the socket is down.        *)
(***************************************************************************)

\* What was delivered and waits, in the order it will be folded.
Coming == held \o feed
Says(d, b) == d.kind = "vcc" /\ b \in d.added \cup d.removed
ToldIn(q, b) == \E i \in 1..Len(q) : Says(q[i], b)
NamedIn(q, b) == \E i \in 1..Len(q) : q[i].kind = "walk" /\ b \in q[i].added

\* A batch that waits moves b; a page of the message walk that waits names b.
Told(b) == ToldIn(Coming, b)
Pending(b) == (page # None /\ b \in page.added) \/ NamedIn(Coming, b)

OnSink(b) == b \in Chain[sink]
OnCursor(b) == cursor # None /\ b \in Chain[cursor]

\* A walk from the cursor is to come: a connection's, or a held cursor's.
InGap == ~up \/ reconn \/ again
Paging == walk.pc \in {"page", "fold"}
InWalk == Paging /\ walk.at # None
PageEnd == IF fold.added = {} THEN walk.at ELSE Last(fold.added)
\* Where the walk stands once the page in its hands is folded.
WalksTo == IF walk.pc = "fold" THEN PageEnd ELSE walk.at
OnWalk(b) == InWalk /\ b \in Chain[WalksTo]
AwaitsPage(b) == walk.pc = "page" /\ OnWalk(b)
Whole == walk.clean /\ fold.complete
Owing == InGap \/ (IF Paging THEN ~Whole \/ walk.at = None ELSE frozen \/ ~fold.complete)

\* That b left the chain is known, or will be heard.
Excused(b) == OnSink(b) \/ Told(b) \/ (OnCursor(b) /\ (Owing \/ AwaitsPage(b)))

Here(t, b) == IsAccepted(t) /\ rec[t].at = b
Recalls(t, b) == t \in Messages /\ memory[t] # None /\ memory[t].st = "accepted" /\ memory[t].at = b

\* b accepts t, and t's record does not say so yet.
Unsettled(t, b) ==
  /\ t \in Accepts[b] /\ rec[t] # None
  /\ \/ t \in Sends \ late /\ rec[t].st # "finalized" /\ ~Here(t, b)
     \/ t \in Messages /\ rec[t].st = "submitted" /\ b \in Chain[mpos] /\ ~Pending(b)

LoopPart ==
  /\ walk.pc = "fold" <=> fold.by = "walk"
  /\ walk.pc = "off" => held = <<>> /\ ~again
  /\ fold.by = "live" => ~Paging /\ ~InGap
  /\ fold.by = "none" => fold = NoFold
  /\ ~Paging => walk.clean
  /\ walk.pc = "fold" => walk.at # None
  /\ Paging => (walk.at = None <=> cursor = None)
  /\ cursor # None => Score[cursor] <= Score[sink]
  /\ walk.at # None => Score[walk.at] <= Score[sink]

\* A chain that a batch leads to: b is on it, or not, as on the sink's, unless told.
Agrees(p, q, s) == \A b \in Blocks : ToldIn(q, b) \/ (b \in Chain[p] <=> b \in Chain[s])
LeadsTo(d, p) ==
  /\ d.added \subseteq Chain[p] /\ d.removed \cap Chain[p] = {}
  /\ d.added = {} \/ p \in d.added
InOrder(q, s) ==
  \A i \in 1..Len(q) : q[i].kind = "vcc" =>
    \E p \in Blocks :
      /\ LeadsTo(q[i], p) /\ Score[p] <= Score[s]
      /\ \A b \in Blocks : \/ \E j \in 1..Len(q) : i < j /\ Says(q[j], b)
                           \/ b \in Chain[p] <=> b \in Chain[s]
QueuePart == InOrder(Coming, sink)

FirstOf(S) == {b \in S : Cardinality({c \in S : Score[c] < Score[b]}) < PageCap}
\* A page from a towards p, and the block it leads to.
PageFrom(a, p) == FirstOf(Chain[p] \ Chain[a])
EndFrom(a, p) == IF PageFrom(a, p) = {} THEN a ELSE Last(PageFrom(a, p))
FoldsTo(p) ==
  /\ fold.added \subseteq Chain[p] /\ Score[p] <= Score[sink] /\ Agrees(p, Coming, sink)
  /\ fold.by = "live" => fold.added = {} \/ p \in fold.added
  /\ fold.by = "walk" => fold.added = PageFrom(walk.at, p) /\ Score[walk.at] <= Score[p]
FoldPart == fold.by # "none" => \E p \in Blocks : FoldsTo(p)

\* Without a socket nothing waits, and the cursor covers what is known.
DownPart ==
  ~up => /\ held = <<>> /\ feed = <<>> /\ fold.by = "none" /\ page = None
         /\ \A t \in Txids : IsAccepted(t) => OnCursor(rec[t].at)
         /\ \A t \in Messages : memory[t] # None => OnCursor(memory[t].at)
         /\ \A b \in off : cursor # None /\ ~OnCursor(b)
         /\ \A t \in Txids, b \in Blocks : Unsettled(t, b) => ~OnCursor(b)

StalePart ==
  /\ \A t \in Txids : IsAccepted(t) => rec[t].at \in Blocks /\ Excused(rec[t].at)
  /\ \A t \in Messages, b \in Blocks : Recalls(t, b) => b \in off \/ Excused(b)

\* What a walk whose pages were folded whole has seen to.
CleanPart ==
  InWalk /\ Whole =>
    /\ \A t \in Txids, b \in Blocks : Here(t, b) /\ OnCursor(b) => OnWalk(b) \/ Told(b)
    /\ \A t \in Messages, b \in Blocks : Recalls(t, b) /\ OnCursor(b) => OnWalk(b) \/ Told(b) \/ b \in off
    /\ \A t \in Txids, b \in Blocks : Unsettled(t, b) /\ OnWalk(b) => OnCursor(b) \/ Told(b) \/ b \in fold.todo

FinalPart ==
  \A t \in Txids : IsFinal(t) => rec[t].at \in Blocks /\ OnSink(rec[t].at) /\ Score[rec[t].at] + Terminal <= Score[sink]

PagePart ==
  /\ page # None => /\ page.to \in Blocks /\ page.kind = "walk"
                    /\ page.removed = Chain[mpos] \ Chain[page.to] /\ page.added = Chain[page.to] \ Chain[mpos]
  /\ \A b \in Blocks : Pending(b) => b \in off \/ OnSink(b) \/ Told(b)

\* The message walk's word on what it passed is remembered, or on its way.
WordPart == \A t \in Messages, b \in Blocks : b \in Chain[mpos] /\ memory[t] = None /\ t \in Accepts[b] => Pending(b)

CursorPart ==
  /\ InWalk => \A b \in Blocks : OnCursor(b) => OnWalk(b) \/ b \in off \/ Told(b)
  /\ ~Paging /\ ~InGap /\ ~frozen => \A b \in Blocks : OnCursor(b) => OnSink(b) \/ b \in off \/ Told(b)
  /\ walk.pc = "fold" => \A b \in fold.added : OnCursor(b) => Told(b)

OffPart ==
  \A b \in off :
    /\ OnSink(b) /\ ~Told(b) => ~OnCursor(b) /\ ((Owing /\ cursor # None) \/ InWalk)
    /\ OnWalk(b) => OnCursor(b) \/ Told(b)

\* Why an acceptance on the chain, or behind the cursor, may not be on record yet.
SettlePart ==
  \A t \in Txids, b \in Blocks : Unsettled(t, b) =>
    /\ OnSink(b) => \/ Told(b) \/ b \in fold.todo
                    \/ fold.by = "live" /\ ~fold.complete /\ b \in fold.added
                    \/ InWalk /\ ~OnWalk(b)
                    \/ Owing /\ ~OnCursor(b)
    /\ OnCursor(b) => \/ b \in off \/ Told(b) \/ b \in fold.added
                      \/ frozen /\ ~OnSink(b) /\ walk.pc # "fold" /\ (InWalk => OnWalk(b))
    /\ b \in fold.added => t \in fold.seen /\ (b \in fold.todo \/ ~fold.complete)

\* Why the cursor may not cover a send's block yet.
CoverPart ==
  \A t \in Sends, b \in Blocks : Here(t, b) /\ ~OnCursor(b) =>
    \/ owed \/ Told(b) \/ (fold.by = "live" /\ b \in fold.added)
    \/ IF Paging THEN ~Whole \/ walk.at = None \/ ~OnWalk(b) \/ b \in fold.added
                 ELSE frozen \/ ~fold.complete

Accord ==
  /\ LoopPart /\ QueuePart /\ FoldPart /\ DownPart /\ StalePart /\ CleanPart /\ FinalPart
  /\ PagePart /\ WordPart /\ CursorPart /\ OffPart /\ SettlePart /\ CoverPart
AccordInv == ~torn /\ ~missed => Accord

\* The front of a queue is folded first; what is behind it stays in order.
LEMMA QueueTail ==
  ASSUME NEW q \in Seq(Deliveries), q # <<>>, NEW s \in Blocks
  PROVE  /\ \A b : ToldIn(q, b) <=> Says(Head(q), b) \/ ToldIn(Tail(q), b)
         /\ \A b : NamedIn(q, b) <=> (Head(q).kind = "walk" /\ b \in Head(q).added) \/ NamedIn(Tail(q), b)
         /\ InOrder(q, s) => InOrder(Tail(q), s)
         /\ InOrder(q, s) /\ Head(q).kind = "vcc" =>
              \E p \in Blocks : LeadsTo(Head(q), p) /\ Score[p] <= Score[s] /\ Agrees(p, Tail(q), s)
<1> DEFINE r == Tail(q)
<1>1. /\ Len(q) \in Nat /\ Len(q) > 0 /\ Len(r) = Len(q) - 1 /\ Head(q) = q[1]
      /\ \A i \in 1..Len(r) : r[i] = q[i + 1]
  BY HeadTailProperties, EmptySeq
<1> HIDE DEF r
<1>2. \A i \in 1..Len(q) : i = 1 \/ (i - 1 \in 1..Len(r) /\ q[i] = r[i - 1])
  BY <1>1
<1>3. \A i \in 1..Len(r) : i + 1 \in 1..Len(q) /\ 1 < i + 1 /\ q[i + 1] = r[i]
  BY <1>1
<1>4. 1 \in 1..Len(q)
  BY <1>1
<1>5. \A b : ToldIn(q, b) <=> Says(Head(q), b) \/ ToldIn(r, b)
  BY <1>1, <1>2, <1>3, <1>4 DEF ToldIn
<1>6. \A b : NamedIn(q, b) <=> (Head(q).kind = "walk" /\ b \in Head(q).added) \/ NamedIn(r, b)
  BY <1>1, <1>2, <1>3, <1>4 DEF NamedIn
<1>7. ASSUME InOrder(q, s) PROVE InOrder(r, s)
  <2> SUFFICES ASSUME NEW i \in 1..Len(r), r[i].kind = "vcc"
               PROVE  \E p \in Blocks :
                        /\ LeadsTo(r[i], p) /\ Score[p] <= Score[s]
                        /\ \A b \in Blocks : \/ \E j \in 1..Len(r) : i < j /\ Says(r[j], b)
                                             \/ b \in Chain[p] <=> b \in Chain[s]
    BY DEF InOrder
  <2>1. PICK p \in Blocks :
          /\ LeadsTo(q[i + 1], p) /\ Score[p] <= Score[s]
          /\ \A b \in Blocks : \/ \E j \in 1..Len(q) : i + 1 < j /\ Says(q[j], b)
                               \/ b \in Chain[p] <=> b \in Chain[s]
    BY <1>3, <1>7 DEF InOrder
  <2>2. ASSUME NEW b \in Blocks, NEW j \in 1..Len(q), i + 1 < j, Says(q[j], b)
        PROVE  \E k \in 1..Len(r) : i < k /\ Says(r[k], b)
    <3>1. j - 1 \in 1..Len(r) /\ q[j] = r[j - 1] /\ i < j - 1
      BY <1>1, <2>2
    <3> QED BY <2>2, <3>1
  <2>3. LeadsTo(r[i], p)
    BY <1>3, <2>1
  <2> QED BY <2>1, <2>2, <2>3
<1>8. ASSUME InOrder(q, s), Head(q).kind = "vcc"
      PROVE  \E p \in Blocks : LeadsTo(Head(q), p) /\ Score[p] <= Score[s] /\ Agrees(p, r, s)
  <2>1. PICK p \in Blocks :
          /\ LeadsTo(q[1], p) /\ Score[p] <= Score[s]
          /\ \A b \in Blocks : \/ \E j \in 1..Len(q) : 1 < j /\ Says(q[j], b)
                               \/ b \in Chain[p] <=> b \in Chain[s]
    BY <1>1, <1>4, <1>8 DEF InOrder
  <2>2. ASSUME NEW b \in Blocks, NEW j \in 1..Len(q), 1 < j, Says(q[j], b)
        PROVE  ToldIn(r, b)
    <3>1. j - 1 \in 1..Len(r) /\ q[j] = r[j - 1]
      BY <1>1, <2>2
    <3> QED BY <2>2, <3>1 DEF ToldIn
  <2>3. Agrees(p, r, s)
    BY <2>1, <2>2 DEF Agrees
  <2> QED BY <1>1, <2>1, <2>3
<1> QED BY <1>5, <1>6, <1>7, <1>8 DEF r

\* What arrives is folded last: a page moves no block, and a batch leads from the
\* sink there was to the one there is.
LEMMA QueueAppend ==
  ASSUME NEW q \in Seq(Deliveries), NEW m \in Deliveries, NEW s \in Blocks
  PROVE  /\ \A b : ToldIn(Append(q, m), b) <=> ToldIn(q, b) \/ Says(m, b)
         /\ \A b : NamedIn(Append(q, m), b) <=> NamedIn(q, b) \/ (m.kind = "walk" /\ b \in m.added)
         /\ InOrder(q, s) /\ m.kind = "walk" => InOrder(Append(q, m), s)
         /\ \A c \in Blocks : InOrder(q, s) /\ Score[s] <= Score[c] /\ m = Batch(s, c) => InOrder(Append(q, m), c)
<1> DEFINE r == Append(q, m)
<1>1. /\ Len(q) \in Nat /\ Len(r) = Len(q) + 1 /\ r[Len(q) + 1] = m
      /\ \A i \in 1..Len(q) : r[i] = q[i]
  BY AppendProperties, LenProperties
<1> HIDE DEF r
<1>2. \A i \in 1..Len(r) : i = Len(q) + 1 \/ i \in 1..Len(q)
  BY <1>1
<1>3. Len(q) + 1 \in 1..Len(r) /\ \A i \in 1..Len(q) : i \in 1..Len(r) /\ i < Len(q) + 1
  BY <1>1
<1>4. \A b : ToldIn(r, b) <=> ToldIn(q, b) \/ Says(m, b)
  BY <1>1, <1>2, <1>3 DEF ToldIn
<1>5. \A b : NamedIn(r, b) <=> NamedIn(q, b) \/ (m.kind = "walk" /\ b \in m.added)
  BY <1>1, <1>2, <1>3 DEF NamedIn
<1>6. ASSUME NEW c \in Blocks, InOrder(q, s), Score[s] <= Score[c],
             (m.kind = "walk" /\ c = s) \/ m = Batch(s, c)
      PROVE  InOrder(r, c)
  <2>1. \A b \in Blocks : (b \in Chain[s] <=> b \in Chain[c]) \/ Says(m, b)
    BY <1>6 DEF Says, Batch
  <2>2. ASSUME NEW i \in 1..Len(q), q[i].kind = "vcc"
        PROVE  \E p \in Blocks :
                 /\ LeadsTo(q[i], p) /\ Score[p] <= Score[c]
                 /\ \A b \in Blocks : \/ \E j \in 1..Len(r) : i < j /\ Says(r[j], b)
                                      \/ b \in Chain[p] <=> b \in Chain[c]
    <3>1. PICK p \in Blocks :
            /\ LeadsTo(q[i], p) /\ Score[p] <= Score[s]
            /\ \A b \in Blocks : \/ \E j \in 1..Len(q) : i < j /\ Says(q[j], b)
                                 \/ b \in Chain[p] <=> b \in Chain[s]
      BY <1>6, <2>2 DEF InOrder
    <3>2. Score[p] <= Score[c]
      BY <1>6, <3>1, ChainIsATree
    <3>3. ASSUME NEW b \in Blocks
          PROVE  \/ (\E j \in 1..Len(r) : i < j /\ Says(r[j], b))
                 \/ b \in Chain[p] <=> b \in Chain[c]
      BY <1>1, <1>3, <2>1, <3>1
    <3> QED BY <3>1, <3>2, <3>3
  <2>3. CASE m.kind = "walk"
    BY <1>1, <1>2, <2>2, <2>3 DEF InOrder
  <2>4. CASE m = Batch(s, c)
    <3>1. Score[c] \in Nat /\ c \in Chain[c] /\ (c \in Chain[s] => c = s)
      BY <1>6, ChainIsATree
    <3>2. LeadsTo(m, c) /\ Score[c] <= Score[c]
      BY <2>4, <3>1 DEF LeadsTo, Batch
    <3> QED BY <1>1, <1>2, <2>2, <3>2 DEF InOrder
  <2> QED BY <1>6, <2>3, <2>4
<1>7. Score[s] <= Score[s]
  BY ChainIsATree
<1> QED BY <1>4, <1>5, <1>6, <1>7 DEF r

\* Scores grow along a chain, which is one of blocks, compared by belonging.
LEMMA ChainFacts ==
  /\ \A b \in Blocks : Score[b] \in Nat /\ b \in Chain[b] /\ Chain[b] \subseteq Blocks
  /\ \A b \in Blocks : \A c \in Chain[b] :
       /\ Chain[c] \subseteq Chain[b] /\ Score[c] <= Score[b]
       /\ Score[b] <= Score[c] => c = b
  /\ \A b \in Blocks : \A c, d \in Chain[b] : c \in Chain[d] \/ d \in Chain[c]
<1>1. ASSUME NEW b \in Blocks, NEW c \in Chain[b]
      PROVE  Chain[c] \subseteq Chain[b] /\ Score[c] <= Score[b] /\ (Score[b] <= Score[c] => c = b)
  <2>1. c \in Blocks /\ Score[b] \in Nat /\ Score[c] \in Nat
    BY ChainIsATree
  <2>2. Chain[c] \subseteq Chain[b] /\ (c # b => Score[c] < Score[b])
    BY ChainIsATree
  <2> QED BY <2>1, <2>2
<1>2. \A b \in Blocks : \A c, d \in Chain[b] : c \in Chain[d] \/ d \in Chain[c]
  BY ChainIsATree
<1>3. \A b \in Blocks : Score[b] \in Nat /\ b \in Chain[b] /\ Chain[b] \subseteq Blocks
  BY ChainIsATree
<1> QED BY <1>1, <1>2, <1>3

\* A chain accepts a transaction once.
LEMMA OneAcceptor ==
  ASSUME NEW p \in Blocks, NEW b \in Chain[p], NEW c \in Chain[p], NEW t \in Accepts[b], t \in Accepts[c]
  PROVE  b = c
BY ChainIsATree

\* A page with room left holds the whole path; its first block is on any page.
LEMMA ShortPages ==
  ASSUME NEW p \in Blocks, NEW S \in SUBSET Chain[p], Cardinality(FirstOf(S)) < PageCap \/ FirstOf(S) = {}
  PROVE  FirstOf(S) = S
<1> DEFINE A == FirstOf(S)
<1>1. IsFiniteSet(S) /\ S \subseteq Blocks /\ A \subseteq S /\ IsFiniteSet(A)
  BY ChainIsATree, FS_Subset DEF FirstOf
<1>2. Cardinality(A) \in Nat /\ Cardinality(A) < PageCap
  BY <1>1, FS_CardinalityType, FS_EmptySet, AcceptanceBounds
<1>3. ASSUME S \ A # {} PROVE FALSE
  <2>1. First(S \ A) \in S \ A /\ \A c \in S \ A : Score[First(S \ A)] <= Score[c]
    BY <1>1, <1>3, FirstOfChain
  <2> DEFINE b == First(S \ A)
             below == {c \in S : Score[c] < Score[b]}
  <2>2. below \subseteq A
    <3>1. \A c \in S : Score[c] \in Nat /\ Score[b] \in Nat
      BY <1>1, <2>1, ChainIsATree
    <3> QED BY <2>1, <3>1
  <2>3. Cardinality(below) \in Nat /\ Cardinality(below) <= Cardinality(A)
    BY <1>1, <2>2, FS_Subset, FS_CardinalityType
  <2>4. Cardinality(below) < PageCap
    BY <1>2, <2>3, AcceptanceBounds
  <2>5. b \in A
    BY <2>1, <2>4 DEF FirstOf
  <2> QED BY <2>1, <2>5
<1> QED BY <1>1, <1>3

\* Where a page leads to on the way from one block to another: what it left of the
\* chain it began on, and what it added; a short page leads all the way.
LEMMA PageLeadsTo ==
  ASSUME NEW a \in Blocks, NEW p \in Blocks, Score[a] <= Score[p]
  PROVE  /\ PageFrom(a, p) \subseteq Chain[p] /\ PageFrom(a, p) \cap Chain[a] = {}
         /\ EndFrom(a, p) \in Blocks /\ Score[EndFrom(a, p)] <= Score[p]
         /\ \A b \in Blocks : b \in Chain[EndFrom(a, p)] <=> (b \in Chain[a] /\ b \in Chain[p]) \/ b \in PageFrom(a, p)
         /\ Cardinality(PageFrom(a, p)) < PageCap => EndFrom(a, p) = p
<1>0. PICK A, e : A = FirstOf(Chain[p] \ Chain[a]) /\ e = IF A = {} THEN a ELSE Last(A)
  OBVIOUS
<1> SUFFICES /\ A \subseteq Chain[p] /\ A \cap Chain[a] = {} /\ e \in Blocks /\ Score[e] <= Score[p]
             /\ \A b \in Blocks : b \in Chain[e] <=> (b \in Chain[a] /\ b \in Chain[p]) \/ b \in A
             /\ Cardinality(A) < PageCap => e = p
  BY <1>0 DEF PageFrom, EndFrom
<1> DEFINE path == Chain[p] \ Chain[a]
<1>1. A \subseteq path /\ path \subseteq Blocks /\ path \subseteq Chain[p] /\ IsFiniteSet(path)
  BY <1>0, ChainIsATree, FS_Subset DEF FirstOf
<1>2. Score[a] \in Nat /\ Score[p] \in Nat /\ p \in Chain[p] /\ a \in Chain[a]
  BY ChainFacts
<1>3. CASE A = {}
  <2>1. path = {}
    BY <1>0, <1>1, <1>3, ShortPages
  <2>2. p \in Chain[a] /\ p = a
    BY <1>2, <2>1, ChainFacts
  <2> QED BY <1>0, <1>2, <1>3, <2>2
<1>4. CASE A # {}
  <2>1. OneChain(A)
    BY <1>1 DEF OneChain
  <2>2. e \in A /\ \A c \in A : Score[c] <= Score[e]
    BY <1>0, <1>4, <2>1, LastOfChain
  <2>3. e \in path /\ e \in Chain[p] /\ e \in Blocks /\ Score[e] \in Nat /\ Score[e] <= Score[p]
    BY <1>1, <1>2, <2>2, ChainFacts
  <2>4. Chain[e] \subseteq Chain[p]
    BY <2>3, ChainFacts
  <2>5. ASSUME NEW b \in Blocks, b \in Chain[e], b \notin Chain[a] PROVE b \in A
    <3>1. b \in path /\ Score[b] <= Score[e] /\ Score[b] \in Nat
      BY <2>3, <2>4, <2>5, ChainFacts
    <3> DEFINE low(x) == {c \in path : Score[c] < Score[x]}
    <3>2. low(b) \subseteq low(e)
      <4>1. \A c \in path : Score[c] \in Nat
        BY <1>1, ChainFacts
      <4>2. \A c \in path : Score[c] < Score[b] => Score[c] < Score[e]
        <5> TAKE c \in path
        <5>1. Score[c] \in Nat /\ Score[b] \in Nat /\ Score[e] \in Nat /\ Score[b] <= Score[e]
          BY <2>3, <3>1, <4>1
        <5> QED BY <5>1
      <4> QED BY <4>2
    <3>3. Cardinality(low(e)) < PageCap
      BY <1>0, <2>2 DEF FirstOf
    <3>4. IsFiniteSet(low(e))
      <4>1. low(e) \in SUBSET path
        OBVIOUS
      <4> QED BY <1>1, <4>1, FS_Subset
    <3>5. Cardinality(low(b)) <= Cardinality(low(e)) /\ Cardinality(low(b)) \in Nat /\ Cardinality(low(e)) \in Nat
      BY <3>2, <3>4, FS_Subset, FS_CardinalityType
    <3>6. Cardinality(low(b)) < PageCap
      BY <3>3, <3>5, AcceptanceBounds
    <3> QED BY <1>0, <3>1, <3>6 DEF FirstOf
  <2>6. ASSUME NEW b \in A PROVE b \in Chain[e]
    <3>1. b \in Chain[p] /\ b \in Blocks /\ Score[b] <= Score[e] /\ Score[b] \in Nat
      BY <1>1, <2>2, <2>6, ChainFacts
    <3>2. b \in Chain[e] \/ e \in Chain[b]
      BY <2>3, <3>1, ChainFacts
    <3>3. e \in Chain[b] => b = e
      BY <2>3, <3>1, ChainFacts
    <3> QED BY <2>3, <3>2, <3>3, ChainFacts
  <2>7. ASSUME NEW b \in Blocks, b \in Chain[a], b \in Chain[p] PROVE b \in Chain[e]
    <3>1. b \in Chain[e] \/ e \in Chain[b]
      BY <2>3, <2>7, ChainFacts
    <3>2. Chain[b] \subseteq Chain[a]
      BY <2>7, ChainFacts
    <3> QED BY <2>3, <3>1, <3>2
  <2>8. ASSUME Cardinality(A) < PageCap PROVE e = p
    <3>1. A = path
      BY <1>0, <1>1, <2>8, ShortPages
    <3>2. p \in A
      <4>1. p \in Chain[a] => p = a
        BY <1>2, ChainFacts
      <4>2. p # a
        BY <1>1, <1>4
      <4> QED BY <1>2, <3>1, <4>1, <4>2
    <3>3. Score[p] <= Score[e]
      BY <2>2, <3>2
    <3> QED BY <1>2, <2>3, <3>3, ChainFacts
  <2>9. \A b \in Blocks : b \in Chain[e] <=> (b \in Chain[a] /\ b \in Chain[p]) \/ b \in A
    BY <2>4, <2>5, <2>6, <2>7
  <2> QED BY <1>1, <2>3, <2>8, <2>9
<1> QED BY <1>3, <1>4

\* What waits, as the two queues change.
LEMMA ComingMoves ==
  ASSUME Shapes, Shapes'
  PROVE  /\ Coming \in Seq(Deliveries)
         /\ held = <<>> => Coming = feed
         /\ held = <<>> /\ feed = <<>> => Coming = <<>>
         /\ held' = held /\ feed' = feed => Coming' = Coming
         /\ held' = <<>> /\ feed' = <<>> => Coming' = <<>>
         /\ held = <<>> /\ feed # <<>> /\ feed' = Tail(feed) /\ held' = held =>
              Coming # <<>> /\ Head(Coming) = Head(feed) /\ Coming' = Tail(Coming)
         /\ held # <<>> /\ held' = Tail(held) /\ feed' = feed =>
              Coming # <<>> /\ Head(Coming) = Head(held) /\ Coming' = Tail(Coming)
         /\ feed # <<>> /\ feed' = Tail(feed) /\ held' = Append(held, Head(feed)) => Coming' = Coming
         /\ \A m \in Deliveries : feed' = Append(feed, m) /\ held' = held => Coming' = Append(Coming, m)
<1>1. feed \in Seq(Deliveries) /\ held \in Seq(Deliveries) /\ feed' \in Seq(Deliveries) /\ held' \in Seq(Deliveries)
  BY DEF Shapes
<1>2. Coming \in Seq(Deliveries) /\ Coming' \in Seq(Deliveries)
  BY <1>1, ConcatProperties DEF Coming
<1>3. /\ Len(Coming) = Len(held) + Len(feed) /\ Len(held) \in Nat /\ Len(feed) \in Nat
      /\ \A i \in 1..Len(held) + Len(feed) : Coming[i] = IF i <= Len(held) THEN held[i] ELSE feed[i - Len(held)]
  BY <1>1, ConcatProperties, LenProperties DEF Coming
<1>4. /\ Len(Coming') = Len(held') + Len(feed') /\ Len(held') \in Nat /\ Len(feed') \in Nat
      /\ \A i \in 1..Len(held') + Len(feed') : Coming'[i] = IF i <= Len(held') THEN held'[i] ELSE feed'[i - Len(held')]
  BY <1>1, ConcatProperties, LenProperties DEF Coming
<1>5. held = <<>> => Coming = feed
  BY <1>1, ConcatEmptySeq DEF Coming
<1>6. held' = <<>> => Coming' = feed'
  BY <1>1, ConcatEmptySeq DEF Coming
<1>7. held' = held /\ feed' = feed => Coming' = Coming
  BY DEF Coming
<1>8. ASSUME held # <<>>, held' = Tail(held), feed' = feed
      PROVE  Coming # <<>> /\ Head(Coming) = Head(held) /\ Coming' = Tail(Coming)
  <2>1. /\ Len(held) > 0 /\ Len(held') = Len(held) - 1 /\ \A i \in 1..Len(held') : held'[i] = held[i + 1]
        /\ Head(held) = held[1]
    BY <1>1, <1>8, HeadTailProperties, EmptySeq
  <2>2. Len(Coming) > 0 /\ Coming # <<>> /\ Coming[1] = held[1] /\ Head(Coming) = Coming[1]
    <3>1. Len(Coming) > 0 /\ Coming[1] = held[1]
      BY <1>3, <2>1
    <3>2. Coming # <<>>
      BY <3>1, EmptySeq
    <3> QED BY <1>2, <3>1, <3>2
  <2>3. /\ Tail(Coming) \in Seq(Deliveries) /\ Len(Tail(Coming)) = Len(Coming) - 1
        /\ \A i \in 1..Len(Tail(Coming)) : Tail(Coming)[i] = Coming[i + 1]
    BY <1>2, <2>2, HeadTailProperties
  <2>4. Len(Coming') = Len(Tail(Coming))
    BY <1>3, <1>4, <1>8, <2>1, <2>3
  <2>5. \A i \in 1..Len(Coming') : Coming'[i] = Tail(Coming)[i]
    <3> TAKE i \in 1..Len(Coming')
    <3>1. i \in 1..Len(held') + Len(feed') /\ i + 1 \in 1..Len(held) + Len(feed) /\ i \in 1..Len(Tail(Coming))
      BY <1>3, <1>4, <1>8, <2>1, <2>4
    <3>2. Tail(Coming)[i] = Coming[i + 1]
      BY <2>3, <3>1
    <3>3. CASE i <= Len(held')
      BY <1>3, <1>4, <2>1, <3>1, <3>2, <3>3
    <3>4. CASE ~(i <= Len(held'))
      BY <1>3, <1>4, <1>8, <2>1, <3>1, <3>2, <3>4
    <3> QED BY <3>3, <3>4
  <2>6. Coming' = Tail(Coming)
    BY <1>2, <2>3, <2>4, <2>5, SeqEqual
  <2> QED BY <2>1, <2>2, <2>6
<1>9. ASSUME feed # <<>>, feed' = Tail(feed), held' = Append(held, Head(feed))
      PROVE  Coming' = Coming
  <2>1. /\ Len(feed) > 0 /\ Len(feed') = Len(feed) - 1 /\ \A i \in 1..Len(feed') : feed'[i] = feed[i + 1]
        /\ Head(feed) = feed[1]
    BY <1>1, <1>9, HeadTailProperties, EmptySeq
  <2>2. /\ Len(held') = Len(held) + 1 /\ held'[Len(held) + 1] = feed[1]
        /\ \A i \in 1..Len(held) : held'[i] = held[i]
    BY <1>1, <1>9, <2>1, HeadTailProperties, AppendProperties
  <2>3. Len(Coming') = Len(Coming)
    BY <1>3, <1>4, <2>1, <2>2
  <2>4. \A i \in 1..Len(Coming') : Coming'[i] = Coming[i]
    <3> TAKE i \in 1..Len(Coming')
    <3>1. i \in 1..Len(held') + Len(feed') /\ i \in 1..Len(held) + Len(feed) /\ i \in Nat
      BY <1>3, <1>4, <2>3
    <3>2. CASE i <= Len(held)
      BY <1>3, <1>4, <2>2, <3>1, <3>2
    <3>3. CASE i = Len(held) + 1
      BY <1>3, <1>4, <2>1, <2>2, <3>1, <3>3
    <3>4. CASE i > Len(held) + 1
      <4>1. i - Len(held') \in 1..Len(feed') /\ (i - Len(held')) + 1 = i - Len(held)
        BY <1>3, <1>4, <2>2, <3>1, <3>4
      <4>2. feed'[i - Len(held')] = feed[i - Len(held)]
        BY <2>1, <4>1
      <4> QED BY <1>3, <1>4, <2>2, <3>1, <3>4, <4>2
    <3> QED BY <1>3, <3>1, <3>2, <3>3, <3>4
  <2> QED BY <1>2, <2>3, <2>4, SeqEqual
<1>10. ASSUME NEW m \in Deliveries, feed' = Append(feed, m), held' = held
       PROVE  Coming' = Append(Coming, m)
  <2>1. Append(feed, m) = feed \o <<m>> /\ <<m>> \in Seq(Deliveries)
    BY <1>1
  <2>2. held \o (feed \o <<m>>) = (held \o feed) \o <<m>>
    BY <1>1, <2>1, ConcatAssociative
  <2>3. Append(Coming, m) = Coming \o <<m>>
    BY <1>2
  <2> QED BY <1>10, <2>1, <2>2, <2>3 DEF Coming
<1> QED BY <1>1, <1>2, <1>5, <1>6, <1>7, <1>8, <1>9, <1>10

\* A step of a behaviour in which nothing was cut off and nothing given up.
Onward == TrackerIInv /\ TrackerIInv' /\ Accord /\ ~torn' /\ ~missed'

\* What such a step starts from and ends in: the shapes of the tracker's state.
LEMMA Grounds ==
  ASSUME Onward
  PROVE  /\ LogPart /\ OtherTypes /\ Shapes /\ OtherTypes' /\ Shapes'
         /\ cursor \in Blocks \cup {None} /\ walk.at \in Blocks \cup {None} /\ sink \in Blocks /\ None \notin Blocks
         /\ fold.added \subseteq Blocks /\ fold.todo \subseteq fold.added /\ fold.complete \in BOOLEAN
         /\ walk.pc \in {"off", "page", "fold", "drain"} /\ fold.by \in {"none", "live", "walk"} /\ walk.clean \in BOOLEAN
<1>1. LogPart /\ OtherTypes /\ Shapes /\ OtherTypes' /\ Shapes'
  BY PartsOfTracker DEF Onward, TrackerIInv, TrackerInv, TrackerTypeOK, LogPart, OtherTypes, Shapes
<1>2. walk \in Walks /\ fold \in BatchFolds
  BY <1>1 DEF Shapes
<1> QED BY <1>1, <1>2, ChainIsATree DEF OtherTypes, Walks, BatchFolds

\* Nothing that the records' agreement rests on changes.
LEMMA NothingMoves ==
  ASSUME Onward, UNCHANGED <<Messages, sink, up, reconn, page, mpos, rec, cursor, off, memory, frozen, owed, walk, again, fold, late>>,
         Coming' = Coming, LoopPart', ~up => held' = <<>> /\ feed' = <<>>
  PROVE  Accord'
<1>1. Accord /\ UNCHANGED <<Messages, sink, up, reconn, page, mpos, rec, cursor, off, memory, frozen, owed, walk, again, fold, late>>
  BY DEF Onward
<1>2. /\ \A b : (Told(b)' <=> Told(b)) /\ (Pending(b)' <=> Pending(b))
      /\ \A b : OnCursor(b)' <=> OnCursor(b)
      /\ \A b : OnSink(b)' <=> OnSink(b)
      /\ InGap' = InGap /\ Paging' = Paging /\ InWalk' = InWalk /\ Whole' = Whole
  BY <1>1 DEF Told, Pending, OnCursor, OnSink, InGap, Paging, InWalk, Whole
<1>3. WalksTo' = WalksTo /\ (Owing' <=> Owing) /\ \A b : OnWalk(b)' <=> OnWalk(b)
  BY <1>1, <1>2 DEF WalksTo, PageEnd, OnWalk, Owing
<1>4. \A b : Excused(b)' <=> Excused(b)
  BY <1>1, <1>2, <1>3 DEF Excused, AwaitsPage
<1>5. /\ \A t : IsAccepted(t)' <=> IsAccepted(t)
      /\ \A t, b : (Here(t, b)' <=> Here(t, b)) /\ (Recalls(t, b)' <=> Recalls(t, b))
  BY <1>1 DEF IsAccepted, Here, Recalls
<1>6. \A t, b : Unsettled(t, b)' <=> Unsettled(t, b)
  BY <1>1, <1>2, <1>5 DEF Unsettled, Sends
<1>7. QueuePart' /\ FoldPart'
  BY <1>1 DEF Accord, QueuePart, FoldPart, FoldsTo
<1>8. DownPart'
  BY <1>1, <1>2, <1>5, <1>6 DEF Accord, DownPart
<1>9. StalePart'
  BY <1>1, <1>4, <1>5 DEF Accord, StalePart
<1>10. CleanPart'
  BY <1>1, <1>2, <1>3, <1>5, <1>6 DEF Accord, CleanPart
<1>11. FinalPart'
  BY <1>1, <1>2 DEF Accord, FinalPart, IsFinal
<1>12. PagePart' /\ WordPart'
  BY <1>1, <1>2 DEF Accord, PagePart, WordPart
<1>13. CursorPart' /\ OffPart'
  BY <1>1, <1>2, <1>3 DEF Accord, CursorPart, OffPart
<1>14. SettlePart'
  BY <1>1, <1>2, <1>3, <1>6 DEF Accord, SettlePart
<1>15. CoverPart'
  BY <1>1, <1>2, <1>3, <1>5 DEF Accord, CoverPart, Sends
<1> QED BY <1>7, <1>8, <1>9, <1>10, <1>11, <1>12, <1>13, <1>14, <1>15 DEF Accord

\* The sink moves: a connected socket carries what left the chain and what joined it.
LEMMA SinkMovesAccord ==
  ASSUME Onward, SinkMoves
  PROVE  Accord'
<1>1. PICK c \in Blocks : Score[c] > Score[sink] /\ sink' = c /\ feed' = IF up THEN Append(feed, Batch(sink, c)) ELSE feed
  BY DEF SinkMoves
<1>2. /\ Accord
      /\ UNCHANGED <<Messages, up, reconn, page, mpos, known, rec, cursor, off, memory, frozen, owed, walk, again, held, fold, late>>
  BY DEF Onward, SinkMoves, disk, maps, hold, loop, hist
<1>3. /\ sink \in Blocks /\ Score[sink] \in Nat /\ Score[c] \in Nat /\ Score[sink] <= Score[c]
      /\ cursor \in Blocks \cup {None} /\ walk.at \in Blocks \cup {None} /\ Shapes /\ Shapes' /\ fold.added \subseteq Blocks
  BY <1>1, Grounds, ChainFacts
<1>4. Batch(sink, c) \in Deliveries /\ Batch(sink, c).kind = "vcc"
  <2>1. OneChain(Batch(sink, c).added)
    BY <1>3, ChainFacts DEF OneChain, Batch
  <2> QED BY <1>3, <2>1, ChainFacts DEF Batch, Deliveries
<1>5. /\ up => Coming' = Append(Coming, Batch(sink, c))
      /\ ~up => Coming' = Coming /\ Coming = <<>> /\ fold.by = "none" /\ page = None
      /\ Coming \in Seq(Deliveries)
  <2>1. ~up => held = <<>> /\ feed = <<>> /\ fold.by = "none" /\ page = None
    BY <1>2 DEF Accord, DownPart
  <2> QED BY <1>1, <1>2, <1>3, <1>4, <2>1, ComingMoves
<1>6. /\ \A b : Told(b) => Told(b)'
      /\ \A b : Pending(b)' <=> Pending(b)
      /\ \A b \in Blocks : Told(b)' \/ (OnSink(b)' <=> OnSink(b)) \/ ~up
      /\ \A b : Told(b)' => Told(b) \/ up
  <2>1. CASE up
    <3>0. /\ \A b : ToldIn(Coming', b) <=> ToldIn(Coming, b) \/ Says(Batch(sink, c), b)
          /\ \A b : NamedIn(Coming', b) <=> NamedIn(Coming, b)
      <4> DEFINE m == Batch(sink, c)
      <4>1. m \in Deliveries /\ m.kind = "vcc" /\ Coming \in Seq(Deliveries) /\ Coming' = Append(Coming, m)
        BY <1>4, <1>5, <2>1
      <4> HIDE DEF m
      <4>2. /\ \A b : ToldIn(Append(Coming, m), b) <=> ToldIn(Coming, b) \/ Says(m, b)
            /\ \A b : NamedIn(Append(Coming, m), b) <=> NamedIn(Coming, b) \/ (m.kind = "walk" /\ b \in m.added)
        BY <1>3, <4>1, QueueAppend
      <4> QED BY <4>1, <4>2 DEF m
    <3>1. \A b : Told(b)' <=> Told(b) \/ Says(Batch(sink, c), b)
      BY <3>0 DEF Told
    <3>2. \A b : Pending(b)' <=> Pending(b)
      BY <1>2, <3>0 DEF Pending
    <3>3. \A b \in Blocks : Says(Batch(sink, c), b) \/ (OnSink(b)' <=> OnSink(b))
      BY <1>1 DEF Says, Batch, OnSink
    <3> QED BY <2>1, <3>1, <3>2, <3>3
  <2>2. CASE ~up
    BY <1>2, <1>5, <2>2 DEF Told, Pending
  <2> QED BY <2>1, <2>2
<1>7. /\ \A b : OnCursor(b)' <=> OnCursor(b)
      /\ InGap' = InGap /\ Paging' = Paging /\ InWalk' = InWalk /\ Whole' = Whole
      /\ \A t : IsAccepted(t)' <=> IsAccepted(t)
      /\ \A t, b : (Here(t, b)' <=> Here(t, b)) /\ (Recalls(t, b)' <=> Recalls(t, b))
  BY <1>2 DEF OnCursor, InGap, Paging, InWalk, Whole, IsAccepted, Here, Recalls
<1>8. WalksTo' = WalksTo /\ (Owing' <=> Owing) /\ \A b : (OnWalk(b)' <=> OnWalk(b)) /\ (AwaitsPage(b)' <=> AwaitsPage(b))
  BY <1>2, <1>7 DEF WalksTo, PageEnd, OnWalk, Owing, AwaitsPage
<1>9. \A t, b : Unsettled(t, b)' <=> Unsettled(t, b)
  BY <1>2, <1>6, <1>7 DEF Unsettled, Sends
<1>10. ~up => InGap /\ Owing
  BY DEF InGap, Owing
<1>11. \A b \in Blocks : Excused(b) => Excused(b)' \/ (~up /\ ~OnCursor(b))
  BY <1>5, <1>6, <1>7, <1>8, <1>10 DEF Excused
<1>12. LoopPart'
  <2>1. \A d \in Blocks : Score[d] <= Score[sink] => Score[d] <= Score[c]
    BY <1>3, ChainFacts
  <2>2. Paging' = Paging /\ InGap' = InGap
    BY <1>7
  <2> QED BY <1>1, <1>2, <1>3, <2>1, <2>2 DEF Accord, LoopPart
<1>13. QueuePart'
  <2>1. CASE up
    <3>1. InOrder(Coming, sink)
      BY <1>2 DEF Accord, QueuePart
    <3>2. InOrder(Append(Coming, Batch(sink, c)), c)
      BY <1>3, <1>4, <1>5, <3>1, QueueAppend
    <3> QED BY <1>1, <1>5, <2>1, <3>2 DEF QueuePart
  <2>2. CASE ~up
    <3>1. Len(Coming') = 0
      BY <1>5, <2>2, EmptySeq
    <3> QED BY <3>1 DEF QueuePart, InOrder
  <2> QED BY <2>1, <2>2
<1>14. FoldPart'
  <2> SUFFICES ASSUME fold.by # "none" PROVE \E p \in Blocks : FoldsTo(p)'
    BY <1>2 DEF FoldPart
  <2>1. PICK p \in Blocks : FoldsTo(p)
    BY <1>2 DEF Accord, FoldPart
  <2>2. Score[p] <= Score[c]
    BY <1>3, <2>1, ChainFacts DEF FoldsTo
  <2>3. ASSUME NEW b \in Blocks PROVE Told(b)' \/ (b \in Chain[p] <=> b \in Chain[sink'])
    <3>1. Told(b) \/ (b \in Chain[p] <=> b \in Chain[sink])
      BY <2>1 DEF FoldsTo, Agrees, Told
    <3> QED BY <1>2, <1>5, <1>6, <3>1 DEF OnSink
  <2>4. Agrees(p, Coming', sink')
    BY <2>3 DEF Agrees, Told
  <2>5. FoldsTo(p)'
    BY <1>1, <1>2, <2>1, <2>2, <2>4 DEF FoldsTo
  <2> QED BY <2>5
<1>15. DownPart'
  BY <1>1, <1>2, <1>6, <1>7, <1>9 DEF Accord, DownPart
<1>16. StalePart'
  <2>1. ~up => /\ \A t \in Txids : IsAccepted(t) => OnCursor(rec[t].at)
               /\ \A t \in Messages, b \in Blocks : Recalls(t, b) => OnCursor(b)
    BY <1>2 DEF Accord, DownPart, Recalls
  <2> QED BY <1>2, <1>7, <1>11, <2>1 DEF Accord, StalePart
<1>17. CleanPart'
  BY <1>2, <1>6, <1>7, <1>8, <1>9 DEF Accord, CleanPart
<1>18. FinalPart'
  <2> SUFFICES ASSUME NEW t \in Txids, IsFinal(t)
               PROVE  rec[t].at \in Blocks /\ rec[t].at \in Chain[c] /\ Score[rec[t].at] + Terminal <= Score[c]
    BY <1>1, <1>2 DEF FinalPart, IsFinal, OnSink
  <2>1. rec[t].at \in Blocks /\ rec[t].at \in Chain[sink] /\ Score[rec[t].at] + Terminal <= Score[sink]
    BY <1>2 DEF Accord, FinalPart, OnSink
  <2>2. Score[rec[t].at] + Terminal <= Score[c] /\ ~(Score[sink] < Score[rec[t].at] + Terminal)
    BY <1>3, <2>1, ChainFacts, AcceptanceBounds
  <2> QED BY <1>1, <1>3, <2>1, <2>2, ReorgsAreShallow
<1>19. PagePart' /\ WordPart'
  <2>1. \A b \in Blocks : Pending(b) => up
    <3>1. ~up => Len(Coming) = 0
      BY <1>5, EmptySeq
    <3> QED BY <1>5, <3>1 DEF Pending, NamedIn
  <2> QED BY <1>2, <1>6, <2>1 DEF Accord, PagePart, WordPart
<1>20. CursorPart'
  BY <1>2, <1>3, <1>6, <1>7, <1>8, <1>10 DEF Accord, CursorPart
<1>21. OffPart'
  <2>1. \A b \in off : b \in Blocks
    BY Grounds DEF OtherTypes
  <2>2. ~up => \A b \in off : cursor # None /\ ~OnCursor(b)
    BY <1>2 DEF Accord, DownPart
  <2> QED BY <1>2, <1>6, <1>7, <1>8, <1>10, <2>1, <2>2 DEF Accord, OffPart
<1>22. SettlePart'
  <2>1. ~up => \A t \in Txids, b \in Blocks : Unsettled(t, b) => ~OnCursor(b)
    BY <1>2 DEF Accord, DownPart
  <2> QED BY <1>2, <1>6, <1>7, <1>8, <1>9, <1>10, <2>1 DEF Accord, SettlePart
<1>23. CoverPart'
  BY <1>2, <1>6, <1>7, <1>8 DEF Accord, CoverPart, Sends
<1> QED BY <1>12, <1>13, <1>14, <1>15, <1>16, <1>17, <1>18, <1>19, <1>20, <1>21, <1>22, <1>23 DEF Accord

\* The socket is lost with nothing outstanding: the cursor covers what is known.
LEMMA DropsAccord ==
  ASSUME Onward, Drops
  PROVE  Accord'
<1>1. /\ Accord /\ up /\ up' = FALSE /\ ~Outstanding
      /\ UNCHANGED <<Messages, sink, reconn, feed, page, mpos, rec, cursor, off, memory, frozen, owed, walk, again, held, fold, late>>
  BY DEF Onward, Drops, maps, disk, hold, loop
<1>2. /\ \A b : (Told(b)' <=> Told(b)) /\ (Pending(b)' <=> Pending(b))
      /\ \A b : OnCursor(b)' <=> OnCursor(b)
      /\ \A b : OnSink(b)' <=> OnSink(b)
      /\ InGap' /\ Paging' = Paging /\ InWalk' = InWalk /\ Whole' = Whole
      /\ \A t : IsAccepted(t)' <=> IsAccepted(t)
      /\ \A t, b : (Here(t, b)' <=> Here(t, b)) /\ (Recalls(t, b)' <=> Recalls(t, b))
  BY <1>1 DEF Told, Coming, Pending, OnCursor, OnSink, InGap, Paging, InWalk, Whole, IsAccepted, Here, Recalls
<1>3. WalksTo' = WalksTo /\ Owing' /\ \A b : (OnWalk(b)' <=> OnWalk(b)) /\ (AwaitsPage(b)' <=> AwaitsPage(b))
  BY <1>1, <1>2 DEF WalksTo, PageEnd, OnWalk, Owing, AwaitsPage
<1>4. \A t, b : Unsettled(t, b)' <=> Unsettled(t, b)
  BY <1>1, <1>2 DEF Unsettled, Sends
<1>5. \A b : Excused(b) => Excused(b)'
  BY <1>2, <1>3 DEF Excused
<1>6. /\ feed = <<>> /\ held = <<>> /\ fold.by = "none" /\ page = None
      /\ \A t \in Txids : IsAccepted(t) => OnCursor(rec[t].at)
      /\ \A t \in Messages : memory[t] # None => OnCursor(memory[t].at)
      /\ \A b \in off : cursor # None /\ ~OnCursor(b)
      /\ frozen /\ cursor # None => Chain[cursor] \subseteq Chain[sink]
  BY <1>1 DEF Outstanding, OnCursor
<1>7. \A b \in Blocks : ~Told(b)
  <2>1. Coming = <<>> /\ Len(Coming) = 0
    BY <1>6, Grounds, ComingMoves, EmptySeq
  <2> QED BY <2>1 DEF Told, ToldIn
<1>8. fold.added = {}
  BY <1>1, <1>6 DEF Accord, LoopPart, NoFold
<1>9. LoopPart'
  BY <1>1, <1>2, <1>6 DEF Accord, LoopPart
<1>10. QueuePart' /\ FoldPart'
  BY <1>1, <1>6 DEF Accord, QueuePart, FoldPart, Coming
<1>11. DownPart'
  <2>1. ASSUME NEW t \in Txids, NEW b \in Blocks, Unsettled(t, b), OnCursor(b) PROVE FALSE
    <3>1. b \in off \/ Told(b) \/ b \in fold.added \/ (frozen /\ ~OnSink(b))
      BY <1>1, <2>1 DEF Accord, SettlePart
    <3> QED BY <1>6, <1>7, <1>8, <2>1, <3>1 DEF OnSink, OnCursor
  <2> QED BY <1>1, <1>2, <1>4, <1>6, <2>1 DEF DownPart
<1>12. StalePart'
  BY <1>1, <1>2, <1>5 DEF Accord, StalePart
<1>13. CleanPart'
  BY <1>1, <1>2, <1>3, <1>4 DEF Accord, CleanPart
<1>14. FinalPart' /\ PagePart' /\ WordPart'
  BY <1>1, <1>2 DEF Accord, FinalPart, IsFinal, PagePart, WordPart
<1>15. CursorPart' /\ OffPart'
  BY <1>1, <1>2, <1>3 DEF Accord, CursorPart, OffPart
<1>16. SettlePart'
  BY <1>1, <1>2, <1>3, <1>4 DEF Accord, SettlePart
<1>17. CoverPart'
  BY <1>1, <1>2, <1>3 DEF Accord, CoverPart, Sends
<1> QED BY <1>9, <1>10, <1>11, <1>12, <1>13, <1>14, <1>15, <1>16, <1>17 DEF Accord

\* A socket again: the Connected event stands for the walk that is to come.
LEMMA ConnectsAccord ==
  ASSUME Onward, Connects
  PROVE  Accord'
<1>1. /\ Accord /\ ~up /\ up' = TRUE /\ reconn' = TRUE
      /\ UNCHANGED <<Messages, sink, feed, page, mpos, rec, cursor, off, memory, frozen, owed, walk, again, held, fold, late>>
  BY DEF Onward, Connects, maps, disk, hold, loop, hist
<1>2. /\ \A b : (Told(b)' <=> Told(b)) /\ (Pending(b)' <=> Pending(b))
      /\ \A b : OnCursor(b)' <=> OnCursor(b)
      /\ \A b : OnSink(b)' <=> OnSink(b)
      /\ InGap' /\ InGap /\ Paging' = Paging /\ InWalk' = InWalk /\ Whole' = Whole
      /\ \A t : IsAccepted(t)' <=> IsAccepted(t)
      /\ \A t, b : (Here(t, b)' <=> Here(t, b)) /\ (Recalls(t, b)' <=> Recalls(t, b))
  BY <1>1 DEF Told, Coming, Pending, OnCursor, OnSink, InGap, Paging, InWalk, Whole, IsAccepted, Here, Recalls
<1>3. WalksTo' = WalksTo /\ Owing' /\ \A b : (OnWalk(b)' <=> OnWalk(b)) /\ (AwaitsPage(b)' <=> AwaitsPage(b))
  BY <1>1, <1>2 DEF WalksTo, PageEnd, OnWalk, Owing, AwaitsPage
<1>4. \A t, b : Unsettled(t, b)' <=> Unsettled(t, b)
  BY <1>1, <1>2 DEF Unsettled, Sends
<1>5. \A b : Excused(b) => Excused(b)'
  BY <1>2, <1>3 DEF Excused
<1>6. LoopPart'
  BY <1>1, <1>2 DEF Accord, LoopPart
<1>7. QueuePart' /\ FoldPart' /\ DownPart'
  BY <1>1 DEF Accord, QueuePart, FoldPart, DownPart, Coming
<1>8. StalePart'
  BY <1>1, <1>2, <1>5 DEF Accord, StalePart
<1>9. CleanPart'
  BY <1>1, <1>2, <1>3, <1>4 DEF Accord, CleanPart
<1>10. FinalPart' /\ PagePart' /\ WordPart'
  BY <1>1, <1>2 DEF Accord, FinalPart, IsFinal, PagePart, WordPart
<1>11. CursorPart' /\ OffPart'
  BY <1>1, <1>2, <1>3 DEF Accord, CursorPart, OffPart
<1>12. SettlePart'
  BY <1>1, <1>2, <1>3, <1>4 DEF Accord, SettlePart
<1>13. CoverPart'
  BY <1>1, <1>2, <1>3 DEF Accord, CoverPart, Sends
<1> QED BY <1>6, <1>7, <1>8, <1>9, <1>10, <1>11, <1>12, <1>13 DEF Accord

\* A walk from the cursor begins: what a gap or a hold owed, the walk owes now.
LEMMA WalkBeginsAccord ==
  ASSUME Onward, walk' = Begun, again' = FALSE, ~Paging, fold.by = "none",
         UNCHANGED <<Messages, sink, up, feed, page, mpos, rec, cursor, off, memory, frozen, owed, held, fold, late>>
  PROVE  Accord'
<1>1. /\ Accord /\ ~Paging /\ fold.by = "none" /\ fold.added = {} /\ fold.todo = {} /\ fold.complete
      /\ walk'.pc = "page" /\ walk'.at = cursor /\ walk'.clean /\ cursor \in Blocks \cup {None}
      /\ UNCHANGED <<Messages, sink, up, feed, page, mpos, rec, cursor, off, memory, frozen, owed, held, fold, late>>
  <2>1. Accord /\ fold = NoFold
    BY DEF Onward, Accord, LoopPart
  <2>2. walk'.pc = "page" /\ walk'.at = cursor /\ walk'.clean
    BY DEF Begun, NoWalk
  <2> QED BY <2>1, <2>2, Grounds DEF NoFold
<1>2. /\ \A b : (Told(b)' <=> Told(b)) /\ (Pending(b)' <=> Pending(b))
      /\ \A b : OnCursor(b)' <=> OnCursor(b)
      /\ \A b : OnSink(b)' <=> OnSink(b)
      /\ ~InWalk /\ Paging' /\ (InWalk' <=> cursor # None) /\ Whole'
      /\ \A t : IsAccepted(t)' <=> IsAccepted(t)
      /\ \A t, b : (Here(t, b)' <=> Here(t, b)) /\ (Recalls(t, b)' <=> Recalls(t, b))
  BY <1>1 DEF Told, Coming, Pending, OnCursor, OnSink, Paging, InWalk, Whole, IsAccepted, Here, Recalls
<1>3. \A b : ~OnWalk(b) /\ ~AwaitsPage(b) /\ (OnWalk(b)' <=> OnCursor(b)) /\ (AwaitsPage(b)' <=> OnCursor(b))
  BY <1>1, <1>2 DEF WalksTo, OnWalk, AwaitsPage, OnCursor
<1>4. \A t, b : Unsettled(t, b)' <=> Unsettled(t, b)
  BY <1>1, <1>2 DEF Unsettled, Sends
<1>5. (cursor = None => Owing') /\ (Owing => InGap \/ frozen)
  BY <1>1, <1>2 DEF Owing
<1>6. \A b : Excused(b) => Excused(b)'
  BY <1>2, <1>3 DEF Excused
<1>7. LoopPart'
  BY <1>1, <1>2 DEF Accord, LoopPart
<1>8. QueuePart' /\ FoldPart'
  BY <1>1 DEF Accord, QueuePart, FoldPart, Coming
<1>9. DownPart'
  BY <1>1, <1>2, <1>4 DEF Accord, DownPart
<1>10. StalePart'
  BY <1>1, <1>2, <1>6 DEF Accord, StalePart
<1>11. CleanPart'
  BY <1>3, <1>2 DEF CleanPart
<1>12. FinalPart' /\ PagePart' /\ WordPart'
  BY <1>1, <1>2 DEF Accord, FinalPart, IsFinal, PagePart, WordPart
<1>13. CursorPart'
  BY <1>1, <1>2, <1>3 DEF CursorPart
<1>14. OffPart'
  BY <1>1, <1>2, <1>3 DEF Accord, OffPart
<1>15. SettlePart'
  BY <1>1, <1>2, <1>3, <1>4, <1>5 DEF Accord, SettlePart, OnCursor
<1>16. CoverPart'
  BY <1>1, <1>2, <1>3 DEF CoverPart, Sends
<1> QED BY <1>7, <1>8, <1>9, <1>10, <1>11, <1>12, <1>13, <1>14, <1>15, <1>16 DEF Accord

\* A Connected event, a held cursor's tick, the end of a walk.
LEMMA LoopTurnsAccord ==
  ASSUME Onward, TakesConnected \/ TickWalks \/ WalkEnds
  PROVE  Accord'
<1>1. /\ Accord /\ LoopPart
      /\ UNCHANGED <<Messages, sink, up, feed, page, mpos, rec, cursor, off, memory, frozen, owed, held, fold, late>>
  BY DEF Onward, Accord, TakesConnected, TickWalks, WalkEnds, node, disk, maps, hold, hist
<1>2. fold.by \in {"none", "live", "walk"} /\ walk.pc \in {"off", "page", "fold", "drain"}
  BY Grounds
<1>3. ASSUME TakesConnected, Walking
      PROVE  Accord'
  <2>1. walk' = walk /\ again' = TRUE /\ reconn' = FALSE /\ walk.pc \in {"page", "fold"} /\ reconn
    BY <1>2, <1>3 DEF TakesConnected, LoopFree, Walking
  <2>2. /\ \A b : (Told(b)' <=> Told(b)) /\ (Pending(b)' <=> Pending(b))
        /\ \A b : OnCursor(b)' <=> OnCursor(b)
        /\ \A b : OnSink(b)' <=> OnSink(b)
        /\ InGap /\ InGap' /\ Paging' = Paging /\ InWalk' = InWalk /\ Whole' = Whole
        /\ \A t : IsAccepted(t)' <=> IsAccepted(t)
        /\ \A t, b : (Here(t, b)' <=> Here(t, b)) /\ (Recalls(t, b)' <=> Recalls(t, b))
    BY <1>1, <2>1 DEF Told, Coming, Pending, OnCursor, OnSink, InGap, Paging, InWalk, Whole, IsAccepted, Here, Recalls
  <2>3. WalksTo' = WalksTo /\ Owing /\ Owing' /\ \A b : (OnWalk(b)' <=> OnWalk(b)) /\ (AwaitsPage(b)' <=> AwaitsPage(b))
    BY <1>1, <2>1, <2>2 DEF WalksTo, PageEnd, OnWalk, Owing, AwaitsPage
  <2>4. /\ \A t, b : Unsettled(t, b)' <=> Unsettled(t, b)
        /\ \A b : Excused(b) => Excused(b)'
    BY <1>1, <2>2, <2>3 DEF Unsettled, Sends, Excused
  <2>5. LoopPart' /\ QueuePart' /\ FoldPart'
    BY <1>1, <2>1, <2>2 DEF Accord, LoopPart, QueuePart, FoldPart, FoldsTo, Coming, InGap, Paging
  <2>6. DownPart' /\ StalePart'
    BY <1>1, <2>2, <2>4 DEF Accord, DownPart, StalePart
  <2>7. CleanPart' /\ FinalPart' /\ PagePart' /\ WordPart'
    BY <1>1, <2>2, <2>3, <2>4 DEF Accord, CleanPart, FinalPart, IsFinal, PagePart, WordPart
  <2>8. CursorPart' /\ OffPart'
    BY <1>1, <2>1, <2>2, <2>3 DEF Accord, CursorPart, OffPart
  <2>9. SettlePart'
    BY <1>1, <2>1, <2>2, <2>3, <2>4 DEF Accord, SettlePart
  <2>10. CoverPart'
    BY <1>1, <2>1, <2>2, <2>3 DEF Accord, CoverPart, Sends
  <2> QED BY <2>5, <2>6, <2>7, <2>8, <2>9, <2>10 DEF Accord
<1>4. ASSUME TakesConnected, ~Walking
      PROVE  walk' = Begun /\ again' = FALSE /\ ~Paging /\ fold.by = "none"
  BY <1>1, <1>2, <1>4 DEF TakesConnected, Walking, LoopFree, LoopPart, Paging
<1>5. ASSUME TickWalks
      PROVE  walk' = Begun /\ again' = FALSE /\ ~Paging /\ fold.by = "none"
  BY <1>1, <1>2, <1>5 DEF TickWalks, Walking, LoopFree, LoopPart, Paging
<1>6. ASSUME WalkEnds, again
      PROVE  walk' = Begun /\ again' = FALSE /\ ~Paging /\ fold.by = "none"
  BY <1>1, <1>6 DEF WalkEnds, Paging
<1>7. ASSUME WalkEnds, ~again
      PROVE  Accord'
  <2>1. /\ walk' = NoWalk /\ again' = FALSE /\ again = FALSE /\ reconn' = reconn /\ walk.pc = "drain" /\ fold.by = "none"
        /\ walk'.pc = "off" /\ walk'.at = None /\ walk'.clean /\ held = <<>>
    BY <1>7, Grounds DEF WalkEnds, node, NoWalk, OtherTypes, Shapes
  <2>2. /\ \A b : (Told(b)' <=> Told(b)) /\ (Pending(b)' <=> Pending(b))
        /\ \A b : OnCursor(b)' <=> OnCursor(b)
        /\ \A b : OnSink(b)' <=> OnSink(b)
        /\ InGap' = InGap /\ ~Paging' /\ ~Paging /\ ~InWalk /\ ~InWalk'
        /\ \A t : IsAccepted(t)' <=> IsAccepted(t)
        /\ \A t, b : (Here(t, b)' <=> Here(t, b)) /\ (Recalls(t, b)' <=> Recalls(t, b))
    BY <1>1, <2>1 DEF Told, Coming, Pending, OnCursor, OnSink, InGap, Paging, InWalk, IsAccepted, Here, Recalls
  <2>3. (Owing' <=> Owing) /\ \A b : ~OnWalk(b) /\ ~OnWalk(b)' /\ ~AwaitsPage(b) /\ ~AwaitsPage(b)'
    BY <1>1, <2>1, <2>2 DEF OnWalk, Owing, AwaitsPage
  <2>4. /\ \A t, b : Unsettled(t, b)' <=> Unsettled(t, b)
        /\ \A b : Excused(b)' <=> Excused(b)
    BY <1>1, <2>2, <2>3 DEF Unsettled, Sends, Excused
  <2>5. LoopPart' /\ QueuePart' /\ FoldPart'
    BY <1>1, <2>1, <2>2 DEF Accord, LoopPart, QueuePart, FoldPart, Coming
  <2>6. DownPart' /\ StalePart'
    BY <1>1, <2>2, <2>4 DEF Accord, DownPart, StalePart
  <2>7. CleanPart' /\ FinalPart' /\ PagePart' /\ WordPart'
    BY <1>1, <2>2 DEF Accord, CleanPart, FinalPart, IsFinal, PagePart, WordPart
  <2>8. CursorPart' /\ OffPart'
    BY <1>1, <2>1, <2>2, <2>3 DEF Accord, CursorPart, OffPart
  <2>9. SettlePart'
    BY <1>1, <2>1, <2>2, <2>3, <2>4 DEF Accord, SettlePart
  <2>10. CoverPart'
    BY <1>1, <2>1, <2>2, <2>3 DEF Accord, CoverPart, Sends
  <2> QED BY <2>5, <2>6, <2>7, <2>8, <2>9, <2>10 DEF Accord
<1> QED BY <1>1, <1>3, <1>4, <1>5, <1>6, <1>7, WalkBeginsAccord DEF TakesConnected, TickWalks, WalkEnds

\* A step of the records alone: an acceptance was on record or in memory, and what is
\* unsettled was, or concerns a block nothing has reached.
LEMMA RecordsMove ==
  ASSUME Onward,
         UNCHANGED <<Messages, sink, up, reconn, feed, page, mpos, cursor, off, memory, frozen, owed, walk, again, held, fold>>,
         \A t \in Txids : IsAccepted(t)' =>
            \/ Here(t, rec'[t].at)
            \/ Recalls(t, rec'[t].at) /\ rec'[t].at \in Blocks \ off,
         \A t \in Txids, b \in Blocks : Unsettled(t, b)' =>
            Unsettled(t, b) \/ (~OnSink(b) /\ ~OnCursor(b) /\ ~OnWalk(b) /\ b \notin fold.added),
         \A t \in Txids : IsFinal(t)' =>
            \/ IsFinal(t) /\ rec'[t].at = rec[t].at
            \/ rec'[t].at \in Blocks /\ OnSink(rec'[t].at) /\ Score[rec'[t].at] + Terminal <= Score[sink]
  PROVE  Accord'
<1>1. /\ Accord
      /\ UNCHANGED <<Messages, sink, up, reconn, feed, page, mpos, cursor, off, memory, frozen, owed, walk, again, held, fold>>
  BY DEF Onward
<1>2. /\ \A b : (Told(b)' <=> Told(b)) /\ (Pending(b)' <=> Pending(b))
      /\ \A b : OnCursor(b)' <=> OnCursor(b)
      /\ \A b : OnSink(b)' <=> OnSink(b)
      /\ InGap' = InGap /\ Paging' = Paging /\ InWalk' = InWalk /\ Whole' = Whole
      /\ \A t, b : Recalls(t, b)' <=> Recalls(t, b)
  BY <1>1 DEF Told, Coming, Pending, OnCursor, OnSink, InGap, Paging, InWalk, Whole, Recalls
<1>3. WalksTo' = WalksTo /\ (Owing' <=> Owing) /\ \A b : (OnWalk(b)' <=> OnWalk(b)) /\ (AwaitsPage(b)' <=> AwaitsPage(b))
  BY <1>1, <1>2 DEF WalksTo, PageEnd, OnWalk, Owing, AwaitsPage
<1>4. \A b : Excused(b)' <=> Excused(b)
  BY <1>2, <1>3 DEF Excused
<1>5. \A t \in Txids, b \in Blocks : Here(t, b)' => Here(t, b) \/ (Recalls(t, b) /\ b \notin off)
  BY DEF Here
<1>6. \A t, b : Recalls(t, b) => t \in Messages /\ memory[t] # None /\ memory[t].at = b
  BY DEF Recalls
<1>7. LoopPart' /\ QueuePart' /\ FoldPart'
  <2>1. LoopPart'
    BY <1>1, <1>2 DEF Accord, LoopPart
  <2>2. QueuePart' /\ FoldPart'
    BY <1>1, <1>2 DEF Accord, QueuePart, FoldPart, FoldsTo, Coming, InGap
  <2> QED BY <2>1, <2>2
<1>8. DownPart'
  <2>1. ASSUME ~up, NEW t \in Txids, IsAccepted(t)' PROVE OnCursor(rec'[t].at)
    BY <1>1, <1>6, <2>1 DEF Accord, DownPart, Here
  <2> QED BY <1>1, <1>2, <2>1 DEF Accord, DownPart
<1>9. StalePart'
  <2>1. ASSUME NEW t \in Txids, IsAccepted(t)' PROVE rec'[t].at \in Blocks /\ Excused(rec'[t].at)
    BY <1>1, <1>6, <2>1 DEF Accord, StalePart, Here
  <2> QED BY <1>1, <1>2, <1>4, <2>1 DEF Accord, StalePart
<1>10. CleanPart'
  BY <1>1, <1>2, <1>3, <1>5, <1>6 DEF Accord, CleanPart
<1>11. FinalPart'
  BY <1>1, <1>2 DEF Accord, FinalPart
<1>12. PagePart' /\ WordPart'
  BY <1>1, <1>2 DEF Accord, PagePart, WordPart
<1>13. CursorPart' /\ OffPart'
  BY <1>1, <1>2, <1>3 DEF Accord, CursorPart, OffPart
<1>14. SettlePart'
  BY <1>1, <1>2, <1>3 DEF Accord, SettlePart
<1>15. CoverPart'
  BY <1>1, <1>2, <1>3, <1>5, <1>6 DEF Accord, CoverPart, Sends
<1> QED BY <1>7, <1>8, <1>9, <1>10, <1>11, <1>12, <1>13, <1>14, <1>15 DEF Accord

\* What the fold and the walk reach is no higher than the sink.
LEMMA NothingBeyondTheSink ==
  ASSUME OtherTypes, Shapes, LoopPart, FoldPart
  PROVE  /\ \A b \in Blocks : OnSink(b) \/ OnCursor(b) \/ OnWalk(b) \/ b \in fold.added => Score[b] <= Score[sink]
         /\ InWalk => WalksTo \in Blocks
<1>1. sink \in Blocks /\ cursor \in Blocks \cup {None} /\ walk.at \in Blocks \cup {None} /\ Score[sink] \in Nat
      /\ fold.added \subseteq Blocks /\ OneChain(fold.added) /\ fold.by \in {"none", "live", "walk"}
  BY ChainFacts DEF OtherTypes, Shapes, Walks, BatchFolds
<1>2. \A c \in Blocks : Score[c] <= Score[sink] => \A b \in Chain[c] : b \in Blocks /\ Score[b] <= Score[sink]
  <2> SUFFICES ASSUME NEW c \in Blocks, Score[c] <= Score[sink], NEW b \in Chain[c]
               PROVE  b \in Blocks /\ Score[b] <= Score[sink]
    OBVIOUS
  <2>1. b \in Blocks /\ Score[b] <= Score[c] /\ Score[b] \in Nat /\ Score[c] \in Nat
    BY ChainFacts
  <2> QED BY <1>1, <2>1
<1>3. \A b \in fold.added : Score[b] <= Score[sink]
  <2>1. CASE fold.by = "none"
    BY <2>1 DEF LoopPart, NoFold
  <2>2. CASE fold.by # "none"
    BY <1>2, <2>2 DEF FoldPart, FoldsTo
  <2> QED BY <2>1, <2>2
<1>4. \A b \in Blocks : OnSink(b) \/ OnCursor(b) => Score[b] <= Score[sink]
  <2>1. Score[sink] <= Score[sink]
    BY <1>1
  <2> QED BY <1>1, <1>2, <2>1 DEF OnSink, OnCursor, LoopPart
<1>5. InWalk => WalksTo \in Blocks /\ Score[WalksTo] <= Score[sink]
  <2>1. fold.added # {} => Last(fold.added) \in fold.added
    BY <1>1, LastOfChain
  <2>2. InWalk => walk.at \in Blocks /\ Score[walk.at] <= Score[sink]
    BY <1>1 DEF InWalk, LoopPart
  <2> QED BY <1>1, <1>3, <2>1, <2>2 DEF WalksTo, PageEnd
<1>6. \A b \in Blocks : OnWalk(b) => Score[b] <= Score[sink]
  BY <1>2, <1>5 DEF OnWalk
<1> QED BY <1>3, <1>4, <1>5, <1>6

\* A send is watched before a block has it, or is counted as late.
LEMMA WatchSendAccord ==
  ASSUME Onward, NEW x \in Txids, WatchSend(x)
  PROVE  Accord'
<1>1. /\ x \in Sends /\ rec[x] = None /\ rec' = [rec EXCEPT ![x] = Submitted] /\ rec \in [Txids -> Records]
      /\ late' = IF \E b \in Blocks : Score[b] <= Score[sink] /\ x \in Accepts[b] THEN late \cup {x} ELSE late
      /\ UNCHANGED <<Messages, sink, up, reconn, feed, page, mpos, cursor, off, memory, frozen, owed, walk, again, held, fold>>
  BY Grounds DEF WatchSend, node, maps, hold, loop, LogPart
<1>2. /\ rec'[x] = Submitted /\ Submitted.st = "submitted"
      /\ \A t \in Txids : t # x => rec'[t] = rec[t]
  BY <1>1 DEF Submitted
<1>3. \A t \in Txids : IsAccepted(t)' => Here(t, rec'[t].at)
  BY <1>2 DEF IsAccepted, Here
<1>4. \A t \in Txids : IsFinal(t)' => IsFinal(t) /\ rec'[t].at = rec[t].at
  BY <1>2 DEF IsFinal
<1>5. \A b : Pending(b)' <=> Pending(b)
  BY <1>1 DEF Pending, Coming
<1>6. ASSUME NEW t \in Txids, NEW b \in Blocks, Unsettled(t, b)'
      PROVE  Unsettled(t, b) \/ (~OnSink(b) /\ ~OnCursor(b) /\ ~OnWalk(b) /\ b \notin fold.added)
  <2>1. CASE t # x
    BY <1>1, <1>2, <1>5, <1>6, <2>1 DEF Unsettled, Here, IsAccepted, Sends
  <2>2. CASE t = x
    <3>1. x \notin late' /\ x \in Accepts[b]
      BY <1>1, <1>6, <2>2 DEF Unsettled, Sends
    <3>2. ~(Score[b] <= Score[sink])
      BY <1>1, <3>1
    <3> QED BY <3>2, Grounds, NothingBeyondTheSink DEF Onward, Accord
  <2> QED BY <2>1, <2>2
<1> QED BY <1>1, <1>3, <1>4, <1>6, RecordsMove

\* A message is watched with what the memory has of it; a refused write of that cuts
\* the accord off.
LEMMA WatchMessageAccord ==
  ASSUME Onward, NEW x \in Txids, WatchMessage(x)
  PROVE  Accord'
<1>1. /\ x \in Messages /\ rec[x] = None /\ rec \in [Txids -> Records] /\ memory \in [Messages -> {None} \cup Words] /\ Accord
      /\ UNCHANGED <<Messages, sink, up, reconn, feed, page, mpos, cursor, off, memory, frozen, owed, walk, again, held, fold, late>>
  BY Grounds DEF WatchMessage, node, hold, loop, LogPart, OtherTypes, Shapes, Onward
<1>2. \/ memory[x] = None /\ rec' = [rec EXCEPT ![x] = Submitted]
      \/ memory[x] # None /\ rec' = [rec EXCEPT ![x] = Displaced(memory[x].at)]
      \/ /\ memory[x] # None /\ memory[x].st = "accepted" /\ memory[x].at \notin off
         /\ rec' = [rec EXCEPT ![x] = Accepted(memory[x].at, Score[memory[x].at])]
  BY Grounds DEF WatchMessage, Onward
<1>3. /\ \A t \in Txids : t # x => rec'[t] = rec[t]
      /\ \/ memory[x] = None /\ rec'[x] = Submitted
         \/ memory[x] # None /\ rec'[x] = Displaced(memory[x].at)
         \/ memory[x] # None /\ memory[x].st = "accepted" /\ memory[x].at \in Blocks \ off
            /\ rec'[x] = Accepted(memory[x].at, Score[memory[x].at])
  BY <1>1, <1>2 DEF Words
<1>4. ASSUME NEW t \in Txids, IsAccepted(t)'
      PROVE  Here(t, rec'[t].at) \/ (Recalls(t, rec'[t].at) /\ rec'[t].at \in Blocks \ off)
  BY <1>1, <1>3, <1>4 DEF IsAccepted, Here, Recalls, Submitted, Displaced, Accepted
<1>5. \A t \in Txids : IsFinal(t)' => IsFinal(t) /\ rec'[t].at = rec[t].at
  BY <1>3 DEF IsFinal, Submitted, Displaced, Accepted
<1>6. \A b : Pending(b)' <=> Pending(b)
  BY <1>1 DEF Pending, Coming
<1>7. ASSUME NEW t \in Txids, NEW b \in Blocks, Unsettled(t, b)'
      PROVE  Unsettled(t, b)
  <2>1. CASE t # x
    BY <1>1, <1>3, <1>6, <1>7, <2>1 DEF Unsettled, Here, IsAccepted, Sends
  <2>2. CASE t = x
    <3>1. x \in Accepts[b] /\ rec'[x].st = "submitted" /\ b \in Chain[mpos] /\ ~Pending(b)
      BY <1>1, <1>6, <1>7, <2>2 DEF Unsettled, Sends
    <3>2. memory[x] = None
      BY <1>3, <3>1 DEF Displaced, Accepted
    <3> QED BY <1>1, <3>1, <3>2 DEF Accord, WordPart
  <2> QED BY <2>1, <2>2
<1> QED BY <1>1, <1>4, <1>5, <1>7, RecordsMove

\* A watch that is dropped leaves no record to be wrong.
LEMMA DropWatchAccord ==
  ASSUME Onward, NEW x \in Txids, DropWatch(x)
  PROVE  Accord'
<1>1. /\ rec' = [rec EXCEPT ![x] = None] /\ rec \in [Txids -> Records]
      /\ UNCHANGED <<Messages, sink, up, reconn, feed, page, mpos, cursor, off, memory, frozen, owed, walk, again, held, fold, late>>
  BY Grounds DEF DropWatch, node, hold, loop, hist, LogPart
<1>2. rec'[x] = None /\ \A t \in Txids : t # x => rec'[t] = rec[t]
  BY <1>1
<1>3. \A t \in Txids : IsAccepted(t)' => Here(t, rec'[t].at)
  BY <1>2 DEF IsAccepted, Here
<1>4. \A t \in Txids : IsFinal(t)' => IsFinal(t) /\ rec'[t].at = rec[t].at
  BY <1>2 DEF IsFinal
<1>5. \A b : Pending(b)' <=> Pending(b)
  BY <1>1 DEF Pending, Coming
<1>6. \A t \in Txids, b \in Blocks : Unsettled(t, b)' => Unsettled(t, b)
  BY <1>1, <1>2, <1>5 DEF Unsettled, Here, IsAccepted, Sends
<1> QED BY <1>1, <1>3, <1>4, <1>6, RecordsMove

\* Depth is claimed with no hold and nothing that waits: what is accepted is on the chain.
LEMMA SinkBlueAccord ==
  ASSUME Onward, on_sink_blue
  PROVE  Accord'
<1>1. PICK F \in SUBSET Txids :
        LET deep == {t \in Txids : IsAccepted(t) /\ rec[t].score + Terminal <= Score[sink]}
            final == IF claims_depth THEN deep \ F ELSE {} IN
        rec' = [t \in Txids |-> IF t \in final THEN Finalized(rec[t]) ELSE rec[t]]
  BY DEF on_sink_blue
<1> DEFINE deep == {t \in Txids : IsAccepted(t) /\ rec[t].score + Terminal <= Score[sink]}
           final == IF claims_depth THEN deep \ F ELSE {}
<1>2. /\ up /\ ~reconn /\ LoopFree /\ (Walking \/ feed = <<>>) /\ rec \in [Txids -> Records] /\ Accord
      /\ UNCHANGED <<Messages, sink, up, reconn, feed, page, mpos, cursor, off, memory, frozen, owed, walk, again, held, fold, late>>
  BY Grounds DEF on_sink_blue, node, hold, loop, hist, LogPart, Onward
<1>3. \A t \in Txids : rec'[t] = IF t \in final THEN Finalized(rec[t]) ELSE rec[t]
  BY <1>1
<1>4. ASSUME NEW t \in final
      PROVE  /\ claims_depth /\ IsAccepted(t) /\ t \in Txids /\ rec[t].score + Terminal <= Score[sink]
             /\ rec'[t] # None /\ rec'[t].st = "finalized" /\ rec'[t].at = rec[t].at /\ rec'[t].score = rec[t].score
             /\ rec[t].score \in Nat
  <2>1. claims_depth /\ IsAccepted(t) /\ t \in Txids /\ rec[t].score + Terminal <= Score[sink]
    OBVIOUS
  <2>2. rec[t] \in [st : {"submitted", "accepted", "displaced", "finalized"}, at : Blocks \cup {None}, score : Nat]
    BY <1>2, <2>1 DEF IsAccepted, Records
  <2>3. rec'[t] = Finalized(rec[t])
    BY <1>3, <2>1
  <2>4. /\ Finalized(rec[t]) \in [st : {"submitted", "accepted", "displaced", "finalized"}, at : Blocks \cup {None}, score : Nat]
        /\ Finalized(rec[t]).st = "finalized" /\ Finalized(rec[t]).at = rec[t].at /\ Finalized(rec[t]).score = rec[t].score
    BY <2>2 DEF Finalized
  <2> HIDE DEF final
  <2> QED BY <2>1, <2>2, <2>3, <2>4, NoneIsNoRecord
<1> HIDE DEF final
<1>5. \A t \in Txids : IsAccepted(t)' => Here(t, rec'[t].at)
  BY <1>3, <1>4 DEF IsAccepted, Here
<1>6. \A b : Pending(b)' <=> Pending(b)
  BY <1>2 DEF Pending, Coming
<1>7. ASSUME NEW t \in Txids, NEW b \in Blocks, Unsettled(t, b)'
      PROVE  Unsettled(t, b)
  <2>1. t \notin final
    BY <1>4, <1>7 DEF Unsettled
  <2> QED BY <1>2, <1>3, <1>6, <1>7, <2>1 DEF Unsettled, Here, IsAccepted, Sends
<1>8. ASSUME NEW t \in Txids, IsFinal(t)'
      PROVE  \/ IsFinal(t) /\ rec'[t].at = rec[t].at
             \/ rec'[t].at \in Blocks /\ OnSink(rec'[t].at) /\ Score[rec'[t].at] + Terminal <= Score[sink]
  <2>1. CASE t \notin final
    BY <1>3, <1>8, <2>1 DEF IsFinal
  <2>2. CASE t \in final
    <3>1. fold.by = "none" /\ walk.pc = "off" /\ held = <<>> /\ ~again /\ ~frozen /\ fold = NoFold /\ feed = <<>>
      BY <1>2, <1>4, <2>2, Grounds DEF claims_depth, Walking, LoopFree, Accord, LoopPart
    <3>2. ~Owing /\ \A b : ~Told(b) /\ ~AwaitsPage(b)
      <4>1. Coming = <<>> /\ Len(Coming) = 0
        BY <3>1, Grounds, ComingMoves, EmptySeq
      <4> QED BY <1>2, <3>1, <4>1 DEF Owing, InGap, Paging, NoFold, Told, ToldIn, AwaitsPage
    <3>3. rec[t].at \in Blocks /\ OnSink(rec[t].at)
      BY <1>2, <1>4, <2>2, <3>2 DEF Accord, StalePart, Excused
    <3>4. Score[rec[t].at] <= rec[t].score
      BY <1>2, <1>4, <1>8, <2>2 DEF IsFinal
    <3>5. Score[rec[t].at] + Terminal <= Score[sink]
      BY <1>4, <2>2, <3>3, <3>4, Grounds, ChainFacts, AcceptanceBounds
    <3> QED BY <1>4, <2>2, <3>3, <3>5
  <2> QED BY <2>1, <2>2
<1> QED BY <1>2, <1>5, <1>7, <1>8, RecordsMove

\* What was delivered moves between the queues, or nothing does.
LEMMA QuietStepsAccord ==
  ASSUME Onward, HoldsBack \/ PrimesScore \/ (\E t \in Txids : TickElapses(t)) \/ UNCHANGED tracker_vars
  PROVE  Accord'
<1>1. /\ Accord
      /\ UNCHANGED <<Messages, sink, up, reconn, page, mpos, rec, cursor, off, memory, frozen, owed, walk, again, fold, late>>
  BY DEF Onward, HoldsBack, PrimesScore, TickElapses, tracker_vars, node, disk, maps, hold, loop, hist
<1>2. CASE HoldsBack
  <2>1. feed # <<>> /\ feed' = Tail(feed) /\ held' = Append(held, Head(feed)) /\ walk.pc # "off"
    BY <1>2 DEF HoldsBack
  <2>2. Coming' = Coming
    BY <2>1, Grounds, ComingMoves
  <2>3. up
    BY <1>1, <2>1 DEF Accord, DownPart
  <2>4. LoopPart'
    BY <1>1, <2>1 DEF Accord, LoopPart, Paging, InGap
  <2> QED BY <1>1, <2>2, <2>3, <2>4, NothingMoves
<1>3. CASE PrimesScore \/ (\E t \in Txids : TickElapses(t)) \/ UNCHANGED tracker_vars
  <2>1. feed' = feed /\ held' = held
    BY <1>3 DEF PrimesScore, TickElapses, tracker_vars, node, loop
  <2>2. Coming' = Coming
    BY <2>1 DEF Coming
  <2>3. LoopPart'
    BY <1>1, <2>1 DEF Accord, LoopPart, Paging, InGap
  <2>4. ~up => held' = <<>> /\ feed' = <<>>
    BY <1>1, <2>1 DEF Accord, DownPart
  <2> QED BY <1>1, <2>2, <2>3, <2>4, NothingMoves
<1> QED BY <1>2, <1>3

\* A step of the message walk's queue alone: the words that are on their way.
LEMMA WordsMove ==
  ASSUME Onward, up,
         UNCHANGED <<Messages, sink, up, reconn, rec, cursor, off, memory, frozen, owed, walk, again, held, fold, late>>,
         \A b : Told(b)' <=> Told(b), QueuePart', FoldPart',
         \A b \in Blocks : Pending(b)' => Pending(b) \/ OnSink(b),
         \A t \in Messages, b \in Blocks : t \in Accepts[b] /\ b \in Chain[mpos'] => Pending(b)' \/ (b \in Chain[mpos] /\ ~Pending(b)),
         page' # None => /\ page'.to \in Blocks /\ page'.kind = "walk"
                         /\ page'.removed = Chain[mpos'] \ Chain[page'.to] /\ page'.added = Chain[page'.to] \ Chain[mpos']
  PROVE  Accord'
<1>1. /\ Accord /\ up
      /\ UNCHANGED <<Messages, sink, up, reconn, rec, cursor, off, memory, frozen, owed, walk, again, held, fold, late>>
  BY DEF Onward
<1>2. /\ \A b : OnCursor(b)' <=> OnCursor(b)
      /\ \A b : OnSink(b)' <=> OnSink(b)
      /\ InGap' = InGap /\ Paging' = Paging /\ InWalk' = InWalk /\ Whole' = Whole
      /\ \A t : IsAccepted(t)' <=> IsAccepted(t)
      /\ \A t, b : (Here(t, b)' <=> Here(t, b)) /\ (Recalls(t, b)' <=> Recalls(t, b))
  BY <1>1 DEF OnCursor, OnSink, InGap, Paging, InWalk, Whole, IsAccepted, Here, Recalls
<1>3. WalksTo' = WalksTo /\ (Owing' <=> Owing) /\ \A b : (OnWalk(b)' <=> OnWalk(b)) /\ (AwaitsPage(b)' <=> AwaitsPage(b))
  BY <1>1, <1>2 DEF WalksTo, PageEnd, OnWalk, Owing, AwaitsPage
<1>4. \A b : Excused(b)' <=> Excused(b)
  BY <1>2, <1>3 DEF Excused
<1>5. \A t \in Txids, b \in Blocks : Unsettled(t, b)' => Unsettled(t, b)
  BY <1>1, <1>2 DEF Unsettled, Sends
<1>6. LoopPart'
  BY <1>1, <1>2 DEF Accord, LoopPart
<1>7. DownPart' /\ StalePart'
  BY <1>1, <1>2, <1>4 DEF Accord, DownPart, StalePart
<1>8. CleanPart'
  BY <1>1, <1>2, <1>3, <1>5 DEF Accord, CleanPart
<1>9. FinalPart' /\ PagePart'
  BY <1>1, <1>2 DEF Accord, FinalPart, IsFinal, PagePart
<1>10. WordPart'
  BY <1>1 DEF Accord, WordPart
<1>11. CursorPart' /\ OffPart'
  BY <1>1, <1>2, <1>3 DEF Accord, CursorPart, OffPart
<1>12. SettlePart'
  BY <1>1, <1>2, <1>3, <1>5 DEF Accord, SettlePart
<1>13. CoverPart'
  BY <1>1, <1>2, <1>3 DEF Accord, CoverPart, Sends
<1> QED BY <1>6, <1>7, <1>8, <1>9, <1>10, <1>11, <1>12, <1>13 DEF Accord

\* The node answers the message walk: the page names what joined the chain.
LEMMA PageAnsweredAccord ==
  ASSUME Onward, PageAnswered
  PROVE  Accord'
<1>1. /\ Accord /\ up /\ page = None /\ mpos' = mpos
      /\ page' = [kind |-> "walk", removed |-> Chain[mpos] \ Chain[sink], added |-> Chain[sink] \ Chain[mpos], to |-> sink]
      /\ UNCHANGED <<Messages, sink, up, reconn, rec, cursor, off, memory, frozen, owed, walk, again, held, feed, fold, late>>
  BY DEF Onward, PageAnswered, disk, maps, hold, loop, hist
<1>2. Coming' = Coming /\ QueuePart' /\ FoldPart' /\ \A b : Told(b)' <=> Told(b)
  BY <1>1 DEF Coming, Accord, QueuePart, FoldPart, FoldsTo, Told, InGap
<1>3. page'.kind = "walk" /\ page'.removed = Chain[mpos] \ Chain[sink] /\ page'.added = Chain[sink] \ Chain[mpos] /\ page'.to = sink
  BY <1>1
<1>4. \A b \in Blocks : Pending(b)' => Pending(b) \/ OnSink(b)
  BY <1>1, <1>2, <1>3 DEF Pending, OnSink
<1>5. \A b : Pending(b) => Pending(b)'
  BY <1>1, <1>2 DEF Pending
<1> QED BY <1>1, <1>2, <1>3, <1>4, <1>5, Grounds, WordsMove

\* A page that names nothing and removes nothing is not handed over: it had no news.
LEMMA PageFedAccord ==
  ASSUME Onward, PageFed
  PROVE  Accord'
<1>1. /\ Accord /\ page # None /\ page' = None /\ mpos' = page.to /\ page \in Pages
      /\ feed' = IF page.removed = {} /\ MatchedIn(page) = {} THEN feed ELSE Append(feed, page)
      /\ UNCHANGED <<Messages, sink, up, reconn, rec, cursor, off, memory, frozen, owed, walk, again, held, fold, late>>
  BY Grounds DEF Onward, PageFed, disk, maps, hold, loop, hist, Shapes
<1>2. up /\ page.kind = "walk" /\ page.added = Chain[page.to] \ Chain[mpos] /\ page.to \in Blocks
  BY <1>1 DEF Accord, DownPart, PagePart
<1>3. page \in Deliveries /\ Coming \in Seq(Deliveries) /\ sink \in Blocks
  BY <1>1, Grounds, ComingMoves DEF Deliveries
<1>4. \/ Coming' = Coming /\ MatchedIn(page) = {}
      \/ Coming' = Append(Coming, page)
  BY <1>1, <1>3, Grounds, ComingMoves
<1>5. /\ \A b : Told(b)' <=> Told(b)
      /\ \/ \A b : Pending(b)' <=> NamedIn(Coming, b)
         \/ \A b : Pending(b)' <=> Pending(b)
      /\ Coming' # Coming => \A b : Pending(b)' <=> Pending(b)
  <2>1. CASE Coming' = Coming
    BY <1>1, <2>1 DEF Told, Pending
  <2>2. CASE Coming' = Append(Coming, page)
    <3>1. /\ \A b : ToldIn(Coming', b) <=> ToldIn(Coming, b) \/ Says(page, b)
          /\ \A b : NamedIn(Coming', b) <=> NamedIn(Coming, b) \/ (page.kind = "walk" /\ b \in page.added)
      BY <1>3, <2>2, QueueAppend
    <3> QED BY <1>1, <1>2, <3>1 DEF Told, Pending, Says
  <2> QED BY <1>4, <2>1, <2>2
<1>6. QueuePart' /\ FoldPart'
  <2>1. QueuePart'
    BY <1>1, <1>2, <1>3, <1>4, QueueAppend DEF Accord, QueuePart
  <2>2. FoldPart'
    <3>1. \A p \in Blocks : Agrees(p, Coming, sink) => Agrees(p, Coming', sink)
      BY <1>5 DEF Agrees, Told
    <3> QED BY <1>1, <3>1 DEF Accord, FoldPart, FoldsTo
  <2> QED BY <2>1, <2>2
<1>7. \A b \in Blocks : Pending(b)' => Pending(b)
  BY <1>5 DEF Pending
<1>8. ASSUME NEW t \in Messages, NEW b \in Blocks, t \in Accepts[b], b \in Chain[mpos']
      PROVE  Pending(b)' \/ (b \in Chain[mpos] /\ ~Pending(b))
  <2>1. b \in Chain[mpos] \/ b \in page.added
    BY <1>1, <1>2, <1>8
  <2>2. CASE Coming' = Coming /\ MatchedIn(page) = {}
    <3>1. b \notin page.added
      BY <1>8, <2>2 DEF MatchedIn
    <3> QED BY <1>1, <2>1, <2>2, <3>1 DEF Pending
  <2>3. CASE Coming' = Append(Coming, page)
    <3>1. \A c : NamedIn(Coming', c) <=> NamedIn(Coming, c) \/ (page.kind = "walk" /\ c \in page.added)
      BY <1>3, <2>3, QueueAppend
    <3> QED BY <1>1, <1>2, <2>1, <3>1 DEF Pending
  <2> QED BY <1>4, <2>2, <2>3
<1> QED BY <1>1, <1>2, <1>5, <1>6, <1>7, <1>8, WordsMove

\* What a page that is folded leaves of the log and the memory.
LEMMA PageWords ==
  ASSUME Onward, FoldWalk
  PROVE  \E p \in Pages :
           /\ fold.by = "none" /\ ~Paging /\ Coming # <<>> /\ Head(Coming) = p /\ Coming' = Tail(Coming) /\ p.kind = "walk"
           /\ held' = <<>> \/ walk.pc # "off"
           /\ UNCHANGED <<Messages, sink, up, reconn, page, mpos, cursor, off, frozen, owed, walk, again, fold, late>>
           /\ \A t \in Txids :
                \/ rec'[t] = rec[t]
                \/ /\ t \in Messages /\ rec'[t] # None /\ rec'[t].st = "accepted"
                   /\ Here(t, rec'[t].at) \/ rec'[t].at \in p.added \ off
           /\ \A t \in Messages, b \in p.added : t \in Accepts[b] /\ rec[t] # None /\ rec[t].st = "submitted" /\ rec'[t] = rec[t] => b \in off
           /\ \A t \in Messages : /\ memory'[t] = None => memory[t] = None /\ \A b \in p.added : t \notin Accepts[b]
                                  /\ memory'[t] # None /\ memory'[t].st = "accepted" =>
                                       memory'[t] = memory[t] \/ memory'[t].at \in p.added \ off
<1>1. LogPart /\ OtherTypes /\ Shapes /\ Shapes' /\ Accord /\ ~torn'
  BY Grounds DEF Onward
<1>2. PICK p \in {Head(q) : q \in {feed, held} \ {<<>>}}, F \in SUBSET Messages :
        LET at == [t \in MatchedIn(p) |-> Last({b \in p.added : t \in Accepts[b]})]
            moved == {t \in MatchedIn(p) : walk_accepted(at[t], t)}
            exact == {t \in MatchedIn(p) : IsAccepted(t) /\ rec[t].at = at[t]} IN
        /\ p.kind = "walk" /\ fold.by = "none"
        /\ \/ ~Walking /\ feed # <<>> /\ p = Head(feed) /\ feed' = Tail(feed) /\ UNCHANGED held
           \/ walk.pc = "drain" /\ held # <<>> /\ p = Head(held) /\ held' = Tail(held) /\ UNCHANGED feed
        /\ F \subseteq moved /\ Refused(Cardinality(F)) /\ torn' = (torn \/ F # {})
        /\ rec' = [t \in Txids |-> IF t \in (moved \ F) \cup exact THEN Accepted(at[t], Score[at[t]]) ELSE rec[t]]
        /\ index' = [b \in Blocks |-> index[b] \cup {t \in moved \ F : at[t] = b}]
        /\ tomb' = tomb \ (moved \ F)
        /\ memory' = [t \in Messages |-> Word(p, t)]
        /\ UNCHANGED <<Messages, sink, up, reconn, page, mpos, known, cursor, ahead, off, sinkBlue, hold, walk, again, fold, late, missed>>
  BY DEF FoldWalk
<1> DEFINE at == [t \in MatchedIn(p) |-> Last({b \in p.added : t \in Accepts[b]})]
           moved == {t \in MatchedIn(p) : walk_accepted(at[t], t)}
           exact == {t \in MatchedIn(p) : IsAccepted(t) /\ rec[t].at = at[t]}
<1>3. /\ p.kind = "walk" /\ fold.by = "none"
      /\ \/ walk.pc = "off" /\ feed # <<>> /\ p = Head(feed) /\ feed' = Tail(feed) /\ held' = held
         \/ walk.pc = "drain" /\ held # <<>> /\ p = Head(held) /\ held' = Tail(held) /\ feed' = feed
      /\ rec' = [t \in Txids |-> IF t \in moved \cup exact THEN Accepted(at[t], Score[at[t]]) ELSE rec[t]]
      /\ memory' = [t \in Messages |-> Word(p, t)]
      /\ UNCHANGED <<Messages, sink, up, reconn, page, mpos, cursor, off, frozen, owed, walk, again, fold, late>>
  BY <1>1, <1>2 DEF hold, Walking
<1>4. /\ ~Paging /\ Coming # <<>> /\ Head(Coming) = p /\ Coming' = Tail(Coming)
      /\ held' = <<>> \/ walk.pc # "off"
  BY <1>1, <1>3, ComingMoves DEF Accord, LoopPart, Paging
<1>5. p \in Pages
  <2>1. Coming \in Seq(Deliveries)
    BY <1>1, ComingMoves
  <2> QED BY <1>3, <1>4, <2>1, FrontOfQueue DEF Deliveries
<1>6. ASSUME NEW t \in MatchedIn(p)
      PROVE  at[t] \in p.added /\ t \in Accepts[at[t]] /\ \A b \in p.added : t \in Accepts[b] => b = at[t]
  <2> DEFINE by == {b \in p.added : t \in Accepts[b]}
  <2>1. by # {} /\ OneChain(by) /\ at[t] = Last(by)
    BY <1>5, <1>6 DEF MatchedIn, Pages, OneChain
  <2>2. at[t] \in by
    BY <2>1, LastOfChain
  <2>3. \E c \in Blocks : p.added \subseteq Chain[c]
    BY <1>5 DEF Pages, OneChain
  <2> QED BY <2>2, <2>3, OneAcceptor
<1>7. MatchedIn(p) \subseteq Messages /\ Messages \subseteq Txids
  BY <1>1 DEF MatchedIn, Shapes
<1>8. /\ \A t \in moved : t \in MatchedIn(p) /\ at[t] \notin off
      /\ \A t \in exact : t \in MatchedIn(p) /\ Here(t, at[t])
      /\ \A t \in MatchedIn(p) : t \notin moved /\ rec[t] # None /\ rec[t].st = "submitted" => at[t] \in off
  BY <1>7 DEF walk_accepted, Here
<1> HIDE DEF at, moved, exact
<1>9. ASSUME NEW t \in Txids
      PROVE  \/ rec'[t] = rec[t] /\ t \notin moved
             \/ /\ t \in Messages /\ rec'[t] # None /\ rec'[t].st = "accepted"
                /\ Here(t, rec'[t].at) \/ rec'[t].at \in p.added \ off
  <2>1. CASE t \in moved \cup exact
    <3>1. t \in MatchedIn(p) /\ rec'[t] = Accepted(at[t], Score[at[t]])
      BY <1>3, <1>8, <2>1
    <3>2. at[t] \in Blocks /\ Score[at[t]] \in Nat
      BY <1>5, <1>6, <3>1, ChainFacts DEF Pages
    <3>3. rec'[t] # None /\ rec'[t].st = "accepted" /\ rec'[t].at = at[t]
      BY <3>1, <3>2, RecordsAreSome DEF Accepted
    <3> QED BY <1>6, <1>7, <1>8, <2>1, <3>1, <3>3
  <2>2. CASE t \notin moved \cup exact
    BY <1>3, <2>2
  <2> QED BY <2>1, <2>2
<1>10. ASSUME NEW t \in Messages, NEW b \in p.added, t \in Accepts[b], rec[t] # None, rec[t].st = "submitted", rec'[t] = rec[t]
       PROVE  b \in off
  <2>1. t \in MatchedIn(p) /\ b = at[t]
    BY <1>6, <1>10 DEF MatchedIn
  <2>2. t \notin moved
    BY <1>7, <1>9, <1>10
  <2> QED BY <1>8, <1>10, <2>1, <2>2
<1>11. ASSUME NEW t \in Messages
       PROVE  /\ memory'[t] = None => memory[t] = None /\ \A b \in p.added : t \notin Accepts[b]
              /\ memory'[t] # None /\ memory'[t].st = "accepted" =>
                   memory'[t] = memory[t] \/ memory'[t].at \in p.added \ off
  <2> DEFINE by == {b \in p.added : t \in Accepts[b]}
  <2>1. memory'[t] = Word(p, t) /\ memory[t] \in {None} \cup Words /\ None \notin Words
    BY <1>1, <1>3, NoneIsNoRecord DEF Shapes, Words
  <2>2. CASE by = {}
    <3>1. memory'[t] = IF memory[t] # None /\ memory[t].at \in p.removed
                       THEN [memory[t] EXCEPT !.st = "displaced"] ELSE memory[t]
      BY <2>1, <2>2 DEF Word
    <3>2. memory[t] \in Words => [memory[t] EXCEPT !.st = "displaced"] \in Words /\ [memory[t] EXCEPT !.st = "displaced"].st = "displaced"
      BY DEF Words
    <3> QED BY <2>1, <2>2, <3>1, <3>2
  <2>3. CASE by # {}
    <3>1. memory'[t] = [st |-> IF Last(by) \in off THEN "displaced" ELSE "accepted", at |-> Last(by)]
      BY <2>1, <2>3 DEF Word
    <3>2. OneChain(by) /\ by \subseteq p.added
      BY <1>5 DEF Pages, OneChain
    <3>3. Last(by) \in p.added /\ Last(by) \in Blocks
      BY <1>5, <2>3, <3>2, LastOfChain DEF Pages
    <3> HIDE DEF by
    <3>4. memory'[t] \in Words /\ memory'[t].at = Last(by) /\ (memory'[t].st = "accepted" => Last(by) \notin off)
      BY <3>1, <3>3 DEF Words
    <3> QED BY <2>1, <3>3, <3>4
  <2> QED BY <2>2, <2>3
<1> QED BY <1>3, <1>4, <1>5, <1>9, <1>10, <1>11

\* The message walk's word speaks for messages the stream has not spoken of, at
\* blocks it has not removed.
LEMMA FoldWalkAccord ==
  ASSUME Onward, FoldWalk
  PROVE  Accord'
<1>1. PICK p \in Pages :
        /\ fold.by = "none" /\ ~Paging /\ Coming # <<>> /\ Head(Coming) = p /\ Coming' = Tail(Coming) /\ p.kind = "walk"
        /\ held' = <<>> \/ walk.pc # "off"
        /\ UNCHANGED <<Messages, sink, up, reconn, page, mpos, cursor, off, frozen, owed, walk, again, fold, late>>
        /\ \A t \in Txids :
             \/ rec'[t] = rec[t]
             \/ /\ t \in Messages /\ rec'[t] # None /\ rec'[t].st = "accepted"
                /\ Here(t, rec'[t].at) \/ rec'[t].at \in p.added \ off
        /\ \A t \in Messages, b \in p.added : t \in Accepts[b] /\ rec[t] # None /\ rec[t].st = "submitted" /\ rec'[t] = rec[t] => b \in off
        /\ \A t \in Messages : /\ memory'[t] = None => memory[t] = None /\ \A b \in p.added : t \notin Accepts[b]
                               /\ memory'[t] # None /\ memory'[t].st = "accepted" =>
                                    memory'[t] = memory[t] \/ memory'[t].at \in p.added \ off
  BY PageWords
<1>2. /\ Accord /\ OtherTypes /\ Shapes /\ p.added \subseteq Blocks /\ sink \in Blocks /\ Messages \subseteq Txids
      /\ fold.added = {} /\ fold.todo = {}
  BY <1>1, Grounds DEF Onward, Pages, Shapes, Accord, LoopPart, NoFold
<1>3. /\ \A b : Told(b)' <=> Told(b)
      /\ \A b : Pending(b) <=> b \in p.added \/ Pending(b)'
      /\ QueuePart'
  <2>1. Coming \in Seq(Deliveries) /\ InOrder(Coming, sink)
    BY <1>2, Grounds, ComingMoves DEF Accord, QueuePart
  <2>2. /\ \A b : ToldIn(Coming, b) <=> Says(p, b) \/ ToldIn(Tail(Coming), b)
        /\ \A b : NamedIn(Coming, b) <=> b \in p.added \/ NamedIn(Tail(Coming), b)
        /\ InOrder(Tail(Coming), sink)
    BY <1>1, <1>2, <2>1, QueueTail
  <2> QED BY <1>1, <2>2 DEF Told, Pending, Says, QueuePart
<1>4. up
  <2>1. ~up => Coming = <<>>
    BY <1>2, Grounds, ComingMoves DEF Accord, DownPart
  <2> QED BY <1>1, <2>1
<1>5. /\ \A b : OnCursor(b)' <=> OnCursor(b)
      /\ \A b : OnSink(b)' <=> OnSink(b)
      /\ InGap' = InGap /\ ~Paging' /\ ~InWalk /\ ~InWalk'
      /\ (Owing' <=> Owing) /\ \A b : ~OnWalk(b) /\ ~OnWalk(b)' /\ ~AwaitsPage(b) /\ ~AwaitsPage(b)'
  BY <1>1 DEF OnCursor, OnSink, InGap, Paging, InWalk, OnWalk, Owing, Whole, AwaitsPage
<1>6. \A b : Excused(b)' <=> Excused(b)
  BY <1>3, <1>5 DEF Excused
<1>7. \A b \in p.added \ off : b \in Blocks /\ Excused(b)
  BY <1>2, <1>3 DEF Accord, PagePart, Excused
<1>8. \A t \in Txids : \A b : Here(t, b)' => Here(t, b) \/ (t \in Messages /\ b \in p.added \ off)
  BY <1>1 DEF Here, IsAccepted
<1>9. \A t \in Sends : \A b : Here(t, b)' => Here(t, b)
  BY <1>8 DEF Sends
<1>10. ASSUME NEW t \in Txids, NEW b \in Blocks, Unsettled(t, b)'
       PROVE  Unsettled(t, b) \/ b \in off
  <2>1. CASE t \in Messages
    <3>1. t \in Accepts[b] /\ rec'[t] # None /\ rec'[t].st = "submitted" /\ b \in Chain[mpos] /\ ~Pending(b)'
      BY <1>1, <1>10, <2>1 DEF Unsettled, Sends
    <3>2. rec'[t] = rec[t]
      BY <1>1, <3>1
    <3> QED BY <1>1, <1>3, <2>1, <3>1, <3>2 DEF Unsettled
  <2>2. CASE t \notin Messages
    BY <1>1, <1>10, <2>2 DEF Unsettled, Here, IsAccepted, Sends
  <2> QED BY <2>1, <2>2
<1>11. LoopPart' /\ FoldPart'
  BY <1>1, <1>2, <1>5 DEF Accord, LoopPart, FoldPart
<1>12. DownPart'
  BY <1>1, <1>4 DEF DownPart
<1>13. StalePart'
  <2>1. ASSUME NEW t \in Txids, IsAccepted(t)' PROVE rec'[t].at \in Blocks /\ Excused(rec'[t].at)
    BY <1>2, <1>7, <1>8, <2>1 DEF Here, Accord, StalePart
  <2>2. ASSUME NEW t \in Messages, NEW b \in Blocks, Recalls(t, b)' PROVE b \in off \/ Excused(b)
    BY <1>1, <1>2, <1>7, <2>2 DEF Recalls, Accord, StalePart
  <2> QED BY <1>1, <1>6, <2>1, <2>2 DEF StalePart
<1>14. CleanPart'
  BY <1>5 DEF CleanPart
<1>15. FinalPart'
  <2>1. ASSUME NEW t \in Txids, IsFinal(t)' PROVE IsFinal(t) /\ rec'[t] = rec[t]
    BY <1>1, <2>1 DEF IsFinal
  <2> QED BY <1>1, <1>2, <1>5, <2>1 DEF Accord, FinalPart
<1>16. PagePart'
  BY <1>1, <1>2, <1>3, <1>5 DEF Accord, PagePart
<1>17. WordPart'
  BY <1>1, <1>2, <1>3 DEF Accord, WordPart
<1>18. CursorPart' /\ OffPart'
  BY <1>1, <1>2, <1>3, <1>5 DEF Accord, CursorPart, OffPart
<1>19. SettlePart'
  <2> SUFFICES ASSUME NEW t \in Txids, NEW b \in Blocks, Unsettled(t, b)'
               PROVE  /\ OnSink(b) => Told(b) \/ (Owing /\ ~OnCursor(b))
                      /\ OnCursor(b) => b \in off \/ Told(b) \/ (frozen /\ ~OnSink(b))
    BY <1>1, <1>2, <1>3, <1>5 DEF SettlePart, Paging
  <2>1. CASE Unsettled(t, b)
    BY <1>1, <1>2, <1>5, <2>1 DEF Accord, SettlePart
  <2>2. CASE b \in off
    BY <1>2, <1>5, <2>2 DEF Accord, OffPart
  <2> QED BY <1>10, <2>1, <2>2
<1>20. CoverPart'
  BY <1>1, <1>2, <1>3, <1>5, <1>9 DEF Accord, CoverPart, Sends
<1> QED BY <1>3, <1>11, <1>12, <1>13, <1>14, <1>15, <1>16, <1>17, <1>18, <1>19, <1>20 DEF Accord

\* The process dies with nothing outstanding and no word remembered: the cursor on
\* disk covers the records, and the walk of the restart begins there.
LEMMA TrackerDiesAccord ==
  ASSUME Onward, TrackerDies
  PROVE  Accord'
<1>1. /\ Accord /\ ~Outstanding /\ \A t \in Messages : memory[t] = None
      /\ up' = FALSE /\ feed' = <<>> /\ page' = None /\ held' = <<>> /\ again' = FALSE /\ off' = {}
      /\ memory' = [t \in Messages |-> None] /\ frozen' = FALSE /\ walk' = Begun /\ fold' = NoFold
      /\ UNCHANGED <<Messages, sink, mpos, rec, cursor, late>>
  BY DEF Onward, TrackerDies, disk
<1>2. /\ feed = <<>> /\ held = <<>> /\ fold.by = "none" /\ fold = NoFold /\ page = None
      /\ \A t \in Txids : IsAccepted(t) => OnCursor(rec[t].at)
      /\ \A b \in off : cursor # None /\ ~OnCursor(b)
      /\ frozen /\ cursor # None => Chain[cursor] \subseteq Chain[sink]
  BY <1>1 DEF Outstanding, OnCursor, Accord, LoopPart
<1>3. /\ walk'.pc = "page" /\ walk'.at = cursor /\ walk'.clean
      /\ fold'.by = "none" /\ fold'.added = {} /\ fold'.todo = {} /\ fold'.complete
  BY <1>1 DEF Begun, NoWalk, NoFold
<1>4. \A b : ~Told(b) /\ ~Pending(b) /\ ~Told(b)' /\ ~Pending(b)'
  <2>1. Coming = <<>> /\ Coming' = <<>> /\ Len(Coming) = 0 /\ Len(Coming') = 0
    BY <1>1, <1>2, Grounds, ComingMoves, EmptySeq
  <2> QED BY <1>1, <1>2, <2>1 DEF Told, ToldIn, Pending, NamedIn
<1>5. /\ \A b : OnCursor(b)' <=> OnCursor(b)
      /\ \A b : OnSink(b)' <=> OnSink(b)
      /\ InGap' /\ Owing' /\ Paging' /\ (InWalk' <=> cursor # None)
      /\ \A t : IsAccepted(t)' <=> IsAccepted(t)
      /\ \A t, b : Here(t, b)' <=> Here(t, b)
  BY <1>1, <1>3 DEF OnCursor, OnSink, InGap, Owing, Paging, InWalk, IsAccepted, Here
<1>6. /\ \A t \in Txids : \A b : Here(t, b) => OnCursor(b)
      /\ \A t, b : ~Recalls(t, b)'
  BY <1>1, <1>2 DEF Here, Recalls
<1>7. \A b : OnWalk(b)' <=> OnCursor(b)
  BY <1>1, <1>3, <1>5 DEF OnWalk, WalksTo, OnCursor
<1>8. ASSUME NEW t \in Txids, NEW b \in Blocks, Unsettled(t, b)' PROVE ~OnCursor(b)
  <2>1. Unsettled(t, b)
    BY <1>1, <1>4, <1>5, <1>8 DEF Unsettled, Sends
  <2>2. OnCursor(b) => b \in off \/ Told(b) \/ b \in fold.added \/ (frozen /\ ~OnSink(b))
    BY <1>1, <2>1 DEF Accord, SettlePart
  <2> QED BY <1>2, <1>4, <2>2 DEF NoFold, OnCursor, OnSink
<1>9. LoopPart'
  BY <1>1, <1>3, <1>5 DEF Accord, LoopPart
<1>10. QueuePart' /\ FoldPart'
  <2>1. Len(Coming') = 0
    BY <1>1, Grounds, ComingMoves, EmptySeq
  <2> QED BY <1>3, <2>1 DEF QueuePart, InOrder, FoldPart
<1>11. DownPart'
  BY <1>1, <1>2, <1>3, <1>5, <1>8 DEF DownPart
<1>12. StalePart'
  BY <1>1, <1>2, <1>5, <1>6 DEF Accord, StalePart, Excused
<1>13. CleanPart'
  BY <1>5, <1>6, <1>7 DEF CleanPart
<1>14. FinalPart' /\ PagePart' /\ WordPart'
  BY <1>1, <1>4, <1>5 DEF Accord, FinalPart, IsFinal, PagePart, WordPart
<1>15. CursorPart' /\ OffPart'
  BY <1>1, <1>3, <1>5, <1>7 DEF CursorPart, OffPart
<1>16. SettlePart'
  BY <1>3, <1>5, <1>8 DEF SettlePart
<1>17. CoverPart'
  BY <1>1, <1>5, <1>6 DEF CoverPart, Sends
<1> QED BY <1>9, <1>10, <1>11, <1>12, <1>13, <1>14, <1>15, <1>16, <1>17 DEF Accord

\* Without a cursor a walk seeds one at the sink: with a record, the gap is given up.
LEMMA WalkSeedsAccord ==
  ASSUME Onward, WalkSeeds
  PROVE  Accord'
<1>1. /\ Accord /\ walk.pc = "page" /\ walk.at = None /\ walk' = [NoWalk EXCEPT !.pc = "drain"]
      /\ \A t \in Txids : rec[t] = None
      /\ cursor' = cursor \/ (up /\ cursor' = sink)
      /\ frozen' = FALSE \/ frozen' = frozen
      /\ UNCHANGED <<Messages, sink, up, reconn, feed, page, mpos, rec, off, memory, again, held, fold, late>>
  BY DEF Onward, WalkSeeds, WalkStops, Reseeds, write_cursor, node, maps, hold
<1>2. /\ cursor = None /\ fold.by = "none" /\ fold = NoFold /\ sink \in Blocks /\ Score[sink] \in Nat
      /\ walk'.pc = "drain" /\ walk'.at = None /\ walk'.clean
      /\ fold.added = {} /\ fold.todo = {} /\ fold.complete
  <2>1. cursor = None /\ fold.by = "none" /\ fold = NoFold
    BY <1>1, Grounds DEF Accord, LoopPart, Paging
  <2> QED BY <1>1, <2>1, Grounds, ChainFacts DEF NoWalk, NoFold
<1>3. /\ \A b : (Told(b)' <=> Told(b)) /\ (Pending(b)' <=> Pending(b))
      /\ \A b : OnSink(b)' <=> OnSink(b)
      /\ \A b : ~OnCursor(b) /\ (OnCursor(b)' => OnSink(b) /\ up)
      /\ InGap' = InGap /\ ~Paging' /\ Paging /\ ~InWalk /\ ~InWalk' /\ \A b : ~AwaitsPage(b)
      /\ \A t \in Txids : ~IsAccepted(t) /\ ~IsAccepted(t)' /\ ~IsFinal(t)'
      /\ \A t \in Txids : \A b : ~Here(t, b)' /\ ~Unsettled(t, b)'
      /\ \A t, b : Recalls(t, b)' <=> Recalls(t, b)
  BY <1>1, <1>2 DEF Told, Coming, Pending, OnSink, OnCursor, InGap, Paging, InWalk, AwaitsPage, OnWalk, IsAccepted, IsFinal,
     Here, Unsettled, Recalls
<1>4. \A b : Excused(b) => Excused(b)'
  BY <1>3 DEF Excused
<1>5. LoopPart'
  BY <1>1, <1>2, <1>3 DEF Accord, LoopPart
<1>6. QueuePart' /\ FoldPart'
  BY <1>1, <1>2 DEF Accord, QueuePart, FoldPart, Coming
<1>7. DownPart'
  BY <1>1, <1>3 DEF Accord, DownPart
<1>8. StalePart'
  BY <1>1, <1>3, <1>4 DEF Accord, StalePart
<1>9. CleanPart' /\ FinalPart' /\ SettlePart' /\ CoverPart'
  BY <1>1, <1>3 DEF CleanPart, FinalPart, SettlePart, CoverPart, Sends
<1>10. PagePart' /\ WordPart'
  BY <1>1, <1>3 DEF Accord, PagePart, WordPart
<1>11. CursorPart'
  BY <1>2, <1>1, <1>3 DEF CursorPart
<1>12. OffPart'
  <2>1. \A b \in off : ~(OnSink(b) /\ ~Told(b))
    BY <1>1, <1>2, <1>3 DEF Accord, OffPart
  <2>2. \A b : ~OnWalk(b)'
    BY <1>3 DEF OnWalk
  <2> QED BY <1>1, <1>3, <2>1, <2>2 DEF OffPart
<1> QED BY <1>5, <1>6, <1>7, <1>8, <1>9, <1>10, <1>11, <1>12 DEF Accord

\* A walk whose page is not answered leaves its cursor held, or in a gap.
LEMMA WalkUnansweredAccord ==
  ASSUME Onward, WalkUnanswered
  PROVE  Accord'
<1>1. /\ Accord /\ walk.pc = "page" /\ walk.at # None /\ walk' = [NoWalk EXCEPT !.pc = "drain"]
      /\ ~up \/ frozen
      /\ UNCHANGED <<Messages, sink, up, reconn, feed, page, mpos, rec, cursor, off, memory, frozen, owed, again, held, fold, late>>
  BY DEF Onward, WalkUnanswered, WalkStops, keeps_hold, node, maps, hold
<1>2. /\ cursor # None /\ fold.by = "none" /\ fold = NoFold
      /\ walk'.pc = "drain" /\ walk'.at = None /\ walk'.clean
      /\ fold.added = {} /\ fold.todo = {} /\ fold.complete
  <2>1. cursor # None /\ fold.by = "none" /\ fold = NoFold
    BY <1>1, Grounds DEF Accord, LoopPart, Paging
  <2> QED BY <1>1, <2>1 DEF NoWalk, NoFold
<1>3. /\ \A b : (Told(b)' <=> Told(b)) /\ (Pending(b)' <=> Pending(b))
      /\ \A b : OnSink(b)' <=> OnSink(b)
      /\ \A b : OnCursor(b)' <=> OnCursor(b)
      /\ InGap' = InGap /\ ~Paging' /\ Paging /\ InWalk /\ ~InWalk' /\ (~up => InGap)
      /\ Owing'
      /\ \A t : IsAccepted(t)' <=> IsAccepted(t)
      /\ \A t, b : (Here(t, b)' <=> Here(t, b)) /\ (Recalls(t, b)' <=> Recalls(t, b))
  BY <1>1, <1>2 DEF Told, Coming, Pending, OnSink, OnCursor, InGap, Paging, InWalk, Owing, IsAccepted, Here, Recalls
<1>4. /\ \A b : Excused(b) => Excused(b)'
      /\ \A t, b : Unsettled(t, b)' <=> Unsettled(t, b)
      /\ \A b : ~OnWalk(b)'
  BY <1>1, <1>3 DEF Excused, Unsettled, Sends, OnWalk
<1>5. LoopPart'
  BY <1>1, <1>2, <1>3 DEF Accord, LoopPart
<1>6. QueuePart' /\ FoldPart'
  BY <1>1, <1>2 DEF Accord, QueuePart, FoldPart, Coming
<1>7. DownPart'
  BY <1>1, <1>3, <1>4 DEF Accord, DownPart
<1>8. StalePart'
  BY <1>1, <1>3, <1>4 DEF Accord, StalePart
<1>9. CleanPart'
  BY <1>3 DEF CleanPart
<1>10. FinalPart' /\ PagePart' /\ WordPart'
  BY <1>1, <1>3 DEF Accord, FinalPart, IsFinal, PagePart, WordPart
<1>11. CursorPart'
  BY <1>1, <1>2, <1>3 DEF CursorPart
<1>12. OffPart'
  BY <1>1, <1>2, <1>3, <1>4 DEF Accord, OffPart
<1>13. SettlePart'
  <2> SUFFICES ASSUME NEW t \in Txids, NEW b \in Blocks, Unsettled(t, b)
               PROVE  /\ OnSink(b) => Told(b) \/ ~OnCursor(b)
                      /\ OnCursor(b) => b \in off \/ Told(b) \/ (frozen /\ ~OnSink(b))
    BY <1>1, <1>2, <1>3, <1>4 DEF SettlePart
  <2>1. OnCursor(b) => b \in off \/ Told(b) \/ (frozen /\ ~OnSink(b))
    BY <1>1, <1>2 DEF Accord, SettlePart
  <2>2. b \in off /\ OnSink(b) => Told(b) \/ ~OnCursor(b)
    BY <1>1 DEF Accord, OffPart
  <2> QED BY <2>1, <2>2
<1>14. CoverPart'
  <2>1. ASSUME NEW t \in Sends, NEW b \in Blocks, Here(t, b), ~OnCursor(b) PROVE frozen
    <3>1. t \in Txids /\ IsAccepted(t) /\ rec[t].at = b
      BY <2>1 DEF Sends, Here
    <3>2. up
      BY <1>1, <2>1, <3>1 DEF Accord, DownPart
    <3> QED BY <1>1, <3>2
  <2> QED BY <1>1, <1>3, <2>1 DEF CoverPart, Sends
<1> QED BY <1>5, <1>6, <1>7, <1>8, <1>9, <1>10, <1>11, <1>12, <1>13, <1>14 DEF Accord

\* What the fold of one block leaves.
LEMMA BlockLands ==
  ASSUME Onward, FoldBlock
  PROVE  \E c \in fold.todo :
           /\ fold.by # "none"
           /\ UNCHANGED <<Messages, sink, up, reconn, feed, page, mpos, cursor, off, memory, frozen, owed, walk, again, held, late>>
           /\ fold'.by = fold.by /\ fold'.added = fold.added /\ fold'.seen = fold.seen /\ fold'.todo = fold.todo \ {c}
           /\ fold'.complete \in BOOLEAN
           /\ fold'.complete => fold.complete /\ \A t \in Accepts[c] \cap fold.seen : rec[t] # None => Here(t, c)'
           /\ \A t \in Txids : \/ rec'[t] = rec[t]
                               \/ t \in Accepts[c] /\ rec'[t] # None /\ rec'[t].st = "accepted" /\ rec'[t].at = c
<1>0. PICK c : c = First(fold.todo)
  OBVIOUS
<1> DEFINE T == Accepts[c] \cap fold.seen
<1>1. /\ fold.by # "none" /\ fold.todo # {} /\ fold \in BatchFolds /\ fold.complete \in BOOLEAN
      /\ UNCHANGED <<Messages, sink, up, reconn, feed, page, mpos, cursor, off, memory, frozen, owed, walk, again, held, late>>
  BY Grounds DEF FoldBlock, node, hold, Shapes
<1>2. c \in fold.todo /\ c \in Blocks /\ Score[c] \in Nat /\ T \subseteq Txids /\ T \subseteq Accepts[c]
  <2>1. fold.todo \subseteq Blocks /\ fold.seen \subseteq Txids
    BY <1>1 DEF BatchFolds
  <2> QED BY <1>0, <1>1, <2>1, FirstOfChain, ChainFacts
<1>3. ASSUME NEW s \in Nat, NEW F, on_accepted(c, s, T, F)
      PROVE  /\ \A t \in Txids : \/ rec'[t] = rec[t]
                                 \/ t \in Accepts[c] /\ rec'[t] # None /\ rec'[t].st = "accepted" /\ rec'[t].at = c
             /\ F = {} => \A t \in T : rec[t] # None => Here(t, c)'
  <2>1. \A t \in Txids : rec'[t] = IF t \in Moved(c, T) \ F THEN Accepted(c, s) ELSE rec[t]
    BY <1>3 DEF on_accepted
  <2>2. Accepted(c, s) # None /\ Accepted(c, s).st = "accepted" /\ Accepted(c, s).at = c
    BY <1>2, RecordsAreSome DEF Accepted
  <2>3. Moved(c, T) = {t \in T : rec[t] # None /\ ~(IsAccepted(t) /\ rec[t].at = c)}
    BY DEF Moved
  <2>4. \A t \in Txids : \/ rec'[t] = rec[t]
                         \/ t \in Accepts[c] /\ rec'[t] # None /\ rec'[t].st = "accepted" /\ rec'[t].at = c
    BY <1>2, <2>1, <2>2, <2>3
  <2>5. ASSUME F = {}, NEW t \in T, rec[t] # None PROVE Here(t, c)'
    <3>1. t \in Txids /\ rec'[t] = IF t \in Moved(c, T) THEN Accepted(c, s) ELSE rec[t]
      BY <1>2, <2>1, <2>5
    <3>2. t \in Moved(c, T) \/ (IsAccepted(t) /\ rec[t].at = c)
      BY <2>3, <2>5
    <3> HIDE DEF T
    <3> QED BY <2>2, <2>5, <3>1, <3>2 DEF Here, IsAccepted
  <2> QED BY <2>4, <2>5
<1>4. \/ /\ \E s \in {Score[d] : d \in Blocks} : on_accepted(c, s, T, {})
         /\ fold' = [fold EXCEPT !.todo = @ \ {c}]
      \/ /\ \E F \in (SUBSET T) \ {{}} : on_accepted(c, Score[c], T, F)
         /\ fold' = [fold EXCEPT !.todo = @ \ {c}, !.complete = FALSE]
      \/ /\ fold' = [fold EXCEPT !.todo = @ \ {c}, !.complete = @ /\ T = {}]
         /\ rec' = rec
  BY <1>0 DEF FoldBlock
<1> DEFINE Lands == \A t \in T : rec[t] # None => Here(t, c)'
           Stands == \A t \in Txids : \/ rec'[t] = rec[t]
                                      \/ t \in Accepts[c] /\ rec'[t] # None /\ rec'[t].st = "accepted" /\ rec'[t].at = c
<1>5. /\ fold'.by = fold.by /\ fold'.added = fold.added /\ fold'.seen = fold.seen /\ fold'.todo = fold.todo \ {c}
      /\ fold'.complete \in BOOLEAN /\ (fold'.complete => fold.complete)
  BY <1>1, <1>4 DEF BatchFolds
<1>6. Stands /\ (fold'.complete => Lands)
  <2>1. CASE /\ \E s \in {Score[d] : d \in Blocks} : on_accepted(c, s, T, {})
             /\ fold' = [fold EXCEPT !.todo = @ \ {c}]
    <3>1. PICK s \in Nat : on_accepted(c, s, T, {})
      BY <2>1, ChainFacts
    <3> QED BY <1>3, <3>1
  <2>2. CASE /\ \E F \in (SUBSET T) \ {{}} : on_accepted(c, Score[c], T, F)
             /\ fold' = [fold EXCEPT !.todo = @ \ {c}, !.complete = FALSE]
    <3>1. fold'.complete = FALSE
      BY <1>1, <2>2 DEF BatchFolds
    <3> QED BY <1>2, <1>3, <2>2, <3>1
  <2>3. CASE fold' = [fold EXCEPT !.todo = @ \ {c}, !.complete = @ /\ T = {}] /\ rec' = rec
    <3>1. fold'.complete = (fold.complete /\ T = {})
      BY <1>1, <2>3 DEF BatchFolds
    <3> HIDE DEF T
    <3> QED BY <2>3, <3>1
  <2> HIDE DEF Lands, Stands
  <2> QED BY <1>4, <2>1, <2>2, <2>3
<1>7. fold'.complete => \A t \in Accepts[c] \cap fold.seen : rec[t] # None => Here(t, c)'
  BY <1>6
<1> QED BY <1>1, <1>2, <1>5, <1>6, <1>7

\* What a page adds is on the walk's way.
LEMMA PageOnWalk ==
  ASSUME Onward, fold.by = "walk"
  PROVE  InWalk /\ Paging /\ walk.pc = "fold" /\ \A b \in fold.added : OnWalk(b)
<1>1. /\ walk.pc = "fold" /\ walk.at \in Blocks /\ Accord /\ fold.added \subseteq Blocks
  BY Grounds DEF Onward, Accord, LoopPart
<1>2. PICK p \in Blocks : fold.added = PageFrom(walk.at, p) /\ Score[walk.at] <= Score[p]
  BY <1>1 DEF Accord, FoldPart, FoldsTo
<1>3. WalksTo = EndFrom(walk.at, p)
  BY <1>1, <1>2 DEF WalksTo, PageEnd, EndFrom
<1>4. \A b \in fold.added : b \in Chain[WalksTo]
  BY <1>1, <1>2, <1>3, PageLeadsTo
<1> QED BY <1>1, <1>4, Grounds DEF InWalk, Paging, OnWalk

\* A block's acceptances are written one block at a time, in the chain's order.
LEMMA FoldBlockAccord ==
  ASSUME Onward, FoldBlock
  PROVE  Accord'
<1>1. PICK c \in fold.todo :
        /\ fold.by # "none"
        /\ UNCHANGED <<Messages, sink, up, reconn, feed, page, mpos, cursor, off, memory, frozen, owed, walk, again, held, late>>
        /\ fold'.by = fold.by /\ fold'.added = fold.added /\ fold'.seen = fold.seen /\ fold'.todo = fold.todo \ {c}
        /\ fold'.complete \in BOOLEAN
        /\ fold'.complete => fold.complete /\ \A t \in Accepts[c] \cap fold.seen : rec[t] # None => Here(t, c)'
        /\ \A t \in Txids : \/ rec'[t] = rec[t]
                            \/ t \in Accepts[c] /\ rec'[t] # None /\ rec'[t].st = "accepted" /\ rec'[t].at = c
  BY BlockLands
<1>2. /\ Accord /\ up /\ c \in fold.added /\ c \in Blocks /\ fold.by \in {"live", "walk"} /\ Sends \subseteq Txids
      /\ fold.by = "walk" => walk.pc = "fold" /\ InWalk /\ Paging /\ \A b \in fold.added : OnWalk(b)
      /\ fold.by = "live" => ~Paging /\ ~InGap /\ ~InWalk
      /\ sink \in Blocks
  BY <1>1, Grounds, PageOnWalk DEF Onward, Accord, DownPart, LoopPart, InWalk, Sends
<1>3. PICK p \in Blocks : FoldsTo(p)
  BY <1>1, <1>2 DEF Accord, FoldPart
<1>4. /\ \A b \in fold.added : b \in Chain[p]
      /\ \A b \in Blocks : Told(b) \/ (b \in Chain[p] <=> OnSink(b))
  BY <1>3 DEF FoldsTo, Agrees, Told, OnSink
<1>5. /\ \A b : (Told(b)' <=> Told(b)) /\ (Pending(b)' <=> Pending(b))
      /\ \A b : OnCursor(b)' <=> OnCursor(b)
      /\ \A b : OnSink(b)' <=> OnSink(b)
      /\ InGap' = InGap /\ Paging' = Paging /\ InWalk' = InWalk /\ (Whole' => Whole)
      /\ \A t, b : Recalls(t, b)' <=> Recalls(t, b)
  BY <1>1 DEF Told, Coming, Pending, OnCursor, OnSink, InGap, Paging, InWalk, Whole, Recalls
<1>6. WalksTo' = WalksTo /\ (Owing => Owing') /\ \A b : (OnWalk(b)' <=> OnWalk(b)) /\ (AwaitsPage(b)' <=> AwaitsPage(b))
  BY <1>1, <1>5 DEF WalksTo, PageEnd, OnWalk, Owing, AwaitsPage
<1>7. \A b : Excused(b) => Excused(b)'
  BY <1>5, <1>6 DEF Excused
<1>8. \A t \in Txids : \A b : Here(t, b)' => Here(t, b) \/ b = c
  BY <1>1 DEF Here, IsAccepted
<1>9. ASSUME NEW t \in Txids, NEW b \in Blocks, Unsettled(t, b)'
      PROVE  \/ Unsettled(t, b) /\ (b = c /\ t \in fold.seen => ~fold'.complete)
             \/ b # c /\ t \in Accepts[b] /\ t \in Accepts[c]
  <2>1. t \in Accepts[b] /\ rec'[t] # None
    BY <1>9 DEF Unsettled
  <2>2. CASE rec'[t] = rec[t]
    <3>1. Unsettled(t, b)
      BY <1>1, <1>5, <1>9, <2>2 DEF Unsettled, Here, IsAccepted, Sends
    <3>2. ASSUME b = c, t \in fold.seen, fold'.complete PROVE FALSE
      <4>1. Here(t, c)'
        BY <1>1, <2>1, <2>2, <3>2
      <4> QED BY <1>9, <3>2, <4>1 DEF Unsettled, Here, IsAccepted
    <3> QED BY <3>1, <3>2
  <2>3. CASE t \in Accepts[c] /\ rec'[t] # None /\ rec'[t].st = "accepted" /\ rec'[t].at = c
    BY <1>1, <1>9, <2>1, <2>3 DEF Unsettled, Here, IsAccepted, Sends
  <2> QED BY <1>1, <2>2, <2>3
<1>10. ASSUME NEW t \in Txids, NEW b \in Blocks, b # c, t \in Accepts[b], t \in Accepts[c]
       PROVE  b \notin Chain[p] /\ (OnSink(b) => Told(b)) /\ (fold.by = "walk" => ~OnWalk(b))
  <2>1. b \notin Chain[p]
    BY <1>2, <1>4, <1>10, OneAcceptor
  <2>2. ASSUME fold.by = "walk", OnWalk(b) PROVE FALSE
    <3>1. WalksTo \in Blocks /\ b \in Chain[WalksTo] /\ c \in Chain[WalksTo]
      BY <1>2, <2>2, Grounds, NothingBeyondTheSink DEF OnWalk, Accord
    <3> QED BY <1>10, <3>1, OneAcceptor
  <2> QED BY <1>4, <2>1, <2>2
<1>11. Told(c) \/ OnSink(c)
  BY <1>2, <1>4
<1>12. fold.by = "walk" => (OnCursor(c) => Told(c))
  BY <1>2 DEF Accord, CursorPart
<1>13. LoopPart' /\ QueuePart' /\ FoldPart' /\ DownPart'
  <2>1. LoopPart'
    BY <1>1, <1>2, <1>5 DEF Accord, LoopPart
  <2>2. QueuePart' /\ DownPart'
    BY <1>1, <1>2 DEF Accord, QueuePart, DownPart, Coming
  <2>3. FoldPart'
    BY <1>1, <1>2, <1>3 DEF FoldPart, FoldsTo, Coming
  <2> QED BY <2>1, <2>2, <2>3
<1>14. StalePart'
  <2>1. ASSUME NEW t \in Txids, IsAccepted(t)' PROVE rec'[t].at \in Blocks /\ Excused(rec'[t].at)
    <3>1. CASE rec'[t] = rec[t]
      BY <1>2, <2>1, <3>1 DEF IsAccepted, Accord, StalePart
    <3>2. CASE rec'[t].at = c
      BY <1>2, <1>11, <3>2 DEF Excused
    <3> QED BY <1>1, <3>1, <3>2
  <2> QED BY <1>1, <1>2, <1>5, <1>7, <2>1 DEF Accord, StalePart
<1>15. CleanPart'
  <2> SUFFICES ASSUME InWalk, Whole'
               PROVE  /\ \A t \in Txids, b \in Blocks : Here(t, b)' /\ OnCursor(b) => OnWalk(b) \/ Told(b)
                      /\ \A t \in Messages, b \in Blocks : Recalls(t, b) /\ OnCursor(b) => OnWalk(b) \/ Told(b) \/ b \in off
                      /\ \A t \in Txids, b \in Blocks : Unsettled(t, b)' /\ OnWalk(b) => OnCursor(b) \/ Told(b) \/ b \in fold'.todo
    BY <1>1, <1>5, <1>6 DEF CleanPart
  <2>1. fold.by = "walk" /\ Whole /\ fold'.complete
    BY <1>2, <1>5 DEF Whole
  <2>2. /\ \A t \in Txids, b \in Blocks : Here(t, b) /\ OnCursor(b) => OnWalk(b) \/ Told(b)
        /\ \A t \in Messages, b \in Blocks : Recalls(t, b) /\ OnCursor(b) => OnWalk(b) \/ Told(b) \/ b \in off
        /\ \A t \in Txids, b \in Blocks : Unsettled(t, b) /\ OnWalk(b) => OnCursor(b) \/ Told(b) \/ b \in fold.todo
    BY <1>2, <2>1 DEF Accord, CleanPart
  <2>3. \A t \in Txids, b \in Blocks : Here(t, b)' /\ OnCursor(b) => OnWalk(b) \/ Told(b)
    BY <1>8, <1>12, <2>1, <2>2
  <2>4. ASSUME NEW t \in Txids, NEW b \in Blocks, Unsettled(t, b)', OnWalk(b)
        PROVE  OnCursor(b) \/ Told(b) \/ b \in fold'.todo
    <3>1. Unsettled(t, b) /\ (b = c => t \notin fold.seen)
      BY <1>9, <1>10, <2>1, <2>4
    <3>2. b \in fold.added => t \in fold.seen
      BY <1>2, <3>1 DEF Accord, SettlePart
    <3> QED BY <1>1, <1>2, <2>2, <2>4, <3>1, <3>2
  <2> QED BY <2>2, <2>3, <2>4
<1>16. FinalPart'
  <2>1. ASSUME NEW t \in Txids, IsFinal(t)' PROVE IsFinal(t) /\ rec'[t] = rec[t]
    BY <1>1, <2>1 DEF IsFinal
  <2> QED BY <1>1, <1>2, <1>5, <2>1 DEF Accord, FinalPart
<1>17. PagePart' /\ WordPart'
  BY <1>1, <1>2, <1>5 DEF Accord, PagePart, WordPart
<1>18. CursorPart' /\ OffPart'
  BY <1>1, <1>2, <1>5, <1>6 DEF Accord, CursorPart, OffPart
<1>19. SettlePart'
  <2> SUFFICES ASSUME NEW t \in Txids, NEW b \in Blocks, Unsettled(t, b)'
               PROVE  /\ OnSink(b) => \/ Told(b) \/ b \in fold'.todo
                                      \/ fold.by = "live" /\ ~fold'.complete /\ b \in fold.added
                                      \/ InWalk /\ ~OnWalk(b)
                                      \/ Owing' /\ ~OnCursor(b)
                      /\ OnCursor(b) => \/ b \in off \/ Told(b) \/ b \in fold.added
                                        \/ frozen /\ ~OnSink(b) /\ walk.pc # "fold" /\ (InWalk => OnWalk(b))
                      /\ b \in fold.added => t \in fold.seen /\ (b \in fold'.todo \/ ~fold'.complete)
    BY <1>1, <1>5, <1>6 DEF SettlePart
  <2>1. CASE Unsettled(t, b) /\ (b = c /\ t \in fold.seen => ~fold'.complete)
    <3>1. /\ OnSink(b) => \/ Told(b) \/ b \in fold.todo
                          \/ fold.by = "live" /\ ~fold.complete /\ b \in fold.added
                          \/ InWalk /\ ~OnWalk(b)
                          \/ Owing /\ ~OnCursor(b)
          /\ OnCursor(b) => \/ b \in off \/ Told(b) \/ b \in fold.added
                            \/ frozen /\ ~OnSink(b) /\ walk.pc # "fold" /\ (InWalk => OnWalk(b))
          /\ b \in fold.added => t \in fold.seen /\ (b \in fold.todo \/ ~fold.complete)
      BY <1>2, <2>1 DEF Accord, SettlePart
    <3>2. b = c => t \in fold.seen /\ ~fold'.complete
      BY <1>2, <2>1, <3>1
    <3>3. ~fold'.complete /\ Paging => Owing'
      BY <1>5 DEF Owing, Whole
    <3>4. b = c /\ fold.by = "walk" => Told(b) \/ (Owing' /\ ~OnCursor(b))
      BY <1>2, <1>12, <3>2, <3>3
    <3>5. ~fold.complete => ~fold'.complete
      BY <1>1
    <3> QED BY <1>1, <1>2, <1>6, <3>1, <3>2, <3>4, <3>5
  <2>2. CASE b # c /\ t \in Accepts[b] /\ t \in Accepts[c]
    <3>1. b \notin fold.added /\ (OnSink(b) => Told(b)) /\ (fold.by = "walk" => ~OnWalk(b))
      BY <1>4, <1>10, <2>2
    <3>2. OnCursor(b) => \/ b \in off \/ Told(b)
                         \/ frozen /\ ~OnSink(b) /\ walk.pc # "fold" /\ (InWalk => OnWalk(b))
      <4>1. CASE fold.by = "walk"
        BY <1>2, <3>1, <4>1 DEF Accord, CursorPart
      <4>2. CASE fold.by = "live"
        BY <1>2, <3>1, <4>2 DEF Accord, CursorPart, Paging
      <4> QED BY <1>2, <4>1, <4>2
    <3> QED BY <3>1, <3>2
  <2> QED BY <1>9, <2>1, <2>2
<1>20. CoverPart'
  <2> SUFFICES ASSUME NEW t \in Sends, NEW b \in Blocks, Here(t, b)', ~OnCursor(b)
               PROVE  \/ owed \/ Told(b) \/ (fold.by = "live" /\ b \in fold.added)
                      \/ IF Paging THEN ~Whole' \/ walk.at = None \/ ~OnWalk(b) \/ b \in fold.added
                                   ELSE frozen \/ ~fold'.complete
    BY <1>1, <1>5, <1>6 DEF CoverPart, Sends
  <2>1. CASE Here(t, b)
    <3>1. \/ owed \/ Told(b) \/ (fold.by = "live" /\ b \in fold.added)
          \/ IF Paging THEN ~Whole \/ walk.at = None \/ ~OnWalk(b) \/ b \in fold.added
                       ELSE frozen \/ ~fold.complete
      BY <1>2, <2>1 DEF Accord, CoverPart
    <3> QED BY <1>1, <1>5, <3>1
  <2>2. CASE b = c
    BY <1>2, <2>2
  <2> QED BY <1>2, <1>8, <2>1, <2>2
<1> QED BY <1>13, <1>14, <1>15, <1>16, <1>17, <1>18, <1>19, <1>20 DEF Accord

\* What a fold's beginning leaves of the records: a removal that is not written is of
\* a block behind the cursor, or there would be no way back.
LEMMA BatchBegins ==
  ASSUME Onward, NEW who \in {"live", "walk"}, NEW d, FoldBegins(who, d), d.removed \subseteq Blocks,
         UNCHANGED <<Messages, page, mpos, cursor, memory, late>>,
         \A b \in Blocks : Pending(b)' <=> Pending(b)
  PROVE  /\ off' = (off \cup d.removed) \ d.added
         /\ fold'.by = who /\ fold'.added = d.added /\ fold'.complete \in BOOLEAN
         /\ fold'.todo \subseteq d.added
         /\ \A b \in d.added, t \in Txids : t \in Accepts[b] /\ rec[t] # None => b \in fold'.todo /\ t \in fold'.seen
         /\ \A t \in Txids : IsAccepted(t)' => IsAccepted(t) /\ rec'[t] = rec[t]
         /\ \A t \in Txids : \A b : Here(t, b)' => Here(t, b) /\ (b \in d.removed => ~fold'.complete /\ OnCursor(b))
         /\ \A t \in Txids : IsFinal(t)' => IsFinal(t) /\ rec'[t] = rec[t]
         /\ \A t \in Txids, b \in Blocks :
              Unsettled(t, b)' => t \in Accepts[b] /\ rec[t] # None /\ (Unsettled(t, b) \/ (Here(t, b) /\ b \in d.removed))
<1> DEFINE hit == UNION {index[b] : b \in d.removed}
           seen == {t \in Txids : rec[t] # None}
<1>1. PICK F : /\ F \subseteq hit
               /\ rec' = [t \in Txids |-> IF t \in hit \ F THEN Displaced(rec[t].at) ELSE rec[t]]
               /\ off' = (off \cup d.removed) \ d.added
               /\ missed' = (missed \/ \E t \in F : cursor = None \/ rec[t].at \notin Chain[cursor])
               /\ fold' = [by |-> who, added |-> d.added, complete |-> F = {},
                           seen |-> seen,
                           todo |-> {b \in d.added : Accepts[b] \cap seen # {}}]
  BY DEF FoldBegins, on_removed
<1>2. /\ fold'.by = who /\ fold'.added = d.added /\ fold'.complete = (F = {})
      /\ fold'.todo \subseteq d.added
      /\ \A b \in d.added, t \in Txids : t \in Accepts[b] /\ rec[t] # None => b \in fold'.todo /\ t \in fold'.seen
  <2>1. /\ fold'.by = who /\ fold'.added = d.added /\ fold'.complete = (F = {})
        /\ fold'.seen = seen /\ fold'.todo = {b \in d.added : Accepts[b] \cap seen # {}}
    BY <1>1
  <2>2. \A t \in Txids : rec[t] # None => t \in seen
    OBVIOUS
  <2> HIDE DEF seen
  <2> QED BY <2>1, <2>2
<1>3. hit \subseteq Txids /\ \A t \in Txids : t \in hit <=> IsAccepted(t) /\ rec[t].at \in d.removed
  <2>1. \A b \in d.removed : index[b] = {t \in Txids : IsAccepted(t) /\ rec[t].at = b}
    BY Grounds DEF LogPart, IndexMatches
  <2> QED BY <2>1
<1> HIDE DEF hit, seen
<1>4. ASSUME NEW t \in Txids
      PROVE  \/ rec'[t] = rec[t] /\ t \notin hit \ F
             \/ t \in hit \ F /\ rec'[t].st = "displaced"
  BY <1>1 DEF Displaced
<1>5. \A t \in Txids : IsAccepted(t)' => IsAccepted(t) /\ rec'[t] = rec[t] /\ t \notin hit \ F
  BY <1>4 DEF IsAccepted
<1>6. ASSUME NEW t \in Txids, NEW b, Here(t, b)'
      PROVE  Here(t, b) /\ (b \in d.removed => ~fold'.complete /\ OnCursor(b))
  <2>1. Here(t, b) /\ t \notin hit \ F /\ rec[t].at = b /\ IsAccepted(t)
    BY <1>5, <1>6 DEF Here
  <2>2. \A u \in F : cursor # None /\ rec[u].at \in Chain[cursor]
    BY <1>1 DEF Onward
  <2>3. b \in d.removed => t \in F
    BY <1>3, <2>1
  <2> QED BY <1>2, <2>1, <2>2, <2>3 DEF OnCursor
<1>7. \A t \in Txids : IsFinal(t)' => IsFinal(t) /\ rec'[t] = rec[t]
  BY <1>4 DEF IsFinal
<1>8. ASSUME NEW t \in Txids, NEW b \in Blocks, Unsettled(t, b)'
      PROVE  t \in Accepts[b] /\ rec[t] # None /\ (Unsettled(t, b) \/ (Here(t, b) /\ b \in d.removed))
  <2>1. CASE rec'[t] = rec[t]
    BY <1>8, <2>1 DEF Unsettled, Here, IsAccepted, Sends
  <2>2. CASE t \in hit \ F /\ rec'[t].st = "displaced"
    <3>1. IsAccepted(t) /\ rec[t].at \in d.removed /\ rec[t] # None /\ rec[t].st = "accepted"
      BY <1>3, <2>2 DEF IsAccepted
    <3>2. t \in Accepts[b] /\ t \in Sends \ late
      BY <1>8, <2>2 DEF Unsettled, Sends
    <3> QED BY <3>1, <3>2 DEF Unsettled, Here
  <2> QED BY <1>4, <2>1, <2>2
<1>9. fold'.complete \in BOOLEAN /\ off' = (off \cup d.removed) \ d.added
  BY <1>1, <1>2
<1>10. \A t \in Txids : IsAccepted(t)' => IsAccepted(t) /\ rec'[t] = rec[t]
  BY <1>5
<1> QED BY <1>2, <1>6, <1>7, <1>8, <1>9, <1>10

\* The node answers the walk with a page of the way to its sink: what left the chain
\* is displaced, what joined it is to be folded.
LEMMA WalkPageAccord ==
  ASSUME Onward, WalkPage
  PROVE  Accord'
<1> DEFINE at == walk.at
           R == Chain[at] \ Chain[sink]
           A == PageFrom(at, sink)
<1>1. /\ Accord /\ walk.pc = "page" /\ up /\ at \in Blocks /\ at # None /\ sink \in Blocks /\ Score[sink] \in Nat
      /\ FoldBegins("walk", PageOf(at)) /\ walk' = [walk EXCEPT !.pc = "fold"] /\ walk \in Walks
      /\ UNCHANGED <<Messages, sink, up, reconn, feed, page, mpos, cursor, memory, frozen, owed, again, held, late>>
  BY Grounds, ChainFacts DEF Onward, WalkPage, node, hold, Shapes
<1>2. walk'.pc = "fold" /\ walk'.at = at /\ walk'.clean = walk.clean
  BY <1>1 DEF Walks
<1>3. /\ Score[at] <= Score[sink] /\ fold = NoFold /\ fold.added = {} /\ fold.todo = {} /\ fold.complete /\ fold.by = "none"
  BY <1>1, Grounds DEF Accord, LoopPart, Paging, NoFold
<1>4. PageOf(at).removed = R /\ PageOf(at).added = A /\ R \subseteq Blocks
  BY <1>1, ChainFacts DEF PageOf, PageFrom, FirstOf
<1>5. /\ A \subseteq Chain[sink] /\ A \cap Chain[at] = {} /\ EndFrom(at, sink) \in Blocks
      /\ \A b \in Blocks : b \in Chain[EndFrom(at, sink)] <=> (b \in Chain[at] /\ b \in Chain[sink]) \/ b \in A
  BY <1>1, <1>3, PageLeadsTo
<1>6. \A b : Pending(b)' <=> Pending(b)
  BY <1>1 DEF Pending, Coming
<1> HIDE DEF A
<1>7. /\ off' = (off \cup R) \ A
      /\ fold'.by = "walk" /\ fold'.added = A /\ fold'.complete \in BOOLEAN /\ fold'.todo \subseteq A
      /\ \A b \in A, t \in Txids : t \in Accepts[b] /\ rec[t] # None => b \in fold'.todo /\ t \in fold'.seen
      /\ \A t \in Txids : IsAccepted(t)' => IsAccepted(t) /\ rec'[t] = rec[t]
      /\ \A t \in Txids : \A b : Here(t, b)' => Here(t, b) /\ (b \in R => ~fold'.complete /\ OnCursor(b))
      /\ \A t \in Txids : IsFinal(t)' => IsFinal(t) /\ rec'[t] = rec[t]
      /\ \A t \in Txids, b \in Blocks :
           Unsettled(t, b)' => t \in Accepts[b] /\ rec[t] # None /\ (Unsettled(t, b) \/ (Here(t, b) /\ b \in R))
  <2> DEFINE d == PageOf(at)
  <2>1. FoldBegins("walk", d) /\ d.removed \subseteq Blocks /\ d.removed = R /\ d.added = A
        /\ UNCHANGED <<Messages, page, mpos, cursor, memory, late>> /\ \A b \in Blocks : Pending(b)' <=> Pending(b)
    BY <1>1, <1>4, <1>6
  <2> HIDE DEF d, R
  <2> QED BY <2>1, BatchBegins
<1>8. /\ \A b : Told(b)' <=> Told(b)
      /\ \A b : OnCursor(b)' <=> OnCursor(b)
      /\ \A b : OnSink(b)' <=> OnSink(b)
      /\ InGap' = InGap /\ Paging' /\ Paging /\ InWalk' /\ InWalk
      /\ (Whole' <=> walk.clean /\ fold'.complete) /\ (Whole <=> walk.clean)
      /\ \A t, b : Recalls(t, b)' <=> Recalls(t, b)
  BY <1>1, <1>2, <1>3 DEF Told, Coming, OnCursor, OnSink, InGap, Paging, InWalk, Whole, Recalls
<1>9. WalksTo' = EndFrom(at, sink) /\ WalksTo = at
  BY <1>1, <1>2, <1>7 DEF WalksTo, PageEnd, EndFrom, A
<1>10. /\ \A b \in Blocks : OnWalk(b) <=> b \in Chain[at]
       /\ \A b \in Blocks : OnWalk(b)' <=> (b \in Chain[at] /\ OnSink(b)) \/ b \in A
       /\ \A b : AwaitsPage(b) => OnWalk(b)
       /\ (Owing => Owing') /\ (~fold'.complete => Owing')
  BY <1>5, <1>8, <1>9, <1>1, <1>2 DEF OnWalk, OnSink, AwaitsPage, Owing
<1>11. /\ \A b \in Blocks : b \in R <=> OnWalk(b) /\ ~OnSink(b)
       /\ \A b \in A : OnSink(b) /\ ~OnWalk(b) /\ b \in Blocks
  BY <1>1, <1>5, <1>10, ChainFacts DEF OnSink
<1> HIDE DEF R, at
<1>12. LoopPart' /\ QueuePart' /\ DownPart'
  <2>1. LoopPart'
    BY <1>1, <1>2, <1>3, <1>7, <1>8 DEF Accord, LoopPart, Paging
  <2> QED BY <1>1, <2>1 DEF Accord, QueuePart, DownPart, Coming
<1>13. FoldPart'
  <2>1. Agrees(sink, Coming', sink) /\ Score[sink] <= Score[sink]
    BY <1>1 DEF Agrees
  <2>2. FoldsTo(sink)'
    BY <1>1, <1>2, <1>3, <1>5, <1>7, <2>1 DEF FoldsTo, A
  <2> QED BY <1>1, <2>2 DEF FoldPart
<1>14. StalePart'
  <2>1. ASSUME NEW t \in Txids, NEW b, Here(t, b)' PROVE b \in Blocks /\ Excused(b)'
    <3>1. Here(t, b) /\ (b \in R => ~fold'.complete /\ OnCursor(b))
      BY <1>7, <2>1
    <3>2. b \in Blocks /\ Excused(b)
      BY <1>1, <3>1 DEF Accord, StalePart, Here
    <3> QED BY <1>8, <1>10, <1>11, <3>1, <3>2 DEF Excused
  <2>2. ASSUME NEW t \in Messages, NEW b \in Blocks, Recalls(t, b) PROVE b \in off' \/ Excused(b)'
    <3>1. b \in off \/ Excused(b)
      BY <1>1, <2>2 DEF Accord, StalePart
    <3> QED BY <1>7, <1>8, <1>10, <1>11, <3>1 DEF Excused
  <2>3. \A t \in Txids : IsAccepted(t)' => Here(t, rec[t].at)'
    BY <1>7 DEF Here
  <2>4. \A t \in Txids : IsAccepted(t)' => rec'[t] = rec[t]
    BY <1>7
  <2> QED BY <1>1, <1>8, <2>1, <2>2, <2>3, <2>4 DEF StalePart
<1>15. CleanPart'
  <2> SUFFICES ASSUME walk.clean, fold'.complete
               PROVE  /\ \A t \in Txids, b \in Blocks : Here(t, b)' /\ OnCursor(b) => OnWalk(b)' \/ Told(b)
                      /\ \A t \in Messages, b \in Blocks : Recalls(t, b) /\ OnCursor(b) => OnWalk(b)' \/ Told(b) \/ b \in off'
                      /\ \A t \in Txids, b \in Blocks : Unsettled(t, b)' /\ OnWalk(b)' => OnCursor(b) \/ Told(b) \/ b \in fold'.todo
    BY <1>1, <1>8 DEF CleanPart
  <2>1. /\ \A t \in Txids, b \in Blocks : Here(t, b) /\ OnCursor(b) => OnWalk(b) \/ Told(b)
        /\ \A t \in Messages, b \in Blocks : Recalls(t, b) /\ OnCursor(b) => OnWalk(b) \/ Told(b) \/ b \in off
        /\ \A t \in Txids, b \in Blocks : Unsettled(t, b) /\ OnWalk(b) => OnCursor(b) \/ Told(b) \/ b \in fold.todo
    BY <1>1, <1>8 DEF Accord, CleanPart
  <2>2. \A t \in Txids, b \in Blocks : Here(t, b)' /\ OnCursor(b) => OnWalk(b)' \/ Told(b)
    BY <1>7, <1>10, <1>11, <2>1
  <2>3. \A t \in Messages, b \in Blocks : Recalls(t, b) /\ OnCursor(b) => OnWalk(b)' \/ Told(b) \/ b \in off'
    BY <1>7, <1>10, <1>11, <2>1
  <2>4. \A t \in Txids, b \in Blocks : Unsettled(t, b)' /\ OnWalk(b)' => OnCursor(b) \/ Told(b) \/ b \in fold'.todo
    BY <1>3, <1>7, <1>10, <1>11, <2>1
  <2> QED BY <2>2, <2>3, <2>4
<1>16. FinalPart' /\ PagePart' /\ WordPart'
  <2>1. FinalPart' /\ WordPart'
    BY <1>1, <1>6, <1>7, <1>8 DEF Accord, FinalPart, WordPart
  <2>2. PagePart'
    BY <1>1, <1>6, <1>7, <1>8, <1>11 DEF Accord, PagePart
  <2> QED BY <2>1, <2>2
<1>17. \A b \in off : OnSink(b) /\ ~Told(b) => ~OnCursor(b)
  BY <1>1 DEF Accord, OffPart
<1>18. CursorPart'
  <2>1. \A b \in Blocks : OnCursor(b) => OnWalk(b) \/ b \in off \/ Told(b)
    BY <1>1, <1>8 DEF Accord, CursorPart
  <2>2. \A b \in Blocks : OnCursor(b) => OnWalk(b)' \/ b \in off' \/ Told(b)
    BY <1>7, <1>10, <1>11, <2>1
  <2>3. \A b \in A : OnCursor(b) => Told(b)
    BY <1>11, <1>17, <2>1
  <2> QED BY <1>7, <1>8, <2>2, <2>3 DEF CursorPart
<1>19. OffPart'
  <2> SUFFICES ASSUME NEW b \in Blocks, b \in off'
               PROVE  /\ OnSink(b) /\ ~Told(b) => ~OnCursor(b)
                      /\ OnWalk(b)' => OnCursor(b) \/ Told(b)
    <3>1. off' \subseteq Blocks
      BY Grounds DEF OtherTypes
    <3> QED BY <1>8, <3>1 DEF OffPart
  <2>1. b \notin A /\ (b \in off \/ b \in R)
    BY <1>7
  <2>2. b \in off /\ OnWalk(b) => OnCursor(b) \/ Told(b)
    BY <1>1 DEF Accord, OffPart
  <2> QED BY <1>10, <1>11, <1>17, <2>1, <2>2
<1>20. SettlePart'
  <2> SUFFICES ASSUME NEW t \in Txids, NEW b \in Blocks, Unsettled(t, b)'
               PROVE  /\ OnSink(b) => Told(b) \/ b \in fold'.todo \/ ~OnWalk(b)' \/ (Owing' /\ ~OnCursor(b))
                      /\ OnCursor(b) => b \in off' \/ Told(b) \/ b \in A
                      /\ b \in A => t \in fold'.seen /\ b \in fold'.todo
    BY <1>7, <1>8 DEF SettlePart
  <2>1. t \in Accepts[b] /\ rec[t] # None /\ (Unsettled(t, b) \/ b \in R)
    BY <1>7
  <2>2. b \in A => t \in fold'.seen /\ b \in fold'.todo
    BY <1>7, <2>1
  <2>3. CASE Unsettled(t, b)
    <3>1. /\ OnSink(b) => Told(b) \/ ~OnWalk(b) \/ (Owing /\ ~OnCursor(b))
          /\ OnCursor(b) => b \in off \/ Told(b) \/ (~OnSink(b) /\ OnWalk(b))
      BY <1>1, <1>3, <1>8, <2>3 DEF Accord, SettlePart
    <3> QED BY <1>7, <1>10, <1>11, <2>2, <3>1
  <2>4. CASE b \in R
    BY <1>7, <1>11, <2>4
  <2> QED BY <2>1, <2>3, <2>4
<1>21. CoverPart'
  <2> SUFFICES ASSUME NEW t \in Sends, NEW b \in Blocks, Here(t, b)', ~OnCursor(b)
               PROVE  owed \/ Told(b) \/ ~Whole' \/ ~OnWalk(b)' \/ b \in A
    BY <1>1, <1>7, <1>8 DEF CoverPart, Sends
  <2>1. t \in Txids /\ Here(t, b)
    BY <1>7 DEF Sends
  <2>2. owed \/ Told(b) \/ ~Whole \/ ~OnWalk(b)
    BY <1>1, <1>3, <1>8, <2>1 DEF Accord, CoverPart, at
  <2> QED BY <1>8, <1>10, <1>11, <2>2
<1> QED BY <1>12, <1>13, <1>14, <1>15, <1>16, <1>18, <1>19, <1>20, <1>21 DEF Accord

\* A live batch is folded in its turn, in a gap of neither kind.
LEMMA TakesBatchAccord ==
  ASSUME Onward, TakesBatch
  PROVE  Accord'
<1>1. /\ Accord /\ fold.by = "none" /\ ~reconn /\ ~again /\ Shapes /\ Shapes' /\ sink \in Blocks
      /\ UNCHANGED <<Messages, sink, up, reconn, page, mpos, cursor, memory, frozen, owed, walk, again, late>>
  BY Grounds DEF Onward, TakesBatch, hold, OtherTypes
<1>2. /\ Coming # <<>> /\ Coming' = Tail(Coming) /\ FoldBegins("live", Head(Coming)) /\ Head(Coming).kind = "vcc"
      /\ walk.pc \in {"off", "drain"} /\ (walk.pc = "off" => held' = <<>>)
  <2>1. CASE ~Walking /\ feed # <<>> /\ Head(feed).kind = "vcc" /\ FoldBegins("live", Head(feed)) /\ feed' = Tail(feed) /\ held' = held
    <3>1. walk.pc = "off" /\ held = <<>>
      BY <1>1, <2>1 DEF Walking, Accord, LoopPart
    <3> QED BY <1>1, <2>1, <3>1, ComingMoves
  <2>2. CASE walk.pc = "drain" /\ held # <<>> /\ Head(held).kind = "vcc" /\ FoldBegins("live", Head(held)) /\ held' = Tail(held) /\ feed' = feed
    BY <1>1, <2>2, ComingMoves
  <2> QED BY <2>1, <2>2 DEF TakesBatch
<1>3. Coming \in Seq(Deliveries) /\ InOrder(Coming, sink)
  BY <1>1, ComingMoves DEF Accord, QueuePart
<1>4. PICK d : /\ d = Head(Coming) /\ FoldBegins("live", d) /\ d.kind = "vcc"
               /\ d.removed \subseteq Blocks /\ d.added \subseteq Blocks
  BY <1>2, <1>3, FrontOfQueue
<1> DEFINE R == d.removed
           A == d.added
<1>5. /\ \A b : Told(b) <=> b \in A \/ b \in R \/ Told(b)'
      /\ \A b : Pending(b)' <=> Pending(b)
      /\ QueuePart'
  <2>1. /\ \A b : ToldIn(Coming, b) <=> Says(d, b) \/ ToldIn(Tail(Coming), b)
        /\ \A b : NamedIn(Coming, b) <=> NamedIn(Tail(Coming), b)
        /\ InOrder(Tail(Coming), sink)
    BY <1>1, <1>2, <1>3, <1>4, QueueTail
  <2> QED BY <1>1, <1>2, <1>4, <2>1 DEF Told, Pending, Says, QueuePart
<1>6. PICK p \in Blocks : LeadsTo(d, p) /\ Score[p] <= Score[sink] /\ Agrees(p, Coming', sink)
  BY <1>1, <1>2, <1>3, <1>4, QueueTail
<1>7. /\ A \subseteq Chain[p] /\ R \cap A = {} /\ (A = {} \/ p \in A)
      /\ \A b \in A : b \in Blocks /\ (Told(b)' \/ OnSink(b))
      /\ \A b \in R : b \in Blocks /\ (Told(b)' \/ ~OnSink(b))
  BY <1>4, <1>6 DEF LeadsTo, Agrees, Told, OnSink
<1>8. /\ up /\ walk.clean /\ fold.added = {} /\ fold.todo = {} /\ fold.complete
  <2>1. ~up => Coming = <<>>
    BY <1>1, ComingMoves DEF Accord, DownPart
  <2>2. walk.clean /\ fold = NoFold
    BY <1>1, <1>2 DEF Accord, LoopPart, Paging
  <2> QED BY <1>2, <2>1, <2>2 DEF NoFold
<1>9. /\ off' = (off \cup R) \ A
      /\ fold'.by = "live" /\ fold'.added = A /\ fold'.complete \in BOOLEAN /\ fold'.todo \subseteq A
      /\ \A b \in A, t \in Txids : t \in Accepts[b] /\ rec[t] # None => b \in fold'.todo /\ t \in fold'.seen
      /\ \A t \in Txids : IsAccepted(t)' => IsAccepted(t) /\ rec'[t] = rec[t]
      /\ \A t \in Txids : \A b : Here(t, b)' => Here(t, b) /\ (b \in R => ~fold'.complete /\ OnCursor(b))
      /\ \A t \in Txids : IsFinal(t)' => IsFinal(t) /\ rec'[t] = rec[t]
      /\ \A t \in Txids, b \in Blocks :
           Unsettled(t, b)' => t \in Accepts[b] /\ rec[t] # None /\ (Unsettled(t, b) \/ (Here(t, b) /\ b \in R))
  BY <1>1, <1>4, <1>5, BatchBegins
<1>10. /\ \A b : OnCursor(b)' <=> OnCursor(b)
       /\ \A b : OnSink(b)' <=> OnSink(b)
       /\ ~InGap /\ ~InGap' /\ ~Paging /\ ~Paging' /\ ~InWalk /\ ~InWalk'
       /\ \A b : ~AwaitsPage(b) /\ ~OnWalk(b) /\ ~OnWalk(b)'
       /\ (Owing <=> frozen) /\ (Owing' <=> frozen \/ ~fold'.complete)
       /\ \A t, b : Recalls(t, b)' <=> Recalls(t, b)
  BY <1>1, <1>2, <1>8, <1>9 DEF OnCursor, OnSink, InGap, Paging, InWalk, AwaitsPage, OnWalk, Owing, Recalls
<1> HIDE DEF R, A
<1>11. LoopPart' /\ FoldPart' /\ DownPart'
  <2>1. LoopPart'
    BY <1>1, <1>2, <1>8, <1>9, <1>10 DEF Accord, LoopPart
  <2>2. FoldsTo(p)'
    BY <1>1, <1>6, <1>7, <1>9 DEF FoldsTo
  <2> QED BY <1>1, <1>8, <2>1, <2>2 DEF FoldPart, DownPart
<1>12. StalePart'
  <2>1. ASSUME NEW t \in Txids, NEW b, Here(t, b)' PROVE b \in Blocks /\ Excused(b)'
    <3>1. Here(t, b) /\ (b \in R => ~fold'.complete /\ OnCursor(b))
      BY <1>9, <2>1
    <3>2. b \in Blocks /\ Excused(b)
      BY <1>1, <3>1 DEF Accord, StalePart, Here
    <3> QED BY <1>5, <1>7, <1>10, <3>1, <3>2 DEF Excused
  <2>2. ASSUME NEW t \in Messages, NEW b \in Blocks, Recalls(t, b) PROVE b \in off' \/ Excused(b)'
    <3>1. b \in off \/ Excused(b)
      BY <1>1, <2>2 DEF Accord, StalePart
    <3> QED BY <1>5, <1>7, <1>9, <1>10, <3>1 DEF Excused
  <2>3. \A t \in Txids : IsAccepted(t)' => Here(t, rec[t].at)'
    BY <1>9 DEF Here
  <2>4. \A t \in Txids : IsAccepted(t)' => rec'[t] = rec[t]
    BY <1>9
  <2> QED BY <1>1, <1>10, <2>1, <2>2, <2>3, <2>4 DEF StalePart
<1>13. CleanPart'
  BY <1>10 DEF CleanPart
<1>14. FinalPart' /\ PagePart' /\ WordPart'
  <2>1. FinalPart' /\ WordPart'
    BY <1>1, <1>5, <1>9, <1>10 DEF Accord, FinalPart, WordPart
  <2>2. PagePart'
    BY <1>1, <1>5, <1>7, <1>9, <1>10 DEF Accord, PagePart
  <2> QED BY <2>1, <2>2
<1>15. CursorPart'
  <2>1. ~frozen => \A b \in Blocks : OnCursor(b) => OnSink(b) \/ b \in off \/ Told(b)
    BY <1>1, <1>10 DEF Accord, CursorPart
  <2>2. ~frozen => \A b \in Blocks : OnCursor(b) => OnSink(b) \/ b \in off' \/ Told(b)'
    BY <1>5, <1>7, <1>9, <2>1
  <2> QED BY <1>1, <1>2, <1>10, <2>2 DEF CursorPart
<1>16. OffPart'
  <2> SUFFICES ASSUME NEW b \in Blocks, b \in off', OnSink(b), ~Told(b)'
               PROVE  ~OnCursor(b) /\ Owing' /\ cursor # None
    <3>1. off' \subseteq Blocks
      BY Grounds DEF OtherTypes
    <3> QED BY <1>1, <1>10, <3>1 DEF OffPart
  <2>1. b \in off /\ ~Told(b)
    BY <1>5, <1>7, <1>9
  <2> QED BY <1>1, <1>10, <2>1 DEF Accord, OffPart
<1>17. SettlePart'
  <2> SUFFICES ASSUME NEW t \in Txids, NEW b \in Blocks, Unsettled(t, b)'
               PROVE  /\ OnSink(b) => Told(b)' \/ b \in fold'.todo \/ (Owing' /\ ~OnCursor(b))
                      /\ OnCursor(b) => b \in off' \/ Told(b)' \/ b \in A \/ (frozen /\ ~OnSink(b))
                      /\ b \in A => t \in fold'.seen /\ b \in fold'.todo
    BY <1>1, <1>2, <1>9, <1>10 DEF SettlePart
  <2>1. t \in Accepts[b] /\ rec[t] # None /\ (Unsettled(t, b) \/ b \in R)
    BY <1>9
  <2>2. b \in A => t \in fold'.seen /\ b \in fold'.todo
    BY <1>9, <2>1
  <2>3. CASE Unsettled(t, b)
    <3>1. /\ OnSink(b) => Told(b) \/ (Owing /\ ~OnCursor(b))
          /\ OnCursor(b) => b \in off \/ Told(b) \/ (frozen /\ ~OnSink(b))
      BY <1>1, <1>8, <1>10, <2>3 DEF Accord, SettlePart
    <3> QED BY <1>5, <1>7, <1>9, <1>10, <2>2, <3>1
  <2>4. CASE b \in R
    BY <1>7, <1>9, <2>4
  <2> QED BY <2>1, <2>3, <2>4
<1>18. CoverPart'
  <2> SUFFICES ASSUME NEW t \in Sends, NEW b \in Blocks, Here(t, b)', ~OnCursor(b)
               PROVE  owed \/ Told(b)' \/ b \in A \/ frozen
    BY <1>1, <1>9, <1>10 DEF CoverPart, Sends
  <2>1. t \in Txids /\ Here(t, b) /\ b \notin R
    BY <1>9 DEF Sends
  <2>2. owed \/ Told(b) \/ frozen
    BY <1>1, <1>8, <1>10, <2>1 DEF Accord, CoverPart
  <2> QED BY <1>5, <2>1, <2>2
<1> QED BY <1>5, <1>11, <1>12, <1>13, <1>14, <1>15, <1>16, <1>17, <1>18 DEF Accord

\* A live batch is folded: the cursor moves to where it leads, stays where it covers
\* what the log has, or is held.
LEMMA FoldLiveAccord ==
  ASSUME Onward, FoldLive
  PROVE  Accord'
<1> DEFINE A == fold.added
<1>1. /\ Accord /\ fold.by = "live" /\ fold.todo = {} /\ fold' = NoFold /\ fold.complete \in BOOLEAN /\ sink \in Blocks
      /\ UNCHANGED <<Messages, sink, up, reconn, feed, page, mpos, rec, off, memory, walk, again, held, late>>
      /\ ~fold.complete => \A b \in A : ~OnCursor(b)
  BY Grounds DEF Onward, FoldLive, node, maps, OnCursor
<1>2. /\ ~Paging /\ ~InGap /\ ~InWalk /\ up /\ walk.clean /\ walk.pc # "fold"
      /\ fold'.by = "none" /\ fold'.added = {} /\ fold'.todo = {} /\ fold'.complete
  BY <1>1 DEF Accord, LoopPart, InGap, InWalk, Paging, NoFold
<1>3. \/ ~fold.complete /\ frozen' /\ cursor' = cursor /\ owed' = owed
      \/ fold.complete /\ (frozen \/ A = {}) /\ cursor' = cursor /\ owed' = owed /\ frozen' = frozen
      \/ fold.complete /\ ~frozen /\ ~frozen' /\ A # {} /\ ~Carries /\ ~owed /\ cursor' = cursor
      \/ fold.complete /\ ~frozen /\ ~frozen' /\ A # {} /\ owed' /\ cursor' = cursor
      \/ fold.complete /\ ~frozen /\ ~frozen' /\ A # {} /\ cursor' = Last(A)
  BY <1>1, Grounds DEF FoldLive, write_cursor, hold, OtherTypes
<1>4. /\ \A b : (Told(b)' <=> Told(b)) /\ (Pending(b)' <=> Pending(b))
      /\ \A b : OnSink(b)' <=> OnSink(b)
      /\ ~Paging' /\ ~InGap' /\ ~InWalk' /\ (Owing <=> frozen \/ ~fold.complete) /\ (Owing' <=> frozen')
      /\ \A b : ~AwaitsPage(b) /\ ~AwaitsPage(b)' /\ ~OnWalk(b) /\ ~OnWalk(b)'
      /\ \A t : IsAccepted(t)' <=> IsAccepted(t)
      /\ \A t, b : (Here(t, b)' <=> Here(t, b)) /\ (Recalls(t, b)' <=> Recalls(t, b))
  BY <1>1, <1>2 DEF Told, Coming, Pending, OnSink, Paging, InGap, InWalk, Owing, AwaitsPage, OnWalk, IsAccepted, Here, Recalls
<1>5. \A t, b : Unsettled(t, b)' <=> Unsettled(t, b)
  BY <1>1, <1>4 DEF Unsettled, Sends
<1>6. PICK p \in Blocks : FoldsTo(p)
  BY <1>1 DEF Accord, FoldPart
<1>7. /\ A \subseteq Chain[p] /\ A \subseteq Blocks /\ (A # {} => p \in A) /\ Score[p] <= Score[sink]
      /\ \A b \in Blocks : Told(b) \/ (b \in Chain[p] <=> OnSink(b))
  BY <1>1, <1>6, Grounds DEF FoldsTo, Agrees, Told, OnSink
<1>8. ASSUME NEW t \in Txids, NEW b \in Blocks, Unsettled(t, b)
      PROVE  /\ OnSink(b) => Told(b) \/ (Owing /\ ~OnCursor(b))
             /\ OnCursor(b) => b \in off \/ Told(b) \/ (frozen /\ ~OnSink(b))
  <2>1. /\ OnSink(b) => Told(b) \/ (~fold.complete /\ b \in A) \/ (Owing /\ ~OnCursor(b))
        /\ OnCursor(b) => b \in off \/ Told(b) \/ b \in A \/ (frozen /\ ~OnSink(b))
        /\ b \in A => ~fold.complete
    BY <1>1, <1>2, <1>8 DEF Accord, SettlePart
  <2> QED BY <1>1, <1>4, <2>1
<1>9. LoopPart' /\ QueuePart' /\ FoldPart' /\ DownPart'
  <2>1. cursor' # None => Score[cursor'] <= Score[sink]
    <3>1. A # {} => Last(A) \in A /\ Score[p] <= Score[Last(A)]
      BY <1>7, LastOfChain DEF OneChain
    <3>2. A # {} => Last(A) = p
      BY <1>7, <3>1, ChainFacts
    <3> QED BY <1>1, <1>3, <1>7, <3>2 DEF Accord, LoopPart
  <2>2. LoopPart'
    BY <1>1, <1>2, <1>4, <2>1 DEF Accord, LoopPart
  <2> QED BY <1>1, <1>2, <2>2 DEF Accord, QueuePart, FoldPart, DownPart, Coming
<1>10. CleanPart' /\ FinalPart' /\ PagePart' /\ WordPart'
  BY <1>1, <1>4 DEF Accord, CleanPart, FinalPart, IsFinal, PagePart, WordPart
<1>11. CASE cursor' = cursor /\ ~(fold.complete /\ ~frozen /\ ~frozen' /\ A # {} /\ cursor' = Last(A))
  <2>1. (\A b : OnCursor(b)' <=> OnCursor(b)) /\ (Owing => Owing')
    BY <1>3, <1>4, <1>11 DEF OnCursor
  <2>2. StalePart'
    <3>1. \A b : Excused(b) => Excused(b)'
      BY <1>4, <2>1 DEF Excused
    <3> QED BY <1>1, <1>4, <3>1 DEF Accord, StalePart
  <2>3. CursorPart' /\ OffPart'
    <3>1. CursorPart'
      BY <1>1, <1>2, <1>3, <1>4, <2>1 DEF Accord, CursorPart
    <3>2. OffPart'
      <4>1. \A b \in off : OnSink(b) /\ ~Told(b) => ~OnCursor(b) /\ Owing /\ cursor # None
        BY <1>1, <1>2 DEF Accord, OffPart
      <4> QED BY <1>1, <1>4, <1>11, <2>1, <4>1 DEF OffPart
    <3> QED BY <3>1, <3>2
  <2>4. SettlePart'
    <3>1. frozen => frozen'
      BY <1>3
    <3> QED BY <1>1, <1>2, <1>4, <1>5, <1>8, <2>1, <3>1 DEF SettlePart
  <2>5. CoverPart'
    <3> SUFFICES ASSUME NEW t \in Sends, NEW b \in Blocks, Here(t, b), ~OnCursor(b) PROVE owed' \/ Told(b) \/ frozen'
      BY <1>1, <1>2, <1>4, <2>1 DEF CoverPart, Sends
    <3>1. owed \/ Told(b) \/ b \in A \/ frozen \/ ~fold.complete
      BY <1>1, <1>2 DEF Accord, CoverPart
    <3>2. b \in A => Carries
      <4>1. t \in index[b]
        BY Grounds DEF LogPart, IndexMatches, Here, Sends
      <4> QED BY <4>1 DEF Carries
    <3>3. A = {} => b \notin A
      OBVIOUS
    <3> HIDE DEF A
    <3> QED BY <1>3, <1>11, <3>1, <3>2, <3>3, Grounds DEF OtherTypes
  <2> QED BY <1>9, <1>10, <2>2, <2>3, <2>4, <2>5 DEF Accord
<1>12. CASE fold.complete /\ ~frozen /\ ~frozen' /\ A # {} /\ cursor' = Last(A)
  <2>1. cursor' = p /\ p # None
    <3>1. Last(A) \in A /\ Score[p] <= Score[Last(A)]
      BY <1>7, <1>12, LastOfChain DEF OneChain
    <3> QED BY <1>7, <1>12, <3>1, ChainFacts, Grounds
  <2>2. ~Owing /\ ~Owing' /\ \A b \in Blocks : Told(b) \/ (OnCursor(b)' <=> OnSink(b))
    BY <1>4, <1>7, <1>12, <2>1 DEF OnCursor
  <2>3. /\ \A b : Excused(b) => OnSink(b) \/ Told(b)
        /\ \A b : OnSink(b) \/ Told(b) => Excused(b)'
    BY <1>4, <2>2 DEF Excused
  <2>4. StalePart'
    BY <1>1, <1>4, <2>3 DEF Accord, StalePart
  <2>5. CursorPart' /\ OffPart'
    <3>1. CursorPart'
      BY <1>1, <1>2, <1>4, <2>2 DEF CursorPart
    <3>2. \A b \in off : b \in Blocks /\ (OnSink(b) => Told(b))
      BY <1>1, <1>2, <2>2, Grounds DEF Accord, OffPart, OtherTypes
    <3> QED BY <1>1, <1>4, <3>1, <3>2 DEF OffPart
  <2>6. SettlePart'
    BY <1>1, <1>2, <1>4, <1>5, <1>8, <2>2 DEF SettlePart
  <2>7. CoverPart'
    <3>1. \A t \in Sends, b \in Blocks : Here(t, b) => OnSink(b) \/ Told(b)
      BY <1>1, <2>3 DEF Accord, StalePart, Here, Sends
    <3> QED BY <1>1, <1>4, <2>2, <3>1 DEF CoverPart, Sends
  <2> QED BY <1>9, <1>10, <2>4, <2>5, <2>6, <2>7 DEF Accord
<1> QED BY <1>3, <1>11, <1>12

\* A page of the walk is folded.  While every page so far was whole the cursor goes
\* with the walk; a short page, or the last one allowed, ends it and settles the hold.
LEMMA WalkFoldedAccord ==
  ASSUME Onward, WalkFolded
  PROVE  Accord'
<1> DEFINE A == fold.added
           e == PageEnd
<1>1. /\ Accord /\ fold.by = "walk" /\ fold.todo = {} /\ fold' = NoFold /\ up /\ sink \in Blocks
      /\ UNCHANGED <<Messages, sink, up, reconn, feed, page, mpos, rec, off, memory, again, held, late>>
      /\ walk.pc = "fold" /\ walk.at \in Blocks /\ cursor # None /\ InWalk /\ Paging
      /\ \A b \in A : OnWalk(b) /\ b \in Blocks
  BY Grounds, PageOnWalk DEF Onward, WalkFolded, node, maps, Accord, LoopPart, DownPart
<1>2. PICK p \in Blocks : FoldsTo(p)
  BY <1>1 DEF Accord, FoldPart
<1>3. /\ WalksTo = e /\ e = EndFrom(walk.at, p) /\ e \in Blocks /\ Score[e] <= Score[sink]
      /\ Cardinality(A) < PageCap => e = p
      /\ \A b \in Blocks : Told(b) \/ (b \in Chain[p] <=> OnSink(b))
  <2>1. A = PageFrom(walk.at, p) /\ Score[walk.at] <= Score[p] /\ Score[p] <= Score[sink] /\ Agrees(p, Coming, sink)
    BY <1>1, <1>2 DEF FoldsTo
  <2>2. WalksTo = e /\ e = EndFrom(walk.at, p)
    BY <1>1, <2>1 DEF WalksTo, PageEnd, EndFrom
  <2>3. e \in Blocks /\ Score[e] <= Score[p] /\ (Cardinality(A) < PageCap => e = p)
    BY <1>1, <2>1, <2>2, PageLeadsTo
  <2>4. Score[e] \in Nat /\ Score[p] \in Nat /\ Score[sink] \in Nat
    BY <1>1, <2>3, ChainFacts
  <2> QED BY <2>1, <2>2, <2>3, <2>4 DEF Agrees, Told, OnSink
<1>4. /\ \A b : OnWalk(b) <=> b \in Chain[e]
      /\ Cardinality(A) < PageCap => \A b \in Blocks : Told(b) \/ (OnWalk(b) <=> OnSink(b))
  BY <1>1, <1>3 DEF OnWalk
<1>5. /\ ~\E b : AwaitsPage(b)
      /\ Owing <=> InGap \/ ~Whole
      /\ fold'.by = "none" /\ fold'.added = {} /\ fold'.todo = {} /\ fold'.complete
  BY <1>1, Grounds DEF AwaitsPage, Owing, NoFold
\* What each way of ending the page does.
<1> DEFINE Goes == /\ walk'.pc = "page" /\ walk'.at = e /\ walk'.clean = Whole
                   /\ \/ Whole /\ cursor' = e /\ owed' = owed
                      \/ cursor' = cursor /\ (Whole => owed') /\ (owed => owed')
                   /\ frozen' = (frozen \/ ~Whole)
           Ends == /\ walk'.pc = "drain" /\ walk'.at = None /\ walk'.clean
                   /\ \/ Whole /\ Cardinality(A) < PageCap /\ cursor' = e /\ owed' = owed /\ ~frozen'
                      \/ Whole /\ Cardinality(A) < PageCap /\ cursor' = cursor /\ (A = {} \/ owed') /\ (owed => owed') /\ ~frozen'
                      \/ ~Whole /\ cursor' = cursor /\ owed' = owed /\ frozen'
<1>6. Goes \/ Ends
  <2>1. Whole \in BOOLEAN /\ owed \in BOOLEAN
    BY Grounds DEF Whole, OtherTypes
  <2>2. /\ Whole = (walk.clean /\ fold.complete)
        /\ e = IF A = {} THEN walk.at ELSE Last(A)
    BY DEF Whole, PageEnd
  <2>3. \/ /\ walk' = [pc |-> "page", at |-> e, clean |-> Whole, pages |-> walk.pages + 1]
           /\ IF Whole THEN write_cursor(e, TRUE, owed) ELSE UNCHANGED <<cursor, owed, faults>>
           /\ frozen' = (frozen \/ ~Whole)
        \/ /\ Cardinality(A) < PageCap /\ WalkStops
           /\ IF Whole /\ A # {} THEN write_cursor(e, TRUE, owed) ELSE UNCHANGED <<cursor, owed, faults>>
           /\ frozen' = ~Whole
        \/ /\ ~Whole /\ WalkStops
           /\ frozen' = TRUE /\ UNCHANGED <<cursor, owed>>
    BY <1>1, <2>2 DEF WalkFolded, Onward
  <2>4. WalkStops => walk'.pc = "drain" /\ walk'.at = None /\ walk'.clean
    BY DEF WalkStops, NoWalk
  <2>5. write_cursor(e, TRUE, owed) => \/ cursor' = e /\ owed' = owed
                                       \/ cursor' = cursor /\ owed'
    BY <2>1 DEF write_cursor
  <2> HIDE DEF A, e
  <2>6. CASE /\ walk' = [pc |-> "page", at |-> e, clean |-> Whole, pages |-> walk.pages + 1]
             /\ IF Whole THEN write_cursor(e, TRUE, owed) ELSE UNCHANGED <<cursor, owed, faults>>
             /\ frozen' = (frozen \/ ~Whole)
    BY <2>1, <2>5, <2>6
  <2>7. CASE /\ Cardinality(A) < PageCap /\ WalkStops
             /\ IF Whole /\ A # {} THEN write_cursor(e, TRUE, owed) ELSE UNCHANGED <<cursor, owed, faults>>
             /\ frozen' = ~Whole
    BY <2>1, <2>4, <2>5, <2>7
  <2>8. CASE /\ ~Whole /\ WalkStops
             /\ frozen' = TRUE /\ UNCHANGED <<cursor, owed>>
    BY <2>4, <2>8
  <2> QED BY <2>3, <2>6, <2>7, <2>8
<1>7. /\ \A b : (Told(b)' <=> Told(b)) /\ (Pending(b)' <=> Pending(b))
      /\ \A b : OnSink(b)' <=> OnSink(b)
      /\ InGap' = InGap
      /\ \A t : IsAccepted(t)' <=> IsAccepted(t)
      /\ \A t, b : (Here(t, b)' <=> Here(t, b)) /\ (Recalls(t, b)' <=> Recalls(t, b))
  BY <1>1 DEF Told, Coming, Pending, OnSink, InGap, IsAccepted, Here, Recalls
<1>8. \A t, b : Unsettled(t, b)' <=> Unsettled(t, b)
  BY <1>1, <1>7 DEF Unsettled, Sends
<1>9. /\ e # None /\ (cursor' = cursor \/ cursor' = e)
      /\ cursor' = cursor => \A b : OnCursor(b)' <=> OnCursor(b)
      /\ cursor' = e => \A b : OnCursor(b)' <=> OnWalk(b)
  BY <1>3, <1>4, <1>6, Grounds DEF OnCursor
<1>10. Goes => /\ Paging' /\ InWalk' /\ (Whole' <=> Whole) /\ (Owing' <=> Owing)
               /\ \A b : (OnWalk(b)' <=> OnWalk(b)) /\ (AwaitsPage(b)' <=> OnWalk(b))
  <2> SUFFICES ASSUME Goes
               PROVE  /\ Paging' /\ InWalk' /\ (Whole' <=> Whole) /\ (Owing' <=> Owing)
                      /\ \A b : (OnWalk(b)' <=> OnWalk(b)) /\ (AwaitsPage(b)' <=> OnWalk(b))
    OBVIOUS
  <2>1. Paging' /\ InWalk' /\ WalksTo' = e
    BY <1>3, Grounds DEF Paging, InWalk, WalksTo
  <2>2. \A b : OnWalk(b)' <=> OnWalk(b)
    BY <1>4, <2>1 DEF OnWalk
  <2>3. Whole' <=> Whole
    BY <1>5 DEF Whole
  <2> QED BY <1>3, <1>5, <1>7, <2>1, <2>2, <2>3, Grounds DEF Owing, AwaitsPage
<1>11. Ends => ~Paging' /\ ~InWalk' /\ (Owing' <=> InGap \/ frozen') /\ \A b : ~OnWalk(b)' /\ ~AwaitsPage(b)'
  BY <1>5, <1>7 DEF Paging, InWalk, Owing, OnWalk, AwaitsPage
<1>12. LoopPart' /\ QueuePart' /\ FoldPart' /\ DownPart'
  <2>1. Goes => LoopPart'
    BY <1>1, <1>3, <1>5, <1>9, <1>10, Grounds DEF Accord, LoopPart
  <2>2. Ends => LoopPart'
    BY <1>1, <1>3, <1>5, <1>9, <1>11 DEF Accord, LoopPart
  <2> QED BY <1>1, <1>5, <1>6, <2>1, <2>2 DEF Accord, QueuePart, FoldPart, DownPart, Coming
<1>13. FinalPart' /\ PagePart' /\ WordPart'
  BY <1>1, <1>7 DEF Accord, FinalPart, IsFinal, PagePart, WordPart
\* What is known of a block before the step.
<1>14. ASSUME NEW t \in Txids, NEW b \in Blocks, Here(t, b)
       PROVE  /\ OnSink(b) \/ Told(b) \/ (OnCursor(b) /\ Owing)
              /\ Whole /\ OnCursor(b) => OnWalk(b) \/ Told(b)
  BY <1>1, <1>5, <1>14 DEF Accord, StalePart, Excused, CleanPart, Here
<1>15. ASSUME NEW t \in Messages, NEW b \in Blocks, Recalls(t, b)
       PROVE  /\ b \in off \/ OnSink(b) \/ Told(b) \/ (OnCursor(b) /\ Owing)
              /\ Whole /\ OnCursor(b) => OnWalk(b) \/ Told(b) \/ b \in off
  BY <1>1, <1>5, <1>15 DEF Accord, StalePart, Excused, CleanPart
<1>16. ASSUME NEW t \in Txids, NEW b \in Blocks, Unsettled(t, b)
       PROVE  /\ OnSink(b) => Told(b) \/ ~OnWalk(b) \/ (Owing /\ ~OnCursor(b))
              /\ OnCursor(b) => b \in off \/ Told(b)
              /\ Whole /\ OnWalk(b) => OnCursor(b) \/ Told(b)
  <2>1. /\ OnSink(b) => Told(b) \/ ~OnWalk(b) \/ (Owing /\ ~OnCursor(b))
        /\ OnCursor(b) => b \in off \/ Told(b) \/ b \in A
    BY <1>1, <1>16 DEF Accord, SettlePart
  <2>2. b \in A /\ OnCursor(b) => Told(b)
    BY <1>1 DEF Accord, CursorPart
  <2>3. Whole /\ OnWalk(b) => OnCursor(b) \/ Told(b)
    BY <1>1, <1>16 DEF Accord, CleanPart
  <2> QED BY <2>1, <2>2, <2>3
<1>17. ASSUME NEW b \in off
       PROVE  /\ b \in Blocks
              /\ OnSink(b) /\ ~Told(b) => ~OnCursor(b)
              /\ OnWalk(b) => OnCursor(b) \/ Told(b)
  BY <1>1, Grounds DEF Accord, OffPart, OtherTypes
<1>18. /\ \A b \in Blocks : OnCursor(b) => OnWalk(b) \/ b \in off \/ Told(b)
       /\ \A t \in Sends, b \in Blocks : Here(t, b) /\ ~OnCursor(b) =>
            owed \/ Told(b) \/ ~Whole \/ ~OnWalk(b) \/ b \in A
  BY <1>1, Grounds DEF Accord, CursorPart, CoverPart
<1> HIDE DEF A, e
<1>19. CASE Goes
  <2>1. StalePart'
    <3>1. \A t \in Txids, b \in Blocks : Here(t, b) => Excused(b)'
      BY <1>5, <1>7, <1>9, <1>10, <1>14, <1>19 DEF Excused
    <3>2. \A t \in Messages, b \in Blocks : Recalls(t, b) => b \in off \/ Excused(b)'
      BY <1>5, <1>7, <1>9, <1>10, <1>15, <1>19 DEF Excused
    <3>3. \A t \in Txids : IsAccepted(t) => Here(t, rec[t].at) /\ rec[t].at \in Blocks
      BY <1>1 DEF Accord, StalePart, Here
    <3> QED BY <1>1, <1>7, <3>1, <3>2, <3>3 DEF StalePart
  <2>2. CleanPart'
    BY <1>1, <1>7, <1>8, <1>9, <1>10, <1>14, <1>15, <1>16, <1>19 DEF CleanPart
  <2>3. CursorPart' /\ OffPart'
    <3>1. CursorPart'
      BY <1>1, <1>5, <1>7, <1>9, <1>10, <1>18, <1>19 DEF CursorPart
    <3>2. OffPart'
      BY <1>1, <1>7, <1>9, <1>10, <1>17, <1>19 DEF OffPart
    <3> QED BY <3>1, <3>2
  <2>4. SettlePart'
    <3> SUFFICES ASSUME NEW t \in Txids, NEW b \in Blocks, Unsettled(t, b)'
                 PROVE  /\ OnSink(b) => Told(b) \/ ~OnWalk(b) \/ (Owing /\ ~OnCursor(b)')
                        /\ OnCursor(b)' => b \in off \/ Told(b)
      BY <1>1, <1>5, <1>7, <1>10, <1>19 DEF SettlePart
    <3> QED BY <1>8, <1>9, <1>16, <1>19
  <2>5. CoverPart'
    <3> SUFFICES ASSUME NEW t \in Sends, NEW b \in Blocks, Here(t, b), ~OnCursor(b)'
                 PROVE  owed' \/ Told(b) \/ ~Whole \/ ~OnWalk(b)
      BY <1>1, <1>7, <1>10, <1>19 DEF CoverPart, Sends
    <3> QED BY <1>9, <1>18, <1>19
  <2> QED BY <1>12, <1>13, <2>1, <2>2, <2>3, <2>4, <2>5 DEF Accord
<1>20. CASE Ends
  <2>0. /\ Whole => \A b \in Blocks : Told(b) \/ (OnWalk(b) <=> OnSink(b))
        /\ ~Whole => frozen' /\ Owing' /\ cursor' = cursor
    BY <1>4, <1>11, <1>20
  <2>1. StalePart'
    <3>1. \A t \in Txids, b \in Blocks : Here(t, b) => Excused(b)'
      BY <1>7, <1>9, <1>14, <1>20, <2>0 DEF Excused
    <3>2. \A t \in Messages, b \in Blocks : Recalls(t, b) => b \in off \/ Excused(b)'
      BY <1>7, <1>9, <1>15, <1>20, <2>0 DEF Excused
    <3>3. \A t \in Txids : IsAccepted(t) => Here(t, rec[t].at) /\ rec[t].at \in Blocks
      BY <1>1 DEF Accord, StalePart, Here
    <3> QED BY <1>1, <1>7, <3>1, <3>2, <3>3 DEF StalePart
  <2>2. CleanPart'
    BY <1>11, <1>20 DEF CleanPart
  <2>3. CursorPart' /\ OffPart'
    <3>1. CursorPart'
      BY <1>1, <1>5, <1>7, <1>9, <1>11, <1>18, <1>20, <2>0 DEF CursorPart
    <3>2. OffPart'
      BY <1>1, <1>7, <1>9, <1>11, <1>17, <1>20, <2>0 DEF OffPart
    <3> QED BY <3>1, <3>2
  <2>4. SettlePart'
    <3> SUFFICES ASSUME NEW t \in Txids, NEW b \in Blocks, Unsettled(t, b)'
                 PROVE  /\ OnSink(b) => Told(b) \/ (Owing' /\ ~OnCursor(b)')
                        /\ OnCursor(b)' => b \in off \/ Told(b)
      BY <1>1, <1>5, <1>7, <1>11, <1>20 DEF SettlePart
    <3>1. Owing /\ Whole => Owing'
      BY <1>5, <1>11, <1>20
    <3>2. b \in off => (OnSink(b) /\ ~Told(b) => ~OnCursor(b))
      BY <1>17
    <3> QED BY <1>8, <1>9, <1>16, <1>20, <2>0, <3>1, <3>2
  <2>5. CoverPart'
    <3> SUFFICES ASSUME NEW t \in Sends, NEW b \in Blocks, Here(t, b), ~OnCursor(b)'
                 PROVE  owed' \/ Told(b) \/ frozen'
      BY <1>1, <1>7, <1>11, <1>20 DEF CoverPart, Sends
    <3>1. t \in Txids
      BY DEF Sends
    <3>2. CASE Whole
      <4>1. Told(b) \/ OnWalk(b)
        BY <1>14, <2>0, <3>1, <3>2
      <4>2. b \in A => A # {}
        OBVIOUS
      <4> QED BY <1>9, <1>18, <1>20, <3>2, <4>1, <4>2
    <3> QED BY <2>0, <3>2
  <2> QED BY <1>12, <1>13, <2>1, <2>2, <2>3, <2>4, <2>5 DEF Accord
<1> QED BY <1>6, <1>19, <1>20

\* A tracker starts with no record, no word and nothing waiting.
LEMMA AccordBegins ==
  ASSUME TrackerInit
  PROVE  Accord
<1>1. /\ sink = Genesis /\ Genesis \in Blocks /\ Genesis # None /\ None \notin Blocks /\ up /\ ~reconn /\ ~again /\ page = None /\ mpos = Genesis
      /\ \A t \in Txids : rec[t] = None
      /\ cursor \in {None, Genesis} /\ off = {} /\ \A t \in Messages : memory[t] = None
      /\ ~frozen /\ walk.pc = "page" /\ walk.at = cursor /\ walk.clean /\ fold = NoFold /\ Coming = <<>>
      /\ Messages \subseteq Txids
  BY ChainIsATree DEF TrackerInit, Begun, NoWalk, Coming
<1>2. /\ fold.by = "none" /\ fold.added = {} /\ fold.todo = {} /\ fold.complete
      /\ Paging /\ ~InGap /\ WalksTo = cursor /\ (InWalk <=> cursor # None)
      /\ \A b : (OnWalk(b) <=> OnCursor(b)) /\ ~Told(b) /\ ~Pending(b)
  <2>1. \A i \in 1..Len(Coming) : FALSE
    BY <1>1
  <2> QED BY <1>1, <2>1 DEF NoFold, Paging, InGap, WalksTo, InWalk, OnWalk, OnCursor, Told, Pending, ToldIn, NamedIn
<1>3. LoopPart
  BY <1>1, <1>2, ChainFacts DEF LoopPart, Paging
<1>4. QueuePart /\ FoldPart /\ DownPart
  BY <1>1, <1>2 DEF QueuePart, InOrder, FoldPart, DownPart
<1>5. \A t \in Txids : ~IsAccepted(t) /\ ~IsFinal(t) /\ \A b : ~Here(t, b) /\ ~Unsettled(t, b)
  BY <1>1 DEF IsAccepted, IsFinal, Here, Unsettled
<1>6. StalePart /\ CleanPart /\ FinalPart
  BY <1>1, <1>5 DEF StalePart, CleanPart, FinalPart, Recalls
<1>7. PagePart /\ WordPart
  BY <1>1, <1>2, NothingBefore DEF PagePart, WordPart
<1>8. CursorPart /\ OffPart
  BY <1>1, <1>2 DEF CursorPart, OffPart
<1>9. SettlePart /\ CoverPart
  BY <1>5 DEF SettlePart, CoverPart, Sends
<1> QED BY <1>3, <1>4, <1>6, <1>7, <1>8, <1>9 DEF Accord

\* What was cut off, or missed by a fold, stays so: no step takes it back.
LEMMA NothingIsTakenBack ==
  ASSUME TrackerIInv, TrackerNext
  PROVE  ~torn' /\ ~missed' => ~torn /\ ~missed
<1> USE DEF hist
<1>1. CASE TakesBatch \/ FoldBlock \/ FoldLive \/ HoldsBack \/ FoldWalk
  BY <1>1 DEF TakesBatch, FoldBegins, on_removed, FoldBlock, FoldLive, HoldsBack, FoldWalk
<1>2. CASE WalkSeeds \/ WalkPage \/ WalkUnanswered \/ WalkFolded \/ WalkEnds \/ TakesConnected \/ TickWalks
  BY <1>2 DEF WalkSeeds, WalkPage, WalkUnanswered, WalkFolded, WalkEnds, TakesConnected, TickWalks, FoldBegins, on_removed, Reseeds
<1>3. CASE \E t \in Txids : WatchSend(t) \/ WatchMessage(t) \/ DropWatch(t) \/ TickElapses(t)
  BY <1>3 DEF WatchSend, WatchMessage, DropWatch, TickElapses
<1>4. CASE PageAnswered \/ PageFed \/ on_sink_blue \/ PrimesScore \/ SinkMoves \/ Drops \/ Connects \/ TrackerDies
  BY <1>4 DEF PageAnswered, PageFed, on_sink_blue, PrimesScore, SinkMoves, Drops, Connects, TrackerDies
<1> QED BY <1>1, <1>2, <1>3, <1>4 DEF TrackerNext, Task

\* Every step keeps the records' accord with the chain.
LEMMA AccordKept ==
  ASSUME TrackerIInv, AccordInv, [TrackerNext]_tracker_vars
  PROVE  AccordInv'
<1> SUFFICES ASSUME ~torn', ~missed' PROVE Accord'
  BY DEF AccordInv
<1>1. TrackerIInv'
  BY TrackerKept
<1>2. ~torn /\ ~missed
  BY NothingIsTakenBack DEF tracker_vars, hist
<1>3. Onward
  BY <1>1, <1>2 DEF Onward, AccordInv
<1>4. CASE Task
  BY <1>3, <1>4, TakesBatchAccord, FoldBlockAccord, FoldLiveAccord, QuietStepsAccord, FoldWalkAccord,
     WalkSeedsAccord, WalkPageAccord, WalkUnansweredAccord, WalkFoldedAccord, LoopTurnsAccord DEF Task
<1>5. CASE \E t \in Txids : WatchSend(t) \/ WatchMessage(t) \/ DropWatch(t) \/ TickElapses(t)
  BY <1>3, <1>5, WatchSendAccord, WatchMessageAccord, DropWatchAccord, QuietStepsAccord
<1>6. CASE TickWalks \/ PageAnswered \/ PageFed
  BY <1>3, <1>6, LoopTurnsAccord, PageAnsweredAccord, PageFedAccord
<1>7. CASE on_sink_blue \/ PrimesScore \/ SinkMoves \/ Drops \/ Connects \/ TrackerDies \/ UNCHANGED tracker_vars
  BY <1>3, <1>7, SinkBlueAccord, QuietStepsAccord, SinkMovesAccord, DropsAccord, ConnectsAccord, TrackerDiesAccord
<1> QED BY <1>4, <1>5, <1>6, <1>7 DEF TrackerNext

\* With nothing left to fold, nothing is told, awaited or owed.
LEMMA NothingIsLeft ==
  ASSUME TrackerIInv, Accord, Quiet, ~frozen
  PROVE  /\ ~Paging /\ ~InWalk /\ ~Owing /\ fold = NoFold
         /\ \A b : ~Told(b) /\ ~Pending(b) /\ ~AwaitsPage(b)
<1>1. /\ up /\ ~reconn /\ walk.pc = "off" /\ fold.by = "none" /\ page = None /\ Coming = <<>>
  BY DEF Quiet, Walking, Coming
<1>2. ~Paging /\ ~InWalk /\ ~InGap /\ fold = NoFold
  BY <1>1 DEF Accord, LoopPart, Paging, InWalk, InGap
<1>3. \A i \in 1..Len(Coming) : FALSE
  BY <1>1
<1> QED BY <1>1, <1>2, <1>3 DEF Owing, NoFold, Told, Pending, AwaitsPage, ToldIn, NamedIn

\* With nothing left to fold, no record calls accepted what left the chain, and no
\* send or message whose block is on the chain is without its acceptance, whatever
\* order live batches, the walk's pages, the message walk's word, restarts and
\* watches came in (on_removed, on_accepted, walk_accepted, run).
THEOREM TrackerAgrees == TrackerSpec => []AgreesWithChain
<1> DEFINE Inv == TrackerIInv /\ AccordInv
<1>1. TrackerInit => Inv
  BY TrackerBegins, AccordBegins DEF AccordInv
<1>2. Inv /\ [TrackerNext]_tracker_vars => Inv'
  BY TrackerKept, AccordKept
<1>3. Inv => AgreesWithChain
  <2> SUFFICES ASSUME TrackerIInv, AccordInv, Quiet, ~torn, ~missed, ~frozen
               PROVE  /\ \A t \in Txids : IsAccepted(t) \/ IsFinal(t) => rec[t].at \in Chain[sink]
                      /\ \A t \in Sends \ late : Settled(t)
                      /\ mpos = sink => \A t \in Messages : rec[t] # None /\ (\E b \in Chain[sink] : t \in Accepts[b]) => rec[t].st # "submitted"
    BY DEF AgreesWithChain, NoStaleAcceptance, SendsSettle, MessagesSettle
  <2>1. Accord /\ ~Paging /\ ~InWalk /\ ~Owing /\ fold = NoFold /\ \A b : ~Told(b) /\ ~Pending(b) /\ ~AwaitsPage(b)
    BY NothingIsLeft DEF AccordInv
  <2>2. /\ fold.by = "none" /\ fold.added = {} /\ fold.todo = {} /\ Messages \subseteq Txids
        /\ sink \in Blocks /\ Chain[sink] \subseteq Blocks
    BY <2>1, PartsOfTracker, ChainFacts DEF NoFold, OtherTypes, Shapes
  <2>3. \A t \in Txids : IsAccepted(t) \/ IsFinal(t) => rec[t].at \in Chain[sink]
    BY <2>1 DEF Accord, StalePart, FinalPart, Excused, OnSink
  <2>4. ASSUME NEW t \in Txids, NEW b \in Chain[sink] PROVE ~Unsettled(t, b)
    BY <2>1, <2>2 DEF Accord, SettlePart, OnSink
  <2>5. \A t \in Sends \ late : Settled(t)
    BY <2>4 DEF Settled, Unsettled, Here, IsAccepted, Sends
  <2>6. mpos = sink => \A t \in Messages : rec[t] # None /\ (\E b \in Chain[sink] : t \in Accepts[b]) => rec[t].st # "submitted"
    BY <2>1, <2>2, <2>4 DEF Unsettled
  <2> QED BY <2>3, <2>5, <2>6
<1> QED BY <1>1, <1>2, <1>3, PTL DEF TrackerSpec

\* With nothing left to fold and no cursor owed, the cursor on disk covers the block
\* of every send that is accepted: the walk a restart begins there would see it leave
\* (write_cursor, its throttle, and the holds of run()).
THEOREM CursorIsCovering == TrackerSpec => []CursorCovers
<1> DEFINE Inv == TrackerIInv /\ AccordInv
<1>1. TrackerInit => Inv
  BY TrackerBegins, AccordBegins DEF AccordInv
<1>2. Inv /\ [TrackerNext]_tracker_vars => Inv'
  BY TrackerKept, AccordKept
<1>3. Inv => CursorCovers
  <2> SUFFICES ASSUME TrackerIInv, AccordInv, Quiet, ~torn, ~missed, ~frozen, ~owed, NEW t \in Sends, IsAccepted(t)
               PROVE  cursor # None /\ rec[t].at \in Chain[cursor]
    BY DEF CursorCovers
  <2>1. Accord /\ ~Paging /\ fold = NoFold /\ \A b : ~Told(b)
    BY NothingIsLeft DEF AccordInv
  <2>2. fold.by = "none" /\ fold.complete
    BY <2>1 DEF NoFold
  <2>3. rec[t].at \in Blocks /\ Here(t, rec[t].at)
    BY <2>1 DEF Accord, StalePart, Here, Sends
  <2>4. OnCursor(rec[t].at)
    BY <2>1, <2>2, <2>3 DEF Accord, CoverPart
  <2> QED BY <2>4 DEF OnCursor
<1> QED BY <1>1, <1>2, <1>3, PTL DEF TrackerSpec
=============================================================================
