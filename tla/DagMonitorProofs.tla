-------------------------- MODULE DagMonitorProofs --------------------------
(***************************************************************************)
(* Proofs about the wallet's one link, for any nodes, number of sockets at *)
(* a time, gestures and limits of the hunt. The inductive invariant        *)
(* follows the one life of a bind that nobody pinned, from the race's own  *)
(* dial to its fall, ties the mode of the race to the link it was made     *)
(* for, and counts the silence swaps with the backoff.                     *)
(***************************************************************************)
EXTENDS DagMonitor, WellFoundedInduction, SequenceTheorems, TLAPS

USE DEF gestures, ledger, Gens, Link

----------------------------------------------------------------------------
(* The inductive invariant *)

\* The installed bind: it is no free slot, it was told whether to dial again by
\* whether a node is pinned, and its swap stage falls with its silence stage.
Bind == binds[bound]
BoundPart ==
  /\ connected => bound # 0 /\ Bind.announced
  /\ bound # 0 => Bind.sock # "free" /\ Bind.url \in Nodes
                  /\ (Bind.retry <=> pin # None) /\ (Bind.swapDue => Bind.fired)

\* A socket that came up and is not heard yet.
Coming == Bind.ctl \in {<<"up">>, <<"up", "down">>}

\* The one life of a bind that nobody pinned: it dials in the race's own dial,
\* comes up once, is published once, and falls once.
LifePart ==
  bound # 0 /\ pin = None =>
    /\ Bind.ctl \in {<<>>, <<"up">>, <<"down">>, <<"up", "down">>}
    /\ Bind.sock = "up" => Bind.ctl \in {<<>>, <<"up">>}
    /\ Bind.sock = "dialing" => Bind.ctl = <<>> /\ race.pc = "dial"
    /\ Coming \/ Bind.sock = "dialing" => Bind.task = "idle" /\ ~connected
    /\ Bind.task = "publishing" => ~connected
    /\ ~connected => /\ ~Bind.announced /\ ~Bind.moved
                     /\ \/ Bind.sock = "dialing" \/ Coming
                        \/ Bind.task = "publishing" \/ Bind.deaf
    /\ race.pc = "dial" => race.dial = bound /\ (Bind.rose <=> Bind.sock # "dialing")

\* The app's last word was pause: nothing is installed, and a repin under way
\* will leave it so.
AwayPart ==
  away => paused /\ bound = 0 /\ ~connected /\ (repin.pc = "swapped" => repin.was \/ repin.hit)

\* What the backoff counts is what landed, and at its limit no hunt is silent.
SwapPart == landed = backoff /\ (backoff = 2 => race.mode.why # "silent")

\* A node the hunt must not install: the one it was asked to leave.
Leaves(m) == m.why \in {"asked", "silent"} \/ (m.why = "moved" /\ m.tapped)

\* The hunt's mode speaks of the link it was made for, its empty rounds are
\* under its limit unless its next head recasts it, and it probes no node it leaves.
RacePart ==
  /\ race.pc \in {"off", "dial"} => race.mode.why = "cold"
  /\ race.mode.tap => race.mode.why \in {"silent", "moved"}
  /\ race.mode.tapped => race.mode.why = "moved"
  /\ race.pc = "dial" => race.dial # 0
  /\ race.mode.why = "cold" => race.empty <= Stranded
  /\ race.mode.why # "cold" =>
       /\ race.empty <= Rounds
       /\ race.empty = Rounds => race.pc = "head"
       /\ pin = None /\ connected => Bind.url = race.mode.from /\ (race.mode.why = "silent" => bound = race.mode.gen)
       /\ pin = None /\ ~connected => bound = 0
       /\ pin = None /\ connected /\ race.empty = Rounds => IsJoined(race.mode) \/ IsRecast(race.mode)
  /\ race.mode.why = "silent" => race.mode.gen # 0
  /\ race.pc = "round" /\ Leaves(race.mode) => race.mode.from \in race.excluded
  /\ race.pc = "hold" => race.winner \in Nodes /\ (Leaves(race.mode) => race.winner # race.mode.from)

\* A dark wallet with nothing installed is hunted for.
HuntPart == ~paused /\ pin = None /\ ~connected /\ bound = 0 /\ repin.pc = "off" => race.pc # "off"

\* The inductive invariant: what the steps keep together.
IInv ==
  /\ TypeOK /\ BoundPart /\ LifePart /\ AwayPart /\ SwapPart /\ RacePart /\ HuntPart

----------------------------------------------------------------------------
(* Least and greatest of a few numbers *)

\* Of a set of numbers that is not empty there is a least one.
LEMMA NatMin ==
  ASSUME NEW S \in SUBSET Nat, S # {}
  PROVE  Min(S) \in S
<1>1. IsWellFoundedOn(OpToRel(<,Nat), Nat)
  BY NatLessThanWellFounded
<1>2. PICK x \in S : \A y \in S : <<y, x>> \notin OpToRel(<,Nat)
  BY <1>1, WFMin, Zenon
<1>3. ASSUME NEW y \in S PROVE x <= y
  <2>1. <<y, x>> \notin OpToRel(<,Nat)
    BY <1>2
  <2> QED BY <2>1 DEF OpToRel
<1> QED BY <1>3 DEF Min

\* The least of two numbers.
LEMMA MinOfTwo ==
  ASSUME NEW a \in Nat, NEW b \in Nat
  PROVE  Min({a, b}) = IF a <= b THEN a ELSE b
<1> DEFINE S == {a, b}
           m == IF a <= b THEN a ELSE b
<1>1. m \in S /\ \A y \in S : m <= y
  OBVIOUS
<1>2. \A x \in S : (\A y \in S : x <= y) => x = m
  OBVIOUS
<1> QED BY <1>1, <1>2 DEF Min

\* The greatest of two numbers.
LEMMA MaxOfTwo ==
  ASSUME NEW a \in Nat, NEW b \in Nat
  PROVE  Max({a, b}) = IF a >= b THEN a ELSE b
<1> DEFINE S == {a, b}
           m == IF a >= b THEN a ELSE b
<1>1. m \in S /\ \A y \in S : m >= y
  OBVIOUS
<1>2. \A x \in S : (\A y \in S : x >= y) => x = m
  OBVIOUS
<1> QED BY <1>1, <1>2 DEF Max

\* The cap of a race's empty rounds covers both of its limits.
LEMMA Limits ==
  /\ Rounds \in Nat \ {0} /\ Stranded \in Nat \ {0} /\ Max({Rounds, Stranded}) \in Nat
  /\ \A n \in Nat : n <= Rounds \/ n <= Stranded => n \in 0..Max({Rounds, Stranded})
BY MaxOfTwo, DagMonitorAssumption

\* Time passes to a level of silence.
LEMMA QuieterType ==
  ASSUME NEW q \in 0..WatchdogStall, q < WatchdogStall, backoff \in 0..2
  PROVE  Quieter(q) \in 0..WatchdogStall
<1> DEFINE S == {l \in {PredialAfter, SilenceDeadline, Deadline, WatchdogStall} \ {None} : l > q}
<1>1. None # 5
  BY DagMonitorAssumption
<1>2. S \subseteq 0..5 /\ 5 \in S
  BY <1>1 DEF PredialAfter, SilenceDeadline, Deadline, WatchdogStall
<1>3. S \in SUBSET Nat /\ S # {}
  BY <1>2
<1>4. Min(S) \in S
  BY <1>3, NatMin
<1> QED BY <1>2, <1>4 DEF Quieter, WatchdogStall

\* A fall after a rise, as a bind's channel holds them.
LEMMA TwoEvents ==
  ASSUME NEW y \in Seq({"up", "down"}), y = <<"up">>
  PROVE  Append(y, "down") = <<"up", "down">>
<1> DEFINE z == Append(y, "down")
<1>1. Len(y) = 1 /\ y[1] = "up"
  OBVIOUS
<1>2. z \in Seq({"up", "down"})
  OBVIOUS
<1>3. Len(z) = Len(y) + 1
  OBVIOUS
<1>4. z[2] = "down"
  BY <1>1, AppendProperties
<1>5. z[1] = "up"
  BY <1>1, AppendProperties
<1> HIDE DEF z
<1>6. Len(z) = 2
  BY <1>1, <1>3
<1>7. z = <<"up", "down">>
  BY <1>2, <1>4, <1>5, <1>6
<1> QED BY <1>7 DEF z

----------------------------------------------------------------------------
(* Binds and races as records *)

\* The fields of a bind have their types, and a free slot is a bind.
LEMMA BindTypes ==
  /\ Free \in Binds
  /\ \A b \in Binds :
       /\ b.url \in Nodes \cup {None} /\ b.sock \in {"free", "dialing", "up", "down"}
       /\ b.retry \in BOOLEAN /\ b.announced \in BOOLEAN /\ b.quiet \in 0..WatchdogStall
       /\ b.predialed \in BOOLEAN /\ b.fired \in BOOLEAN /\ b.swapDue \in BOOLEAN
       /\ b.moved \in BOOLEAN /\ b.ctl \in Seq({"up", "down"}) /\ b.task \in {"idle", "publishing"}
       /\ b.rose \in BOOLEAN /\ b.deaf \in BOOLEAN
BY DEF Free, Binds, WatchdogStall

\* A free slot with some fields of its own is a bind.
LEMMA FreeWith ==
  ASSUME NEW t \in {"idle", "publishing"}, NEW o \in BOOLEAN,
         NEW s \in {"free", "dialing", "up", "down"}, NEW c \in Seq({"up", "down"})
  PROVE  [Free EXCEPT !.task = t, !.rose = o, !.sock = s, !.ctl = c] \in Binds
<1>1. <<>> \in Seq({"up","down"}) /\ 0 \in 0..WatchdogStall
  BY DEF WatchdogStall
<1>2. [Free EXCEPT !.task = t, !.rose = o, !.sock = s, !.ctl = c]
        \in [url : Nodes \cup {None}, sock : {"free", "dialing", "up", "down"},
             retry : BOOLEAN, announced : BOOLEAN, quiet : 0..WatchdogStall, predialed : BOOLEAN,
             fired : BOOLEAN, swapDue : BOOLEAN, moved : BOOLEAN, ctl : Seq({"up", "down"}),
             task : {"idle", "publishing"}, rose : BOOLEAN, deaf : BOOLEAN]
  BY <1>1 DEF Free
<1> QED BY <1>2 DEF Binds

\* What is left of a bind that leaves is a bind.
LEMMA RetiredTypes ==
  ASSUME NEW b \in Binds
  PROVE  Exits(b) \in Binds /\ Retired(b) \in Binds
<1>1. ASSUME NEW x \in Binds PROVE Exits(x) \in Binds
  <2>1. <<>> \in Seq({"up","down"}) /\ 0 \in 0..WatchdogStall /\ x.rose \in BOOLEAN
    BY BindTypes DEF WatchdogStall
  <2>2. [Free EXCEPT !.rose = x.rose]
          \in [url : Nodes \cup {None}, sock : {"free", "dialing", "up", "down"},
               retry : BOOLEAN, announced : BOOLEAN, quiet : 0..WatchdogStall, predialed : BOOLEAN,
               fired : BOOLEAN, swapDue : BOOLEAN, moved : BOOLEAN, ctl : Seq({"up", "down"}),
               task : {"idle", "publishing"}, rose : BOOLEAN, deaf : BOOLEAN]
    BY <2>1 DEF Free
  <2>3. Exits(x) \in {x, [Free EXCEPT !.rose = x.rose]}
    BY DEF Exits
  <2> QED BY <2>2, <2>3 DEF Binds
<1> DEFINE s == IF b.sock = "up" THEN "down" ELSE b.sock
           c == IF b.sock = "up" THEN Append(b.ctl, "down") ELSE b.ctl
           x == [Free EXCEPT !.task = b.task, !.rose = b.rose, !.sock = s, !.ctl = c]
<1>2. s \in {"free", "dialing", "up", "down"} /\ c \in Seq({"up", "down"})
      /\ b.task \in {"idle", "publishing"} /\ b.rose \in BOOLEAN
  BY BindTypes
<1>5. Retired(b) = Exits(x)
  BY DEF Retired
<1> HIDE DEF s, c
<1>3. x \in Binds
  BY <1>2, FreeWith
<1>4. Exits(x) \in Binds
  BY <1>1, <1>3
<1> QED BY <1>1, <1>4, <1>5

\* The fields of a race and of its mode.
LEMMA RaceTypes ==
  ASSUME NEW r \in Races
  PROVE  /\ r.pc \in {"off", "head", "round", "hold", "dial"} /\ r.mode \in Modes
         /\ r.empty \in 0..Max({Rounds, Stranded}) /\ r.empty \in Nat
         /\ r.excluded \subseteq Nodes \cup {None} /\ r.advisory \in BOOLEAN
         /\ r.winner \in Nodes \cup {None} /\ r.dial \in 0..MaxGen
         /\ r.mode.why \in {"cold", "asked", "silent", "moved"} /\ r.mode.from \in Nodes \cup {None}
         /\ r.mode.gen \in 0..MaxGen /\ r.mode.tapped \in BOOLEAN /\ r.mode.tap \in BOOLEAN
         /\ r.mode.spoke \in BOOLEAN
<1>1. r.mode \in Modes /\ r.empty \in 0..Max({Rounds, Stranded})
  BY DEF Races
<1>2. r.empty \in Nat
  BY <1>1, Limits
<1> QED BY <1>1, <1>2 DEF Races, Modes

\* No race, and one that starts cold.
LEMMA ColdRaces ==
  /\ Cold \in Modes /\ NoRace \in Races /\ [NoRace EXCEPT !.pc = "head", !.mode = Cold] \in Races
  /\ NoRace.pc = "off" /\ NoRace.mode = Cold /\ NoRace.empty = 0
  /\ Cold.why = "cold" /\ Cold.tap = FALSE /\ Cold.tapped = FALSE
<1>1. Cold \in Modes
  BY DagMonitorAssumption DEF Cold, Modes
<1>2. 0 \in 0..Max({Rounds, Stranded}) /\ 0 \in 0..MaxGen
  BY Limits, DagMonitorAssumption
<1>3. NoRace \in Races
  BY <1>1, <1>2 DEF NoRace, Races
<1> QED BY <1>1, <1>3 DEF NoRace, Races, Cold

\* The types the steps use, one by one.
LEMMA Types ==
  ASSUME IInv
  PROVE  /\ TypeOK /\ BoundPart /\ LifePart /\ AwayPart /\ SwapPart /\ RacePart /\ HuntPart
         /\ race \in Races /\ binds \in [Gens -> Binds] /\ MaxGen \in Nat \ {0}
         /\ paused \in BOOLEAN /\ connected \in BOOLEAN /\ bound \in 0..MaxGen
         /\ (bound # 0 => bound \in Gens /\ binds[bound] \in Binds)
<1>1. TypeOK /\ BoundPart /\ LifePart /\ AwayPart /\ SwapPart /\ RacePart /\ HuntPart
  BY DEF IInv
<1>2. race \in Races /\ binds \in [Gens -> Binds] /\ MaxGen \in Nat \ {0}
      /\ paused \in BOOLEAN /\ connected \in BOOLEAN /\ bound \in 0..MaxGen
  BY <1>1, DagMonitorAssumption DEF TypeOK
<1> QED BY <1>1, <1>2

----------------------------------------------------------------------------
(* What the parts of the invariant make of the steps' common shapes *)

\* A link that goes dark has no bind to speak of.
LEMMA DarkLink ==
  ASSUME bound' = 0, connected' = FALSE
  PROVE  BoundPart' /\ LifePart'
BY DEF BoundPart, LifePart

\* A link that stays, under a race that dials no more and no less than before.
LEMMA LinkFrame ==
  ASSUME BoundPart, LifePart, UNCHANGED <<connected, bound, pin>>,
         bound # 0 => binds'[bound] = binds[bound],
         bound # 0 /\ pin = None /\ binds[bound].sock = "dialing" => race'.pc = "dial",
         race'.pc = "dial" => race.pc = "dial" /\ race'.dial = race.dial
  PROVE  BoundPart' /\ LifePart'
BY DEF BoundPart, LifePart, Coming, Bind

\* A race that stays keeps its part when the link went dark, when a node is
\* pinned, and when the link it was made for stayed or was marked as moved.
LEMMA RaceStill ==
  ASSUME RacePart, race' = race, race \in Races,
         \/ bound' = 0 /\ connected' = FALSE
         \/ pin' # None
         \/ /\ UNCHANGED <<pin, connected, bound>>
            /\ bound # 0 => binds'[bound].url = binds[bound].url
                            /\ (binds[bound].moved => binds'[bound].moved)
            /\ connected => bound # 0
  PROVE  RacePart'
<1> DEFINE m == race.mode
<1>1. race'.mode = m /\ race'.pc = race.pc /\ race'.empty = race.empty /\ race'.dial = race.dial
      /\ race'.excluded = race.excluded /\ race'.winner = race.winner
  OBVIOUS
<1>2. Leaves(m)' <=> Leaves(m)
  BY DEF Leaves
<1>3. IsJoined(m)' <=> IsJoined(m)
  BY DEF IsJoined
<1>4. pin' = None /\ connected' => connected /\ pin = None /\ bound' = bound /\ binds'[bound].url = binds[bound].url
                                   /\ (IsRecast(m) => IsRecast(m)')
  BY DEF IsRecast, Moved
<1>5. pin' = None /\ ~connected' => bound' = 0 \/ (pin = None /\ ~connected /\ bound' = bound)
  OBVIOUS
<1> QED BY <1>1, <1>2, <1>3, <1>4, <1>5 DEF RacePart, Bind

\* A race with a cold mode has little to keep.
LEMMA RaceCold ==
  ASSUME race'.mode = Cold, race'.empty = 0, race'.pc \in {"off", "head", "dial"},
         race'.pc = "dial" => race'.dial # 0
  PROVE  RacePart'
<1>1. 0 <= Stranded
  BY Limits
<1> QED BY <1>1, ColdRaces DEF RacePart, Leaves

\* A cold search is asked for: the one that runs goes on, or a new one starts.
LEMMA SpawnedCold ==
  ASSUME race \in Races, race' = Spawned(Cold)
  PROVE  /\ race' \in Races
         /\ \/ race' = race
            \/ race.pc = "off" /\ race'.pc = "head" /\ race'.mode = Cold /\ race'.empty = 0
         /\ pin = None => race'.pc # "off"
<1>1. race' = race \/ (race.pc = "off" /\ race' = [NoRace EXCEPT !.pc = "head", !.mode = Cold])
  BY DEF Spawned
<1>2. CASE race' = race
  BY <1>2 DEF Spawned
<1>3. CASE race.pc = "off" /\ race' = [NoRace EXCEPT !.pc = "head", !.mode = Cold]
  BY <1>3, ColdRaces DEF NoRace
<1> QED BY <1>1, <1>2, <1>3

\* A swap is asked for behind a live link: the race that runs goes on, or a
\* hunt starts whose mode speaks of this link.
LEMMA SpawnedSwap ==
  ASSUME IInv, NEW why \in {"asked", "silent", "moved"}, connected, race' = Spawned(Swap(why))
  PROVE  /\ race' \in Races
         /\ \/ race' = race
            \/ /\ race.pc = "off" /\ pin = None
               /\ race'.pc = "head" /\ race'.empty = 0
               /\ race'.mode.why = why /\ race'.mode.from = binds[bound].url
               /\ ~race'.mode.tap /\ ~race'.mode.tapped
               /\ (why = "silent" => race'.mode.gen = bound)
<1>1. race \in Races /\ BoundPart /\ bound \in Gens /\ bound \in 0..MaxGen /\ binds[bound].url \in Nodes
  BY Types DEF BoundPart, Bind
<1> DEFINE m == Swap(why)
<1>2. m \in Modes /\ m.why = why /\ m.from = binds[bound].url /\ ~m.tap /\ ~m.tapped
      /\ (why = "silent" => m.gen = bound)
  <2>1. 0 \in 0..MaxGen
    BY DagMonitorAssumption
  <2> QED BY <1>1, <2>1 DEF Swap, Cold, Modes
<1> HIDE DEF m
<1> DEFINE r == [NoRace EXCEPT !.pc = "head", !.mode = m]
<1>3. r \in Races /\ r.pc = "head" /\ r.empty = 0 /\ r.mode = m
  BY <1>2, ColdRaces DEF NoRace, Races
<1>4. race' = race \/ (race.pc = "off" /\ pin = None /\ race' = r)
  BY DEF Spawned, m
<1> HIDE DEF r
<1> QED BY <1>1, <1>2, <1>3, <1>4

\* The hunt a swap starts keeps the race's part.
LEMMA SwapStarts ==
  ASSUME BoundPart, race' \in Races, race'.pc = "head", race'.empty = 0, connected, UNCHANGED <<connected, bound>>,
         race'.mode.why \in {"asked", "silent", "moved"}, ~race'.mode.tap, ~race'.mode.tapped,
         race'.mode.from = binds'[bound].url, race'.mode.why = "silent" => race'.mode.gen = bound
  PROVE  RacePart'
<1>1. 0 # Rounds /\ 0 <= Rounds /\ bound # 0
  BY Limits DEF BoundPart
<1> QED BY <1>1 DEF RacePart, Bind

\* What the backoff and the landed swaps keep when neither moves.
LEMMA SwapStill ==
  ASSUME SwapPart, UNCHANGED <<landed, backoff>>, race'.mode.why = "silent" => race.mode.why = "silent" \/ backoff # 2
  PROVE  SwapPart'
BY DEF SwapPart

----------------------------------------------------------------------------
(* Retirements and installs *)

\* Whatever is installed leaves, and the other binds stay.
LEMMA RetireTypes ==
  ASSUME IInv, RetireBind
  PROVE  bound' = 0 /\ connected' = FALSE /\ binds' \in [Gens -> Binds]
<1>1. ASSUME bound # 0 PROVE Retired(binds[bound]) \in Binds
  BY <1>1, Types, RetiredTypes
<1> QED BY <1>1, Types DEF RetireBind

\* An install takes a slot nothing speaks of, publishes it dark, with a dial of
\* its own that has not risen, and counts a silence swap.
LEMMA InstallFacts ==
  ASSUME IInv, NEW url \in Nodes, NEW retry \in BOOLEAN, NEW why, InstallBind(url, retry, why)
  PROVE  /\ bound' \in Gens /\ bound' # 0 /\ bound' # bound /\ connected' = FALSE
         /\ binds' \in [Gens -> Binds]
         /\ binds'[bound'].url = url /\ binds'[bound'].sock = "dialing"
         /\ (binds'[bound'].retry <=> retry) /\ ~binds'[bound'].swapDue
         /\ binds'[bound'].ctl = <<>> /\ binds'[bound'].task = "idle" /\ ~binds'[bound'].rose
         /\ ~binds'[bound'].announced /\ ~binds'[bound'].moved
         /\ backoff' = (IF why = "silence-swap" /\ bound # 0 THEN Min({2, backoff + 1}) ELSE backoff)
         /\ landed' = (IF why = "silence-swap" /\ bound # 0 THEN Min({3, landed + 1}) ELSE landed)
<1> DEFINE n == [Free EXCEPT !.url = url, !.sock = "dialing", !.retry = retry]
<1>1. PICK g \in Unused :
        /\ bound' = g /\ connected' = FALSE
        /\ binds' = [h \in Gens |-> IF h = g THEN n
                                    ELSE IF h = bound THEN Retired(binds[h]) ELSE binds[h]]
        /\ backoff' = (IF why = "silence-swap" /\ bound # 0 THEN Min({2, backoff + 1}) ELSE backoff)
        /\ landed' = (IF why = "silence-swap" /\ bound # 0 THEN Min({3, landed + 1}) ELSE landed)
  BY DEF InstallBind, CountSwap
<1>2. g \in Gens /\ g # 0 /\ binds[g].sock = "free"
  BY DEF Unused
<1>3. g # bound
  BY <1>2, Types DEF BoundPart, Bind
<1>4. <<>> \in Seq({"up","down"}) /\ 0 \in 0..WatchdogStall
  BY DEF WatchdogStall
<1>5. /\ n \in [url : Nodes \cup {None}, sock : {"free", "dialing", "up", "down"},
             retry : BOOLEAN, announced : BOOLEAN, quiet : 0..WatchdogStall, predialed : BOOLEAN,
             fired : BOOLEAN, swapDue : BOOLEAN, moved : BOOLEAN, ctl : Seq({"up", "down"}),
             task : {"idle", "publishing"}, rose : BOOLEAN, deaf : BOOLEAN]
      /\ n.url = url /\ n.sock = "dialing" /\ (n.retry <=> retry) /\ ~n.swapDue
      /\ n.ctl = <<>> /\ n.task = "idle" /\ ~n.rose /\ ~n.announced /\ ~n.moved
  BY <1>4 DEF Free
<1>6. n \in Binds
  BY <1>5 DEF Binds
<1> HIDE DEF n
<1>7. ASSUME NEW h \in Gens PROVE Retired(binds[h]) \in Binds /\ binds[h] \in Binds
  BY Types, RetiredTypes
<1>8. binds' \in [Gens -> Binds]
  BY <1>1, <1>6, <1>7
<1>9. binds'[g] = n
  BY <1>1, <1>2
<1> QED BY <1>1, <1>2, <1>3, <1>5, <1>8, <1>9

\* The parts of the invariant that a relink keeps, with the types it touches.
Linked ==
  /\ BoundPart /\ LifePart /\ SwapPart /\ RacePart
  /\ (pin = None => race.pc # "off")
  /\ race \in Races /\ binds \in [Gens -> Binds]
  /\ bound \in 0..MaxGen /\ connected \in BOOLEAN /\ backoff \in 0..2 /\ landed \in 0..3

\* A pinned wallet relinks by installing its node.
LEMMA PinInstall ==
  ASSUME IInv, NEW why, why # "silence-swap", pin # None, InstallBind(pin, TRUE, why),
         race' = race, pin' = pin
  PROVE  Linked'
<1>1. pin \in Nodes /\ backoff \in 0..2 /\ landed \in 0..3 /\ race \in Races
  BY Types DEF TypeOK
<1>2. /\ bound' \in Gens /\ bound' # 0 /\ connected' = FALSE /\ binds' \in [Gens -> Binds]
      /\ binds'[bound'].url = pin /\ binds'[bound'].sock = "dialing"
      /\ binds'[bound'].retry /\ ~binds'[bound'].swapDue
      /\ backoff' = backoff /\ landed' = landed
  BY <1>1, InstallFacts
<1>3. BoundPart' /\ LifePart'
  BY <1>1, <1>2 DEF BoundPart, LifePart, Bind
<1>4. RacePart'
  BY <1>1, Types, RaceStill
<1>5. SwapPart'
  BY <1>2, Types, SwapStill
<1>6. bound' \in 0..MaxGen
  BY <1>2, DagMonitorAssumption
<1> QED BY <1>1, <1>2, <1>3, <1>4, <1>5, <1>6 DEF Linked

\* A wallet that is not pinned relinks by asking for a search behind the link
\* it has, which is no dial of another race.
LEMMA SearchBehind ==
  ASSUME IInv, UNCHANGED <<bound, connected, binds, backoff, landed, pin>>, pin = None, race' = Spawned(Cold)
  PROVE  Linked'
<1>1. race \in Races /\ backoff \in 0..2 /\ landed \in 0..3 /\ BoundPart /\ LifePart /\ SwapPart /\ RacePart
  BY Types DEF TypeOK
<1>2. /\ race' \in Races /\ race'.pc # "off"
      /\ \/ race' = race
         \/ race.pc = "off" /\ race'.pc = "head" /\ race'.mode = Cold /\ race'.empty = 0
  BY <1>1, SpawnedCold
<1>3. RacePart'
  <2>1. CASE race' = race
    BY <2>1, <1>1, RaceStill DEF BoundPart
  <2>2. CASE race'.pc = "head" /\ race'.mode = Cold /\ race'.empty = 0
    BY <2>2, RaceCold
  <2> QED BY <1>2, <2>1, <2>2
<1>4. BoundPart' /\ LifePart'
  BY <1>1, <1>2, LinkFrame DEF LifePart, Bind
<1>5. SwapPart'
  BY <1>1, <1>2, ColdRaces, SwapStill
<1> QED BY <1>1, <1>2, <1>3, <1>4, <1>5, Types DEF Linked

\* A wallet that lost its link asks for a search, or goes on with the one it has.
LEMMA SearchDark ==
  ASSUME IInv, bound' = 0, connected' = FALSE, binds' \in [Gens -> Binds],
         UNCHANGED <<backoff, landed, pin>>, race' = Spawned(Cold)
  PROVE  Linked'
<1>1. race \in Races /\ backoff \in 0..2 /\ landed \in 0..3 /\ SwapPart /\ RacePart
  BY Types DEF TypeOK
<1>2. /\ race' \in Races /\ (pin = None => race'.pc # "off")
      /\ \/ race' = race
         \/ race.pc = "off" /\ race'.pc = "head" /\ race'.mode = Cold /\ race'.empty = 0
  BY <1>1, SpawnedCold
<1>3. RacePart'
  <2>1. CASE race' = race
    BY <2>1, <1>1, RaceStill
  <2>2. CASE race'.pc = "head" /\ race'.mode = Cold /\ race'.empty = 0
    BY <2>2, RaceCold
  <2> QED BY <1>2, <2>1, <2>2
<1>4. SwapPart'
  BY <1>1, <1>2, ColdRaces, SwapStill
<1>5. 0 \in 0..MaxGen
  BY DagMonitorAssumption
<1> QED BY <1>1, <1>2, <1>3, <1>4, <1>5, DarkLink DEF Linked

\* relink keeps the link's parts, and leaves an unpinned wallet with a search.
LEMMA Relinks ==
  ASSUME IInv, Relink, pin' = pin
  PROVE  Linked'
<1>1. CASE pin # None
  <2>1. InstallBind(pin, TRUE, "superseded") /\ race' = race
    BY <1>1 DEF Relink
  <2> QED BY <1>1, <2>1, PinInstall
<1>2. CASE pin = None
  <2>1. UNCHANGED <<bound, connected, binds, backoff, landed>> /\ race' = Spawned(Cold)
    BY <1>2 DEF Relink
  <2> QED BY <1>2, <2>1, SearchBehind
<1> QED BY <1>1, <1>2

\* So does a retirement that relinks, for any reason but a hunt's.
LEMMA RetiresAndRelinks ==
  ASSUME IInv, NEW why, why # "silence-swap", RetireAndRelink(why), pin' = pin
  PROVE  Linked'
<1>1. CASE pin # None
  <2>1. InstallBind(pin, TRUE, why) /\ race' = race
    BY <1>1 DEF RetireAndRelink
  <2> QED BY <1>1, <2>1, PinInstall
<1>2. CASE pin = None
  <2>1. RetireBind /\ UNCHANGED <<backoff, landed>> /\ race' = Spawned(Cold)
    BY <1>2 DEF RetireAndRelink
  <2> QED BY <2>1, RetireTypes, SearchDark
<1> QED BY <1>1, <1>2

----------------------------------------------------------------------------
(* The race task *)

\* The mode a head goes on with: degraded when the wallet went dark, joined by
\* a tap, recast when the phone moved. What it leaves and speaks of is kept.
LEMMA HeadMode ==
  ASSUME NEW m \in Modes
  PROVE  /\ Joined(m) \in Modes /\ Recast(m) \in Modes /\ Degraded(m) \in Modes
         /\ Joined(m).from = m.from /\ Recast(m).from = m.from
         /\ (Joined(m).why = "silent" => Joined(m) = m)
         /\ (Recast(m).why = "silent" => Recast(m) = m)
         /\ (m.why = "cold" /\ ~m.tap => Joined(m) = m)
         /\ (m.why = "cold" => Recast(m) = m /\ Degraded(m) = m)
         /\ (m.why # "cold" => Joined(m).why # "cold" /\ Recast(m).why # "cold")
         /\ (m.why # "cold" /\ connected => Degraded(m) = m)
         /\ (m.why # "cold" /\ ~connected => Degraded(m) = Cold)
         /\ ((m.tap => m.why \in {"silent", "moved"}) => (Joined(m).tap => Joined(m).why = "moved"))
         /\ ((m.tap => m.why \in {"silent", "moved"}) => (Recast(m).tap => Recast(m).why \in {"silent", "moved"}))
         /\ ((m.tapped => m.why = "moved") => (Joined(m).tapped => Joined(m).why = "moved"))
         /\ ((m.tapped => m.why = "moved") => (Recast(m).tapped => Recast(m).why = "moved"))
         /\ (IsJoined(m) => m.tap /\ ~Joined(m).tap) /\ Recast(m).tap = m.tap
         /\ (IsRecast(m) => Recast(m) # m)
<1>1. m.why \in {"cold", "asked", "silent", "moved"} /\ m.from \in Nodes \cup {None}
      /\ m.gen \in 0..MaxGen /\ m.tapped \in BOOLEAN /\ m.tap \in BOOLEAN /\ m.spoke \in BOOLEAN
  BY DEF Modes
<1>2. 0 \in 0..MaxGen
  BY DagMonitorAssumption
<1> QED BY <1>1, <1>2, ColdRaces DEF Joined, Recast, Degraded, IsJoined, IsRecast, Modes

\* The end of a race keeps what its state says.
LEMMA RaceEndKeeps ==
  ASSUME IInv, RaceEnds, race.pc # "dial", UNCHANGED <<Link, pin, backoff, landed>>
  PROVE  race' \in Races /\ race'.mode.why = "cold" /\ BoundPart' /\ LifePart' /\ RacePart'
<1>1. race' = NoRace /\ UNCHANGED <<connected, bound, binds, pin>>
  BY DEF RaceEnds
<1>2. race' \in Races /\ race'.pc = "off" /\ race'.mode = Cold /\ race'.empty = 0
  BY <1>1, ColdRaces
<1>3. RacePart'
  BY <1>2, RaceCold
<1>4. BoundPart' /\ LifePart'
  BY <1>1, <1>2, Types, LinkFrame DEF LifePart, Bind
<1> QED BY <1>2, <1>3, <1>4, ColdRaces

\* A step of the race alone, which keeps the parts that speak of the race,
\* keeps the invariant.
LEMMA RaceAlone ==
  ASSUME IInv, UNCHANGED <<Link, paused, pin, demoted, advisory, backoff, landed, lost, ticked, gestures>>,
         awaiting' \subseteq Nodes, race' \in Races, BoundPart', LifePart', RacePart',
         race'.mode.why = "silent" => race.mode.why = "silent",
         ~paused /\ pin = None /\ ~connected /\ bound = 0 => race'.pc # "off"
  PROVE  IInv'
<1>1. UNCHANGED <<connected, bound, binds, paused, pin, demoted, advisory, backoff, landed, lost, ticked, repin, acts, away>>
  OBVIOUS
<1>2. TypeOK'
  BY <1>1, Types DEF TypeOK
<1>3. SwapPart'
  BY <1>1, Types, SwapStill
<1>4. AwayPart' /\ HuntPart'
  BY <1>1, Types DEF AwayPart, HuntPart
<1> QED BY <1>2, <1>3, <1>4 DEF IInv

\* A race that stands down leaves no dark wallet behind.
LEMMA StandsDown ==
  ASSUME IInv, race.pc \in {"head", "round", "hold"},
         \/ ~MayBind(Degraded(race.mode)) \/ IsBack(Degraded(race.mode))
         \/ ~MayBind(race.mode) \/ IsBack(race.mode)
  PROVE  ~(~paused /\ pin = None /\ ~connected /\ bound = 0)
<1>1. RacePart /\ race.mode \in Modes
  BY Types, RaceTypes
<1>2. Degraded(race.mode) \in {race.mode, Cold}
  BY DEF Degraded
<1> QED BY <1>1, <1>2, ColdRaces DEF MayBind, IsBack, RacePart

\* A head stands down, or starts a round under a mode fit for the link.
LEMMA RaceHeadKeeps ==
  ASSUME IInv, RaceHead
  PROVE  IInv'
<1> DEFINE m == race.mode
           m1 == Degraded(m)
           e1 == IF m1 = m THEN race.empty ELSE 0
           m2 == Joined(m1)
           m3 == Recast(m2)
           e3 == IF m3 = m1 THEN e1 ELSE 0
           adv == e3 >= Stranded /\ m3.why = "cold"
           ex == RoundExclusions(m3, IF adv THEN {} ELSE demoted) \cup awaiting'
<1>1. /\ race.pc = "head" /\ awaiting' \in SUBSET awaiting
      /\ IF ~MayBind(m1) \/ IsBack(m1) THEN RaceEnds
         ELSE race' = [race EXCEPT !.pc = "round", !.mode = m3, !.empty = e3, !.advisory = adv,
                                   !.excluded = ex]
      /\ UNCHANGED <<Link, paused, pin, demoted, advisory, backoff, landed, lost, ticked, gestures>>
  BY DEF RaceHead
<1>2. /\ UNCHANGED <<connected, bound, binds, paused, pin, demoted, backoff, landed>>
      /\ awaiting' \subseteq Nodes /\ demoted \subseteq Nodes
  BY <1>1, Types DEF TypeOK
<1>3. CASE ~MayBind(m1) \/ IsBack(m1)
  <2>1. RaceEnds
    BY <1>1, <1>3
  <2>2. race' \in Races /\ race'.mode.why = "cold" /\ BoundPart' /\ LifePart' /\ RacePart'
    BY <1>1, <2>1, RaceEndKeeps
  <2>3. ~(~paused /\ pin = None /\ ~connected /\ bound = 0)
    BY <1>1, <1>3, StandsDown
  <2> QED BY <1>1, <1>2, <2>2, <2>3, RaceAlone
<1>4. CASE MayBind(m1) /\ ~IsBack(m1)
  <2>1. race' = [race EXCEPT !.pc = "round", !.mode = m3, !.empty = e3, !.advisory = adv, !.excluded = ex]
    BY <1>1, <1>4
  <2>2. m \in Modes /\ race.empty \in Nat /\ race.empty \in 0..Max({Rounds, Stranded}) /\ RacePart /\ BoundPart
        /\ m.tap \in BOOLEAN /\ m.tapped \in BOOLEAN
    BY Types, RaceTypes
  <2>3. m1 \in Modes /\ m2 \in Modes /\ m3 \in Modes /\ m3.from = m1.from
    BY <2>2, HeadMode
  <2>4. /\ m.tap => m.why \in {"silent", "moved"}
        /\ m.tapped => m.why = "moved"
        /\ m.why = "cold" => race.empty <= Stranded
        /\ m.why # "cold" =>
             /\ race.empty <= Rounds
             /\ pin = None /\ connected => Bind.url = m.from /\ (m.why = "silent" => bound = m.gen)
             /\ pin = None /\ connected /\ race.empty = Rounds => IsJoined(m) \/ IsRecast(m)
        /\ m.why = "silent" => m.gen # 0
    BY <2>2 DEF RacePart
  <2>5. pin = None /\ ~paused
    BY <1>4 DEF MayBind
  <2>6. /\ m3.tap => m3.why \in {"silent", "moved"}
        /\ m3.tapped => m3.why = "moved"
        /\ m3.why = "silent" => m3 = m
        /\ m3.why = "cold" => e3 \in Nat /\ e3 <= Stranded
        /\ m3.why # "cold" => connected /\ m.why # "cold" /\ m3.from = m.from /\ e3 \in Nat /\ e3 <= Rounds /\ e3 # Rounds
    <3>1. CASE m1.why = "cold"
      <4>1. m1 = m \/ m1 = Cold
        BY DEF Degraded
      <4>2. ~m1.tap /\ ~m1.tapped /\ (m1 = m => race.empty <= Stranded)
        BY <2>4, <3>1, <4>1, ColdRaces
      <4>3. m2 = m1
        BY <2>3, <3>1, <4>2, HeadMode
      <4>4. m3 = m1
        BY <2>3, <3>1, <4>3, HeadMode
      <4>5. e3 \in Nat /\ e3 <= Stranded
        BY <2>2, <4>2, Limits
      <4> QED BY <3>1, <4>2, <4>4, <4>5
    <3>2. CASE m1.why # "cold"
      <4>1. m1 = m /\ connected
        BY <3>2, ColdRaces DEF Degraded
      <4>2. m2.why # "cold" /\ m3.why # "cold" /\ m3.from = m.from
        BY <2>2, <2>3, <3>2, <4>1, HeadMode
      <4>3. m3.why = "silent" => m3 = m
        <5>1. m3.why = "silent" => m3 = m2
          BY <2>3, HeadMode
        <5>2. m2.why = "silent" => m2 = m
          BY <2>2, <4>1, HeadMode
        <5> QED BY <5>1, <5>2
      <4>4. (m3.tap => m3.why \in {"silent", "moved"}) /\ (m3.tapped => m3.why = "moved")
        <5>1. (m2.tap => m2.why \in {"silent", "moved"}) /\ (m2.tapped => m2.why = "moved")
          BY <2>2, <2>4, <4>1, HeadMode
        <5> HIDE DEF m2
        <5> QED BY <2>3, <5>1, HeadMode
      <4>5. race.empty = Rounds => m3 # m
        <5>1. IsJoined(m) => m.tap /\ ~m2.tap /\ m3.tap = m2.tap
          BY <2>2, <2>3, <4>1, HeadMode
        <5>2. ~IsJoined(m) => m2 = m
          BY <4>1 DEF Joined
        <5>3. IsRecast(m) => Recast(m) # m
          BY <2>2, HeadMode
        <5>4. race.empty = Rounds => IsJoined(m) \/ IsRecast(m)
          BY <2>4, <2>5, <3>2, <4>1
        <5> QED BY <5>1, <5>2, <5>3, <5>4
      <4>6. e3 \in Nat /\ e3 <= Rounds /\ e3 # Rounds
        BY <2>2, <2>4, <3>2, <4>1, <4>5, Limits
      <4> QED BY <3>2, <4>1, <4>2, <4>3, <4>4, <4>6
    <3> QED BY <3>1, <3>2
  <2>7. Leaves(m3) => m3.from \in ex
    BY DEF Leaves, RoundExclusions
  <2>8. ex \subseteq Nodes \cup {None} /\ adv \in BOOLEAN
    <3>1. m3.from \in Nodes \cup {None}
      BY <2>3 DEF Modes
    <3> QED BY <1>2, <3>1 DEF RoundExclusions
  <2>9. e3 \in 0..Max({Rounds, Stranded})
    BY <2>6, Limits
  <2> HIDE DEF m1, m2, m3, e1, e3, adv, ex
  <2>10. /\ race' \in Races /\ race'.pc = "round" /\ race'.mode = m3 /\ race'.empty = e3 /\ race'.excluded = ex
    <3>1. race \in Races
      BY Types
    <3> QED BY <2>1, <2>3, <2>8, <2>9, <3>1 DEF Races
  <2>11. RacePart'
    <3>1. Leaves(race.mode)' <=> Leaves(m3)
      BY <2>10 DEF Leaves
    <3>2. m3.why # "cold" => connected' /\ Bind'.url = m3.from /\ (m3.why = "silent" => bound' = m3.gen)
      BY <1>2, <2>4, <2>5, <2>6 DEF Bind
    <3>3. m3.why = "silent" => m3.gen # 0
      BY <2>4, <2>6
    <3> QED BY <2>6, <2>7, <2>10, <3>1, <3>2, <3>3 DEF RacePart
  <2>12. BoundPart' /\ LifePart'
    <3>1. bound # 0 /\ pin = None => binds[bound].sock # "dialing"
      BY <1>1, Types DEF LifePart, Bind
    <3> QED BY <1>2, <2>10, <3>1, Types, LinkFrame
  <2>13. race'.mode.why = "silent" => race.mode.why = "silent"
    BY <2>6, <2>10
  <2> QED BY <1>1, <1>2, <2>10, <2>11, <2>12, <2>13, RaceAlone
<1> QED BY <1>3, <1>4

\* An empty round is counted; a swap hunt at its limit ends unless its next
\* head recasts it.
LEMMA RoundEmptyKeeps ==
  ASSUME IInv, RoundEmpty
  PROVE  IInv'
<1> DEFINE m == race.mode
           n == IF m.why = "cold" THEN Min({race.empty + 1, Stranded}) ELSE race.empty + 1
<1>1. /\ race.pc = "round"
      /\ IF Spent(m, n) THEN RaceEnds
         ELSE race' = [race EXCEPT !.pc = "head", !.empty = n, !.excluded = {}]
      /\ UNCHANGED <<Link, paused, pin, demoted, awaiting, advisory, backoff, landed, lost, ticked, gestures>>
  BY DEF RoundEmpty
<1>2. /\ UNCHANGED <<connected, bound, binds, paused, pin, demoted, backoff, landed>>
      /\ awaiting' \subseteq Nodes
  BY <1>1, Types DEF TypeOK
<1>3. CASE Spent(m, n)
  <2>1. race' \in Races /\ race'.mode.why = "cold" /\ BoundPart' /\ LifePart' /\ RacePart'
    BY <1>1, <1>3, RaceEndKeeps
  <2>2. connected
    BY <1>3 DEF Spent
  <2> QED BY <1>1, <1>2, <2>1, <2>2, RaceAlone
<1>4. CASE ~Spent(m, n)
  <2>1. race' = [race EXCEPT !.pc = "head", !.empty = n, !.excluded = {}]
    BY <1>1, <1>4
  <2>2. race \in Races /\ m \in Modes /\ race.empty \in Nat /\ RacePart
    BY Types, RaceTypes
  <2>3. /\ m.why = "cold" => n \in Nat /\ n <= Stranded
        /\ m.why # "cold" => n \in Nat /\ n <= Rounds
    <3>1. m.why = "cold" => n \in Nat /\ n <= Stranded
      BY <2>2, Limits, MinOfTwo
    <3>2. m.why # "cold" => race.empty <= Rounds /\ race.empty # Rounds
      BY <1>1, <2>2 DEF RacePart
    <3> QED BY <2>2, <3>1, <3>2, Limits
  <2>4. m.why # "cold" /\ n = Rounds /\ connected => IsJoined(m) \/ IsRecast(m)
    BY <1>4, Limits DEF Spent
  <2>5. n \in 0..Max({Rounds, Stranded})
    BY <2>3, Limits
  <2> HIDE DEF n
  <2>6. /\ race' \in Races /\ race'.pc = "head" /\ race'.mode = m /\ race'.empty = n
    BY <2>1, <2>2, <2>5 DEF Races
  <2>7. (IsJoined(m)' <=> IsJoined(m)) /\ (IsRecast(m)' <=> IsRecast(m))
    BY <1>2, <2>6 DEF IsJoined, IsRecast, Moved
  <2>8. RacePart'
    BY <1>2, <2>2, <2>3, <2>4, <2>6, <2>7 DEF RacePart, Bind
  <2>9. BoundPart' /\ LifePart'
    <3>1. bound # 0 /\ pin = None => binds[bound].sock # "dialing"
      BY <1>1, Types DEF LifePart, Bind
    <3> QED BY <1>2, <2>6, <3>1, Types, LinkFrame
  <2> QED BY <1>1, <1>2, <2>6, <2>8, <2>9, RaceAlone
<1> QED BY <1>3, <1>4

\* A round's winner is no node the hunt leaves.
LEMMA RoundWonKeeps ==
  ASSUME IInv, RoundWon
  PROVE  IInv'
<1> DEFINE m == race.mode
<1>1. PICK n \in Nodes \ race.excluded :
        IF ~MayBind(m) \/ IsBack(m) THEN RaceEnds
        ELSE race' = [race EXCEPT !.pc = "hold", !.winner = n, !.empty = 0, !.excluded = {}]
  BY DEF RoundWon
<1>2. /\ race.pc = "round"
      /\ UNCHANGED <<Link, paused, pin, demoted, awaiting, advisory, backoff, landed, lost, ticked, gestures>>
  BY DEF RoundWon
<1>3. /\ UNCHANGED <<connected, bound, binds, paused, pin, demoted, backoff, landed>>
      /\ awaiting' \subseteq Nodes
  BY <1>2, Types DEF TypeOK
<1>4. CASE ~MayBind(m) \/ IsBack(m)
  <2>1. race' \in Races /\ race'.mode.why = "cold" /\ BoundPart' /\ LifePart' /\ RacePart'
    BY <1>1, <1>2, <1>4, RaceEndKeeps
  <2>2. ~(~paused /\ pin = None /\ ~connected /\ bound = 0)
    BY <1>2, <1>4, StandsDown
  <2> QED BY <1>2, <1>3, <2>1, <2>2, RaceAlone
<1>5. CASE MayBind(m) /\ ~IsBack(m)
  <2>1. race' = [race EXCEPT !.pc = "hold", !.winner = n, !.empty = 0, !.excluded = {}]
    BY <1>1, <1>5
  <2>2. race \in Races /\ m \in Modes /\ race.empty \in Nat /\ RacePart
    BY Types, RaceTypes
  <2>3. 0 \in 0..Max({Rounds, Stranded}) /\ 0 <= Rounds /\ 0 # Rounds /\ 0 <= Stranded
    BY Limits
  <2>4. /\ race' \in Races /\ race'.pc = "hold" /\ race'.mode = m /\ race'.empty = 0 /\ race'.winner = n
    BY <2>1, <2>2, <2>3 DEF Races
  <2>5. Leaves(m) => n # m.from
    BY <1>1, <1>2, <2>2 DEF RacePart
  <2>6. Leaves(race.mode)' <=> Leaves(m)
    BY <2>4 DEF Leaves
  <2>7. RacePart'
    BY <1>3, <2>2, <2>3, <2>4, <2>5, <2>6 DEF RacePart, Bind
  <2>8. BoundPart' /\ LifePart'
    <3>1. bound # 0 /\ pin = None => binds[bound].sock # "dialing"
      BY <1>2, Types DEF LifePart, Bind
    <3> QED BY <1>3, <2>4, <3>1, Types, LinkFrame
  <2> QED BY <1>2, <1>3, <2>4, <2>7, <2>8, RaceAlone
<1> QED BY <1>4, <1>5

\* A held winner comes in only when the gate lets it, and then the silence swap
\* it may be is counted under the backoff's limit.
LEMMA HoldWinnerKeeps ==
  ASSUME IInv, HoldWinner
  PROVE  IInv'
<1> DEFINE m == race.mode
<1>1. /\ race.pc = "hold"
      /\ \/ Gate(m) = "StandDown" /\ RaceEnds /\ UNCHANGED <<Link, advisory, backoff, landed>>
         \/ race' = [race EXCEPT !.pc = "head", !.winner = None] /\ UNCHANGED <<Link, advisory, backoff, landed>>
         \/ /\ Gate(m) = "Install"
            /\ InstallBind(race.winner, FALSE, RetireCause(m))
            /\ advisory' = (race.advisory /\ race.winner \in demoted)
            /\ race' = [NoRace EXCEPT !.pc = "dial", !.dial = bound']
      /\ UNCHANGED <<paused, pin, demoted, awaiting, lost, ticked, repin, acts, away>>
  BY DEF HoldWinner
<1>2. race \in Races /\ m \in Modes /\ race.empty \in Nat /\ RacePart /\ awaiting \subseteq Nodes
  BY Types, RaceTypes DEF TypeOK
<1>3. bound # 0 /\ pin = None => binds[bound].sock # "dialing"
  BY <1>1, Types DEF LifePart, Bind
<1>4. CASE Gate(m) = "StandDown" /\ RaceEnds /\ UNCHANGED <<Link, advisory, backoff, landed>>
  <2>1. race' \in Races /\ race'.mode.why = "cold" /\ BoundPart' /\ LifePart' /\ RacePart'
    BY <1>1, <1>4, RaceEndKeeps
  <2>2. ~MayBind(m) \/ IsBack(m)
    BY <1>4 DEF Gate
  <2>3. ~(~paused /\ pin = None /\ ~connected /\ bound = 0)
    BY <1>1, <2>2, StandsDown
  <2> QED BY <1>1, <1>2, <1>4, <2>1, <2>3, RaceAlone
<1>5. CASE race' = [race EXCEPT !.pc = "head", !.winner = None] /\ UNCHANGED <<Link, advisory, backoff, landed>>
  <2>1. /\ race' \in Races /\ race'.pc = "head" /\ race'.mode = m /\ race'.empty = race.empty
    BY <1>2, <1>5 DEF Races
  <2>2. UNCHANGED <<connected, bound, binds, pin>>
    BY <1>1, <1>5
  <2>3. (IsJoined(m)' <=> IsJoined(m)) /\ (IsRecast(m)' <=> IsRecast(m))
    BY <2>1, <2>2 DEF IsJoined, IsRecast, Moved
  <2>4. RacePart'
    BY <1>2, <2>1, <2>2, <2>3 DEF RacePart, Bind
  <2>5. BoundPart' /\ LifePart'
    BY <1>3, <2>1, <2>2, Types, LinkFrame
  <2> QED BY <1>1, <1>2, <1>5, <2>1, <2>4, <2>5, RaceAlone
<1>6. CASE /\ Gate(m) = "Install"
           /\ InstallBind(race.winner, FALSE, RetireCause(m))
           /\ advisory' = (race.advisory /\ race.winner \in demoted)
           /\ race' = [NoRace EXCEPT !.pc = "dial", !.dial = bound']
  <2>1. pin = None /\ ~paused /\ race.winner \in Nodes
    BY <1>1, <1>2, <1>6 DEF Gate, MayBind, RacePart
  <2>2. /\ bound' \in Gens /\ bound' # 0 /\ connected' = FALSE /\ binds' \in [Gens -> Binds]
        /\ binds'[bound'].url = race.winner /\ binds'[bound'].sock = "dialing"
        /\ ~binds'[bound'].retry /\ ~binds'[bound'].swapDue
        /\ binds'[bound'].ctl = <<>> /\ binds'[bound'].task = "idle" /\ ~binds'[bound'].rose
        /\ ~binds'[bound'].announced /\ ~binds'[bound'].moved
        /\ backoff' = (IF RetireCause(m) = "silence-swap" /\ bound # 0 THEN Min({2, backoff + 1}) ELSE backoff)
        /\ landed' = (IF RetireCause(m) = "silence-swap" /\ bound # 0 THEN Min({3, landed + 1}) ELSE landed)
    BY <1>6, <2>1, InstallFacts
  <2>3. bound' \in 0..MaxGen
    BY <2>2, DagMonitorAssumption
  <2>4. race' \in Races /\ race'.pc = "dial" /\ race'.dial = bound' /\ race'.mode = Cold /\ race'.empty = 0
    BY <1>6, <2>3, ColdRaces DEF NoRace, Races
  <2>5. RacePart'
    BY <2>2, <2>4, RaceCold
  <2>6. BoundPart' /\ LifePart'
    <3>1. <<>> # <<"up">> /\ <<>> # <<"up", "down">>
      OBVIOUS
    <3> QED BY <1>1, <2>1, <2>2, <2>4, <3>1 DEF BoundPart, LifePart, Bind, Coming
  <2>7. SwapPart' /\ backoff' \in 0..2 /\ landed' \in 0..3
    <3>1. backoff \in 0..2 /\ landed = backoff /\ (backoff = 2 => m.why # "silent")
      BY Types DEF TypeOK, SwapPart
    <3>2. RetireCause(m) = "silence-swap" => m.why = "silent"
      BY DEF RetireCause
    <3>3. RetireCause(m) = "silence-swap" => Min({2, backoff + 1}) = backoff + 1 /\ Min({3, landed + 1}) = backoff + 1
      BY <3>1, <3>2, MinOfTwo
    <3>4. landed' = backoff' /\ backoff' \in 0..2 /\ landed' \in 0..3
      BY <2>2, <3>1, <3>2, <3>3
    <3> QED BY <2>4, <3>4, ColdRaces DEF SwapPart
  <2>8. TypeOK'
    <3>1. advisory' \in BOOLEAN
      BY <1>6, Types, RaceTypes
    <3> QED BY <1>1, <2>2, <2>3, <2>4, <2>7, <3>1, Types DEF TypeOK
  <2>9. AwayPart' /\ HuntPart'
    BY <1>1, <2>1, <2>2, Types DEF AwayPart, HuntPart
  <2> QED BY <2>5, <2>6, <2>7, <2>8, <2>9 DEF IInv
<1> QED BY <1>1, <1>4, <1>5, <1>6

\* The parts that speak of no link: what a step keeps that installs nothing and
\* leaves the app's word, the pause, the pin and the repin alone.
LEMMA Unworded ==
  ASSUME IInv, UNCHANGED <<paused, pin, repin, away>>, away => bound' = 0 /\ ~connected',
         ~paused /\ pin = None /\ ~connected' /\ bound' = 0 =>
           race'.pc # "off" \/ (race' = race /\ ~connected /\ bound = 0)
  PROVE  AwayPart' /\ HuntPart'
BY Types DEF AwayPart, HuntPart

\* An answered dial ends its race, unless the bind was taken from it.
LEMMA DialAnsweredKeeps ==
  ASSUME IInv, DialAnswered
  PROVE  IInv'
<1> DEFINE d == race.dial
           b == [binds EXCEPT ![d].rose = FALSE]
<1>1. /\ race.pc = "dial" /\ binds[d].rose
      /\ IF paused
         THEN /\ connected' = FALSE /\ bound' = 0
              /\ binds' = [g \in Gens |-> IF g = bound THEN Retired(b[g]) ELSE b[g]]
              /\ race' = NoRace
         ELSE /\ binds' = b
              /\ UNCHANGED <<connected, bound>>
              /\ IF bound = d THEN race' = NoRace
                 ELSE race' = [race EXCEPT !.pc = "head", !.dial = 0]
      /\ UNCHANGED <<paused, pin, demoted, awaiting, advisory, backoff, landed, lost, ticked, repin, acts, away>>
  BY DEF DialAnswered, RaceEnds
<1>2. race \in Races /\ binds \in [Gens -> Binds] /\ RacePart /\ d \in Gens /\ race.mode.why = "cold"
      /\ race.empty \in Nat /\ SwapPart
  <2>1. race \in Races /\ binds \in [Gens -> Binds] /\ RacePart /\ SwapPart
    BY Types
  <2>2. d # 0 /\ race.mode.why = "cold" /\ d \in 0..MaxGen /\ race.empty \in Nat
    BY <1>1, <2>1, RaceTypes DEF RacePart
  <2> QED BY <2>1, <2>2
<1>3. b \in [Gens -> Binds]
  <2>1. [binds[d] EXCEPT !.rose = FALSE] \in Binds
    <3>1. ASSUME NEW x \in Binds PROVE [x EXCEPT !.rose = FALSE] \in Binds
      BY DEF Binds
    <3> QED BY <1>2, <3>1
  <2> QED BY <1>2, <2>1
<1>4. /\ \A g \in Gens : g # d => b[g] = binds[g]
      /\ b[d] = [binds[d] EXCEPT !.rose = FALSE]
  BY <1>2
<1>5. CASE paused
  <2>1. race' = NoRace /\ connected' = FALSE /\ bound' = 0
        /\ binds' = [g \in Gens |-> IF g = bound THEN Retired(b[g]) ELSE b[g]]
    BY <1>1, <1>5
  <2> HIDE DEF b
  <2>2. binds' \in [Gens -> Binds]
    <3>1. ASSUME NEW g \in Gens PROVE b[g] \in Binds /\ Retired(b[g]) \in Binds
      BY <1>3, RetiredTypes
    <3> QED BY <2>1, <3>1
  <2>3. RacePart' /\ race' \in Races /\ race'.mode = Cold
    BY <2>1, ColdRaces, RaceCold
  <2>4. BoundPart' /\ LifePart'
    BY <2>1, DarkLink
  <2>5. SwapPart'
    BY <1>1, <1>2, <2>3, ColdRaces, SwapStill
  <2>6. AwayPart' /\ HuntPart'
    BY <1>1, <1>5, <2>1, Unworded
  <2>7. TypeOK'
    <3>1. 0 \in 0..MaxGen
      BY DagMonitorAssumption
    <3> QED BY <1>1, <2>1, <2>2, <2>3, <3>1, Types DEF TypeOK
  <2> QED BY <2>3, <2>4, <2>5, <2>6, <2>7 DEF IInv
<1>6. CASE ~paused /\ bound = d
  <2>1. race' = NoRace /\ binds' = b /\ UNCHANGED <<connected, bound>>
    BY <1>1, <1>6
  <2>2. RacePart' /\ race' \in Races /\ race'.mode = Cold /\ race'.pc = "off"
    BY <2>1, ColdRaces, RaceCold
  <2>3. /\ binds'[bound].url = binds[bound].url /\ binds'[bound].sock = binds[bound].sock
        /\ binds'[bound].retry = binds[bound].retry /\ binds'[bound].announced = binds[bound].announced
        /\ binds'[bound].fired = binds[bound].fired /\ binds'[bound].swapDue = binds[bound].swapDue
        /\ binds'[bound].moved = binds[bound].moved /\ binds'[bound].ctl = binds[bound].ctl
        /\ binds'[bound].task = binds[bound].task /\ binds'[bound].deaf = binds[bound].deaf
    BY <1>2, <1>4, <1>6, <2>1 DEF Binds
  <2> HIDE DEF b
  <2>4. BoundPart' /\ LifePart'
    <3>1. pin = None => binds[bound].sock # "dialing"
      BY <1>1, <1>2, <1>6, Types DEF LifePart, Bind
    <3>2. BoundPart'
      BY <1>1, <2>1, <2>3, Types DEF BoundPart, Bind
    <3>3. LifePart'
      BY <1>1, <2>1, <2>2, <2>3, <3>1, Types DEF LifePart, Bind, Coming
    <3> QED BY <3>2, <3>3
  <2>5. SwapPart'
    BY <1>1, <1>2, <2>2, ColdRaces, SwapStill
  <2>6. AwayPart' /\ HuntPart'
    BY <1>1, <1>2, <1>6, <2>1, Unworded, Types DEF AwayPart
  <2>7. TypeOK'
    BY <1>1, <1>3, <2>1, <2>2, Types DEF TypeOK
  <2> QED BY <2>2, <2>4, <2>5, <2>6, <2>7 DEF IInv
<1>7. CASE ~paused /\ bound # d
  <2>1. race' = [race EXCEPT !.pc = "head", !.dial = 0] /\ binds' = b /\ UNCHANGED <<connected, bound>>
    BY <1>1, <1>7
  <2>2. race' \in Races /\ race'.mode = race.mode /\ race'.pc = "head" /\ race'.empty = race.empty
    <3>1. 0 \in 0..MaxGen
      BY DagMonitorAssumption
    <3> QED BY <1>2, <2>1, <3>1 DEF Races
  <2>3. RacePart'
    BY <1>2, <2>2 DEF RacePart, Leaves
  <2>4. bound # 0 => binds'[bound] = binds[bound] /\ pin # None
    BY <1>1, <1>4, <1>7, <2>1, Types DEF LifePart
  <2>5. BoundPart' /\ LifePart'
    BY <1>1, <2>1, <2>2, <2>4, Types, LinkFrame
  <2>6. SwapPart'
    BY <1>1, <1>2, <2>2, SwapStill
  <2>7. AwayPart' /\ HuntPart'
    BY <1>1, <1>7, <2>1, <2>2, Unworded, Types DEF AwayPart
  <2>8. TypeOK'
    BY <1>1, <1>3, <2>1, <2>2, Types DEF TypeOK
  <2> QED BY <2>3, <2>5, <2>6, <2>7, <2>8 DEF IInv
<1> QED BY <1>5, <1>6, <1>7

\* A failed dial takes whatever is installed down, and its race goes on.
LEMMA DialFailedKeeps ==
  ASSUME IInv, DialFailed
  PROVE  IInv'
<1> DEFINE d == race.dial
           c(g) == IF g = bound THEN Retired(binds[g]) ELSE binds[g]
<1>1. /\ race.pc = "dial"
      /\ awaiting' = IF bound = d THEN awaiting \cup {binds[d].url} ELSE awaiting
      /\ bound' = 0 /\ connected' = FALSE
      /\ binds' = [g \in Gens |-> IF g = d THEN Exits([c(g) EXCEPT !.sock = "down"]) ELSE c(g)]
      /\ race' = [race EXCEPT !.pc = "head", !.dial = 0]
      /\ UNCHANGED <<paused, pin, demoted, advisory, backoff, landed, lost, ticked, repin, acts, away>>
  BY DEF DialFailed
<1>2. race \in Races /\ binds \in [Gens -> Binds] /\ RacePart /\ SwapPart /\ race.mode.why = "cold" /\ d # 0
      /\ race.empty \in Nat
  <2>1. race \in Races /\ binds \in [Gens -> Binds] /\ RacePart /\ SwapPart
    BY Types
  <2> QED BY <1>1, <2>1, RaceTypes DEF RacePart
<1>3. binds' \in [Gens -> Binds]
  <2>1. ASSUME NEW g \in Gens PROVE c(g) \in Binds /\ Exits([c(g) EXCEPT !.sock = "down"]) \in Binds
    <3>1. c(g) \in Binds
      BY <1>2, RetiredTypes
    <3> HIDE DEF c
    <3>2. [c(g) EXCEPT !.sock = "down"] \in Binds
      BY <3>1 DEF Binds
    <3> QED BY <3>1, <3>2, RetiredTypes
  <2> HIDE DEF c
  <2> QED BY <1>1, <2>1
<1>4. race' \in Races /\ race'.mode = race.mode /\ race'.pc = "head" /\ race'.empty = race.empty
  <2>1. 0 \in 0..MaxGen
    BY DagMonitorAssumption
  <2> QED BY <1>1, <1>2, <2>1 DEF Races
<1>5. RacePart'
  BY <1>2, <1>4 DEF RacePart, Leaves
<1>6. BoundPart' /\ LifePart'
  BY <1>1, DarkLink
<1>7. SwapPart'
  BY <1>1, <1>2, <1>4, SwapStill
<1>8. AwayPart' /\ HuntPart'
  BY <1>1, <1>4, Unworded
<1>9. TypeOK'
  <2>1. bound = d => binds[d].url \in Nodes
    BY <1>2, Types DEF BoundPart, Bind
  <2>2. 0 \in 0..MaxGen
    BY DagMonitorAssumption
  <2> QED BY <1>1, <1>3, <1>4, <2>1, <2>2, Types DEF TypeOK
<1> QED BY <1>5, <1>6, <1>7, <1>8, <1>9 DEF IInv

----------------------------------------------------------------------------
(* The sockets and their tasks *)

\* A step of one socket, under a race that stays: the parts of the link and the
\* race decide.
LEMMA SocketStep ==
  ASSUME IInv, UNCHANGED <<paused, pin, demoted, advisory, lost, repin, acts, away, bound, connected, race, backoff, landed>>,
         awaiting' \subseteq Nodes, ticked' \in BOOLEAN, binds' \in [Gens -> Binds], BoundPart', LifePart',
         bound # 0 => binds'[bound].url = binds[bound].url /\ (binds[bound].moved => binds'[bound].moved)
  PROVE  IInv'
<1>1. RacePart'
  BY Types, RaceStill DEF BoundPart
<1>2. SwapPart'
  BY Types, SwapStill
<1>3. AwayPart' /\ HuntPart'
  BY Unworded, Types DEF AwayPart
<1>4. TypeOK'
  BY Types DEF TypeOK
<1> QED BY <1>1, <1>2, <1>3, <1>4 DEF IInv

\* A step of a socket that is not installed.
LEMMA OtherSocket ==
  ASSUME IInv, UNCHANGED <<paused, pin, demoted, advisory, lost, repin, acts, away, bound, connected, race, backoff, landed>>,
         awaiting' \subseteq Nodes, ticked' \in BOOLEAN, NEW g \in Gens, g # bound, NEW n \in Binds,
         binds' = [binds EXCEPT ![g] = n]
  PROVE  IInv'
<1>1. binds' \in [Gens -> Binds] /\ (bound # 0 => binds'[bound] = binds[bound])
  BY Types
<1>2. BoundPart' /\ LifePart'
  BY <1>1, Types, LinkFrame DEF LifePart, Bind
<1> QED BY <1>1, <1>2, SocketStep

\* The channel of a bind that still holds two things at most.
LEMMA CtlTypes ==
  ASSUME NEW c \in Seq({"up", "down"}), NEW e \in {"up", "down"}
  PROVE  /\ Append(c, e) \in Seq({"up", "down"})
         /\ c # <<>> => Tail(c) \in Seq({"up", "down"})
OBVIOUS

\* A dial comes up, once for a bind that nobody pinned.
LEMMA SocketUpKeeps ==
  ASSUME IInv, NEW g \in Gens, SocketUp(g)
  PROVE  IInv'
<1> DEFINE b == binds[g]
           r == (race.dial = g)
           c == Append(b.ctl, "up")
           n == [b EXCEPT !.sock = "up", !.rose = r, !.ctl = c]
<1>1. /\ b.sock = "dialing"
      /\ binds' = [binds EXCEPT ![g] = n]
      /\ UNCHANGED <<paused, pin, demoted, advisory, lost, repin, acts, away, bound, connected, race,
                     backoff, landed, awaiting, ticked>>
  BY Types DEF SocketUp, Rest
<1>2. b \in Binds /\ awaiting \subseteq Nodes /\ ticked \in BOOLEAN /\ binds \in [Gens -> Binds]
  BY Types DEF TypeOK
<1>3. r \in BOOLEAN /\ c \in Seq({"up", "down"})
  BY <1>2, BindTypes
<1>4. n \in Binds
  <2> HIDE DEF r, c, b
  <2> QED BY <1>2, <1>3 DEF Binds
<1>5. CASE g # bound
  <2> HIDE DEF n
  <2> QED BY <1>1, <1>2, <1>4, <1>5, OtherSocket
<1>6. CASE g = bound
  <2>1. /\ binds'[bound] = n
        /\ n.sock = "up" /\ (n.rose <=> r) /\ n.ctl = c
        /\ n.url = b.url /\ n.retry = b.retry /\ n.announced = b.announced /\ n.fired = b.fired
        /\ n.swapDue = b.swapDue /\ n.moved = b.moved /\ n.task = b.task /\ n.deaf = b.deaf
    <3>1. n.sock = "up" /\ (n.rose <=> r) /\ n.ctl = c
          /\ n.url = b.url /\ n.retry = b.retry /\ n.announced = b.announced /\ n.fired = b.fired
          /\ n.swapDue = b.swapDue /\ n.moved = b.moved /\ n.task = b.task /\ n.deaf = b.deaf
      <4> HIDE DEF r, c, b
      <4> QED BY <1>2 DEF Binds
    <3> QED BY <1>1, <1>2, <1>6, <3>1
  <2>2. pin = None => b.ctl = <<>> /\ race.pc = "dial" /\ race.dial = bound /\ b.task = "idle" /\ ~connected
                      /\ ~b.announced /\ ~b.moved
    BY <1>1, <1>6, Types DEF LifePart, Bind
  <2>3. pin = None => c = <<"up">>
    <3>1. Append(<<>>, "up") = <<"up">>
      OBVIOUS
    <3> QED BY <2>2, <3>1
  <2> HIDE DEF n, c, b
  <2>4. BoundPart'
    BY <1>1, <1>6, <2>1, Types DEF BoundPart, Bind, b
  <2>5. LifePart'
    <3>1. <<"up">> # <<>>
      OBVIOUS
    <3> QED BY <1>1, <1>6, <2>1, <2>2, <2>3, <3>1 DEF LifePart, Bind, Coming
  <2>6. binds' \in [Gens -> Binds]
    BY <1>1, <1>2, <1>4
  <2> QED BY <1>1, <1>2, <1>6, <2>1, <2>4, <2>5, <2>6, SocketStep DEF b
<1> QED BY <1>5, <1>6

\* The socket of the installed bind falls, for good unless it is pinned.
LEMMA SocketDropsKeeps ==
  ASSUME IInv, NEW g \in Gens, SocketDrops(g)
  PROVE  IInv'
<1> DEFINE b == binds[g]
           s == IF b.retry THEN "dialing" ELSE "down"
           c == Append(b.ctl, "down")
           n == [b EXCEPT !.sock = s, !.ctl = c]
<1>1. /\ g = bound /\ b.sock = "up"
      /\ binds' = [binds EXCEPT ![g] = n]
      /\ UNCHANGED <<paused, pin, demoted, advisory, lost, repin, acts, away, bound, connected, race,
                     backoff, landed, awaiting, ticked>>
  BY Types DEF SocketDrops, Rest
<1>2. b \in Binds /\ awaiting \subseteq Nodes /\ ticked \in BOOLEAN /\ binds \in [Gens -> Binds]
  BY Types DEF TypeOK
<1>3. s \in {"dialing", "down"} /\ c \in Seq({"up", "down"})
  BY <1>2, BindTypes
<1>4. n \in Binds
  <2> HIDE DEF s, c, b
  <2> QED BY <1>2, <1>3 DEF Binds
<1>5. /\ binds'[bound] = n
      /\ n.sock = s /\ n.rose = b.rose /\ n.ctl = c
      /\ n.url = b.url /\ n.retry = b.retry /\ n.announced = b.announced /\ n.fired = b.fired
      /\ n.swapDue = b.swapDue /\ n.moved = b.moved /\ n.task = b.task /\ n.deaf = b.deaf
  <2>1. n.sock = s /\ n.rose = b.rose /\ n.ctl = c
        /\ n.url = b.url /\ n.retry = b.retry /\ n.announced = b.announced /\ n.fired = b.fired
        /\ n.swapDue = b.swapDue /\ n.moved = b.moved /\ n.task = b.task /\ n.deaf = b.deaf
    <3> HIDE DEF s, c, b
    <3> QED BY <1>2 DEF Binds
  <2> QED BY <1>1, <1>2, <2>1
<1>6. pin = None => /\ ~b.retry /\ s = "down" /\ b.ctl \in {<<>>, <<"up">>}
                    /\ c \in {<<"down">>, <<"up", "down">>}
                    /\ (b.ctl = <<"up">> => c = <<"up", "down">>)
                    /\ (b.ctl = <<>> => c = <<"down">>)
  <2>1. pin = None => ~b.retry /\ b.ctl \in {<<>>, <<"up">>}
    BY <1>1, <1>2, Types DEF LifePart, BoundPart, Bind
  <2>2. Append(<<>>, "down") = <<"down">> /\ Append(<<"up">>, "down") = <<"up", "down">>
    <3>1. <<"up">> \in Seq({"up", "down"}) /\ Append(<<>>, "down") = <<"down">>
      OBVIOUS
    <3> QED BY <3>1, TwoEvents
  <2>3. <<>> # <<"up">>
    OBVIOUS
  <2> QED BY <2>1, <2>2, <2>3
<1> HIDE DEF n, c, s
<1>7. BoundPart'
  BY <1>1, <1>3, <1>5, Types DEF BoundPart, Bind
<1>8. LifePart'
  <2>1. <<"down">> # <<"up">> /\ <<"down">> # <<"up", "down">> /\ <<>> # <<"up">> /\ <<>> # <<"up", "down">>
    OBVIOUS
  <2> QED BY <1>1, <1>5, <1>6, <2>1, Types DEF LifePart, Bind, Coming
<1>9. binds' \in [Gens -> Binds]
  BY <1>1, <1>2, <1>4
<1> QED BY <1>1, <1>2, <1>5, <1>7, <1>8, <1>9, SocketStep

\* The goodbye of a bind that left closes it.
LEMMA TeardownKeeps ==
  ASSUME IInv, NEW g \in Gens, Teardown(g)
  PROVE  IInv'
<1> DEFINE b == binds[g]
           c == IF b.sock = "up" THEN Append(b.ctl, "down") ELSE b.ctl
           n == Exits([b EXCEPT !.sock = "down", !.ctl = c])
<1>1. /\ g # bound
      /\ binds' = [binds EXCEPT ![g] = n]
      /\ UNCHANGED <<paused, pin, demoted, advisory, lost, repin, acts, away, bound, connected, race,
                     backoff, landed, awaiting, ticked>>
  <2>1. g # bound
    BY DEF Teardown
  <2>2. binds' = [binds EXCEPT ![g] = n]
    BY DEF Teardown
  <2>3. UNCHANGED <<paused, pin, demoted, advisory, lost, repin, acts, away, bound, connected, race,
                    backoff, landed, awaiting, ticked>>
    BY DEF Teardown, Rest
  <2> QED BY <2>1, <2>2, <2>3
<1>2. b \in Binds /\ awaiting \subseteq Nodes /\ ticked \in BOOLEAN
  BY Types DEF TypeOK
<1>3. c \in Seq({"up", "down"})
  BY <1>2, BindTypes
<1>4. n \in Binds
  <2> HIDE DEF c, b
  <2>1. [b EXCEPT !.sock = "down", !.ctl = c] \in Binds
    BY <1>2, <1>3 DEF Binds
  <2> QED BY <2>1, RetiredTypes
<1> HIDE DEF n
<1> QED BY <1>1, <1>2, <1>4, OtherSocket

\* What a bind's task takes from its channel leaves the rest of the bind.
LEMMA HeardFacts ==
  ASSUME IInv, NEW g \in Gens, NEW e \in {"up", "down"}, Hears(g, e)
  PROVE  /\ Heard(g) = [binds EXCEPT ![g] = [binds[g] EXCEPT !.ctl = Tail(binds[g].ctl)]]
         /\ [binds[g] EXCEPT !.ctl = Tail(binds[g].ctl)] \in Binds
         /\ Tail(binds[g].ctl) \in Seq({"up", "down"})
         /\ binds[g].task = "idle" /\ binds[g].ctl # <<>> /\ Head(binds[g].ctl) = e
<1>1. binds[g] \in Binds /\ binds \in [Gens -> Binds]
  BY Types
<1>2. binds[g].ctl \in Seq({"up", "down"}) /\ binds[g].ctl # <<>> /\ binds[g].task = "idle"
      /\ Head(binds[g].ctl) = e
  BY <1>1, BindTypes DEF Hears
<1> DEFINE b == binds[g]
           c == Tail(b.ctl)
<1>3. c \in Seq({"up", "down"})
  BY <1>2
<1>4. [b EXCEPT !.ctl = c] \in Binds
  <2> HIDE DEF b, c
  <2> QED BY <1>1, <1>3 DEF Binds, b
<1>5. Heard(g) = [binds EXCEPT ![g] = [b EXCEPT !.ctl = c]]
  BY DEF Heard
<1> QED BY <1>2, <1>3, <1>4, <1>5

\* A task that is no longer the installed one drains its channel.
LEMMA DiscardCtlKeeps ==
  ASSUME IInv, NEW g \in Gens, DiscardCtl(g)
  PROVE  IInv'
<1>1. PICK e \in {"up", "down"} : Hears(g, e)
  BY DEF DiscardCtl
<1> DEFINE h == [binds[g] EXCEPT !.ctl = Tail(binds[g].ctl)]
<1>2. h \in Binds /\ Heard(g) = [binds EXCEPT ![g] = h] /\ binds \in [Gens -> Binds]
  BY <1>1, HeardFacts, Types
<1> HIDE DEF h
<1>3. /\ g # bound
      /\ binds' = [binds EXCEPT ![g] = Exits(h)]
      /\ UNCHANGED <<paused, pin, demoted, advisory, lost, repin, acts, away, bound, connected, race,
                     backoff, landed, awaiting, ticked>>
  BY <1>2 DEF DiscardCtl, Rest, IsCurrentBind
<1>4. awaiting \subseteq Nodes /\ ticked \in BOOLEAN
  BY Types DEF TypeOK
<1> QED BY <1>2, <1>3, <1>4, RetiredTypes, OtherSocket

\* A link that went dark, with a search asked for or one that goes on.
LEMMA GoesDark ==
  ASSUME IInv, UNCHANGED <<paused, pin, demoted, advisory, lost, repin, acts, away, backoff, landed>>,
         awaiting' \subseteq Nodes, ticked' \in BOOLEAN, binds' \in [Gens -> Binds],
         bound' = 0, connected' = FALSE, race' = Spawned(Cold) \/ (paused /\ race' = race)
  PROVE  IInv'
<1>1. race \in Races /\ RacePart /\ SwapPart
  BY Types
<1>2. CASE race' = Spawned(Cold)
  <2>1. Linked'
    BY <1>2, SearchDark
  <2>2. BoundPart' /\ LifePart' /\ SwapPart' /\ RacePart' /\ (pin' = None => race'.pc # "off")
        /\ race' \in Races /\ bound' \in 0..MaxGen
    BY <2>1 DEF Linked
  <2>3. AwayPart' /\ HuntPart'
    BY <2>2, Unworded
  <2>4. TypeOK'
    BY <2>2, Types DEF TypeOK
  <2> QED BY <2>2, <2>3, <2>4 DEF IInv
<1>3. CASE paused /\ race' = race
  <2>1. RacePart' /\ SwapPart' /\ BoundPart' /\ LifePart'
    BY <1>1, <1>3, RaceStill, SwapStill, DarkLink
  <2>2. AwayPart' /\ HuntPart'
    BY <1>3, Unworded
  <2>3. TypeOK'
    <3>1. 0 \in 0..MaxGen
      BY DagMonitorAssumption
    <3> QED BY <1>3, <3>1, Types DEF TypeOK
  <2> QED BY <2>1, <2>2, <2>3 DEF IInv
<1> QED BY <1>2, <1>3

\* A socket that came up goes on to its publish, or is refused and leaves.
LEMMA OnConnectedKeeps ==
  ASSUME IInv, NEW g \in Gens, OnConnected(g)
  PROVE  IInv'
<1> DEFINE b == binds[g]
           c == Tail(b.ctl)
           h == [b EXCEPT !.ctl = c]
           n == [b EXCEPT !.ctl = c, !.task = "publishing"]
<1>1. h \in Binds /\ c \in Seq({"up", "down"}) /\ Heard(g) = [binds EXCEPT ![g] = h]
      /\ b.task = "idle" /\ b.ctl # <<>> /\ Head(b.ctl) = "up"
  BY HeardFacts DEF OnConnected
<1>2. bound = g /\ awaiting' = {} /\ UNCHANGED <<paused, pin, demoted, advisory, lost, repin, acts, away,
                                                  backoff, ticked, landed>>
  BY DEF OnConnected, IsCurrentBind, Rest
<1>3. b \in Binds /\ binds \in [Gens -> Binds] /\ ticked \in BOOLEAN
  BY Types DEF TypeOK
<1>4. CASE Refused(g)
  <2>1. bound' = 0 /\ connected' = FALSE /\ binds' = [Heard(g) EXCEPT ![g] = Retired(@)] /\ race' = Spawned(Cold)
    BY <1>4 DEF OnConnected
  <2>2. binds' \in [Gens -> Binds]
    <3> HIDE DEF h
    <3>1. Retired(h) \in Binds
      BY <1>1, RetiredTypes
    <3>2. binds' = [binds EXCEPT ![g] = Retired(h)]
      BY <1>1, <1>3, <2>1
    <3> QED BY <1>3, <3>1, <3>2
  <2> QED BY <1>2, <1>3, <2>1, <2>2, GoesDark
<1>5. CASE ~Refused(g)
  <2>1. binds' = [Heard(g) EXCEPT ![g].task = "publishing"] /\ UNCHANGED <<connected, bound, race>>
    BY <1>5 DEF OnConnected
  <2>2. /\ n \in Binds
        /\ n.sock = b.sock /\ n.rose = b.rose /\ n.ctl = c /\ n.task = "publishing"
        /\ n.url = b.url /\ n.retry = b.retry /\ n.announced = b.announced /\ n.fired = b.fired
        /\ n.swapDue = b.swapDue /\ n.moved = b.moved /\ n.deaf = b.deaf
    <3> HIDE DEF c, b
    <3> QED BY <1>1, <1>3 DEF Binds
  <2>3. binds' = [binds EXCEPT ![g] = n]
    <3> HIDE DEF c
    <3> QED BY <1>1, <1>3, <2>1
  <2>4. pin = None => /\ (b.ctl = <<"up">> /\ c = <<>>) \/ (b.ctl = <<"up", "down">> /\ c = <<"down">>)
                      /\ ~connected /\ b.sock # "dialing" /\ (b.sock = "up" => b.ctl = <<"up">>)
                      /\ ~b.announced /\ ~b.moved
    <3>1. pin = None => b.ctl \in {<<>>, <<"up">>, <<"down">>, <<"up", "down">>}
                        /\ (b.sock = "up" => b.ctl \in {<<>>, <<"up">>})
                        /\ (b.sock = "dialing" => b.ctl = <<>>)
                        /\ (b.ctl \in {<<"up">>, <<"up", "down">>} => ~connected)
                        /\ (~connected => ~b.announced /\ ~b.moved)
      BY <1>2, Types DEF LifePart, Bind, Coming
    <3>2. Head(<<"down">>) = "down" /\ Tail(<<"up">>) = <<>> /\ Tail(<<"up", "down">>) = <<"down">>
      OBVIOUS
    <3>3. <<"up", "down">> # <<>> /\ <<"up", "down">> # <<"up">>
      OBVIOUS
    <3> QED BY <1>1, <3>1, <3>2, <3>3
  <2> HIDE DEF n, c, h
  <2>5. binds' \in [Gens -> Binds] /\ binds'[bound] = n
    BY <1>2, <1>3, <2>2, <2>3
  <2>6. BoundPart'
    BY <1>2, <2>1, <2>2, <2>5, Types DEF BoundPart, Bind
  <2>7. LifePart'
    <3>1. <<"down">> # <<"up">> /\ <<"down">> # <<"up", "down">> /\ <<>> # <<"up">> /\ <<>> # <<"up", "down">>
          /\ <<"up">> # <<"up", "down">>
      OBVIOUS
    <3>2. pin = None => (race.pc = "dial" => race.dial = bound /\ (b.rose <=> b.sock # "dialing"))
      BY <1>2, Types DEF LifePart, Bind
    <3> HIDE DEF b
    <3> QED BY <1>2, <2>1, <2>2, <2>4, <2>5, <3>1, <3>2 DEF LifePart, Bind, Coming
  <2> QED BY <1>2, <1>3, <2>1, <2>2, <2>5, <2>6, <2>7, SocketStep
<1> QED BY <1>4, <1>5

\* A publish tells of the socket it was asked for, or of none.
LEMMA PublishKeeps ==
  ASSUME IInv, NEW g \in Gens, Publish(g)
  PROVE  IInv'
<1> DEFINE b == binds[g]
<1>1. b \in Binds /\ binds \in [Gens -> Binds] /\ awaiting \subseteq Nodes /\ ticked \in BOOLEAN
  BY Types DEF TypeOK
<1>2. b.task = "publishing" /\ UNCHANGED <<paused, pin, demoted, advisory, lost, repin, acts, away, bound, race,
                                           awaiting, backoff, ticked, landed>>
  BY DEF Publish, Rest
<1>3. CASE bound # g
  <2> DEFINE x == [b EXCEPT !.task = "idle"]
  <2>1. binds' = [binds EXCEPT ![g] = Exits([binds[g] EXCEPT !.task = "idle"])] /\ UNCHANGED connected
    BY <1>3 DEF Publish, StillInstalled
  <2>2. x \in Binds
    <3>1. ASSUME NEW y \in Binds PROVE [y EXCEPT !.task = "idle"] \in Binds
      BY DEF Binds
    <3> QED BY <1>1, <3>1
  <2>3. Exits(x) \in Binds
    BY <2>2, RetiredTypes
  <2> QED BY <1>1, <1>2, <1>3, <2>1, <2>3, OtherSocket
<1>4. CASE bound = g
  <2> DEFINE n == [Quieted(b) EXCEPT !.announced = TRUE, !.moved = FALSE, !.task = "idle"]
  <2>1. connected' = TRUE /\ binds' = [binds EXCEPT ![g] = n]
    BY <1>4 DEF Publish, StillInstalled
  <2>2. /\ n \in Binds
        /\ n.sock = b.sock /\ n.rose = b.rose /\ n.ctl = b.ctl /\ n.task = "idle"
        /\ n.url = b.url /\ n.retry = b.retry /\ n.announced /\ ~n.swapDue /\ ~n.moved
    <3>1. 0 \in 0..WatchdogStall
      BY DEF WatchdogStall
    <3> HIDE DEF b
    <3> QED BY <1>1, <3>1 DEF Binds, Quieted
  <2> HIDE DEF n
  <2>3. binds' \in [Gens -> Binds] /\ binds'[bound] = n
    BY <1>1, <1>4, <2>1, <2>2
  <2>4. bound # 0 /\ ~away
    BY <1>4, Types DEF AwayPart
  <2>5. BoundPart'
    BY <1>2, <1>4, <2>1, <2>2, <2>3, <2>4, Types DEF BoundPart, Bind
  <2>6. LifePart'
    <3>1. pin = None => /\ b.ctl \in {<<>>, <<"up">>, <<"down">>, <<"up", "down">>}
                        /\ (b.sock = "up" => b.ctl \in {<<>>, <<"up">>})
                        /\ b.sock # "dialing" /\ b.ctl \notin {<<"up">>, <<"up", "down">>} /\ ~connected
                        /\ (race.pc = "dial" => race.dial = bound /\ (b.rose <=> b.sock # "dialing"))
      BY <1>2, <1>4, <2>4, Types DEF LifePart, Bind, Coming
    <3> HIDE DEF b
    <3> QED BY <1>2, <2>1, <2>2, <2>3, <3>1 DEF LifePart, Bind, Coming
  <2>7. RacePart'
    <3>1. race \in Races /\ RacePart
      BY Types
    <3>2. CASE pin # None
      BY <1>2, <3>1, <3>2, RaceStill
    <3>3. CASE pin = None
      <4>1. ~connected
        BY <1>2, <1>4, <2>4, <3>3, Types DEF LifePart, Bind
      <4>2. race.mode.why = "cold"
        BY <2>4, <3>1, <3>3, <4>1 DEF RacePart
      <4>3. Leaves(race.mode)' <=> Leaves(race.mode)
        BY <1>2 DEF Leaves
      <4> QED BY <1>2, <3>1, <4>2, <4>3 DEF RacePart
    <3> QED BY <3>2, <3>3
  <2>8. SwapPart'
    BY <1>2, Types, SwapStill
  <2>9. AwayPart' /\ HuntPart'
    BY <1>2, <2>1, <2>4, Unworded
  <2>10. TypeOK'
    BY <1>2, <2>1, <2>3, Types DEF TypeOK
  <2> QED BY <2>5, <2>6, <2>7, <2>8, <2>9, <2>10 DEF IInv
<1> QED BY <1>3, <1>4

\* A subscription that fails leaves the bind installed, and owned by nobody.
LEMMA SubscriptionFailsKeeps ==
  ASSUME IInv, NEW g \in Gens, SubscriptionFails(g)
  PROVE  IInv'
<1> DEFINE b == binds[g]
           n == [b EXCEPT !.task = "idle", !.deaf = TRUE]
<1>1. b \in Binds /\ binds \in [Gens -> Binds] /\ awaiting \subseteq Nodes /\ ticked \in BOOLEAN
  BY Types DEF TypeOK
<1>2. /\ b.task = "publishing" /\ bound = g
      /\ binds' = [binds EXCEPT ![g] = n]
      /\ UNCHANGED <<paused, pin, demoted, advisory, lost, repin, acts, away, bound, connected, race,
                     awaiting, backoff, ticked, landed>>
  BY <1>1 DEF SubscriptionFails, Rest
<1>3. /\ n \in Binds
      /\ n.sock = b.sock /\ n.rose = b.rose /\ n.ctl = b.ctl /\ n.task = "idle" /\ n.deaf
      /\ n.url = b.url /\ n.retry = b.retry /\ n.announced = b.announced /\ n.fired = b.fired
      /\ n.swapDue = b.swapDue /\ n.moved = b.moved
  <2> HIDE DEF b
  <2> QED BY <1>1 DEF Binds
<1> HIDE DEF n
<1>4. binds' \in [Gens -> Binds] /\ binds'[bound] = n
  BY <1>1, <1>2, <1>3
<1>5. BoundPart'
  BY <1>2, <1>3, <1>4, Types DEF BoundPart, Bind
<1>6. LifePart'
  BY <1>2, <1>3, <1>4, Types DEF LifePart, Bind, Coming
<1> QED BY <1>1, <1>2, <1>3, <1>4, <1>5, <1>6, SocketStep

\* The end of the installed socket takes an unpinned link down, once.
LEMMA OnDisconnectedKeeps ==
  ASSUME IInv, NEW g \in Gens, OnDisconnected(g)
  PROVE  IInv'
<1> DEFINE b == binds[g]
           c == Tail(b.ctl)
           h == [b EXCEPT !.ctl = c]
           n == Quieted(h)
<1>1. h \in Binds /\ c \in Seq({"up", "down"}) /\ Heard(g) = [binds EXCEPT ![g] = h]
      /\ b.task = "idle" /\ b.ctl # <<>> /\ Head(b.ctl) = "down"
  BY HeardFacts DEF OnDisconnected
<1>2. bound = g /\ UNCHANGED <<paused, pin, demoted, advisory, lost, repin, acts, away,
                               awaiting, backoff, ticked, landed>>
  BY DEF OnDisconnected, IsCurrentBind, Rest
<1>3. b \in Binds /\ binds \in [Gens -> Binds] /\ ticked \in BOOLEAN /\ awaiting \subseteq Nodes /\ race \in Races
  BY Types DEF TypeOK
<1>4. /\ n \in Binds
      /\ n.sock = b.sock /\ n.rose = b.rose /\ n.ctl = c /\ n.task = "idle"
      /\ n.url = b.url /\ n.retry = b.retry /\ ~n.announced /\ ~n.swapDue
      /\ n.moved = b.moved /\ n.deaf = b.deaf
  <2>1. 0 \in 0..WatchdogStall
    BY DEF WatchdogStall
  <2>2. h.sock = b.sock /\ h.rose = b.rose /\ h.ctl = c /\ h.task = "idle"
        /\ h.url = b.url /\ h.retry = b.retry /\ h.moved = b.moved /\ h.deaf = b.deaf
    <3> HIDE DEF c, b
    <3> QED BY <1>1, <1>3 DEF Binds, b
  <2> HIDE DEF h, b
  <2> QED BY <1>1, <2>1, <2>2 DEF Binds, Quieted
<1>5. CASE pin # None
  <2>1. connected' = FALSE /\ binds' = [Heard(g) EXCEPT ![g] = Quieted(@)] /\ UNCHANGED <<bound, race>>
    BY <1>5 DEF OnDisconnected
  <2>2. binds' = [binds EXCEPT ![g] = n]
    <3> HIDE DEF h
    <3> QED BY <1>1, <1>3, <2>1
  <2> HIDE DEF n
  <2>3. binds' \in [Gens -> Binds] /\ binds'[bound] = n
    BY <1>2, <1>3, <1>4, <2>2
  <2>4. BoundPart' /\ LifePart'
    BY <1>2, <1>4, <1>5, <2>1, <2>3, Types DEF BoundPart, LifePart, Bind
  <2>5. RacePart'
    BY <1>2, <1>5, <2>1, Types, RaceStill
  <2>6. SwapPart'
    BY <1>2, <2>1, Types, SwapStill
  <2>7. AwayPart' /\ HuntPart'
    BY <1>2, <1>5, <2>1, Unworded, Types DEF AwayPart
  <2>8. TypeOK'
    BY <1>2, <2>1, <2>3, Types DEF TypeOK
  <2> QED BY <2>4, <2>5, <2>6, <2>7, <2>8 DEF IInv
<1>6. CASE pin = None /\ ~connected
  <2>1. binds' = [Heard(g) EXCEPT ![g] = Quieted(@)] /\ UNCHANGED <<connected, bound, race>>
    BY <1>6 DEF OnDisconnected
  <2>2. binds' = [binds EXCEPT ![g] = n]
    <3> HIDE DEF h
    <3> QED BY <1>1, <1>3, <2>1
  <2> HIDE DEF n, h
  <2>3. binds' \in [Gens -> Binds] /\ binds'[bound] = n
    BY <1>2, <1>3, <1>4, <2>2
  <2>4. BoundPart'
    BY <1>2, <1>4, <1>6, <2>1, <2>3, Types DEF BoundPart, Bind
  <2>5. LifePart'
    <3>1. /\ b.ctl \in {<<>>, <<"up">>, <<"down">>, <<"up", "down">>}
          /\ (b.sock = "up" => b.ctl \in {<<>>, <<"up">>})
          /\ (b.sock = "dialing" => b.ctl = <<>>)
          /\ ~b.moved
          /\ b.sock = "dialing" \/ b.ctl \in {<<"up">>, <<"up", "down">>} \/ b.task = "publishing" \/ b.deaf
          /\ (race.pc = "dial" => race.dial = bound /\ (b.rose <=> b.sock # "dialing"))
      BY <1>2, <1>6, Types DEF LifePart, Bind, Coming
    <3>2. b.ctl = <<"down">>
      <4>1. Head(<<"up">>) = "up" /\ Head(<<"up", "down">>) = "up"
        OBVIOUS
      <4> QED BY <1>1, <3>1, <4>1
    <3>3. c = <<>>
      <4>1. Tail(<<"down">>) = <<>>
        OBVIOUS
      <4> QED BY <3>2, <4>1
    <3>4. <<"down">> # <<"up">> /\ <<"down">> # <<"up", "down">> /\ <<>> # <<"up">> /\ <<>> # <<"up", "down">>
          /\ <<"down">> # <<>>
      OBVIOUS
    <3>5. b.deaf /\ b.sock \notin {"dialing", "up"}
      BY <1>1, <3>1, <3>2, <3>4
    <3> HIDE DEF b, c
    <3> QED BY <1>2, <1>4, <1>6, <2>1, <2>3, <3>1, <3>3, <3>4, <3>5 DEF LifePart, Bind, Coming
  <2> QED BY <1>2, <1>3, <1>4, <2>1, <2>3, <2>4, <2>5, SocketStep
<1>7. CASE pin = None /\ connected
  <2>1. /\ connected' = FALSE /\ bound' = 0
        /\ binds' = [k \in Gens |-> IF k \in {g, bound} THEN Retired(Heard(g)[k]) ELSE binds[k]]
        /\ race' = IF paused THEN race ELSE Spawned(Cold)
    BY <1>7 DEF OnDisconnected
  <2>2. binds' \in [Gens -> Binds]
    <3> HIDE DEF h
    <3>1. ASSUME NEW k \in Gens PROVE binds[k] \in Binds /\ Retired(Heard(g)[k]) \in Binds
      BY <1>1, <1>3, RetiredTypes
    <3> QED BY <2>1, <3>1
  <2> QED BY <1>2, <1>3, <2>1, <2>2, GoesDark
<1> QED BY <1>5, <1>6, <1>7

\* A step of the installed socket's clock: its bind keeps what the link's parts
\* ask of it, and the race goes on or a hunt starts for this link.
LEMMA ClockStep ==
  ASSUME IInv, UNCHANGED <<paused, pin, demoted, advisory, lost, repin, acts, away, bound, connected, awaiting>>,
         ticked' \in BOOLEAN, NEW n \in Binds, bound # 0, binds' = [binds EXCEPT ![bound] = n],
         binds[bound].announced, n.announced,
         n.sock = binds[bound].sock, n.rose = binds[bound].rose, n.ctl = binds[bound].ctl,
         n.task = binds[bound].task, n.url = binds[bound].url, n.retry = binds[bound].retry,
         n.moved = binds[bound].moved, n.deaf = binds[bound].deaf, n.swapDue => n.fired,
         race' \in Races, RacePart', SwapPart', backoff' \in 0..2, landed' \in 0..3,
         race'.pc = "dial" <=> race.pc = "dial", race'.dial = race.dial \/ race'.pc # "dial",
         race.pc # "off" => race'.pc # "off"
  PROVE  IInv'
<1>1. binds' \in [Gens -> Binds] /\ binds'[bound] = n
  BY Types
<1>2. BoundPart'
  BY <1>1, Types DEF BoundPart, Bind
<1>3. LifePart'
  BY <1>1, Types DEF LifePart, Bind, Coming
<1>4. AwayPart' /\ HuntPart'
  BY Types DEF AwayPart, HuntPart
<1>5. TypeOK'
  BY <1>1, Types DEF TypeOK
<1> QED BY <1>2, <1>3, <1>4, <1>5 DEF IInv

\* A tick restarts the socket's clock, and may end the backoff with its count.
LEMMA TickKeeps ==
  ASSUME IInv, NEW g \in Gens, Tick(g)
  PROVE  IInv'
<1> DEFINE b == binds[bound]
           n == Ticks(b)
<1>1. /\ bound = g /\ bound # 0 /\ b.announced
      /\ binds' = [binds EXCEPT ![bound] = n]
      /\ ticked' \in BOOLEAN
      /\ UNCHANGED <<paused, pin, demoted, advisory, lost, repin, acts, away, bound, connected, awaiting>>
  BY DEF Tick, Rest
<1>2. PICK held \in BOOLEAN :
        /\ backoff' = IF held THEN 0 ELSE backoff
        /\ landed' = IF held THEN 0 ELSE landed
  BY DEF Tick
<1>3. race' = race \/ race' = [race EXCEPT !.mode.spoke = TRUE]
  BY DEF Tick
<1>4. b \in Binds /\ race \in Races /\ RacePart /\ SwapPart /\ backoff \in 0..2 /\ landed \in 0..3
  BY <1>1, Types DEF TypeOK
<1>5. /\ n \in Binds
      /\ n.sock = b.sock /\ n.rose = b.rose /\ n.ctl = b.ctl /\ n.task = b.task
      /\ n.url = b.url /\ n.retry = b.retry /\ n.announced /\ ~n.swapDue
      /\ n.moved = b.moved /\ n.deaf = b.deaf
  <2>1. 0 \in 0..WatchdogStall
    BY DEF WatchdogStall
  <2> HIDE DEF b
  <2> QED BY <1>4, <2>1 DEF Binds, Quieted, Ticks
<1>6. /\ race' \in Races /\ race'.pc = race.pc /\ race'.empty = race.empty /\ race'.dial = race.dial
      /\ race'.excluded = race.excluded /\ race'.winner = race.winner
      /\ race'.mode.why = race.mode.why /\ race'.mode.from = race.mode.from /\ race'.mode.gen = race.mode.gen
      /\ race'.mode.tap = race.mode.tap /\ race'.mode.tapped = race.mode.tapped
  <2> DEFINE r == [race EXCEPT !.mode.spoke = TRUE]
  <2>1. race.mode \in Modes
    BY <1>4 DEF Races
  <2>2. /\ [race.mode EXCEPT !.spoke = TRUE] \in Modes
    BY <2>1 DEF Modes
  <2>3. r \in Races /\ r.pc = race.pc /\ r.empty = race.empty /\ r.dial = race.dial
        /\ r.excluded = race.excluded /\ r.winner = race.winner
        /\ r.mode = [race.mode EXCEPT !.spoke = TRUE]
    BY <1>4, <2>2 DEF Races
  <2>4. /\ r.mode.why = race.mode.why /\ r.mode.from = race.mode.from /\ r.mode.gen = race.mode.gen
        /\ r.mode.tap = race.mode.tap /\ r.mode.tapped = race.mode.tapped
    BY <2>1, <2>3 DEF Modes
  <2> HIDE DEF r
  <2> QED BY <1>3, <1>4, <2>3, <2>4 DEF r
<1> HIDE DEF n
<1>7. binds'[bound] = n
  BY <1>1, <1>5, Types
<1>8. RacePart'
  <2>1. Leaves(race.mode)' <=> Leaves(race.mode)
    BY <1>6 DEF Leaves
  <2>2. IsJoined(race.mode)' <=> IsJoined(race.mode)
    BY <1>6 DEF IsJoined
  <2>3. IsRecast(race.mode)' <=> IsRecast(race.mode)
    BY <1>1, <1>5, <1>6, <1>7 DEF IsRecast, Moved
  <2> QED BY <1>1, <1>4, <1>5, <1>6, <1>7, <2>1, <2>2, <2>3 DEF RacePart, Bind
<1>9. SwapPart' /\ backoff' \in 0..2 /\ landed' \in 0..3
  BY <1>2, <1>4, <1>6 DEF SwapPart
<1> QED BY <1>1, <1>5, <1>6, <1>8, <1>9, ClockStep

\* Silence only grows.
LEMMA HushKeeps ==
  ASSUME IInv, NEW g \in Gens, Hush(g)
  PROVE  IInv'
<1> DEFINE b == binds[bound]
           q == Quieter(b.quiet)
           n == [b EXCEPT !.quiet = q]
<1>1. /\ bound # 0 /\ b.announced /\ b.quiet < WatchdogStall
      /\ binds' = [binds EXCEPT ![bound] = n]
      /\ UNCHANGED <<paused, pin, demoted, advisory, lost, repin, acts, away, bound, connected, awaiting,
                     race, backoff, ticked, landed>>
  BY Types DEF Hush, Rest
<1>2. b \in Binds /\ race \in Races /\ RacePart /\ SwapPart /\ backoff \in 0..2 /\ landed \in 0..3
      /\ ticked \in BOOLEAN /\ (b.swapDue => b.fired)
  BY <1>1, Types DEF TypeOK, BoundPart, Bind
<1>3. q \in 0..WatchdogStall
  BY <1>1, <1>2, BindTypes, QuieterType
<1>4. /\ n \in Binds
      /\ n.sock = b.sock /\ n.rose = b.rose /\ n.ctl = b.ctl /\ n.task = b.task
      /\ n.url = b.url /\ n.retry = b.retry /\ n.announced = b.announced /\ n.swapDue = b.swapDue
      /\ n.fired = b.fired /\ n.moved = b.moved /\ n.deaf = b.deaf
  <2> HIDE DEF b, q
  <2> QED BY <1>2, <1>3 DEF Binds
<1> HIDE DEF n, q
<1>5. binds'[bound] = n
  BY <1>1, <1>4, Types
<1>6. RacePart'
  BY <1>1, <1>2, <1>4, <1>5, RaceStill
<1>7. SwapPart'
  BY <1>1, <1>2, SwapStill
<1> QED BY <1>1, <1>2, <1>4, <1>6, <1>7, ClockStep

\* A hunt for a silent link: the mode it is made with, and when.
LEMMA SilentHunt ==
  ASSUME IInv, Deadline # None, UNCHANGED <<bound, connected, pin, backoff, landed>>, bound # 0,
         binds'[bound].url = binds[bound].url, binds'[bound].moved = binds[bound].moved,
         race' = IF connected /\ ~paused THEN Spawned(Swap("silent")) ELSE race
  PROVE  /\ race' \in Races /\ RacePart' /\ SwapPart'
         /\ (race'.pc = "dial" <=> race.pc = "dial") /\ (race'.dial = race.dial \/ race'.pc # "dial")
         /\ (race.pc # "off" => race'.pc # "off")
<1>1. race \in Races /\ RacePart /\ SwapPart /\ BoundPart /\ backoff # 2
  BY Types DEF Deadline
<1>2. CASE race' = race
  BY <1>1, <1>2, RaceStill, SwapStill
<1>3. CASE race' # race
  <2>1. connected /\ race' = Spawned(Swap("silent"))
    BY <1>3
  <2>2. /\ race' \in Races /\ race.pc = "off" /\ race'.pc = "head" /\ race'.empty = 0
        /\ race'.mode.why = "silent" /\ race'.mode.from = binds[bound].url
        /\ ~race'.mode.tap /\ ~race'.mode.tapped /\ race'.mode.gen = bound
    BY <1>3, <2>1, SpawnedSwap
  <2>3. RacePart'
    BY <1>1, <2>1, <2>2, SwapStarts
  <2>4. SwapPart'
    BY <1>1, SwapStill
  <2> QED BY <2>2, <2>3, <2>4
<1> QED BY <1>2, <1>3

\* The first stage of a silence.
LEMMA PredialKeeps ==
  ASSUME IInv, NEW g \in Gens, Predial(g)
  PROVE  IInv'
<1> DEFINE b == binds[bound]
           n == [b EXCEPT !.predialed = TRUE]
<1>1. /\ bound # 0 /\ b.announced /\ Deadline # None
      /\ binds' = [binds EXCEPT ![bound] = n]
      /\ race' = IF connected /\ ~paused THEN Spawned(Swap("silent")) ELSE race
      /\ UNCHANGED <<paused, pin, demoted, advisory, lost, repin, acts, away, bound, connected, awaiting,
                     backoff, ticked, landed>>
  BY Types DEF Predial, Rest
<1>2. b \in Binds /\ backoff \in 0..2 /\ landed \in 0..3 /\ ticked \in BOOLEAN /\ (b.swapDue => b.fired)
  BY <1>1, Types DEF TypeOK, BoundPart, Bind
<1>3. /\ n \in Binds
      /\ n.sock = b.sock /\ n.rose = b.rose /\ n.ctl = b.ctl /\ n.task = b.task
      /\ n.url = b.url /\ n.retry = b.retry /\ n.announced = b.announced /\ n.swapDue = b.swapDue
      /\ n.fired = b.fired /\ n.moved = b.moved /\ n.deaf = b.deaf
  <2> HIDE DEF b
  <2> QED BY <1>2 DEF Binds
<1> HIDE DEF n
<1>4. binds'[bound] = n
  BY <1>1, <1>3, Types
<1>5. /\ race' \in Races /\ RacePart' /\ SwapPart'
      /\ (race'.pc = "dial" <=> race.pc = "dial") /\ (race'.dial = race.dial \/ race'.pc # "dial")
      /\ (race.pc # "off" => race'.pc # "off")
  BY <1>1, <1>3, <1>4, SilentHunt
<1> QED BY <1>1, <1>2, <1>3, <1>5, ClockStep

\* The stage at which a held winner may come in.
LEMMA SilenceFallsKeeps ==
  ASSUME IInv, NEW g \in Gens, SilenceFalls(g)
  PROVE  IInv'
<1> DEFINE b == binds[bound]
           s == (connected /\ ~paused)
           n == [b EXCEPT !.fired = TRUE, !.swapDue = s]
<1>1. /\ bound # 0 /\ b.announced /\ Deadline # None
      /\ binds' = [binds EXCEPT ![bound] = n]
      /\ race' = IF connected /\ ~paused THEN Spawned(Swap("silent")) ELSE race
      /\ UNCHANGED <<paused, pin, demoted, advisory, lost, repin, acts, away, bound, connected, awaiting,
                     backoff, ticked, landed>>
  <2>1. g = bound /\ binds' = [binds EXCEPT ![g].fired = TRUE, ![g].swapDue = s]
    BY Zenon DEF SilenceFalls
  <2>2. binds' = [binds EXCEPT ![bound] = n]
    <3> HIDE DEF s
    <3> QED BY <2>1, Types
  <2>3. /\ bound # 0 /\ b.announced /\ Deadline # None
        /\ race' = IF connected /\ ~paused THEN Spawned(Swap("silent")) ELSE race
        /\ UNCHANGED <<paused, pin, demoted, advisory, lost, repin, acts, away, bound, connected, awaiting,
                       backoff, ticked, landed>>
    BY DEF SilenceFalls, Rest
  <2> QED BY <2>2, <2>3
<1>2. b \in Binds /\ backoff \in 0..2 /\ landed \in 0..3 /\ ticked \in BOOLEAN /\ s \in BOOLEAN
  BY <1>1, Types DEF TypeOK
<1>3. /\ n \in Binds
      /\ n.sock = b.sock /\ n.rose = b.rose /\ n.ctl = b.ctl /\ n.task = b.task
      /\ n.url = b.url /\ n.retry = b.retry /\ n.announced = b.announced
      /\ n.fired /\ n.moved = b.moved /\ n.deaf = b.deaf
  <2> HIDE DEF b, s
  <2> QED BY <1>2 DEF Binds
<1> HIDE DEF n
<1>4. binds'[bound] = n
  BY <1>1, <1>3, Types
<1>5. /\ race' \in Races /\ RacePart' /\ SwapPart'
      /\ (race'.pc = "dial" <=> race.pc = "dial") /\ (race'.dial = race.dial \/ race'.pc # "dial")
      /\ (race.pc # "off" => race'.pc # "off")
  BY <1>1, <1>3, <1>4, SilentHunt
<1> QED BY <1>1, <1>2, <1>3, <1>5, ClockStep

----------------------------------------------------------------------------
(* The gestures of the user, the app and the phone *)

\* A gesture that relinks in the foreground.
LEMMA Relinked ==
  ASSUME IInv, Linked', paused' = FALSE \/ ~paused, paused' \in BOOLEAN, pin' = pin, away' = FALSE \/ (~paused /\ away' = away),
         UNCHANGED <<demoted, awaiting, advisory, ticked>>, lost' \in BOOLEAN, acts' \in 0..MaxActs,
         repin' \in [pc : {"off", "swapped", "set"}, url : Nodes \cup {None}, was : BOOLEAN, hit : BOOLEAN]
  PROVE  IInv'
<1>1. /\ BoundPart' /\ LifePart' /\ SwapPart' /\ RacePart' /\ (pin' = None => race'.pc # "off")
      /\ race' \in Races /\ binds' \in [Gens -> Binds]
      /\ bound' \in 0..MaxGen /\ connected' \in BOOLEAN /\ backoff' \in 0..2 /\ landed' \in 0..3
  BY DEF Linked
<1>2. away' = FALSE
  BY Types DEF AwayPart, TypeOK
<1>3. AwayPart' /\ HuntPart'
  BY <1>1, <1>2 DEF AwayPart, HuntPart
<1>4. TypeOK'
  BY <1>1, <1>2, Types DEF TypeOK
<1> QED BY <1>1, <1>3, <1>4 DEF IInv

\* A gesture that leaves the link, the race and the pin as they are.
LEMMA LinkUntouched ==
  ASSUME IInv, UNCHANGED <<Link, race, pin, backoff, landed>>,
         paused' \in BOOLEAN, away' \in BOOLEAN, lost' \in BOOLEAN, acts' \in 0..MaxActs,
         awaiting' \subseteq Nodes, demoted' \subseteq Nodes, UNCHANGED <<advisory, ticked>>,
         repin' \in [pc : {"off", "swapped", "set"}, url : Nodes \cup {None}, was : BOOLEAN, hit : BOOLEAN],
         AwayPart', HuntPart'
  PROVE  IInv'
<1>1. UNCHANGED <<connected, bound, binds>>
  OBVIOUS
<1>2. BoundPart' /\ LifePart'
  BY <1>1, Types, LinkFrame DEF LifePart, Bind
<1>3. RacePart'
  BY <1>1, Types, RaceStill DEF BoundPart
<1>4. SwapPart'
  BY Types, SwapStill
<1>5. TypeOK'
  BY <1>1, Types DEF TypeOK
<1> QED BY <1>2, <1>3, <1>4, <1>5 DEF IInv

\* The types of what the gestures touch.
LEMMA GestureTypes ==
  ASSUME IInv
  PROVE  /\ acts \in 0..MaxActs /\ MaxActs \in Nat /\ lost \in BOOLEAN /\ away \in BOOLEAN /\ paused \in BOOLEAN
         /\ repin \in [pc : {"off", "swapped", "set"}, url : Nodes \cup {None}, was : BOOLEAN, hit : BOOLEAN]
         /\ repin.was \in BOOLEAN /\ repin.hit \in BOOLEAN /\ repin.url \in Nodes \cup {None}
         /\ repin.pc \in {"off", "swapped", "set"}
         /\ (Acts => acts' \in 0..MaxActs)
         /\ awaiting \subseteq Nodes /\ demoted \subseteq Nodes
BY Types, DagMonitorAssumption DEF TypeOK, Acts

\* pause retires whatever is installed, and a repin under way sees it.
LEMMA PauseKeeps ==
  ASSUME IInv, Pause
  PROVE  IInv'
<1> DEFINE h == (repin.pc = "swapped")
<1>1. /\ acts' \in 0..MaxActs /\ repin' = [repin EXCEPT !.hit = h]
      /\ paused' = TRUE /\ away' = TRUE
      /\ RetireBind
      /\ UNCHANGED <<pin, race, demoted, awaiting, advisory, backoff, lost, ticked, landed>>
  BY GestureTypes DEF Pause
<1>2. bound' = 0 /\ connected' = FALSE /\ binds' \in [Gens -> Binds]
  BY <1>1, RetireTypes
<1>3. h \in BOOLEAN
  OBVIOUS
<1>4. /\ repin' \in [pc : {"off", "swapped", "set"}, url : Nodes \cup {None}, was : BOOLEAN, hit : BOOLEAN]
      /\ repin'.pc = repin.pc /\ repin'.hit = h
  <2> HIDE DEF h
  <2> QED BY <1>1, <1>3, GestureTypes
<1>5. BoundPart' /\ LifePart' /\ RacePart' /\ SwapPart'
  BY <1>1, <1>2, Types, DarkLink, RaceStill, SwapStill
<1>6. AwayPart' /\ HuntPart'
  BY <1>1, <1>2, <1>4 DEF AwayPart, HuntPart
<1>7. TypeOK'
  <2>1. 0 \in 0..MaxGen
    BY DagMonitorAssumption
  <2> QED BY <1>1, <1>2, <1>4, <2>1, Types DEF TypeOK
<1> QED BY <1>5, <1>6, <1>7 DEF IInv

\* resume relinks what is dark.
LEMMA ResumeKeeps ==
  ASSUME IInv, Resume
  PROVE  IInv'
<1>1. /\ acts' \in 0..MaxActs /\ paused' = FALSE /\ away' = FALSE
      /\ IF connected THEN UNCHANGED <<Link, race, backoff, landed>> ELSE Relink
      /\ UNCHANGED <<pin, demoted, awaiting, advisory, lost, ticked, repin>>
  BY GestureTypes DEF Resume
<1>2. CASE connected
  <2>1. UNCHANGED <<Link, race, backoff, landed>> /\ UNCHANGED <<connected, bound, binds>>
    BY <1>1, <1>2
  <2>2. AwayPart' /\ HuntPart'
    BY <1>1, <1>2, <2>1 DEF AwayPart, HuntPart
  <2> QED BY <1>1, <2>1, <2>2, GestureTypes, LinkUntouched
<1>3. CASE ~connected
  <2>1. Linked'
    BY <1>1, <1>3, Relinks
  <2> QED BY <1>1, <2>1, GestureTypes, Relinked
<1> QED BY <1>2, <1>3

\* A tap finds another node behind a live link: a new hunt, or one that runs and
\* hears it.
LEMMA TapKeeps ==
  ASSUME IInv, Tap
  PROVE  IInv'
<1> DEFINE t == (race.mode.why \in {"silent", "moved"})
<1>1. /\ acts' \in 0..MaxActs /\ paused' = FALSE /\ away' = FALSE
      /\ UNCHANGED <<pin, demoted, awaiting, advisory, lost, ticked, repin>>
  BY GestureTypes DEF Tap
<1>2. CASE ~(connected /\ pin = None)
  <2>1. RetireAndRelink("manual-reconnect")
    BY <1>2 DEF Tap
  <2>2. Linked'
    BY <1>1, <2>1, RetiresAndRelinks
  <2> QED BY <1>1, <2>2, GestureTypes, Relinked
<1>3. CASE connected /\ pin = None
  <2>1. /\ race' = IF race.pc = "off" THEN Spawned(Swap("asked")) ELSE [race EXCEPT !.mode.tap = t]
        /\ UNCHANGED <<connected, bound, binds, backoff, landed>>
    BY <1>3 DEF Tap
  <2>2. race \in Races /\ race.mode \in Modes /\ RacePart /\ SwapPart /\ BoundPart /\ LifePart
    BY Types, RaceTypes
  <2>3. /\ race' \in Races /\ RacePart' /\ race'.mode.why \in {race.mode.why, "asked"}
        /\ (race'.pc = "dial" => race.pc = "dial" /\ race'.dial = race.dial)
        /\ race'.pc # "off"
    <3>1. CASE race.pc = "off"
      <4>1. race' = Spawned(Swap("asked"))
        BY <2>1, <3>1
      <4>2. race' # race
        <5>1. race'.pc = "head"
          BY <1>3, <3>1, <4>1 DEF Spawned, NoRace
        <5> QED BY <3>1, <5>1
      <4>3. /\ race' \in Races /\ race'.pc = "head" /\ race'.empty = 0
            /\ race'.mode.why = "asked" /\ race'.mode.from = binds[bound].url
            /\ ~race'.mode.tap /\ ~race'.mode.tapped
        BY <1>3, <4>1, <4>2, SpawnedSwap
      <4>4. RacePart'
        BY <1>3, <2>1, <2>2, <4>3, SwapStarts
      <4> QED BY <4>3, <4>4
    <3>2. CASE race.pc # "off"
      <4>1. race' = [race EXCEPT !.mode.tap = t]
        BY <2>1, <3>2
      <4>2. t \in BOOLEAN
        OBVIOUS
      <4> HIDE DEF t
      <4>3. [race.mode EXCEPT !.tap = t] \in Modes
        BY <2>2, <4>2 DEF Modes
      <4>4. /\ race' \in Races /\ race'.pc = race.pc /\ race'.empty = race.empty /\ race'.dial = race.dial
            /\ race'.excluded = race.excluded /\ race'.winner = race.winner
            /\ race'.mode = [race.mode EXCEPT !.tap = t]
        BY <2>2, <4>1, <4>3 DEF Races
      <4>5. /\ race'.mode.why = race.mode.why /\ race'.mode.from = race.mode.from
            /\ race'.mode.gen = race.mode.gen /\ race'.mode.tapped = race.mode.tapped
            /\ race'.mode.tap = t
        BY <2>2, <4>4 DEF Modes
      <4>6. Leaves(race.mode)' <=> Leaves(race.mode)
        BY <4>5 DEF Leaves
      <4>7. race.mode.tap => t
        BY <2>2 DEF RacePart, t
      <4>8. IsJoined(race.mode) => IsJoined(race.mode)'
        BY <4>5, <4>7 DEF IsJoined
      <4>9. IsRecast(race.mode)' <=> IsRecast(race.mode)
        BY <2>1, <4>5 DEF IsRecast, Moved
      <4>10. t => race.mode.why \in {"silent", "moved"}
        BY DEF t
      <4>11. RacePart'
        BY <1>1, <2>1, <2>2, <4>4, <4>5, <4>6, <4>8, <4>9, <4>10 DEF RacePart, Bind
      <4> QED BY <3>2, <4>4, <4>5, <4>11
    <3> QED BY <3>1, <3>2
  <2>4. BoundPart' /\ LifePart'
    <3>1. bound # 0 => binds[bound].sock # "dialing"
      BY <1>3, <2>2 DEF LifePart, Bind, Coming
    <3> QED BY <1>1, <2>1, <2>2, <2>3, <3>1, LinkFrame
  <2>5. SwapPart'
    BY <2>1, <2>2, <2>3, SwapStill
  <2>6. AwayPart' /\ HuntPart'
    BY <1>1, <2>3 DEF AwayPart, HuntPart
  <2>7. TypeOK'
    BY <1>1, <2>1, <2>3, Types DEF TypeOK
  <2> QED BY <2>3, <2>4, <2>5, <2>6, <2>7 DEF IInv
<1> QED BY <1>2, <1>3

\* hard_reconnect and the watchdog.
LEMMA ReconnectKeeps ==
  ASSUME IInv, HardReconnect \/ Watchdog
  PROVE  IInv'
<1>1. /\ ~paused /\ acts' \in 0..MaxActs
      /\ UNCHANGED <<paused, pin, demoted, awaiting, advisory, lost, ticked, repin, away>>
      /\ RetireAndRelink("manual-reconnect") \/ RetireAndRelink("watchdog-stall") \/ Relink
  BY GestureTypes DEF HardReconnect, Watchdog
<1>2. Linked'
  BY <1>1, Relinks, RetiresAndRelinks
<1> QED BY <1>1, <1>2, GestureTypes, Relinked

\* A repin starts by pausing whatever else would bind.
LEMMA PinStartKeeps ==
  ASSUME IInv, PinStart
  PROVE  IInv'
<1>1. PICK url \in (Nodes \cup {None}) \ {pin} :
        repin' = [pc |-> "swapped", url |-> url, was |-> paused, hit |-> FALSE]
  BY DEF PinStart
<1>2. /\ acts' \in 0..MaxActs /\ paused' = TRUE
      /\ UNCHANGED <<Link, race, pin, demoted, awaiting, advisory, backoff, lost, ticked, landed, away>>
  BY GestureTypes DEF PinStart
<1>3. /\ repin' \in [pc : {"off", "swapped", "set"}, url : Nodes \cup {None}, was : BOOLEAN, hit : BOOLEAN]
      /\ (repin'.was <=> paused)
  BY <1>1, GestureTypes
<1>4. AwayPart' /\ HuntPart'
  BY <1>2, <1>3, Types DEF AwayPart, HuntPart
<1> QED BY <1>2, <1>3, <1>4, GestureTypes, LinkUntouched

\* A repin takes its node, and unpauses only what no pause has touched.
LEMMA PinSwapsKeeps ==
  ASSUME IInv, PinSwaps
  PROVE  IInv'
<1>1. /\ repin.pc = "swapped"
      /\ RetireBind
      /\ pin' = repin.url
      /\ (paused' <=> (paused /\ ~Unpauses)) /\ paused' \in BOOLEAN
      /\ repin' = [repin EXCEPT !.pc = "set"]
      /\ UNCHANGED <<race, demoted, awaiting, advisory, backoff, lost, ticked, acts, landed, away>>
  BY DEF PinSwaps
<1>2. bound' = 0 /\ connected' = FALSE /\ binds' \in [Gens -> Binds]
  BY <1>1, RetireTypes
<1>3. /\ repin' \in [pc : {"off", "swapped", "set"}, url : Nodes \cup {None}, was : BOOLEAN, hit : BOOLEAN]
      /\ repin'.pc = "set"
  BY <1>1, GestureTypes
<1>4. BoundPart' /\ LifePart' /\ RacePart' /\ SwapPart'
  BY <1>1, <1>2, Types, DarkLink, RaceStill, SwapStill
<1>5. AwayPart' /\ HuntPart'
  BY <1>1, <1>2, <1>3, Types DEF AwayPart, HuntPart, Unpauses
<1>6. TypeOK'
  <2>1. 0 \in 0..MaxGen
    BY DagMonitorAssumption
  <2> QED BY <1>1, <1>2, <1>3, <2>1, GestureTypes, Types DEF TypeOK
<1> QED BY <1>4, <1>5, <1>6 DEF IInv

\* A repin ends by relinking what is in the foreground.
LEMMA PinRelinksKeeps ==
  ASSUME IInv, PinRelinks
  PROVE  IInv'
<1>1. /\ IF paused THEN UNCHANGED <<Link, race, backoff, landed>> ELSE Relink
      /\ repin' = [repin EXCEPT !.pc = "off", !.url = None, !.was = FALSE, !.hit = FALSE]
      /\ UNCHANGED <<paused, pin, demoted, awaiting, advisory, lost, ticked, acts, away>>
  BY DEF PinRelinks
<1>2. /\ repin' \in [pc : {"off", "swapped", "set"}, url : Nodes \cup {None}, was : BOOLEAN, hit : BOOLEAN]
      /\ repin'.pc = "off"
  BY <1>1, GestureTypes
<1>3. CASE paused
  <2>1. UNCHANGED <<Link, race, backoff, landed>> /\ UNCHANGED <<connected, bound, binds>>
    BY <1>1, <1>3
  <2>2. AwayPart' /\ HuntPart'
    BY <1>1, <1>2, <1>3, <2>1, Types DEF AwayPart, HuntPart
  <2> QED BY <1>1, <1>2, <2>1, <2>2, GestureTypes, LinkUntouched
<1>4. CASE ~paused
  <2>1. Linked'
    BY <1>1, <1>4, Relinks
  <2> QED BY <1>1, <1>2, <1>4, <2>1, GestureTypes, Relinked
<1> QED BY <1>3, <1>4

\* What only the ledger or the phone's word is about.
LEMMA WordKeeps ==
  ASSUME IInv, NetworkLost \/ \E n \in Nodes : Convict(n) \/ Lapse(n)
  PROVE  IInv'
<1>1. /\ acts' \in 0..MaxActs /\ lost' \in BOOLEAN /\ demoted' \subseteq Nodes
      /\ UNCHANGED <<Link, race, paused, pin, awaiting, advisory, backoff, ticked, repin, landed, away>>
  <2>1. CASE NetworkLost
    BY <2>1, GestureTypes DEF NetworkLost
  <2>2. ASSUME NEW n \in Nodes, Convict(n)
        PROVE  /\ acts' \in 0..MaxActs /\ lost' \in BOOLEAN /\ demoted' \subseteq Nodes
               /\ UNCHANGED <<Link, race, paused, pin, awaiting, advisory, backoff, ticked, repin, landed, away>>
    BY <2>2, GestureTypes DEF Convict
  <2>3. ASSUME NEW n \in Nodes, Lapse(n)
        PROVE  /\ acts' \in 0..MaxActs /\ lost' \in BOOLEAN /\ demoted' \subseteq Nodes
               /\ UNCHANGED <<Link, race, paused, pin, awaiting, advisory, backoff, ticked, repin, landed, away>>
    BY <2>3, GestureTypes DEF Lapse
  <2> QED BY <2>1, <2>2, <2>3
<1>2. UNCHANGED <<connected, bound, binds>>
  BY <1>1
<1>3. AwayPart' /\ HuntPart'
  BY <1>1, <1>2, Types DEF AwayPart, HuntPart
<1> QED BY <1>1, <1>3, GestureTypes, LinkUntouched

\* A new default network marks the sockets of the old one, and hunts behind a
\* live link; a dark wallet relinks.
LEMMA NetworkUpKeeps ==
  ASSUME IInv, NetworkUp
  PROVE  IInv'
<1>1. PICK kind \in {"available", "moved"} :
        LET left == kind = "moved" \/ lost
            under == connected /\ (left \/ Moved)
            marked == [g \in Gens |-> IF left /\ binds[g].announced
                                      THEN [binds[g] EXCEPT !.moved = TRUE] ELSE binds[g]]
        IN \/ /\ paused \/ connected
              /\ binds' = marked
              /\ race' = IF under /\ ~paused
                         THEN Spawned(Swap("moved")) ELSE race
              /\ UNCHANGED <<connected, bound, backoff, landed>>
           \/ ~paused /\ ~connected /\ Relink
  BY DEF NetworkUp
<1>2. /\ acts' \in 0..MaxActs /\ lost' = FALSE
      /\ UNCHANGED <<paused, pin, demoted, awaiting, advisory, ticked, repin, away>>
  BY GestureTypes DEF NetworkUp
<1>3. CASE ~paused /\ ~connected /\ Relink
  <2>1. Linked'
    BY <1>2, <1>3, Relinks
  <2> QED BY <1>2, <1>3, <2>1, GestureTypes, Relinked
<1> DEFINE left == kind = "moved" \/ lost
           under == connected /\ (left \/ Moved)
           marked == [g \in Gens |-> IF left /\ binds[g].announced
                                     THEN [binds[g] EXCEPT !.moved = TRUE] ELSE binds[g]]
<1>4. CASE /\ paused \/ connected
           /\ binds' = marked
           /\ race' = IF under /\ ~paused THEN Spawned(Swap("moved")) ELSE race
           /\ UNCHANGED <<connected, bound, backoff, landed>>
  <2>1. race \in Races /\ RacePart /\ SwapPart /\ BoundPart /\ LifePart /\ binds \in [Gens -> Binds]
    BY Types
  <2>2. \A x \in Binds : [x EXCEPT !.moved = TRUE] \in Binds
    BY DEF Binds
  <2>3. binds' \in [Gens -> Binds]
    <3> HIDE DEF left
    <3> QED BY <1>4, <2>1, <2>2
  <2>4. bound # 0 => /\ binds'[bound].url = binds[bound].url /\ binds'[bound].sock = binds[bound].sock
                     /\ binds'[bound].retry = binds[bound].retry
                     /\ binds'[bound].announced = binds[bound].announced
                     /\ binds'[bound].fired = binds[bound].fired /\ binds'[bound].swapDue = binds[bound].swapDue
                     /\ binds'[bound].ctl = binds[bound].ctl /\ binds'[bound].task = binds[bound].task
                     /\ binds'[bound].deaf = binds[bound].deaf /\ binds'[bound].rose = binds[bound].rose
                     /\ (binds[bound].moved => binds'[bound].moved)
                     /\ (~binds[bound].announced => binds'[bound].moved = binds[bound].moved)
    <3>1. \A x \in Binds : LET y == [x EXCEPT !.moved = TRUE]
                           IN /\ y.url = x.url /\ y.sock = x.sock /\ y.retry = x.retry
                              /\ y.announced = x.announced /\ y.fired = x.fired /\ y.swapDue = x.swapDue
                              /\ y.ctl = x.ctl /\ y.task = x.task /\ y.deaf = x.deaf /\ y.rose = x.rose /\ y.moved
      BY DEF Binds
    <3>2. bound # 0 => /\ binds'[bound] \in {binds[bound], [binds[bound] EXCEPT !.moved = TRUE]}
                       /\ (~binds[bound].announced => binds'[bound] = binds[bound])
      <4> HIDE DEF left
      <4> QED BY <1>4, Types
    <3>3. bound # 0 => binds[bound] \in Binds
      BY Types
    <3>4. CASE binds'[bound] = binds[bound]
      BY <3>4
    <3>5. CASE bound # 0 /\ binds'[bound] = [binds[bound] EXCEPT !.moved = TRUE]
      <4> DEFINE x == binds[bound]
                 y == [x EXCEPT !.moved = TRUE]
      <4>1. x \in Binds /\ binds'[bound] = y
        BY <3>3, <3>5
      <4>2. /\ y.url = x.url /\ y.sock = x.sock /\ y.retry = x.retry
            /\ y.announced = x.announced /\ y.fired = x.fired /\ y.swapDue = x.swapDue
            /\ y.ctl = x.ctl /\ y.task = x.task /\ y.deaf = x.deaf /\ y.rose = x.rose /\ y.moved
        BY <3>1, <4>1
      <4>3. ~x.announced => y = x
        BY <3>2, <3>5
      <4> HIDE DEF x, y
      <4>4. ~x.announced => y.moved = x.moved
        BY <4>3
      <4> QED BY <4>1, <4>2, <4>4 DEF x
    <3> QED BY <3>2, <3>4, <3>5
  <2>5. race' = race \/ (connected /\ race' = Spawned(Swap("moved")))
    BY <1>4
  <2>6. /\ race' \in Races /\ RacePart' /\ race'.mode.why \in {race.mode.why, "moved"}
        /\ (race'.pc = "dial" <=> race.pc = "dial") /\ (race'.dial = race.dial \/ race'.pc # "dial")
        /\ (race.pc # "off" => race'.pc # "off")
    <3>1. CASE race' = race
      BY <1>2, <1>4, <2>1, <2>4, <3>1, RaceStill DEF BoundPart
    <3>2. CASE race' # race
      <4>1. connected /\ race' = Spawned(Swap("moved")) /\ bound # 0
        BY <2>1, <2>5, <3>2 DEF BoundPart
      <4>2. /\ race' \in Races /\ race.pc = "off" /\ race'.pc = "head" /\ race'.empty = 0
            /\ race'.mode.why = "moved" /\ race'.mode.from = binds[bound].url
            /\ ~race'.mode.tap /\ ~race'.mode.tapped
        BY <3>2, <4>1, SpawnedSwap
      <4>3. RacePart'
        BY <1>4, <2>1, <2>4, <4>1, <4>2, SwapStarts
      <4> QED BY <4>2, <4>3
    <3> QED BY <3>1, <3>2
  <2>7. BoundPart'
    BY <1>2, <1>4, <2>1, <2>4 DEF BoundPart, Bind
  <2>8. LifePart'
    BY <1>2, <1>4, <2>1, <2>4, <2>6 DEF LifePart, Bind, Coming
  <2>9. SwapPart'
    BY <1>4, <2>1, <2>6, SwapStill
  <2>10. AwayPart' /\ HuntPart'
    BY <1>2, <1>4, <2>6, Types DEF AwayPart, HuntPart
  <2>11. TypeOK'
    BY <1>2, <1>4, <2>3, <2>6, Types DEF TypeOK
  <2> QED BY <2>6, <2>7, <2>8, <2>9, <2>10, <2>11 DEF IInv
<1> QED BY <1>1, <1>3, <1>4

----------------------------------------------------------------------------
(* The theorems *)

\* The monitor starts with a search under way and nothing installed.
LEMMA InitIsInv ==
  ASSUME Init
  PROVE  IInv
<1> DEFINE r == [NoRace EXCEPT !.pc = "head"]
<1>1. r \in Races /\ r.pc = "head" /\ r.mode = Cold /\ r.empty = 0
  BY ColdRaces DEF NoRace, Races
<1>2. race = r /\ connected = FALSE /\ bound = 0 /\ binds = [g \in Gens |-> Free]
      /\ paused = FALSE /\ pin = None /\ away = FALSE /\ landed = 0 /\ backoff = 0
      /\ repin = [pc |-> "off", url |-> None, was |-> FALSE, hit |-> FALSE]
      /\ awaiting = {} /\ demoted = {} /\ advisory = FALSE /\ lost = FALSE /\ ticked = FALSE /\ acts = 0
  BY DEF Init
<1> HIDE DEF r
<1>3. TypeOK
  <2>1. binds \in [Gens -> Binds] /\ race \in Races
    BY <1>1, <1>2, BindTypes
  <2>2. repin \in [pc : {"off", "swapped", "set"}, url : Nodes \cup {None}, was : BOOLEAN, hit : BOOLEAN]
    BY <1>2
  <2>3. 0 \in 0..MaxGen /\ 0 \in 0..MaxActs
    BY DagMonitorAssumption
  <2>4. paused \in BOOLEAN /\ connected \in BOOLEAN /\ advisory \in BOOLEAN /\ lost \in BOOLEAN
        /\ ticked \in BOOLEAN /\ away \in BOOLEAN
    BY <1>2
  <2>5. pin \in Nodes \cup {None} /\ awaiting \subseteq Nodes /\ demoted \subseteq Nodes
    BY <1>2
  <2>6. backoff \in 0..2 /\ landed \in 0..3 /\ acts \in 0..MaxActs /\ bound \in 0..MaxGen
    BY <1>2, <2>3
  <2> QED BY <2>1, <2>2, <2>4, <2>5, <2>6 DEF TypeOK
<1>4. RacePart
  <2>1. 0 <= Stranded
    BY Limits
  <2> QED BY <1>1, <1>2, <2>1, ColdRaces DEF RacePart, Leaves
<1>5. BoundPart /\ LifePart /\ AwayPart /\ SwapPart /\ HuntPart
  BY <1>1, <1>2 DEF BoundPart, LifePart, AwayPart, SwapPart, HuntPart
<1> QED BY <1>3, <1>4, <1>5 DEF IInv

\* Every step keeps the inductive invariant.
LEMMA NextKeepsInv ==
  ASSUME IInv, [Next]_vars
  PROVE  IInv'
<1>1. CASE RaceStep
  BY <1>1, RaceHeadKeeps, RoundEmptyKeeps, RoundWonKeeps, HoldWinnerKeeps, DialAnsweredKeeps, DialFailedKeeps
     DEF RaceStep
<1>2. ASSUME NEW g \in Gens,
             \/ SocketUp(g) \/ SocketDrops(g) \/ Teardown(g) \/ TaskStep(g) \/ SubscriptionFails(g)
             \/ Tick(g) \/ Hush(g) \/ Predial(g) \/ SilenceFalls(g)
      PROVE  IInv'
  BY <1>2, SocketUpKeeps, SocketDropsKeeps, TeardownKeeps, DiscardCtlKeeps, OnConnectedKeeps, PublishKeeps,
     OnDisconnectedKeeps, SubscriptionFailsKeeps, TickKeeps, HushKeeps, PredialKeeps, SilenceFallsKeeps
     DEF TaskStep
<1>3. CASE Pause \/ Resume \/ Tap \/ HardReconnect \/ Watchdog
  BY <1>3, PauseKeeps, ResumeKeeps, TapKeeps, ReconnectKeeps
<1>4. CASE PinStart \/ PinSwaps \/ PinRelinks
  BY <1>4, PinStartKeeps, PinSwapsKeeps, PinRelinksKeeps
<1>5. CASE NetworkLost \/ NetworkUp \/ \E n \in Nodes : Convict(n) \/ Lapse(n)
  BY <1>5, WordKeeps, NetworkUpKeeps
<1>6. CASE UNCHANGED vars
  <2>1. UNCHANGED <<paused, pin, connected, bound, binds, race, awaiting, demoted, advisory, backoff,
                    lost, ticked, repin, acts, landed, away>>
    BY <1>6 DEF vars
  <2>2. AwayPart' /\ HuntPart'
    BY <2>1, Types DEF AwayPart, HuntPart
  <2> QED BY <2>1, <2>2, GestureTypes, Types, LinkUntouched DEF TypeOK
<1> QED BY <1>1, <1>2, <1>3, <1>4, <1>5, <1>6 DEF Next

\* The inductive invariant holds in every state.
LEMMA InvHolds == Spec => []IInv
<1>1. Init => IInv
  BY InitIsInv
<1>2. IInv /\ [Next]_vars => IInv'
  BY NextKeepsInv
<1> QED BY <1>1, <1>2, PTL DEF Spec

\* The monitor is consistent in every state: a link that reads connected is
\* bound to a socket its consumers were told of, nothing is installed in the
\* background, and at most two silence swaps come in a row.
THEOREM MonitorIsConsistent == Spec => []MonitorInv
<1>1. IInv => MonitorInv
  <2> SUFFICES ASSUME IInv PROVE MonitorInv
    OBVIOUS
  <2>1. TypeOK /\ BoundPart /\ AwayPart /\ SwapPart
    BY Types
  <2>2. LiveMeansBound
    BY <2>1 DEF LiveMeansBound, BoundPart, Bind
  <2>3. AwayIsDark
    BY <2>1 DEF AwayIsDark, AwayPart
  <2>4. SilenceBudget
    BY <2>1 DEF SilenceBudget, SwapPart, TypeOK
  <2> QED BY <2>1, <2>2, <2>3, <2>4 DEF MonitorInv
<1> QED BY <1>1, InvHolds, PTL

\* A dark wallet that is neither paused nor pinned is being searched for, or
\* its next socket is coming up: no end of a race leaves it to nobody.
THEOREM DarkIsAlwaysHunted == Spec => []DarkIsHunted
<1>1. IInv => DarkIsHunted
  <2> SUFFICES ASSUME IInv, ~paused, pin = None, ~connected, repin.pc = "off", race.pc = "off"
               PROVE  /\ bound # 0
                      /\ \/ "up" \in {binds[bound].ctl[i] : i \in DOMAIN binds[bound].ctl}
                         \/ binds[bound].task = "publishing"
                         \/ binds[bound].deaf
    BY DEF DarkIsHunted
  <2>1. bound # 0
    BY Types DEF HuntPart
  <2>2. Coming \/ Bind.task = "publishing" \/ Bind.deaf
    BY <2>1, Types DEF LifePart
  <2>3. ASSUME Coming PROVE "up" \in {binds[bound].ctl[i] : i \in DOMAIN binds[bound].ctl}
    <3> DEFINE c == binds[bound].ctl
    <3>1. 1 \in DOMAIN <<"up">> /\ <<"up">>[1] = "up" /\ 1 \in DOMAIN <<"up", "down">> /\ <<"up", "down">>[1] = "up"
      OBVIOUS
    <3>2. c = <<"up">> \/ c = <<"up", "down">>
      BY <2>3 DEF Coming, Bind
    <3> HIDE DEF c
    <3>3. 1 \in DOMAIN c /\ c[1] = "up"
      BY <3>1, <3>2
    <3>4. "up" \in {c[i] : i \in DOMAIN c}
      BY <3>3
    <3> QED BY <3>4 DEF c
  <2> QED BY <2>1, <2>2, <2>3 DEF Bind
<1> QED BY <1>1, InvHolds, PTL

\* What a relink does to an unpinned link: nothing.
LEMMA RelinkLeaves ==
  ASSUME Relink, pin = None
  PROVE  connected' = connected
BY DEF Relink

\* What takes down an unpinned link in the foreground is a gesture, its own
\* socket's end, the watchdog on its own silence, or a successor installed in
\* that step, which a silence hunt finds only past the whole deadline.
THEOREM LinksFallForAReason == Spec => LinkFallsForAReason
<1>1. IInv /\ [Next]_vars =>
        [connected /\ ~connected' /\ pin = None /\ ~paused =>
           \/ acts' # acts \/ repin' # repin
           \/ binds[bound].sock # "up"
           \/ binds[bound].quiet = WatchdogStall
           \/ /\ bound' \notin {0, bound}
              /\ race.mode.why = "silent" /\ ~race.mode.tap /\ ~Moved => binds[bound].fired]_vars
  <2> SUFFICES ASSUME IInv, Next, connected, ~connected', pin = None, ~paused,
                      acts' = acts, repin' = repin, binds[bound].sock = "up",
                      binds[bound].quiet # WatchdogStall
               PROVE  /\ bound' \notin {0, bound}
                      /\ race.mode.why = "silent" /\ ~race.mode.tap /\ ~Moved => binds[bound].fired
    BY DEF vars
  <2>1. bound # 0 /\ BoundPart /\ LifePart /\ RacePart /\ acts \in 0..MaxActs
    BY Types DEF BoundPart, TypeOK
  <2>2. CASE HoldWinner
    <3>1. /\ race.pc = "hold"
          /\ Gate(race.mode) = "Install"
          /\ InstallBind(race.winner, FALSE, RetireCause(race.mode))
      BY <2>2 DEF HoldWinner
    <3>2. race.winner \in Nodes
      BY <2>1, <3>1 DEF RacePart
    <3>3. bound' # 0 /\ bound' # bound
      BY <3>1, <3>2, InstallFacts
    <3>4. ASSUME race.mode.why = "silent", ~race.mode.tap, ~Moved PROVE binds[bound].fired
      <4>1. bound = race.mode.gen
        BY <2>1, <3>4 DEF RacePart
      <4>2. ~IsJoined(race.mode)
        BY <3>4 DEF IsJoined
      <4>3. SwapFallen(race.mode)
        BY <3>1, <3>4, <4>1, <4>2 DEF Gate
      <4> QED BY <2>1, <4>3 DEF SwapFallen, BoundPart, Bind
    <3> QED BY <3>3, <3>4
  <2>3. CASE RaceHead \/ RoundEmpty \/ RoundWon
    BY <2>3 DEF RaceHead, RoundEmpty, RoundWon
  <2>4. CASE DialAnswered
    <3>1. connected' = connected
      BY <2>4 DEF DialAnswered
    <3> QED BY <3>1
  <2>5. CASE DialFailed
    <3>1. race.pc = "dial" /\ ~binds[race.dial].rose
      BY <2>5 DEF DialFailed
    <3>2. race.dial = bound /\ (binds[bound].rose <=> binds[bound].sock # "dialing")
      BY <2>1, <3>1 DEF LifePart, Bind
    <3> QED BY <3>1, <3>2
  <2>6. ASSUME NEW g \in Gens,
               \/ SocketUp(g) \/ SocketDrops(g) \/ Teardown(g) \/ DiscardCtl(g) \/ SubscriptionFails(g)
               \/ Tick(g) \/ Hush(g) \/ Predial(g) \/ SilenceFalls(g)
        PROVE  FALSE
    BY <2>6 DEF SocketUp, SocketDrops, Teardown, DiscardCtl, SubscriptionFails, Tick, Hush, Predial, SilenceFalls
  <2>7. ASSUME NEW g \in Gens, Publish(g) PROVE FALSE
    BY <2>7 DEF Publish
  <2>8. ASSUME NEW g \in Gens, OnConnected(g) PROVE FALSE
    <3>1. bound = g /\ binds[g].ctl # <<>> /\ Head(binds[g].ctl) = "up"
      BY <2>8 DEF OnConnected, Hears, IsCurrentBind
    <3>2. Bind.ctl \in {<<>>, <<"up">>}
      BY <2>1 DEF LifePart, Bind
    <3>3. Coming
      BY <3>1, <3>2 DEF Coming, Bind
    <3> QED BY <2>1, <3>3 DEF LifePart
  <2>9. ASSUME NEW g \in Gens, OnDisconnected(g) PROVE FALSE
    <3>1. bound = g /\ binds[g].ctl # <<>> /\ Head(binds[g].ctl) = "down"
      BY <2>9 DEF OnDisconnected, Hears, IsCurrentBind
    <3>2. Bind.ctl \in {<<>>, <<"up">>}
      BY <2>1 DEF LifePart, Bind
    <3>3. Head(<<"up">>) = "up"
      OBVIOUS
    <3> QED BY <3>1, <3>2, <3>3 DEF Bind
  <2>10. CASE Pause \/ Resume \/ Tap \/ HardReconnect \/ PinStart \/ NetworkLost \/ NetworkUp
              \/ \E n \in Nodes : Convict(n)
    <3>1. Acts
      BY <2>10 DEF Pause, Resume, Tap, HardReconnect, PinStart, NetworkLost, NetworkUp, Convict
    <3> QED BY <2>1, <3>1 DEF Acts
  <2>11. CASE Watchdog
    <3>1. binds[bound].quiet = WatchdogStall
      BY <2>1, <2>11 DEF Watchdog
    <3> QED BY <3>1
  <2>12. CASE PinSwaps
    <3>1. repin.pc = "swapped" /\ repin'.pc = "set"
      BY <2>12, GestureTypes DEF PinSwaps
    <3> QED BY <3>1
  <2>13. CASE PinRelinks
    BY <2>13, RelinkLeaves DEF PinRelinks
  <2>14. CASE \E n \in Nodes : Lapse(n)
    BY <2>14 DEF Lapse
  <2> QED BY <2>2, <2>3, <2>4, <2>5, <2>6, <2>7, <2>8, <2>9, <2>10, <2>11, <2>12, <2>13, <2>14
          DEF Next, RaceStep, TaskStep
<1> QED BY <1>1, InvHolds, PTL DEF Spec, LinkFallsForAReason

\* The node a tap asked to leave is never the one the hunt installs over it,
\* however the hunt was cast when the tap landed.
THEOREM TapsLeave == Spec => TapLeaves
<1>1. IInv /\ [Next]_vars =>
        [race.pc = "hold" /\ race'.pc = "dial" /\ connected
         /\ (race.mode.why = "asked" \/ race.mode.tap \/ race.mode.tapped) =>
           race.winner # binds[bound].url]_vars
  <2> SUFFICES ASSUME IInv, Next, race.pc = "hold", race'.pc = "dial", connected,
                      race.mode.why = "asked" \/ race.mode.tap \/ race.mode.tapped
               PROVE  race.winner # binds[bound].url
    BY DEF vars
  <2> DEFINE m == race.mode
  <2>1. bound # 0 /\ BoundPart /\ RacePart /\ race \in Races /\ m.why \in {"cold", "asked", "silent", "moved"}
        /\ m.tap \in BOOLEAN /\ m.tapped \in BOOLEAN
    BY Types, RaceTypes DEF BoundPart
  <2>2. race' # race
    OBVIOUS
  <2>3. Cold.why = "cold" /\ ~(Spawned(Cold).pc = "dial") /\ ~(Spawned(Swap("asked")).pc = "dial")
        /\ ~(Spawned(Swap("moved")).pc = "dial") /\ ~(Spawned(Swap("silent")).pc = "dial")
    BY ColdRaces DEF Spawned, NoRace
  <2>4. HoldWinner
    <3>1. CASE RaceHead \/ RoundEmpty \/ RoundWon \/ DialAnswered \/ DialFailed
      BY <3>1 DEF RaceHead, RoundEmpty, RoundWon, DialAnswered, DialFailed
    <3>2. ASSUME NEW g \in Gens,
                 \/ SocketUp(g) \/ SocketDrops(g) \/ Teardown(g) \/ DiscardCtl(g) \/ Publish(g)
                 \/ SubscriptionFails(g) \/ Hush(g)
          PROVE  FALSE
      BY <2>2, <3>2 DEF SocketUp, SocketDrops, Teardown, DiscardCtl, Publish, SubscriptionFails, Hush
    <3>3. ASSUME NEW g \in Gens, OnConnected(g) \/ OnDisconnected(g) PROVE FALSE
      <4>1. race' = race \/ race' = Spawned(Cold)
        BY <3>3 DEF OnConnected, OnDisconnected
      <4> QED BY <2>2, <2>3, <4>1
    <3>4. ASSUME NEW g \in Gens, Tick(g) PROVE FALSE
      <4>1. race' = race \/ race' = [race EXCEPT !.mode.spoke = TRUE]
        BY <3>4 DEF Tick
      <4>2. race'.pc = race.pc
        BY <2>1, <4>1 DEF Races
      <4> QED BY <4>2
    <3>5. ASSUME NEW g \in Gens, Predial(g) \/ SilenceFalls(g) PROVE FALSE
      <4>1. race' = race \/ race' = Spawned(Swap("silent"))
        BY <3>5 DEF Predial, SilenceFalls
      <4> QED BY <2>2, <2>3, <4>1
    <3>6. CASE Pause \/ PinStart \/ PinSwaps \/ NetworkLost \/ \E n \in Nodes : Convict(n) \/ Lapse(n)
      BY <2>2, <3>6 DEF Pause, PinStart, PinSwaps, NetworkLost, Convict, Lapse
    <3>7. Relink => race' = race \/ race' = Spawned(Cold)
      BY DEF Relink
    <3>8. \A why : RetireAndRelink(why) => race' = race \/ race' = Spawned(Cold)
      BY DEF RetireAndRelink
    <3>9. CASE Resume \/ HardReconnect \/ Watchdog \/ PinRelinks \/ NetworkUp
      <4>1. race' = race \/ race' = Spawned(Cold) \/ race' = Spawned(Swap("moved"))
        BY <3>7, <3>8, <3>9 DEF Resume, HardReconnect, Watchdog, PinRelinks, NetworkUp
      <4> QED BY <2>2, <2>3, <4>1
    <3>10. CASE Tap
      <4> DEFINE t == (race.mode.why \in {"silent", "moved"})
      <4>1. race' = race \/ race' = Spawned(Cold) \/ race' = Spawned(Swap("asked"))
            \/ race' = [race EXCEPT !.mode.tap = t]
        BY <3>8, <3>10 DEF Tap
      <4> HIDE DEF t
      <4>2. [race EXCEPT !.mode.tap = t].pc = race.pc
        BY <2>1 DEF Races
      <4> QED BY <2>2, <2>3, <4>1, <4>2
    <3> QED BY <3>1, <3>2, <3>3, <3>4, <3>5, <3>6, <3>9, <3>10 DEF Next, RaceStep, TaskStep
  <2>5. Gate(m) = "Install" /\ ~TapRulesOut(m, race.winner)
    <3>1. \/ Gate(m) = "StandDown" /\ race' = NoRace
          \/ race' = [race EXCEPT !.pc = "head", !.winner = None]
          \/ Gate(m) = "Install" /\ ~TapRulesOut(m, race.winner)
      BY <2>4 DEF HoldWinner, RaceEnds
    <3>2. NoRace.pc # "dial" /\ [race EXCEPT !.pc = "head", !.winner = None].pc # "dial"
      BY <2>1, ColdRaces DEF Races
    <3> QED BY <3>1, <3>2
  <2>6. pin = None /\ m.why # "cold"
    <3>1. MayBind(m)
      BY <2>5 DEF Gate
    <3> QED BY <3>1 DEF MayBind
  <2>7. binds[bound].url = m.from
    BY <2>1, <2>6 DEF RacePart, Bind
  <2>8. CASE Leaves(m)
    BY <2>1, <2>7, <2>8 DEF RacePart
  <2>9. CASE ~Leaves(m)
    <3>1. m.tap /\ m.why = "moved" /\ ~m.tapped
      BY <2>1, <2>6, <2>9 DEF Leaves, RacePart
    <3>2. IsJoined(m)
      BY <3>1 DEF IsJoined
    <3>3. Joined(m) = [m EXCEPT !.tapped = TRUE, !.tap = FALSE]
      BY <3>1, <3>2 DEF Joined
    <3>4. Joined(m).why = "moved" /\ Joined(m).tapped /\ Joined(m).from = m.from
      <4>1. m \in Modes
        BY <2>1, RaceTypes
      <4> QED BY <3>1, <3>3, <4>1 DEF Modes
    <3>5. race.winner # m.from
      BY <2>5, <3>2, <3>4 DEF TapRulesOut, RoundExclusions
    <3> QED BY <2>7, <3>5
  <2> QED BY <2>8, <2>9
<1> QED BY <1>1, InvHolds, PTL DEF Spec, TapLeaves

=============================================================================
