----------------------------- MODULE DagMonitor -----------------------------
(***************************************************************************)
(* The one link of the wallet (chain/dag_monitor.rs): the installed socket *)
(* and its identity, the single race that finds its successor, the silence *)
(* clock, and the gestures of the user, the app's life cycle and the       *)
(* phone's network that tear the link down or ask for another.             *)
(*                                                                         *)
(* A task runs from one suspension to the next in one step: the suspension *)
(* points are the round of probes, the hold of a winner, the dial, the     *)
(* subscription before a publish, and the channels of a socket's own task. *)
(* set_pinned_node is cut where its comments argue about another worker.   *)
(*                                                                         *)
(* A generation is a slot: it is used again once its socket is closed, its *)
(* task has exited and the race does not name it. The time a socket has    *)
(* been silent is a level, and the health ledger is the set it demotes.    *)
(***************************************************************************)
EXTENDS Naturals, Sequences, FiniteSets, FiniteSetsExt

CONSTANTS
  Nodes,        \* endpoints; any of them may be pinned
  None,
  Rounds,       \* SWAP_HUNT_ROUNDS (3)
  Stranded,     \* the empty rounds after which hygiene degrades (2)
  MaxGen,       \* bound: sockets that exist at a time
  MaxActs       \* bound: gestures of the user, the app and the phone, and demotions

ASSUME DagMonitorAssumption ==
  /\ None \notin Nodes \cup Nat
  /\ Rounds \in Nat \ {0} /\ Stranded \in Nat \ {0} /\ MaxGen \in Nat \ {0}
  /\ MaxActs \in Nat

VARIABLES
  paused,             \* Inner::paused
  pin,                \* direct_url, or None
  connected,          \* is_connected
  bound,              \* the installed bind's generation, or 0
  binds,              \* binds[g]: BoundSocket g, its client and its task
  race,               \* race_running and the race task
  awaiting,           \* the parked bind failures not yet judged
  demoted,            \* EndpointHealth::demoted_set
  advisory,           \* hygiene_advisory
  backoff,            \* silence_backoff
  lost,               \* network_lost_pending
  ticked,             \* last_tick_at is set
  repin,              \* the set_pinned_node in flight; `hit`: pause_gen moved since its swap
  acts,               \* what MaxActs counts
  away,               \* no code: the app's last word was pause
  landed              \* no code: silence swaps since the link last held

gestures == <<repin, acts, away>>
ledger == <<awaiting, demoted>>
vars == <<paused, pin, connected, bound, binds, race, awaiting, demoted,
          advisory, backoff, lost, ticked, repin, acts, landed, away>>

Gens == 1..MaxGen

----------------------------------------------------------------------------
(* The silence clock. A level of silence: 0 is under 3 s, then from 3, 9,  *)
(* 12 and 18 s, and 5 is past WATCHDOG_STALL (30 s).                       *)

Deadline == CASE backoff = 0 -> 2 [] backoff = 1 -> 4 [] OTHER -> None
PredialAfter == CASE backoff = 0 -> 1 [] backoff = 1 -> 3 [] OTHER -> None
SilenceDeadline == 2
WatchdogStall == 5

\* The next level some timer of the current deadline tells apart.
Quieter(q) == Min({l \in {PredialAfter, SilenceDeadline, Deadline, WatchdogStall} \ {None} : l > q})

----------------------------------------------------------------------------
(* Race modes. `tap` and `spoke`: a tap, or a tick of the socket `gen`, has *)
(* come since the mode was made.                                           *)

Cold == [why |-> "cold", from |-> None, gen |-> 0, tapped |-> FALSE,
         tap |-> FALSE, spoke |-> FALSE]
Swap(why) == [Cold EXCEPT !.why = why, !.from = binds[bound].url,
                          !.gen = IF why = "silent" THEN bound ELSE 0]

NoRace == [pc |-> "off", mode |-> Cold, empty |-> 0, excluded |-> {}, advisory |-> FALSE,
           winner |-> None, dial |-> 0]

\* degrade_lost_swap
Degraded(m) == IF m.why # "cold" /\ ~connected THEN Cold ELSE m

MayBind(m) ==
  /\ ~paused
  /\ pin = None
  /\ m.why = "cold" => ~connected

Moved == bound # 0 /\ binds[bound].moved

\* silent_incumbent_is_back
IsBack(m) ==
  /\ m.why = "silent"
  /\ ~m.tap
  /\ bound = m.gen
  /\ ~Moved
  /\ m.spoke
  /\ binds[bound].quiet < SilenceDeadline

\* Mutant: a tap into a moved-network hunt is not heard.
JoinsSilence(m) == m.tap /\ m.why = "silent"

\* joined_by_tap
IsJoined(m) ==
  /\ m.tap
  /\ \/ m.why = "silent"
     \/ m.why = "moved" /\ ~m.tapped
Joined(m) == IF ~IsJoined(m) THEN m
             ELSE IF m.why = "silent" THEN [m EXCEPT !.why = "asked", !.gen = 0, !.tap = FALSE, !.spoke = FALSE]
             ELSE [m EXCEPT !.tapped = TRUE, !.tap = FALSE]

IsRecast(m) ==
  /\ m.why \in {"asked", "silent"}
  /\ Moved
  /\ binds[bound].url = m.from

\* recast_if_moved
Recast(m) == IF ~IsRecast(m) THEN m
             ELSE [m EXCEPT !.why = "moved", !.gen = 0, !.spoke = FALSE,
                            !.tapped = (m.why = "asked")]

\* round_exclusions, of the demotions that still count.
RoundExclusions(m, out) ==
  out \cup (IF m.why \in {"asked", "silent"} \/ (m.why = "moved" /\ m.tapped)
            THEN {m.from} ELSE {})

\* retire_cause
RetireCause(m) ==
  IF m.why = "silent" /\ ~m.tap
  THEN IF Moved THEN "network-swap" ELSE "silence-swap"
  ELSE IF m.why = "moved" THEN "network-swap" ELSE "superseded"

\* spawn_race_with: one search at a time, none for a pinned node. A race that
\* runs gets the kick, which only shortens its pauses.
Spawned(m) == IF pin # None \/ race.pc # "off" THEN race
              ELSE [NoRace EXCEPT !.pc = "head", !.mode = m]

----------------------------------------------------------------------------
(* Binds *)

Free == [url |-> None, sock |-> "free", retry |-> FALSE, announced |-> FALSE,
         quiet |-> 0, predialed |-> FALSE, fired |-> FALSE, swapDue |-> FALSE,
         moved |-> FALSE, ctl |-> <<>>, task |-> "idle", rose |-> FALSE, deaf |-> FALSE]

Quieted(b) == [b EXCEPT !.announced = FALSE, !.quiet = 0, !.predialed = FALSE,
                        !.fired = FALSE, !.swapDue = FALSE]

\* A retired bind whose client is closed and whose task has drained exits: its
\* slot is free, but for the dial that may still be waiting for its answer.
Exits(b) == IF b.sock = "down" /\ b.ctl = <<>> /\ b.task = "idle"
            THEN [Free EXCEPT !.rose = b.rose] ELSE b

\* Of a retired bind only its client and its task's channels are left. The
\* detached goodbye closes an open socket, which its task is told of.
Retired(b) ==
  Exits([Free EXCEPT !.task = b.task, !.rose = b.rose,
                     !.sock = IF b.sock = "up" THEN "down" ELSE b.sock,
                     !.ctl = IF b.sock = "up" THEN Append(b.ctl, "down") ELSE b.ctl])

Unused == {g \in Gens : binds[g].sock = "free" /\ g \notin {race.dial, race.mode.gen}}

\* retire_bind: whatever is installed leaves.
RetireBind ==
  /\ bound' = 0
  /\ connected' = FALSE
  /\ binds' = IF bound = 0 THEN binds ELSE [binds EXCEPT ![bound] = Retired(@)]

\* note_silence_swap_landed
CountSwap(why) ==
  backoff' = IF why = "silence-swap" /\ bound # 0 THEN Min({2, backoff + 1}) ELSE backoff

\* install_bind_after: the incumbent is retired, and the new identity is
\* published before its dial. A socket is on the old network until its first
\* publish says otherwise.
InstallBind(url, retry, why) ==
  \E g \in Unused :
    /\ \A h \in Unused : g <= h
    /\ bound' = g
    /\ connected' = FALSE
    /\ binds' = [h \in Gens |->
         IF h = g THEN [Free EXCEPT !.url = url, !.sock = "dialing", !.retry = retry]
         ELSE IF h = bound THEN Retired(binds[h]) ELSE binds[h]]
    /\ CountSwap(why)
    /\ landed' = IF why = "silence-swap" /\ bound # 0 THEN Min({3, landed + 1}) ELSE landed

\* relink after a retirement for `why`, or with none ("superseded").
RetireAndRelink(why) ==
  IF pin # None
  THEN InstallBind(pin, TRUE, why) /\ UNCHANGED race
  ELSE /\ RetireBind
       /\ race' = Spawned(Cold)
       /\ UNCHANGED <<backoff, landed>>

Relink ==
  IF pin # None
  THEN InstallBind(pin, TRUE, "superseded") /\ UNCHANGED race
  ELSE /\ race' = Spawned(Cold)
       /\ UNCHANGED <<bound, connected, binds, backoff, landed>>

----------------------------------------------------------------------------
(* The race task *)

Link == <<connected, bound, binds>>
RaceEnds == race' = NoRace

\* One turn of race_loop's head: stand down, or start a round. A parked failure
\* past its time is not counted any more.
RaceHead ==
  /\ race.pc = "head"
  /\ awaiting' \in SUBSET awaiting
  /\ LET m1 == Degraded(race.mode)
         e1 == IF m1 = race.mode THEN race.empty ELSE 0
         m2 == Joined(m1)
         m3 == Recast(m2)
         e3 == IF m3 = m1 THEN e1 ELSE 0
         adv == e3 >= Stranded /\ m3.why = "cold"
     IN IF ~MayBind(m1) \/ IsBack(m1) THEN RaceEnds
        ELSE race' = [race EXCEPT
               !.pc = "round", !.mode = m3, !.empty = e3, !.advisory = adv,
               !.excluded = RoundExclusions(m3, IF adv THEN {} ELSE demoted) \cup awaiting']
  /\ UNCHANGED <<Link, paused, pin, demoted, advisory, backoff, landed, lost, ticked, gestures>>

\* Mutant: a hunt whose incumbent fell meanwhile ends with it.
SpentDark(m, n) == ~IsJoined(m) /\ ~IsRecast(m) /\ m.why # "cold" /\ n >= Rounds

\* swap_hunt_exhausted
Spent(m, n) == connected /\ ~IsJoined(m) /\ ~IsRecast(m) /\ m.why # "cold" /\ n >= Rounds

\* A round with no winner: the hunt is spent, or pauses and goes on.
RoundEmpty ==
  /\ race.pc = "round"
  /\ LET n == IF race.mode.why = "cold" THEN Min({race.empty + 1, Stranded}) ELSE race.empty + 1
     IN IF Spent(race.mode, n) THEN RaceEnds
        ELSE race' = [race EXCEPT !.pc = "head", !.empty = n, !.excluded = {}]
  /\ UNCHANGED <<Link, paused, pin, ledger, advisory, backoff, landed, lost, ticked, gestures>>

\* A round with a winner, up to the hold.
RoundWon ==
  /\ race.pc = "round"
  /\ \E n \in Nodes \ race.excluded :
       IF ~MayBind(race.mode) \/ IsBack(race.mode) THEN RaceEnds
       ELSE race' = [race EXCEPT !.pc = "hold", !.winner = n, !.empty = 0,
                                          !.excluded = {}]
  /\ UNCHANGED <<Link, paused, pin, ledger, advisory, backoff, landed, lost, ticked, gestures>>

\* Mutant: a pre-dialled winner comes in as soon as it answers.
SwapAtOnce(m) == TRUE

\* install_gate's last question: has the swap stage fallen on this socket?
SwapFallen(m) == binds[bound].swapDue

\* install_gate, then the tap asked once more, then the install.
Gate(m) ==
  CASE ~MayBind(m) -> "StandDown"
    [] OTHER ->
       IF m.why # "silent" \/ IsJoined(m) THEN "Install"
       ELSE IF IsBack(m) THEN "StandDown"
       ELSE IF bound # m.gen \/ ~connected \/ Moved \/ SwapFallen(m) THEN "Install"
       ELSE "Hold"

TapRulesOut(m, n) == IsJoined(m) /\ n \in RoundExclusions(Joined(m), {})

\* The incumbent left, the hunt that dials is a cold one: its next head finds
\* the wallet dark and degrades it, or finds it pinned or paused and ends.
HoldWinner ==
  /\ race.pc = "hold"
  /\ LET m == race.mode
         gate == Gate(m)
     IN \/ /\ gate = "StandDown"
           /\ RaceEnds
           /\ UNCHANGED <<Link, advisory, backoff, landed>>
        \/ /\ gate = "Hold"      \* held past its limit: probe again
           /\ race' = [race EXCEPT !.pc = "head", !.winner = None]
           /\ UNCHANGED <<Link, advisory, backoff, landed>>
        \/ /\ gate = "Install" /\ TapRulesOut(m, race.winner)
           /\ race' = [race EXCEPT !.pc = "head", !.winner = None]
           /\ UNCHANGED <<Link, advisory, backoff, landed>>
        \/ /\ gate = "Install" /\ ~TapRulesOut(m, race.winner)
           /\ InstallBind(race.winner, FALSE, RetireCause(m))
           /\ advisory' = (race.advisory /\ race.winner \in demoted)
           /\ race' = [NoRace EXCEPT !.pc = "dial", !.dial = bound']
  /\ UNCHANGED <<paused, pin, ledger, lost, ticked, gestures>>

\* client.connect answered Ok.
DialAnswered ==
  /\ race.pc = "dial"
  /\ binds[race.dial].rose
  /\ LET b == [binds EXCEPT ![race.dial].rose = FALSE]
     IN IF paused
        THEN /\ connected' = FALSE /\ bound' = 0
             /\ binds' = [g \in Gens |-> IF g = bound THEN Retired(b[g]) ELSE b[g]]
             /\ RaceEnds
        ELSE /\ binds' = b
             /\ UNCHANGED <<connected, bound>>
             /\ IF bound = race.dial THEN RaceEnds
                ELSE race' = [race EXCEPT !.pc = "head", !.dial = 0]
  /\ UNCHANGED <<paused, pin, ledger, advisory, backoff, landed, lost, ticked, gestures>>

\* client.connect failed, or outlived its envelope: judge_bind_failure, and
\* whatever is installed is retired. A failure that is not the node's parks
\* nothing, which is a failure parked and gone by the next head.
DialFailed ==
  /\ race.pc = "dial"
  /\ ~binds[race.dial].rose
  /\ awaiting' = IF bound = race.dial THEN awaiting \cup {binds[race.dial].url} ELSE awaiting
  /\ bound' = 0
  /\ connected' = FALSE
  /\ binds' = [g \in Gens |->
       LET b == IF g = bound THEN Retired(binds[g]) ELSE binds[g]
       IN IF g = race.dial THEN Exits([b EXCEPT !.sock = "down"]) ELSE b]
  /\ race' = [race EXCEPT !.pc = "head", !.dial = 0]
  /\ UNCHANGED <<paused, pin, demoted, advisory, backoff, landed, lost, ticked, gestures>>

RaceStep == RaceHead \/ RoundEmpty \/ RoundWon \/ HoldWinner \/ DialAnswered \/ DialFailed

----------------------------------------------------------------------------
(* The sockets, and the task that services each of them (bind_loop). *)

Rest == <<paused, pin, demoted, advisory, lost, gestures>>

\* A dial comes up, also one whose bind has been retired meanwhile.
SocketUp(g) ==
  /\ binds[g].sock = "dialing" /\ Len(binds[g].ctl) < 2
  /\ binds' = [binds EXCEPT ![g].sock = "up", ![g].rose = (race.dial = g), ![g].ctl = Append(@, "up")]
  /\ UNCHANGED <<Rest, connected, bound, race, awaiting, backoff, ticked, landed>>

\* The node goes, or the network; a pinned client dials again by itself.
SocketDrops(g) ==
  /\ g = bound /\ binds[g].sock = "up" /\ Len(binds[g].ctl) < 2
  /\ binds' = [binds EXCEPT ![g].sock = IF binds[g].retry THEN "dialing" ELSE "down",
                            ![g].ctl = Append(@, "down")]
  /\ UNCHANGED <<Rest, connected, bound, race, awaiting, backoff, ticked, landed>>

\* The detached goodbye of a bind retired while it dialled.
Teardown(g) ==
  /\ g # bound /\ binds[g].sock \in {"dialing", "up"}
  /\ binds' = [binds EXCEPT ![g] = Exits([@ EXCEPT !.sock = "down",
       !.ctl = IF binds[g].sock = "up" THEN Append(binds[g].ctl, "down") ELSE binds[g].ctl])]
  /\ UNCHANGED <<Rest, connected, bound, race, awaiting, backoff, ticked, landed>>

IsCurrentBind(g) == bound = g

Hears(g, e) ==
  /\ binds[g].task = "idle" /\ binds[g].ctl # <<>> /\ Head(binds[g].ctl) = e
Heard(g) == [binds EXCEPT ![g].ctl = Tail(@)]

\* discard_ctl
DiscardCtl(g) ==
  /\ \E e \in {"up", "down"} : Hears(g, e)
  /\ ~IsCurrentBind(g)
  /\ binds' = [Heard(g) EXCEPT ![g] = Exits(@)]
  /\ UNCHANGED <<Rest, connected, bound, race, awaiting, backoff, ticked, landed>>

Refused(g) == pin = None /\ ~advisory /\ ~paused /\ binds[g].url \in demoted

\* on_connected up to its subscriptions: the parked strikes are settled, and a
\* demoted node is refused.
OnConnected(g) ==
  /\ Hears(g, "up") /\ IsCurrentBind(g)
  /\ awaiting' = {}
  /\ IF Refused(g)
     THEN /\ bound' = 0 /\ connected' = FALSE
          /\ binds' = [Heard(g) EXCEPT ![g] = Retired(@)]
          /\ race' = Spawned(Cold)
     ELSE /\ binds' = [Heard(g) EXCEPT ![g].task = "publishing"]
          /\ UNCHANGED <<connected, bound, race>>
  /\ UNCHANGED <<Rest, backoff, ticked, landed>>

\* Mutant: the socket is published without asking whether it is still installed.
PublishBlind(g) == TRUE

StillInstalled(g) == bound = g

\* The publish, under the lock a retirement takes.
Publish(g) ==
  /\ binds[g].task = "publishing"
  /\ IF StillInstalled(g)
     THEN /\ connected' = TRUE
          /\ binds' = [binds EXCEPT ![g] = [Quieted(@) EXCEPT !.announced = TRUE,
                                             !.moved = FALSE, !.task = "idle"]]
     ELSE /\ binds' = [binds EXCEPT ![g] = Exits([@ EXCEPT !.task = "idle"])]
          /\ UNCHANGED connected
  /\ UNCHANGED <<Rest, bound, race, awaiting, backoff, ticked, landed>>

\* handle_connect failed locally: the bind stays, unpublished and unowned.
SubscriptionFails(g) ==
  /\ binds[g].task = "publishing"
  /\ bound = g
  /\ binds' = [binds EXCEPT ![g].task = "idle", ![g].deaf = TRUE]
  /\ UNCHANGED <<Rest, connected, bound, race, awaiting, backoff, ticked, landed>>

\* on_disconnected
OnDisconnected(g) ==
  /\ Hears(g, "down") /\ IsCurrentBind(g)
  /\ IF pin # None
     THEN /\ connected' = FALSE
          /\ binds' = [Heard(g) EXCEPT ![g] = Quieted(@)]
          /\ UNCHANGED <<bound, race>>
     ELSE IF ~connected
     THEN /\ binds' = [Heard(g) EXCEPT ![g] = Quieted(@)]
          /\ UNCHANGED <<connected, bound, race>>
     ELSE /\ connected' = FALSE /\ bound' = 0
          /\ binds' = [h \in Gens |-> IF h \in {g, bound} THEN Retired(Heard(g)[h]) ELSE binds[h]]
          /\ race' = IF paused THEN race ELSE Spawned(Cold)
  /\ UNCHANGED <<Rest, awaiting, backoff, ticked, landed>>

\* mark_tick and SilenceClock::tick, of one socket
Ticks(b) == [Quieted(b) EXCEPT !.announced = TRUE]

\* A DAA tick. The link held when a minute has passed with no long silence.
Tick(g) ==
  /\ g = bound /\ binds[g].announced /\ binds[g].task = "idle" /\ binds[g].sock = "up"
  /\ \E held \in {b \in BOOLEAN : b => binds[g].quiet < SilenceDeadline} :
       /\ backoff' = IF held THEN 0 ELSE backoff
       /\ landed' = IF held THEN 0 ELSE landed
  /\ binds' = [binds EXCEPT ![g] = Ticks(@)]
  /\ race' = IF race.mode.why = "silent" /\ race.mode.gen = g
             THEN [race EXCEPT !.mode.spoke = TRUE] ELSE race
  /\ ticked' = TRUE
  /\ UNCHANGED <<Rest, connected, bound, awaiting>>

\* Time passes with no tick.
Hush(g) ==
  /\ g = bound /\ binds[g].announced /\ binds[g].quiet < WatchdogStall
  /\ binds' = [binds EXCEPT ![g].quiet = Quieter(@)]
  /\ UNCHANGED <<Rest, connected, bound, race, awaiting, backoff, ticked, landed>>

\* on_silence_predial: a hunt that holds its winner. Our own page in flight only
\* makes both stages fall later.
Predial(g) ==
  /\ g = bound /\ binds[g].announced /\ ~binds[g].predialed
  /\ Deadline # None /\ binds[g].quiet >= PredialAfter
  /\ binds' = [binds EXCEPT ![g].predialed = TRUE]
  /\ race' = IF connected /\ ~paused THEN Spawned(Swap("silent")) ELSE race
  /\ UNCHANGED <<Rest, connected, bound, awaiting, backoff, ticked, landed>>

\* on_silence: the held winner may come in.
SilenceFalls(g) ==
  /\ g = bound /\ binds[g].announced /\ binds[g].predialed /\ ~binds[g].fired
  /\ Deadline # None /\ binds[g].quiet >= Deadline
  /\ binds' = [binds EXCEPT ![g].fired = TRUE, ![g].swapDue = connected /\ ~paused]
  /\ race' = IF connected /\ ~paused THEN Spawned(Swap("silent")) ELSE race
  /\ UNCHANGED <<Rest, connected, bound, awaiting, backoff, ticked, landed>>

TaskStep(g) == DiscardCtl(g) \/ OnConnected(g) \/ Publish(g) \/ OnDisconnected(g)

----------------------------------------------------------------------------
(* Gestures *)

Acts == acts < MaxActs /\ acts' = acts + 1

\* pause: the background grace-drop
Pause ==
  /\ Acts
  /\ repin' = [repin EXCEPT !.hit = (repin.pc = "swapped")]
  /\ paused' = TRUE /\ away' = TRUE
  /\ RetireBind
  /\ UNCHANGED <<pin, race, ledger, advisory, backoff, lost, ticked, landed>>

\* resume
Resume ==
  /\ Acts
  /\ paused' = FALSE /\ away' = FALSE
  /\ IF connected THEN UNCHANGED <<Link, race, backoff, landed>> ELSE Relink
  /\ UNCHANGED <<pin, ledger, advisory, lost, ticked, repin>>

\* reconnect(false): a tap finds another node behind the live one, and drops
\* only what is no good or pinned.
Tap ==
  /\ Acts
  /\ paused' = FALSE /\ away' = FALSE
  /\ IF connected /\ pin = None
     THEN /\ race' = IF race.pc = "off" THEN Spawned(Swap("asked"))
                     ELSE [race EXCEPT !.mode.tap = (race.mode.why \in {"silent", "moved"})]
          /\ UNCHANGED <<Link, backoff, landed>>
     ELSE RetireAndRelink("manual-reconnect")
  /\ UNCHANGED <<pin, ledger, advisory, lost, ticked, repin>>

\* hard_reconnect: the pull's hard path and the wallet lane's rebind. Both start
\* in the foreground and end before the background grace runs out.
HardReconnect ==
  /\ Acts /\ ~paused
  /\ RetireAndRelink("manual-reconnect")
  /\ UNCHANGED <<paused, pin, ledger, advisory, lost, ticked, repin, away>>

\* reconnect(true): the watchdog of the app, in the foreground, once a tick has
\* ever come. stall_verdict judges the socket's own silence.
Watchdog ==
  /\ ~paused /\ ticked
  /\ IF bound # 0 /\ connected
     THEN binds[bound].quiet = WatchdogStall /\ RetireAndRelink("watchdog-stall")
     ELSE Relink
  /\ UNCHANGED <<paused, pin, ledger, advisory, lost, ticked, gestures>>

\* set_pinned_node up to the swap of `paused`.
PinStart ==
  /\ Acts /\ repin.pc = "off"
  /\ \E url \in (Nodes \cup {None}) \ {pin} :
       repin' = [pc |-> "swapped", url |-> url, was |-> paused, hit |-> FALSE]
  /\ paused' = TRUE
  /\ UNCHANGED <<Link, race, pin, ledger, advisory, backoff, lost, ticked, landed, away>>

Unpauses == ~repin.was /\ ~repin.hit

PinSwaps ==
  /\ repin.pc = "swapped"
  /\ RetireBind
  /\ pin' = repin.url
  /\ paused' = (paused /\ ~Unpauses)
  /\ repin' = [repin EXCEPT !.pc = "set"]
  /\ UNCHANGED <<race, ledger, advisory, backoff, lost, ticked, acts, landed, away>>

PinRelinks ==
  /\ repin.pc = "set"
  /\ IF paused THEN UNCHANGED <<Link, race, backoff, landed>> ELSE Relink
  /\ repin' = [repin EXCEPT !.pc = "off", !.url = None, !.was = FALSE, !.hit = FALSE]
  /\ UNCHANGED <<paused, pin, ledger, advisory, lost, ticked, acts, away>>

\* network_event(Lost)
NetworkLost ==
  /\ Acts /\ ~lost
  /\ lost' = TRUE
  /\ UNCHANGED <<Link, race, paused, pin, ledger, advisory, backoff, ticked, repin, landed, away>>

\* network_event(Available) and (Moved): a new default network.
NetworkUp ==
  /\ Acts
  /\ \E kind \in {"available", "moved"} :
       LET left == kind = "moved" \/ lost
           under == connected /\ (left \/ Moved)
           marked == [g \in Gens |-> IF left /\ binds[g].announced
                                     THEN [binds[g] EXCEPT !.moved = TRUE] ELSE binds[g]]
       IN \/ /\ paused \/ connected
             /\ binds' = marked
             /\ race' = IF under /\ ~paused
                        THEN Spawned(Swap("moved")) ELSE race
             /\ UNCHANGED <<connected, bound, backoff, landed>>
          \/ ~paused /\ ~connected /\ Relink
  /\ lost' = FALSE
  /\ UNCHANGED <<paused, pin, ledger, advisory, ticked, repin, away>>

----------------------------------------------------------------------------
(* The ledger, as far as the link reads it. *)

Convict(n) ==
  /\ Acts /\ n \notin demoted
  /\ demoted' = demoted \cup {n}
  /\ UNCHANGED <<Link, race, paused, pin, awaiting, advisory, backoff, lost, ticked, repin, landed, away>>

Lapse(n) ==
  /\ n \in demoted /\ demoted' = demoted \ {n}
  /\ UNCHANGED <<Link, race, paused, pin, awaiting, advisory, backoff, lost, ticked, gestures, landed>>

----------------------------------------------------------------------------

\* start has asked for the first race.
Init ==
  /\ paused = FALSE /\ pin = None
  /\ connected = FALSE /\ bound = 0 /\ binds = [g \in Gens |-> Free]
  /\ race = [NoRace EXCEPT !.pc = "head"]
  /\ awaiting = {} /\ demoted = {} /\ advisory = FALSE
  /\ backoff = 0 /\ lost = FALSE /\ ticked = FALSE
  /\ repin = [pc |-> "off", url |-> None, was |-> FALSE, hit |-> FALSE]
  /\ acts = 0 /\ landed = 0 /\ away = FALSE

Next ==
  \/ RaceStep
  \/ \E g \in Gens :
       \/ SocketUp(g) \/ SocketDrops(g) \/ Teardown(g) \/ TaskStep(g) \/ SubscriptionFails(g)
       \/ Tick(g) \/ Hush(g) \/ Predial(g) \/ SilenceFalls(g)
  \/ Pause \/ Resume \/ Tap \/ HardReconnect \/ Watchdog
  \/ PinStart \/ PinSwaps \/ PinRelinks
  \/ NetworkLost \/ NetworkUp
  \/ \E n \in Nodes : Convict(n) \/ Lapse(n)

Spec == Init /\ [][Next]_vars

----------------------------------------------------------------------------

Modes == [why : {"cold", "asked", "silent", "moved"}, from : Nodes \cup {None},
          gen : 0..MaxGen, tapped : BOOLEAN, tap : BOOLEAN, spoke : BOOLEAN]

Races == [pc : {"off", "head", "round", "hold", "dial"}, mode : Modes,
          empty : 0..Max({Rounds, Stranded}), excluded : SUBSET (Nodes \cup {None}),
          advisory : BOOLEAN, winner : Nodes \cup {None}, dial : 0..MaxGen]

Binds == [url : Nodes \cup {None}, sock : {"free", "dialing", "up", "down"},
          retry : BOOLEAN, announced : BOOLEAN, quiet : 0..WatchdogStall, predialed : BOOLEAN,
          fired : BOOLEAN, swapDue : BOOLEAN, moved : BOOLEAN, ctl : Seq({"up", "down"}),
          task : {"idle", "publishing"}, rose : BOOLEAN, deaf : BOOLEAN]

\* Types of the state.
TypeOK ==
  /\ paused \in BOOLEAN /\ connected \in BOOLEAN /\ advisory \in BOOLEAN
  /\ lost \in BOOLEAN /\ ticked \in BOOLEAN /\ away \in BOOLEAN
  /\ pin \in Nodes \cup {None} /\ bound \in 0..MaxGen
  /\ awaiting \subseteq Nodes /\ demoted \subseteq Nodes
  /\ backoff \in 0..2 /\ landed \in 0..3 /\ acts \in 0..MaxActs
  /\ race \in Races /\ binds \in [Gens -> Binds]
  /\ repin \in [pc : {"off", "swapped", "set"}, url : Nodes \cup {None}, was : BOOLEAN, hit : BOOLEAN]

\* A link that reads connected has a socket installed, and it is one its
\* consumers were told of: a retirement that lands while a socket comes up is
\* never answered by that socket's publish (dag_monitor.rs:4424).
LiveMeansBound == connected => bound # 0 /\ binds[bound].announced

\* In the background nothing is installed, whatever race, redial or repin was
\* under way when the pause landed (pause, dag_monitor.rs:3000, the checks of
\* `paused` behind every await, and pause_gen in set_pinned_node). Not covered: a
\* pause between that last read of pause_gen and the store that lifts `paused`
\* (dag_monitor.rs:2115, 2132), which PinSwaps takes in one step, and which unpauses.
AwayIsDark == away /\ repin.pc = "off" => bound = 0 /\ ~connected

\* A dark wallet that is neither paused nor pinned is being searched for, or its
\* next socket is coming up. The one search authority is refused to whoever
\* asks while it runs, so each of its ends must leave the link up or the search
\* to somebody else; only a subscription that fails locally is unowned.
DarkIsHunted ==
  ~paused /\ pin = None /\ ~connected /\ repin.pc = "off" =>
    \/ race.pc # "off"
    \/ /\ bound # 0
       /\ \/ "up" \in {binds[bound].ctl[i] : i \in DOMAIN binds[bound].ctl}
          \/ binds[bound].task = "publishing"
          \/ binds[bound].deaf

\* What takes down an unpinned link in the foreground is a gesture, the death of
\* its own socket (never an older one's), the watchdog on its own thirty silent
\* seconds, or a successor installed in that very step - and a successor found
\* by a silence hunt only once the socket was silent for the whole deadline.
\* A hunt that finds nothing, or a bind that fails, costs nothing.
LinkFallsForAReason ==
  [][connected /\ ~connected' /\ pin = None /\ ~paused =>
       \/ acts' # acts \/ repin' # repin
       \/ binds[bound].sock # "up"
       \/ binds[bound].quiet = WatchdogStall
       \/ /\ bound' \notin {0, bound}
          /\ race.mode.why = "silent" /\ ~race.mode.tap /\ ~Moved => binds[bound].fired]_vars

\* The node a tap asked to leave is never the one the hunt installs over it,
\* however the hunt was cast when the tap landed (dag_monitor.rs:3688).
TapLeaves ==
  [][race.pc = "hold" /\ race'.pc = "dial" /\ connected
     /\ (race.mode.why = "asked" \/ race.mode.tap \/ race.mode.tapped) =>
       race.winner # binds[bound].url]_vars

\* At most two silence swaps in a row before the link has held for a minute
\* (silence_backoff): a network on which every socket is silent is not churned
\* through for ever.
SilenceBudget == landed <= 2

\* The monitor's consistency in every state: its types, a live link that is
\* bound, a dark background, and the budget of silence swaps.
MonitorInv == TypeOK /\ LiveMeansBound /\ AwayIsDark /\ SilenceBudget

\* set_pinned_node converges on the user's node: with no call in flight, a
\* pinned wallet in the foreground has a bind to that node installed
\* (dag_monitor.rs:2147).
PinHolds ==
  pin # None /\ ~paused /\ repin.pc = "off" => bound # 0 /\ binds[bound].url = pin
====
