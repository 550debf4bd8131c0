--------------------------- MODULE LaneSupervisor ---------------------------
(***************************************************************************)
(* Who notices that the wallet lane is dead or dark, and who heals it: the *)
(* supervisor's loop and its record (chain/wallet_sync.rs), the recovery   *)
(* of a dark lane with its single flight (chain/dag_monitor.rs), and the   *)
(* pull (bridge/api/dag.rs).                                               *)
(*                                                                         *)
(* A lane is dead when its processor's task or its fold is gone, and dark  *)
(* when its negotiation on a live socket has failed or does not end. Calls *)
(* of the recovery run on several threads: each access to the two flags of *)
(* their single flight is a step of its own, and so is what a call reads   *)
(* of the record, the lane and the socket between two of its awaits. Lanes *)
(* and sockets have no numbers: `reported` says that the death of the lane *)
(* serving now is on record, and a check knows if its socket is still the  *)
(* one announced.                                                          *)
(***************************************************************************)
EXTENDS Naturals, Sequences, FiniteSets, FiniteSetsExt

CONSTANTS
  MaxCalls,      \* bound: calls of recover_wallet_lane in flight at a time
  LaneRebuilds,  \* LANE_REBUILDS (3)
  Reannounces,   \* the length of LANE_REANNOUNCE_AFTER (2)
  MaxFaults,     \* bound: deaths of a lane, processor errors, stalls and socket drops
  MaxTimeouts    \* bound: pulls that outlive SOFT_RESCAN_TIMEOUT inside a check

ASSUME LaneSupervisorAssumption ==
  /\ LaneRebuilds \in Nat \ {0} /\ MaxCalls \in Nat \ {0}
  /\ Reannounces \in Nat /\ MaxFaults \in Nat /\ MaxTimeouts \in Nat

VARIABLES
  alive,       \* the witnesses of the lane serving now
  proc,        \* its processor: "idle", "open" (negotiating), "failed", "up"
  stalled,     \* its open is past LANE_STEP_WITHIN: "no", "late", or "told" to the recovery
  started,     \* its UtxoProcStart is on the way to the fold
  record,      \* Supervision
  rebuilds,    \* Supervision::rebuilds, oldest first; TRUE: run on a grant
  sup,         \* the supervisor: "awake" or "asleep"
  noted,       \* a wake-up has come since the supervisor armed its own
  watches,     \* those wake-ups include the lane serving now
  socket,      \* a live socket is announced
  spent,       \* its lane_reannounced
  rebound,     \* lane_rebound_at is inside its window
  pending,     \* lane_report_pending
  recovering,  \* lane_recovering
  call,        \* the calls of recover_wallet_lane
  faults, timeouts

laneVars == <<alive, proc, stalled, started>>
supVars == <<sup, noted, watches>>
linkVars == <<socket, spent, rebound>>
flight == <<pending, recovering>>
bounds == <<faults, timeouts>>
vars == <<laneVars, record, rebuilds, supVars, linkVars, flight, call, bounds>>

Calls == 1..MaxCalls

LaneUp == proc = "up"

Idle == [pc |-> "off", counted |-> FALSE, pull |-> FALSE, gaveUp |-> FALSE,
         here |-> FALSE, waits |-> 0]

\* A wake-up through supervision_changed or the panic hook; one through the
\* lane's own `changed` reaches the supervisor only if it watches that lane.
Notify == noted' = TRUE /\ UNCHANGED <<sup, watches>>
NotifyLane == noted' = (noted \/ watches) /\ UNCHANGED <<sup, watches>>

Free == {c \in Calls : call[c].pc = "off"}
Spawn(counted, pull) ==
  /\ Free # {}
  /\ call' = [call EXCEPT ![Min(Free)] =
       [Idle EXCEPT !.pc = "door", !.counted = counted, !.pull = pull]]

----------------------------------------------------------------------------
(* The supervisor: arm the wake-ups, look, publish, sleep. *)

\* The health publish_health reads from the record and the lane.
Health(r) ==
  IF r.dark \/ r.gaveUp THEN "Dark"
  ELSE IF r.reported \/ r.rebuilding \/ r.awaitingUp \/ r.checking > 0 \/ stalled # "no"
  THEN "Recovering" ELSE "Live"
Said(r) == [r EXCEPT !.health = Health(r)]

\* A wake-up, and the top of supervise: the lane is read and all of them armed.
Wakes ==
  /\ sup = "asleep" /\ noted
  /\ sup' = "awake" /\ noted' = FALSE /\ watches' = TRUE
  /\ UNCHANGED <<laneVars, record, rebuilds, linkVars, flight, call, bounds>>

Grants == record.reported /\ record.dark /\ record.fresh
FindsDeath == ~record.reported /\ ~alive
FindsStall == ~record.reported /\ alive /\ stalled = "late"

\* assess, which spawns a request for a death or a grant, or hands an unanswered
\* open to report_dark_lane; then publish_health, and the sleep.
Look ==
  /\ sup = "awake"
  /\ sup' = "asleep"
  /\ noted' = (noted \/ (FindsStall /\ ~Grants))
  /\ IF Grants
     THEN /\ record' = Said([record EXCEPT !.granted = TRUE, !.dark = FALSE, !.fresh = FALSE])
          /\ Spawn(FALSE, FALSE)
          /\ UNCHANGED stalled
     ELSE IF FindsDeath
     THEN /\ record' = Said([record EXCEPT !.reported = TRUE, !.awaitingUp = TRUE])
          /\ Spawn(FALSE, FALSE)
          /\ UNCHANGED stalled
     ELSE IF FindsStall
     THEN /\ stalled' = "told"
          /\ record' = Said([record EXCEPT !.checking = @ + 1])
          /\ Spawn(TRUE, FALSE)
     ELSE record' = Said(record) /\ UNCHANGED <<stalled, call>>
  /\ UNCHANGED <<alive, proc, started, rebuilds, watches, linkVars, flight, bounds>>

----------------------------------------------------------------------------
(* recover_wallet_lane *)

Goto(c, pc) == call' = [call EXCEPT ![c].pc = pc]
\* Its outcome matters to a call that report_dark_lane waits for.
PassEnds(c, outcome) ==
  call' = [call EXCEPT ![c].pc = "drain", ![c].gaveUp = (outcome = "GaveUp" /\ call[c].counted),
                       ![c].here = FALSE, ![c].waits = 0]

\* The call ends, and report_dark_lane's task takes its outcome.
Returns(c) ==
  /\ call' = [call EXCEPT ![c] = Idle]
  /\ IF call[c].counted
     THEN /\ record' = [record EXCEPT
               !.checking = @ - 1,
               !.gaveUp = @ \/ call[c].gaveUp]
          /\ Notify
     ELSE UNCHANGED <<record, supVars>>

\* A report with the lane up and not dead is answered at the door.
Door(c) ==
  /\ call[c].pc = "door"
  /\ IF LaneUp /\ ~record.reported THEN Returns(c)
     ELSE Goto(c, "ask") /\ UNCHANGED <<record, supVars>>
  /\ UNCHANGED <<laneVars, rebuilds, linkVars, flight, bounds>>

\* Any other is on record before anyone decides who serves it.
Ask(c) ==
  /\ call[c].pc = "ask"
  /\ pending' = TRUE
  /\ Goto(c, "claim")
  /\ UNCHANGED <<laneVars, record, rebuilds, supVars, linkVars, recovering, bounds>>

\* The flag is taken, or found held: the report is queued behind the holder.
Claim(c) ==
  /\ call[c].pc = "claim"
  /\ recovering' = TRUE
  /\ IF recovering THEN Returns(c) ELSE Goto(c, "drain") /\ UNCHANGED <<record, supVars>>
  /\ UNCHANGED <<laneVars, rebuilds, linkVars, pending, bounds>>

\* A request is taken; without one the flight ends.
Drain(c) ==
  /\ call[c].pc = "drain"
  /\ pending' = FALSE
  /\ Goto(c, IF pending THEN "begin" ELSE "release")
  /\ UNCHANGED <<laneVars, record, rebuilds, supVars, linkVars, recovering, bounds>>

\* It is served (recover_wallet_lane_once): a dead lane first, then an up one, then
\* one whose socket is gone.
Begin(c) ==
  /\ call[c].pc = "begin"
  /\ IF record.reported THEN Goto(c, "rebuild")
     ELSE IF LaneUp THEN PassEnds(c, "NotDark")
     ELSE IF ~socket THEN PassEnds(c, "SocketGone")
     ELSE call' = [call EXCEPT ![c].pc = "wait", ![c].here = TRUE]
  /\ UNCHANGED <<laneVars, record, rebuilds, supVars, linkVars, flight, bounds>>

\* The flag is let go.
Release(c) ==
  /\ call[c].pc = "release"
  /\ recovering' = FALSE
  /\ Goto(c, "reread")
  /\ UNCHANGED <<laneVars, record, rebuilds, supVars, linkVars, pending, bounds>>

\* The request is looked for once more.
Reread(c) ==
  /\ call[c].pc = "reread"
  /\ IF pending THEN Goto(c, "claim") /\ UNCHANGED <<record, supVars>> ELSE Returns(c)
  /\ UNCHANGED <<laneVars, rebuilds, linkVars, flight, bounds>>

\* Mutant: the request is looked for and then the flag let go.
RereadsFirst(c) ==
  \/ /\ call[c].pc = "release"
     /\ Goto(c, IF pending THEN "drain" ELSE "reread")
     /\ UNCHANGED <<record, supVars, recovering>>
     /\ UNCHANGED <<laneVars, rebuilds, linkVars, pending, bounds>>
  \/ /\ call[c].pc = "reread"
     /\ recovering' = FALSE
     /\ Returns(c)
     /\ UNCHANGED <<laneVars, rebuilds, linkVars, pending, bounds>>

\* The end of a flight: the flag first, then the request.
FlightEnds(c) == Release(c) \/ Reread(c)

\* What an up lane means to this pass.
Settled(c) ==
  IF ~call[c].here THEN "SocketGone" ELSE IF spent = 0 THEN "NotDark" ELSE "Recovered"

\* The budget is the socket's.
SocketSpent(c) == spent >= Reannounces

\* The end of a sleep: the lane is proven dark on this socket and the socket is
\* announced once more, which a processor that failed answers by negotiating.
Reannounce(c) ==
  /\ call[c].pc = "wait"
  /\ IF record.reported THEN Goto(c, "rebuild") /\ UNCHANGED <<proc, spent>>
     ELSE IF LaneUp THEN PassEnds(c, Settled(c)) /\ UNCHANGED <<proc, spent>>
     ELSE IF ~call[c].here THEN PassEnds(c, "SocketGone") /\ UNCHANGED <<proc, spent>>
     ELSE IF SocketSpent(c) THEN Goto(c, "settle") /\ UNCHANGED <<proc, spent>>
     ELSE /\ spent' = spent + 1
          /\ proc' = IF alive /\ proc = "failed" THEN "open" ELSE proc
          /\ call' = [call EXCEPT ![c].waits = @ + 1,
               ![c].pc = IF call[c].waits + 1 = Reannounces THEN "settle" ELSE "wait"]
  /\ UNCHANGED <<alive, stalled, started, record, rebuilds, supVars, socket, rebound,
                 flight, bounds>>

\* The checks that began on a socket that goes.
Abandoned == [c \in Calls |-> [call[c] EXCEPT !.here = FALSE]]

\* The socket goes: a close, for a processor that lives.
SocketFalls ==
  /\ socket' = FALSE
  /\ spent' = 0
  /\ IF alive THEN proc' = "idle" /\ stalled' = "no" ELSE UNCHANGED <<proc, stalled>>

\* The last sleep: one rebind in a window, then it stops. The check that rebinds is
\* the only one there is.
Settle(c) ==
  /\ call[c].pc = "settle"
  /\ IF record.reported THEN Goto(c, "rebuild") /\ UNCHANGED <<proc, stalled, linkVars>>
     ELSE IF LaneUp THEN PassEnds(c, Settled(c)) /\ UNCHANGED <<proc, stalled, linkVars>>
     ELSE IF ~call[c].here
     THEN PassEnds(c, "SocketGone") /\ UNCHANGED <<proc, stalled, linkVars>>
     ELSE IF rebound
     THEN PassEnds(c, "GaveUp") /\ UNCHANGED <<proc, stalled, linkVars>>
     ELSE /\ rebound' = TRUE
          /\ SocketFalls
          /\ PassEnds(c, "Rebound")
  /\ NotifyLane
  /\ UNCHANGED <<alive, started, record, rebuilds, flight, bounds>>

\* rebuild_lane's record of a rebuild it starts
RebuildOnRecord(r) == [r EXCEPT !.granted = FALSE, !.dark = FALSE, !.rebuilding = TRUE]

\* rebuild_lane: answered already, refused by the budget, or a fresh lane on the
\* live socket. The rebuild publishes the health itself before it acts.
Rebuild(c) ==
  /\ call[c].pc = "rebuild"
  /\ IF ~record.reported
     THEN PassEnds(c, "NotDark") /\ UNCHANGED <<laneVars, record, rebuilds, supVars>>
     ELSE IF Len(rebuilds) >= LaneRebuilds /\ ~record.granted
     THEN /\ record' = [record EXCEPT !.dark = TRUE, !.fresh = (@ /\ record.dark)]
          /\ Notify
          /\ PassEnds(c, "RebuildsSpent")
          /\ UNCHANGED <<laneVars, rebuilds>>
     ELSE /\ rebuilds' = Append(rebuilds, record.granted)
          /\ record' = [RebuildOnRecord(record) EXCEPT
               !.reported = FALSE,
               !.health = IF record.gaveUp THEN "Dark" ELSE "Recovering"]
          /\ alive' = TRUE /\ stalled' = "no" /\ started' = FALSE
          /\ proc' = IF socket THEN "open" ELSE "idle"
          /\ watches' = FALSE
          /\ Goto(c, "rebuilt")
          /\ UNCHANGED <<sup, noted>>
  /\ UNCHANGED <<linkVars, flight, bounds>>

\* Mutant: the end of a rebuild wakes nobody.
EndsQuietly == UNCHANGED supVars

EndsAloud == Notify

\* RebuildingGuard
RebuildEnds(c) ==
  /\ call[c].pc = "rebuilt"
  /\ record' = [record EXCEPT !.rebuilding = FALSE]
  /\ EndsAloud
  /\ PassEnds(c, "Rebuilt")
  /\ UNCHANGED <<laneVars, rebuilds, linkVars, flight, bounds>>

CallStep(c) ==
  \/ Door(c) \/ Ask(c) \/ Claim(c) \/ Drain(c) \/ Begin(c) \/ FlightEnds(c)
  \/ Reannounce(c) \/ Settle(c) \/ Rebuild(c) \/ RebuildEnds(c)

----------------------------------------------------------------------------
(* The lane, the link and the user *)

\* The processor's task panics, wherever it stands, or the fold ends; the bit
\* that reads "connected" keeps its value, and an event on its way goes unheard.
Dies ==
  /\ alive /\ faults < MaxFaults
  /\ alive' = FALSE /\ started' = FALSE /\ faults' = faults + 1
  /\ \/ Notify        \* the panic hook
     \/ NotifyLane    \* the fold's own end
  /\ UNCHANGED <<proc, stalled, record, rebuilds, linkVars, flight, call, timeouts>>

\* The negotiation succeeds: the bit, then the event.
Negotiated ==
  /\ alive /\ proc = "open"
  /\ proc' = "up" /\ stalled' = "no" /\ started' = TRUE
  /\ NotifyLane
  /\ UNCHANGED <<alive, record, rebuilds, linkVars, flight, call, bounds>>

\* lane_came_up
CameUp ==
  /\ alive /\ started
  /\ started' = FALSE
  /\ record' = [record EXCEPT !.awaitingUp = FALSE, !.gaveUp = FALSE]
  /\ Notify
  /\ UNCHANGED <<alive, proc, stalled, rebuilds, linkVars, flight, call, bounds>>

\* UtxoProcError: the negotiation fails, or a frame is malformed on an up lane.
ProcessorError ==
  /\ alive /\ faults < MaxFaults
  /\ proc \in {"open", "up"}
  /\ proc' = IF proc = "open" THEN "failed" ELSE proc
  /\ stalled' = "no"
  /\ faults' = faults + 1
  /\ Spawn(proc = "open", FALSE)
  /\ record' = IF proc = "open" THEN [record EXCEPT !.checking = @ + 1] ELSE record
  /\ IF proc = "open" THEN Notify ELSE UNCHANGED supVars
  /\ UNCHANGED <<alive, started, rebuilds, linkVars, flight, timeouts>>

\* An open outlives LANE_STEP_WITHIN, and the armed deadline wakes the supervisor.
OpenStalls ==
  /\ alive /\ proc = "open" /\ stalled = "no" /\ faults < MaxFaults
  /\ stalled' = "late"
  /\ faults' = faults + 1
  /\ NotifyLane
  /\ UNCHANGED <<alive, proc, started, record, rebuilds, linkVars, flight, call, timeouts>>

\* Mutant: a new socket counts when the processor gets to it.
HeardSocket == record.dark /\ alive

\* The lane's relay counts a new socket when it is announced, also a dead lane's.
FreshSocket == record.dark

SocketComes ==
  /\ ~socket /\ socket' = TRUE
  /\ record' = [record EXCEPT !.fresh = FreshSocket]
  /\ proc' = IF alive THEN "open" ELSE proc
  /\ NotifyLane
  /\ UNCHANGED <<alive, stalled, started, rebuilds, spent, rebound, flight, call, bounds>>

SocketDrops ==
  /\ socket /\ faults < MaxFaults
  /\ faults' = faults + 1
  /\ SocketFalls /\ call' = Abandoned
  /\ NotifyLane
  /\ UNCHANGED <<alive, started, record, rebuilds, rebound, flight, timeouts>>

\* The pull: the hard path for a lane proven or held dark, and the rebuild of a
\* dead one, and the hard path again when that was refused. A pull on a healthy
\* lane changes nothing here.
Pull ==
  /\ socket
  /\ \/ /\ record.dark \/ (spent > 0 /\ ~LaneUp)
        /\ SocketFalls /\ call' = Abandoned
        /\ NotifyLane
     \/ /\ ~record.dark /\ record.reported /\ (spent > 0 => LaneUp)
        /\ \A c \in Calls : ~call[c].pull
        /\ Spawn(FALSE, TRUE)
        /\ UNCHANGED <<proc, stalled, socket, spent, supVars>>
  /\ UNCHANGED <<alive, started, record, rebuilds, rebound, flight, bounds>>

\* A pull's ten seconds run out while its call sleeps in a check: the call is
\* dropped, the flag released by its guard, and the pull takes the hard path.
PullTimesOut(c) ==
  /\ call[c].pull /\ call[c].pc \in {"wait", "settle"} /\ timeouts < MaxTimeouts
  /\ timeouts' = timeouts + 1
  /\ call' = [Abandoned EXCEPT ![c] = Idle]
  /\ recovering' = FALSE
  /\ SocketFalls
  /\ NotifyLane
  /\ UNCHANGED <<alive, started, record, rebuilds, rebound, pending, faults>>

\* The windows of the rebuilds and of the rebind run out.
WindowPasses ==
  /\ \/ rebuilds # <<>> /\ rebuilds' = Tail(rebuilds) /\ UNCHANGED rebound
     \/ rebound /\ rebound' = FALSE /\ UNCHANGED rebuilds
  /\ UNCHANGED <<laneVars, record, supVars, socket, spent, flight, call, bounds>>

----------------------------------------------------------------------------

\* The first lane is up.
Init ==
  /\ alive = TRUE /\ proc = "up" /\ stalled = "no" /\ started = FALSE
  /\ record = [health |-> "Live", reported |-> FALSE, awaitingUp |-> FALSE, dark |-> FALSE,
               fresh |-> FALSE, granted |-> FALSE, rebuilding |-> FALSE, checking |-> 0,
               gaveUp |-> FALSE]
  /\ rebuilds = <<>>
  /\ sup = "asleep" /\ noted = TRUE /\ watches = FALSE
  /\ socket = TRUE /\ spent = 0 /\ rebound = FALSE
  /\ pending = FALSE /\ recovering = FALSE
  /\ call = [c \in Calls |-> Idle]
  /\ faults = 0 /\ timeouts = 0

Next ==
  \/ Wakes \/ Look
  \/ \E c \in Calls : CallStep(c) \/ PullTimesOut(c)
  \/ Dies \/ Negotiated \/ CameUp \/ ProcessorError \/ OpenStalls
  \/ SocketComes \/ SocketDrops \/ Pull \/ WindowPasses

Spec == Init /\ [][Next]_vars

\* The tasks go on; the link finds another socket; a user whose lane is held
\* dark pulls in the end.
FairSpec ==
  /\ Spec
  /\ WF_vars(Wakes) /\ WF_vars(Look)
  /\ \A c \in Calls : WF_vars(CallStep(c))
  /\ WF_vars(CameUp) /\ WF_vars(SocketComes)
  /\ SF_vars(Pull /\ record.dark)

----------------------------------------------------------------------------

Supervisions ==
  [health : {"Live", "Recovering", "Dark"}, reported : BOOLEAN, awaitingUp : BOOLEAN,
   dark : BOOLEAN, fresh : BOOLEAN, granted : BOOLEAN, rebuilding : BOOLEAN,
   checking : 0..MaxCalls, gaveUp : BOOLEAN]

\* The stages of a call that holds lane_recovering, and of the others.
Flying == {"drain", "begin", "wait", "settle", "rebuild", "rebuilt", "release"}
Grounded == {"off", "door", "ask", "claim", "reread"}

Recoveries ==
  [pc : Flying \cup Grounded, counted : BOOLEAN, pull : BOOLEAN, gaveUp : BOOLEAN,
   here : BOOLEAN, waits : Nat]

\* Types of the state.
TypeOK ==
  /\ alive \in BOOLEAN /\ started \in BOOLEAN
  /\ proc \in {"idle", "open", "failed", "up"} /\ stalled \in {"no", "late", "told"}
  /\ record \in Supervisions /\ rebuilds \in Seq(BOOLEAN)
  /\ sup \in {"awake", "asleep"} /\ noted \in BOOLEAN /\ watches \in BOOLEAN
  /\ socket \in BOOLEAN /\ spent \in 0..Reannounces /\ rebound \in BOOLEAN
  /\ pending \in BOOLEAN /\ recovering \in BOOLEAN
  /\ call \in [Calls -> Recoveries]
  /\ faults \in 0..MaxFaults /\ timeouts \in 0..MaxTimeouts

\* A supervisor that sleeps with no wake-up due has said what its record says,
\* and has no death, grant or stall left to find: no wake-up falls between a look
\* and the sleep, or on a lane it does not watch yet (wallet_sync.rs:2926). The end
\* of a rebuild under way is a wake-up still to come.
AsleepMeansSaid ==
  sup = "asleep" /\ ~noted /\ ~record.rebuilding =>
    /\ record.health = Health(record)
    /\ ~Grants /\ ~FindsDeath /\ ~FindsStall

\* Within one window at most LANE_REBUILDS rebuilds run that no new socket paid
\* for, whoever asked for them, and a grant does not outlive the death it was
\* given for (wallet_sync.rs:3182).
RebuildBudget ==
  /\ Cardinality({i \in DOMAIN rebuilds : ~rebuilds[i]}) <= LaneRebuilds
  /\ record.granted => record.reported /\ ~record.dark

\* A death on record and not held dark is always with someone: a call that has
\* still to put its request, one that took it and has still to look or to rebuild,
\* or a request on record that a flight, a call about to claim one, or one between
\* its release and its second look has still to take (dag_monitor.rs:4101, 4124).
\* A pull that times out inside a check may take the request with it.
DeathsAreAsked ==
  record.reported /\ ~record.dark /\ timeouts = 0 =>
    \/ \E c \in Calls : call[c].pc \in {"door", "ask", "begin", "rebuild"}
    \/ pending /\ (recovering \/ \E c \in Calls : call[c].pc \in {"claim", "reread"})

\* The supervisor's consistency in every state: its types, its budget, no death
\* left to nobody, and a sleep that leaves nothing unsaid.
SupervisorInv == TypeOK /\ RebuildBudget /\ DeathsAreAsked /\ AsleepMeansSaid

\* A death on record is answered by a rebuild, or the lane is held dark: no
\* report is lost behind a check that lets go (dag_monitor.rs:4124). A pull that
\* times out inside the check it serves is excepted: it leaves the request to
\* the next report.
DeathsAreServed ==
  record.reported ~> (~record.reported \/ record.dark \/ timeouts > 0)

\* A lane held dark is not dark for ever: the new socket a pull brings grants
\* it one more rebuild.
DarkEnds == record.dark ~> ~record.dark
=============================================================================
