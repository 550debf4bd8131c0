------------------------ MODULE LaneSupervisorProofs ------------------------
(***************************************************************************)
(* Proofs about the wallet lane's supervisor and the recovery's single     *)
(* flight, for any number of concurrent calls and faults and any sizes     *)
(* of the two budgets. The inductive invariant says who holds              *)
(* lane_recovering, which calls `checking` counts, what a dark record and  *)
(* a stall stand for, and that a lane the supervisor does not watch yet    *)
(* has a wake-up due or a rebuild under way.                               *)
(***************************************************************************)
EXTENDS LaneSupervisor, FiniteSetTheorems, WellFoundedInduction, TLAPS

USE DEF laneVars, supVars, linkVars, flight, bounds, Calls

----------------------------------------------------------------------------
(* The inductive invariant *)

InFlight(c) == call[c].pc \in Flying

\* lane_recovering is set exactly while a call is in its flight, of one call at
\* a time, and only a check under way has a socket.
OneFlight ==
  /\ recovering <=> \E c \in Calls : InFlight(c)
  /\ \A c, d \in Calls : InFlight(c) /\ InFlight(d) => c = d
  /\ \A c \in Calls : call[c].here => call[c].pc \in {"wait", "settle", "rebuild", "rebuilt"}

Counted(f) == {c \in Calls : f[c].counted}

\* `checking` counts the calls that report_dark_lane waits for; a pull's is none
\* of them.
ChecksCounted ==
  /\ record.checking = Cardinality(Counted(call))
  /\ \A c \in Calls : (call[c].pc = "off" => call[c] = Idle) /\ (call[c].pull => ~call[c].counted)

\* A lane that is not watched yet has a wake-up due, or its rebuild ends with one.
Watched == watches \/ noted \/ record.rebuilding

\* Only an open stalls, and only a death on record is held dark.
StallIsOpen == stalled # "no" => proc = "open"
DarkIsDeath == record.dark => record.reported

IInv ==
  /\ TypeOK /\ OneFlight /\ ChecksCounted
  /\ Watched /\ StallIsOpen /\ DarkIsDeath
  /\ RebuildBudget /\ DeathsAreAsked /\ AsleepMeansSaid

----------------------------------------------------------------------------
(* Numbers, sets and sequences *)

\* Of a set of numbers that is not empty there is a least one.
LEMMA NatMin ==
  ASSUME NEW S \in SUBSET Nat, S # {}
  PROVE  \E x \in S : \A y \in S : x <= y
<1>1. IsWellFoundedOn(OpToRel(<,Nat), Nat)
  BY NatLessThanWellFounded
<1>2. PICK x \in S : \A y \in S : <<y, x>> \notin OpToRel(<,Nat)
  BY <1>1, WFMin, Zenon
<1>3. ASSUME NEW y \in S PROVE ~(y < x)
  <2>1. <<y, x>> \notin OpToRel(<,Nat)
    BY <1>2
  <2> QED BY <2>1 DEF OpToRel
<1> QED BY <1>3

\* Spawn takes a call that is free.
LEMMA MinOfFree ==
  ASSUME Free # {}
  PROVE  Min(Free) \in Calls /\ call[Min(Free)].pc = "off"
<1>1. Free \in SUBSET Nat
  BY LaneSupervisorAssumption DEF Free
<1>2. \E x \in Free : \A y \in Free : x <= y
  BY <1>1, NatMin
<1>3. Min(Free) \in Free
  BY <1>2 DEF Min
<1> QED BY <1>3 DEF Free

\* The calls are finitely many, and so are the counted ones.
LEMMA FewCalls ==
  ASSUME NEW f
  PROVE  IsFiniteSet(Counted(f)) /\ Cardinality(Counted(f)) \in 0..MaxCalls
<1>1. MaxCalls \in Nat
  BY LaneSupervisorAssumption
<1>2. IsFiniteSet(1..MaxCalls) /\ Cardinality(1..MaxCalls) <= MaxCalls
  BY <1>1, FS_Interval
<1>3. Counted(f) \in SUBSET (1..MaxCalls)
  BY DEF Counted
<1>4. /\ IsFiniteSet(Counted(f)) /\ Cardinality(Counted(f)) <= Cardinality(1..MaxCalls)
  BY <1>2, <1>3, FS_Subset
<1>5. Cardinality(Counted(f)) \in Nat /\ Cardinality(1..MaxCalls) \in Nat
  BY <1>4, <1>2, FS_CardinalityType
<1> QED BY <1>1, <1>2, <1>4, <1>5

\* One rebuild more adds to the ungranted ones when it is one of them.
LEMMA AppendedCount ==
  ASSUME NEW s \in Seq(BOOLEAN), NEW b \in BOOLEAN,
         IF b THEN Cardinality({i \in DOMAIN s : ~s[i]}) <= LaneRebuilds
              ELSE Len(s) < LaneRebuilds
  PROVE  Cardinality({i \in DOMAIN Append(s, b) : ~Append(s, b)[i]}) <= LaneRebuilds
<1> DEFINE A == {i \in DOMAIN Append(s, b) : ~Append(s, b)[i]}
<1>0. LaneRebuilds \in Nat /\ Len(s) \in Nat /\ DOMAIN s = 1..Len(s)
  BY LaneSupervisorAssumption
<1>1. /\ DOMAIN Append(s, b) = 1..(Len(s) + 1)
      /\ \A i \in 1..Len(s) : Append(s, b)[i] = s[i]
      /\ Append(s, b)[Len(s) + 1] = b
  OBVIOUS
<1>2. CASE b
  <2>1. A = {i \in DOMAIN s : ~s[i]}
    <3>1. ASSUME NEW i \in A PROVE i \in 1..Len(s) /\ ~s[i]
      <4>1. i \in 1..(Len(s) + 1) /\ ~Append(s, b)[i]
        BY <1>1
      <4>2. i # Len(s) + 1
        BY <4>1, <1>1, <1>2
      <4>3. i \in 1..Len(s)
        BY <4>1, <4>2, <1>0
      <4> QED BY <4>1, <4>3, <1>1
    <3>2. ASSUME NEW i \in 1..Len(s), ~s[i] PROVE i \in A
      <4>1. i \in 1..(Len(s) + 1)
        BY <1>0
      <4> QED BY <4>1, <3>2, <1>1
    <3> QED BY <3>1, <3>2, <1>0
  <2> QED BY <2>1, <1>2
<1>3. CASE ~b
  <2>1. IsFiniteSet(1..(Len(s) + 1)) /\ Cardinality(1..(Len(s) + 1)) = Len(s) + 1
    BY <1>0, FS_Interval
  <2>2. A \in SUBSET (1..(Len(s) + 1))
    BY <1>1
  <2>3. Cardinality(A) <= Cardinality(1..(Len(s) + 1)) /\ IsFiniteSet(A)
    BY <2>1, <2>2, FS_Subset
  <2>4. Cardinality(A) \in Nat
    BY <2>3, FS_CardinalityType
  <2>5. Len(s) < LaneRebuilds
    BY <1>3
  <2> HIDE DEF A
  <2>6. Cardinality(A) <= LaneRebuilds
    BY <2>1, <2>3, <2>4, <2>5, <1>0
  <2> QED BY <2>6 DEF A
<1> QED BY <1>2, <1>3

\* A rebuild that leaves the window adds none.
LEMMA TailCount ==
  ASSUME NEW s \in Seq(BOOLEAN), s # <<>>,
         Cardinality({i \in DOMAIN s : ~s[i]}) <= LaneRebuilds
  PROVE  Cardinality({i \in DOMAIN Tail(s) : ~Tail(s)[i]}) <= LaneRebuilds
<1> DEFINE A == {i \in DOMAIN s : ~s[i]}
           B == {i \in DOMAIN Tail(s) : ~Tail(s)[i]}
           f == [i \in B |-> i + 1]
<1>0. LaneRebuilds \in Nat /\ Len(s) \in Nat /\ Len(s) > 0 /\ DOMAIN s = 1..Len(s)
  BY LaneSupervisorAssumption
<1>1. /\ DOMAIN Tail(s) = 1..(Len(s) - 1)
      /\ \A i \in 1..(Len(s) - 1) : Tail(s)[i] = s[i + 1]
  BY <1>0
<1>2. \A i \in B : i \in 1..(Len(s) - 1) /\ i + 1 \in A
  <2> TAKE i \in B
  <2>1. i \in 1..(Len(s) - 1) /\ ~Tail(s)[i]
    BY <1>1
  <2>2. i + 1 \in 1..Len(s)
    BY <2>1, <1>0
  <2>3. ~s[i + 1]
    BY <2>1, <1>1
  <2> QED BY <2>1, <2>2, <2>3, <1>0
<1> HIDE DEF A, B
<1>3. f \in [B -> A]
  BY <1>2
<1>4. \A i, j \in B : f[i] = f[j] => i = j
  BY <1>2, <1>0
<1>5. f \in Injection(B, A)
  BY <1>3, <1>4 DEF Injection, IsInjective
<1>6. IsFiniteSet(A)
  <2>1. IsFiniteSet(1..Len(s))
    BY <1>0, FS_Interval
  <2>2. A \in SUBSET (1..Len(s))
    BY <1>0 DEF A
  <2> QED BY <2>1, <2>2, FS_Subset
<1> HIDE DEF f
<1>7. Cardinality(B) <= Cardinality(A) /\ IsFiniteSet(B)
  BY <1>5, <1>6, FS_Injection
<1>8. Cardinality(A) \in Nat /\ Cardinality(B) \in Nat
  BY <1>6, <1>7, FS_CardinalityType
<1>9. Cardinality(A) <= LaneRebuilds
  BY DEF A
<1>10. Cardinality(B) <= LaneRebuilds
  BY <1>0, <1>7, <1>8, <1>9
<1> QED BY <1>10 DEF B

----------------------------------------------------------------------------
(* What a step does to the calls *)

\* One call moves, to these fields, and no other does.
Moved(c, pc, counted, pull, here) ==
  /\ c \in Calls /\ call' \in [Calls -> Recoveries]
  /\ call'[c].pc = pc /\ call'[c].counted = counted /\ call'[c].pull = pull /\ call'[c].here = here
  /\ pc = "off" => call'[c] = Idle
  /\ \A d \in Calls \ {c} : call'[d] = call[d]

\* The fields of a call have their types.
LEMMA CallTypes ==
  ASSUME TypeOK, NEW c \in Calls
  PROVE  /\ call[c].pc \in Flying \cup Grounded /\ call[c].counted \in BOOLEAN
         /\ call[c].pull \in BOOLEAN /\ call[c].gaveUp \in BOOLEAN
         /\ call[c].here \in BOOLEAN /\ call[c].waits \in Nat
BY DEF TypeOK, Recoveries

\* An idle call is a call, counted by no one.
LEMMA IdleIsIdle ==
  /\ Idle \in Recoveries /\ Idle.pc = "off" /\ Idle.counted = FALSE /\ Idle.pull = FALSE
  /\ Idle.here = FALSE
BY DEF Idle, Recoveries, Flying, Grounded

\* One entry of `call` is replaced.
LEMMA Put ==
  ASSUME TypeOK, NEW c \in Calls, NEW r \in Recoveries, call' = [call EXCEPT ![c] = r],
         r.pc = "off" => r = Idle
  PROVE  Moved(c, r.pc, r.counted, r.pull, r.here)
<1>1. call \in [Calls -> Recoveries]
  BY DEF TypeOK
<1>2. call' \in [Calls -> Recoveries] /\ call'[c] = r /\ \A d \in Calls \ {c} : call'[d] = call[d]
  BY <1>1
<1> QED BY <1>2, Zenon DEF Moved

\* A call goes on at another stage.
LEMMA GotoMoves ==
  ASSUME TypeOK, NEW c \in Calls, NEW p \in Flying \cup {"ask", "claim", "reread"}, Goto(c, p)
  PROVE  Moved(c, p, call[c].counted, call[c].pull, call[c].here)
<1> DEFINE r == [call[c] EXCEPT !.pc = p]
<1>1. call \in [Calls -> Recoveries]
  BY DEF TypeOK
<1>2. r \in Recoveries /\ r.pc = p /\ r.counted = call[c].counted /\ r.pull = call[c].pull
      /\ r.here = call[c].here /\ r.pc # "off"
  BY <1>1 DEF Recoveries, Flying, Grounded
<1>3. call' = [call EXCEPT ![c] = r]
  BY <1>1 DEF Goto
<1> HIDE DEF r
<1>4. Moved(c, r.pc, r.counted, r.pull, r.here)
  BY <1>2, <1>3, Put
<1> QED BY <1>2, <1>4

\* The end of a pass leaves the call at the drain, with no socket.
LEMMA PassMoves ==
  ASSUME TypeOK, NEW c \in Calls, NEW o, PassEnds(c, o)
  PROVE  Moved(c, "drain", call[c].counted, call[c].pull, FALSE)
<1> DEFINE r == [call[c] EXCEPT !.pc = "drain", !.gaveUp = (o = "GaveUp" /\ call[c].counted),
                                !.here = FALSE, !.waits = 0]
<1>1. call \in [Calls -> Recoveries]
  BY DEF TypeOK
<1>0. (o = "GaveUp" /\ call[c].counted) \in BOOLEAN
  OBVIOUS
<1>2. r \in Recoveries /\ r.pc = "drain" /\ r.counted = call[c].counted /\ r.pull = call[c].pull
      /\ r.here = FALSE /\ r.pc # "off"
  BY <1>1, <1>0 DEF Recoveries, Flying, Grounded
<1>3. call' = [call EXCEPT ![c] = r]
  BY <1>1 DEF PassEnds, Recoveries
<1> HIDE DEF r
<1>4. Moved(c, r.pc, r.counted, r.pull, r.here)
  BY <1>2, <1>3, Put
<1> QED BY <1>2, <1>4

\* A free call starts at the door.
LEMMA SpawnMoves ==
  ASSUME TypeOK, NEW n \in BOOLEAN, NEW u \in BOOLEAN, Spawn(n, u)
  PROVE  \E c \in Calls : call[c].pc = "off" /\ Moved(c, "door", n, u, FALSE)
<1> DEFINE c == Min(Free)
           r == [Idle EXCEPT !.pc = "door", !.counted = n, !.pull = u]
<1>1. c \in Calls /\ call[c].pc = "off"
  BY MinOfFree DEF Spawn
<1>2. r \in Recoveries /\ r.pc = "door" /\ r.counted = n /\ r.pull = u /\ r.here = FALSE /\ r.pc # "off"
  BY DEF Recoveries, Flying, Grounded, Idle
<1>3. call' = [call EXCEPT ![c] = r]
  BY DEF Spawn
<1> HIDE DEF r, c
<1>4. Moved(c, r.pc, r.counted, r.pull, r.here)
  BY <1>1, <1>2, <1>3, Put
<1> QED BY <1>1, <1>2, <1>4

\* A call that is over is idle again.
LEMMA IdleMoves ==
  ASSUME TypeOK, NEW c \in Calls, call' = [call EXCEPT ![c] = Idle]
  PROVE  Moved(c, "off", FALSE, FALSE, FALSE)
<1>1. Moved(c, Idle.pc, Idle.counted, Idle.pull, Idle.here)
  BY IdleIsIdle, Put
<1> QED BY <1>1, IdleIsIdle

\* A call that stays in its flight, or out of one, changes no holder.
LEMMA FlightStays ==
  ASSUME OneFlight, NEW c, NEW p, NEW n, NEW u, NEW o \in BOOLEAN, Moved(c, p, n, u, o),
         p \in Flying <=> call[c].pc \in Flying, recovering' = recovering,
         o => p \in {"wait", "settle", "rebuild", "rebuilt"}
  PROVE  OneFlight'
BY DEF OneFlight, InFlight, Moved

\* The flag was free, and one call takes it.
LEMMA FlightStarts ==
  ASSUME OneFlight, NEW c, NEW p, NEW n, NEW u, NEW o \in BOOLEAN, Moved(c, p, n, u, o),
         p \in Flying, ~recovering, recovering' = TRUE,
         o => p \in {"wait", "settle", "rebuild", "rebuilt"}
  PROVE  OneFlight'
BY DEF OneFlight, InFlight, Moved

\* The holder lets the flag go.
LEMMA FlightEnded ==
  ASSUME OneFlight, NEW c, NEW p, NEW n, NEW u, Moved(c, p, n, u, FALSE),
         p \notin Flying, call[c].pc \in Flying, recovering' = FALSE
  PROVE  OneFlight'
BY DEF OneFlight, InFlight, Moved

\* No call moves.
LEMMA FlightSame ==
  ASSUME OneFlight, UNCHANGED <<call, recovering>>
  PROVE  OneFlight'
BY DEF OneFlight, InFlight

\* A call that keeps its count keeps `checking`.
LEMMA CountStays ==
  ASSUME TypeOK, ChecksCounted, NEW c, NEW p, NEW n, NEW u, NEW o \in BOOLEAN, Moved(c, p, n, u, o),
         n = call[c].counted, u => ~n, record'.checking = record.checking
  PROVE  ChecksCounted'
<1>1. Counted(call') = Counted(call)
  BY DEF Counted, Moved
<1>2. record'.checking = Cardinality(Counted(call'))
  BY <1>1 DEF ChecksCounted
<1>3. \A d \in Calls : (call'[d].pc = "off" => call'[d] = Idle) /\ (call'[d].pull => ~call'[d].counted)
  BY DEF ChecksCounted, Moved
<1> QED BY <1>2, <1>3 DEF ChecksCounted, Idle

\* One counted call more.
LEMMA CountGrows ==
  ASSUME TypeOK, ChecksCounted, NEW c, NEW p, NEW o \in BOOLEAN, Moved(c, p, TRUE, FALSE, o),
         call[c].counted = FALSE, record'.checking = record.checking + 1
  PROVE  ChecksCounted'
<1>1. Counted(call') = Counted(call) \cup {c}
  BY DEF Counted, Moved
<1>2. c \notin Counted(call)
  BY DEF Counted
<1>3. record'.checking = Cardinality(Counted(call'))
  BY <1>1, <1>2, FewCalls, FS_AddElement DEF ChecksCounted
<1>4. \A d \in Calls : (call'[d].pc = "off" => call'[d] = Idle) /\ (call'[d].pull => ~call'[d].counted)
  BY DEF ChecksCounted, Moved
<1> QED BY <1>3, <1>4 DEF ChecksCounted, Idle

\* One counted call less.
LEMMA CountShrinks ==
  ASSUME TypeOK, ChecksCounted, NEW c, NEW p, NEW o \in BOOLEAN, Moved(c, p, FALSE, FALSE, o),
         call[c].counted = TRUE, record'.checking = record.checking - 1
  PROVE  ChecksCounted'
<1>1. Counted(call') = Counted(call) \ {c}
  BY DEF Counted, Moved
<1>2. c \in Counted(call)
  BY DEF Counted, Moved
<1>3. record'.checking = Cardinality(Counted(call'))
  BY <1>1, <1>2, FewCalls, FS_RemoveElement DEF ChecksCounted
<1>4. \A d \in Calls : (call'[d].pc = "off" => call'[d] = Idle) /\ (call'[d].pull => ~call'[d].counted)
  BY DEF ChecksCounted, Moved
<1> QED BY <1>3, <1>4 DEF ChecksCounted, Idle

\* No call moves.
LEMMA CountSame ==
  ASSUME ChecksCounted, call' = call, record'.checking = record.checking
  PROVE  ChecksCounted'
BY DEF ChecksCounted, Counted, Idle

\* `checking` never passes the number of calls.
LEMMA CheckingBounded ==
  ASSUME ChecksCounted
  PROVE  record.checking \in 0..MaxCalls
BY FewCalls DEF ChecksCounted

----------------------------------------------------------------------------
(* Each step keeps the invariant. SupPart is what no call matters to. *)

SupPart == Watched /\ StallIsOpen /\ DarkIsDeath /\ AsleepMeansSaid

\* The types the steps use, one by one.
LEMMA Types ==
  ASSUME IInv
  PROVE  /\ TypeOK /\ OneFlight /\ ChecksCounted /\ SupPart /\ RebuildBudget /\ DeathsAreAsked
         /\ record \in Supervisions /\ record.checking \in Nat
         /\ record.reported \in BOOLEAN /\ record.dark \in BOOLEAN /\ record.fresh \in BOOLEAN
         /\ record.granted \in BOOLEAN /\ record.rebuilding \in BOOLEAN
         /\ record.gaveUp \in BOOLEAN /\ record.awaitingUp \in BOOLEAN
         /\ noted \in BOOLEAN /\ watches \in BOOLEAN /\ alive \in BOOLEAN
         /\ pending \in BOOLEAN /\ recovering \in BOOLEAN
<1>1. TypeOK /\ OneFlight /\ ChecksCounted /\ SupPart /\ RebuildBudget /\ DeathsAreAsked
  BY DEF IInv, SupPart
<1>2. record \in Supervisions /\ noted \in BOOLEAN /\ watches \in BOOLEAN /\ alive \in BOOLEAN
      /\ pending \in BOOLEAN /\ recovering \in BOOLEAN
  BY <1>1 DEF TypeOK
<1>3. record.checking \in 0..MaxCalls
  BY <1>2 DEF Supervisions
<1>4. /\ record.reported \in BOOLEAN /\ record.dark \in BOOLEAN /\ record.fresh \in BOOLEAN
      /\ record.granted \in BOOLEAN /\ record.rebuilding \in BOOLEAN
      /\ record.gaveUp \in BOOLEAN /\ record.awaitingUp \in BOOLEAN
  BY <1>2 DEF Supervisions
<1>5. record.checking \in Nat
  BY <1>3, LaneSupervisorAssumption
<1> QED BY <1>1, <1>2, <1>4, <1>5

\* The supervisor wakes.
LEMMA WakesKeeps ==
  ASSUME IInv, Wakes
  PROVE  IInv'
<1>0. UNCHANGED <<alive, proc, stalled, started, record, rebuilds, socket, spent, rebound,
                  pending, recovering, call, faults, timeouts>>
      /\ sup' = "awake" /\ noted' = FALSE /\ watches' = TRUE
  BY DEF Wakes
<1>1. TypeOK'
  BY <1>0, Types DEF TypeOK
<1>2. OneFlight' /\ ChecksCounted'
  BY <1>0, Types, FlightSame, CountSame
<1>3. SupPart'
  BY <1>0, Types DEF SupPart, Watched, StallIsOpen, DarkIsDeath, AsleepMeansSaid
<1>4. RebuildBudget' /\ DeathsAreAsked'
  BY <1>0, Types DEF RebuildBudget, DeathsAreAsked
<1> QED BY <1>1, <1>2, <1>3, <1>4 DEF IInv, SupPart

\* What publish_health writes is one of the three healths, and nothing else.
LEMMA SaidFields ==
  ASSUME NEW r \in Supervisions
  PROVE  /\ Said(r) \in Supervisions /\ Said(r).health = Health(r)
         /\ Said(r) = [r EXCEPT !.health = Health(r)]
         /\ Health(Said(r)) = Health(r)
         /\ Said(r).reported = r.reported /\ Said(r).dark = r.dark /\ Said(r).fresh = r.fresh
         /\ Said(r).granted = r.granted /\ Said(r).rebuilding = r.rebuilding
         /\ Said(r).checking = r.checking
BY DEF Said, Health, Supervisions

\* What is left of SupPart when the supervisor sleeps with a wake-up due, or is
\* awake.
LEMMA SupDue ==
  ASSUME noted' \/ sup' = "awake", Watched', StallIsOpen', DarkIsDeath', sup' \in {"awake", "asleep"}
  PROVE  SupPart'
BY DEF SupPart, AsleepMeansSaid

\* A grant is taken: a request for the dead lane's rebuild goes out.
LEMMA LookGrants ==
  ASSUME IInv, Look, Grants
  PROVE  IInv'
<1> DEFINE r == [record EXCEPT !.granted = TRUE, !.dark = FALSE, !.fresh = FALSE]
<1>0. /\ record' = Said(r) /\ Spawn(FALSE, FALSE) /\ sup = "awake" /\ sup' = "asleep"
      /\ UNCHANGED <<alive, proc, stalled, started, rebuilds, watches, socket, spent, rebound,
                     pending, recovering, faults, timeouts>>
      /\ noted' = noted
  BY Types DEF Look
<1>1. r \in Supervisions /\ r.reported = TRUE /\ r.dark = FALSE /\ r.fresh = FALSE /\ r.granted = TRUE
      /\ r.rebuilding = record.rebuilding /\ r.checking = record.checking
  BY Types DEF Supervisions, Grants
<1> HIDE DEF r
<1>2. /\ record' \in Supervisions /\ record'.reported = TRUE /\ record'.dark = FALSE
      /\ record'.fresh = FALSE /\ record'.rebuilding = record.rebuilding
      /\ record'.checking = record.checking /\ record'.health = Health(r)
      /\ Health(record') = Health(r)
  BY <1>0, <1>1, SaidFields
<1>3. PICK c \in Calls : call[c].pc = "off" /\ Moved(c, "door", FALSE, FALSE, FALSE)
  BY <1>0, Types, SpawnMoves
<1>4. call[c] = Idle /\ call[c].counted = FALSE
  BY <1>3, Types, IdleIsIdle DEF ChecksCounted
<1>5. TypeOK'
  BY <1>0, <1>2, <1>3, Types DEF TypeOK, Moved
<1>6. OneFlight'
  BY <1>0, <1>3, Types, FlightStays DEF Flying
<1>7. ChecksCounted'
  BY <1>2, <1>3, <1>4, Types, CountStays
<1>8. SupPart'
  <2>1. Health(record)' = Health(record')
    BY <1>0 DEF Health
  <2>2. ~Grants' /\ ~FindsDeath' /\ ~FindsStall'
    BY <1>2 DEF Grants, FindsDeath, FindsStall
  <2> QED BY <1>0, <1>2, <2>1, <2>2, Types DEF SupPart, Watched, StallIsOpen, DarkIsDeath, AsleepMeansSaid
<1>9. RebuildBudget'
  BY <1>0, <1>2, Types DEF RebuildBudget
<1>10. DeathsAreAsked'
  BY <1>3 DEF DeathsAreAsked, Moved
<1> QED BY <1>5, <1>6, <1>7, <1>8, <1>9, <1>10 DEF IInv, SupPart

\* A death is found, and put on record with a request for its rebuild.
LEMMA LookFindsDeath ==
  ASSUME IInv, Look, ~Grants, FindsDeath
  PROVE  IInv'
<1> DEFINE r == [record EXCEPT !.reported = TRUE, !.awaitingUp = TRUE]
<1>0. /\ record' = Said(r) /\ Spawn(FALSE, FALSE) /\ sup = "awake" /\ sup' = "asleep"
      /\ UNCHANGED <<alive, proc, stalled, started, rebuilds, watches, socket, spent, rebound,
                     pending, recovering, faults, timeouts>>
      /\ noted' = noted
  BY Types DEF Look, FindsStall, FindsDeath
<1>1. r \in Supervisions /\ r.reported = TRUE /\ r.dark = FALSE /\ r.granted = record.granted
      /\ r.rebuilding = record.rebuilding /\ r.checking = record.checking
  BY Types DEF Supervisions, FindsDeath, SupPart, DarkIsDeath
<1> HIDE DEF r
<1>2. /\ record' \in Supervisions /\ record'.reported = TRUE /\ record'.dark = FALSE
      /\ record'.rebuilding = record.rebuilding
      /\ record'.checking = record.checking /\ record'.health = Health(r)
      /\ Health(record') = Health(r)
  BY <1>0, <1>1, SaidFields
<1>3. PICK c \in Calls : call[c].pc = "off" /\ Moved(c, "door", FALSE, FALSE, FALSE)
  BY <1>0, Types, SpawnMoves
<1>4. call[c] = Idle /\ call[c].counted = FALSE
  BY <1>3, Types, IdleIsIdle DEF ChecksCounted
<1>5. TypeOK'
  BY <1>0, <1>2, <1>3, Types DEF TypeOK, Moved
<1>6. OneFlight'
  BY <1>0, <1>3, Types, FlightStays DEF Flying
<1>7. ChecksCounted'
  BY <1>2, <1>3, <1>4, Types, CountStays
<1>8. SupPart'
  <2>1. Health(record)' = Health(record')
    BY <1>0 DEF Health
  <2>2. ~Grants' /\ ~FindsDeath' /\ ~FindsStall'
    BY <1>2 DEF Grants, FindsDeath, FindsStall
  <2> QED BY <1>0, <1>2, <2>1, <2>2, Types DEF SupPart, Watched, StallIsOpen, DarkIsDeath, AsleepMeansSaid
<1>9. RebuildBudget'
  BY <1>0, <1>2, Types DEF RebuildBudget
<1>10. DeathsAreAsked'
  BY <1>3 DEF DeathsAreAsked, Moved
<1> QED BY <1>5, <1>6, <1>7, <1>8, <1>9, <1>10 DEF IInv, SupPart

\* An open that does not end is told to the recovery: a check, counted.
LEMMA LookFindsStall ==
  ASSUME IInv, Look, ~Grants, ~FindsDeath, FindsStall
  PROVE  IInv'
<1> DEFINE r == [record EXCEPT !.checking = @ + 1]
<1>0. /\ record' = Said(r) /\ Spawn(TRUE, FALSE) /\ sup = "awake" /\ sup' = "asleep"
      /\ UNCHANGED <<alive, proc, started, rebuilds, watches, socket, spent, rebound,
                     pending, recovering, faults, timeouts>>
      /\ noted' = TRUE /\ stalled' = "told"
  BY Types DEF Look
<1>1. /\ r = [record EXCEPT !.checking = record.checking + 1] /\ r.reported = record.reported
      /\ r.dark = record.dark /\ r.granted = record.granted
      /\ r.rebuilding = record.rebuilding /\ r.checking = record.checking + 1
  BY Types DEF Supervisions
<1>3. PICK c \in Calls : call[c].pc = "off" /\ Moved(c, "door", TRUE, FALSE, FALSE)
  BY <1>0, Types, SpawnMoves
<1>4. call[c] = Idle /\ call[c].counted = FALSE
  BY <1>3, Types, IdleIsIdle DEF ChecksCounted
<1>2. /\ record'.checking = record.checking + 1 /\ record'.reported = record.reported
      /\ record'.dark = record.dark /\ record'.granted = record.granted
      /\ record' = [r EXCEPT !.health = Health(r)]
  BY <1>0, <1>1, Types DEF Said, Supervisions
<1>7. ChecksCounted'
  BY <1>2, <1>3, <1>4, Types, CountGrows
<1>a. record' \in Supervisions
  <2>1. record'.checking \in 0..MaxCalls
    BY <1>7, FewCalls DEF ChecksCounted
  <2>2. r \in Supervisions
    BY <2>1, <1>1, <1>2, Types DEF Supervisions
  <2> QED BY <2>2, <1>0, SaidFields
<1> HIDE DEF r
<1>5. TypeOK'
  BY <1>0, <1>a, <1>3, Types DEF TypeOK, Moved
<1>6. OneFlight'
  BY <1>0, <1>3, Types, FlightStays DEF Flying
<1>8. SupPart'
  <2>1. Watched' /\ StallIsOpen' /\ DarkIsDeath'
    BY <1>0, <1>2, Types DEF SupPart, Watched, StallIsOpen, DarkIsDeath, FindsStall
  <2> QED BY <1>0, <2>1, SupDue
<1>9. RebuildBudget'
  BY <1>0, <1>2, Types DEF RebuildBudget
<1>10. DeathsAreAsked'
  BY <1>3 DEF DeathsAreAsked, Moved
<1> QED BY <1>5, <1>6, <1>7, <1>8, <1>9, <1>10 DEF IInv, SupPart

\* Nothing to find: the supervisor says what the record says, and sleeps.
LEMMA LookFindsNothing ==
  ASSUME IInv, Look, ~Grants, ~FindsDeath, ~FindsStall
  PROVE  IInv'
<1>0. /\ record' = Said(record) /\ sup = "awake" /\ sup' = "asleep"
      /\ UNCHANGED <<alive, proc, stalled, started, rebuilds, watches, socket, spent, rebound,
                     pending, recovering, call, faults, timeouts>>
      /\ noted' = noted
  BY Types DEF Look
<1>2. /\ record' \in Supervisions /\ record'.reported = record.reported
      /\ record'.dark = record.dark /\ record'.fresh = record.fresh
      /\ record'.granted = record.granted
      /\ record'.rebuilding = record.rebuilding /\ record'.checking = record.checking
      /\ record'.health = Health(record) /\ Health(record') = Health(record)
  BY <1>0, Types, SaidFields
<1>5. TypeOK'
  BY <1>0, <1>2, Types DEF TypeOK
<1>6. OneFlight' /\ ChecksCounted'
  BY <1>0, <1>2, Types, FlightSame, CountSame
<1>8. SupPart'
  <2>1. Health(record)' = Health(record')
    BY <1>0 DEF Health
  <2>2. ~Grants' /\ ~FindsDeath' /\ ~FindsStall'
    BY <1>0, <1>2 DEF Grants, FindsDeath, FindsStall
  <2> QED BY <1>0, <1>2, <2>1, <2>2, Types DEF SupPart, Watched, StallIsOpen, DarkIsDeath, AsleepMeansSaid
<1>9. RebuildBudget' /\ DeathsAreAsked'
  BY <1>0, <1>2, Types DEF RebuildBudget, DeathsAreAsked
<1> QED BY <1>5, <1>6, <1>8, <1>9 DEF IInv, SupPart

----------------------------------------------------------------------------
(* The steps of a call *)

\* Nothing the supervisor looks at changes.
LEMMA SupQuiet ==
  ASSUME IInv, UNCHANGED <<record, stalled, alive, sup, noted, watches>>, StallIsOpen'
  PROVE  SupPart'
<1>1. Health(record)' = Health(record)
  BY DEF Health
<1> QED BY <1>1, Types DEF SupPart, Watched, DarkIsDeath, AsleepMeansSaid, Grants, FindsDeath, FindsStall

\* What the lane tells its watchers reaches the supervisor, or a wake-up is due
\* all the same: the one of the rebuild that brought the lane.
LEMMA SupTold ==
  ASSUME IInv, NotifyLane, record' = record, StallIsOpen'
  PROVE  SupPart'
BY Types DEF NotifyLane, SupPart, Watched, DarkIsDeath, AsleepMeansSaid

\* A call that returns to report_dark_lane leaves the count and wakes the
\* supervisor; any other leaves the record alone.
LEMMA ReturnsFacts ==
  ASSUME IInv, NEW c \in Calls, Returns(c)
  PROVE  /\ Moved(c, "off", FALSE, FALSE, FALSE) /\ ChecksCounted' /\ record' \in Supervisions
         /\ record'.reported = record.reported /\ record'.dark = record.dark
         /\ record'.granted = record.granted /\ record'.rebuilding = record.rebuilding
         /\ noted' \in BOOLEAN /\ sup' = sup /\ watches' = watches
         /\ noted' = TRUE \/ (record' = record /\ noted' = noted)
<1>1. Moved(c, "off", FALSE, FALSE, FALSE)
  BY Types, IdleMoves DEF Returns
<1>2. CASE call[c].counted
  <2> DEFINE g == record.gaveUp \/ call[c].gaveUp
  <2>1. record' = [record EXCEPT !.checking = record.checking - 1, !.gaveUp = g] /\ Notify
    BY <1>2 DEF Returns
  <2>2. g \in BOOLEAN
    OBVIOUS
  <2> HIDE DEF g
  <2>3. /\ record'.reported = record.reported /\ record'.dark = record.dark
        /\ record'.granted = record.granted /\ record'.rebuilding = record.rebuilding
        /\ record'.checking = record.checking - 1
    BY <2>1, Types DEF Supervisions
  <2>4. call[c].counted = TRUE
    BY <1>2, Types, CallTypes
  <2>5. ChecksCounted'
    BY <1>1, <2>3, <2>4, Types, CountShrinks
  <2>6. record'.checking \in 0..MaxCalls
    BY <2>5, FewCalls DEF ChecksCounted
  <2>7. record' \in Supervisions
    BY <2>1, <2>2, <2>3, <2>6, Types DEF Supervisions
  <2> QED BY <1>1, <2>1, <2>3, <2>5, <2>7 DEF Notify
<1>3. CASE ~call[c].counted
  <2>1. UNCHANGED <<record, sup, noted, watches>>
    BY <1>3 DEF Returns
  <2>2. call[c].counted = FALSE
    BY <1>3, Types, CallTypes
  <2>3. ChecksCounted'
    BY <1>1, <2>1, <2>2, Types, CountStays
  <2> QED BY <1>1, <2>1, <2>3, Types
<1> QED BY <1>2, <1>3

\* The supervisor's part, when the lane stays as it is.
LEMMA ReturnsSup ==
  ASSUME IInv, NEW c \in Calls, Returns(c), UNCHANGED <<alive, proc, stalled>>
  PROVE  SupPart'
<1>1. StallIsOpen'
  BY Types DEF SupPart, StallIsOpen
<1>2. CASE record' = record /\ noted' = noted
  BY <1>1, <1>2, ReturnsFacts, SupQuiet
<1>3. CASE noted' = TRUE
  <2>1. Watched' /\ DarkIsDeath'
    BY <1>3, ReturnsFacts, Types DEF SupPart, Watched, DarkIsDeath
  <2>2. sup' \in {"awake", "asleep"}
    BY ReturnsFacts, Types DEF TypeOK
  <2> QED BY <1>1, <1>3, <2>1, <2>2, SupDue
<1> QED BY <1>2, <1>3, ReturnsFacts

\* A check under way is the only call with a socket.
LEMMA NoSocket ==
  ASSUME IInv, NEW c \in Calls, call[c].pc \notin {"wait", "settle", "rebuild", "rebuilt"}
  PROVE  call[c].here = FALSE
BY Types DEF OneFlight

\* A call that does not come back to the off stage keeps the count.
LEMMA CountKept ==
  ASSUME IInv, NEW c \in Calls, NEW p, NEW o \in BOOLEAN, Moved(c, p, call[c].counted, call[c].pull, o),
         record'.checking = record.checking
  PROVE  ChecksCounted'
<1>1. Counted(call') = Counted(call)
  BY DEF Counted, Moved
<1>2. record'.checking = Cardinality(Counted(call'))
  BY <1>1, Types DEF ChecksCounted
<1>3. \A d \in Calls : (call'[d].pc = "off" => call'[d] = Idle) /\ (call'[d].pull => ~call'[d].counted)
  BY Types DEF ChecksCounted, Moved
<1> QED BY <1>2, <1>3 DEF ChecksCounted, Idle

LaneStays == UNCHANGED <<alive, proc, stalled, started, rebuilds, socket, spent, rebound, faults, timeouts>>

\* A call that returns leaves everything but its own count as it was.
LEMMA ReturnsKeeps ==
  ASSUME IInv, NEW c \in Calls, Returns(c), LaneStays, UNCHANGED recovering, pending' \in BOOLEAN,
         call[c].pc \notin Flying, DeathsAreAsked'
  PROVE  IInv'
<1>1. OneFlight'
  BY ReturnsFacts, Types, FlightStays DEF Flying
<1>2. TypeOK'
  BY ReturnsFacts, Types DEF TypeOK, Moved, LaneStays
<1>3. SupPart'
  BY ReturnsSup DEF LaneStays
<1>4. RebuildBudget'
  BY ReturnsFacts, Types DEF RebuildBudget, LaneStays
<1> QED BY <1>1, <1>2, <1>3, <1>4, ReturnsFacts DEF IInv, SupPart

\* A call that goes on outside the flight, with the record as it was.
LEMMA GoesOnKeeps ==
  ASSUME IInv, NEW c \in Calls, NEW p \in Flying \cup {"ask", "claim", "reread"}, Goto(c, p),
         LaneStays, UNCHANGED <<record, sup, noted, watches>>, pending' \in BOOLEAN, recovering' \in BOOLEAN,
         OneFlight', DeathsAreAsked'
  PROVE  IInv'
<1>1. Moved(c, p, call[c].counted, call[c].pull, call[c].here)
  BY Types, GotoMoves
<1>2. ChecksCounted'
  <2>1. call[c].here \in BOOLEAN
    BY Types, CallTypes
  <2> QED BY <1>1, <2>1, CountKept
<1>3. TypeOK'
  BY <1>1, Types DEF TypeOK, Moved, LaneStays
<1>4. SupPart'
  <2>1. StallIsOpen'
    BY Types DEF SupPart, StallIsOpen, LaneStays
  <2> QED BY <2>1, SupQuiet DEF LaneStays
<1>5. RebuildBudget'
  BY Types DEF RebuildBudget, LaneStays
<1> QED BY <1>2, <1>3, <1>4, <1>5 DEF IInv, SupPart

\* A report is answered at the door, or goes on to be put on record.
LEMMA DoorKeeps ==
  ASSUME IInv, NEW c \in Calls, Door(c)
  PROVE  IInv'
<1>0. LaneStays /\ call[c].pc = "door" /\ call[c].here = FALSE /\ UNCHANGED <<pending, recovering>>
  BY NoSocket DEF Door, LaneStays
<1>1. CASE LaneUp /\ ~record.reported
  <2>1. Returns(c)
    BY <1>1 DEF Door
  <2>2. DeathsAreAsked'
    BY <1>1, <2>1, ReturnsFacts DEF DeathsAreAsked
  <2> QED BY <1>0, <2>1, <2>2, Types, ReturnsKeeps DEF Flying
<1>2. CASE ~(LaneUp /\ ~record.reported)
  <2>1. Goto(c, "ask") /\ UNCHANGED <<record, sup, noted, watches>>
    BY <1>2 DEF Door
  <2>2. Moved(c, "ask", call[c].counted, call[c].pull, FALSE)
    BY <1>0, <2>1, Types, GotoMoves
  <2>3. OneFlight'
    BY <1>0, <2>2, Types, FlightStays DEF Flying
  <2>4. DeathsAreAsked'
    BY <2>2 DEF DeathsAreAsked, Moved
  <2> QED BY <1>0, <2>1, <2>3, <2>4, Types, GoesOnKeeps
<1> QED BY <1>1, <1>2

\* The request is on record, with a call about to claim it.
LEMMA AskKeeps ==
  ASSUME IInv, NEW c \in Calls, Ask(c)
  PROVE  IInv'
<1>0. /\ LaneStays /\ call[c].pc = "ask" /\ call[c].here = FALSE /\ pending' = TRUE /\ recovering' = recovering
      /\ Goto(c, "claim") /\ UNCHANGED <<record, sup, noted, watches>>
  BY NoSocket DEF Ask, LaneStays
<1>1. Moved(c, "claim", call[c].counted, call[c].pull, FALSE)
  BY <1>0, Types, GotoMoves
<1>2. OneFlight'
  BY <1>0, <1>1, Types, FlightStays DEF Flying
<1>3. DeathsAreAsked'
  BY <1>0, <1>1 DEF DeathsAreAsked, Moved
<1> QED BY <1>0, <1>2, <1>3, Types, GoesOnKeeps

\* The flag was held: whoever holds it will see the request; or it is taken.
LEMMA ClaimKeeps ==
  ASSUME IInv, NEW c \in Calls, Claim(c)
  PROVE  IInv'
<1>0. LaneStays /\ call[c].pc = "claim" /\ call[c].here = FALSE /\ pending' = pending /\ recovering' = TRUE
  BY NoSocket DEF Claim, LaneStays
<1>1. CASE recovering
  <2>1. Returns(c)
    BY <1>1 DEF Claim
  <2>2. DeathsAreAsked'
    BY <1>0, <2>1, ReturnsFacts, Types DEF DeathsAreAsked, LaneStays, Moved
  <2> QED BY <1>0, <1>1, <2>1, <2>2, Types, ReturnsKeeps DEF Flying
<1>2. CASE ~recovering
  <2>1. Goto(c, "drain") /\ UNCHANGED <<record, sup, noted, watches>>
    BY <1>2 DEF Claim
  <2>2. Moved(c, "drain", call[c].counted, call[c].pull, FALSE)
    BY <1>0, <2>1, Types, GotoMoves DEF Flying
  <2>3. OneFlight'
    BY <1>0, <1>2, <2>2, Types, FlightStarts DEF Flying
  <2>4. DeathsAreAsked'
    BY <1>0, <2>1, <2>2, Types DEF DeathsAreAsked, LaneStays, Moved
  <2> QED BY <1>0, <2>1, <2>3, <2>4, Types, GoesOnKeeps DEF Flying
<1> QED BY <1>1, <1>2

\* A check starts to wait on the socket that is live.
LEMMA WaitMoves ==
  ASSUME IInv, NEW c \in Calls, call' = [call EXCEPT ![c].pc = "wait", ![c].here = TRUE]
  PROVE  Moved(c, "wait", call[c].counted, call[c].pull, TRUE)
<1> DEFINE r == [call[c] EXCEPT !.pc = "wait", !.here = TRUE]
<1>1. call \in [Calls -> Recoveries]
  BY Types DEF TypeOK
<1>2. r \in Recoveries /\ r.pc = "wait" /\ r.counted = call[c].counted /\ r.pull = call[c].pull
      /\ r.here = TRUE /\ r.pc # "off"
  BY <1>1 DEF Recoveries, Flying, Grounded
<1>3. call' = [call EXCEPT ![c] = r]
  BY <1>1 DEF Recoveries
<1> HIDE DEF r
<1>4. Moved(c, r.pc, r.counted, r.pull, r.here)
  BY <1>2, <1>3, Types, Put
<1> QED BY <1>2, <1>4

\* A call in its flight that goes on in it, with the record and the lane's
\* witnesses untouched: what is left to show is who asks for the death.
LEMMA FlightGoesOn ==
  ASSUME IInv, NEW c \in Calls, NEW p \in Flying, NEW o \in BOOLEAN,
         call[c].pc \in Flying, Moved(c, p, call[c].counted, call[c].pull, o),
         o => p \in {"wait", "settle", "rebuild", "rebuilt"},
         UNCHANGED <<record, recovering, rebuilds, timeouts>>,
         record.reported => p \in {"begin", "rebuild"}
                            \/ ((pending' = pending \/ ~pending) /\ call[c].pc \notin {"begin", "rebuild"})
  PROVE  OneFlight' /\ ChecksCounted' /\ RebuildBudget' /\ DeathsAreAsked'
<1>1. OneFlight'
  BY Types, FlightStays
<1>2. ChecksCounted'
  BY CountKept
<1>3. RebuildBudget'
  BY Types DEF RebuildBudget
<1>4. DeathsAreAsked'
  <2> SUFFICES ASSUME record.reported, ~record.dark, timeouts = 0
               PROVE  \/ \E d \in Calls : call'[d].pc \in {"door", "ask", "begin", "rebuild"}
                      \/ pending' /\ (recovering' \/ \E d \in Calls : call'[d].pc \in {"claim", "reread"})
    BY DEF DeathsAreAsked
  <2>1. CASE p \in {"begin", "rebuild"}
    BY <2>1 DEF Moved
  <2>2. CASE call[c].pc \notin {"begin", "rebuild"}
             /\ \E d \in Calls : call[d].pc \in {"door", "ask", "begin", "rebuild"}
    BY <2>2 DEF Moved, Flying
  <2>3. CASE pending' = pending /\ pending /\ (recovering \/ \E d \in Calls : call[d].pc \in {"claim", "reread"})
    BY <2>3 DEF Moved, Flying
  <2> QED BY <2>1, <2>2, <2>3, Types DEF DeathsAreAsked
<1> QED BY <1>1, <1>2, <1>3, <1>4

\* A request is taken, or the flight finds none left.
LEMMA DrainKeeps ==
  ASSUME IInv, NEW c \in Calls, Drain(c)
  PROVE  IInv'
<1>0. /\ LaneStays /\ call[c].pc = "drain" /\ call[c].here = FALSE /\ pending' = FALSE
      /\ UNCHANGED <<record, sup, noted, watches, recovering>>
  BY NoSocket DEF Drain, LaneStays
<1>1. PICK p \in {"begin", "release"} : Goto(c, p) /\ (pending => p = "begin")
  BY DEF Drain
<1>2. Moved(c, p, call[c].counted, call[c].pull, FALSE)
  BY <1>0, <1>1, Types, GotoMoves DEF Flying
<1>3. OneFlight' /\ DeathsAreAsked'
  <2>1. p \in Flying /\ call[c].pc \in Flying /\ call[c].pc \notin {"begin", "rebuild"}
    BY <1>0 DEF Flying
  <2> QED BY <1>0, <1>1, <1>2, <2>1, FlightGoesOn DEF LaneStays
<1> QED BY <1>0, <1>1, <1>3, Types, GoesOnKeeps DEF Flying

\* The request is served: a rebuild, a check that waits, or nothing to check.
LEMMA BeginKeeps ==
  ASSUME IInv, NEW c \in Calls, Begin(c)
  PROVE  IInv'
<1>0. /\ LaneStays /\ call[c].pc = "begin" /\ call[c].here = FALSE
      /\ UNCHANGED <<record, sup, noted, watches, pending, recovering>>
  BY NoSocket DEF Begin, LaneStays
<1>1. PICK p \in {"rebuild", "drain", "wait"}, o \in BOOLEAN :
        /\ Moved(c, p, call[c].counted, call[c].pull, o)
        /\ o => p = "wait"
        /\ record.reported => p = "rebuild"
  <2>1. CASE record.reported
    <3>1. Goto(c, "rebuild")
      BY <2>1 DEF Begin
    <3> QED BY <1>0, <2>1, <3>1, Types, GotoMoves DEF Flying
  <2>2. CASE ~record.reported /\ (LaneUp \/ ~socket)
    <3>1. PassEnds(c, "NotDark") \/ PassEnds(c, "SocketGone")
      BY <2>2 DEF Begin
    <3> QED BY <2>2, <3>1, Types, PassMoves
  <2>3. CASE ~record.reported /\ ~LaneUp /\ socket
    <3>1. call' = [call EXCEPT ![c].pc = "wait", ![c].here = TRUE]
      BY <2>3 DEF Begin
    <3> QED BY <2>3, <3>1, WaitMoves
  <2> QED BY <2>1, <2>2, <2>3
<1>2. OneFlight' /\ ChecksCounted' /\ RebuildBudget' /\ DeathsAreAsked'
  <2>1. p \in Flying /\ call[c].pc \in Flying
    BY <1>0 DEF Flying
  <2>2. o => p \in {"wait", "settle", "rebuild", "rebuilt"}
    BY <1>1
  <2> QED BY <1>0, <1>1, <2>1, <2>2, FlightGoesOn DEF LaneStays
<1>3. TypeOK'
  BY <1>0, <1>1, Types DEF TypeOK, Moved, LaneStays
<1>4. SupPart'
  <2>1. StallIsOpen'
    BY <1>0, Types DEF SupPart, StallIsOpen, LaneStays
  <2> QED BY <1>0, <2>1, SupQuiet DEF LaneStays
<1> QED BY <1>2, <1>3, <1>4 DEF IInv, SupPart

\* The flag is let go: a request on record is with the call that lets it go, which
\* has still to look again.
LEMMA ReleaseKeeps ==
  ASSUME IInv, NEW c \in Calls, Release(c)
  PROVE  IInv'
<1>0. /\ LaneStays /\ call[c].pc = "release" /\ call[c].here = FALSE /\ pending' = pending
      /\ recovering' = FALSE /\ Goto(c, "reread") /\ UNCHANGED <<record, sup, noted, watches>>
  BY NoSocket DEF Release, LaneStays
<1>1. Moved(c, "reread", call[c].counted, call[c].pull, FALSE)
  BY <1>0, Types, GotoMoves
<1>2. OneFlight'
  BY <1>0, <1>1, Types, FlightEnded DEF Flying, Grounded
<1>3. DeathsAreAsked'
  BY <1>0, <1>1, Types DEF DeathsAreAsked, Moved, LaneStays
<1> QED BY <1>0, <1>2, <1>3, Types, GoesOnKeeps

\* The second look: a request that came meanwhile is claimed again.
LEMMA RereadKeeps ==
  ASSUME IInv, NEW c \in Calls, Reread(c)
  PROVE  IInv'
<1>0. LaneStays /\ call[c].pc = "reread" /\ call[c].here = FALSE /\ UNCHANGED <<pending, recovering>>
  BY NoSocket DEF Reread, LaneStays
<1>1. CASE pending
  <2>1. Goto(c, "claim") /\ UNCHANGED <<record, sup, noted, watches>>
    BY <1>1 DEF Reread
  <2>2. Moved(c, "claim", call[c].counted, call[c].pull, FALSE)
    BY <1>0, <2>1, Types, GotoMoves
  <2>3. OneFlight'
    BY <1>0, <2>2, Types, FlightStays DEF Flying
  <2>4. DeathsAreAsked'
    BY <1>0, <1>1, <2>2 DEF DeathsAreAsked, Moved
  <2> QED BY <1>0, <2>1, <2>3, <2>4, Types, GoesOnKeeps
<1>2. CASE ~pending
  <2>1. Returns(c)
    BY <1>2 DEF Reread
  <2>2. DeathsAreAsked'
    BY <1>0, <1>2, <2>1, ReturnsFacts, Types DEF DeathsAreAsked, LaneStays, Moved
  <2> QED BY <1>0, <2>1, <2>2, Types, ReturnsKeeps DEF Flying
<1> QED BY <1>1, <1>2

\* A check that goes on counts the announcement it made.
LEMMA AnnouncedMoves ==
  ASSUME IInv, NEW c \in Calls, NEW p \in {"settle", "wait"},
         call' = [call EXCEPT ![c].waits = @ + 1, ![c].pc = p]
  PROVE  Moved(c, p, call[c].counted, call[c].pull, call[c].here)
<1> DEFINE r == [call[c] EXCEPT !.waits = call[c].waits + 1, !.pc = p]
<1>1. call \in [Calls -> Recoveries] /\ call[c] \in Recoveries
  BY Types DEF TypeOK
<1>a. call[c].waits + 1 \in Nat
  BY Types, CallTypes
<1>b. p \in Flying \cup Grounded
  BY DEF Flying
<1>2. r \in Recoveries /\ r.pc = p /\ r.counted = call[c].counted /\ r.pull = call[c].pull
      /\ r.here = call[c].here /\ r.pc # "off"
  BY <1>1, <1>a, <1>b DEF Recoveries
<1>3. call' = [call EXCEPT ![c] = r]
  BY <1>1 DEF Recoveries
<1> HIDE DEF r
<1>4. Moved(c, r.pc, r.counted, r.pull, r.here)
  BY <1>2, <1>3, Types, Put
<1> QED BY <1>2, <1>4

\* The end of a sleep: the check is over, or the socket is announced once more.
LEMMA ReannounceKeeps ==
  ASSUME IInv, NEW c \in Calls, Reannounce(c)
  PROVE  IInv'
<1>0. /\ call[c].pc = "wait"
      /\ UNCHANGED <<alive, stalled, started, record, rebuilds, sup, noted, watches, socket,
                     rebound, pending, recovering, faults, timeouts>>
  BY DEF Reannounce
<1>1. PICK p \in {"rebuild", "drain", "settle", "wait"}, o \in BOOLEAN :
        /\ Moved(c, p, call[c].counted, call[c].pull, o)
        /\ o => p # "drain"
        /\ record.reported => p = "rebuild"
  <2>0. call[c].here \in BOOLEAN
    BY Types, CallTypes
  <2>1. CASE record.reported
    <3>1. Goto(c, "rebuild")
      BY <2>1 DEF Reannounce
    <3> QED BY <2>0, <3>1, Types, GotoMoves DEF Flying
  <2>2. CASE ~record.reported /\ (LaneUp \/ ~call[c].here)
    <3>1. PassEnds(c, Settled(c)) \/ PassEnds(c, "SocketGone")
      BY <2>2 DEF Reannounce
    <3> QED BY <2>2, <3>1, Types, PassMoves
  <2>3. CASE ~record.reported /\ ~LaneUp /\ call[c].here /\ SocketSpent(c)
    <3>1. Goto(c, "settle")
      BY <2>3 DEF Reannounce
    <3> QED BY <2>0, <2>3, <3>1, Types, GotoMoves DEF Flying
  <2>4. CASE ~record.reported /\ ~LaneUp /\ call[c].here /\ ~SocketSpent(c)
    <3>1. PICK p \in {"settle", "wait"} : call' = [call EXCEPT ![c].waits = @ + 1, ![c].pc = p]
      BY <2>4 DEF Reannounce
    <3> QED BY <2>0, <2>4, <3>1, AnnouncedMoves
  <2> QED BY <2>1, <2>2, <2>3, <2>4
<1>2. OneFlight' /\ ChecksCounted' /\ RebuildBudget' /\ DeathsAreAsked'
  <2>1. p \in Flying /\ call[c].pc \in Flying
    BY <1>0 DEF Flying
  <2>2. o => p \in {"wait", "settle", "rebuild", "rebuilt"}
    BY <1>1
  <2> QED BY <1>0, <1>1, <2>1, <2>2, FlightGoesOn
<1>3. /\ proc' = proc \/ (proc = "failed" /\ proc' = "open")
      /\ spent' \in 0..Reannounces
  <2>1. spent \in 0..Reannounces /\ Reannounces \in Nat
    BY Types, LaneSupervisorAssumption DEF TypeOK
  <2> QED BY <2>1 DEF Reannounce, SocketSpent
<1>4. TypeOK'
  BY <1>0, <1>1, <1>3, Types DEF TypeOK, Moved
<1>5. SupPart'
  <2>1. StallIsOpen'
    BY <1>0, <1>3, Types DEF SupPart, StallIsOpen
  <2> QED BY <1>0, <2>1, SupQuiet
<1> QED BY <1>2, <1>4, <1>5 DEF IInv, SupPart

\* What the loss of a socket leaves.
LEMMA SocketFallsFacts ==
  ASSUME IInv, SocketFalls
  PROVE  /\ socket' \in BOOLEAN /\ spent' \in 0..Reannounces
         /\ proc' \in {"idle", "open", "failed", "up"} /\ stalled' \in {"no", "late", "told"}
         /\ StallIsOpen'
<1>1. /\ proc \in {"idle", "open", "failed", "up"} /\ stalled \in {"no", "late", "told"}
      /\ (stalled # "no" => proc = "open") /\ 0 \in 0..Reannounces
  BY Types, LaneSupervisorAssumption DEF TypeOK, SupPart, StallIsOpen
<1>2. /\ socket' = FALSE /\ spent' = 0
      /\ \/ proc' = "idle" /\ stalled' = "no"
         \/ proc' = proc /\ stalled' = stalled
  BY DEF SocketFalls
<1> QED BY <1>1, <1>2 DEF StallIsOpen

\* What a lane tells its watchers keeps the types.
LEMMA NotifyLaneTypes ==
  ASSUME IInv, NotifyLane
  PROVE  noted' \in BOOLEAN /\ sup' = sup /\ watches' = watches
BY Types DEF NotifyLane

\* The last sleep ends: a rebuild, a rebind, or nothing more to try.
LEMMA SettleKeeps ==
  ASSUME IInv, NEW c \in Calls, Settle(c)
  PROVE  IInv'
<1>0. /\ call[c].pc = "settle" /\ NotifyLane
      /\ UNCHANGED <<alive, started, record, rebuilds, pending, recovering, faults, timeouts>>
  BY DEF Settle
<1>1. PICK p \in {"rebuild", "drain"}, o \in BOOLEAN :
        /\ Moved(c, p, call[c].counted, call[c].pull, o)
        /\ o => p # "drain"
        /\ record.reported => p = "rebuild"
  <2>1. CASE record.reported
    <3>1. Goto(c, "rebuild")
      BY <2>1 DEF Settle
    <3>2. call[c].here \in BOOLEAN
      BY Types, CallTypes
    <3> QED BY <3>1, <3>2, Types, GotoMoves DEF Flying
  <2>2. CASE ~record.reported
    <3>1. \/ PassEnds(c, Settled(c)) \/ PassEnds(c, "SocketGone")
          \/ PassEnds(c, "GaveUp") \/ PassEnds(c, "Rebound")
      BY <2>2 DEF Settle
    <3> QED BY <2>2, <3>1, Types, PassMoves
  <2> QED BY <2>1, <2>2
<1>2. OneFlight' /\ ChecksCounted' /\ RebuildBudget' /\ DeathsAreAsked'
  <2>1. p \in Flying /\ call[c].pc \in Flying
    BY <1>0 DEF Flying
  <2>2. o => p \in {"wait", "settle", "rebuild", "rebuilt"}
    BY <1>1
  <2> QED BY <1>0, <1>1, <2>1, <2>2, FlightGoesOn
<1>3. UNCHANGED <<proc, stalled, socket, spent, rebound>> \/ (rebound' = TRUE /\ SocketFalls)
  BY DEF Settle
<1>4. /\ socket' \in BOOLEAN /\ spent' \in 0..Reannounces /\ rebound' \in BOOLEAN
      /\ proc' \in {"idle", "open", "failed", "up"} /\ stalled' \in {"no", "late", "told"}
      /\ StallIsOpen'
  <2>1. CASE UNCHANGED <<proc, stalled, socket, spent, rebound>>
    BY <2>1, Types DEF TypeOK, SupPart, StallIsOpen
  <2>2. CASE rebound' = TRUE /\ SocketFalls
    BY <2>2, SocketFallsFacts
  <2> QED BY <1>3, <2>1, <2>2
<1>5. TypeOK'
  BY <1>0, <1>1, <1>4, NotifyLaneTypes, Types DEF TypeOK, Moved
<1>6. SupPart'
  BY <1>0, <1>4, SupTold
<1> QED BY <1>2, <1>5, <1>6 DEF IInv, SupPart

\* The rebuild a dead lane asked for: answered by another already, refused by
\* the budget, or run.
LEMMA RebuildKeeps ==
  ASSUME IInv, NEW c \in Calls, Rebuild(c)
  PROVE  IInv'
<1>0. /\ call[c].pc = "rebuild"
      /\ UNCHANGED <<socket, spent, rebound, pending, recovering, faults, timeouts>>
  BY DEF Rebuild
<1>1. CASE ~record.reported
  <2>1. PassEnds(c, "NotDark")
        /\ UNCHANGED <<alive, proc, stalled, started, record, rebuilds, sup, noted, watches>>
    BY <1>1 DEF Rebuild
  <2>2. Moved(c, "drain", call[c].counted, call[c].pull, FALSE)
    BY <2>1, Types, PassMoves
  <2>3. OneFlight' /\ ChecksCounted' /\ RebuildBudget' /\ DeathsAreAsked'
    <3>1. "drain" \in Flying /\ call[c].pc \in Flying
      BY <1>0 DEF Flying
    <3> QED BY <1>0, <1>1, <2>1, <2>2, <3>1, FlightGoesOn
  <2>4. TypeOK'
    BY <1>0, <2>1, <2>2, Types DEF TypeOK, Moved
  <2>5. SupPart'
    <3>1. StallIsOpen'
      BY <2>1, Types DEF SupPart, StallIsOpen
    <3> QED BY <2>1, <3>1, SupQuiet
  <2> QED BY <2>3, <2>4, <2>5 DEF IInv, SupPart
<1>2. CASE record.reported /\ Len(rebuilds) >= LaneRebuilds /\ ~record.granted
  <2> DEFINE f == record.fresh /\ record.dark
  <2>1. /\ record' = [record EXCEPT !.dark = TRUE, !.fresh = f]
        /\ PassEnds(c, "RebuildsSpent") /\ Notify
        /\ UNCHANGED <<alive, proc, stalled, started, rebuilds>>
    BY <1>2 DEF Rebuild
  <2>2. f \in BOOLEAN
    OBVIOUS
  <2> HIDE DEF f
  <2>3. /\ record' \in Supervisions /\ record'.reported = record.reported /\ record'.dark = TRUE
        /\ record'.granted = record.granted /\ record'.checking = record.checking
        /\ record'.rebuilding = record.rebuilding
    BY <2>1, <2>2, Types DEF Supervisions
  <2>4. Moved(c, "drain", call[c].counted, call[c].pull, FALSE)
    BY <2>1, Types, PassMoves
  <2>5. OneFlight'
    BY <1>0, <2>4, Types, FlightStays DEF Flying
  <2>6. ChecksCounted'
    BY <2>3, <2>4, CountKept
  <2>7. TypeOK'
    BY <1>0, <2>1, <2>3, <2>4, Types DEF TypeOK, Moved, Notify
  <2>8. SupPart'
    <3>1. noted' /\ Watched' /\ StallIsOpen' /\ DarkIsDeath' /\ sup' \in {"awake", "asleep"}
      BY <1>2, <2>1, <2>3, Types DEF SupPart, Watched, StallIsOpen, DarkIsDeath, Notify, TypeOK
    <3> QED BY <3>1, SupDue
  <2>9. RebuildBudget' /\ DeathsAreAsked'
    BY <1>2, <2>1, <2>3, Types DEF RebuildBudget, DeathsAreAsked
  <2> QED BY <2>5, <2>6, <2>7, <2>8, <2>9 DEF IInv, SupPart
<1>3. CASE record.reported /\ ~(Len(rebuilds) >= LaneRebuilds /\ ~record.granted)
  <2> DEFINE h == IF record.gaveUp THEN "Dark" ELSE "Recovering"
  <2>1. /\ rebuilds' = Append(rebuilds, record.granted)
        /\ record' = [RebuildOnRecord(record) EXCEPT !.reported = FALSE, !.health = h]
        /\ alive' = TRUE /\ stalled' = "no" /\ started' = FALSE
        /\ proc' \in {"idle", "open"} /\ watches' = FALSE
        /\ Goto(c, "rebuilt") /\ sup' = sup /\ noted' = noted
    BY <1>3 DEF Rebuild
  <2>2. h \in {"Dark", "Recovering"}
    OBVIOUS
  <2> HIDE DEF h
  <2>3. /\ record' \in Supervisions /\ record'.reported = FALSE /\ record'.dark = FALSE
        /\ record'.granted = FALSE /\ record'.checking = record.checking
        /\ record'.rebuilding = TRUE
    BY <2>1, <2>2, Types DEF Supervisions, RebuildOnRecord
  <2>4. Moved(c, "rebuilt", call[c].counted, call[c].pull, call[c].here) /\ call[c].here \in BOOLEAN
    BY <2>1, Types, CallTypes, GotoMoves DEF Flying
  <2>5. OneFlight'
    BY <1>0, <2>4, Types, FlightStays DEF Flying
  <2>6. ChecksCounted'
    BY <2>3, <2>4, CountKept
  <2>7. TypeOK'
    <3>1. rebuilds' \in Seq(BOOLEAN)
      BY <2>1, Types DEF TypeOK
    <3> QED BY <1>0, <2>1, <2>3, <2>4, <3>1, Types DEF TypeOK, Moved
  <2>8. SupPart'
    BY <2>1, <2>3 DEF SupPart, Watched, StallIsOpen, DarkIsDeath, AsleepMeansSaid
  <2>9. RebuildBudget'
    <3>1. rebuilds \in Seq(BOOLEAN) /\ record.granted \in BOOLEAN
      BY Types DEF TypeOK
    <3>2. Len(rebuilds) \in Nat /\ LaneRebuilds \in Nat
      BY <3>1, LaneSupervisorAssumption
    <3>3. IF record.granted THEN Cardinality({i \in DOMAIN rebuilds : ~rebuilds[i]}) <= LaneRebuilds
                            ELSE Len(rebuilds) < LaneRebuilds
      BY <1>3, <3>2, Types DEF RebuildBudget
    <3>4. Cardinality({i \in DOMAIN Append(rebuilds, record.granted) :
                          ~Append(rebuilds, record.granted)[i]}) <= LaneRebuilds
      BY <3>1, <3>3, AppendedCount
    <3> QED BY <2>1, <2>3, <3>4 DEF RebuildBudget
  <2>10. DeathsAreAsked'
    BY <2>3 DEF DeathsAreAsked
  <2> QED BY <2>5, <2>6, <2>7, <2>8, <2>9, <2>10 DEF IInv, SupPart
<1> QED BY <1>1, <1>2, <1>3

\* The rebuild is over, and says so.
LEMMA RebuildEndsKeeps ==
  ASSUME IInv, NEW c \in Calls, RebuildEnds(c)
  PROVE  IInv'
<1>0. /\ call[c].pc = "rebuilt" /\ record' = [record EXCEPT !.rebuilding = FALSE]
      /\ Notify /\ PassEnds(c, "Rebuilt")
      /\ UNCHANGED <<alive, proc, stalled, started, rebuilds, socket, spent, rebound,
                     pending, recovering, faults, timeouts>>
  BY DEF RebuildEnds, EndsAloud
<1>1. /\ record' \in Supervisions /\ record'.reported = record.reported
      /\ record'.dark = record.dark /\ record'.granted = record.granted
      /\ record'.checking = record.checking
  BY <1>0, Types DEF Supervisions
<1>2. Moved(c, "drain", call[c].counted, call[c].pull, FALSE)
  BY <1>0, Types, PassMoves
<1>3. OneFlight'
  BY <1>0, <1>2, Types, FlightStays DEF Flying
<1>4. ChecksCounted'
  BY <1>1, <1>2, CountKept
<1>5. TypeOK'
  BY <1>0, <1>1, <1>2, Types DEF TypeOK, Moved, Notify
<1>6. SupPart'
  <2>1. noted' /\ Watched' /\ StallIsOpen' /\ DarkIsDeath' /\ sup' \in {"awake", "asleep"}
    BY <1>0, <1>1, Types DEF SupPart, Watched, StallIsOpen, DarkIsDeath, Notify, TypeOK
  <2> QED BY <2>1, SupDue
<1>7. RebuildBudget'
  BY <1>0, <1>1, Types DEF RebuildBudget
<1>8. DeathsAreAsked'
  <2>1. CASE \E d \in Calls : call[d].pc \in {"door", "ask", "begin", "rebuild"}
    BY <1>0, <1>2, <2>1 DEF Moved, DeathsAreAsked
  <2>2. CASE pending /\ (recovering \/ \E d \in Calls : call[d].pc \in {"claim", "reread"})
    BY <1>0, <1>2, <2>2 DEF Moved, DeathsAreAsked
  <2> QED BY <1>0, <1>1, <2>1, <2>2, Types DEF DeathsAreAsked
<1> QED BY <1>3, <1>4, <1>5, <1>6, <1>7, <1>8 DEF IInv, SupPart

\* The checks on a socket that goes are no longer on it, and nothing else of a call
\* changes.
LEMMA AbandonedFacts ==
  ASSUME IInv
  PROVE  /\ Abandoned \in [Calls -> Recoveries]
         /\ \A d \in Calls : /\ Abandoned[d].pc = call[d].pc /\ Abandoned[d].counted = call[d].counted
                             /\ Abandoned[d].pull = call[d].pull /\ Abandoned[d].here = FALSE
                             /\ (call[d].here = FALSE => Abandoned[d] = call[d])
<1>1. call \in [Calls -> Recoveries]
  BY Types DEF TypeOK
<1>2. \A d \in Calls : call[d] \in Recoveries
  BY <1>1
<1> QED BY <1>2 DEF Abandoned, Recoveries

\* A check is in its flight, so that there is one at most: when it is dropped with
\* its socket, no other call changes.
LEMMA DroppedMoves ==
  ASSUME IInv, NEW c \in Calls, call[c].pc \in {"wait", "settle"},
         call' = [Abandoned EXCEPT ![c] = Idle]
  PROVE  Moved(c, "off", FALSE, FALSE, FALSE)
<1>1. \A d \in Calls \ {c} : call[d].here = FALSE
  <2> SUFFICES ASSUME NEW d \in Calls \ {c}, call[d].here PROVE FALSE
    BY Types, CallTypes
  <2>1. InFlight(d) /\ InFlight(c)
    BY Types DEF OneFlight, InFlight, Flying
  <2> QED BY <2>1, Types DEF OneFlight
<1>2. Abandoned \in [Calls -> Recoveries] /\ \A d \in Calls \ {c} : Abandoned[d] = call[d]
  BY <1>1, AbandonedFacts
<1>3. call' \in [Calls -> Recoveries] /\ call'[c] = Idle /\ \A d \in Calls \ {c} : call'[d] = call[d]
  <2> DEFINE A == Abandoned
  <2>1. A \in [Calls -> Recoveries] /\ (\A d \in Calls \ {c} : A[d] = call[d])
        /\ call' = [A EXCEPT ![c] = Idle]
    BY <1>2
  <2> HIDE DEF A
  <2> QED BY <2>1, IdleIsIdle
<1> QED BY <1>3, IdleIsIdle DEF Moved

\* A pull's time runs out inside its check.
LEMMA PullTimesOutKeeps ==
  ASSUME IInv, NEW c \in Calls, PullTimesOut(c)
  PROVE  IInv'
<1>0. /\ call[c].pull /\ call[c].pc \in {"wait", "settle"} /\ timeouts < MaxTimeouts
      /\ timeouts' = timeouts + 1 /\ call' = [Abandoned EXCEPT ![c] = Idle] /\ recovering' = FALSE
      /\ SocketFalls /\ NotifyLane
      /\ UNCHANGED <<alive, started, record, rebuilds, rebound, pending, faults>>
  BY DEF PullTimesOut
<1>1. Moved(c, "off", FALSE, FALSE, FALSE)
  BY <1>0, DroppedMoves
<1>2. call[c].counted = FALSE
  BY <1>0, Types, CallTypes DEF ChecksCounted
<1>3. OneFlight'
  BY <1>0, <1>1, Types, FlightEnded DEF Flying, Grounded
<1>4. ChecksCounted'
  BY <1>0, <1>1, <1>2, Types, CountStays
<1>5. timeouts' \in 0..MaxTimeouts /\ timeouts' > 0
  BY <1>0, Types, LaneSupervisorAssumption DEF TypeOK
<1>6. TypeOK'
  BY <1>0, <1>1, <1>5, SocketFallsFacts, NotifyLaneTypes, Types DEF TypeOK, Moved
<1>7. SupPart'
  BY <1>0, SocketFallsFacts, SupTold
<1>8. RebuildBudget' /\ DeathsAreAsked'
  BY <1>0, <1>5, Types DEF RebuildBudget, DeathsAreAsked
<1> QED BY <1>3, <1>4, <1>6, <1>7, <1>8 DEF IInv, SupPart

----------------------------------------------------------------------------
(* The steps of the lane, the link and the user *)

\* The checks lose their socket at most, the record stays, and the supervisor hears
\* of it.
LEMMA LaneTells ==
  ASSUME IInv, UNCHANGED <<record, rebuilds, pending, recovering, timeouts>>,
         call' = call \/ call' = Abandoned, NotifyLane \/ Notify, StallIsOpen'
  PROVE  OneFlight' /\ ChecksCounted' /\ SupPart' /\ RebuildBudget' /\ DeathsAreAsked'
         /\ noted' \in BOOLEAN /\ sup' = sup /\ watches' = watches
         /\ call' \in [Calls -> Recoveries]
<1>0. /\ call' \in [Calls -> Recoveries]
      /\ \A d \in Calls : /\ call'[d].pc = call[d].pc /\ call'[d].counted = call[d].counted
                          /\ call'[d].pull = call[d].pull /\ (call'[d].here => call[d].here)
                          /\ (call[d].here = FALSE => call'[d] = call[d])
  <2>1. CASE call' = call
    BY <2>1, Types DEF TypeOK
  <2>2. CASE call' = Abandoned
    BY <2>2, AbandonedFacts
  <2> QED BY <2>1, <2>2
<1>1. OneFlight' /\ ChecksCounted'
  <2>1. OneFlight'
    BY <1>0, Types DEF OneFlight, InFlight
  <2>2. Counted(call') = Counted(call)
    BY <1>0 DEF Counted
  <2>3. record'.checking = Cardinality(Counted(call'))
    BY <2>2, Types DEF ChecksCounted
  <2>4. \A d \in Calls : call[d].pc = "off" => call'[d] = Idle
    <3> SUFFICES ASSUME NEW d \in Calls, call[d].pc = "off" PROVE call'[d] = Idle
      OBVIOUS
    <3>1. call[d] = Idle
      BY Types DEF ChecksCounted
    <3>2. call[d].here = FALSE
      BY <3>1, IdleIsIdle
    <3> QED BY <1>0, <3>1, <3>2
  <2>5. \A d \in Calls : (call'[d].pc = "off" => call'[d] = Idle) /\ (call'[d].pull => ~call'[d].counted)
    BY <1>0, <2>4, Types DEF ChecksCounted
  <2> QED BY <2>1, <2>3, <2>5 DEF ChecksCounted, Idle
<1>2. RebuildBudget' /\ DeathsAreAsked'
  BY <1>0, Types DEF RebuildBudget, DeathsAreAsked
<1>3. CASE NotifyLane
  BY <1>0, <1>1, <1>2, <1>3, SupTold, NotifyLaneTypes
<1>4. CASE Notify
  <2>1. noted' = TRUE /\ sup' = sup /\ watches' = watches
    BY <1>4 DEF Notify
  <2>2. Watched' /\ DarkIsDeath' /\ sup' \in {"awake", "asleep"}
    BY <2>1, Types DEF SupPart, Watched, DarkIsDeath, TypeOK
  <2> QED BY <1>0, <1>1, <1>2, <2>1, <2>2, SupDue
<1> QED BY <1>3, <1>4

\* The lane dies.
LEMMA DiesKeeps ==
  ASSUME IInv, Dies
  PROVE  IInv'
<1>0. /\ alive' = FALSE /\ started' = FALSE /\ faults < MaxFaults /\ faults' = faults + 1
      /\ (NotifyLane \/ Notify)
      /\ UNCHANGED <<proc, stalled, record, rebuilds, socket, spent, rebound,
                     pending, recovering, call, timeouts>>
  BY DEF Dies
<1>1. StallIsOpen'
  BY <1>0, Types DEF SupPart, StallIsOpen
<1>2. OneFlight' /\ ChecksCounted' /\ SupPart' /\ RebuildBudget' /\ DeathsAreAsked'
      /\ noted' \in BOOLEAN /\ sup' = sup /\ watches' = watches
  BY <1>0, <1>1, LaneTells
<1>3. faults' \in 0..MaxFaults
  BY <1>0, Types, LaneSupervisorAssumption DEF TypeOK
<1>4. TypeOK'
  BY <1>0, <1>2, <1>3, Types DEF TypeOK
<1> QED BY <1>2, <1>4 DEF IInv, SupPart

\* A negotiation succeeds.
LEMMA NegotiatedKeeps ==
  ASSUME IInv, Negotiated
  PROVE  IInv'
<1>0. /\ proc' = "up" /\ stalled' = "no" /\ started' = TRUE /\ NotifyLane
      /\ UNCHANGED <<alive, record, rebuilds, socket, spent, rebound, pending, recovering, call,
                     faults, timeouts>>
  BY DEF Negotiated
<1>1. StallIsOpen'
  BY <1>0 DEF StallIsOpen
<1>2. OneFlight' /\ ChecksCounted' /\ SupPart' /\ RebuildBudget' /\ DeathsAreAsked'
      /\ noted' \in BOOLEAN /\ sup' = sup /\ watches' = watches
  BY <1>0, <1>1, LaneTells
<1>4. TypeOK'
  BY <1>0, <1>2, Types DEF TypeOK
<1> QED BY <1>2, <1>4 DEF IInv, SupPart

\* The fold hears that the lane is up.
LEMMA CameUpKeeps ==
  ASSUME IInv, CameUp
  PROVE  IInv'
<1>0. /\ started' = FALSE /\ record' = [record EXCEPT !.awaitingUp = FALSE, !.gaveUp = FALSE] /\ Notify
      /\ UNCHANGED <<alive, proc, stalled, rebuilds, socket, spent, rebound, pending, recovering,
                     call, faults, timeouts>>
  BY DEF CameUp
<1>1. /\ record' \in Supervisions /\ record'.reported = record.reported
      /\ record'.dark = record.dark /\ record'.granted = record.granted
      /\ record'.checking = record.checking
  BY <1>0, Types DEF Supervisions
<1>2. OneFlight' /\ ChecksCounted'
  BY <1>0, <1>1, Types, FlightSame, CountSame
<1>3. TypeOK'
  BY <1>0, <1>1, Types DEF TypeOK, Notify
<1>4. SupPart'
  <2>1. noted' /\ Watched' /\ StallIsOpen' /\ DarkIsDeath' /\ sup' \in {"awake", "asleep"}
    BY <1>0, <1>1, Types DEF SupPart, Watched, StallIsOpen, DarkIsDeath, Notify, TypeOK
  <2> QED BY <2>1, SupDue
<1>5. RebuildBudget' /\ DeathsAreAsked'
  BY <1>0, <1>1, Types DEF RebuildBudget, DeathsAreAsked
<1> QED BY <1>2, <1>3, <1>4, <1>5 DEF IInv, SupPart

\* A spawned call asks for whatever death is on record.
LEMMA SpawnAsks ==
  ASSUME IInv, NEW n \in BOOLEAN, NEW u \in BOOLEAN, Spawn(n, u), recovering' = recovering
  PROVE  OneFlight' /\ DeathsAreAsked' /\ call' \in [Calls -> Recoveries]
<1>1. PICK c \in Calls : call[c].pc = "off" /\ Moved(c, "door", n, u, FALSE)
  BY Types, SpawnMoves
<1>2. OneFlight'
  BY <1>1, Types, FlightStays DEF Flying
<1>3. DeathsAreAsked' /\ call' \in [Calls -> Recoveries]
  BY <1>1 DEF DeathsAreAsked, Moved
<1> QED BY <1>2, <1>3

\* The processor fails, or meets a frame it cannot read.
LEMMA ProcessorErrorKeeps ==
  ASSUME IInv, ProcessorError
  PROVE  IInv'
<1>0. /\ faults < MaxFaults /\ faults' = faults + 1 /\ stalled' = "no" /\ proc \in {"open", "up"}
      /\ UNCHANGED <<alive, started, rebuilds, socket, spent, rebound, pending, recovering, timeouts>>
  BY DEF ProcessorError
<1>1. faults' \in 0..MaxFaults
  BY <1>0, Types, LaneSupervisorAssumption DEF TypeOK
<1>2. CASE proc = "open"
  <2>1. /\ proc' = "failed" /\ Spawn(TRUE, FALSE) /\ Notify
        /\ record' = [record EXCEPT !.checking = record.checking + 1]
    BY <1>2 DEF ProcessorError
  <2>2. PICK c \in Calls : call[c].pc = "off" /\ Moved(c, "door", TRUE, FALSE, FALSE)
    BY <2>1, Types, SpawnMoves
  <2>3. call[c].counted = FALSE
    BY <2>2, Types, IdleIsIdle DEF ChecksCounted
  <2>4. /\ record'.checking = record.checking + 1 /\ record'.reported = record.reported
        /\ record'.dark = record.dark /\ record'.granted = record.granted
        /\ record'.rebuilding = record.rebuilding
    BY <2>1, Types DEF Supervisions
  <2>5. ChecksCounted'
    BY <2>2, <2>3, <2>4, Types, CountGrows
  <2>6. record'.checking \in 0..MaxCalls
    BY <2>5, FewCalls DEF ChecksCounted
  <2>7. record' \in Supervisions
    BY <2>1, <2>4, <2>6, Types DEF Supervisions
  <2>8. OneFlight' /\ DeathsAreAsked' /\ call' \in [Calls -> Recoveries]
    BY <1>0, <2>1, SpawnAsks
  <2>9. TypeOK'
    BY <1>0, <1>1, <2>1, <2>7, <2>8, Types DEF TypeOK, Notify
  <2>10. SupPart'
    <3>1. noted' /\ Watched' /\ StallIsOpen' /\ DarkIsDeath' /\ sup' \in {"awake", "asleep"}
      BY <1>0, <2>1, <2>4, Types DEF SupPart, Watched, StallIsOpen, DarkIsDeath, Notify, TypeOK
    <3> QED BY <3>1, SupDue
  <2>11. RebuildBudget'
    BY <1>0, <2>4, Types DEF RebuildBudget
  <2> QED BY <2>5, <2>8, <2>9, <2>10, <2>11 DEF IInv, SupPart
<1>3. CASE proc = "up"
  <2>1. /\ proc' = "up" /\ Spawn(FALSE, FALSE) /\ UNCHANGED <<record, sup, noted, watches>>
    BY <1>3 DEF ProcessorError
  <2>2. PICK c \in Calls : call[c].pc = "off" /\ Moved(c, "door", FALSE, FALSE, FALSE)
    BY <2>1, Types, SpawnMoves
  <2>3. call[c].counted = FALSE
    BY <2>2, Types, IdleIsIdle DEF ChecksCounted
  <2>4. ChecksCounted'
    BY <2>1, <2>2, <2>3, Types, CountStays
  <2>5. OneFlight' /\ DeathsAreAsked' /\ call' \in [Calls -> Recoveries]
    BY <1>0, <2>1, SpawnAsks
  <2>6. TypeOK'
    BY <1>0, <1>1, <2>1, <2>5, Types DEF TypeOK
  <2>7. stalled = "no"
    BY <1>3, Types DEF SupPart, StallIsOpen
  <2>8. StallIsOpen'
    BY <1>0 DEF StallIsOpen
  <2>9. SupPart'
    BY <1>0, <2>1, <2>7, <2>8, SupQuiet
  <2>10. RebuildBudget'
    BY <1>0, <2>1, Types DEF RebuildBudget
  <2> QED BY <2>4, <2>5, <2>6, <2>9, <2>10 DEF IInv, SupPart
<1> QED BY <1>0, <1>2, <1>3

\* An open is late.
LEMMA OpenStallsKeeps ==
  ASSUME IInv, OpenStalls
  PROVE  IInv'
<1>0. /\ proc = "open" /\ stalled' = "late" /\ faults < MaxFaults /\ faults' = faults + 1 /\ NotifyLane
      /\ UNCHANGED <<alive, proc, started, record, rebuilds, socket, spent, rebound,
                     pending, recovering, call, timeouts>>
  BY DEF OpenStalls
<1>1. StallIsOpen'
  BY <1>0 DEF StallIsOpen
<1>2. OneFlight' /\ ChecksCounted' /\ SupPart' /\ RebuildBudget' /\ DeathsAreAsked'
      /\ noted' \in BOOLEAN /\ sup' = sup /\ watches' = watches
  BY <1>0, <1>1, LaneTells
<1>3. faults' \in 0..MaxFaults
  BY <1>0, Types, LaneSupervisorAssumption DEF TypeOK
<1>4. TypeOK'
  BY <1>0, <1>2, <1>3, Types DEF TypeOK
<1> QED BY <1>2, <1>4 DEF IInv, SupPart

\* A socket comes, and counts for a lane held dark.
LEMMA SocketComesKeeps ==
  ASSUME IInv, SocketComes
  PROVE  IInv'
<1>0. /\ socket' = TRUE
      /\ record' = [record EXCEPT !.fresh = record.dark]
      /\ proc' = (IF alive THEN "open" ELSE proc) /\ NotifyLane
      /\ UNCHANGED <<alive, stalled, started, rebuilds, spent, rebound, pending, recovering, call,
                     faults, timeouts>>
  BY DEF SocketComes, FreshSocket
<1>3. /\ record' \in Supervisions /\ record'.reported = record.reported
      /\ record'.dark = record.dark /\ record'.granted = record.granted
      /\ record'.checking = record.checking /\ record'.rebuilding = record.rebuilding
  BY <1>0, Types DEF Supervisions
<1>4. OneFlight' /\ ChecksCounted'
  BY <1>0, <1>3, Types, FlightSame, CountSame
<1>5. TypeOK'
  BY <1>0, <1>3, NotifyLaneTypes, Types DEF TypeOK
<1>6. SupPart'
  <2>1. StallIsOpen' /\ DarkIsDeath'
    BY <1>0, <1>3, Types DEF SupPart, StallIsOpen, DarkIsDeath
  <2>2. Watched'
    BY <1>0, <1>3, Types DEF SupPart, Watched, NotifyLane
  <2>3. noted' \/ record'.rebuilding
    BY <1>0, <1>3, Types DEF SupPart, Watched, NotifyLane
  <2> QED BY <2>1, <2>2, <2>3 DEF SupPart, AsleepMeansSaid
<1>7. RebuildBudget' /\ DeathsAreAsked'
  BY <1>0, <1>3, Types DEF RebuildBudget, DeathsAreAsked
<1> QED BY <1>4, <1>5, <1>6, <1>7 DEF IInv, SupPart

\* The socket drops.
LEMMA SocketDropsKeeps ==
  ASSUME IInv, SocketDrops
  PROVE  IInv'
<1>0. /\ SocketFalls /\ call' = Abandoned /\ NotifyLane
      /\ faults < MaxFaults /\ faults' = faults + 1
      /\ UNCHANGED <<alive, started, record, rebuilds, rebound, pending, recovering, timeouts>>
  BY DEF SocketDrops
<1>1. OneFlight' /\ ChecksCounted' /\ SupPart' /\ RebuildBudget' /\ DeathsAreAsked'
      /\ noted' \in BOOLEAN /\ sup' = sup /\ watches' = watches /\ call' \in [Calls -> Recoveries]
  BY <1>0, SocketFallsFacts, LaneTells
<1>2. faults' \in 0..MaxFaults
  BY <1>0, Types, LaneSupervisorAssumption DEF TypeOK
<1>3. TypeOK'
  BY <1>0, <1>1, <1>2, SocketFallsFacts, Types DEF TypeOK
<1> QED BY <1>1, <1>3 DEF IInv, SupPart

\* A user pulls: another socket, or a request for the dead lane.
LEMMA PullKeeps ==
  ASSUME IInv, Pull
  PROVE  IInv'
<1>0. UNCHANGED <<alive, started, record, rebuilds, rebound, pending, recovering, faults, timeouts>>
  BY DEF Pull
<1>1. CASE SocketFalls /\ call' = Abandoned /\ NotifyLane
  <2>1. OneFlight' /\ ChecksCounted' /\ SupPart' /\ RebuildBudget' /\ DeathsAreAsked'
        /\ noted' \in BOOLEAN /\ sup' = sup /\ watches' = watches /\ call' \in [Calls -> Recoveries]
    BY <1>0, <1>1, SocketFallsFacts, LaneTells
  <2>2. TypeOK'
    BY <1>0, <1>1, <2>1, SocketFallsFacts, Types DEF TypeOK
  <2> QED BY <2>1, <2>2 DEF IInv, SupPart
<1>2. CASE Spawn(FALSE, TRUE) /\ UNCHANGED <<proc, stalled, socket, spent, sup, noted, watches>>
  <2>1. PICK c \in Calls : call[c].pc = "off" /\ Moved(c, "door", FALSE, TRUE, FALSE)
    BY <1>2, Types, SpawnMoves
  <2>2. call[c].counted = FALSE
    BY <2>1, Types, IdleIsIdle DEF ChecksCounted
  <2>3. ChecksCounted'
    BY <1>0, <2>1, <2>2, Types, CountStays
  <2>4. OneFlight' /\ DeathsAreAsked' /\ call' \in [Calls -> Recoveries]
    BY <1>0, <1>2, SpawnAsks
  <2>5. TypeOK'
    BY <1>0, <1>2, <2>4, Types DEF TypeOK
  <2>6. StallIsOpen'
    BY <1>2, Types DEF SupPart, StallIsOpen
  <2>7. SupPart'
    BY <1>0, <1>2, <2>6, SupQuiet
  <2>8. RebuildBudget'
    BY <1>0, Types DEF RebuildBudget
  <2> QED BY <2>3, <2>4, <2>5, <2>7, <2>8 DEF IInv, SupPart
<1> QED BY <1>1, <1>2 DEF Pull

\* A window runs out.
LEMMA WindowPassesKeeps ==
  ASSUME IInv, WindowPasses
  PROVE  IInv'
<1>0. /\ \/ rebuilds # <<>> /\ rebuilds' = Tail(rebuilds) /\ rebound' = rebound
         \/ rebound' = FALSE /\ rebuilds' = rebuilds
      /\ UNCHANGED <<alive, proc, stalled, started, record, sup, noted, watches, socket, spent,
                     pending, recovering, call, faults, timeouts>>
  BY DEF WindowPasses
<1>1. rebuilds' \in Seq(BOOLEAN) /\ rebound' \in BOOLEAN
  <2>1. rebuilds \in Seq(BOOLEAN) /\ rebound \in BOOLEAN
    BY Types DEF TypeOK
  <2>2. rebuilds # <<>> => Tail(rebuilds) \in Seq(BOOLEAN)
    BY <2>1
  <2> QED BY <1>0, <2>1, <2>2
<1>2. TypeOK'
  BY <1>0, <1>1, Types DEF TypeOK
<1>3. OneFlight' /\ ChecksCounted'
  BY <1>0, Types, FlightSame, CountSame
<1>4. StallIsOpen'
  BY <1>0, Types DEF SupPart, StallIsOpen
<1>5. SupPart'
  BY <1>0, <1>4, SupQuiet
<1>6. RebuildBudget'
  <2>1. rebuilds \in Seq(BOOLEAN) /\ Cardinality({i \in DOMAIN rebuilds : ~rebuilds[i]}) <= LaneRebuilds
    BY Types DEF TypeOK, RebuildBudget
  <2>2. CASE rebuilds # <<>> /\ rebuilds' = Tail(rebuilds)
    <3>1. Cardinality({i \in DOMAIN Tail(rebuilds) : ~Tail(rebuilds)[i]}) <= LaneRebuilds
      BY <2>1, <2>2, TailCount
    <3> QED BY <1>0, <2>2, <3>1, Types DEF RebuildBudget
  <2>3. CASE rebuilds' = rebuilds
    BY <1>0, <2>3, Types DEF RebuildBudget
  <2> QED BY <1>0, <2>2, <2>3
<1>7. DeathsAreAsked'
  BY <1>0, Types DEF DeathsAreAsked
<1> QED BY <1>2, <1>3, <1>5, <1>6, <1>7 DEF IInv, SupPart

----------------------------------------------------------------------------
(* The theorems *)

\* The first lane is up, and no call runs.
LEMMA InitEstablishes ==
  ASSUME Init
  PROVE  IInv
<1>1. TypeOK
  <2>1. socket = TRUE
    BY DEF Init
  <2>2. rebuilds \in Seq(BOOLEAN)
    BY DEF Init
  <2>3. record \in Supervisions
    BY LaneSupervisorAssumption DEF Init, Supervisions
  <2>4. call \in [Calls -> Recoveries]
    BY IdleIsIdle DEF Init
  <2>5. faults \in 0..MaxFaults /\ timeouts \in 0..MaxTimeouts /\ spent \in 0..Reannounces
    BY LaneSupervisorAssumption DEF Init
  <2>6. /\ alive = TRUE /\ proc = "up" /\ stalled = "no" /\ started = FALSE /\ sup = "asleep"
        /\ noted = TRUE /\ watches = FALSE /\ rebound = FALSE /\ pending = FALSE /\ recovering = FALSE
    BY DEF Init
  <2> QED BY <2>1, <2>2, <2>3, <2>4, <2>5, <2>6 DEF TypeOK
<1>2. OneFlight
  BY DEF Init, OneFlight, InFlight, Idle, Flying
<1>3. ChecksCounted
  <2>1. Counted(call) = {}
    BY DEF Init, Counted, Idle
  <2>2. record.checking = 0
    BY DEF Init
  <2> QED BY <2>1, <2>2, FS_EmptySet DEF ChecksCounted, Init, Idle
<1>4. Watched /\ StallIsOpen /\ DarkIsDeath /\ DeathsAreAsked /\ AsleepMeansSaid
  BY DEF Init, Watched, StallIsOpen, DarkIsDeath, DeathsAreAsked, AsleepMeansSaid
<1>5. RebuildBudget
  <2>1. {i \in DOMAIN rebuilds : ~rebuilds[i]} = {}
    BY DEF Init
  <2>2. LaneRebuilds \in Nat
    BY LaneSupervisorAssumption
  <2>3. record.granted = FALSE
    BY DEF Init
  <2> QED BY <2>1, <2>2, <2>3, FS_EmptySet DEF RebuildBudget
<1> QED BY <1>1, <1>2, <1>3, <1>4, <1>5 DEF IInv

\* The invariant is inductive: Spec keeps it.
THEOREM SupervisorInductive == Spec => []IInv
<1>1. Init => IInv
  BY InitEstablishes
<1>2. IInv /\ [Next]_vars => IInv'
  <2> SUFFICES ASSUME IInv, [Next]_vars PROVE IInv'
    OBVIOUS
  <2>1. CASE Wakes
    BY <2>1, WakesKeeps
  <2>2. CASE Look
    BY <2>2, LookGrants, LookFindsDeath, LookFindsStall, LookFindsNothing
  <2>3. ASSUME NEW c \in Calls, CallStep(c) PROVE IInv'
    BY <2>3, DoorKeeps, AskKeeps, ClaimKeeps, DrainKeeps, BeginKeeps, ReleaseKeeps, RereadKeeps,
       ReannounceKeeps, SettleKeeps, RebuildKeeps, RebuildEndsKeeps DEF CallStep, FlightEnds
  <2>4. ASSUME NEW c \in Calls, PullTimesOut(c) PROVE IInv'
    BY <2>4, PullTimesOutKeeps
  <2>5. CASE Dies \/ Negotiated \/ CameUp \/ ProcessorError \/ OpenStalls
    BY <2>5, DiesKeeps, NegotiatedKeeps, CameUpKeeps, ProcessorErrorKeeps, OpenStallsKeeps
  <2>6. CASE SocketComes \/ SocketDrops \/ Pull \/ WindowPasses
    BY <2>6, SocketComesKeeps, SocketDropsKeeps, PullKeeps, WindowPassesKeeps
  <2>7. CASE UNCHANGED vars
    <3>1. UNCHANGED <<alive, proc, stalled, started, record, rebuilds, sup, noted, watches, socket,
                      spent, rebound, pending, recovering, call, faults, timeouts>>
      BY <2>7 DEF vars
    <3>2. TypeOK'
      BY <3>1, Types DEF TypeOK
    <3>3. OneFlight' /\ ChecksCounted'
      BY <3>1, Types, FlightSame, CountSame
    <3>4. StallIsOpen'
      BY <3>1, Types DEF SupPart, StallIsOpen
    <3>5. SupPart'
      BY <3>1, <3>4, SupQuiet
    <3>6. RebuildBudget' /\ DeathsAreAsked'
      BY <3>1, Types DEF RebuildBudget, DeathsAreAsked
    <3> QED BY <3>2, <3>3, <3>5, <3>6 DEF IInv, SupPart
  <2> QED BY <2>1, <2>2, <2>3, <2>4, <2>5, <2>6, <2>7 DEF Next
<1> QED BY <1>1, <1>2, PTL DEF Spec

\* The supervisor's consistency, for any number of calls: no death on record is
\* left to nobody, a sleep with no wake-up due leaves nothing unsaid, and the
\* rebuilds nobody paid for stay in their budget (assess, recover_wallet_lane,
\* rebuild_lane).
THEOREM SupervisorIsConsistent == Spec => []SupervisorInv
<1>1. IInv => SupervisorInv
  BY DEF IInv, SupervisorInv
<1> QED BY <1>1, SupervisorInductive, PTL

\* The recovery runs in one flight: whoever holds lane_recovering is the only
\* call that serves a request, and the flag never outlives its holder
\* (recover_wallet_lane's Release guard).
THEOREM RecoveryIsSingle == Spec => []OneFlight
<1>1. IInv => OneFlight
  BY DEF IInv
<1> QED BY <1>1, SupervisorInductive, PTL

=============================================================================
