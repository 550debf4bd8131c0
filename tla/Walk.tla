-------------------------------- MODULE Walk --------------------------------
(***************************************************************************)
(* The message walk (rust/chain/src/walk.rs): one cursor on the chain, one *)
(* task that fetches a page, hands it to the matchers and commits the      *)
(* cursor; the hub that arms, holds and quiesces it (dag_monitor.rs and    *)
(* rust/bridge/src/api/transport.rs); the process's death.                 *)
(*                                                                         *)
(* The selected chain is the heights 1..tip and only grows; 0 stands for   *)
(* no cursor and for no mark.  Every block may carry a message of ours.    *)
(***************************************************************************)
EXTENDS Naturals, FiniteSets

CONSTANTS
  PageSize,   \* chain blocks of a long page, WALK_TIP_PAGE_THRESHOLD here
  MaxPages,   \* MAX_WALK_PAGES: the budget of one run
  MaxFailed,  \* MAX_FAILED_RUNS
  MaxTip,     \* bound: chain blocks
  MaxEpoch,   \* bound: arms and holds of one process
  MaxDeaths   \* bound: deaths of the process

ASSUME WalkBounds ==
  /\ PageSize \in Nat \ {0} /\ MaxPages \in Nat \ {0} /\ MaxFailed \in Nat \ {0}
  /\ MaxTip \in Nat \ {0} /\ MaxEpoch \in Nat /\ MaxDeaths \in Nat

VARIABLES
  tip,        \* the node's sink
  mode,       \* State.mode
  cursor,     \* State.cursor, the committed one
  epoch,      \* State.epoch
  failed,     \* State.failed_runs
  pausing,    \* State.retry_after lies ahead
  carried,    \* State.carried: a mark an earlier arm never reached
  own,        \* State.own: this arm's mark
  mark_read,  \* State.mark_read
  present,    \* State.present
  disk,       \* the cursor file
  poked,      \* the stored permit of Walk.poke
  settled,    \* Walk.settled
  run,        \* the run in progress
  hub,        \* the hub's start: none, waiting for quiesce, about to arm
  live,       \* whether the hub the walk folds through can decrypt
  folded,     \* blocks every matcher folded, in stores that outlive the process
  skipped,    \* blocks on_gap named
  seed,       \* where the first seed put the cursor
  heard,      \* the sink as this arm read it for its mark; 0: not read
  deaths

marks == <<carried, own, mark_read, present, heard>>
pace == <<failed, pausing>>
walk == <<mode, epoch, cursor, disk>>
outcome == <<folded, skipped, seed>>
starting == <<hub, live, deaths>>

vars == <<tip, walk, pace, marks, poked, settled, run, outcome, starting>>

Idle == [at |-> "none", epoch |-> 0, from |-> 0, to |-> 0, added |-> 0, pages |-> 0, cause |-> "none"]

Later(a, b) == IF a > b THEN a ELSE b

---------------------------------------------------------------------------
\* The arm, the hold and the hub's start

\* arm(): the file's cursor when this process has none; the older mark is kept.
Arm ==
  /\ hub = "loaded" /\ epoch < MaxEpoch
  /\ hub' = "none"
  /\ cursor' = IF cursor = 0 THEN disk ELSE cursor
  /\ mode' = "Running" /\ epoch' = epoch + 1
  /\ failed' = 0 /\ pausing' = FALSE
  /\ carried' = IF carried # 0 THEN carried ELSE own
  /\ own' = 0 /\ mark_read' = FALSE /\ present' = FALSE /\ heard' = 0
  /\ poked' = TRUE
  /\ UNCHANGED <<tip, disk, settled, run, outcome, live, deaths>>

\* hold(): nothing on an idle walk, else the cursor is flushed.
hold ==
  \/ mode = "Idle" /\ UNCHANGED <<mode, epoch, disk>>
  \/ /\ mode = "Running" /\ epoch < MaxEpoch
     /\ mode' = "Idle" /\ epoch' = epoch + 1
     /\ disk' = IF cursor = 0 THEN disk ELSE cursor

\* lock_vault(): the hub's decryptor dies with the vault.
Lock ==
  /\ live' = FALSE
  /\ hold
  /\ UNCHANGED <<tip, cursor, pace, marks, poked, settled, run, outcome, hub, deaths>>

\* transport_start() for a hub that cannot decrypt: quiesce_intake() first.
StartHub ==
  /\ hub = "none" /\ ~live /\ hub' = "quiescing"
  /\ hold
  /\ UNCHANGED <<tip, cursor, pace, marks, poked, settled, run, outcome, live, deaths>>

\* quiesce() returns once no fold has the gate.  Then the store and the decryptor.
Quiesced ==
  /\ hub = "quiescing" /\ run.at # "folding"
  /\ hub' = "loaded" /\ live' = TRUE
  /\ UNCHANGED <<tip, walk, pace, marks, poked, settled, run, outcome, deaths>>

\* An early return of the start (the vault locked again, a store unreadable):
\* its decryptor is dropped and the walk stays held.
StartFails ==
  /\ hub # "none" /\ hub' = "none" /\ live' = FALSE
  /\ UNCHANGED <<tip, walk, pace, marks, poked, settled, run, outcome, deaths>>

---------------------------------------------------------------------------
\* The run

\* Still running under the run's arm, from the cursor it asked for.
Current == mode = "Running" /\ epoch = run.epoch
still_at == Current /\ cursor = run.from

\* The run ends and its epoch counts as settled.
Settles == run' = Idle /\ settled' = Later(settled, run.epoch)

\* A poke taken: a held walk ignores it, a pause only settles.
RunBegins ==
  /\ run.at = "none" /\ poked /\ poked' = FALSE
  /\ \/ mode = "Idle" /\ UNCHANGED <<run, settled>>
     \/ mode = "Running" /\ pausing /\ settled' = Later(settled, epoch) /\ UNCHANGED run
     \/ /\ mode = "Running" /\ ~pausing /\ UNCHANGED settled
        /\ run' = [Idle EXCEPT !.at = "marking", !.epoch = epoch]
  /\ UNCHANGED <<tip, walk, pace, marks, outcome, starting>>

\* mark_arm(): the sink, when the node answers with it.
mark_arm ==
  \/ UNCHANGED marks
  \/ /\ Current /\ cursor # 0 /\ ~mark_read
     /\ own' = tip /\ heard' = tip /\ mark_read' = TRUE
     /\ UNCHANGED <<carried, present>>

\* The run's first await, then a re-seed the third failure still owes.
RunMarks ==
  /\ run.at = "marking" /\ mark_arm
  /\ run' = IF failed >= MaxFailed
            THEN [run EXCEPT !.at = "skipping", !.cause = "Failure"]
            ELSE [run EXCEPT !.at = "stepping"]
  /\ UNCHANGED <<tip, walk, pace, poked, settled, outcome, starting>>

\* step()
RunSteps ==
  /\ run.at = "stepping"
  /\ \/ ~Current /\ Settles
     \/ Current /\ cursor = 0 /\ run' = [run EXCEPT !.at = "seeding"] /\ UNCHANGED settled
     \/ /\ Current /\ cursor # 0 /\ UNCHANGED settled
        /\ run' = [run EXCEPT !.at = "fetching", !.from = cursor]
  /\ UNCHANGED <<tip, walk, pace, marks, poked, outcome, starting>>

\* A page of the chain from `from`, trusted as far as its two lists line up.
Page(to, added) ==
  /\ run.at = "fetching" /\ to \in run.from..added
  /\ added = IF tip > run.from + PageSize THEN run.from + PageSize ELSE tip
  /\ run' = [run EXCEPT !.at = "answered", !.to = to, !.added = added]
  /\ UNCHANGED <<tip, walk, pace, marks, poked, settled, outcome, starting>>

\* No socket, a socket we retired ourselves, or the arm changed: not counted.
PageNotAsked ==
  /\ run.at = "fetching" /\ Settles
  /\ UNCHANGED <<tip, walk, pace, marks, poked, outcome, starting>>

\* The node does not know the cursor.
PageUnknown ==
  /\ run.at = "fetching" /\ still_at
  /\ run' = [run EXCEPT !.at = "skipping", !.cause = "Failure"]
  /\ UNCHANGED <<tip, walk, pace, marks, poked, settled, outcome, starting>>

\* Mutant of PageFails: every new socket forgives the streak.
PageFailsForgiven ==
  /\ run.at = "fetching" /\ still_at
  /\ failed' = 1 /\ pausing' = TRUE
  /\ Settles
  /\ UNCHANGED <<tip, walk, marks, poked, outcome, starting>>

\* failed_run(): counted for its own arm, and the last one skips.
PageFails ==
  /\ run.at = "fetching" /\ still_at
  /\ failed' = failed + 1 /\ pausing' = TRUE
  /\ \/ /\ failed + 1 >= MaxFailed /\ UNCHANGED settled
        /\ run' = [run EXCEPT !.at = "skipping", !.cause = "Failure"]
     \/ failed + 1 < MaxFailed /\ Settles
  /\ UNCHANGED <<tip, walk, marks, poked, outcome, starting>>

\* The mark, asked for once more with the page.
RunMarksAgain ==
  /\ run.at = "answered" /\ mark_arm
  /\ run' = [run EXCEPT !.at = "gate"]
  /\ UNCHANGED <<tip, walk, pace, poked, settled, outcome, starting>>

\* The fold gate, the second look and note_progress().
RunGate ==
  /\ run.at = "gate"
  /\ \/ ~still_at /\ Settles /\ UNCHANGED <<pace, marks>>
     \/ /\ still_at /\ UNCHANGED settled
        /\ run' = [run EXCEPT !.at = "folding"]
        /\ failed' = 0 /\ pausing' = FALSE /\ mark_read' = TRUE
        /\ UNCHANGED <<carried, own, present, heard>>
  /\ UNCHANGED <<tip, walk, poked, outcome, starting>>

\* hold_at(): a matcher could not fold the page.
RunHeld ==
  /\ run.at = "folding" /\ ~live /\ epoch <= MaxEpoch
  /\ mode' = "Idle" /\ epoch' = epoch + 1 /\ disk' = cursor
  /\ Settles
  /\ UNCHANGED <<tip, cursor, pace, marks, poked, outcome, starting>>

\* What follows a folded page: the tip or a list out of line ends the run, the
\* budget skips.
Whole == run.to = run.added
Long == run.added >= run.from + PageSize
Goes ==
  IF ~Whole \/ ~Long THEN Settles
  ELSE /\ UNCHANGED settled
       /\ run' = IF run.pages + 1 >= MaxPages
                 THEN [run EXCEPT !.at = "skipping", !.cause = "Budget"]
                 ELSE [run EXCEPT !.at = "stepping", !.pages = @ + 1]

\* Mutant of Carries: a mark at the page's start stays.
CarriesInside(mark) == mark # 0 /\ mark \in (run.from + 1)..run.to

\* A mark the page carries, or starts at, is passed with it.
Carries(mark) == mark # 0 /\ mark \in run.from..run.to

PassesMarks ==
  LET at_tip == Whole /\ ~Long IN
  /\ own' = IF at_tip \/ Carries(own) THEN 0 ELSE own
  /\ carried' = IF at_tip \/ Carries(own) \/ Carries(carried) THEN 0 ELSE carried
  /\ present' = (present \/ ((at_tip \/ Carries(own)) /\ epoch = run.epoch))
  /\ UNCHANGED <<mark_read, heard>>

\* Mutant of Folded: the node's count moves the cursor, not what lined up.
FoldedAll ==
  /\ run.at = "folding"
  /\ folded' = folded \cup (run.from + 1)..run.to
  /\ cursor' = run.added
  /\ disk' = cursor'
  /\ PassesMarks /\ Goes
  /\ UNCHANGED <<tip, mode, epoch, pace, poked, skipped, seed, starting>>

\* Every matcher folded it: commit(), written at once for a long page or one
\* after another or on a held walk, throttled otherwise.
Folded ==
  /\ run.at = "folding"
  /\ folded' = folded \cup (run.from + 1)..run.to
  /\ cursor' = run.to
  /\ disk' \in IF run.to > run.from /\ (Long \/ run.pages > 0 \/ mode = "Idle")
               THEN {run.to} ELSE {disk, cursor'}
  /\ PassesMarks /\ Goes
  /\ UNCHANGED <<tip, mode, epoch, pace, poked, skipped, seed, starting>>

---------------------------------------------------------------------------
\* A skip

\* landing(): the oldest mark still ahead.
Ahead(mark) == mark # 0 /\ mark # cursor
Landing == IF Ahead(carried) THEN carried ELSE IF Ahead(own) THEN own ELSE 0

\* The arm changed under the run: nothing to do.
SkipDropped ==
  /\ run.at = "skipping" /\ ~Current /\ Settles
  /\ UNCHANGED <<tip, walk, pace, marks, poked, outcome, starting>>

\* Landed on a mark, written with it.  A budget walks on at once, unsettled.
SkipLands ==
  /\ run.at = "skipping" /\ Current /\ cursor # 0 /\ Landing # 0
  /\ cursor' = Landing /\ disk' = Landing
  /\ skipped' = skipped \cup (cursor + 1)..Landing
  /\ carried' = 0
  /\ own' = IF Ahead(carried) THEN own ELSE 0
  /\ present' = (present \/ ~Ahead(carried))
  /\ failed' = 0
  /\ \/ run.cause = "Budget" /\ pausing' = FALSE /\ poked' = TRUE /\ run' = Idle /\ UNCHANGED settled
     \/ run.cause = "Failure" /\ Settles /\ UNCHANGED <<pausing, poked>>
  /\ UNCHANGED <<tip, mode, epoch, mark_read, heard, folded, seed, starting>>

\* Mutant of SkipStays: a budget spent past the arm's mark re-seeds too.
SkipNeverStays ==
  /\ run.at = "skipping" /\ Current /\ (cursor = 0 \/ Landing = 0)
  /\ carried' = 0 /\ own' = 0
  /\ present' = (present \/ (cursor # 0 /\ own # 0))
  /\ run' = [run EXCEPT !.at = "seeding"] /\ UNCHANGED <<poked, settled>>
  /\ UNCHANGED <<tip, walk, pace, mark_read, heard, outcome, starting>>

\* No mark ahead: past the arm's own a budget skips nothing, else the sink.
SkipStays ==
  /\ run.at = "skipping" /\ Current /\ (cursor = 0 \/ Landing = 0)
  /\ carried' = IF cursor = 0 THEN carried ELSE 0
  /\ own' = IF cursor = 0 THEN own ELSE 0
  /\ present' = (present \/ (cursor # 0 /\ own # 0))
  /\ \/ cursor # 0 /\ present' /\ run.cause = "Budget" /\ poked' = TRUE /\ Settles
     \/ /\ ~(cursor # 0 /\ present' /\ run.cause = "Budget")
        /\ run' = [run EXCEPT !.at = "seeding"] /\ UNCHANGED <<poked, settled>>
  /\ UNCHANGED <<tip, walk, pace, mark_read, heard, outcome, starting>>

\* reseed(): the sink is read, or refused and the next run paced.
Reseeds ==
  /\ run.at = "seeding" /\ Settles
  /\ \/ ~Current /\ UNCHANGED <<walk, pace, marks, outcome>>
     \/ /\ Current /\ cursor' = tip /\ disk' = tip
        /\ failed' = 0 /\ pausing' = FALSE
        /\ carried' = 0 /\ own' = 0 /\ mark_read' = TRUE /\ present' = TRUE /\ UNCHANGED heard
        /\ seed' = IF cursor = 0 THEN tip ELSE seed
        /\ skipped' = IF cursor = 0 THEN skipped ELSE skipped \cup (cursor + 1)..tip
        /\ UNCHANGED <<mode, epoch, folded>>
  /\ UNCHANGED <<tip, poked, starting>>

SinkRefused ==
  /\ run.at = "seeding" /\ Settles
  /\ pausing' = (pausing \/ Current)
  /\ UNCHANGED <<tip, walk, failed, marks, poked, outcome, starting>>

---------------------------------------------------------------------------
\* The link, the clock and the process

\* The chain moves; the poke is lost when no socket is up.
ChainMoves ==
  /\ tip < MaxTip /\ tip' = tip + 1 /\ poked' \in {poked, TRUE}
  /\ UNCHANGED <<walk, pace, marks, settled, run, outcome, starting>>

\* A socket is published, or a later chain move is announced on it.
Pokes ==
  /\ ~poked /\ poked' = TRUE
  /\ UNCHANGED <<tip, walk, pace, marks, settled, run, outcome, starting>>

PauseEnds ==
  /\ pausing /\ pausing' = FALSE
  /\ UNCHANGED <<tip, walk, failed, marks, poked, settled, run, outcome, starting>>

\* The process dies: marks live in memory, the cursor in its file.
Dies ==
  /\ deaths < MaxDeaths /\ deaths' = deaths + 1
  /\ mode' = "Idle" /\ cursor' = 0 /\ epoch' = 0 /\ failed' = 0 /\ pausing' = FALSE
  /\ carried' = 0 /\ own' = 0 /\ mark_read' = FALSE /\ present' = FALSE /\ heard' = 0
  /\ poked' = FALSE /\ settled' = 0 /\ run' = Idle
  /\ hub' = "none" /\ live' = FALSE
  /\ UNCHANGED <<tip, disk, outcome>>

---------------------------------------------------------------------------

Init ==
  /\ tip = 1 /\ mode = "Idle" /\ cursor = 0 /\ epoch = 0 /\ disk = 0
  /\ failed = 0 /\ pausing = FALSE
  /\ carried = 0 /\ own = 0 /\ mark_read = FALSE /\ present = FALSE /\ heard = 0
  /\ poked = FALSE /\ settled = 0 /\ run = Idle
  /\ hub = "none" /\ live = FALSE /\ deaths = 0
  /\ folded = {} /\ skipped = {} /\ seed = 0

Fetched ==
  \/ \E to, added \in 0..MaxTip : Page(to, added)
  \/ PageNotAsked \/ PageUnknown \/ PageFails

Walks ==
  \/ RunBegins \/ RunMarks \/ RunSteps \/ Fetched \/ RunMarksAgain \/ RunGate \/ RunHeld \/ Folded
  \/ SkipDropped \/ SkipLands \/ SkipStays \/ Reseeds \/ SinkRefused

Next ==
  \/ Arm \/ Lock \/ StartHub \/ Quiesced \/ StartFails
  \/ Walks
  \/ ChainMoves \/ Pokes \/ PauseEnds \/ Dies

Spec == Init /\ [][Next]_vars

\* The walk's task runs, its calls end, pokes keep coming (the chain moves
\* every second) and a pause passes.
TaskFairness == WF_vars(Walks) /\ WF_vars(Pokes) /\ WF_vars(PauseEnds)

\* A node that is reached now and then answers or fails a page, and now and
\* then its sink.
NodeFairness == SF_vars((\E to \in 0..MaxTip : Page(to, to)) \/ PageFails) /\ SF_vars(Reseeds)

FairSpec == Spec /\ TaskFairness /\ NodeFairness

---------------------------------------------------------------------------
\* Properties

\* Every variable keeps its shape; the file and the marks are on the chain.
TypeOK ==
  /\ tip \in 1..MaxTip /\ mode \in {"Idle", "Running"}
  /\ cursor \in 0..tip /\ disk \in 0..tip /\ carried \in 0..tip /\ own \in 0..tip
  /\ heard \in 0..tip /\ seed \in 0..tip
  /\ epoch \in 0..(MaxEpoch + 1) /\ settled \in 0..epoch
  /\ failed \in 0..MaxFailed
  /\ {pausing, mark_read, present, poked, live} \subseteq BOOLEAN
  /\ run \in [at : {"none", "marking", "stepping", "fetching", "answered", "gate", "folding",
                    "skipping", "seeding"},
              epoch : Nat, from : 0..tip, to : 0..tip, added : 0..tip, pages : 0..MaxPages,
              cause : {"none", "Budget", "Failure"}]
  /\ hub \in {"none", "quiescing", "loaded"} /\ deaths \in 0..MaxDeaths
  /\ folded \subseteq 1..tip /\ skipped \subseteq 1..tip

\* "Every page up to and including this chain block has been folded by every
\* matcher": a block the cursor or its file is past was folded, was named to
\* on_gap, or lies before the first seed, so a death or a lock replays and never
\* loses.
NothingPassedUnsaid == 1..Later(cursor, disk) \subseteq 1..seed \cup folded \cup skipped

\* A mark the walk passed is never landed on behind the cursor, through folds
\* that finish after a hold and marks carried from arm to arm.
CursorNeverGoesBack == [][cursor' >= cursor \/ deaths' # deaths]_vars

\* A spent budget skips nothing accepted since this arm read its mark.
BudgetSkipsOnlyAbsence ==
  [][run.cause = "Budget" /\ heard # 0 => skipped' \ skipped \subseteq 1..heard]_vars

\* Between quiesce's return and the next arm no page is folded: the hub's
\* stores have one writer while it restarts.
QuietWhileStarting == hub = "loaded" => run.at # "folding"

\* An arm settles unless a hold or a death ends it first: the history fill that
\* waits for it is not kept waiting by skips that chain.
ArmSettles == mode = "Running" ~> settled >= epoch \/ mode = "Idle"

\* A walk left running gets to the tip, whatever pages the node cannot serve,
\* if its pages line up.
Misaligned == \E to, added \in 0..MaxTip : to # added /\ Page(to, added)
ReachesTheTip ==
  <>[](mode = "Running") /\ <>[][~Misaligned]_vars => <>[](cursor = tip)

\* The walk's consistency in every state: its types, one writer while the hub
\* restarts, and a cursor, in memory and on disk, that passed nothing unfolded
\* and unsaid.
WalkInv == TypeOK /\ QuietWhileStarting /\ NothingPassedUnsaid

\* An arm settles, and a walk left running gets to the tip.
WalkEnds == ArmSettles /\ ReachesTheTip

=============================================================================
