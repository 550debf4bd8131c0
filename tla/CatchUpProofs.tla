-------------------------- MODULE CatchUpProofs --------------------------
(***************************************************************************)
(* The two catch-ups.                                                      *)
(*                                                                         *)
(* The message walk (Walk.tla): its cursor never passes a block unsaid and *)
(* never goes back, one writer has the hub's stores while it restarts, and *)
(* a spent budget skips nothing accepted since the arm, for a chain, a     *)
(* page, a budget and a number of arms and deaths of any size.             *)
(*                                                                         *)
(* The history fill (HistoryFill.tla): no position it saves and no report  *)
(* it gives speaks for a row nobody dealt with, for an archive, a page, a  *)
(* budget of pages and a number of runs, erases and faults of any size;    *)
(* and each erase lets at most one thing it took out come back.            *)
(***************************************************************************)
EXTENDS Walk, HistoryFill, FiniteSetTheorems, WellFoundedInduction, TLAPS

\* A page in a fold starts at the cursor, under the arm that is running if one
\* is: no arm begins during a fold.
FoldsFromCursor ==
  run.at = "folding" => cursor = run.from /\ (mode = "Running" => epoch = run.epoch)

\* What lined up is a prefix of what the node gave.
PageInOrder ==
  run.at \in {"answered", "gate", "folding"} => run.from <= run.to /\ run.to <= run.added

\* The walk is held while the hub restarts.
HeldWhileStarting == hub # "none" => mode = "Idle"

\* A run's arm is this one or an earlier one.
RunIsOfAnArm == run.epoch <= epoch

\* A run that may still ask for a page has a failure to spare.
FailuresToSpare == run.at \in {"stepping", "fetching", "folding"} => failed < MaxFailed

\* A mark lies at the cursor or ahead, the carried one before this arm's own.
MarksAhead ==
  /\ carried # 0 => cursor # 0 /\ cursor <= carried
  /\ own # 0 => cursor # 0 /\ cursor <= own
  /\ carried # 0 /\ own # 0 => carried <= own

\* The sink this arm read bounds both marks, and until it is reached it is the
\* arm's own mark.
HeardBounds ==
  heard # 0 => /\ carried <= heard /\ own <= heard
               /\ mode = "Running" => own = heard \/ present

\* A budget goes to the sink only for an arm that read no mark.
BudgetSeedsUnmarked ==
  run.at = "seeding" /\ run.cause = "Budget" /\ Current => heard = 0 \/ cursor = 0

IInv ==
  /\ TypeOK /\ NothingPassedUnsaid /\ QuietWhileStarting
  /\ FoldsFromCursor /\ PageInOrder /\ HeldWhileStarting /\ RunIsOfAnArm /\ FailuresToSpare
  /\ MarksAhead /\ HeardBounds /\ BudgetSeedsUnmarked

\* The runs there can be on the chain as it is.
Steps == {"none", "marking", "stepping", "fetching", "answered", "gate", "folding", "skipping", "seeding"}
Runs == [at : Steps, epoch : Nat, from : 0..tip, to : 0..tip, added : 0..tip, pages : 0..MaxPages,
         cause : {"none", "Budget", "Failure"}]

---------------------------------------------------------------------------
(***************************************************************************)
(* The steps.                                                              *)
(***************************************************************************)

\* A run that ends leaves the idle record, and settles an epoch already begun.
LEMMA SettlesTypes ==
  ASSUME TypeOK, RunIsOfAnArm, Settles
  PROVE  run' = Idle /\ settled' \in 0..epoch
  BY DEF TypeOK, RunIsOfAnArm, Settles, Later

\* The walk's parts.
LEMMA Parts ==
  ASSUME IInv
  PROVE  /\ TypeOK /\ NothingPassedUnsaid /\ QuietWhileStarting
         /\ FoldsFromCursor /\ PageInOrder /\ HeldWhileStarting /\ RunIsOfAnArm /\ FailuresToSpare
         /\ MarksAhead /\ HeardBounds /\ BudgetSeedsUnmarked
         /\ run \in Runs
  BY DEF IInv, TypeOK, Runs, Steps

\* A step of the run that leaves the cursor, the marks and the pace alone.
LEMMA RunOnlyStep ==
  ASSUME IInv, UNCHANGED <<tip, walk, pace, marks, outcome, starting>>,
         poked' \in BOOLEAN, settled' \in 0..epoch,
         run' \in Runs, RunIsOfAnArm', PageInOrder',
         QuietWhileStarting', FoldsFromCursor', FailuresToSpare', BudgetSeedsUnmarked'
  PROVE  IInv'
<1>1. TypeOK'
  BY DEF IInv, TypeOK, Runs, Steps, walk, pace, marks, outcome, starting
<1>2. NothingPassedUnsaid' /\ HeldWhileStarting' /\ MarksAhead' /\ HeardBounds'
  BY DEF IInv, NothingPassedUnsaid, HeldWhileStarting, MarksAhead, HeardBounds,
         walk, pace, marks, outcome, starting
<1> QED BY <1>1, <1>2 DEF IInv

\* A run that ends, and nothing else.
LEMMA RunEnds ==
  ASSUME IInv, Settles, UNCHANGED <<tip, walk, pace, marks, outcome, starting>>, poked' \in BOOLEAN
  PROVE  IInv'
<1>1. run' \in Runs /\ run'.at = "none" /\ run'.epoch = 0
  BY WalkBounds DEF Settles, Idle, Runs, Steps, IInv, TypeOK
<1>2. settled' \in 0..epoch
  BY SettlesTypes DEF IInv
<1>3. RunIsOfAnArm' /\ PageInOrder' /\ QuietWhileStarting' /\ FoldsFromCursor' /\ FailuresToSpare'
      /\ BudgetSeedsUnmarked'
  BY <1>1 DEF RunIsOfAnArm, PageInOrder, QuietWhileStarting, FoldsFromCursor, FailuresToSpare,
              BudgetSeedsUnmarked, IInv, TypeOK, walk
<1> QED BY <1>1, <1>2, <1>3, RunOnlyStep

\* The run moves on to another of its steps, the page it has unchanged.
LEMMA RunMoves ==
  ASSUME IInv, UNCHANGED <<tip, walk, pace, marks, outcome, starting, settled>>, poked' \in BOOLEAN,
         NEW a \in {"stepping", "fetching", "seeding", "skipping"},
         run' \in Runs, run'.at = a, run'.epoch = run.epoch,
         FailuresToSpare', BudgetSeedsUnmarked'
  PROVE  IInv'
<1>1. settled' \in 0..epoch
  BY DEF IInv, TypeOK
<1>2. RunIsOfAnArm' /\ PageInOrder' /\ QuietWhileStarting' /\ FoldsFromCursor'
  BY DEF RunIsOfAnArm, PageInOrder, QuietWhileStarting, FoldsFromCursor, IInv, TypeOK, walk
<1> QED BY <1>1, <1>2, RunOnlyStep
\* arm(): the walk leaves an idle mode, and nothing was being folded.
LEMMA ArmStep ==
  ASSUME IInv, Arm
  PROVE  IInv'
<1> USE DEF IInv
<1>1. TypeOK'
  <2>1. /\ mode' \in {"Idle", "Running"} /\ cursor' \in 0..tip /\ carried' \in 0..tip /\ own' \in 0..tip
        /\ heard' \in 0..tip /\ epoch' \in 0..(MaxEpoch + 1) /\ settled' \in 0..epoch'
        /\ failed' \in 0..MaxFailed
    BY WalkBounds DEF TypeOK, Arm
  <2>2. {pausing', mark_read', present', poked', live'} \subseteq BOOLEAN
    BY DEF TypeOK, Arm
  <2> QED BY <2>1, <2>2 DEF TypeOK, Arm, outcome
<1>2. NothingPassedUnsaid'
  BY DEF TypeOK, NothingPassedUnsaid, Arm, Later, outcome
<1>3. QuietWhileStarting' /\ FoldsFromCursor' /\ PageInOrder' /\ HeldWhileStarting' /\ FailuresToSpare'
  BY WalkBounds DEF TypeOK, QuietWhileStarting, FoldsFromCursor, PageInOrder, HeldWhileStarting,
                    FailuresToSpare, Arm
<1>4. RunIsOfAnArm' /\ BudgetSeedsUnmarked'
  BY DEF TypeOK, RunIsOfAnArm, BudgetSeedsUnmarked, Current, Arm
<1>5. MarksAhead' /\ HeardBounds'
  BY DEF TypeOK, MarksAhead, HeardBounds, Arm
<1> QED BY <1>1, <1>2, <1>3, <1>4, <1>5

\* hold(): the walk is idle after it, its cursor on disk if it was not before.
LEMMA HoldStep ==
  ASSUME IInv, hold, live' \in BOOLEAN, hub' \in {hub, "quiescing"}, hub' = "loaded" => hub = "loaded",
         UNCHANGED <<tip, cursor, pace, marks, poked, settled, run, outcome, deaths>>
  PROVE  IInv'
<1> USE DEF IInv, pace, marks, outcome
<1>1. mode' = "Idle" /\ epoch' \in epoch..(MaxEpoch + 1) /\ disk' \in {disk, cursor} /\ epoch <= epoch'
  BY WalkBounds DEF TypeOK, hold
<1>2. TypeOK'
  BY <1>1, WalkBounds DEF TypeOK
<1>3. NothingPassedUnsaid'
  BY <1>1 DEF TypeOK, NothingPassedUnsaid, Later
<1>4. QuietWhileStarting' /\ FoldsFromCursor' /\ PageInOrder' /\ HeldWhileStarting' /\ FailuresToSpare'
  BY <1>1 DEF TypeOK, QuietWhileStarting, FoldsFromCursor, PageInOrder, HeldWhileStarting,
              FailuresToSpare
<1>5. RunIsOfAnArm' /\ BudgetSeedsUnmarked'
  BY <1>1 DEF TypeOK, RunIsOfAnArm, BudgetSeedsUnmarked, Current
<1>6. MarksAhead' /\ HeardBounds'
  BY <1>1 DEF TypeOK, MarksAhead, HeardBounds
<1> QED BY <1>2, <1>3, <1>4, <1>5, <1>6

\* The hub's start up to its arm.
LEMMA HubStep ==
  ASSUME IInv, Quiesced \/ StartFails
  PROVE  IInv'
<1> USE DEF IInv, Quiesced, StartFails, walk, pace, marks, outcome
<1>1. TypeOK'
  BY DEF TypeOK
<1>2. QuietWhileStarting' /\ HeldWhileStarting'
  BY DEF QuietWhileStarting, HeldWhileStarting
<1>3. NothingPassedUnsaid' /\ FoldsFromCursor' /\ PageInOrder' /\ FailuresToSpare' /\ RunIsOfAnArm'
      /\ BudgetSeedsUnmarked' /\ MarksAhead' /\ HeardBounds'
  BY DEF NothingPassedUnsaid, FoldsFromCursor, PageInOrder, FailuresToSpare, RunIsOfAnArm,
         BudgetSeedsUnmarked, Current, MarksAhead, HeardBounds
<1> QED BY <1>1, <1>2, <1>3

\* A poke taken starts a run under the current arm, or none.
LEMMA RunBeginsStep ==
  ASSUME IInv, RunBegins
  PROVE  IInv'
<1>1. UNCHANGED <<tip, walk, pace, marks, outcome, starting>> /\ poked' \in BOOLEAN
  BY DEF RunBegins
<1>2. settled' \in 0..epoch
  BY DEF RunBegins, IInv, TypeOK, Later
<1>3. /\ run' \in Runs /\ run'.at \in {"none", "marking"} /\ run'.epoch <= epoch
  <2>1. CASE run' = run
    BY <2>1, Parts DEF RunBegins, RunIsOfAnArm
  <2>2. CASE run' = [Idle EXCEPT !.at = "marking", !.epoch = epoch]
    <3>1. run' = [at |-> "marking", epoch |-> epoch, from |-> 0, to |-> 0, added |-> 0, pages |-> 0,
                  cause |-> "none"]
      BY <2>2 DEF Idle
    <3> QED BY <3>1, WalkBounds DEF Runs, Steps, IInv, TypeOK
  <2> QED BY <2>1, <2>2 DEF RunBegins
<1>4. RunIsOfAnArm' /\ PageInOrder' /\ QuietWhileStarting' /\ FoldsFromCursor' /\ FailuresToSpare'
      /\ BudgetSeedsUnmarked'
  BY <1>1, <1>3 DEF RunIsOfAnArm, PageInOrder, QuietWhileStarting, FoldsFromCursor, FailuresToSpare,
                    BudgetSeedsUnmarked, walk
<1> QED BY <1>1, <1>2, <1>3, <1>4, RunOnlyStep

\* step()
LEMMA RunStepsStep ==
  ASSUME IInv, RunSteps
  PROVE  IInv'
<1>1. UNCHANGED <<tip, walk, pace, marks, outcome, starting>> /\ poked' \in BOOLEAN
  BY DEF RunSteps, IInv, TypeOK
<1>2. CASE Settles
  BY <1>1, <1>2, RunEnds
<1>3. CASE run' = [run EXCEPT !.at = "seeding"] /\ cursor = 0 /\ UNCHANGED settled
  <2>1. run' \in Runs /\ run'.at = "seeding" /\ run'.epoch = run.epoch
    BY <1>3, Parts DEF Runs, Steps
  <2>2. FailuresToSpare' /\ BudgetSeedsUnmarked'
    BY <1>1, <1>3, <2>1 DEF FailuresToSpare, BudgetSeedsUnmarked, walk
  <2> QED BY <1>1, <1>3, <2>1, <2>2, RunMoves
<1>4. CASE run' = [run EXCEPT !.at = "fetching", !.from = cursor] /\ UNCHANGED settled
  <2>1. run' \in Runs /\ run'.at = "fetching" /\ run'.epoch = run.epoch
    BY <1>4, Parts DEF Runs, Steps, TypeOK
  <2>2. FailuresToSpare' /\ BudgetSeedsUnmarked'
    BY <1>1, <2>1, Parts DEF FailuresToSpare, BudgetSeedsUnmarked, pace, RunSteps
  <2> QED BY <1>1, <1>4, <2>1, <2>2, RunMoves
<1> QED BY <1>2, <1>3, <1>4 DEF RunSteps

\* The node's answer, if the page is one.
LEMMA PageStep ==
  ASSUME IInv, NEW to \in 0..MaxTip, NEW added \in 0..MaxTip, Page(to, added)
  PROVE  IInv'
<1>1. UNCHANGED <<tip, walk, pace, marks, outcome, starting, settled>> /\ poked' \in BOOLEAN
  BY DEF Page, IInv, TypeOK
<1>2. run.from \in 0..tip /\ added \in 0..tip /\ run.from <= to /\ to <= added /\ to \in 0..tip
  BY Parts, WalkBounds DEF Page, Runs, TypeOK
<1>3. /\ run' \in Runs /\ run'.at = "answered" /\ run'.epoch = run.epoch
      /\ run'.from = run.from /\ run'.to = to /\ run'.added = added
  BY <1>2, Parts DEF Page, Runs, Steps
<1>4. RunIsOfAnArm' /\ PageInOrder' /\ QuietWhileStarting' /\ FoldsFromCursor' /\ FailuresToSpare'
      /\ BudgetSeedsUnmarked'
  BY <1>1, <1>2, <1>3, Parts DEF RunIsOfAnArm, PageInOrder, QuietWhileStarting, FoldsFromCursor,
         FailuresToSpare, BudgetSeedsUnmarked, walk
<1>5. settled' \in 0..epoch
  BY <1>1 DEF IInv, TypeOK
<1> QED BY <1>1, <1>3, <1>4, <1>5, RunOnlyStep

\* The answers that are not a page: not asked, unknown, failed.
LEMMA NoPageStep ==
  ASSUME IInv, PageNotAsked \/ PageUnknown
  PROVE  IInv'
<1>1. UNCHANGED <<tip, walk, pace, marks, outcome, starting>> /\ poked' \in BOOLEAN
  BY DEF PageNotAsked, PageUnknown, IInv, TypeOK
<1>2. CASE PageNotAsked
  BY <1>1, <1>2, RunEnds DEF PageNotAsked
<1>3. CASE PageUnknown
  <2>1. run' \in Runs /\ run'.at = "skipping" /\ run'.epoch = run.epoch /\ UNCHANGED settled
    BY <1>3, Parts DEF PageUnknown, Runs, Steps
  <2>2. FailuresToSpare' /\ BudgetSeedsUnmarked'
    BY <2>1 DEF FailuresToSpare, BudgetSeedsUnmarked
  <2> QED BY <1>1, <2>1, <2>2, RunMoves
<1> QED BY <1>2, <1>3

\* A failed page: a run that asked had a failure to spare.
LEMMA PageFailsStep ==
  ASSUME IInv, PageFails
  PROVE  IInv'
<1>1. failed \in Nat /\ failed < MaxFailed /\ failed' = failed + 1 /\ pausing' = TRUE
  BY Parts DEF PageFails, FailuresToSpare, TypeOK
<1>2. UNCHANGED <<tip, walk, marks, poked, outcome, starting>>
  BY DEF PageFails
<1>3. /\ run' \in Runs /\ run'.at \in {"none", "skipping"} /\ run'.epoch <= epoch
      /\ settled' \in 0..epoch
  <2>1. CASE Settles
    BY <2>1, SettlesTypes, Parts, WalkBounds DEF Idle, Runs, Steps, TypeOK
  <2>2. CASE run' = [run EXCEPT !.at = "skipping", !.cause = "Failure"] /\ UNCHANGED settled
    <3>1. run' \in Runs /\ run'.at = "skipping" /\ run'.epoch = run.epoch
      BY <2>2, Parts DEF Runs, Steps
    <3> QED BY <2>2, <3>1, Parts DEF RunIsOfAnArm, TypeOK
  <2> QED BY <2>1, <2>2 DEF PageFails
<1>4. TypeOK'
  <2>1. failed' \in 0..MaxFailed
    BY <1>1, WalkBounds
  <2> QED BY <1>1, <1>2, <1>3, <2>1 DEF IInv, TypeOK, Runs, Steps, walk, marks, outcome, starting
<1>5. RunIsOfAnArm' /\ PageInOrder' /\ QuietWhileStarting' /\ FoldsFromCursor' /\ FailuresToSpare'
      /\ BudgetSeedsUnmarked'
  BY <1>2, <1>3 DEF RunIsOfAnArm, PageInOrder, QuietWhileStarting, FoldsFromCursor, FailuresToSpare,
                    BudgetSeedsUnmarked, walk
<1>6. NothingPassedUnsaid' /\ HeldWhileStarting' /\ MarksAhead' /\ HeardBounds'
  BY <1>2 DEF IInv, NothingPassedUnsaid, HeldWhileStarting, MarksAhead, HeardBounds,
              walk, marks, outcome, starting
<1> QED BY <1>4, <1>5, <1>6 DEF IInv

\* mark_arm(): the sink bounds every mark there is.
LEMMA MarkStep ==
  ASSUME IInv, RunMarks \/ RunMarksAgain
  PROVE  IInv'
<1>1. UNCHANGED <<tip, walk, pace, poked, settled, outcome, starting>> /\ mark_arm
  BY DEF RunMarks, RunMarksAgain
<1>2. /\ run' \in Runs /\ run'.at \in {"skipping", "stepping", "gate"} /\ run'.epoch = run.epoch
      /\ run'.at = "stepping" => failed < MaxFailed
      /\ run'.at = "gate" => run.at = "answered" /\ run'.from = run.from /\ run'.to = run.to
                             /\ run'.added = run.added
  <2>1. CASE run' = [run EXCEPT !.at = "skipping", !.cause = "Failure"]
    BY <2>1, Parts DEF Runs, Steps
  <2>2. CASE run' = [run EXCEPT !.at = "stepping"] /\ ~(failed >= MaxFailed)
    BY <2>2, Parts, WalkBounds DEF Runs, Steps, TypeOK
  <2>3. CASE run' = [run EXCEPT !.at = "gate"] /\ run.at = "answered"
    BY <2>3, Parts DEF Runs, Steps
  <2> QED BY <2>1, <2>2, <2>3 DEF RunMarks, RunMarksAgain
<1>3. /\ carried' = carried /\ present' = present /\ mark_read' \in BOOLEAN
      /\ \/ own' = own /\ heard' = heard
         \/ own' = tip /\ heard' = tip /\ cursor # 0
  BY <1>1 DEF mark_arm, marks, IInv, TypeOK
<1>4. TypeOK'
  <2>1. own' \in 0..tip /\ heard' \in 0..tip /\ carried' \in 0..tip
    BY <1>3, Parts DEF TypeOK
  <2> QED BY <1>1, <1>2, <1>3, <2>1 DEF IInv, TypeOK, Runs, Steps, walk, pace, outcome, starting
<1>5. RunIsOfAnArm' /\ PageInOrder' /\ QuietWhileStarting' /\ FoldsFromCursor' /\ FailuresToSpare'
      /\ BudgetSeedsUnmarked'
  BY <1>1, <1>2, Parts DEF RunIsOfAnArm, PageInOrder, QuietWhileStarting, FoldsFromCursor,
         FailuresToSpare, BudgetSeedsUnmarked, walk, pace
<1>6. NothingPassedUnsaid' /\ HeldWhileStarting'
  BY <1>1 DEF IInv, NothingPassedUnsaid, HeldWhileStarting, walk, outcome, starting
<1>7. MarksAhead' /\ HeardBounds'
  BY <1>1, <1>3 DEF IInv, TypeOK, MarksAhead, HeardBounds, walk
<1> QED BY <1>4, <1>5, <1>6, <1>7 DEF IInv

\* The fold gate: only a running walk passes it, so none does while a hub loads.
LEMMA RunGateStep ==
  ASSUME IInv, RunGate
  PROVE  IInv'
<1>1. UNCHANGED <<tip, walk, poked, outcome, starting>>
  BY DEF RunGate
<1>2. CASE Settles /\ UNCHANGED <<pace, marks>>
  BY <1>1, <1>2, RunEnds, Parts DEF TypeOK
<1>3. CASE /\ still_at /\ UNCHANGED settled /\ run' = [run EXCEPT !.at = "folding"]
           /\ failed' = 0 /\ pausing' = FALSE /\ mark_read' = TRUE
           /\ UNCHANGED <<carried, own, present, heard>>
  <2>1. /\ run' \in Runs /\ run'.at = "folding" /\ run'.epoch = run.epoch /\ run'.from = run.from
        /\ run'.to = run.to /\ run'.added = run.added /\ run.at = "gate"
    BY <1>3, Parts DEF Runs, Steps, RunGate
  <2>2. TypeOK'
    <3>1. failed' \in 0..MaxFailed
      BY <1>3, WalkBounds
    <3>2. pausing' \in BOOLEAN /\ mark_read' \in BOOLEAN
      BY <1>3
    <3>3. present' \in BOOLEAN /\ poked' \in BOOLEAN /\ live' \in BOOLEAN
      BY <1>1, <1>3, Parts DEF TypeOK, starting
    <3> QED BY <1>1, <1>3, <2>1, <3>1, <3>2, <3>3 DEF IInv, TypeOK, Runs, Steps, walk, outcome, starting
  <2>3. mode = "Running" /\ hub = "none" /\ cursor = run.from /\ epoch = run.epoch
    BY <1>3, Parts DEF still_at, Current, HeldWhileStarting
  <2>4. RunIsOfAnArm' /\ PageInOrder' /\ QuietWhileStarting' /\ FoldsFromCursor' /\ FailuresToSpare'
        /\ BudgetSeedsUnmarked'
    BY <1>1, <1>3, <2>1, <2>3, Parts, WalkBounds DEF RunIsOfAnArm, PageInOrder, QuietWhileStarting,
       FoldsFromCursor, FailuresToSpare, BudgetSeedsUnmarked, walk, starting
  <2>5. NothingPassedUnsaid' /\ HeldWhileStarting' /\ MarksAhead' /\ HeardBounds'
    BY <1>1, <1>3 DEF IInv, NothingPassedUnsaid, HeldWhileStarting, MarksAhead, HeardBounds,
                walk, outcome, starting
  <2> QED BY <2>2, <2>4, <2>5 DEF IInv
<1> QED BY <1>2, <1>3 DEF RunGate

\* hold_at(): the page stays unfolded, and the cursor before it.
LEMMA RunHeldStep ==
  ASSUME IInv, RunHeld
  PROVE  IInv'
<1>1. /\ mode' = "Idle" /\ epoch' = epoch + 1 /\ disk' = cursor /\ run' = Idle
      /\ UNCHANGED <<tip, cursor, pace, marks, poked, outcome, starting>>
      /\ epoch' \in 0..(MaxEpoch + 1) /\ settled' \in 0..epoch'
  BY SettlesTypes, Parts, WalkBounds DEF RunHeld, TypeOK
<1>2. run' \in Runs /\ run'.at = "none" /\ run'.epoch = 0
  BY <1>1, Parts, WalkBounds DEF Idle, Runs, Steps, TypeOK
<1>3. TypeOK'
  BY <1>1, <1>2 DEF IInv, TypeOK, Runs, Steps, pace, marks, outcome, starting
<1>4. RunIsOfAnArm' /\ PageInOrder' /\ QuietWhileStarting' /\ FoldsFromCursor' /\ FailuresToSpare'
      /\ BudgetSeedsUnmarked'
  BY <1>2, <1>3 DEF TypeOK, RunIsOfAnArm, PageInOrder, QuietWhileStarting, FoldsFromCursor, FailuresToSpare,
                    BudgetSeedsUnmarked
<1>5. NothingPassedUnsaid' /\ HeldWhileStarting' /\ MarksAhead' /\ HeardBounds'
  BY <1>1, Parts DEF TypeOK, NothingPassedUnsaid, HeldWhileStarting, MarksAhead, HeardBounds, Later,
                     marks, outcome
<1> QED BY <1>3, <1>4, <1>5 DEF IInv

\* What the run does after a folded page.
LEMMA GoesOn ==
  ASSUME IInv, Goes
  PROVE  /\ run' \in Runs /\ run'.at \in {"none", "skipping", "stepping"} /\ run'.epoch <= epoch
         /\ settled' \in 0..epoch
<1>1. CASE Settles
  BY <1>1, SettlesTypes, Parts, WalkBounds DEF Idle, Runs, Steps, TypeOK
<1>2. CASE run' = [run EXCEPT !.at = "skipping", !.cause = "Budget"] /\ UNCHANGED settled
  <2>1. run' \in Runs /\ run'.at = "skipping" /\ run'.epoch = run.epoch
    BY <1>2, Parts DEF Runs, Steps
  <2> QED BY <1>2, <2>1, Parts DEF RunIsOfAnArm, TypeOK
<1>3. CASE /\ run' = [run EXCEPT !.at = "stepping", !.pages = @ + 1] /\ UNCHANGED settled
           /\ ~(run.pages + 1 >= MaxPages)
  <2>1. run.pages + 1 \in 0..MaxPages
    BY <1>3, Parts, WalkBounds DEF Runs
  <2>2. run' \in Runs /\ run'.at = "stepping" /\ run'.epoch = run.epoch
    BY <1>3, <2>1, Parts DEF Runs, Steps
  <2> QED BY <1>3, <2>2, Parts DEF RunIsOfAnArm, TypeOK
<1> QED BY <1>1, <1>2, <1>3 DEF Goes

\* A folded page: the cursor moves to its end, and a mark it does not reach is
\* further on.
LEMMA FoldedStep ==
  ASSUME IInv, Folded
  PROVE  IInv' /\ cursor <= cursor'
<1>1. /\ run.at = "folding" /\ folded' = folded \cup (run.from + 1)..run.to /\ cursor' = run.to
      /\ disk' \in {disk, run.to} /\ UNCHANGED <<tip, mode, epoch, pace, poked, skipped, seed, starting>>
  BY DEF Folded
<1>2. /\ run \in Runs /\ run.from \in 0..tip /\ run.to \in 0..tip /\ cursor = run.from /\ run.from <= run.to
      /\ (mode = "Running" => epoch = run.epoch) /\ failed < MaxFailed
  BY <1>1, Parts DEF Runs, FoldsFromCursor, PageInOrder, FailuresToSpare
<1>3. /\ run' \in Runs /\ run'.at \in {"none", "skipping", "stepping"} /\ run'.epoch <= epoch
      /\ settled' \in 0..epoch
  BY GoesOn DEF Folded
<1> DEFINE at_tip == Whole /\ ~Long
<1>4. /\ own' = IF at_tip \/ Carries(own) THEN 0 ELSE own
      /\ carried' = IF at_tip \/ Carries(own) \/ Carries(carried) THEN 0 ELSE carried
      /\ present' = (present \/ ((at_tip \/ Carries(own)) /\ epoch = run.epoch))
      /\ mark_read' = mark_read /\ heard' = heard
  BY DEF Folded, PassesMarks
<1> HIDE DEF at_tip
<1>5. own' \in {0, own} /\ carried' \in {0, carried}
  BY <1>4
<1>6. TypeOK'
  <2>1. present' \in BOOLEAN
    BY <1>4
  <2>2. cursor' \in 0..tip /\ disk' \in 0..tip /\ own' \in 0..tip /\ carried' \in 0..tip
    BY <1>1, <1>2, <1>5, Parts DEF TypeOK
  <2>3. folded' \subseteq 1..tip
    BY <1>1, <1>2, Parts DEF TypeOK
  <2> QED BY <1>1, <1>3, <1>4, <2>1, <2>2, <2>3, Parts DEF TypeOK, Runs, Steps, pace, starting
<1>7. NothingPassedUnsaid'
  <2>1. 1..run.to \subseteq 1..run.from \cup (run.from + 1)..run.to
    BY <1>2
  <2>2. /\ 1..cursor \subseteq 1..seed \cup folded \cup skipped
        /\ 1..disk \subseteq 1..seed \cup folded \cup skipped
    BY Parts DEF NothingPassedUnsaid, Later, TypeOK
  <2>3. /\ 1..cursor' \subseteq 1..seed' \cup folded' \cup skipped'
        /\ 1..disk' \subseteq 1..seed' \cup folded' \cup skipped'
    BY <1>1, <1>2, <2>1, <2>2
  <2> QED BY <2>3 DEF NothingPassedUnsaid, Later
<1>8. RunIsOfAnArm' /\ PageInOrder' /\ QuietWhileStarting' /\ FoldsFromCursor' /\ FailuresToSpare'
      /\ BudgetSeedsUnmarked'
  BY <1>1, <1>2, <1>3 DEF RunIsOfAnArm, PageInOrder, QuietWhileStarting, FoldsFromCursor,
         FailuresToSpare, BudgetSeedsUnmarked, pace
<1>9. HeldWhileStarting'
  BY <1>1, Parts DEF HeldWhileStarting, starting
<1>10. MarksAhead'
  <2>1. \A m \in 0..tip : m # 0 /\ cursor <= m /\ ~Carries(m) => (run.to # 0 /\ run.to <= m) \/ run.to = 0
    BY <1>2 DEF Carries
  <2>2. cursor # 0 => cursor' # 0
    BY <1>1, <1>2
  <2> QED BY <1>1, <1>2, <1>4, <2>1, <2>2, Parts DEF MarksAhead, TypeOK
<1>11. HeardBounds'
  <2>1. CASE at_tip \/ Carries(own)
    <3>1. mode = "Running" => present'
      BY <1>2, <1>4, <2>1
    <3>2. own' = 0 /\ carried' = 0
      BY <1>4, <2>1
    <3> QED BY <1>1, <1>4, <3>1, <3>2, Parts DEF HeardBounds, TypeOK
  <2>2. CASE ~(at_tip \/ Carries(own))
    BY <1>1, <1>4, <1>5, <2>2, Parts DEF HeardBounds, TypeOK
  <2> QED BY <2>1, <2>2
<1> QED BY <1>1, <1>2, <1>6, <1>7, <1>8, <1>9, <1>10, <1>11 DEF IInv

\* A skip of an arm that is over.
LEMMA SkipDroppedStep ==
  ASSUME IInv, SkipDropped
  PROVE  IInv'
  BY RunEnds DEF SkipDropped, IInv, TypeOK

\* A skip lands ahead of the cursor, at the older of the marks.
LEMMA LandingIsAhead ==
  ASSUME IInv, Landing # 0
  PROVE  /\ Landing \in {carried, own} /\ Landing \in 1..tip /\ cursor <= Landing
         /\ Ahead(carried) => Landing = carried
         /\ heard # 0 => Landing <= heard
  BY Parts DEF Landing, Ahead, TypeOK, MarksAhead, HeardBounds

\* Landing on a mark names what it jumped, none of it past what the arm heard.
LEMMA SkipLandsStep ==
  ASSUME IInv, SkipLands
  PROVE  /\ IInv' /\ cursor <= cursor'
         /\ heard # 0 => skipped' \ skipped \subseteq 1..heard
<1>1. /\ cursor' = Landing /\ disk' = Landing /\ skipped' = skipped \cup (cursor + 1)..Landing
      /\ carried' = 0 /\ own' = IF Ahead(carried) THEN own ELSE 0
      /\ present' = (present \/ ~Ahead(carried)) /\ failed' = 0
      /\ UNCHANGED <<tip, mode, epoch, mark_read, heard, folded, seed, starting>>
      /\ cursor # 0
  BY DEF SkipLands
<1>2. /\ Landing \in 1..tip /\ cursor <= Landing /\ (Ahead(carried) => Landing = carried)
      /\ (heard # 0 => Landing <= heard)
  BY LandingIsAhead DEF SkipLands
<1>3. /\ run' = Idle /\ settled' \in 0..epoch /\ pausing' \in BOOLEAN /\ poked' \in BOOLEAN
  <2>1. CASE run.cause = "Budget" /\ pausing' = FALSE /\ poked' = TRUE /\ run' = Idle /\ UNCHANGED settled
    BY <2>1, Parts DEF TypeOK
  <2>2. CASE run.cause = "Failure" /\ Settles /\ UNCHANGED <<pausing, poked>>
    BY <2>2, SettlesTypes, Parts DEF TypeOK
  <2> QED BY <2>1, <2>2 DEF SkipLands
<1>4. run' \in Runs /\ run'.at = "none" /\ run'.epoch = 0
  BY <1>3, Parts, WalkBounds DEF Idle, Runs, Steps, TypeOK
<1>5. TypeOK'
  <2>1. cursor' \in 0..tip /\ disk' \in 0..tip /\ own' \in 0..tip /\ carried' \in 0..tip /\ failed' \in 0..MaxFailed
    BY <1>1, <1>2, Parts, WalkBounds DEF TypeOK
  <2>2. skipped' \subseteq 1..tip
    BY <1>1, <1>2, Parts DEF TypeOK
  <2>3. present' \in BOOLEAN
    BY <1>1
  <2> QED BY <1>1, <1>3, <1>4, <2>1, <2>2, <2>3, Parts DEF TypeOK, Runs, Steps, starting
<1>6. NothingPassedUnsaid'
  <2>1. 1..Landing \subseteq 1..cursor \cup (cursor + 1)..Landing
    BY <1>2, Parts DEF TypeOK
  <2>2. 1..cursor \subseteq 1..seed \cup folded \cup skipped
    BY Parts DEF NothingPassedUnsaid, Later, TypeOK
  <2>3. 1..Landing \subseteq 1..seed' \cup folded' \cup skipped'
    BY <1>1, <2>1, <2>2
  <2> QED BY <1>1, <2>3 DEF NothingPassedUnsaid, Later
<1>7. RunIsOfAnArm' /\ PageInOrder' /\ QuietWhileStarting' /\ FoldsFromCursor' /\ FailuresToSpare'
      /\ BudgetSeedsUnmarked'
  BY <1>4, <1>5 DEF TypeOK, RunIsOfAnArm, PageInOrder, QuietWhileStarting, FoldsFromCursor,
         FailuresToSpare, BudgetSeedsUnmarked
<1>8. HeldWhileStarting'
  BY <1>1, Parts DEF HeldWhileStarting, starting
<1>9. MarksAhead' /\ HeardBounds'
  <2>1. CASE Ahead(carried)
    BY <1>1, <1>2, <2>1, Parts DEF MarksAhead, HeardBounds, TypeOK, Ahead
  <2>2. CASE ~Ahead(carried)
    <3>1. present' /\ own' = 0 /\ carried' = 0
      BY <1>1, <2>2
    <3> QED BY <1>1, <3>1, Parts DEF MarksAhead, HeardBounds, TypeOK
  <2> QED BY <2>1, <2>2
<1>10. heard # 0 => skipped' \ skipped \subseteq 1..heard
  BY <1>1, <1>2, Parts DEF TypeOK
<1> QED BY <1>1, <1>2, <1>5, <1>6, <1>7, <1>8, <1>9, <1>10 DEF IInv

\* A spent budget with no mark ahead goes to the sink only when the arm read
\* none: otherwise it was reached, or the skip stays.
LEMMA SkipStaysStep ==
  ASSUME IInv, SkipStays
  PROVE  IInv'
<1>1. /\ run.at = "skipping" /\ Current /\ (cursor = 0 \/ Landing = 0)
      /\ carried' = (IF cursor = 0 THEN carried ELSE 0) /\ own' = (IF cursor = 0 THEN own ELSE 0)
      /\ UNCHANGED <<tip, walk, pace, mark_read, heard, outcome, starting>>
  BY DEF SkipStays
<1>2. present' = (present \/ (cursor # 0 /\ own # 0))
  BY DEF SkipStays
<1>3. /\ run' \in Runs /\ run'.at \in {"none", "seeding"} /\ run'.epoch <= epoch /\ settled' \in 0..epoch
      /\ poked' \in BOOLEAN
      /\ run'.at = "seeding" => run'.epoch = run.epoch /\ run'.cause = run.cause
                                /\ ~(cursor # 0 /\ present' /\ run.cause = "Budget")
  <2>1. CASE poked' = TRUE /\ Settles
    BY <2>1, SettlesTypes, Parts, WalkBounds DEF Idle, Runs, Steps, TypeOK
  <2>2. CASE /\ ~(cursor # 0 /\ present' /\ run.cause = "Budget")
             /\ run' = [run EXCEPT !.at = "seeding"] /\ UNCHANGED <<poked, settled>>
    <3>1. run' \in Runs /\ run'.at = "seeding" /\ run'.epoch = run.epoch /\ run'.cause = run.cause
      BY <2>2, Parts DEF Runs, Steps
    <3> QED BY <2>2, <3>1, Parts DEF RunIsOfAnArm, TypeOK
  <2> QED BY <2>1, <2>2 DEF SkipStays
<1>4. TypeOK'
  <2>1. present' \in BOOLEAN
    BY <1>2
  <2>2. own' \in 0..tip /\ carried' \in 0..tip
    BY <1>1, Parts DEF TypeOK
  <2> QED BY <1>1, <1>3, <2>1, <2>2, Parts DEF TypeOK, Runs, Steps, walk, pace, outcome, starting
<1>5. RunIsOfAnArm' /\ PageInOrder' /\ QuietWhileStarting' /\ FoldsFromCursor' /\ FailuresToSpare'
  BY <1>1, <1>3 DEF RunIsOfAnArm, PageInOrder, QuietWhileStarting, FoldsFromCursor, FailuresToSpare, walk
<1>6. NothingPassedUnsaid' /\ HeldWhileStarting'
  BY <1>1, Parts DEF NothingPassedUnsaid, HeldWhileStarting, walk, outcome, starting
<1>7. present => present'
  BY <1>2
<1>8. own # 0 /\ cursor # 0 => present'
  BY <1>2
<1>9. MarksAhead' /\ HeardBounds'
  BY <1>1, <1>7, <1>8, Parts DEF MarksAhead, HeardBounds, TypeOK, walk
<1>10. BudgetSeedsUnmarked'
  <2>1. mode = "Running"
    BY <1>1 DEF Current
  <2> QED BY <1>1, <1>3, <1>7, <1>8, <2>1, Parts DEF BudgetSeedsUnmarked, HeardBounds, walk
<1> QED BY <1>4, <1>5, <1>6, <1>9, <1>10 DEF IInv

\* reseed(): the cursor is at the sink, and what it jumped is named.
LEMMA ReseedsStep ==
  ASSUME IInv, Reseeds
  PROVE  /\ IInv' /\ cursor <= cursor'
         /\ run.cause = "Budget" /\ heard # 0 => skipped' \ skipped \subseteq 1..heard
<1>1. UNCHANGED <<tip, poked, starting>> /\ Settles /\ run.at = "seeding"
  BY DEF Reseeds
<1>2. CASE UNCHANGED <<walk, pace, marks, outcome>>
  <2>1. poked' \in BOOLEAN
    BY <1>1, Parts DEF TypeOK
  <2>2. IInv'
    BY <1>1, <1>2, <2>1, RunEnds
  <2> QED BY <1>2, <2>2, Parts DEF walk, outcome, TypeOK
<1>3. CASE /\ Current /\ cursor' = tip /\ disk' = tip
           /\ failed' = 0 /\ pausing' = FALSE
           /\ carried' = 0 /\ own' = 0 /\ mark_read' = TRUE /\ present' = TRUE /\ UNCHANGED heard
           /\ seed' = IF cursor = 0 THEN tip ELSE seed
           /\ skipped' = IF cursor = 0 THEN skipped ELSE skipped \cup (cursor + 1)..tip
           /\ UNCHANGED <<mode, epoch, folded>>
  <2>1. run' \in Runs /\ run'.at = "none" /\ run'.epoch = 0 /\ settled' \in 0..epoch
    BY <1>1, SettlesTypes, Parts, WalkBounds DEF Idle, Runs, Steps, TypeOK
  <2>2. TypeOK'
    <3>1. /\ cursor' \in 0..tip /\ disk' \in 0..tip /\ own' \in 0..tip /\ carried' \in 0..tip
          /\ failed' \in 0..MaxFailed /\ seed' \in 0..tip
      BY <1>3, Parts, WalkBounds DEF TypeOK
    <3>2. skipped' \subseteq 1..tip
      BY <1>3, Parts DEF TypeOK
    <3>3. pausing' \in BOOLEAN /\ mark_read' \in BOOLEAN /\ present' \in BOOLEAN
      BY <1>3
    <3> QED BY <1>1, <1>3, <2>1, <3>1, <3>2, <3>3, Parts DEF TypeOK, Runs, Steps, starting
  <2>3. NothingPassedUnsaid'
    <3>1. 1..cursor \subseteq 1..seed \cup folded \cup skipped
      BY Parts DEF NothingPassedUnsaid, Later, TypeOK
    <3>2. 1..tip \subseteq 1..cursor \cup (cursor + 1)..tip
      BY Parts DEF TypeOK
    <3>3. 1..tip \subseteq 1..seed' \cup folded' \cup skipped'
      BY <1>3, <3>1, <3>2
    <3> QED BY <1>3, <3>3 DEF NothingPassedUnsaid, Later
  <2>4. RunIsOfAnArm' /\ PageInOrder' /\ QuietWhileStarting' /\ FoldsFromCursor' /\ FailuresToSpare'
        /\ BudgetSeedsUnmarked'
    BY <2>1, <2>2 DEF TypeOK, RunIsOfAnArm, PageInOrder, QuietWhileStarting, FoldsFromCursor,
           FailuresToSpare, BudgetSeedsUnmarked
  <2>5. HeldWhileStarting'
    BY <1>1, <1>3, Parts DEF HeldWhileStarting, starting
  <2>6. MarksAhead' /\ HeardBounds'
    BY <1>3, Parts DEF MarksAhead, HeardBounds, TypeOK
  <2>7. run.cause = "Budget" /\ heard # 0 => skipped' = skipped
    BY <1>1, <1>3, Parts DEF BudgetSeedsUnmarked
  <2>8. cursor <= cursor'
    BY <1>3, Parts DEF TypeOK
  <2> QED BY <2>2, <2>3, <2>4, <2>5, <2>6, <2>7, <2>8 DEF IInv
<1> QED BY <1>2, <1>3 DEF Reseeds

\* The sink refused, the chain moving, a poke, the end of a pause: the clock and
\* the node only touch the pace.
LEMMA PaceStep ==
  ASSUME IInv, pausing' \in BOOLEAN, poked' \in BOOLEAN, failed' = failed,
         UNCHANGED <<tip, walk, marks, outcome, starting>>,
         (run' = run /\ settled' = settled) \/ Settles
  PROVE  IInv'
<1>1. /\ run' \in Runs /\ run'.epoch <= epoch /\ settled' \in 0..epoch
      /\ run' = run \/ run'.at = "none"
  BY SettlesTypes, Parts, WalkBounds DEF Idle, Runs, Steps, TypeOK, RunIsOfAnArm
<1>2. TypeOK'
  BY <1>1, Parts DEF TypeOK, Runs, Steps, walk, marks, outcome, starting
<1>3. RunIsOfAnArm' /\ PageInOrder' /\ QuietWhileStarting' /\ FoldsFromCursor' /\ FailuresToSpare'
      /\ BudgetSeedsUnmarked'
  BY <1>1, Parts DEF RunIsOfAnArm, PageInOrder, QuietWhileStarting, FoldsFromCursor, FailuresToSpare,
         BudgetSeedsUnmarked, Current, walk, marks, starting
<1>4. NothingPassedUnsaid' /\ HeldWhileStarting' /\ MarksAhead' /\ HeardBounds'
  BY Parts DEF NothingPassedUnsaid, HeldWhileStarting, MarksAhead, HeardBounds, walk, marks, outcome, starting
<1> QED BY <1>2, <1>3, <1>4 DEF IInv

\* The chain grows under everything that is on it.
LEMMA ChainMovesStep ==
  ASSUME IInv, ChainMoves
  PROVE  IInv'
<1>1. /\ tip' = tip + 1 /\ tip' \in 1..MaxTip /\ tip \in Nat /\ poked' \in BOOLEAN
      /\ UNCHANGED <<walk, pace, marks, settled, run, outcome, starting>>
  <2>1. tip' = tip + 1 /\ tip' \in 1..MaxTip /\ tip \in Nat
    BY Parts, WalkBounds DEF ChainMoves, TypeOK
  <2>2. poked' \in BOOLEAN
    BY Parts DEF ChainMoves, TypeOK
  <2> QED BY <2>1, <2>2 DEF ChainMoves
<1>2. TypeOK'
  <2>1. 0..tip \subseteq 0..tip' /\ 1..tip \subseteq 1..tip'
    BY <1>1
  <2>2. run' \in Runs'
    BY <1>1, <2>1, Parts DEF Runs, Steps
  <2> QED BY <1>1, <2>1, <2>2, Parts DEF TypeOK, Runs, Steps, walk, pace, marks, outcome, starting
<1>3. RunIsOfAnArm' /\ PageInOrder' /\ QuietWhileStarting' /\ FoldsFromCursor' /\ FailuresToSpare'
      /\ BudgetSeedsUnmarked'
  BY <1>1, Parts DEF RunIsOfAnArm, PageInOrder, QuietWhileStarting, FoldsFromCursor, FailuresToSpare,
         BudgetSeedsUnmarked, Current, walk, pace, marks, starting
<1>4. NothingPassedUnsaid' /\ HeldWhileStarting' /\ MarksAhead' /\ HeardBounds'
  BY <1>1, Parts DEF NothingPassedUnsaid, HeldWhileStarting, MarksAhead, HeardBounds, walk, marks, outcome,
                     starting
<1> QED BY <1>2, <1>3, <1>4 DEF IInv

\* The process dies: what remains is the file, and it passed nothing unsaid.
LEMMA DiesStep ==
  ASSUME IInv, Dies
  PROVE  IInv' /\ deaths' # deaths
<1>1. run' \in Runs /\ run'.at = "none" /\ run'.epoch = 0
  BY Parts, WalkBounds DEF Dies, Idle, Runs, Steps, TypeOK
<1>2. TypeOK'
  <2>1. deaths' \in 0..MaxDeaths /\ failed' \in 0..MaxFailed /\ epoch' \in 0..(MaxEpoch + 1) /\ epoch' = 0
        /\ settled' = 0 /\ cursor' = 0 /\ carried' = 0 /\ own' = 0 /\ heard' = 0
    BY Parts, WalkBounds DEF Dies, TypeOK
  <2>2. pausing' \in BOOLEAN /\ mark_read' \in BOOLEAN /\ present' \in BOOLEAN /\ poked' \in BOOLEAN
        /\ live' \in BOOLEAN
    BY DEF Dies
  <2>3. mode' = "Idle" /\ hub' = "none" /\ UNCHANGED <<tip, disk, outcome>>
    BY DEF Dies
  <2> QED BY <1>1, <2>1, <2>2, <2>3, Parts DEF TypeOK, Runs, Steps, outcome
<1>3. RunIsOfAnArm' /\ PageInOrder' /\ QuietWhileStarting' /\ FoldsFromCursor' /\ FailuresToSpare'
      /\ BudgetSeedsUnmarked'
  BY <1>1, <1>2 DEF TypeOK, RunIsOfAnArm, PageInOrder, QuietWhileStarting, FoldsFromCursor, FailuresToSpare,
         BudgetSeedsUnmarked
<1>4. NothingPassedUnsaid' /\ HeldWhileStarting' /\ MarksAhead' /\ HeardBounds'
  BY Parts DEF Dies, NothingPassedUnsaid, HeldWhileStarting, MarksAhead, HeardBounds, Later, TypeOK, outcome
<1>5. deaths' # deaths
  BY Parts DEF Dies, TypeOK
<1> QED BY <1>2, <1>3, <1>4, <1>5 DEF IInv

---------------------------------------------------------------------------
(***************************************************************************)
(* The theorems.                                                           *)
(***************************************************************************)

\* A first start has no cursor, no mark and no run.
LEMMA InitHolds == Init => IInv
<1> SUFFICES ASSUME Init PROVE IInv
  OBVIOUS
<1>1. run \in Runs /\ run.at = "none" /\ run.epoch = 0
  BY WalkBounds DEF Init, Idle, Runs, Steps
<1>2. TypeOK
  <2>1. pausing \in BOOLEAN /\ mark_read \in BOOLEAN /\ present \in BOOLEAN /\ poked \in BOOLEAN
        /\ live \in BOOLEAN
    BY DEF Init
  <2> QED BY <1>1, <2>1, WalkBounds DEF Init, TypeOK, Runs, Steps
<1>3. RunIsOfAnArm /\ PageInOrder /\ QuietWhileStarting /\ FoldsFromCursor /\ FailuresToSpare
      /\ BudgetSeedsUnmarked
  BY <1>1, <1>2 DEF TypeOK, RunIsOfAnArm, PageInOrder, QuietWhileStarting, FoldsFromCursor, FailuresToSpare,
         BudgetSeedsUnmarked
<1>4. NothingPassedUnsaid /\ HeldWhileStarting /\ MarksAhead /\ HeardBounds
  BY DEF Init, NothingPassedUnsaid, HeldWhileStarting, MarksAhead, HeardBounds, Later
<1> QED BY <1>2, <1>3, <1>4 DEF IInv

\* Every step of the hub, the walk, the node and the process keeps the invariant.
LEMMA NextHolds == IInv /\ [Next]_vars => IInv'
<1> SUFFICES ASSUME IInv, [Next]_vars PROVE IInv'
  OBVIOUS
<1>1. CASE Arm
  BY <1>1, ArmStep
<1>2. CASE Lock \/ StartHub
  <2>1. live' \in BOOLEAN
    BY <1>2, Parts DEF Lock, StartHub, TypeOK
  <2>2. /\ hold /\ hub' \in {hub, "quiescing"} /\ (hub' = "loaded" => hub = "loaded")
        /\ UNCHANGED <<tip, cursor, pace, marks, poked, settled, run, outcome, deaths>>
    BY <1>2 DEF Lock, StartHub
  <2> QED BY <2>1, <2>2, HoldStep
<1>3. CASE Quiesced \/ StartFails
  BY <1>3, HubStep
<1>4. CASE Fetched
  BY <1>4, PageStep, NoPageStep, PageFailsStep DEF Fetched
<1>5. CASE SinkRefused
  <2>1. pausing' \in BOOLEAN
    BY <1>5 DEF SinkRefused
  <2>2. poked' \in BOOLEAN
    BY <1>5, Parts DEF SinkRefused, TypeOK
  <2> QED BY <1>5, <2>1, <2>2, PaceStep DEF SinkRefused
<1>6. CASE Walks
  BY <1>4, <1>5, <1>6, RunBeginsStep, MarkStep, RunStepsStep, RunGateStep, RunHeldStep, FoldedStep,
     SkipDroppedStep, SkipLandsStep, SkipStaysStep, ReseedsStep DEF Walks
<1>7. CASE ChainMoves
  BY <1>7, ChainMovesStep
<1>8. CASE Pokes
  <2>1. poked' \in BOOLEAN
    BY <1>8 DEF Pokes
  <2>2. pausing' \in BOOLEAN /\ failed' = failed
    BY <1>8, Parts DEF Pokes, TypeOK, pace
  <2> QED BY <1>8, <2>1, <2>2, PaceStep DEF Pokes
<1>9. CASE PauseEnds
  <2>1. pausing' \in BOOLEAN
    BY <1>9 DEF PauseEnds
  <2>2. poked' \in BOOLEAN
    BY <1>9, Parts DEF PauseEnds, TypeOK
  <2> QED BY <1>9, <2>1, <2>2, PaceStep DEF PauseEnds
<1>10. CASE Dies
  BY <1>10, DiesStep
<1>11. CASE UNCHANGED vars
  <2>1. /\ UNCHANGED <<tip, walk, pace, marks, outcome, starting>> /\ poked' = poked /\ run' = run
        /\ settled' = settled
    BY <1>11 DEF vars
  <2>2. pausing' \in BOOLEAN /\ poked' \in BOOLEAN /\ failed' = failed
    BY <2>1, Parts DEF TypeOK, pace
  <2> QED BY <2>1, <2>2, PaceStep
<1> QED BY <1>1, <1>2, <1>3, <1>6, <1>7, <1>8, <1>9, <1>10, <1>11 DEF Next

\* The steps that move the cursor move it forward.
LEMMA CursorSteps == IInv /\ Next => cursor' >= cursor \/ deaths' # deaths
<1> SUFFICES ASSUME IInv, Next PROVE cursor' >= cursor \/ deaths' # deaths
  OBVIOUS
<1>1. cursor \in Nat
  BY Parts DEF TypeOK
<1>2. CASE Arm
  BY <1>2, Parts DEF Arm, TypeOK
<1>3. CASE Folded \/ SkipLands \/ Reseeds
  <2>1. IInv' /\ cursor <= cursor'
    BY <1>3, FoldedStep, SkipLandsStep, ReseedsStep
  <2>2. cursor' \in Nat
    BY <2>1 DEF IInv, TypeOK
  <2> QED BY <1>1, <2>1, <2>2
<1>4. CASE Dies
  BY <1>4, DiesStep
<1>5. CASE cursor' = cursor
  BY <1>1, <1>5
<1> QED BY <1>2, <1>3, <1>4, <1>5 DEF Next, Lock, StartHub, Quiesced, StartFails, Walks, Fetched,
      RunBegins, RunMarks, RunSteps, Page, PageNotAsked, PageUnknown, PageFails, RunMarksAgain, RunGate,
      RunHeld, SkipDropped, SkipStays, SinkRefused, ChainMoves, Pokes, PauseEnds, walk

\* The steps that skip for a spent budget skip up to what the arm heard.
LEMMA SkipSteps ==
  IInv /\ Next => (run.cause = "Budget" /\ heard # 0 => skipped' \ skipped \subseteq 1..heard)
<1> SUFFICES ASSUME IInv, Next, run.cause = "Budget", heard # 0
             PROVE  skipped' \ skipped \subseteq 1..heard
  OBVIOUS
<1>1. CASE SkipLands
  BY <1>1, SkipLandsStep
<1>2. CASE Reseeds
  BY <1>2, ReseedsStep
<1>3. CASE skipped' = skipped
  BY <1>3
<1> QED BY <1>1, <1>2, <1>3 DEF Next, Arm, Lock, StartHub, Quiesced, StartFails, Walks, Fetched,
      RunBegins, RunMarks, RunSteps, Page, PageNotAsked, PageUnknown, PageFails, RunMarksAgain, RunGate,
      RunHeld, Folded, SkipDropped, SkipStays, SinkRefused, ChainMoves, Pokes, PauseEnds, Dies, outcome

\* The inductive invariant holds throughout, for a chain, a page, a budget and
\* any number of arms and deaths.
THEOREM WalkInductive == Spec => []IInv
  BY InitHolds, NextHolds, PTL DEF Spec

\* The cursor and its file pass no block that was not folded, named to on_gap
\* or before the first seed; no page is folded between quiesce's return and the
\* arm; and every variable keeps its shape.
THEOREM WalkIsConsistent == Spec => []WalkInv
<1>1. IInv => WalkInv
  BY DEF IInv, WalkInv
<1> QED BY <1>1, WalkInductive, PTL

\* Within one process the cursor never goes back: a fold that ends after a hold
\* finds the cursor it began at, and a skip lands at a mark ahead.
THEOREM CursorIsMonotone == Spec => CursorNeverGoesBack
<1>1. IInv /\ [Next]_vars => [cursor' >= cursor \/ deaths' # deaths]_vars
  BY CursorSteps
<1> QED BY <1>1, WalkInductive, PTL DEF Spec, CursorNeverGoesBack

\* A spent budget names no block accepted after the arm read the sink.
THEOREM BudgetKeepsPresence == Spec => BudgetSkipsOnlyAbsence
<1>1. IInv /\ [Next]_vars
        => [run.cause = "Budget" /\ heard # 0 => skipped' \ skipped \subseteq 1..heard]_vars
  BY SkipSteps
<1> QED BY <1>1, WalkInductive, PTL DEF Spec, BudgetSkipsOnlyAbsence

---------------------------------------------------------------------------
(***************************************************************************)
(* The history fill.                                                       *)
(***************************************************************************)

\* A lane starts at its position or at the floor, so a set of cursors promises
\* that every row before that was dealt with.
Promise(c) == \A r \in archive : TimeOf[r] < start_at(c, LaneOf[r]) => r \in dealt

\* No cursor is ahead of the clock, and no row of the archive is: a row that
\* arrives later is behind no cursor.
Past(c) == c.floor <= now /\ \A k \in Lanes : c.at[k] <= now
ArchivePart == \A r \in archive : TimeOf[r] <= now
CursorPart == Past(cursors) /\ Past(fill.cur) /\ Promise(cursors) /\ Promise(fill.cur)

Walking == fill.pc \in {"open", "restore", "refold", "prove", "next", "look", "record"}

\* What a walk has fetched before its top, and before every row it held, was
\* dealt with or is still in its hands.
LanePart ==
  Walking =>
    /\ fill.lane \in Lanes /\ fill.start = start_at(fill.cur, fill.lane) /\ fill.top <= now
    /\ fill.items \subseteq archive
    /\ \A r \in archive :
         LaneOf[r] = fill.lane /\ TimeOf[r] < fill.top /\ (\A h \in fill.held : TimeOf[r] < h)
           => r \in dealt \cup fill.items \cup {fill.newest}

\* The newest backup leaves the walk's hands dealt with, or the lane held: at its
\* start where the walk was cut, at 0 where a conversation could not be written.
BackupPart ==
  /\ fill.pc \in {"begin", "open", "restore", "refold", "prove"} => fill.phase = "stash"
  /\ fill.pc \in {"restore", "refold", "prove"} => fill.items = {}
  /\ fill.pc \in {"look", "record"} => fill.items # {}
  /\ fill.pc \in {"next", "look", "record"} /\ fill.items # {} => fill.newest = 0
  /\ fill.pc \in {"restore", "refold"} => fill.whole
  /\ fill.pc \in {"prove", "next"} /\ fill.newest # 0 /\ ~fill.whole => fill.start \in fill.held
  /\ fill.pc = "next" /\ fill.newest # 0 /\ fill.whole => fill.newest \in dealt \/ 0 \in fill.held

\* A row that was due still has its lane ahead of the run, or is of the lane under
\* the walk and in its hands, or the run will not read complete.
Waits(r) ==
  \/ fill.pc = "begin"
  \/ /\ fill.pc = "lane" \/ Walking
     /\ \/ LaneOf[r] \in fill.todo
        \/ LaneOf[r] \in Addresses /\ fill.phase = "stash"
        \/ LaneOf[r] \in Contacts /\ fill.phase # "comms"
  \/ /\ Walking /\ LaneOf[r] = fill.lane
     /\ ~fill.whole \/ fill.held # {} \/ r \in fill.items \/ r = fill.newest

\* Every row that was due was dealt with or waits, where the run reads complete so
\* far; and a thread with such a row is active, so the last phase takes it up.
DuePart ==
  /\ fill.due \subseteq archive
  /\ \A r \in fill.due \ dealt : LaneOf[r] \in Contacts => convs[LaneOf[r]] = "active"
  /\ fill.complete => \A r \in fill.due : r \in dealt \/ Waits(r)

FillIInv ==
  /\ FillTypeOK /\ ArchivePart /\ CursorPart /\ LanePart /\ BackupPart /\ DuePart /\ CompleteMeansAll

---------------------------------------------------------------------------
(***************************************************************************)
(* Its pager.                                                              *)
(***************************************************************************)

\* A nonempty set of numbers has a least one.
LEMMA LeastOf ==
  ASSUME NEW S \in SUBSET Nat, S # {}
  PROVE  \E m \in S : \A n \in S : m <= n
<1> DEFINE R == OpToRel(<, Nat)
<1>1. IsWellFoundedOn(R, Nat)
  BY NatLessThanWellFounded
<1>2. \A m, n \in Nat : n < m => <<n, m>> \in R
  BY DEF OpToRel
<1> HIDE DEF R
<1>3. PICK m \in S : \A n \in S : ~(<<n, m>> \in R)
  BY <1>1, WFMin
<1>4. \A n \in S : ~(n < m)
  BY <1>2, <1>3
<1> QED BY <1>3, <1>4

\* Min takes it.
LEMMA MinOf ==
  ASSUME NEW S \in SUBSET Nat, S # {}
  PROVE  Min(S) \in S /\ \A n \in S : Min(S) <= n
<1>1. \E m \in S : \A n \in S : m <= n
  BY LeastOf
<1> QED BY <1>1 DEF Min

\* A bounded nonempty set of numbers has a greatest one, which Max takes.
LEMMA MaxOf ==
  ASSUME NEW S \in SUBSET Nat, S # {}, NEW b \in Nat, \A n \in S : n <= b
  PROVE  Max(S) \in S /\ \A n \in S : n <= Max(S)
<1> DEFINE D == {b - n : n \in S}
<1>1. D \in SUBSET Nat /\ D # {}
  <2>1. \A n \in S : b - n \in Nat
    OBVIOUS
  <2>2. \A d \in D : d \in Nat
    BY <2>1
  <2> QED BY <2>2
<1>2. PICK d \in D : \A e \in D : d <= e
  BY <1>1, LeastOf
<1>3. PICK m \in S : d = b - m
  OBVIOUS
<1>4. \A n \in S : b - m <= b - n
  BY <1>2, <1>3
<1>5. \A n \in S : n <= m
  BY <1>4
<1> QED BY <1>5 DEF Max

\* What the pager knows when it works: the archive is some of the finite rows.
LEMMA RowsAreFinite ==
  ASSUME NEW S \in SUBSET Rows
  PROVE  IsFiniteSet(S) /\ Cardinality(S) \in Nat /\ S \in SUBSET Nat
BY RowsAreNumbers, FS_Subset, FS_CardinalityType

\* A full page leaves out only rows that are numbered, and so timed, after all of it.
LEMMA PagePassesNothing ==
  ASSUME FillTypeOK, NEW k, NEW from \in Nat, NEW s \in PageAt(k, from),
         NEW r \in archive, LaneOf[r] = k, TimeOf[r] >= from, TimeOf[r] < TimeOf[s]
  PROVE  r \in PageAt(k, from)
<1> DEFINE served == {q \in archive : LaneOf[q] = k /\ TimeOf[q] >= from}
           before(q) == {p \in served : p < q}
<1>1. served \in SUBSET Rows /\ r \in served /\ s \in served /\ Cardinality(before(s)) < PageLimit
  BY DEF FillTypeOK, PageAt
<1>2. r \in Nat /\ s \in Nat /\ TimeOf[r] \in Nat /\ TimeOf[s] \in Nat /\ ~(s < r) /\ r # s
  BY <1>1, RowsAreNumbers, RowsHaveLanes, RowsInOrder
<1>3. before(r) \in SUBSET before(s)
  <2>1. \A p \in served : p \in Nat /\ (p < r => p < s)
    BY <1>1, <1>2, RowsAreNumbers
  <2> QED BY <2>1
<1>4. /\ IsFiniteSet(before(s)) /\ Cardinality(before(s)) \in Nat
      /\ Cardinality(before(r)) \in Nat
  BY <1>1, RowsAreFinite
<1>5. Cardinality(before(r)) <= Cardinality(before(s))
  BY <1>3, <1>4, FS_Subset
<1>6. Cardinality(before(r)) < PageLimit
  BY <1>1, <1>4, <1>5, LimitsAreNumbers
<1> QED BY <1>1, <1>6 DEF PageAt

\* A short page is all there is.
LEMMA ShortPageDrains ==
  ASSUME FillTypeOK, NEW k, NEW from \in Nat, Cardinality(PageAt(k, from)) < PageLimit,
         NEW r \in archive, LaneOf[r] = k, TimeOf[r] >= from
  PROVE  r \in PageAt(k, from)
<1> DEFINE page == PageAt(k, from)
           served == {q \in archive : LaneOf[q] = k /\ TimeOf[q] >= from}
           before(q) == {p \in served : p < q}
           left == served \ page
<1>1. served \in SUBSET Rows /\ page \in SUBSET served
  BY DEF FillTypeOK, PageAt
<1> SUFFICES ASSUME r \notin page PROVE FALSE
  OBVIOUS
<1>2. left \in SUBSET Nat /\ left # {}
  BY <1>1, RowsAreNumbers
<1>3. PICK m \in left : \A n \in left : m <= n
  BY <1>2, LeastOf
<1>4. before(m) \in SUBSET page
  BY <1>1, <1>2, <1>3, RowsAreNumbers
<1>5. /\ IsFiniteSet(page) /\ Cardinality(page) \in Nat /\ Cardinality(before(m)) \in Nat
  BY <1>1, RowsAreFinite
<1>6. Cardinality(before(m)) <= Cardinality(page)
  BY <1>4, <1>5, FS_Subset
<1>7. Cardinality(before(m)) < PageLimit
  BY <1>5, <1>6, LimitsAreNumbers
<1>8. m \in page
  BY <1>1, <1>3, <1>7 DEF PageAt
<1> QED BY <1>3, <1>8

\* The walk of a lane after some pages.
PagesSoFar == [items : SUBSET Rows, top : Times, ends : BOOLEAN, whole : BOOLEAN]

\* What was fetched of lane k from a cursor on, and of nothing else: all of it
\* before the top; all there is where the walk drained.
Paged(k, from, w) ==
  /\ w \in PagesSoFar /\ w.top <= now /\ (w.whole => w.ends) /\ w.items \subseteq archive
  /\ from <= w.top /\ \A r \in w.items : LaneOf[r] = k /\ from <= TimeOf[r]
  /\ \A r \in archive : LaneOf[r] = k /\ TimeOf[r] >= from =>
       (TimeOf[r] < w.top \/ w.whole => r \in w.items)

\* One page more keeps that.
LEMMA NextPageFetches ==
  ASSUME FillTypeOK, ArchivePart, NEW k, NEW from \in Times, NEW w, Paged(k, from, w)
  PROVE  Paged(k, from, NextPage(k, w))
<1> DEFINE page == PageAt(k, w.top)
           times == {w.top} \cup {TimeOf[r] : r \in page}
           top == Max(times)
           short == Cardinality(page) < PageLimit
<1>1. /\ w \in PagesSoFar /\ w.top \in Nat /\ w.top <= now /\ now \in Nat /\ now <= MaxTime
      /\ MaxTime \in Nat /\ archive \subseteq Rows /\ from \in Nat
      /\ w.items \subseteq archive
  BY LimitsAreNumbers DEF Paged, FillTypeOK, PagesSoFar, Times
<1>2. CASE w.ends
  BY <1>2 DEF NextPage
<1>3. CASE ~w.ends
  <2>1. page \in SUBSET archive /\ \A r \in page : /\ LaneOf[r] = k /\ TimeOf[r] \in Nat /\ TimeOf[r] <= now
                                                 /\ w.top <= TimeOf[r]
    BY <1>1, RowsHaveLanes DEF PageAt, ArchivePart
  <2>2. times \in SUBSET Nat /\ times # {} /\ \A n \in times : n <= now
    BY <1>1, <2>1
  <2>3. top \in times /\ \A n \in times : n <= top
    BY <1>1, <2>2, MaxOf
  <2>4. top \in Nat /\ top <= now /\ w.top <= top
    BY <2>2, <2>3
  <2>5. NextPage(k, w) = [items |-> w.items \cup page, top |-> top,
                          ends |-> short \/ page \subseteq w.items, whole |-> short]
    BY <1>3 DEF NextPage
  <2>6. top \in Times /\ w.items \cup page \in SUBSET Rows /\ w.items \cup page \subseteq archive
    BY <1>1, <2>1, <2>4 DEF Times, PagesSoFar
  <2>7. ASSUME NEW r \in archive, LaneOf[r] = k, TimeOf[r] >= from, TimeOf[r] < top \/ short
        PROVE  r \in w.items \cup page
    <3>1. TimeOf[r] \in Nat
      BY <1>1, RowsHaveLanes
    <3>2. CASE TimeOf[r] < w.top
      BY <2>7, <3>2 DEF Paged
    <3>3. CASE ~(TimeOf[r] < w.top) /\ short
      BY <1>1, <2>7, <3>1, <3>3, ShortPageDrains
    <3>4. CASE ~(TimeOf[r] < w.top) /\ ~short
      <4>1. top # w.top
        BY <1>1, <2>4, <2>7, <3>1, <3>4
      <4>2. PICK s \in page : top = TimeOf[s]
        BY <2>3, <4>1
      <4> QED BY <1>1, <2>7, <3>1, <3>4, <4>2, PagePassesNothing
    <3> QED BY <3>2, <3>3, <3>4
  <2>8. NextPage(k, w) \in PagesSoFar
    BY <2>5, <2>6 DEF PagesSoFar
  <2>9. short \in BOOLEAN
    OBVIOUS
  <2>a. from <= top /\ \A r \in w.items \cup page : LaneOf[r] = k /\ from <= TimeOf[r]
    <3>1. from <= w.top /\ \A r \in w.items : LaneOf[r] = k /\ from <= TimeOf[r]
      BY DEF Paged
    <3> QED BY <1>1, <2>1, <2>4, <3>1
  <2> HIDE DEF page, top, times, short
  <2>10. /\ NextPage(k, w).top = top /\ NextPage(k, w).items = w.items \cup page
         /\ NextPage(k, w).whole = short /\ (short => NextPage(k, w).ends)
    BY <2>5, <2>9
  <2> QED BY <2>4, <2>6, <2>7, <2>8, <2>9, <2>a, <2>10 DEF Paged
<1> QED BY <1>2, <1>3

\* The loop's recursion has a solution: one on fewer pages extends by a page.
LEMMA PagesFollow ==
  ASSUME NEW k, NEW from
  PROVE  LET after == AfterPages(k, from) IN
         /\ after[0] = [items |-> {}, top |-> from, ends |-> FALSE, whole |-> FALSE]
         /\ \A n \in 1..PageBudget : after[n] = NextPage(k, after[n - 1])
<1> DEFINE first == [items |-> {}, top |-> from, ends |-> FALSE, whole |-> FALSE]
           G(a, n) == [m \in 0..n |-> IF m = 0 THEN first ELSE NextPage(k, a[m - 1])]
           bad == {n \in Nat : \A a : a # G(a, n)}
           after == CHOOSE a : a = G(a, PageBudget)
<1>1. PageBudget \in Nat
  BY LimitsAreNumbers
<1>2. bad = {}
  <2> SUFFICES ASSUME bad # {} PROVE FALSE
    OBVIOUS
  <2>1. PICK n \in bad : \A m \in bad : n <= m
    BY LeastOf
  <2>2. n # 0
    <3> DEFINE a == [m \in 0..0 |-> first]
    <3>1. a = G(a, 0)
      OBVIOUS
    <3> QED BY <3>1
  <2>3. n \in Nat /\ n - 1 \in Nat /\ n - 1 \notin bad
    <3>1. bad \in SUBSET Nat
      OBVIOUS
    <3> HIDE DEF bad
    <3> QED BY <2>1, <2>2, <3>1
  <2>4. PICK a : a = G(a, n - 1)
    BY <2>3
  <2> DEFINE b == [m \in 0..n |-> IF m = n THEN NextPage(k, a[n - 1]) ELSE a[m]]
  <2>5. \A m \in 0..n : b[m] = IF m = 0 THEN first ELSE NextPage(k, b[m - 1])
    <3> TAKE m \in 0..n
    <3>1. CASE m = n
      <4>1. b[m - 1] = a[n - 1]
        BY <2>2, <3>1
      <4> QED BY <2>2, <3>1, <4>1
    <3>2. CASE m = 0
      BY <2>2, <2>3, <2>4, <3>2
    <3>3. CASE m # n /\ m # 0
      <4>1. m \in 0..(n - 1) /\ m - 1 \in 0..(n - 1) /\ m - 1 \in 0..n /\ m - 1 # n
        BY <2>3, <3>3
      <4>2. a[m] = NextPage(k, a[m - 1])
        BY <2>4, <3>3, <4>1
      <4> QED BY <3>3, <4>1, <4>2
    <3> QED BY <3>1, <3>2, <3>3
  <2>6. b = G(b, n)
    <3> HIDE DEF b
    <3>1. b = [m \in 0..n |-> b[m]]
      BY DEF b
    <3> QED BY <2>5, <3>1
  <2> QED BY <2>1, <2>6
<1>3. after = G(after, PageBudget)
  <2> HIDE DEF G
  <2>1. \E a : a = G(a, PageBudget)
    BY <1>1, <1>2
  <2> QED BY <2>1
<1>4. AfterPages(k, from) = after
  BY DEF AfterPages
<1> HIDE DEF after
<1> HIDE DEF bad, first
<1>5. \A m \in 0..PageBudget : after[m] = IF m = 0 THEN first ELSE NextPage(k, after[m - 1])
  BY <1>3
<1>6. 0 \in 0..PageBudget /\ \A n \in 1..PageBudget : n \in 0..PageBudget /\ n # 0
  BY <1>1
<1> QED BY <1>4, <1>5, <1>6 DEF first

\* Whatever page ends it, a walk has fetched all of its lane before its top.
LEMMA WalksFetch ==
  ASSUME FillTypeOK, ArchivePart, NEW k, NEW from \in Times, from <= now, NEW n \in 0..PageBudget
  PROVE  Paged(k, from, AfterPages(k, from)[n])
<1> DEFINE after == AfterPages(k, from)
           bad == {m \in 0..PageBudget : ~Paged(k, from, after[m])}
<1>1. PageBudget \in Nat /\ from \in Nat /\ MaxTime \in Nat
  BY LimitsAreNumbers DEF Times
<1>2. after[0] = [items |-> {}, top |-> from, ends |-> FALSE, whole |-> FALSE]
      /\ \A m \in 1..PageBudget : after[m] = NextPage(k, after[m - 1])
  BY PagesFollow
<1> HIDE DEF after
<1>3. Paged(k, from, after[0])
  <2>1. \A r \in archive : TimeOf[r] \in Nat
    BY RowsHaveLanes DEF FillTypeOK
  <2> QED BY <1>1, <1>2, <2>1 DEF Paged, PagesSoFar
<1>4. bad = {}
  <2> SUFFICES ASSUME bad # {} PROVE FALSE
    OBVIOUS
  <2>1. bad \in SUBSET Nat
    OBVIOUS
  <2>2. PICK m \in bad : \A l \in bad : m <= l
    BY <2>1, LeastOf
  <2>3. m # 0
    BY <1>3, <2>2
  <2>4. m \in 1..PageBudget /\ m - 1 \in 0..PageBudget /\ m - 1 \notin bad
    BY <1>1, <2>2, <2>3
  <2>5. Paged(k, from, after[m - 1])
    BY <2>4
  <2>6. Paged(k, from, NextPage(k, after[m - 1]))
    BY <2>5, NextPageFetches
  <2> QED BY <1>2, <2>2, <2>4, <2>6
<1> QED BY <1>4 DEF after

---------------------------------------------------------------------------
(***************************************************************************)
(* Its types.                                                              *)
(***************************************************************************)

\* An idle run, an abandoned one and an empty report have the types of theirs.
LEMMA IdleTypes ==
  /\ Off \in Fills /\ abandon_wiped_walk \in Fills /\ NoErase \in Erases /\ 0 \in Times
  /\ NoReport \in [complete : BOOLEAN, due : SUBSET Rows, skips : Nat]
<1>1. 0 \in Times
  BY LimitsAreNumbers DEF Times
<1>2. [floor |-> 0, at |-> [k \in Lanes |-> 0]] \in Cursors
  BY <1>1 DEF Cursors
<1>3. Off \in Fills
  BY <1>1, <1>2 DEF Off, Fills
<1>4. abandon_wiped_walk \in Fills
  BY <1>3 DEF abandon_wiped_walk, Fills
<1>5. NoErase \in Erases
  BY DEF Erases
<1> QED BY <1>1, <1>3, <1>4, <1>5 DEF NoReport

\* A fault counts within its bound.
LEMMA FaultCounts ==
  ASSUME faults \in 0..MaxFaults, Fault
  PROVE  faults' \in 0..MaxFaults
BY LimitsAreNumbers DEF Fault

---------------------------------------------------------------------------
(***************************************************************************)
(* Its steps.                                                              *)
(***************************************************************************)

\* Threads that are active stay so.
StayActive == \A c \in Contacts : convs[c] = "active" => convs'[c] = "active"

\* What a step of the run has to show: where its cursors stand, its lane, its
\* backup, and that what was due is dealt with or waits.
LEMMA FillMoves ==
  ASSUME FillIInv, FillTypeOK', now' = now, archive' = archive, dealt \subseteq dealt', StayActive,
         cursors' = cursors \/ cursors' = fill.cur,
         fill'.cur = fill.cur \/ fill'.cur = cursors \/ (Past(fill.cur)' /\ Promise(fill.cur)'),
         fill'.due = fill.due \/ (/\ fill'.due \subseteq archive
                                 /\ \A r \in fill'.due : LaneOf[r] \in Contacts => convs[LaneOf[r]] = "active"),
         (last' = last /\ skips' = skips) \/ last' = NoReport \/ CompleteMeansAll',
         LanePart', BackupPart', fill'.complete => \A r \in fill'.due : r \in dealt' \/ Waits(r)'
  PROVE  FillIInv'
<1>1. ArchivePart'
  BY DEF FillIInv, ArchivePart
<1>2. Past(cursors) /\ Past(fill.cur) /\ Promise(cursors) /\ Promise(fill.cur)
  BY DEF FillIInv, CursorPart
<1>3. Past(cursors)' /\ Promise(cursors)'
  <2>1. CASE cursors' = cursors
    BY <1>2, <2>1 DEF Past, Promise, start_at
  <2>2. CASE cursors' = fill.cur
    BY <1>2, <2>2 DEF Past, Promise, start_at
  <2> QED BY <2>1, <2>2
<1>4. Past(fill.cur)' /\ Promise(fill.cur)'
  <2>1. CASE fill'.cur = fill.cur
    BY <1>2, <2>1 DEF Past, Promise, start_at
  <2>2. CASE fill'.cur = cursors
    BY <1>2, <2>2 DEF Past, Promise, start_at
  <2> QED BY <2>1, <2>2
<1>5. DuePart'
  <2>1. fill'.due \subseteq archive'
    BY DEF FillIInv, DuePart
  <2>2. \A r \in fill'.due \ dealt' : LaneOf[r] \in Contacts => convs'[LaneOf[r]] = "active"
    BY DEF FillIInv, DuePart, StayActive
  <2> QED BY <2>1, <2>2 DEF DuePart
<1>6. CompleteMeansAll'
  BY DEF FillIInv, CompleteMeansAll, NoReport
<1> QED BY <1>1, <1>3, <1>4, <1>5, <1>6 DEF FillIInv, CursorPart

\* A run that reads incomplete and walks no lane has nothing to show.
LEMMA IdleRun ==
  ASSUME FillIInv, FillTypeOK', now' = now, archive' = archive, dealt \subseteq dealt', StayActive,
         cursors' = cursors, (last' = last /\ skips' = skips) \/ last' = NoReport \/ CompleteMeansAll',
         fill' = Off \/ fill' = abandon_wiped_walk
  PROVE  FillIInv'
<1>1. /\ fill'.pc \in {"off", "report"} /\ fill'.cur = [floor |-> 0, at |-> [k \in Lanes |-> 0]]
      /\ fill'.due = {} /\ ~Walking'
  <2>1. /\ Off.pc = "off" /\ Off.cur = [floor |-> 0, at |-> [k \in Lanes |-> 0]] /\ Off.due = {}
        /\ abandon_wiped_walk.pc = "report" /\ abandon_wiped_walk.due = {}
        /\ abandon_wiped_walk.cur = [floor |-> 0, at |-> [k \in Lanes |-> 0]]
    BY DEF Off, abandon_wiped_walk
  <2> QED BY <2>1 DEF Walking
<1>2. LanePart' /\ BackupPart'
  BY <1>1 DEF LanePart, BackupPart
<1>3. Past(fill.cur)' /\ Promise(fill.cur)'
  <2>1. now \in Nat /\ \A r \in archive : LaneOf[r] \in Lanes /\ TimeOf[r] \in Nat
    BY RowsHaveLanes, LimitsAreNumbers DEF FillIInv, FillTypeOK, Times
  <2> QED BY <1>1, <2>1 DEF Past, Promise, start_at
<1> QED BY <1>1, <1>2, <1>3, FillMoves

\* A step of a walk that keeps its lane: what leaves its hands was dealt with or held.
LEMMA HandsPass ==
  ASSUME FillIInv, FillTypeOK', now' = now, archive' = archive, dealt \subseteq dealt', StayActive,
         cursors' = cursors, last' = last, skips' = skips, Walking, Walking',
         fill'.lane = fill.lane, fill'.start = fill.start, fill'.top = fill.top,
         fill'.whole = fill.whole, fill'.cur = fill.cur, fill'.todo = fill.todo,
         fill'.phase = fill.phase, fill'.due = fill.due, fill'.complete = fill.complete,
         fill.held \subseteq fill'.held, fill'.items \subseteq fill.items,
         \A r \in Rows : r \in fill.items \cup {fill.newest} =>
            r \in dealt' \cup fill'.items \cup {fill'.newest} \/ TimeOf[r] \in fill'.held,
         BackupPart'
  PROVE  FillIInv'
<1>0. archive \subseteq Rows /\ fill.due \subseteq Rows /\ fill.held \subseteq Nat /\ fill'.held \subseteq Nat
      /\ \A r \in Rows : TimeOf[r] \in Nat
  BY RowsHaveLanes DEF FillIInv, FillTypeOK, Fills, Times
<1>1. LanePart'
  <2>1. fill'.lane \in Lanes /\ fill'.start = start_at(fill.cur, fill.lane)' /\ fill'.top <= now'
        /\ fill'.items \subseteq archive'
    BY DEF FillIInv, LanePart, start_at
  <2>2. ASSUME NEW r \in archive, LaneOf[r] = fill'.lane, TimeOf[r] < fill'.top,
               \A h \in fill'.held : TimeOf[r] < h
        PROVE  r \in dealt' \cup fill'.items \cup {fill'.newest}
    <3>1. r \in dealt \cup fill.items \cup {fill.newest}
      BY <2>2 DEF FillIInv, LanePart
    <3>2. TimeOf[r] \notin fill'.held
      BY <1>0, <2>2
    <3> QED BY <1>0, <3>1, <3>2
  <2> QED BY <2>1, <2>2 DEF LanePart
<1>2. ASSUME fill'.complete, NEW r \in fill'.due PROVE r \in dealt' \/ Waits(r)'
  <2>1. r \in dealt \/ Waits(r)
    BY <1>2 DEF FillIInv, DuePart
  <2>2. r \in Rows /\ fill.pc # "begin" /\ fill.pc # "lane"
    BY <1>0, <1>2 DEF Walking
  <2> QED BY <2>1, <2>2 DEF Waits
<1> QED BY <1>1, <1>2, FillMoves

\* A run starts: it is due what the archive has for the lanes there are.
LEMMA StartKeeps ==
  ASSUME FillIInv, run_fill
  PROVE  FillIInv'
<1> DEFINE due == {r \in archive : LaneOf[r] \in Contacts => LaneOf[r] \in Active}
<1>1. fill' = [Off EXCEPT !.pc = "begin", !.skips = skips, !.due = due]
  BY DEF run_fill, Step
<1>2. due \in SUBSET archive /\ due \in SUBSET Rows /\ skips \in Nat /\ Off \in Fills
  BY IdleTypes DEF FillIInv, FillTypeOK
<1>3. \A r \in due : LaneOf[r] \in Contacts => convs[LaneOf[r]] = "active"
  BY DEF Active
<1> HIDE DEF due
<1>4. fill' \in Fills
  BY <1>1, <1>2 DEF Fills
<1>5. /\ fill'.pc = "begin" /\ fill'.due = due /\ fill'.cur = Off.cur /\ fill'.phase = "stash"
  <2>1. Off.phase = "stash"
    BY DEF Off
  <2> QED BY <1>1, <1>2, <2>1 DEF Fills
<1>6. FillTypeOK'
  <2>1. runs' \in 0..MaxRuns
    BY LimitsAreNumbers DEF run_fill, FillIInv, FillTypeOK
  <2> QED BY <1>4, <2>1 DEF run_fill, FillIInv, FillTypeOK, kept
<1>7. LanePart' /\ BackupPart'
  BY <1>5 DEF LanePart, BackupPart, Walking
<1>8. Past(fill.cur)' /\ Promise(fill.cur)'
  <2>1. now \in Nat /\ now' = now /\ archive' = archive /\ \A r \in archive : LaneOf[r] \in Lanes /\ TimeOf[r] \in Nat
    BY RowsHaveLanes, LimitsAreNumbers DEF run_fill, FillIInv, FillTypeOK, Times
  <2>2. Off.cur = [floor |-> 0, at |-> [k \in Lanes |-> 0]]
    BY DEF Off
  <2> QED BY <1>5, <2>1, <2>2 DEF Past, Promise, start_at
<1>9. \A r \in fill'.due : Waits(r)'
  BY <1>5 DEF Waits
<1> QED BY <1>2, <1>3, <1>5, <1>6, <1>7, <1>8, <1>9, FillMoves DEF run_fill, StayActive, kept

\* A report of a locked vault is empty.
LEMMA RefuseKeeps ==
  ASSUME FillIInv, RefuseLocked
  PROVE  FillIInv'
<1>1. FillTypeOK'
  BY IdleTypes DEF RefuseLocked, FillIInv, FillTypeOK, kept, Leaves
<1>2. /\ now' = now /\ archive' = archive /\ dealt' = dealt /\ cursors' = cursors /\ fill' = fill
      /\ convs' = convs /\ last' = NoReport
  BY DEF RefuseLocked, kept, Leaves
<1>3. LanePart' /\ BackupPart'
  BY <1>2 DEF FillIInv, LanePart, BackupPart, Walking, start_at
<1>4. fill'.complete => \A r \in fill'.due : r \in dealt' \/ Waits(r)'
  BY <1>2 DEF FillIInv, DuePart, Waits, Walking
<1> QED BY <1>1, <1>2, <1>3, <1>4, FillMoves DEF StayActive

\* The walk begins: every lane there is lies ahead of it.
LEMMA BeginKeeps ==
  ASSUME FillIInv, gated_walk_start
  PROVE  FillIInv'
<1>1. /\ fill' = [fill EXCEPT !.pc = "lane", !.epoch = erase_epoch, !.cur = cursors, !.todo = {Owner}]
      /\ fill.pc = "begin" /\ now' = now /\ archive' = archive /\ dealt' = dealt /\ cursors' = cursors
      /\ convs' = convs /\ last' = last /\ skips' = skips
  BY DEF gated_walk_start, Step, kept, Leaves
<1>2. fill \in Fills /\ cursors \in Cursors /\ erase_epoch \in Nat /\ {Owner} \in SUBSET Lanes
  BY DEF FillIInv, FillTypeOK, Lanes
<1>3. fill' \in Fills
  BY <1>1, <1>2 DEF Fills
<1>4. FillTypeOK'
  BY <1>3 DEF gated_walk_start, FillIInv, FillTypeOK, kept, Leaves
<1>5. /\ fill'.pc = "lane" /\ fill'.cur = cursors /\ fill'.todo = {Owner} /\ fill'.due = fill.due
      /\ fill'.phase = fill.phase /\ fill.due \subseteq Rows
  BY <1>1, <1>2 DEF Fills
<1>6. LanePart' /\ BackupPart'
  BY <1>5 DEF LanePart, BackupPart, Walking
<1>7. ASSUME NEW r \in fill'.due PROVE Waits(r)'
  <2>1. LaneOf[r] \in {Owner} \cup Addresses \cup Contacts /\ fill.phase = "stash"
    BY <1>1, <1>5, RowsHaveLanes DEF Lanes, FillIInv, BackupPart
  <2> QED BY <1>5, <2>1 DEF Waits
<1> QED BY <1>1, <1>4, <1>5, <1>6, <1>7, FillMoves DEF StayActive

\* A lock leaves the phase's other lanes, and the run will not read complete.
LEMMA StopKeeps ==
  ASSUME FillIInv, StopLocked
  PROVE  FillIInv'
<1>1. /\ fill' = [fill EXCEPT !.todo = {}, !.complete = FALSE] /\ fill.pc = "lane"
      /\ now' = now /\ archive' = archive /\ dealt' = dealt /\ cursors' = cursors
      /\ convs' = convs /\ last' = last /\ skips' = skips
  BY DEF StopLocked, Step, kept, Leaves
<1>2. fill \in Fills
  BY DEF FillIInv, FillTypeOK
<1>3. fill' \in Fills
  BY <1>1, <1>2 DEF Fills
<1>4. FillTypeOK'
  BY <1>3 DEF StopLocked, FillIInv, FillTypeOK, kept, Leaves
<1>5. fill'.pc = "lane" /\ fill'.cur = fill.cur /\ fill'.due = fill.due /\ fill'.complete = FALSE
  BY <1>1, <1>2 DEF Fills
<1>6. LanePart' /\ BackupPart'
  BY <1>5 DEF LanePart, BackupPart, Walking
<1> QED BY <1>1, <1>4, <1>5, <1>6, FillMoves DEF StayActive

\* The end of a phase, by the phase that ends.
LEMMA PhaseEnds ==
  ASSUME NextPhase
  PROVE  /\ fill.pc = "lane" /\ fill.todo = {}
         /\ fill.phase = "stash" /\ unlocked => fill' = [fill EXCEPT !.phase = "shakes", !.todo = Addresses]
         /\ fill.phase = "stash" /\ ~unlocked => fill' = abandon_wiped_walk
         /\ fill.phase = "shakes" => fill' = [fill EXCEPT !.phase = "comms", !.todo = Active]
         /\ fill.phase \notin {"stash", "shakes"} => fill' = [fill EXCEPT !.pc = "save", !.phase = "stash"]
<1>1. fill.phase = "stash" => fill.phase # "shakes"
  OBVIOUS
<1>2. CASE fill.phase = "stash"
  BY <1>1, <1>2 DEF NextPhase, Step, abandon_wiped_walk
<1>3. CASE fill.phase = "shakes"
  BY <1>1, <1>3 DEF NextPhase, Step
<1>4. CASE fill.phase \notin {"stash", "shakes"}
  BY <1>4 DEF NextPhase, Step
<1> QED BY <1>2, <1>3, <1>4

\* A phase that ends leaves no row of its lanes undealt, where the run reads complete.
LEMMA PhaseKeeps ==
  ASSUME FillIInv, NextPhase
  PROVE  FillIInv'
<1>1. /\ fill.pc = "lane" /\ fill.todo = {}
      /\ now' = now /\ archive' = archive /\ dealt' = dealt /\ cursors' = cursors
      /\ convs' = convs /\ last' = last /\ skips' = skips
  BY PhaseEnds DEF NextPhase, kept, Leaves
<1>2. fill \in Fills /\ Addresses \in SUBSET Lanes /\ Active \in SUBSET Lanes /\ fill.due \subseteq Rows
  BY DEF FillIInv, FillTypeOK, Fills, Lanes, Active
<1>3. ASSUME fill' \in Fills PROVE FillTypeOK'
  BY <1>3 DEF NextPhase, FillIInv, FillTypeOK, kept, Leaves
<1>4. ASSUME fill.complete, NEW r \in fill.due, r \notin dealt
      PROVE  /\ \/ LaneOf[r] \in Addresses /\ fill.phase = "stash"
                \/ LaneOf[r] \in Contacts /\ fill.phase # "comms"
             /\ LaneOf[r] \in Contacts => LaneOf[r] \in Active
  <2>1. Waits(r) /\ (LaneOf[r] \in Contacts => convs[LaneOf[r]] = "active")
    BY <1>4 DEF FillIInv, DuePart
  <2> QED BY <1>1, <2>1 DEF Waits, Walking, Active
<1>5. CASE fill.phase = "stash" /\ unlocked
  <2>1. fill' = [fill EXCEPT !.phase = "shakes", !.todo = Addresses]
    BY <1>5, PhaseEnds
  <2>2. fill' \in Fills
    BY <1>2, <2>1 DEF Fills
  <2>3. /\ fill'.pc = "lane" /\ fill'.cur = fill.cur /\ fill'.due = fill.due /\ fill'.complete = fill.complete
        /\ fill'.phase = "shakes" /\ fill'.todo = Addresses
    BY <1>1, <1>2, <2>1 DEF Fills
  <2>4. LanePart' /\ BackupPart'
    BY <2>3 DEF LanePart, BackupPart, Walking
  <2>5. fill'.complete => \A r \in fill'.due : r \in dealt' \/ Waits(r)'
    BY <1>1, <1>4, <2>3 DEF Waits
  <2> QED BY <1>1, <1>3, <2>2, <2>3, <2>4, <2>5, FillMoves DEF StayActive
<1>6. CASE fill.phase = "stash" /\ ~unlocked
  <2>1. fill' = abandon_wiped_walk
    BY <1>6, PhaseEnds
  <2> QED BY <1>1, <1>3, <2>1, IdleTypes, IdleRun DEF StayActive
<1>7. CASE fill.phase = "shakes"
  <2>1. fill' = [fill EXCEPT !.phase = "comms", !.todo = Active]
    BY <1>7, PhaseEnds
  <2>2. fill' \in Fills
    BY <1>2, <2>1 DEF Fills
  <2>3. /\ fill'.pc = "lane" /\ fill'.cur = fill.cur /\ fill'.due = fill.due /\ fill'.complete = fill.complete
        /\ fill'.phase = "comms" /\ fill'.todo = Active
    BY <1>1, <1>2, <2>1 DEF Fills
  <2>4. LanePart' /\ BackupPart'
    BY <2>3 DEF LanePart, BackupPart, Walking
  <2>5. fill'.complete => \A r \in fill'.due : r \in dealt' \/ Waits(r)'
    BY <1>1, <1>4, <1>7, <2>3 DEF Waits
  <2> QED BY <1>1, <1>3, <2>2, <2>3, <2>4, <2>5, FillMoves DEF StayActive
<1>8. CASE fill.phase \notin {"stash", "shakes"}
  <2>1. fill' = [fill EXCEPT !.pc = "save", !.phase = "stash"]
    BY <1>8, PhaseEnds
  <2>2. fill' \in Fills
    BY <1>2, <2>1 DEF Fills
  <2>3. /\ fill'.pc = "save" /\ fill'.cur = fill.cur /\ fill'.due = fill.due /\ fill'.complete = fill.complete
        /\ fill.phase = "comms"
    BY <1>2, <1>8, <2>1 DEF Fills
  <2>4. LanePart' /\ BackupPart'
    BY <2>3 DEF LanePart, BackupPart, Walking
  <2>5. fill'.complete => \A r \in fill'.due : r \in dealt'
    BY <1>1, <1>4, <2>3
  <2> QED BY <1>1, <1>3, <2>2, <2>3, <2>4, <2>5, FillMoves DEF StayActive
<1> QED BY <1>5, <1>6, <1>7, <1>8


\* What a step within a lane leaves alone.
SameLane ==
  /\ Walking /\ cursors' = cursors /\ last' = last /\ gone' = gone /\ blocked' = blocked /\ UNCHANGED Leaves
  /\ fill'.lane = fill.lane /\ fill'.start = fill.start /\ fill'.top = fill.top
  /\ fill'.whole = fill.whole /\ fill'.cur = fill.cur /\ fill'.todo = fill.todo
  /\ fill'.phase = fill.phase /\ fill'.due = fill.due /\ fill'.complete = fill.complete

\* A step of a walk, by what it makes of the hands of the walk.
LEMMA HandsStep ==
  ASSUME FillIInv, SameLane, fill' \in Fills, Walking',
         store' \subseteq Rows, convs' \in [Contacts -> {"none", "invited", "active"}], StayActive,
         dealt \subseteq dealt', dealt' \subseteq Rows, faults' \in 0..MaxFaults,
         fill.held \subseteq fill'.held, fill'.items \subseteq fill.items,
         \A r \in Rows : r \in fill.items \cup {fill.newest} =>
            r \in dealt' \cup fill'.items \cup {fill'.newest} \/ TimeOf[r] \in fill'.held,
         BackupPart'
  PROVE  FillIInv'
<1>1. FillTypeOK'
  BY DEF FillIInv, FillTypeOK, Leaves, SameLane
<1> QED BY <1>1, HandsPass DEF Leaves, SameLane

\* A walk whose store was erased under it reads incomplete.
LEMMA AbandonKeeps ==
  ASSUME FillIInv, fill' = abandon_wiped_walk, UNCHANGED <<kept, cursors, last, dealt, gone, Leaves>>,
         faults' \in 0..MaxFaults
  PROVE  FillIInv'
<1>1. FillTypeOK'
  BY IdleTypes DEF FillIInv, FillTypeOK, kept, Leaves
<1> QED BY <1>1, IdleRun DEF StayActive, kept, Leaves

\* The types of a walk's hands.
LEMMA HandTypes ==
  ASSUME FillIInv
  PROVE  /\ fill \in Fills /\ fill.items \in SUBSET Rows /\ fill.held \in SUBSET Times
         /\ fill.newest \in Rows \cup {0} /\ fill.pay \in SUBSET Contacts /\ fill.start \in Times
         /\ faults \in 0..MaxFaults /\ dealt \subseteq Rows /\ store \subseteq Rows /\ archive \subseteq Rows
         /\ convs \in [Contacts -> {"none", "invited", "active"}] /\ 0 \in Times
BY IdleTypes DEF FillIInv, FillTypeOK, Fills

\* The row at hand is the first of the items; it has come, so its time has too.
LEMMA RowAtHand ==
  ASSUME FillIInv, fill.items # {}
  PROVE  Row \in fill.items /\ Row \in Rows /\ (Walking => TimeOf[Row] \in Times)
<1>1. fill.items \in SUBSET Rows /\ fill.items \in SUBSET Nat
  BY HandTypes, RowsAreNumbers
<1>2. Row \in fill.items
  BY <1>1, MinOf DEF Row
<1>3. Walking => Row \in archive
  BY <1>2 DEF FillIInv, LanePart
<1>4. \A r \in archive : TimeOf[r] \in Times
  <2>1. \A r \in archive : TimeOf[r] \in Nat /\ TimeOf[r] <= now
    BY RowsHaveLanes DEF FillIInv, FillTypeOK, ArchivePart
  <2> QED BY <2>1, LimitsAreNumbers DEF FillIInv, FillTypeOK, Times
<1> QED BY <1>1, <1>2, <1>3, <1>4

\* One more backup is opened: its predecessor is past, or it is held.
LEMMA OpenKeeps ==
  ASSUME FillIInv, OpenBackup
  PROVE  FillIInv'
<1> DEFINE r == Row
<1>1. /\ fill.pc = "open" /\ fill.items # {} /\ Walking /\ fill.phase = "stash"
      /\ cursors' = cursors /\ last' = last /\ gone' = gone /\ faults' = faults /\ UNCHANGED Leaves
      /\ store' = store /\ convs' = convs /\ blocked' = blocked /\ StayActive
  BY DEF OpenBackup, Walking, FillIInv, BackupPart, kept, StayActive
<1>2. r \in fill.items /\ r \in Rows /\ TimeOf[r] \in Times
  BY <1>1, RowAtHand
<1>3. \/ fill' = [fill EXCEPT !.items = @ \ {r}, !.held = @ \cup {TimeOf[r]}] /\ dealt' = dealt
      \/ fill' = [fill EXCEPT !.items = @ \ {r}] /\ dealt' = dealt \cup {r}
      \/ fill' = [fill EXCEPT !.items = @ \ {r}, !.newest = r] /\ dealt' = dealt \cup ({fill.newest} \ {0})
  <2>1. \A f, g : [[fill EXCEPT !.items = f] EXCEPT !.held = g] = [fill EXCEPT !.items = f, !.held = g]
    OBVIOUS
  <2> QED BY DEF OpenBackup, Step, Row
<1> HIDE DEF r
<1>4. fill \in Fills /\ fill.items \in SUBSET Rows /\ fill.held \in SUBSET Times
  BY HandTypes
<1> DEFINE rest == fill.items \ {r}
           held == fill.held \cup {TimeOf[r]}
<1>a. rest \in SUBSET Rows /\ held \in SUBSET Times /\ fill.held \subseteq held /\ TimeOf[r] \in held
  BY <1>2, <1>4
<1>b. \/ fill' = [fill EXCEPT !.items = rest, !.held = held] /\ dealt' = dealt
      \/ fill' = [fill EXCEPT !.items = rest] /\ dealt' = dealt \cup {r}
      \/ fill' = [fill EXCEPT !.items = rest, !.newest = r] /\ dealt' = dealt \cup ({fill.newest} \ {0})
  BY <1>3
<1>c. rest = fill.items \ {r}
  OBVIOUS
<1> HIDE DEF rest, held
<1>5. fill' \in Fills
  <2>1. CASE fill' = [fill EXCEPT !.items = rest, !.held = held]
    BY <1>4, <1>a, <2>1 DEF Fills
  <2>2. CASE fill' = [fill EXCEPT !.items = rest]
    BY <1>4, <1>a, <2>2 DEF Fills
  <2>3. CASE fill' = [fill EXCEPT !.items = rest, !.newest = r]
    BY <1>2, <1>4, <1>a, <2>3 DEF Fills
  <2> QED BY <1>b, <2>1, <2>2, <2>3
<1>6. SameLane /\ fill'.pc = "open" /\ Walking'
  BY <1>1, <1>3, <1>4 DEF Fills, SameLane, Walking
<1>7. /\ fill'.items = fill.items \ {r} /\ fill.held \subseteq fill'.held
      /\ \/ fill'.newest = fill.newest /\ TimeOf[r] \in fill'.held /\ dealt' = dealt
         \/ fill'.newest = fill.newest /\ dealt' = dealt \cup {r}
         \/ fill'.newest = r /\ dealt' = dealt \cup ({fill.newest} \ {0})
  BY <1>4, <1>a, <1>b, <1>c DEF Fills
<1>8. BackupPart'
  BY <1>1, <1>6 DEF BackupPart, SameLane
<1>9. dealt \subseteq dealt' /\ dealt' \subseteq Rows
  BY <1>2, <1>3, HandTypes
<1>10. \A q \in Rows : q \in fill.items \cup {fill.newest} =>
         q \in dealt' \cup fill'.items \cup {fill'.newest} \/ TimeOf[q] \in fill'.held
  BY <1>7, RowsAreNumbers
<1> QED BY <1>1, <1>5, <1>6, <1>7, <1>8, <1>9, <1>10, HandTypes, HandsStep

\* A walk that was cut is held at its start instead of restored from.
LEMMA TakeKeeps ==
  ASSUME FillIInv, TakeNewest
  PROVE  FillIInv'
<1>1. /\ fill.pc = "open" /\ fill.items = {} /\ Walking /\ fill.phase = "stash" /\ dealt' = dealt
      /\ cursors' = cursors /\ last' = last /\ gone' = gone /\ faults' = faults /\ UNCHANGED Leaves
      /\ store' = store /\ convs' = convs /\ blocked' = blocked /\ StayActive
  BY DEF TakeNewest, Walking, FillIInv, BackupPart, kept, StayActive
<1>2. fill \in Fills /\ fill.held \in SUBSET Times /\ fill.start \in Times /\ fill.newest \in Rows \cup {0}
  BY HandTypes
<1> DEFINE held == fill.held \cup {fill.start}
           pay == About[fill.newest]
<1>3. \/ fill.newest = 0 /\ fill' = [fill EXCEPT !.pc = "prove"]
      \/ fill.newest # 0 /\ ~fill.whole /\ fill' = [fill EXCEPT !.pc = "prove", !.held = held]
      \/ Wiped /\ fill' = abandon_wiped_walk
      \/ fill.newest # 0 /\ fill.whole /\ fill' = [fill EXCEPT !.pc = "restore", !.pay = pay]
  <2>1. CASE fill.newest = 0
    BY <2>1 DEF TakeNewest, Step
  <2>2. CASE fill.newest # 0 /\ ~fill.whole
    BY <2>2 DEF TakeNewest, Step
  <2>3. CASE fill.newest # 0 /\ fill.whole
    BY <2>3 DEF TakeNewest, Step
  <2> QED BY <2>1, <2>2, <2>3
<1>4. held \in SUBSET Times /\ fill.held \subseteq held /\ fill.start \in held
      /\ (fill.newest # 0 => pay \in SUBSET Contacts)
  BY <1>2, RowsHaveLanes
<1> HIDE DEF held, pay
<1>5. CASE fill' = abandon_wiped_walk
  BY <1>1, <1>5, HandTypes, AbandonKeeps DEF kept
<1>6. CASE fill.newest = 0 /\ fill' = [fill EXCEPT !.pc = "prove"]
  <2>1. fill' \in Fills
    BY <1>2, <1>6 DEF Fills
  <2>2. SameLane /\ fill'.pc = "prove" /\ Walking'
    BY <1>1, <1>2, <1>6 DEF Fills, SameLane, Walking
  <2>3. fill'.items = fill.items /\ fill'.held = fill.held /\ fill'.newest = fill.newest
    BY <1>2, <1>6 DEF Fills
  <2>4. BackupPart'
    BY <1>1, <1>6, <2>2, <2>3 DEF BackupPart, SameLane
  <2> QED BY <1>1, <2>1, <2>2, <2>3, <2>4, HandTypes, HandsStep
<1>7. CASE fill.newest # 0 /\ ~fill.whole /\ fill' = [fill EXCEPT !.pc = "prove", !.held = held]
  <2>1. fill' \in Fills
    BY <1>2, <1>4, <1>7 DEF Fills
  <2>2. SameLane /\ fill'.pc = "prove" /\ Walking'
    BY <1>1, <1>2, <1>7 DEF Fills, SameLane, Walking
  <2>3. fill'.items = fill.items /\ fill'.held = held /\ fill'.newest = fill.newest
    BY <1>2, <1>7 DEF Fills
  <2>4. BackupPart'
    BY <1>1, <1>4, <1>7, <2>2, <2>3 DEF BackupPart, SameLane
  <2> QED BY <1>1, <1>4, <2>1, <2>2, <2>3, <2>4, HandTypes, HandsStep
<1>8. CASE fill.newest # 0 /\ fill.whole /\ fill' = [fill EXCEPT !.pc = "restore", !.pay = pay]
  <2>1. fill' \in Fills
    BY <1>2, <1>4, <1>8 DEF Fills
  <2>2. SameLane /\ fill'.pc = "restore" /\ Walking'
    BY <1>1, <1>2, <1>8 DEF Fills, SameLane, Walking
  <2>3. fill'.items = fill.items /\ fill'.held = fill.held /\ fill'.newest = fill.newest
    BY <1>2, <1>8 DEF Fills
  <2>4. BackupPart'
    BY <1>1, <1>8, <2>2, <2>3 DEF BackupPart, SameLane
  <2> QED BY <1>1, <2>1, <2>2, <2>3, <2>4, HandTypes, HandsStep
<1> QED BY <1>3, <1>5, <1>6, <1>7, <1>8

\* Between two conversations of the snapshot the backup stays in hand.
LEMMA RestoreKeeps ==
  ASSUME FillIInv, RestoreNext
  PROVE  FillIInv'
<1>1. /\ fill.pc = "restore" /\ fill.items = {} /\ Walking /\ fill.phase = "stash" /\ fill.whole
      /\ cursors' = cursors /\ last' = last /\ gone' = gone /\ faults' = faults /\ UNCHANGED Leaves
      /\ store' = store /\ convs' = convs /\ blocked' = blocked /\ StayActive /\ dealt' = dealt
  BY DEF RestoreNext, Walking, FillIInv, BackupPart, kept, StayActive
<1>2. fill \in Fills
  BY HandTypes
<1>3. \/ fill' = [fill EXCEPT !.pc = "prove"]
      \/ fill' = abandon_wiped_walk
      \/ fill' = [fill EXCEPT !.pc = "refold"]
  <2>1. CASE fill.pay = {}
    BY <2>1 DEF RestoreNext, Step
  <2>2. CASE fill.pay # {} /\ Wiped
    BY <2>2 DEF RestoreNext, Step
  <2>3. CASE fill.pay # {} /\ ~Wiped
    BY <2>3 DEF RestoreNext, Step
  <2> QED BY <2>1, <2>2, <2>3
<1>4. CASE fill' = abandon_wiped_walk
  BY <1>1, <1>4, HandTypes, AbandonKeeps DEF kept
<1>5. CASE fill' # abandon_wiped_walk
  <2>1. fill' \in Fills
    BY <1>2, <1>3, <1>5 DEF Fills
  <2>2. SameLane /\ fill'.pc \in {"prove", "refold"} /\ Walking'
    BY <1>1, <1>2, <1>3, <1>5 DEF Fills, SameLane, Walking
  <2>3. fill'.items = fill.items /\ fill'.held = fill.held /\ fill'.newest = fill.newest
    BY <1>2, <1>3, <1>5 DEF Fills
  <2>4. BackupPart'
    BY <1>1, <2>2, <2>3 DEF BackupPart, SameLane
  <2> QED BY <1>1, <2>1, <2>2, <2>3, <2>4, HandTypes, HandsStep
<1> QED BY <1>4, <1>5

\* A conversation that could not be written holds the lane at 0.
LEMMA RefoldKeeps ==
  ASSUME FillIInv, NEW c \in Contacts, fold_stash_row(c)
  PROVE  FillIInv'
<1> DEFINE pay == fill.pay \ {c}
           held == fill.held \cup {0}
<1>1. /\ fill.pc = "refold" /\ fill.items = {} /\ Walking /\ fill.phase = "stash" /\ fill.whole
      /\ cursors' = cursors /\ last' = last /\ gone' = gone /\ UNCHANGED Leaves
      /\ store' = store /\ blocked' = blocked /\ dealt' = dealt
  BY DEF fold_stash_row, Walking, FillIInv, BackupPart
<1>2. fill \in Fills /\ pay \in SUBSET Contacts /\ held \in SUBSET Times /\ fill.held \subseteq held
  BY HandTypes
<1>3. \/ fill' = [fill EXCEPT !.pc = "restore", !.pay = pay] /\ UNCHANGED <<convs, faults>>
      \/ /\ fill' = [fill EXCEPT !.pc = "restore", !.pay = pay]
         /\ convs[c] = "none" /\ convs' = [convs EXCEPT ![c] = "active"] /\ UNCHANGED faults
      \/ fill' = [[fill EXCEPT !.pc = "restore", !.pay = pay] EXCEPT !.held = @ \cup {0}] /\ Fault /\ UNCHANGED convs
  BY DEF fold_stash_row, Step
<1>4. convs' \in [Contacts -> {"none", "invited", "active"}] /\ StayActive
  BY <1>3, HandTypes DEF StayActive
<1>5. faults' \in 0..MaxFaults
  BY <1>3, HandTypes, FaultCounts
<1>6. [[fill EXCEPT !.pc = "restore", !.pay = pay] EXCEPT !.held = @ \cup {0}]
        = [fill EXCEPT !.pc = "restore", !.pay = pay, !.held = held]
  BY <1>2 DEF Fills
<1> HIDE DEF pay, held
<1>7. \/ fill' = [fill EXCEPT !.pc = "restore", !.pay = pay]
      \/ fill' = [fill EXCEPT !.pc = "restore", !.pay = pay, !.held = held]
  BY <1>3, <1>6
<1>8. fill' \in Fills
  <2>1. CASE fill' = [fill EXCEPT !.pc = "restore", !.pay = pay]
    BY <1>2, <2>1 DEF Fills
  <2>2. CASE fill' = [fill EXCEPT !.pc = "restore", !.pay = pay, !.held = held]
    BY <1>2, <2>2 DEF Fills
  <2> QED BY <1>7, <2>1, <2>2
<1>9. SameLane /\ fill'.pc = "restore" /\ Walking'
  BY <1>1, <1>2, <1>7 DEF Fills, SameLane, Walking
<1>10. fill'.items = fill.items /\ fill.held \subseteq fill'.held /\ fill'.newest = fill.newest
  <2>1. fill'.items = fill.items /\ fill'.newest = fill.newest /\ fill'.held \in {fill.held, held}
    BY <1>2, <1>7 DEF Fills
  <2> QED BY <1>2, <2>1
<1>11. BackupPart'
  BY <1>1, <1>9, <1>10 DEF BackupPart, SameLane
<1> QED BY <1>1, <1>4, <1>5, <1>8, <1>9, <1>10, <1>11, HandTypes, HandsStep

\* The newest backup is dealt with when the walk drained and all of it was written.
LEMMA ProvedKeeps ==
  ASSUME FillIInv, Proved
  PROVE  FillIInv'
<1>1. /\ fill.pc = "prove" /\ fill.items = {} /\ Walking
      /\ (fill.newest # 0 /\ ~fill.whole => fill.start \in fill.held)
      /\ cursors' = cursors /\ last' = last /\ gone' = gone /\ faults' = faults /\ UNCHANGED Leaves
      /\ store' = store /\ convs' = convs /\ blocked' = blocked /\ StayActive
  BY DEF Proved, Walking, FillIInv, BackupPart, kept, StayActive
<1>2. fill \in Fills
  BY HandTypes
<1>3. CASE Wiped
  <2>1. fill' = abandon_wiped_walk /\ dealt' = dealt
    BY <1>3 DEF Proved, Step
  <2> QED BY <1>1, <2>1, HandTypes, AbandonKeeps DEF kept
<1>4. CASE ~Wiped
  <2>1. fill' = [fill EXCEPT !.pc = "next"]
    BY <1>4 DEF Proved, Step
  <2>2. fill' \in Fills
    BY <1>2, <2>1 DEF Fills
  <2>3. SameLane /\ fill'.pc = "next" /\ Walking'
    BY <1>1, <1>2, <2>1 DEF Fills, SameLane, Walking
  <2>4. fill'.items = fill.items /\ fill'.held = fill.held /\ fill'.newest = fill.newest
    BY <1>2, <2>1 DEF Fills
  <2>5. /\ dealt \subseteq dealt' /\ dealt' \subseteq Rows
        /\ fill.newest # 0 /\ fill.whole => fill.newest \in dealt' \/ 0 \in fill.held
    BY <1>4, HandTypes DEF Proved
  <2>6. BackupPart'
    BY <1>1, <2>3, <2>4, <2>5 DEF BackupPart, SameLane
  <2> QED BY <1>1, <2>2, <2>3, <2>4, <2>5, <2>6, HandTypes, HandsStep
<1> QED BY <1>3, <1>4

\* The check before a row.
LEMMA NextKeeps ==
  ASSUME FillIInv, FoldNext
  PROVE  FillIInv'
<1>1. /\ fill.pc = "next" /\ fill.items # {} /\ Walking /\ fill.newest = 0
      /\ cursors' = cursors /\ last' = last /\ gone' = gone /\ faults' = faults /\ UNCHANGED Leaves
      /\ store' = store /\ convs' = convs /\ blocked' = blocked /\ StayActive /\ dealt' = dealt
  BY DEF FoldNext, Walking, FillIInv, BackupPart, kept, StayActive
<1>2. fill \in Fills
  BY HandTypes
<1>3. CASE Wiped
  <2>1. fill' = abandon_wiped_walk
    BY <1>3 DEF FoldNext, Step
  <2> QED BY <1>1, <2>1, HandTypes, AbandonKeeps DEF kept
<1>4. CASE ~Wiped
  <2>1. fill' = [fill EXCEPT !.pc = "look"]
    BY <1>4 DEF FoldNext, Step
  <2>2. fill' \in Fills
    BY <1>2, <2>1 DEF Fills
  <2>3. SameLane /\ fill'.pc = "look" /\ Walking'
    BY <1>1, <1>2, <2>1 DEF Fills, SameLane, Walking
  <2>4. fill'.items = fill.items /\ fill'.held = fill.held /\ fill'.newest = fill.newest
    BY <1>2, <2>1 DEF Fills
  <2>5. BackupPart'
    BY <1>1, <2>3, <2>4 DEF BackupPart, SameLane
  <2> QED BY <1>1, <2>2, <2>3, <2>4, <2>5, HandTypes, HandsStep
<1> QED BY <1>3, <1>4

\* A row leaves the walk's hands settled or held.
LEMMA RowPasses ==
  ASSUME FillIInv, fill.pc \in {"look", "record"}, Settled \/ Held,
         UNCHANGED <<blocked, cursors, last, gone, Leaves>>, store' \subseteq Rows,
         convs' \in [Contacts -> {"none", "invited", "active"}], StayActive, faults' \in 0..MaxFaults
  PROVE  FillIInv'
<1> DEFINE rest == fill.items \ {Row}
           held == fill.held \cup {TimeOf[Row]}
<1>1. /\ fill.items # {} /\ Walking /\ fill.newest = 0
      /\ cursors' = cursors /\ last' = last /\ gone' = gone /\ UNCHANGED Leaves /\ blocked' = blocked
  BY DEF Walking, FillIInv, BackupPart
<1>2. Row \in fill.items /\ Row \in Rows /\ TimeOf[Row] \in Times
  BY <1>1, RowAtHand
<1>3. fill \in Fills /\ rest \in SUBSET Rows /\ held \in SUBSET Times
      /\ rest = fill.items \ {Row} /\ held = fill.held \cup {TimeOf[Row]}
  BY <1>2, HandTypes
<1>4. \/ fill' = [fill EXCEPT !.pc = "next", !.items = rest] /\ dealt' = dealt \cup {Row}
      \/ fill' = [fill EXCEPT !.pc = "next", !.items = rest, !.held = held] /\ dealt' = dealt
  BY DEF Settled, Held, Step
<1> HIDE DEF rest, held
<1>5. fill' \in Fills
  <2>1. CASE fill' = [fill EXCEPT !.pc = "next", !.items = rest]
    BY <1>3, <2>1 DEF Fills
  <2>2. CASE fill' = [fill EXCEPT !.pc = "next", !.items = rest, !.held = held]
    BY <1>3, <2>2 DEF Fills
  <2> QED BY <1>4, <2>1, <2>2
<1>6. SameLane /\ fill'.pc = "next" /\ Walking'
  BY <1>1, <1>3, <1>4 DEF Fills, SameLane, Walking
<1>7. /\ fill'.items = rest /\ fill'.newest = fill.newest
      /\ \/ fill'.held = fill.held /\ dealt' = dealt \cup {Row}
         \/ fill'.held = held /\ dealt' = dealt
  BY <1>3, <1>4 DEF Fills
<1>8. BackupPart'
  BY <1>1, <1>6, <1>7 DEF BackupPart, SameLane
<1>9. dealt \subseteq dealt' /\ dealt' \subseteq Rows /\ fill.held \subseteq fill'.held /\ fill'.items \subseteq fill.items
  BY <1>2, <1>3, <1>7, HandTypes
<1>10. \A q \in Rows : q \in fill.items \cup {fill.newest} =>
         q \in dealt' \cup fill'.items \cup {fill'.newest} \/ TimeOf[q] \in fill'.held
  BY <1>3, <1>7
<1> QED BY <1>5, <1>6, <1>8, <1>9, <1>10, HandsStep

\* handle_inbound, to its decrypt.
LEMMA InboundKeeps ==
  ASSUME FillIInv, handle_inbound
  PROVE  FillIInv'
<1>1. /\ fill.pc = "look" /\ fill.items # {} /\ fill.newest = 0 /\ Walking
      /\ cursors' = cursors /\ last' = last /\ gone' = gone /\ UNCHANGED Leaves
      /\ store' = store /\ convs' = convs /\ blocked' = blocked /\ StayActive
  BY DEF handle_inbound, Walking, FillIInv, BackupPart, kept, StayActive
<1>2. faults' \in 0..MaxFaults
  BY HandTypes, FaultCounts DEF handle_inbound
<1>3. CASE Settled \/ Held
  BY <1>1, <1>2, <1>3, HandTypes, RowPasses
<1>4. CASE fill' = [fill EXCEPT !.pc = "record"] /\ dealt' = dealt
  <2>1. fill \in Fills
    BY HandTypes
  <2>2. fill' \in Fills
    BY <1>4, <2>1 DEF Fills
  <2>3. SameLane /\ fill'.pc = "record" /\ Walking'
    BY <1>1, <1>4, <2>1 DEF Fills, SameLane, Walking
  <2>4. fill'.items = fill.items /\ fill'.held = fill.held /\ fill'.newest = fill.newest
    BY <1>4, <2>1 DEF Fills
  <2>5. BackupPart'
    BY <1>1, <2>3, <2>4 DEF BackupPart, SameLane
  <2> QED BY <1>1, <1>2, <1>4, <2>2, <2>3, <2>4, <2>5, HandTypes, HandsStep
<1> QED BY <1>3, <1>4 DEF handle_inbound, Step

\* A message that is recorded, or whose append failed.
LEMMA CommKeeps ==
  ASSUME FillIInv, RecordComm
  PROVE  FillIInv'
<1>1. /\ fill.pc = "record" /\ fill.items # {} /\ convs' = convs
      /\ UNCHANGED <<blocked, cursors, last, gone, Leaves>> /\ StayActive
  BY DEF RecordComm, FillIInv, BackupPart, StayActive
<1>2. (Settled \/ Held) /\ (store' = store \/ store' = store \cup {Row}) /\ (faults' = faults \/ Fault)
  BY DEF RecordComm
<1>3. store' \subseteq Rows /\ faults' \in 0..MaxFaults
  BY <1>1, <1>2, RowAtHand, HandTypes, FaultCounts
<1> QED BY <1>1, <1>2, <1>3, HandTypes, RowPasses

\* A handshake that is recorded, whole or not.
LEMMA HandshakeKeeps ==
  ASSUME FillIInv, RecordHandshake
  PROVE  FillIInv'
<1> DEFINE brought == {c \in About[Row] : convs[c] = "none"}
           invited == [c \in Contacts |-> IF c \in brought THEN "invited" ELSE convs[c]]
<1>1. /\ fill.pc = "record" /\ fill.items # {} /\ Settled
      /\ UNCHANGED <<blocked, cursors, last, gone, Leaves>>
  BY DEF RecordHandshake, FillIInv, BackupPart
<1>2. /\ store' = store \/ store' = store \cup {Row}
      /\ convs' = convs \/ convs' = invited
      /\ faults' = faults \/ Fault
  BY DEF RecordHandshake
<1>3. store' \subseteq Rows /\ faults' \in 0..MaxFaults
  BY <1>1, <1>2, RowAtHand, HandTypes, FaultCounts
<1>4. invited \in [Contacts -> {"none", "invited", "active"}]
      /\ \A c \in Contacts : convs[c] = "active" => invited[c] = "active"
  BY HandTypes
<1> HIDE DEF invited
<1>5. convs' \in [Contacts -> {"none", "invited", "active"}] /\ StayActive
  BY <1>2, <1>4, HandTypes DEF StayActive
<1> QED BY <1>1, <1>3, <1>5, RowPasses

\* A lane is fetched from its start: what lies before that was dealt with.
LEMMA WalkKeeps ==
  ASSUME FillIInv, NEW k \in Lanes, WalkLane(k)
  PROVE  FillIInv'
<1> DEFINE from == start_at(fill.cur, k)
           pc == IF fill.phase = "stash" THEN "open" ELSE "next"
           todo == fill.todo \ {k}
<1>1. /\ fill.pc = "lane" /\ k \in fill.todo /\ now' = now /\ archive' = archive /\ dealt' = dealt
      /\ cursors' = cursors /\ convs' = convs /\ last' = last /\ skips' = skips /\ store' = store
      /\ blocked' = blocked /\ gone' = gone /\ UNCHANGED Leaves
  BY DEF WalkLane, kept, Leaves
<1>2. PICK n \in 0..PageBudget :
        /\ faults' = faults \/ Fault
        /\ fill' = [fill EXCEPT !.pc = pc, !.todo = todo, !.lane = k, !.start = from,
                      !.items = AfterPages(k, from)[n].items, !.top = AfterPages(k, from)[n].top,
                      !.whole = AfterPages(k, from)[n].whole, !.held = {}, !.newest = 0, !.pay = {}]
  BY DEF WalkLane, Step
<1> DEFINE w == AfterPages(k, from)[n]
<1>3. /\ fill \in Fills /\ fill.todo \in SUBSET Lanes /\ fill.due \in SUBSET Rows /\ fill.cur \in Cursors
      /\ archive \subseteq Rows /\ now \in Nat /\ faults \in 0..MaxFaults
  BY DEF FillIInv, FillTypeOK, Fills, Times
<1>4. from \in Times /\ from <= now
  BY <1>3 DEF Cursors, start_at, FillIInv, CursorPart, Past
<1>5. Paged(k, from, w)
  BY <1>4, WalksFetch DEF FillIInv
<1> HIDE DEF w
<1>6. w \in PagesSoFar /\ w.items \in SUBSET Rows /\ w.top \in Times /\ w.whole \in BOOLEAN /\ w.top <= now
      /\ w.items \subseteq archive
  BY <1>5 DEF Paged, PagesSoFar
<1>7. fill' = [fill EXCEPT !.pc = pc, !.todo = todo, !.lane = k, !.start = from, !.items = w.items,
                 !.top = w.top, !.whole = w.whole, !.held = {}, !.newest = 0, !.pay = {}]
  BY <1>2 DEF w
<1>8. pc \in {"open", "next"} /\ (pc = "open" => fill.phase = "stash") /\ todo \in SUBSET Lanes
      /\ \A l \in fill.todo : l \in todo \/ l = k
  BY <1>3
<1>9. from = start_at(fill.cur, k)
  OBVIOUS
<1> HIDE DEF from, pc, todo
<1>10. fill' \in Fills
  BY <1>3, <1>4, <1>6, <1>7, <1>8, HandTypes DEF Fills
<1>11. /\ fill'.pc = pc /\ fill'.todo = todo /\ fill'.lane = k /\ fill'.start = from /\ fill'.items = w.items
       /\ fill'.top = w.top /\ fill'.whole = w.whole /\ fill'.held = {} /\ fill'.newest = 0
       /\ fill'.cur = fill.cur /\ fill'.due = fill.due /\ fill'.phase = fill.phase
       /\ fill'.complete = fill.complete
  BY <1>3, <1>7 DEF Fills
<1>12. FillTypeOK'
  <2>1. faults' \in 0..MaxFaults
    BY <1>2, <1>3, FaultCounts
  <2> QED BY <1>1, <1>10, <2>1 DEF FillIInv, FillTypeOK, Leaves
<1>13. ASSUME NEW r \in archive, LaneOf[r] = k, TimeOf[r] < w.top \/ w.whole
       PROVE  r \in dealt \cup w.items
  <2>1. TimeOf[r] \in Nat /\ from \in Nat
    BY <1>3, <1>4, RowsHaveLanes DEF Times
  <2>2. CASE TimeOf[r] < from
    BY <1>9, <1>13, <2>2 DEF FillIInv, CursorPart, Promise
  <2>3. CASE TimeOf[r] >= from
    BY <1>5, <1>13, <2>3 DEF Paged
  <2> QED BY <2>1, <2>2, <2>3
<1>14. LanePart'
  <2>1. fill'.start = start_at(fill.cur, fill.lane)'
    BY <1>9, <1>11 DEF start_at
  <2> QED BY <1>1, <1>6, <1>11, <1>13, <2>1 DEF LanePart
<1>15. BackupPart'
  BY <1>8, <1>11 DEF BackupPart
<1>16. ASSUME fill'.complete, NEW r \in fill'.due
       PROVE  r \in dealt' \/ Waits(r)'
  <2>1. (r \in dealt \/ Waits(r)) /\ r \in archive
    BY <1>11, <1>16 DEF FillIInv, DuePart
  <2>2. Walking'
    BY <1>8, <1>11 DEF Walking
  <2>3. CASE LaneOf[r] = k /\ w.whole
    BY <1>1, <1>11, <1>13, <2>1, <2>2, <2>3 DEF Waits
  <2>4. CASE LaneOf[r] = k /\ ~w.whole
    BY <1>11, <2>2, <2>4 DEF Waits
  <2>5. CASE LaneOf[r] # k
    BY <1>1, <1>8, <1>11, <2>1, <2>2, <2>5 DEF Waits, Walking
  <2> QED BY <2>3, <2>4, <2>5
<1> QED BY <1>1, <1>11, <1>12, <1>14, <1>15, <1>16, FillMoves DEF StayActive

\* Where a lane resumes: before its top, and before every row that was held.
LEMMA ResumeFrom ==
  ASSUME FillIInv, fill.pc = "next", NEW resume, resume = resume_from(fill)
  PROVE  /\ resume \in Times /\ resume <= now /\ resume <= fill.top
         /\ \A h \in fill.held : resume <= h
<1>1. fill.held \in SUBSET Times /\ fill.top \in Times /\ fill.top <= now /\ now \in Nat
  BY DEF FillIInv, FillTypeOK, Fills, LanePart, Walking, Times
<1>2. fill.held \cup {fill.top} \in SUBSET Nat /\ fill.held \cup {fill.top} # {} /\ fill.held \cup {fill.top} \in SUBSET Times
  BY <1>1 DEF Times
<1>3. resume \in fill.held \cup {fill.top} /\ \A h \in fill.held \cup {fill.top} : resume <= h
  BY <1>2, MinOf DEF resume_from
<1>4. resume \in Nat
  BY <1>2, <1>3
<1> QED BY <1>1, <1>2, <1>3, <1>4 DEF Times

\* A lane that ends moves its position over what was dealt with, and no further.
LEMMA EndKeeps ==
  ASSUME FillIInv, LaneEnd
  PROVE  FillIInv'
<1> DEFINE resume == resume_from(fill)
           cur == IF resume > fill.start THEN [fill.cur EXCEPT !.at[fill.lane] = resume] ELSE fill.cur
           complete == fill.complete /\ fill.whole /\ fill.held = {}
<1>1. /\ fill.pc = "next" /\ fill.items = {} /\ Walking /\ now' = now /\ archive' = archive /\ dealt' = dealt
      /\ cursors' = cursors /\ convs' = convs /\ last' = last /\ skips' = skips /\ store' = store
      /\ blocked' = blocked /\ gone' = gone /\ faults' = faults /\ UNCHANGED Leaves
  BY DEF LaneEnd, kept, Leaves, Walking
<1>2. fill' = [Off EXCEPT !.pc = "lane", !.phase = fill.phase, !.epoch = fill.epoch, !.todo = fill.todo,
                 !.due = fill.due, !.skips = fill.skips, !.cur = cur, !.complete = complete]
  BY DEF LaneEnd, Step
<1>3. /\ fill \in Fills /\ Off \in Fills /\ fill.cur \in Cursors /\ fill.due \in SUBSET Rows
      /\ fill.start \in Times /\ archive \subseteq Rows /\ now \in Nat /\ fill.lane \in Lanes
      /\ fill.start = start_at(fill.cur, fill.lane)
  BY <1>1, IdleTypes DEF FillIInv, FillTypeOK, Fills, LanePart, Times
<1>4. /\ resume \in Times /\ resume <= now /\ resume <= fill.top /\ \A h \in fill.held : resume <= h
      /\ resume \in Nat
  BY <1>1, ResumeFrom DEF Times
<1>5. ASSUME resume > fill.start, NEW r \in archive, LaneOf[r] = fill.lane, TimeOf[r] < resume
      PROVE  r \in dealt
  <2>1. TimeOf[r] \in Nat /\ fill.top \in Nat /\ fill.start \in Nat /\ fill.held \in SUBSET Nat
    BY <1>3, RowsHaveLanes DEF FillIInv, FillTypeOK, Fills, Times
  <2>2. TimeOf[r] < fill.top /\ \A h \in fill.held : TimeOf[r] < h
    BY <1>4, <1>5, <2>1
  <2>3. r \in dealt \cup {fill.newest} /\ r # 0
    BY <1>1, <1>3, <1>5, <2>2, RowsAreNumbers DEF FillIInv, LanePart
  <2>4. fill.start \notin fill.held /\ 0 \notin fill.held
    BY <1>4, <1>5, <2>1
  <2> QED BY <1>1, <2>3, <2>4 DEF FillIInv, BackupPart
<1> HIDE DEF resume
<1>6. cur \in Cursors
  BY <1>3, <1>4 DEF Cursors
<1>7. complete \in BOOLEAN
  BY <1>3 DEF Fills
<1>8. /\ \A c : c = cur => /\ c.floor <= now /\ \A k \in Lanes : c.at[k] <= now
                          /\ \A r \in archive : TimeOf[r] < start_at(c, LaneOf[r]) => r \in dealt
  <2>1. Past(fill.cur) /\ Promise(fill.cur)
    BY DEF FillIInv, CursorPart
  <2>2. CASE ~(resume > fill.start)
    BY <2>1, <2>2 DEF Past, Promise
  <2>3. CASE resume > fill.start
    <3>1. /\ cur.floor = fill.cur.floor /\ cur.at[fill.lane] = resume
          /\ \A k \in Lanes : k # fill.lane => cur.at[k] = fill.cur.at[k]
      BY <1>3, <2>3 DEF Cursors
    <3>2. fill.cur.floor \in Nat /\ fill.start \in Nat /\ fill.cur.at[fill.lane] \in Nat
      BY <1>3 DEF Cursors, Times
    <3>3. fill.cur.floor <= fill.start
      BY <1>3, <3>2 DEF start_at
    <3>4. start_at(cur, fill.lane) = resume
      BY <1>4, <2>3, <3>1, <3>2, <3>3 DEF start_at
    <3> HIDE DEF cur
    <3>5. cur.floor <= now /\ \A k \in Lanes : cur.at[k] <= now
      BY <1>4, <2>1, <3>1 DEF Past
    <3>6. ASSUME NEW r \in archive, TimeOf[r] < start_at(cur, LaneOf[r]) PROVE r \in dealt
      <4>1. LaneOf[r] \in Lanes
        BY <1>3, RowsHaveLanes
      <4>2. CASE LaneOf[r] = fill.lane
        BY <1>5, <2>3, <3>4, <3>6, <4>2
      <4>3. CASE LaneOf[r] # fill.lane
        <5>1. start_at(cur, LaneOf[r]) = start_at(fill.cur, LaneOf[r])
          BY <3>1, <4>1, <4>3 DEF start_at
        <5> QED BY <2>1, <3>6, <5>1 DEF Promise
      <4> QED BY <4>2, <4>3
    <3> QED BY <3>5, <3>6
  <2> QED BY <2>2, <2>3
<1>9. complete => fill.complete /\ fill.whole /\ fill.held = {}
  OBVIOUS
<1> HIDE DEF cur, complete
<1>10. fill' \in Fills
  <2>1. /\ fill.phase \in {"stash", "shakes", "comms"} /\ fill.epoch \in Nat /\ fill.todo \in SUBSET Lanes
        /\ fill.skips \in Nat
    BY <1>3 DEF Fills
  <2> QED BY <1>2, <1>3, <1>6, <1>7, <2>1 DEF Fills
<1>11. FillTypeOK'
  BY <1>1, <1>10 DEF FillIInv, FillTypeOK, Leaves
<1>12. /\ fill'.pc = "lane" /\ fill'.cur = cur /\ fill'.due = fill.due /\ fill'.phase = fill.phase
       /\ fill'.todo = fill.todo /\ fill'.complete = complete
  BY <1>2, <1>3 DEF Fills
<1>13. LanePart' /\ BackupPart'
  BY <1>12 DEF LanePart, BackupPart, Walking
<1>14. Past(fill.cur)' /\ Promise(fill.cur)'
  BY <1>1, <1>8, <1>12 DEF Past, Promise, start_at
<1>15. ASSUME fill'.complete, NEW r \in fill'.due PROVE r \in dealt' \/ Waits(r)'
  <2>1. fill.complete /\ fill.whole /\ fill.held = {} /\ r \in Rows /\ (r \in dealt \/ Waits(r))
    BY <1>3, <1>9, <1>12, <1>15 DEF FillIInv, DuePart
  <2>2. r = fill.newest => r \in dealt
    BY <1>1, <2>1, RowsAreNumbers DEF FillIInv, BackupPart
  <2> QED BY <1>1, <1>12, <2>1, <2>2 DEF Waits, Walking
<1> QED BY <1>1, <1>11, <1>12, <1>13, <1>14, <1>15, FillMoves DEF StayActive

\* The cursors of no walk promise nothing.
LEMMA OffPromises ==
  ASSUME FillIInv
  PROVE  /\ Off.cur.floor <= now /\ \A k \in Lanes : Off.cur.at[k] <= now
         /\ \A r \in archive : ~(TimeOf[r] < start_at(Off.cur, LaneOf[r]))
<1>1. now \in Nat /\ \A r \in archive : LaneOf[r] \in Lanes /\ TimeOf[r] \in Nat
  BY RowsHaveLanes, LimitsAreNumbers DEF FillIInv, FillTypeOK, Times
<1>2. Off.cur = [floor |-> 0, at |-> [k \in Lanes |-> 0]]
  BY DEF Off
<1> QED BY <1>1, <1>2 DEF start_at

\* A save puts the walk's promises on disk, or leaves those that are there.
LEMMA SaveKeeps ==
  ASSUME FillIInv, SaveCursors
  PROVE  FillIInv'
<1>1. /\ fill.pc = "save" /\ now' = now /\ archive' = archive /\ dealt' = dealt /\ convs' = convs
      /\ last' = last /\ skips' = skips /\ store' = store /\ blocked' = blocked /\ gone' = gone
      /\ UNCHANGED Leaves
  BY DEF SaveCursors, kept, Leaves
<1>2. faults' \in 0..MaxFaults
  BY HandTypes, FaultCounts DEF SaveCursors
<1>3. CASE fill' = abandon_wiped_walk /\ cursors' = cursors
  BY <1>1, <1>2, <1>3, AbandonKeeps DEF kept
<1>4. CASE fill' = Reported /\ (cursors' = cursors \/ cursors' = fill.cur)
  <2>1. fill \in Fills /\ Off \in Fills
    BY HandTypes, IdleTypes
  <2>2. fill.complete \in BOOLEAN /\ fill.due \in SUBSET Rows /\ fill.skips \in Nat /\ fill.cur \in Cursors
    BY <2>1 DEF Fills
  <2>3. fill' = [Off EXCEPT !.pc = "report", !.complete = fill.complete, !.due = fill.due, !.skips = fill.skips]
    BY <1>4 DEF Reported
  <2>4. fill' \in Fills
    BY <2>1, <2>2, <2>3 DEF Fills
  <2>5. FillTypeOK'
    BY <1>1, <1>2, <1>4, <2>2, <2>4 DEF FillIInv, FillTypeOK, Leaves
  <2>6. /\ fill'.pc = "report" /\ fill'.complete = fill.complete /\ fill'.due = fill.due /\ fill'.cur = Off.cur
    BY <2>1, <2>3 DEF Fills
  <2>7. LanePart' /\ BackupPart'
    BY <2>6 DEF LanePart, BackupPart, Walking
  <2>8. Past(fill.cur)' /\ Promise(fill.cur)'
    BY <1>1, <2>6, OffPromises DEF Past, Promise, start_at
  <2>9. fill'.complete => \A r \in fill'.due : r \in dealt'
    BY <1>1, <2>6 DEF FillIInv, DuePart, Waits, Walking
  <2> QED BY <1>1, <1>4, <2>5, <2>6, <2>7, <2>8, <2>9, FillMoves DEF StayActive
<1> QED BY <1>3, <1>4 DEF SaveCursors, Step

\* A report that reads complete is of a run that dealt with all it was due.
LEMMA ReportKeeps ==
  ASSUME FillIInv, store_fill_report
  PROVE  FillIInv'
<1>1. /\ fill.pc = "report" /\ now' = now /\ archive' = archive /\ dealt' = dealt /\ convs' = convs
      /\ cursors' = cursors /\ skips' = skips /\ store' = store /\ blocked' = blocked /\ gone' = gone
      /\ faults' = faults /\ UNCHANGED Leaves /\ fill' = Off
      /\ last' = IF fill.complete /\ skips = fill.skips
                 THEN [complete |-> TRUE, due |-> fill.due, skips |-> fill.skips] ELSE NoReport
  BY DEF store_fill_report, kept, Leaves, Step
<1>2. fill \in Fills /\ fill.due \in SUBSET Rows /\ fill.skips \in Nat
  BY HandTypes DEF Fills
<1>3. FillTypeOK'
  BY <1>1, <1>2, IdleTypes DEF FillIInv, FillTypeOK, Leaves
<1>4. CompleteMeansAll'
  <2>1. CASE fill.complete /\ skips = fill.skips
    <3>1. fill.due \subseteq dealt
      BY <1>1, <2>1 DEF FillIInv, DuePart, Waits, Walking
    <3> QED BY <1>1, <2>1, <3>1 DEF CompleteMeansAll
  <2>2. CASE ~(fill.complete /\ skips = fill.skips)
    BY <1>1, <2>2 DEF CompleteMeansAll, NoReport
  <2> QED BY <2>1, <2>2
<1> QED BY <1>1, <1>3, <1>4, IdleRun DEF StayActive

\* What a step around the run has to show.  A row that arrives has the clock's time,
\* so it is behind no cursor and no page's top.
LEMMA RunStands ==
  ASSUME FillIInv, FillTypeOK', fill' = fill, now <= now', archive \subseteq archive',
         \A r \in archive' \ archive : TimeOf[r] = now, dealt \subseteq dealt',
         (last' = last /\ skips' = skips) \/ last' = NoReport,
         cursors' = cursors \/ (Past(cursors)' /\ Promise(cursors)'),
         \A r \in fill.due \ dealt' : LaneOf[r] \in Contacts => convs'[LaneOf[r]] = "active"
  PROVE  FillIInv'
<1>1. /\ now \in Nat /\ now' \in Nat /\ fill \in Fills /\ fill.cur \in Cursors /\ fill.top \in Nat
      /\ cursors \in Cursors /\ archive' \subseteq Rows /\ archive \subseteq Rows
  BY DEF FillIInv, FillTypeOK, Fills, Times
<1>2. \A r \in archive' : LaneOf[r] \in Lanes /\ TimeOf[r] \in Nat /\ TimeOf[r] <= now
  BY <1>1, RowsHaveLanes DEF FillIInv, ArchivePart
<1>3. ArchivePart'
  BY <1>1, <1>2 DEF ArchivePart
<1>4. ASSUME NEW c \in Cursors, Past(c), Promise(c)
      PROVE  /\ c.floor <= now' /\ \A k \in Lanes : c.at[k] <= now'
             /\ \A r \in archive' : TimeOf[r] < start_at(c, LaneOf[r]) => r \in dealt'
  <2>1. c.floor \in Nat /\ \A k \in Lanes : c.at[k] \in Nat
    BY DEF Cursors, Times
  <2>2. \A k \in Lanes : start_at(c, k) <= now /\ start_at(c, k) \in Nat
    BY <1>4, <2>1 DEF start_at, Past
  <2>3. \A r \in archive' \ archive : ~(TimeOf[r] < start_at(c, LaneOf[r]))
    BY <1>1, <1>2, <2>2
  <2> QED BY <1>1, <1>4, <2>1, <2>3 DEF Past, Promise
<1>5. Past(fill.cur)' /\ Promise(fill.cur)'
  BY <1>1, <1>4 DEF FillIInv, CursorPart, Past, Promise, start_at
<1>6. Past(cursors)' /\ Promise(cursors)'
  <2>1. CASE cursors' = cursors
    BY <1>1, <1>4, <2>1 DEF FillIInv, CursorPart, Past, Promise, start_at
  <2> QED BY <2>1
<1>7. LanePart'
  <2>1. Walking' => Walking
    BY DEF Walking
  <2>2. ASSUME Walking, NEW r \in archive', LaneOf[r] = fill.lane, TimeOf[r] < fill.top,
               \A h \in fill.held : TimeOf[r] < h
        PROVE  r \in dealt' \cup fill.items \cup {fill.newest}
    <3>1. fill.top <= now
      BY <2>2 DEF FillIInv, LanePart
    <3>2. r \in archive
      BY <1>1, <2>2, <3>1
    <3> QED BY <2>2, <3>2 DEF FillIInv, LanePart
  <2>3. Walking => /\ fill.lane \in Lanes /\ fill.start = start_at(fill.cur, fill.lane) /\ fill.top <= now'
                 /\ fill.items \subseteq archive'
    BY <1>1 DEF FillIInv, LanePart
  <2> QED BY <2>1, <2>2, <2>3 DEF LanePart, start_at
<1>8. BackupPart'
  BY DEF FillIInv, BackupPart
<1>9. DuePart'
  <2>1. \A r : Waits(r) <=> Waits(r)'
    BY DEF Waits, Walking
  <2> QED BY <2>1 DEF FillIInv, DuePart
<1>10. CompleteMeansAll'
  BY DEF FillIInv, CompleteMeansAll, NoReport
<1> QED BY <1>3, <1>5, <1>6, <1>7, <1>8, <1>9, <1>10 DEF FillIInv, CursorPart

\* The threads of rows that are due and not dealt with are active.
LEMMA DueThreads ==
  ASSUME FillIInv, dealt \subseteq dealt', StayActive
  PROVE  \A r \in fill.due \ dealt' : LaneOf[r] \in Contacts => convs'[LaneOf[r]] = "active"
BY DEF FillIInv, DuePart, StayActive

\* A skip takes the report back.
LEMMA SkipKeeps ==
  ASSUME FillIInv, fold_skip
  PROVE  FillIInv'
<1>1. FillTypeOK'
  <2>1. faults' \in 0..MaxFaults
    BY HandTypes, FaultCounts DEF fold_skip
  <2> QED BY <2>1, IdleTypes DEF fold_skip, FillIInv, FillTypeOK, kept
<1>2. now \in Nat
  BY DEF FillIInv, FillTypeOK, Times
<1>3. fill' = fill /\ now' = now /\ archive' = archive /\ dealt' = dealt /\ last' = NoReport
      /\ cursors' = cursors /\ StayActive
  BY DEF fold_skip, kept, StayActive
<1> QED BY <1>1, <1>2, <1>3, RunStands, DueThreads

\* Time, the vault, the indexer, the node's own lane and the user's accept.
LEMMA AroundKeeps ==
  ASSUME FillIInv,
         \/ Tick \/ LockVault \/ UnlockVault
         \/ (\E r \in Rows : Arrives(r) \/ NodeFold(r)) \/ \E c \in Contacts : Accept(c)
  PROVE  FillIInv'
<1>1. now \in 0..MaxTime /\ now \in Nat /\ MaxTime \in Nat
  BY LimitsAreNumbers DEF FillIInv, FillTypeOK, Times
<1>2. CASE Tick
  <2>1. /\ now' = now + 1 /\ fill' = fill /\ archive' = archive /\ dealt' = dealt /\ last' = last
        /\ skips' = skips /\ cursors' = cursors /\ StayActive
    BY <1>2 DEF Tick, kept, StayActive
  <2>2. now' \in Times /\ now <= now'
    BY <1>1, <1>2, <2>1 DEF Tick, Times
  <2>3. FillTypeOK'
    BY <1>2, <2>2 DEF Tick, FillIInv, FillTypeOK, kept
  <2> QED BY <2>1, <2>2, <2>3, RunStands, DueThreads
<1>3. CASE LockVault \/ UnlockVault
  <2>1. /\ now' = now /\ fill' = fill /\ archive' = archive /\ dealt' = dealt /\ last' = last
        /\ skips' = skips /\ cursors' = cursors /\ StayActive
    BY <1>3 DEF LockVault, UnlockVault, kept, StayActive
  <2>2. FillTypeOK'
    <3>1. faults' \in 0..MaxFaults
      BY <1>3, HandTypes, FaultCounts DEF LockVault, UnlockVault
    <3> QED BY <1>3, <3>1 DEF LockVault, UnlockVault, FillIInv, FillTypeOK, kept
  <2> QED BY <1>1, <2>1, <2>2, RunStands, DueThreads
<1>4. ASSUME NEW r \in Rows, Arrives(r) PROVE FillIInv'
  <2>1. /\ now' = now /\ fill' = fill /\ archive' = archive \cup {r} /\ TimeOf[r] = now /\ dealt' = dealt
        /\ last' = last /\ skips' = skips /\ cursors' = cursors /\ StayActive
    BY <1>4 DEF Arrives, kept, StayActive
  <2>2. FillTypeOK'
    BY <1>4 DEF Arrives, FillIInv, FillTypeOK, kept
  <2> QED BY <1>1, <2>1, <2>2, RunStands, DueThreads
<1>5. ASSUME NEW r \in Rows, NodeFold(r) PROVE FillIInv'
  <2>1. /\ now' = now /\ fill' = fill /\ archive' = archive /\ dealt' = dealt
        /\ last' = last /\ skips' = skips /\ cursors' = cursors /\ StayActive
    BY <1>5 DEF NodeFold, StayActive
  <2>2. FillTypeOK'
    BY <1>5 DEF NodeFold, FillIInv, FillTypeOK
  <2> QED BY <1>1, <2>1, <2>2, RunStands, DueThreads
<1>6. ASSUME NEW c \in Contacts, Accept(c) PROVE FillIInv'
  <2>1. /\ now' = now /\ fill' = fill /\ archive' = archive /\ dealt' = dealt
        /\ last' = last /\ skips' = skips /\ cursors' = cursors
        /\ convs' = [convs EXCEPT ![c] = "active"] /\ blocked' \subseteq blocked /\ gone' \subseteq gone
    BY <1>6 DEF Accept
  <2>2. convs' \in [Contacts -> {"none", "invited", "active"}] /\ StayActive
    BY <2>1, HandTypes DEF StayActive
  <2>3. FillTypeOK'
    BY <1>6, <2>1, <2>2 DEF Accept, FillIInv, FillTypeOK
  <2> QED BY <1>1, <2>1, <2>2, <2>3, RunStands, DueThreads
<1> QED BY <1>2, <1>3, <1>4, <1>5, <1>6

\* An erase is sealed by cursors that promise only what was dealt with before or
\* what the erase covers, or by none.
LEMMA SealKeeps ==
  ASSUME FillIInv, NEW at \in Cursors, NEW e \in Erasures, NEW covers \in SUBSET Rows,
         seal_erasure(at, e, covers), UNCHANGED <<kept, gone, Erasing>>, erases' \in 0..MaxErases,
         Past(at), \A r \in archive : TimeOf[r] < start_at(at, LaneOf[r]) => r \in dealt \cup covers
  PROVE  FillIInv'
<1>1. /\ now' = now /\ fill' = fill /\ archive' = archive /\ last' = last /\ skips' = skips /\ StayActive
      /\ now \in Nat
  BY DEF kept, Erasing, StayActive, FillIInv, FillTypeOK, Times
<1>2. /\ erase_epoch' \in Nat /\ erase' \in Erases /\ faults' \in 0..MaxFaults
      /\ \/ cursors' = at /\ dealt' = dealt \cup covers
         \/ cursors' = cursors /\ dealt' = dealt
  <2>1. faults' \in 0..MaxFaults
    BY HandTypes, FaultCounts DEF seal_erasure
  <2>2. [e EXCEPT !.sealed = TRUE] \in Erases /\ e \in Erases
    BY DEF Erases, Erasures
  <2>3. erase_epoch' = erase_epoch + 1 /\ erase_epoch \in Nat
    BY DEF seal_erasure, FillIInv, FillTypeOK
  <2>4. \/ cursors' = at /\ dealt' = dealt \cup covers /\ erase' = [e EXCEPT !.sealed = TRUE]
        \/ cursors' = cursors /\ dealt' = dealt /\ erase' = e
    BY DEF seal_erasure
  <2>5. erase' \in Erases
    BY <2>2, <2>4
  <2>6. erase_epoch' \in Nat
    BY <2>3
  <2> QED BY <2>1, <2>4, <2>5, <2>6
<1>3. FillTypeOK'
  <2>1. cursors' \in Cursors /\ dealt' \subseteq Rows
    BY <1>2, HandTypes DEF FillIInv, FillTypeOK
  <2> QED BY <1>2, <2>1 DEF FillIInv, FillTypeOK, kept, Erasing
<1>4. cursors' = cursors \/ (Past(cursors)' /\ Promise(cursors)')
  BY <1>1, <1>2 DEF Past, Promise, start_at
<1> QED BY <1>1, <1>2, <1>3, <1>4, RunStands, DueThreads

\* The seals of the three erases.
LEMMA ErasesSeal ==
  ASSUME FillIInv,
         transport_wipe_all \/ SealBlock \/ \E c \in Contacts : transport_clear_messages(c)
  PROVE  FillIInv'
<1>1. /\ now \in Times /\ now \in Nat /\ cursors \in Cursors /\ erase \in Erases /\ archive \subseteq Rows
      /\ erases \in 0..MaxErases /\ MaxErases \in Nat /\ 0 \in Times /\ Contacts \subseteq Lanes
      /\ Past(cursors) /\ Promise(cursors)
  BY LimitsAreNumbers, IdleTypes DEF FillIInv, FillTypeOK, CursorPart, Times, Lanes
<1>2. /\ cursors.floor \in Nat /\ cursors.floor <= now
      /\ \A k \in Lanes : cursors.at[k] \in Nat /\ cursors.at[k] \in Times /\ cursors.at[k] <= now
      /\ \A r \in archive : LaneOf[r] \in Lanes /\ TimeOf[r] \in Nat
  BY <1>1, RowsHaveLanes DEF Cursors, Times, Past
<1>3. CASE transport_wipe_all
  <2> DEFINE at == [floor |-> now, at |-> [k \in Lanes |-> IF k \in Contacts THEN 0 ELSE cursors.at[k]]]
             covers == {r \in archive : TimeOf[r] < now}
  <2>1. /\ seal_erasure(at, Sealed("wipe", None), covers) /\ UNCHANGED <<kept, gone, Erasing>>
        /\ erases' \in 0..MaxErases
    BY <1>1, <1>3 DEF transport_wipe_all
  <2>2. at \in Cursors /\ Sealed("wipe", None) \in Erasures /\ covers \in SUBSET Rows
    BY <1>1, <1>2 DEF Cursors, Sealed, Erasures
  <2>3. Past(at)
    BY <1>1, <1>2 DEF Past
  <2>4. \A r \in archive : TimeOf[r] < start_at(at, LaneOf[r]) => r \in covers
    BY <1>1, <1>2 DEF start_at
  <2> HIDE DEF at, covers
  <2> QED BY <2>1, <2>2, <2>3, <2>4, SealKeeps
<1>4. CASE SealBlock
  <2> DEFINE at == [cursors EXCEPT !.at[erase.of] = 0]
             e == [erase EXCEPT !.pc = "rows"]
  <2>1. /\ seal_erasure(at, e, {}) /\ UNCHANGED <<kept, gone, Erasing>> /\ erases' \in 0..MaxErases
    BY <1>1, <1>4 DEF SealBlock
  <2>2. at \in Cursors /\ e \in Erasures
    <3>1. erase \in Erasures
      BY <1>1, <1>4 DEF SealBlock, Erases, NoErase
    <3> QED BY <1>1, <3>1 DEF Cursors, Erasures
  <2>3. at.floor = cursors.floor /\ \A k \in Lanes : at.at[k] \in {0, cursors.at[k]}
    BY <1>1 DEF Cursors
  <2> HIDE DEF at, e
  <2>4. Past(at)
    BY <1>1, <1>2, <2>3 DEF Past
  <2>5. ASSUME NEW r \in archive, TimeOf[r] < start_at(at, LaneOf[r]) PROVE r \in dealt
    <3>1. TimeOf[r] < start_at(cursors, LaneOf[r])
      BY <1>2, <2>3, <2>5 DEF start_at
    <3> QED BY <1>1, <3>1 DEF Promise
  <2> QED BY <2>1, <2>2, <2>4, <2>5, SealKeeps
<1>5. ASSUME NEW c \in Contacts, transport_clear_messages(c) PROVE FillIInv'
  <2> DEFINE at == [cursors EXCEPT !.at[c] = now]
             covers == {r \in archive : LaneOf[r] = c /\ TimeOf[r] < now}
  <2>1. /\ seal_erasure(at, Sealed("clear", c), covers) /\ UNCHANGED <<kept, gone, Erasing>>
        /\ erases' \in 0..MaxErases
    BY <1>1, <1>5 DEF transport_clear_messages
  <2>2. at \in Cursors /\ Sealed("clear", c) \in Erasures /\ covers \in SUBSET Rows
    BY <1>1 DEF Cursors, Sealed, Erasures
  <2>3. at.floor = cursors.floor /\ at.at[c] = now /\ \A k \in Lanes : k # c => at.at[k] = cursors.at[k]
    BY <1>1 DEF Cursors
  <2>4. \A r \in archive : LaneOf[r] = c /\ TimeOf[r] < now => r \in covers
    OBVIOUS
  <2> HIDE DEF at, covers
  <2>5. Past(at)
    BY <1>1, <1>2, <2>3 DEF Past
  <2>6. ASSUME NEW r \in archive, TimeOf[r] < start_at(at, LaneOf[r]) PROVE r \in dealt \cup covers
    <3>1. CASE LaneOf[r] = c
      <4>1. start_at(at, c) <= now /\ start_at(at, c) \in Nat
        BY <1>1, <1>2, <2>3 DEF start_at
      <4> QED BY <1>1, <1>2, <2>4, <2>6, <3>1, <4>1
    <3>2. CASE LaneOf[r] # c
      <4>1. start_at(at, LaneOf[r]) = start_at(cursors, LaneOf[r])
        BY <1>2, <2>3, <3>2 DEF start_at
      <4> QED BY <1>1, <2>6, <4>1 DEF Promise
    <3> QED BY <3>1, <3>2
  <2> QED BY <2>1, <2>2, <2>5, <2>6, SealKeeps
<1> QED BY <1>3, <1>4, <1>5

\* A block is written on the list first.
LEMMA BlockKeeps ==
  ASSUME FillIInv, NEW c \in Contacts, transport_block_conversation(c)
  PROVE  FillIInv'
<1>1. /\ now' = now /\ fill' = fill /\ archive' = archive /\ dealt' = dealt /\ last' = last
      /\ skips' = skips /\ cursors' = cursors /\ StayActive /\ blocked' = blocked \cup {c}
      /\ erase' = [Sealed("block", c) EXCEPT !.pc = "seal"] /\ erases < MaxErases /\ erases' = erases + 1
  BY DEF transport_block_conversation, Erasing, StayActive
<1>2. erases' \in 0..MaxErases /\ now \in Nat
  BY <1>1, LimitsAreNumbers DEF FillIInv, FillTypeOK, Times
<1>3. erase' \in Erases
  <2>1. Sealed("block", c) \in Erasures
    BY DEF FillIInv, FillTypeOK, Sealed, Erasures
  <2> QED BY <1>1, <2>1 DEF Erases, Erasures
<1>4. FillTypeOK'
  BY <1>1, <1>2, <1>3 DEF transport_block_conversation, Erasing, FillIInv, FillTypeOK
<1> QED BY <1>1, <1>2, <1>4, RunStands, DueThreads

\* What a finished erase closes off are rows and contacts.
LEMMA ClosedTypes ==
  ASSUME FillIInv, erase.pc = "rows"
  PROVE  ClosedOff \subseteq Rows \cup Contacts
<1>1. erase \in Erasures /\ store \subseteq Rows
  BY DEF FillIInv, FillTypeOK, Erases, NoErase
<1>2. Covered.rows \subseteq Rows
  <2>1. CASE erase.kind = "wipe"
    BY <1>1, <2>1 DEF Covered
  <2>2. CASE erase.kind = "clear"
    BY <1>1, <2>2 DEF Covered
  <2>3. CASE erase.kind # "wipe" /\ erase.kind # "clear"
    BY <1>1, <2>3 DEF Covered
  <2> QED BY <2>1, <2>2, <2>3
<1>3. ~(erase.kind = "block") /\ erase.sealed => Covered.contacts \subseteq Contacts
  <2>1. CASE erase.kind = "wipe"
    BY <1>1, <2>1 DEF Covered
  <2>2. CASE erase.kind = "clear"
    BY <1>1, <2>2 DEF Covered
  <2> QED BY <1>1, <2>1, <2>2 DEF Erasures
<1> QED BY <1>2, <1>3 DEF ClosedOff

\* The rows of the threads an erase takes away are dealt with.
LEMMA EraseKeeps ==
  ASSUME FillIInv, EraseRows
  PROVE  FillIInv'
<1> DEFINE left == [c \in Contacts |-> IF c \in Covered.contacts THEN "none" ELSE convs[c]]
           over == {r \in archive : LaneOf[r] \in Covered.contacts}
<1>1. /\ now' = now /\ fill' = fill /\ archive' = archive /\ last' = last /\ skips' = skips
      /\ cursors' = cursors /\ erase' = NoErase
  BY DEF EraseRows, Erasing
<1>0. erase.pc = "rows"
  BY DEF EraseRows
<1>2. /\ store' \subseteq store
      /\ \/ convs' = left /\ dealt' = dealt \cup over
         \/ convs' = convs /\ dealt' = dealt
      /\ gone' = gone \/ gone' = gone \cup ClosedOff
      /\ faults' = faults \/ Fault
  BY DEF EraseRows
<1>3. left \in [Contacts -> {"none", "invited", "active"}] /\ over \subseteq Rows
  BY HandTypes
<1>4. FillTypeOK'
  <2>1. faults' \in 0..MaxFaults
    BY <1>2, HandTypes, FaultCounts
  <2>2. convs' \in [Contacts -> {"none", "invited", "active"}] /\ dealt' \subseteq Rows /\ store' \subseteq Rows
    BY <1>2, <1>3, HandTypes
  <2>3. gone' \subseteq Rows \cup Contacts
    BY <1>0, <1>2, ClosedTypes DEF FillIInv, FillTypeOK
  <2> QED BY <1>1, <2>1, <2>2, <2>3, IdleTypes DEF EraseRows, Erasing, FillIInv, FillTypeOK
<1>5. \A r \in fill.due \ dealt' : LaneOf[r] \in Contacts => convs'[LaneOf[r]] = "active"
  <2>1. fill.due \subseteq archive /\ \A r \in fill.due \ dealt : LaneOf[r] \in Contacts => convs[LaneOf[r]] = "active"
    BY DEF FillIInv, DuePart
  <2> QED BY <1>2, <2>1
<1>6. now \in Nat
  BY DEF FillIInv, FillTypeOK, Times
<1> QED BY <1>1, <1>2, <1>4, <1>5, <1>6, RunStands

\* A death takes the run with it; what is on disk stays as it was.
LEMMA DiesKeeps ==
  ASSUME FillIInv, FillDies
  PROVE  FillIInv'
<1>1. FillTypeOK'
  <2>1. faults' \in 0..MaxFaults
    BY HandTypes, FaultCounts DEF FillDies
  <2> QED BY <2>1, IdleTypes DEF FillDies, FillIInv, FillTypeOK, kept
<1> QED BY <1>1, IdleRun DEF FillDies, StayActive, kept

\* The invariant holds at first.
LEMMA FillStarts ==
  ASSUME FillInit
  PROVE  FillIInv
<1>1. 0 \in 0..MaxRuns /\ 0 \in 0..MaxErases /\ 0 \in 0..MaxFaults /\ 0 \in Times
  BY LimitsAreNumbers DEF Times
<1>2. [floor |-> 0, at |-> [k \in Lanes |-> 0]] \in Cursors
  BY <1>1 DEF Cursors
<1>3. convs \in [Contacts -> {"none", "invited", "active"}]
  BY DEF FillInit
<1>4. FillTypeOK
  BY <1>1, <1>2, <1>3, IdleTypes DEF FillInit, FillTypeOK
<1>5. /\ Off.pc = "off" /\ Off.cur = [floor |-> 0, at |-> [k \in Lanes |-> 0]] /\ Off.due = {}
  BY DEF Off
<1>6. \A r \in archive : LaneOf[r] \in Lanes /\ TimeOf[r] = 0
  BY RowsHaveLanes DEF FillInit
<1>7. ArchivePart
  BY <1>6 DEF FillInit, ArchivePart
<1>8. CursorPart
  BY <1>5, <1>6 DEF FillInit, CursorPart, Past, Promise, start_at
<1>9. LanePart /\ BackupPart
  BY <1>5 DEF FillInit, LanePart, BackupPart, Walking
<1>10. DuePart /\ CompleteMeansAll
  BY <1>5 DEF FillInit, DuePart, CompleteMeansAll, NoReport
<1> QED BY <1>4, <1>7, <1>8, <1>9, <1>10 DEF FillIInv

\* Every step keeps it.
LEMMA FillStepKeeps ==
  ASSUME FillIInv, [FillNext]_fill_vars
  PROVE  FillIInv'
<1>1. CASE Filling
  BY <1>1, StartKeeps, RefuseKeeps, BeginKeeps, StopKeeps, PhaseKeeps, WalkKeeps, OpenKeeps, TakeKeeps,
     RestoreKeeps, ProvedKeeps, RefoldKeeps, NextKeeps, InboundKeeps, CommKeeps, HandshakeKeeps,
     EndKeeps, SaveKeeps, ReportKeeps DEF Filling
<1>2. CASE UserErases
  BY <1>2, ErasesSeal, EraseKeeps, BlockKeeps DEF UserErases
<1>3. CASE fold_skip \/ FillDies
  BY <1>3, SkipKeeps, DiesKeeps
<1>4. CASE \/ Tick \/ LockVault \/ UnlockVault
           \/ (\E r \in Rows : Arrives(r) \/ NodeFold(r)) \/ \E c \in Contacts : Accept(c)
  BY <1>4, AroundKeeps
<1>5. CASE UNCHANGED fill_vars
  BY <1>5 DEF fill_vars, FillIInv, FillTypeOK, ArchivePart, CursorPart, LanePart, BackupPart, DuePart,
     CompleteMeansAll, Walking, Waits, Past, Promise, start_at
<1> QED BY <1>1, <1>2, <1>3, <1>4, <1>5 DEF FillNext

\* A lane's own position is one of the promises of its start.
LEMMA StartsPromise ==
  ASSUME FillIInv
  PROVE  FillInv
<1>1. FillTypeOK /\ CompleteMeansAll /\ Promise(cursors) /\ archive \subseteq Rows /\ cursors \in Cursors
  BY DEF FillIInv, CursorPart, FillTypeOK
<1>2. CursorPromise
  <2> SUFFICES ASSUME NEW r \in archive, TimeOf[r] < cursors.at[LaneOf[r]] PROVE r \in dealt
    BY DEF CursorPromise
  <2>1. LaneOf[r] \in Lanes /\ TimeOf[r] \in Nat
    BY <1>1, RowsHaveLanes
  <2>2. cursors.floor \in Nat /\ cursors.at[LaneOf[r]] \in Nat
    BY <1>1, <2>1 DEF Cursors, Times
  <2>3. TimeOf[r] < start_at(cursors, LaneOf[r])
    BY <2>1, <2>2 DEF start_at
  <2> QED BY <1>1, <2>3 DEF Promise
<1> QED BY <1>1, <1>2 DEF FillInv

\* Whatever lock, failed write, cut walk, erase or death falls into a catch-up, no
\* position it saved passes a row nobody dealt with, and no run reads complete that
\* left out a row the archive had for it: what resume_from, walk_pages' end, the
\* checks of ERASE_EPOCH and store_fill_report's look at the skips are for.
THEOREM FillKeepsItsPromises == FillSpec => []FillInv
<1>1. FillInit => FillIInv
  BY FillStarts
<1>2. FillIInv /\ [FillNext]_fill_vars => FillIInv'
  BY FillStepKeeps
<1>3. FillIInv => FillInv
  BY StartsPromise
<1> QED BY <1>1, <1>2, <1>3, PTL DEF FillSpec

---------------------------------------------------------------------------
(***************************************************************************)
(* What the user erased.                                                   *)
(***************************************************************************)

\* Threads that a backup still lists which no floor keeps out.
Backed == {c \in Contacts : \E r \in archive : LaneOf[r] = Owner /\ c \in About[r] /\ cursors.floor <= TimeOf[r]}

\* What is back, or has a way back that the erases left open.
Open == store \cup Active \cup Backed
Back == gone \cap Open

\* What the run may still write without another look at the generation.
Stray ==
  CASE fill.pc = "look"   -> {r \in {Row} : LaneOf[r] \notin blocked}
    [] fill.pc = "record" -> {Row}
    [] fill.pc = "refold" -> fill.pay
    [] OTHER              -> {}
MayReturn == \E x \in Stray : x \in gone \ Open

\* Each erase that is done answers for one thing that came back, or that the run
\* overtaken by it may bring back; the one under way for none.
One(b) == IF b THEN 1 ELSE 0
CountPart == Cardinality(Back) + One(MayReturn) + One(erase.pc # "off") <= erases

\* A run that is not overtaken walks from cursors no lower than the ones on disk.
SyncPart ==
  /\ fill.epoch <= erase_epoch
  /\ (fill.pc \in {"lane", "save"} \/ Walking) /\ ~Wiped =>
       fill.cur.floor = cursors.floor /\ \A k \in Lanes : cursors.at[k] <= fill.cur.at[k]

\* What a walk has in its hands is of its lane and from its start on; the backup
\* it restores lists threads no floor keeps out.
HandPart ==
  /\ (fill.pc = "lane" \/ Walking) /\ fill.phase = "stash" => fill.todo \subseteq {Owner}
  /\ Walking =>
       /\ \A r \in fill.items : fill.start <= TimeOf[r] /\ LaneOf[r] = fill.lane
       /\ fill.pc = "open" => /\ fill.lane = Owner
                              /\ fill.newest # 0 => /\ fill.newest \in archive /\ LaneOf[fill.newest] = Owner
                                                    /\ fill.start <= TimeOf[fill.newest]
       /\ fill.pc \in {"restore", "refold"} /\ ~Wiped => fill.pay \subseteq Backed

\* A row that is gone is behind its lane's start, or its sender is blocked.
GonePart == \A r \in gone \cap Rows : LaneOf[r] \in blocked \/ TimeOf[r] < start_at(cursors, LaneOf[r])

\* The erase under way: whom it blocks is active and blocked; what it sealed stands.
ErasePart ==
  erase.pc # "off" =>
    /\ erase.pc = "seal" => erase.kind = "block"
    /\ erase.kind # "wipe" => erase.of \in Contacts
    /\ erase.kind = "block" => erase.of \in blocked /\ convs[erase.of] = "active"
    /\ erase.kind = "wipe" /\ erase.sealed => erase.floor <= cursors.floor
    /\ erase.kind = "clear" /\ erase.sealed => erase.floor <= cursors.at[erase.of]

ErasedIInv == CountPart /\ SyncPart /\ HandPart /\ GonePart /\ ErasePart

\* Sets of rows and contacts are finite.
LEMMA NamesAreFinite ==
  ASSUME NEW S \in SUBSET (Rows \cup Contacts)
  PROVE  IsFiniteSet(S) /\ Cardinality(S) \in Nat
BY RowsAreNumbers, ContactsAreNames, FS_Union, FS_Subset, FS_CardinalityType

LEMMA BackIsFinite ==
  ASSUME FillIInv
  PROVE  Back \in SUBSET (Rows \cup Contacts) /\ IsFiniteSet(Back) /\ Cardinality(Back) \in Nat /\ erases \in Nat
<1>1. Back \in SUBSET (Rows \cup Contacts)
  BY DEF Back, FillIInv, FillTypeOK
<1>2. erases \in Nat
  BY LimitsAreNumbers DEF FillIInv, FillTypeOK
<1> QED BY <1>1, <1>2, NamesAreFinite

\* Nothing more is back or may come back: the count holds, and a new erase adds to
\* what it allows.
LEMMA CountHolds ==
  ASSUME FillIInv, CountPart, Back' \subseteq Back, MayReturn' => MayReturn \/ Back' # Back,
         \/ erases' = erases /\ (erase'.pc # "off" => erase.pc # "off")
         \/ erases' = erases + 1
  PROVE  CountPart'
<1>1. IsFiniteSet(Back) /\ Cardinality(Back) \in Nat /\ Cardinality(Back') \in Nat /\ erases \in Nat
  BY BackIsFinite, NamesAreFinite
<1>2. Cardinality(Back') <= Cardinality(Back) /\ (Back' # Back => Cardinality(Back') # Cardinality(Back))
  BY <1>1, FS_Subset
<1>3. Cardinality(Back') + One(MayReturn') <= Cardinality(Back) + One(MayReturn)
  BY <1>1, <1>2 DEF One
<1>4. One(erase'.pc # "off") - erases' <= One(erase.pc # "off") - erases
  BY <1>1 DEF One
<1>5. One(MayReturn') \in Nat /\ One(MayReturn) \in Nat /\ One(erase.pc # "off") \in Nat /\ One(erase'.pc # "off") \in Nat
      /\ erases' \in Nat
  BY <1>1 DEF One
<1> HIDE DEF One
<1>6. Cardinality(Back') + One(MayReturn') + One(erase'.pc # "off") <= erases'
  BY <1>1, <1>3, <1>4, <1>5 DEF CountPart
<1> QED BY <1>6 DEF CountPart, One

\* What the run could bring back it has brought back.
LEMMA CountRealized ==
  ASSUME FillIInv, CountPart, NEW x, Back' \subseteq Back \cup {x}, x \in Back' => x \in Back \/ MayReturn,
         ~MayReturn', erases' = erases, erase' = erase
  PROVE  CountPart'
<1>1. IsFiniteSet(Back) /\ Cardinality(Back) \in Nat /\ erases \in Nat
  BY BackIsFinite
<1>2. CASE Back' \subseteq Back
  BY <1>2, CountHolds
<1>3. CASE ~(Back' \subseteq Back)
  <2>1. x \in Back' /\ x \notin Back /\ MayReturn
    BY <1>3
  <2>2. IsFiniteSet(Back \cup {x}) /\ Cardinality(Back \cup {x}) = Cardinality(Back) + 1
    BY <1>1, <2>1, FS_AddElement
  <2>3. Cardinality(Back') <= Cardinality(Back) + 1 /\ Cardinality(Back') \in Nat
    BY <2>2, FS_Subset, FS_CardinalityType
  <2>4. Cardinality(Back) + 1 + One(erase.pc # "off") <= erases
    BY <2>1 DEF CountPart, One
  <2> QED BY <1>1, <2>3, <2>4 DEF CountPart, One
<1> QED BY <1>2, <1>3

\* An erase is done: it answers for what the run may bring back.
LEMMA CountReleased ==
  ASSUME FillIInv, CountPart, Back' \subseteq Back, erase.pc # "off", erase'.pc = "off", erases' = erases
  PROVE  CountPart'
<1>1. IsFiniteSet(Back) /\ Cardinality(Back) \in Nat /\ erases \in Nat
  BY BackIsFinite
<1>2. Cardinality(Back') <= Cardinality(Back) /\ Cardinality(Back') \in Nat
  BY <1>1, FS_Subset, FS_CardinalityType
<1>3. Cardinality(Back) + One(MayReturn) + 1 <= erases
  BY DEF CountPart, One
<1> QED BY <1>1, <1>2, <1>3 DEF CountPart, One

\* A run nobody overtook starts a lane no lower than the cursors on disk do.
LEMMA StartsInStep ==
  ASSUME FillIInv, SyncPart, Walking, ~Wiped
  PROVE  /\ start_at(cursors, fill.lane) <= fill.start /\ cursors.floor <= fill.start
         /\ fill.start \in Nat /\ cursors.floor \in Nat /\ fill.lane \in Lanes
<1>1. /\ fill.cur.floor = cursors.floor /\ \A k \in Lanes : cursors.at[k] <= fill.cur.at[k]
      /\ fill.lane \in Lanes /\ fill.start = start_at(fill.cur, fill.lane)
  BY DEF SyncPart, FillIInv, LanePart
<1>2. /\ cursors.floor \in Nat /\ cursors.at[fill.lane] \in Nat /\ fill.cur.at[fill.lane] \in Nat
      /\ cursors.at[fill.lane] <= fill.cur.at[fill.lane]
  BY <1>1 DEF FillIInv, FillTypeOK, Fills, Cursors, Times
<1> QED BY <1>1, <1>2 DEF start_at

\* A step of the run that writes nothing.
LEMMA RunWritesNothing ==
  ASSUME FillIInv, ErasedIInv, UNCHANGED <<archive, kept, cursors, erase_epoch, erase, gone, erases>>,
         fill'.pc \notin {"look", "record", "refold"} \/ (MayReturn' => MayReturn), SyncPart', HandPart'
  PROVE  ErasedIInv'
<1>1. Back' = Back
  BY DEF Back, Open, Active, Backed, kept
<1>2. MayReturn' => MayReturn
  BY DEF MayReturn, Stray
<1>3. CountPart'
  BY <1>1, <1>2, CountHolds DEF ErasedIInv
<1>4. GonePart' /\ ErasePart'
  BY DEF ErasedIInv, GonePart, ErasePart, start_at, kept
<1> QED BY <1>3, <1>4 DEF ErasedIInv

\* A run that is in no lane has nothing in its hands.
LEMMA RunRests ==
  ASSUME fill'.pc \in {"off", "begin", "report"}, fill'.epoch = 0, erase_epoch' \in Nat
  PROVE  SyncPart' /\ HandPart'
BY DEF SyncPart, HandPart, Walking

LEMMA RestTypes ==
  /\ Off.pc = "off" /\ Off.epoch = 0
  /\ abandon_wiped_walk.pc = "report" /\ abandon_wiped_walk.epoch = 0
BY DEF Off, abandon_wiped_walk

\* A run starts, is refused, gives up or reports.
LEMMA EndsOfRuns ==
  ASSUME FillIInv, ErasedIInv,
         UNCHANGED <<archive, kept, cursors, erase_epoch, erase, gone, erases>>,
         fill'.pc \in {"off", "begin", "report"}, fill'.epoch = 0
  PROVE  ErasedIInv'
BY RunRests, RunWritesNothing DEF FillIInv, FillTypeOK

LEMMA StartErases ==
  ASSUME FillIInv, ErasedIInv, run_fill \/ RefuseLocked \/ store_fill_report
  PROVE  ErasedIInv'
<1>1. CASE RefuseLocked
  <2>1. UNCHANGED <<archive, kept, cursors, erase_epoch, erase, gone, erases, fill>>
    BY <1>1 DEF RefuseLocked, Leaves
  <2>2. SyncPart' /\ HandPart' /\ (MayReturn' => MayReturn)
    BY <2>1 DEF ErasedIInv, SyncPart, HandPart, Walking, Wiped, Backed, MayReturn, Stray, Row, Open, Active, kept
  <2> QED BY <2>1, <2>2, RunWritesNothing
<1>2. CASE run_fill
  <2>1. UNCHANGED <<archive, kept, cursors, erase_epoch, erase, gone, erases>>
    BY <1>2 DEF run_fill
  <2>2. fill'.pc = "begin" /\ fill'.epoch = 0
    BY <1>2 DEF run_fill, Step, Off
  <2> QED BY <2>1, <2>2, EndsOfRuns
<1>3. CASE store_fill_report
  <2>1. UNCHANGED <<archive, kept, cursors, erase_epoch, erase, gone, erases>>
    BY <1>3 DEF store_fill_report, Leaves
  <2>2. fill' = Off
    BY <1>3 DEF store_fill_report, Step
  <2> QED BY <2>1, <2>2, RestTypes, EndsOfRuns
<1> QED BY <1>1, <1>2, <1>3

LEMMA BeginErases ==
  ASSUME FillIInv, ErasedIInv, gated_walk_start
  PROVE  ErasedIInv'
<1>1. UNCHANGED <<archive, kept, cursors, erase_epoch, erase, gone, erases>>
  BY DEF gated_walk_start, Leaves
<1>2. fill'.pc = "lane" /\ fill'.epoch = erase_epoch /\ fill'.cur = cursors /\ fill'.todo = {Owner}
  <2>1. fill \in Fills
    BY HandTypes
  <2> QED BY <2>1 DEF gated_walk_start, Step, Fills
<1>3. SyncPart'
  <2>1. erase_epoch \in Nat /\ \A k \in Lanes : cursors.at[k] \in Nat
    BY DEF FillIInv, FillTypeOK, Cursors, Times
  <2> QED BY <1>1, <1>2, <2>1 DEF SyncPart
<1>4. HandPart'
  BY <1>2 DEF HandPart, Walking
<1> QED BY <1>1, <1>2, <1>3, <1>4, RunWritesNothing

\* Between two lanes.
LEMMA LaneToLane ==
  ASSUME FillIInv, ErasedIInv, UNCHANGED <<archive, kept, cursors, erase_epoch, erase, gone, erases>>,
         fill.pc \in {"lane", "save"} \/ Walking, fill'.pc \in {"lane", "save"}, fill'.epoch = fill.epoch,
         fill'.cur.floor = fill.cur.floor /\ \A k \in Lanes : fill.cur.at[k] <= fill'.cur.at[k],
         fill'.cur \in Cursors,
         fill'.pc = "lane" /\ fill'.phase = "stash" => fill'.todo \subseteq {Owner}
  PROVE  ErasedIInv'
<1>1. SyncPart'
  <2> SUFFICES ASSUME ~Wiped'
               PROVE  fill'.cur.floor = cursors'.floor /\ \A k \in Lanes : cursors'.at[k] <= fill'.cur.at[k]
    BY DEF ErasedIInv, SyncPart
  <2>1. fill.cur.floor = cursors.floor /\ \A k \in Lanes : cursors.at[k] <= fill.cur.at[k]
    BY DEF ErasedIInv, SyncPart, Wiped
  <2>2. \A k \in Lanes : cursors.at[k] \in Nat /\ fill.cur.at[k] \in Nat /\ fill'.cur.at[k] \in Nat
    BY DEF FillIInv, FillTypeOK, Fills, Cursors, Times
  <2> QED BY <2>1, <2>2
<1>2. HandPart'
  BY DEF HandPart, Walking
<1> QED BY <1>1, <1>2, RunWritesNothing

LEMMA StopErases ==
  ASSUME FillIInv, ErasedIInv, StopLocked
  PROVE  ErasedIInv'
<1>1. UNCHANGED <<archive, kept, cursors, erase_epoch, erase, gone, erases>> /\ fill.pc = "lane"
  BY DEF StopLocked, Leaves
<1>2. /\ fill'.pc = "lane" /\ fill'.epoch = fill.epoch /\ fill'.cur = fill.cur /\ fill'.todo = {}
      /\ fill.cur \in Cursors
  <2>1. fill \in Fills
    BY HandTypes
  <2> QED BY <2>1 DEF StopLocked, Step, Fills
<1>3. \A k \in Lanes : fill.cur.at[k] \in Nat
  BY <1>2 DEF Cursors, Times
<1> QED BY <1>1, <1>2, <1>3, LaneToLane

LEMMA PhaseErases ==
  ASSUME FillIInv, ErasedIInv, NextPhase
  PROVE  ErasedIInv'
<1>1. UNCHANGED <<archive, kept, cursors, erase_epoch, erase, gone, erases>> /\ fill.pc = "lane"
  BY DEF NextPhase, Leaves
<1>2. fill \in Fills /\ fill.cur \in Cursors /\ \A k \in Lanes : fill.cur.at[k] \in Nat
  BY HandTypes DEF Fills, Cursors, Times
<1>3. \/ fill' = [fill EXCEPT !.phase = "shakes", !.todo = Addresses]
      \/ fill' = [Off EXCEPT !.pc = "report", !.complete = FALSE]
      \/ fill' = [fill EXCEPT !.phase = "comms", !.todo = Active]
      \/ fill' = [fill EXCEPT !.pc = "save", !.phase = "stash"]
  <2>1. CASE fill.phase = "stash"
    BY <2>1 DEF NextPhase, Step
  <2>2. CASE fill.phase = "shakes"
    BY <2>2 DEF NextPhase, Step
  <2>3. CASE fill.phase \notin {"stash", "shakes"}
    BY <2>3 DEF NextPhase, Step
  <2> QED BY <2>1, <2>2, <2>3
<1>4. CASE fill' = [Off EXCEPT !.pc = "report", !.complete = FALSE]
  <2>1. fill'.pc = "report" /\ fill'.epoch = 0
    BY <1>4 DEF Off
  <2> QED BY <1>1, <2>1, EndsOfRuns
<1>5. CASE fill' # [Off EXCEPT !.pc = "report", !.complete = FALSE]
  <2>1. /\ fill'.pc \in {"lane", "save"} /\ fill'.epoch = fill.epoch /\ fill'.cur = fill.cur
        /\ (fill'.pc = "lane" => fill'.phase # "stash")
    BY <1>1, <1>2, <1>3, <1>5 DEF Fills
  <2> QED BY <1>1, <1>2, <2>1, LaneToLane
<1> QED BY <1>4, <1>5

LEMMA LaneEndErases ==
  ASSUME FillIInv, FillIInv', ErasedIInv, LaneEnd
  PROVE  ErasedIInv'
<1>1. UNCHANGED <<archive, kept, cursors, erase_epoch, erase, gone, erases>> /\ fill.pc = "next" /\ Walking
  BY DEF LaneEnd, Leaves, Walking
<1> DEFINE resume == resume_from(fill)
<1>2. /\ fill'.pc = "lane" /\ fill'.epoch = fill.epoch /\ fill'.todo = fill.todo /\ fill'.phase = fill.phase
      /\ fill'.cur = IF resume > fill.start THEN [fill.cur EXCEPT !.at[fill.lane] = resume] ELSE fill.cur
  BY DEF LaneEnd, Step, Off
<1>3. /\ fill.cur \in Cursors /\ fill'.cur \in Cursors /\ fill.lane \in Lanes
      /\ fill.start = start_at(fill.cur, fill.lane)
  BY <1>1 DEF FillIInv, FillTypeOK, Fills, LanePart
<1>4. resume \in Nat
  BY <1>1, ResumeFrom DEF Times
<1> HIDE DEF resume
<1>5. fill'.cur.floor = fill.cur.floor /\ \A k \in Lanes : fill.cur.at[k] <= fill'.cur.at[k]
  <2>1. \A k \in Lanes : fill.cur.at[k] \in Nat /\ fill'.cur.at[k] \in Nat
    BY <1>3 DEF Cursors, Times
  <2>2. fill.cur.floor \in Nat
    BY <1>3 DEF Cursors, Times
  <2>3. CASE resume > fill.start
    <3>1. fill'.cur = [fill.cur EXCEPT !.at[fill.lane] = resume]
      BY <1>2, <2>3
    <3>2. fill.cur.at[fill.lane] <= resume
      BY <1>3, <1>4, <2>1, <2>2, <2>3 DEF start_at
    <3>3. fill'.cur.floor = fill.cur.floor
      BY <1>3, <3>1 DEF Cursors
    <3>4. \A k \in Lanes : fill'.cur.at[k] = IF k = fill.lane THEN resume ELSE fill.cur.at[k]
      BY <1>3, <3>1 DEF Cursors
    <3> QED BY <1>4, <2>1, <3>2, <3>3, <3>4
  <2>4. CASE ~(resume > fill.start)
    BY <1>2, <2>1, <2>4
  <2> QED BY <2>3, <2>4
<1>6. fill'.phase = "stash" => fill'.todo \subseteq {Owner}
  BY <1>1, <1>2 DEF ErasedIInv, HandPart
<1> QED BY <1>1, <1>2, <1>3, <1>5, <1>6, LaneToLane

\* A step of a walk in its lane.
LEMMA HandsStay ==
  ASSUME ErasedIInv, Walking, Walking', UNCHANGED <<archive, cursors, erase_epoch>>,
         fill'.epoch = fill.epoch, fill'.cur = fill.cur, fill'.lane = fill.lane, fill'.start = fill.start,
         fill'.phase = fill.phase, fill'.todo = fill.todo, fill'.items \subseteq fill.items,
         fill'.pc = "open" => /\ fill.pc = "open"
                              /\ fill'.newest # 0 => /\ fill'.newest \in archive /\ LaneOf[fill'.newest] = Owner
                                                     /\ fill.start <= TimeOf[fill'.newest],
         fill'.pc \in {"restore", "refold"} /\ ~Wiped => fill'.pay \subseteq Backed
  PROVE  SyncPart' /\ HandPart'
<1>1. Backed' = Backed /\ (Wiped' <=> Wiped)
  BY DEF Backed, Wiped
<1>2. SyncPart'
  BY <1>1 DEF ErasedIInv, SyncPart
<1>3. HandPart'
  BY <1>1 DEF ErasedIInv, HandPart
<1> QED BY <1>2, <1>3

LEMMA WalkErases ==
  ASSUME FillIInv, ErasedIInv, NEW k \in Lanes, WalkLane(k)
  PROVE  ErasedIInv'
<1> DEFINE from == start_at(fill.cur, k)
           pc == IF fill.phase = "stash" THEN "open" ELSE "next"
           todo == fill.todo \ {k}
<1>1. UNCHANGED <<archive, kept, cursors, erase_epoch, erase, gone, erases>> /\ fill.pc = "lane" /\ k \in fill.todo
  BY DEF WalkLane, Leaves
<1>2. PICK n \in 0..PageBudget :
        fill' = [fill EXCEPT !.pc = pc, !.todo = todo, !.lane = k, !.start = from,
                   !.items = AfterPages(k, from)[n].items, !.top = AfterPages(k, from)[n].top,
                   !.whole = AfterPages(k, from)[n].whole, !.held = {}, !.newest = 0, !.pay = {}]
  BY DEF WalkLane, Step
<1> DEFINE w == AfterPages(k, from)[n]
<1>3. fill \in Fills /\ fill.cur \in Cursors
  BY HandTypes DEF Fills
<1>4. from \in Times /\ from <= now
  BY <1>3 DEF Cursors, start_at, FillIInv, CursorPart, Past
<1>5. \A r \in w.items : LaneOf[r] = k /\ from <= TimeOf[r]
  BY <1>4, WalksFetch DEF FillIInv, Paged
<1> HIDE DEF w
<1>6. fill' = [fill EXCEPT !.pc = pc, !.todo = todo, !.lane = k, !.start = from, !.items = w.items,
                 !.top = w.top, !.whole = w.whole, !.held = {}, !.newest = 0, !.pay = {}]
  BY <1>2 DEF w
<1>7. /\ pc \in {"open", "next"} /\ (pc = "open" => fill.phase = "stash") /\ todo \subseteq fill.todo
      /\ (fill.phase = "stash" => k = Owner)
  BY <1>1 DEF ErasedIInv, HandPart
<1> HIDE DEF from, pc, todo
<1>8. /\ fill'.pc = pc /\ fill'.todo = todo /\ fill'.lane = k /\ fill'.start = from /\ fill'.items = w.items
      /\ fill'.newest = 0 /\ fill'.cur = fill.cur /\ fill'.phase = fill.phase /\ fill'.epoch = fill.epoch
  BY <1>3, <1>6 DEF Fills
<1>9. SyncPart'
  BY <1>1, <1>8 DEF ErasedIInv, SyncPart, Wiped
<1>10. HandPart'
  <2>1. fill'.phase = "stash" => fill'.todo \subseteq {Owner}
    BY <1>1, <1>7, <1>8 DEF ErasedIInv, HandPart
  <2> QED BY <1>5, <1>7, <1>8, <2>1 DEF HandPart
<1> QED BY <1>1, <1>7, <1>8, <1>9, <1>10, RunWritesNothing

LEMMA OpenErases ==
  ASSUME FillIInv, ErasedIInv, OpenBackup
  PROVE  ErasedIInv'
<1>1. UNCHANGED <<archive, kept, cursors, erase_epoch, erase, gone, erases>> /\ fill.pc = "open" /\ fill.items # {} /\ Walking
  BY DEF OpenBackup, Leaves, Walking
<1> DEFINE r == Row
<1>2. r \in fill.items /\ fill.items \subseteq archive
  BY <1>1, RowAtHand DEF FillIInv, LanePart
<1>3. \/ fill' = [fill EXCEPT !.items = @ \ {r}, !.held = @ \cup {TimeOf[r]}]
      \/ fill' = [fill EXCEPT !.items = @ \ {r}]
      \/ fill' = [fill EXCEPT !.items = @ \ {r}, !.newest = r]
  <2>1. \A f, g : [[fill EXCEPT !.items = f] EXCEPT !.held = g] = [fill EXCEPT !.items = f, !.held = g]
    OBVIOUS
  <2> QED BY DEF OpenBackup, Step, Row
<1> HIDE DEF r
<1>4. /\ fill'.pc = "open" /\ fill'.epoch = fill.epoch /\ fill'.cur = fill.cur /\ fill'.lane = fill.lane
      /\ fill'.start = fill.start /\ fill'.phase = fill.phase /\ fill'.todo = fill.todo
      /\ fill'.items \subseteq fill.items /\ fill'.newest \in {fill.newest, r}
  <2>1. fill \in Fills
    BY HandTypes
  <2> QED BY <1>1, <1>3, <2>1 DEF Fills
<1>5. fill'.newest # 0 => /\ fill'.newest \in archive /\ LaneOf[fill'.newest] = Owner
                          /\ fill.start <= TimeOf[fill'.newest]
  BY <1>1, <1>2, <1>4 DEF ErasedIInv, HandPart
<1>6. Walking'
  BY <1>4 DEF Walking
<1>7. SyncPart' /\ HandPart'
  BY <1>1, <1>4, <1>5, <1>6, HandsStay
<1> QED BY <1>1, <1>4, <1>7, RunWritesNothing

LEMMA TakeErases ==
  ASSUME FillIInv, ErasedIInv, TakeNewest
  PROVE  ErasedIInv'
<1>1. UNCHANGED <<archive, kept, cursors, erase_epoch, erase, gone, erases>> /\ fill.pc = "open" /\ Walking
  BY DEF TakeNewest, Leaves, Walking
<1> DEFINE held == fill.held \cup {fill.start}
           pay == About[fill.newest]
<1>2. \/ fill' = abandon_wiped_walk
      \/ fill' = [fill EXCEPT !.pc = "prove"]
      \/ fill' = [fill EXCEPT !.pc = "prove", !.held = held]
      \/ fill.newest # 0 /\ fill' = [fill EXCEPT !.pc = "restore", !.pay = pay]
  <2>1. CASE fill.newest = 0
    BY <2>1 DEF TakeNewest, Step
  <2>2. CASE fill.newest # 0 /\ ~fill.whole
    BY <2>2 DEF TakeNewest, Step
  <2>3. CASE fill.newest # 0 /\ fill.whole
    BY <2>3 DEF TakeNewest, Step
  <2> QED BY <2>1, <2>2, <2>3
<1>3. fill.newest # 0 /\ ~Wiped => pay \subseteq Backed
  <2> SUFFICES ASSUME fill.newest # 0, ~Wiped, NEW c \in pay
               PROVE  c \in Backed
    OBVIOUS
  <2>1. fill.newest \in archive /\ LaneOf[fill.newest] = Owner /\ fill.start <= TimeOf[fill.newest]
    BY <1>1 DEF ErasedIInv, HandPart
  <2>2. c \in Contacts /\ TimeOf[fill.newest] \in Nat
    BY <2>1, RowsHaveLanes DEF FillIInv, FillTypeOK
  <2>3. cursors.floor <= TimeOf[fill.newest]
    BY <1>1, <2>1, <2>2, StartsInStep DEF ErasedIInv
  <2> QED BY <2>1, <2>2, <2>3 DEF Backed
<1> HIDE DEF held, pay
<1>4. CASE fill' = abandon_wiped_walk
  BY <1>1, <1>4, RestTypes, EndsOfRuns
<1>5. CASE fill' # abandon_wiped_walk
  <2>1. /\ fill'.pc \in {"prove", "restore"} /\ fill'.epoch = fill.epoch /\ fill'.cur = fill.cur
        /\ fill'.lane = fill.lane /\ fill'.start = fill.start /\ fill'.phase = fill.phase
        /\ fill'.todo = fill.todo /\ fill'.items = fill.items
        /\ (fill'.pc = "restore" => fill.newest # 0 /\ fill'.pay = pay)
    <3>1. fill \in Fills
      BY HandTypes
    <3> QED BY <1>2, <1>5, <3>1 DEF Fills
  <2>2. Walking'
    BY <2>1 DEF Walking
  <2>3. SyncPart' /\ HandPart'
    BY <1>1, <1>3, <2>1, <2>2, HandsStay
  <2> QED BY <1>1, <2>1, <2>3, RunWritesNothing
<1> QED BY <1>4, <1>5

\* The check before a conversation finds it listed by a backup no floor keeps out.
LEMMA RestoreErases ==
  ASSUME FillIInv, ErasedIInv, RestoreNext
  PROVE  ErasedIInv'
<1>1. UNCHANGED <<archive, kept, cursors, erase_epoch, erase, gone, erases>> /\ fill.pc = "restore" /\ Walking
  BY DEF RestoreNext, Leaves, Walking
<1>2. \/ fill' = [fill EXCEPT !.pc = "prove"]
      \/ fill' = abandon_wiped_walk
      \/ ~Wiped /\ fill' = [fill EXCEPT !.pc = "refold"]
  <2>1. CASE fill.pay = {}
    BY <2>1 DEF RestoreNext, Step
  <2>2. CASE fill.pay # {} /\ Wiped
    BY <2>2 DEF RestoreNext, Step
  <2>3. CASE fill.pay # {} /\ ~Wiped
    BY <2>3 DEF RestoreNext, Step
  <2> QED BY <2>1, <2>2, <2>3
<1>3. CASE fill' = abandon_wiped_walk
  BY <1>1, <1>3, RestTypes, EndsOfRuns
<1>4. CASE fill' # abandon_wiped_walk
  <2>1. /\ fill'.pc \in {"prove", "refold"} /\ fill'.epoch = fill.epoch /\ fill'.cur = fill.cur
        /\ fill'.lane = fill.lane /\ fill'.start = fill.start /\ fill'.phase = fill.phase
        /\ fill'.todo = fill.todo /\ fill'.items = fill.items /\ fill'.pay = fill.pay
        /\ (fill'.pc = "refold" => ~Wiped)
    <3>1. fill \in Fills
      BY HandTypes
    <3> QED BY <1>2, <1>4, <3>1 DEF Fills
  <2>2. Walking'
    BY <2>1 DEF Walking
  <2>3. ~Wiped => fill.pay \subseteq Backed
    BY <1>1 DEF ErasedIInv, HandPart
  <2>4. SyncPart' /\ HandPart'
    BY <1>1, <2>1, <2>2, <2>3, HandsStay
  <2>5. ~MayReturn'
    <3>1. Open' = Open
      BY <1>1 DEF Open, Active, Backed, kept
    <3>2. fill'.pc = "refold" => Stray' \subseteq Open
      BY <2>1, <2>3 DEF Stray, Open
    <3> QED BY <2>1, <3>1, <3>2 DEF MayReturn, Stray
  <2> QED BY <1>1, <2>4, <2>5, RunWritesNothing
<1> QED BY <1>3, <1>4

LEMMA ProvedErases ==
  ASSUME FillIInv, ErasedIInv, Proved
  PROVE  ErasedIInv'
<1>1. UNCHANGED <<archive, kept, cursors, erase_epoch, erase, gone, erases>> /\ fill.pc = "prove" /\ Walking
  BY DEF Proved, Leaves, Walking
<1>2. CASE Wiped
  <2>1. fill' = abandon_wiped_walk
    BY <1>2 DEF Proved, Step
  <2> QED BY <1>1, <2>1, RestTypes, EndsOfRuns
<1>3. CASE ~Wiped
  <2>1. /\ fill'.pc = "next" /\ fill'.epoch = fill.epoch /\ fill'.cur = fill.cur
        /\ fill'.lane = fill.lane /\ fill'.start = fill.start /\ fill'.phase = fill.phase
        /\ fill'.todo = fill.todo /\ fill'.items = fill.items
    <3>1. fill \in Fills
      BY HandTypes
    <3> QED BY <1>3, <3>1 DEF Proved, Step, Fills
  <2>2. Walking'
    BY <2>1 DEF Walking
  <2>3. SyncPart' /\ HandPart'
    BY <1>1, <2>1, <2>2, HandsStay
  <2> QED BY <1>1, <2>1, <2>3, RunWritesNothing
<1> QED BY <1>2, <1>3

\* The check before a row finds it past what was erased, or its sender blocked.
LEMMA NextErases ==
  ASSUME FillIInv, ErasedIInv, FoldNext
  PROVE  ErasedIInv'
<1>1. /\ UNCHANGED <<archive, kept, cursors, erase_epoch, erase, gone, erases>>
      /\ fill.pc = "next" /\ fill.items # {} /\ Walking
  BY DEF FoldNext, Leaves, Walking
<1>2. CASE Wiped
  <2>1. fill' = abandon_wiped_walk
    BY <1>2 DEF FoldNext, Step
  <2> QED BY <1>1, <2>1, RestTypes, EndsOfRuns
<1>3. CASE ~Wiped
  <2>1. /\ fill'.pc = "look" /\ fill'.epoch = fill.epoch /\ fill'.cur = fill.cur
        /\ fill'.lane = fill.lane /\ fill'.start = fill.start /\ fill'.phase = fill.phase
        /\ fill'.todo = fill.todo /\ fill'.items = fill.items
    <3>1. fill \in Fills
      BY HandTypes
    <3> QED BY <1>3, <3>1 DEF FoldNext, Step, Fills
  <2>2. Walking'
    BY <2>1 DEF Walking
  <2>3. SyncPart' /\ HandPart'
    BY <1>1, <2>1, <2>2, HandsStay
  <2>4. Row \in gone => LaneOf[Row] \in blocked
    <3>1. Row \in fill.items /\ Row \in Rows
      BY <1>1, RowAtHand
    <3>2. fill.start <= TimeOf[Row] /\ LaneOf[Row] = fill.lane
      BY <1>1, <3>1 DEF ErasedIInv, HandPart
    <3>3. start_at(cursors, fill.lane) <= fill.start /\ fill.start \in Nat /\ cursors \in Cursors /\ fill.lane \in Lanes
      BY <1>1, <1>3, StartsInStep DEF ErasedIInv, FillIInv, FillTypeOK
    <3>4. start_at(cursors, fill.lane) \in Nat
      BY <3>3 DEF start_at, Cursors, Times
    <3>5. TimeOf[Row] \in Nat
      BY <3>1, RowsHaveLanes
    <3> QED BY <3>1, <3>2, <3>3, <3>4, <3>5 DEF ErasedIInv, GonePart
  <2>5. ~MayReturn'
    <3>1. Stray' = {r \in {Row} : LaneOf[r] \notin blocked}
      BY <1>1, <2>1 DEF Stray, Row, kept
    <3> QED BY <1>1, <2>4, <3>1 DEF MayReturn
  <2> QED BY <1>1, <2>3, <2>5, RunWritesNothing
<1> QED BY <1>2, <1>3

\* The router lets a row through only where its sender is not blocked.
LEMMA InboundErases ==
  ASSUME FillIInv, ErasedIInv, handle_inbound
  PROVE  ErasedIInv'
<1>1. /\ UNCHANGED <<archive, kept, cursors, erase_epoch, erase, gone, erases>>
      /\ fill.pc = "look" /\ fill.items # {} /\ Walking
  BY DEF handle_inbound, Leaves, Walking, FillIInv, BackupPart
<1> DEFINE rest == fill.items \ {Row}
           held == fill.held \cup {TimeOf[Row]}
<1>2. \/ fill' = [fill EXCEPT !.pc = "next", !.items = rest]
      \/ fill' = [fill EXCEPT !.pc = "next", !.items = rest, !.held = held]
      \/ ~Refuses(Row) /\ fill' = [fill EXCEPT !.pc = "record"]
  BY DEF handle_inbound, Settled, Held, Step
<1>3. rest \subseteq fill.items
  OBVIOUS
<1> HIDE DEF rest, held
<1>4. /\ fill'.pc \in {"next", "record"} /\ fill'.epoch = fill.epoch /\ fill'.cur = fill.cur
      /\ fill'.lane = fill.lane /\ fill'.start = fill.start /\ fill'.phase = fill.phase
      /\ fill'.todo = fill.todo /\ fill'.items \subseteq fill.items
      /\ (fill'.pc = "record" => ~Refuses(Row) /\ fill'.items = fill.items)
  <2>1. fill \in Fills
    BY HandTypes
  <2> QED BY <1>2, <1>3, <2>1 DEF Fills
<1>5. Walking'
  BY <1>4 DEF Walking
<1>6. SyncPart' /\ HandPart'
  BY <1>1, <1>4, <1>5, HandsStay
<1>7. MayReturn' => MayReturn
  <2>1. CASE fill'.pc = "next"
    BY <2>1 DEF MayReturn, Stray
  <2>2. CASE fill'.pc = "record"
    <3>1. LaneOf[Row] \notin blocked
      BY <1>4, <2>2 DEF Refuses, FillIInv, FillTypeOK
    <3>2. Stray' = {Row} /\ Stray = {r \in {Row} : LaneOf[r] \notin blocked}
      BY <1>1, <1>4, <2>2 DEF Stray, Row
    <3>3. Open' = Open
      BY <1>1 DEF Open, Active, Backed, kept
    <3> QED BY <1>1, <3>1, <3>2, <3>3 DEF MayReturn
  <2> QED BY <1>4, <2>1, <2>2
<1> QED BY <1>1, <1>6, <1>7, RunWritesNothing

\* A step of the run that writes one thing, the one it was let through with.
LEMMA RunWritesOne ==
  ASSUME FillIInv, ErasedIInv, UNCHANGED <<archive, blocked, cursors, erase_epoch, erase, gone, erases>>, StayActive,
         NEW x, Open' \subseteq Open \cup {x}, x \in Stray, fill'.pc \in {"restore", "next"}, SyncPart', HandPart'
  PROVE  ErasedIInv'
<1>1. Back' \subseteq Back \cup {x} /\ (x \in Back' => x \in Back \/ MayReturn)
  BY DEF Back, MayReturn
<1>2. ~MayReturn'
  BY DEF MayReturn, Stray
<1>3. CountPart'
  BY <1>1, <1>2, CountRealized DEF ErasedIInv
<1>4. GonePart' /\ ErasePart'
  BY DEF ErasedIInv, GonePart, ErasePart, start_at, StayActive
<1> QED BY <1>3, <1>4 DEF ErasedIInv

LEMMA RefoldErases ==
  ASSUME FillIInv, ErasedIInv, NEW c \in Contacts, fold_stash_row(c)
  PROVE  ErasedIInv'
<1>1. /\ UNCHANGED <<archive, store, blocked, cursors, erase_epoch, erase, gone, erases>>
      /\ fill.pc = "refold" /\ Walking /\ c \in fill.pay
  BY DEF fold_stash_row, Leaves, Walking
<1> DEFINE rest == fill.pay \ {c}
           held == fill.held \cup {0}
<1>2. \/ fill' = [fill EXCEPT !.pc = "restore", !.pay = rest]
      \/ fill' = [fill EXCEPT !.pc = "restore", !.pay = rest, !.held = held]
  <2>1. \A f, g, h : [[fill EXCEPT !.pc = f, !.pay = g] EXCEPT !.held = h] = [fill EXCEPT !.pc = f, !.pay = g, !.held = h]
    OBVIOUS
  <2>2. fill.held \cup {0} = held
    OBVIOUS
  <2> QED BY <2>1 DEF fold_stash_row, Step
<1>3. rest \subseteq fill.pay
  OBVIOUS
<1> HIDE DEF rest, held
<1>4. /\ fill'.pc = "restore" /\ fill'.epoch = fill.epoch /\ fill'.cur = fill.cur
      /\ fill'.lane = fill.lane /\ fill'.start = fill.start /\ fill'.phase = fill.phase
      /\ fill'.todo = fill.todo /\ fill'.items = fill.items /\ fill'.pay \subseteq fill.pay
  <2>1. fill \in Fills
    BY HandTypes
  <2> QED BY <1>2, <1>3, <2>1 DEF Fills
<1>5. Walking'
  BY <1>4 DEF Walking
<1>6. ~Wiped => fill.pay \subseteq Backed
  BY <1>1 DEF ErasedIInv, HandPart
<1>7. SyncPart' /\ HandPart'
  BY <1>1, <1>4, <1>5, <1>6, HandsStay
<1>8. convs' = convs \/ (convs[c] = "none" /\ convs' = [convs EXCEPT ![c] = "active"])
  BY DEF fold_stash_row
<1>9. StayActive /\ Active' \subseteq Active \cup {c}
  <2>1. convs \in [Contacts -> {"none", "invited", "active"}]
    BY HandTypes
  <2> QED BY <1>8, <2>1 DEF StayActive, Active
<1>10. Open' \subseteq Open \cup {c}
  BY <1>1, <1>9 DEF Open, Backed
<1>11. c \in Stray
  BY <1>1 DEF Stray
<1> QED BY <1>1, <1>4, <1>7, <1>9, <1>10, <1>11, RunWritesOne

\* A row is settled or held, and recorded or not.
LEMMA RowErases ==
  ASSUME FillIInv, ErasedIInv, fill.pc = "record", Settled \/ Held, StayActive, Active' = Active,
         store' \in {store, store \cup {Row}}, UNCHANGED <<archive, blocked, cursors, erase_epoch, erase, gone, erases>>
  PROVE  ErasedIInv'
<1>1. Walking
  BY DEF Walking
<1> DEFINE rest == fill.items \ {Row}
           held == fill.held \cup {TimeOf[Row]}
<1>2. \/ fill' = [fill EXCEPT !.pc = "next", !.items = rest]
      \/ fill' = [fill EXCEPT !.pc = "next", !.items = rest, !.held = held]
  BY DEF Settled, Held, Step
<1>3. rest \subseteq fill.items
  OBVIOUS
<1> HIDE DEF rest, held
<1>4. /\ fill'.pc = "next" /\ fill'.epoch = fill.epoch /\ fill'.cur = fill.cur
      /\ fill'.lane = fill.lane /\ fill'.start = fill.start /\ fill'.phase = fill.phase
      /\ fill'.todo = fill.todo /\ fill'.items \subseteq fill.items
  <2>1. fill \in Fills
    BY HandTypes
  <2> QED BY <1>2, <1>3, <2>1 DEF Fills
<1>5. Walking'
  BY <1>4 DEF Walking
<1>6. SyncPart' /\ HandPart'
  BY <1>1, <1>4, <1>5, HandsStay
<1>7. Open' \subseteq Open \cup {Row} /\ Row \in Stray
  BY DEF Open, Backed, Stray
<1> QED BY <1>4, <1>6, <1>7, RunWritesOne

LEMMA RecordErases ==
  ASSUME FillIInv, ErasedIInv, RecordComm \/ RecordHandshake
  PROVE  ErasedIInv'
<1>1. /\ UNCHANGED <<archive, blocked, cursors, erase_epoch, erase, gone, erases>>
      /\ fill.pc = "record" /\ (Settled \/ Held) /\ store' \in {store, store \cup {Row}}
  BY DEF RecordComm, RecordHandshake, Leaves
<1>2. StayActive /\ Active' = Active
  <2>1. convs \in [Contacts -> {"none", "invited", "active"}]
    BY HandTypes
  <2>2. CASE RecordComm
    BY <2>2 DEF RecordComm, StayActive, Active
  <2>3. CASE RecordHandshake
    <3>1. \/ convs' = convs
          \/ convs' = [c \in Contacts |-> IF c \in {d \in About[Row] : convs[d] = "none"} THEN "invited" ELSE convs[c]]
      BY <2>3 DEF RecordHandshake
    <3> QED BY <2>1, <3>1 DEF StayActive, Active
  <2> QED BY <2>2, <2>3
<1> QED BY <1>1, <1>2, RowErases

\* The save moves no position of a lane back: the run was not overtaken.
LEMMA SaveErases ==
  ASSUME FillIInv, ErasedIInv, SaveCursors
  PROVE  ErasedIInv'
<1>1. UNCHANGED <<archive, kept, erase_epoch, erase, gone, erases>> /\ fill.pc = "save"
  BY DEF SaveCursors, Leaves
<1>2. fill'.pc = "report" /\ fill'.epoch = 0
  BY RestTypes DEF SaveCursors, Step, Reported, Off
<1>3. CASE cursors' = cursors
  BY <1>1, <1>2, <1>3, EndsOfRuns
<1>4. CASE ~Wiped /\ cursors' = fill.cur
  <2>1. cursors'.floor = cursors.floor /\ \A k \in Lanes : cursors.at[k] <= cursors'.at[k]
    BY <1>1, <1>4 DEF ErasedIInv, SyncPart
  <2>2. /\ cursors.floor \in Nat /\ \A k \in Lanes : cursors.at[k] \in Nat /\ cursors'.at[k] \in Nat
        /\ \A r \in Rows : TimeOf[r] \in Nat /\ LaneOf[r] \in Lanes
        /\ Contacts \subseteq Lanes /\ (erase.pc # "off" => erase.floor \in Nat)
    <3>1. cursors \in Cursors /\ fill.cur \in Cursors /\ erase \in Erases
      BY HandTypes DEF FillIInv, FillTypeOK, Fills
    <3> QED BY <1>4, <3>1, RowsHaveLanes DEF Cursors, Times, Lanes, Erases, Erasures, NoErase
  <2>3. Back' = Back
    BY <1>1, <2>1 DEF Back, Open, Active, Backed, kept
  <2>4. ~MayReturn'
    BY <1>2 DEF MayReturn, Stray
  <2>5. CountPart'
    BY <1>1, <2>3, <2>4, CountHolds DEF ErasedIInv
  <2>6. GonePart'
    <3> SUFFICES ASSUME NEW r \in gone \cap Rows, LaneOf[r] \notin blocked
                 PROVE  TimeOf[r] < start_at(cursors', LaneOf[r])
      BY <1>1 DEF GonePart, start_at, kept
    <3>1. TimeOf[r] < start_at(cursors, LaneOf[r])
      BY DEF ErasedIInv, GonePart
    <3>2. LaneOf[r] \in Lanes /\ TimeOf[r] \in Nat
      BY <2>2
    <3> QED BY <2>1, <2>2, <3>1, <3>2 DEF start_at
  <2>7. ErasePart'
    <3> SUFFICES ASSUME erase.pc # "off"
                 PROVE  /\ erase.pc = "seal" => erase.kind = "block"
                        /\ erase.kind # "wipe" => erase.of \in Contacts
                        /\ erase.kind = "block" => erase.of \in blocked /\ convs[erase.of] = "active"
                        /\ erase.kind = "wipe" /\ erase.sealed => erase.floor <= cursors'.floor
                        /\ erase.kind = "clear" /\ erase.sealed => erase.floor <= cursors'.at[erase.of]
      BY <1>1 DEF ErasePart, kept
    <3>1. /\ erase.pc = "seal" => erase.kind = "block"
          /\ erase.kind # "wipe" => erase.of \in Contacts
          /\ erase.kind = "block" => erase.of \in blocked /\ convs[erase.of] = "active"
          /\ erase.kind = "wipe" /\ erase.sealed => erase.floor <= cursors.floor
          /\ erase.kind = "clear" /\ erase.sealed => erase.floor <= cursors.at[erase.of]
      BY DEF ErasedIInv, ErasePart
    <3>2. erase.kind = "clear" /\ erase.sealed => erase.floor <= cursors'.at[erase.of]
      <4> SUFFICES ASSUME erase.kind = "clear", erase.sealed
                   PROVE  erase.floor <= cursors'.at[erase.of]
        OBVIOUS
      <4>1. erase.of \in Lanes /\ erase.floor <= cursors.at[erase.of] /\ erase.floor \in Nat
        BY <2>2, <3>1
      <4> QED BY <2>1, <2>2, <4>1
    <3> QED BY <2>1, <3>1, <3>2
  <2>8. SyncPart' /\ HandPart'
    BY <1>1, <1>2, RunRests DEF FillIInv, FillTypeOK
  <2> QED BY <2>5, <2>6, <2>7, <2>8 DEF ErasedIInv
<1> QED BY <1>3, <1>4 DEF SaveCursors

\* What is open shrinks, and nothing joins what the run may write.
LEMMA CountShrinks ==
  ASSUME FillIInv, CountPart, gone' = gone, Open' \subseteq Open, Stray' \subseteq Stray,
         \/ erases' = erases /\ (erase'.pc # "off" => erase.pc # "off")
         \/ erases' = erases + 1
  PROVE  CountPart'
<1>1. Back' \subseteq Back
  BY DEF Back
<1>2. MayReturn' => MayReturn \/ Back' # Back
  BY DEF MayReturn, Back
<1> QED BY <1>1, <1>2, CountHolds

\* An erase that seals overtakes the run.
LEMMA SealOvertakes ==
  ASSUME FillIInv, ErasedIInv, fill' = fill, archive' = archive, erase_epoch' = erase_epoch + 1
  PROVE  SyncPart' /\ HandPart'
<1>1. fill.epoch <= erase_epoch /\ fill.epoch \in Nat /\ erase_epoch \in Nat
  BY DEF ErasedIInv, SyncPart, FillIInv, FillTypeOK, Fills
<1>2. Wiped' /\ fill'.epoch <= erase_epoch'
  BY <1>1 DEF Wiped
<1>3. SyncPart'
  BY <1>2 DEF SyncPart
<1>4. HandPart'
  BY <1>2 DEF ErasedIInv, HandPart, Walking
<1> QED BY <1>3, <1>4

\* What the seals leave of the run, and where the clock stands to the cursors.
LEMMA SealFacts ==
  ASSUME FillIInv, NEW at, NEW e, NEW covers, seal_erasure(at, e, covers), UNCHANGED <<kept, gone, Erasing>>
  PROVE  /\ UNCHANGED <<archive, fill, store, convs, blocked, gone>> /\ erase_epoch' = erase_epoch + 1 /\ Stray' = Stray
         /\ (cursors' = cursors /\ erase' = e) \/ (cursors' = at /\ erase' = [e EXCEPT !.sealed = TRUE])
         /\ now \in Nat /\ cursors.floor \in Nat /\ cursors.floor <= now
         /\ \A k \in Lanes : cursors.at[k] \in Nat /\ cursors.at[k] <= now
         /\ \A r \in Rows : TimeOf[r] \in Nat /\ LaneOf[r] \in Lanes
         /\ Contacts \subseteq Lanes
<1>1. /\ UNCHANGED <<archive, fill, store, convs, blocked, gone>> /\ erase_epoch' = erase_epoch + 1
      /\ (cursors' = cursors /\ erase' = e) \/ (cursors' = at /\ erase' = [e EXCEPT !.sealed = TRUE])
  <2>1. UNCHANGED <<archive, fill, store, convs, blocked, gone>>
    BY DEF kept, Erasing
  <2>2. erase_epoch' = erase_epoch + 1
    BY DEF seal_erasure
  <2>3. (cursors' = cursors /\ erase' = e) \/ (cursors' = at /\ erase' = [e EXCEPT !.sealed = TRUE])
    BY DEF seal_erasure
  <2> QED BY <2>1, <2>2, <2>3
<1>2. Stray' = Stray
  BY <1>1 DEF Stray, Row
<1>3. /\ now \in Nat /\ cursors.floor \in Nat /\ cursors.floor <= now
      /\ \A k \in Lanes : cursors.at[k] \in Nat /\ cursors.at[k] <= now
  BY DEF FillIInv, FillTypeOK, CursorPart, Past, Cursors, Times
<1> QED BY <1>1, <1>2, <1>3, RowsHaveLanes DEF Lanes

LEMMA WipeErases ==
  ASSUME FillIInv, ErasedIInv, transport_wipe_all
  PROVE  ErasedIInv'
<1> DEFINE at == [floor |-> now, at |-> [k \in Lanes |-> IF k \in Contacts THEN 0 ELSE cursors.at[k]]]
           e == Sealed("wipe", None)
<1>1. /\ erase.pc = "off" /\ erases' = erases + 1 /\ UNCHANGED <<kept, gone, Erasing>>
      /\ seal_erasure(at, e, {r \in archive : TimeOf[r] < now})
  BY DEF transport_wipe_all
<1>2. e = [pc |-> "rows", kind |-> "wipe", of |-> None, sealed |-> FALSE, floor |-> now]
  BY DEF Sealed
<1>3. /\ UNCHANGED <<archive, fill, store, convs, blocked, gone>> /\ erase_epoch' = erase_epoch + 1 /\ Stray' = Stray
      /\ (cursors' = cursors /\ erase' = e) \/ (cursors' = at /\ erase' = [e EXCEPT !.sealed = TRUE])
      /\ now \in Nat /\ cursors.floor \in Nat /\ cursors.floor <= now
      /\ \A k \in Lanes : cursors.at[k] \in Nat /\ cursors.at[k] <= now
      /\ \A r \in Rows : TimeOf[r] \in Nat /\ LaneOf[r] \in Lanes
  BY <1>1, SealFacts
<1>4. at.floor = now /\ \A k \in Lanes : start_at(at, k) = now
  BY <1>3 DEF start_at
<1> HIDE DEF at, e
<1>5. cursors.floor <= cursors'.floor /\ cursors'.floor \in Nat
  BY <1>3, <1>4
<1>6. Open' \subseteq Open
  <2>1. Backed' \subseteq Backed
    <3> SUFFICES ASSUME NEW c \in Backed'
                 PROVE  c \in Backed
      OBVIOUS
    <3>1. PICK r \in archive : LaneOf[r] = Owner /\ c \in About[r] /\ cursors'.floor <= TimeOf[r] /\ c \in Contacts
      BY <1>3 DEF Backed
    <3>2. TimeOf[r] \in Nat
      BY <1>3 DEF FillIInv, FillTypeOK
    <3> QED BY <1>3, <1>5, <3>1, <3>2 DEF Backed
  <2> QED BY <1>3, <2>1 DEF Open, Active
<1>7. CountPart'
  BY <1>1, <1>3, <1>6, CountShrinks DEF ErasedIInv
<1>8. GonePart'
  <2> SUFFICES ASSUME NEW r \in gone \cap Rows, LaneOf[r] \notin blocked
               PROVE  TimeOf[r] < start_at(cursors', LaneOf[r])
    BY <1>3 DEF GonePart, start_at
  <2>1. TimeOf[r] < start_at(cursors, LaneOf[r]) /\ LaneOf[r] \in Lanes /\ TimeOf[r] \in Nat
    BY <1>3 DEF ErasedIInv, GonePart
  <2>2. start_at(cursors, LaneOf[r]) \in Nat /\ start_at(cursors, LaneOf[r]) <= now
    BY <1>3, <2>1 DEF start_at
  <2>3. TimeOf[r] < now
    BY <1>3, <2>1, <2>2
  <2> QED BY <1>3, <1>4, <2>1, <2>3
<1>9. ErasePart'
  BY <1>2, <1>3, <1>4 DEF ErasePart
<1> QED BY <1>3, <1>7, <1>8, <1>9, SealOvertakes DEF ErasedIInv

LEMMA ClearErases ==
  ASSUME FillIInv, ErasedIInv, NEW c \in Contacts, transport_clear_messages(c)
  PROVE  ErasedIInv'
<1> DEFINE at == [cursors EXCEPT !.at[c] = now]
           e == Sealed("clear", c)
<1>1. /\ erase.pc = "off" /\ erases' = erases + 1 /\ UNCHANGED <<kept, gone, Erasing>>
      /\ seal_erasure(at, e, {r \in archive : LaneOf[r] = c /\ TimeOf[r] < now})
  BY DEF transport_clear_messages
<1>2. e = [pc |-> "rows", kind |-> "clear", of |-> c, sealed |-> FALSE, floor |-> now]
  BY DEF Sealed
<1>3. /\ UNCHANGED <<archive, fill, store, convs, blocked, gone>> /\ erase_epoch' = erase_epoch + 1 /\ Stray' = Stray
      /\ (cursors' = cursors /\ erase' = e) \/ (cursors' = at /\ erase' = [e EXCEPT !.sealed = TRUE])
      /\ now \in Nat /\ cursors.floor \in Nat /\ cursors.floor <= now
      /\ \A k \in Lanes : cursors.at[k] \in Nat /\ cursors.at[k] <= now
      /\ \A r \in Rows : TimeOf[r] \in Nat /\ LaneOf[r] \in Lanes
      /\ Contacts \subseteq Lanes
  BY <1>1, SealFacts
<1>4. /\ at.floor = cursors.floor
      /\ \A k \in Lanes : at.at[k] = IF k = c THEN now ELSE cursors.at[k]
  BY DEF FillIInv, FillTypeOK, Cursors
<1> HIDE DEF at, e
<1>5. Open' \subseteq Open
  <2>1. cursors'.floor = cursors.floor
    BY <1>3, <1>4
  <2> QED BY <1>3, <2>1 DEF Open, Active, Backed
<1>6. CountPart'
  BY <1>1, <1>3, <1>5, CountShrinks DEF ErasedIInv
<1>7. GonePart'
  <2> SUFFICES ASSUME NEW r \in gone \cap Rows, LaneOf[r] \notin blocked
               PROVE  TimeOf[r] < start_at(cursors', LaneOf[r])
    BY <1>3 DEF GonePart, start_at
  <2>1. TimeOf[r] < start_at(cursors, LaneOf[r]) /\ LaneOf[r] \in Lanes /\ TimeOf[r] \in Nat
    BY <1>3 DEF ErasedIInv, GonePart
  <2>2. cursors'.floor = cursors.floor /\ cursors'.at[LaneOf[r]] \in {now, cursors.at[LaneOf[r]]}
    BY <1>3, <1>4, <2>1
  <2> QED BY <1>3, <2>1, <2>2 DEF start_at
<1>8. ErasePart'
  BY <1>2, <1>3, <1>4 DEF ErasePart
<1> QED BY <1>3, <1>6, <1>7, <1>8, SealOvertakes DEF ErasedIInv

\* A block is on the list before anything is erased.
LEMMA BlockErases ==
  ASSUME FillIInv, ErasedIInv, NEW c \in Contacts, transport_block_conversation(c)
  PROVE  ErasedIInv'
<1>1. /\ UNCHANGED <<archive, fill, store, convs, cursors, erase_epoch, gone>> /\ erases' = erases + 1
      /\ convs[c] = "active" /\ blocked' = blocked \cup {c} /\ erase' = [Sealed("block", c) EXCEPT !.pc = "seal"]
  BY DEF transport_block_conversation, Erasing
<1>2. Open' = Open /\ Backed' = Backed /\ Stray' \subseteq Stray /\ (Wiped' <=> Wiped)
  BY <1>1 DEF Open, Active, Backed, Stray, Row, Wiped
<1>3. CountPart'
  BY <1>1, <1>2, CountShrinks DEF ErasedIInv
<1>4. SyncPart' /\ HandPart' /\ GonePart'
  BY <1>1, <1>2 DEF ErasedIInv, SyncPart, HandPart, GonePart, Walking, start_at
<1>5. ErasePart'
  BY <1>1 DEF ErasePart, Sealed
<1> QED BY <1>3, <1>4, <1>5 DEF ErasedIInv

LEMMA SealBlockErases ==
  ASSUME FillIInv, ErasedIInv, SealBlock
  PROVE  ErasedIInv'
<1> DEFINE of == erase.of
           at == [cursors EXCEPT !.at[of] = 0]
           e == [erase EXCEPT !.pc = "rows"]
<1>1. /\ erase.pc = "seal" /\ erases' = erases /\ UNCHANGED <<kept, gone, Erasing>>
      /\ seal_erasure(at, e, {})
  BY DEF SealBlock
<1>2. erase \in Erasures
  BY <1>1 DEF FillIInv, FillTypeOK, Erases, NoErase
<1>3. erase.kind = "block" /\ of \in Contacts /\ of \in blocked /\ convs[of] = "active"
  BY <1>1 DEF ErasedIInv, ErasePart
<1>4. e.pc = "rows" /\ e.kind = "block" /\ e.of = of /\ [e EXCEPT !.sealed = TRUE].pc = "rows"
      /\ [e EXCEPT !.sealed = TRUE].kind = "block" /\ [e EXCEPT !.sealed = TRUE].of = of
  BY <1>2, <1>3 DEF Erasures
<1>5. /\ UNCHANGED <<archive, fill, store, convs, blocked, gone>> /\ erase_epoch' = erase_epoch + 1 /\ Stray' = Stray
      /\ (cursors' = cursors /\ erase' = e) \/ (cursors' = at /\ erase' = [e EXCEPT !.sealed = TRUE])
      /\ \A r \in Rows : TimeOf[r] \in Nat /\ LaneOf[r] \in Lanes
  BY <1>1, SealFacts
<1>6. at.floor = cursors.floor /\ \A k \in Lanes : k # of => at.at[k] = cursors.at[k]
  BY DEF FillIInv, FillTypeOK, Cursors
<1> HIDE DEF at, e, of
<1>7. Open' = Open
  <2>1. cursors'.floor = cursors.floor
    BY <1>5, <1>6
  <2> QED BY <1>5, <2>1 DEF Open, Active, Backed
<1>8. CountPart'
  BY <1>1, <1>5, <1>7, CountShrinks DEF ErasedIInv
<1>9. GonePart'
  <2> SUFFICES ASSUME NEW r \in gone \cap Rows, LaneOf[r] \notin blocked
               PROVE  TimeOf[r] < start_at(cursors', LaneOf[r])
    BY <1>5 DEF GonePart, start_at
  <2>1. TimeOf[r] < start_at(cursors, LaneOf[r]) /\ LaneOf[r] # of /\ LaneOf[r] \in Lanes
    BY <1>3, <1>5 DEF ErasedIInv, GonePart
  <2>2. cursors'.floor = cursors.floor /\ cursors'.at[LaneOf[r]] = cursors.at[LaneOf[r]]
    BY <1>5, <1>6, <2>1
  <2> QED BY <2>1, <2>2 DEF start_at
<1>10. ErasePart'
  BY <1>3, <1>4, <1>5 DEF ErasePart
<1> QED BY <1>5, <1>8, <1>9, <1>10, SealOvertakes DEF ErasedIInv

\* What a finished erase closes off is out of the store and has no backup left, or
\* is behind its lane's start, or is of a lane that is blocked.
LEMMA ClosedFacts ==
  ASSUME FillIInv, ErasedIInv, erase.pc = "rows", NEW x \in ClosedOff
  PROVE  \/ /\ x \in Covered.rows /\ x \in Rows
            /\ LaneOf[x] \in blocked \/ TimeOf[x] < start_at(cursors, LaneOf[x])
         \/ x \in Covered.contacts /\ x \in Contacts /\ x \notin Backed
<1>1. erase \in Erasures
  BY DEF FillIInv, FillTypeOK, Erases, NoErase
<1>2. erase.floor \in Nat /\ erase.kind \in {"wipe", "clear", "block"} /\ cursors \in Cursors /\ store \subseteq Rows
  BY <1>1 DEF Erasures, Times, FillIInv, FillTypeOK
<1>3. /\ erase.kind # "wipe" => erase.of \in Contacts
      /\ erase.kind = "block" => erase.of \in blocked /\ convs[erase.of] = "active"
      /\ erase.kind = "wipe" /\ erase.sealed => erase.floor <= cursors.floor
      /\ erase.kind = "clear" /\ erase.sealed => erase.floor <= cursors.at[erase.of]
  BY <1>1 DEF ErasedIInv, ErasePart, Erasures
<1>4. \A r \in Rows : TimeOf[r] \in Nat /\ LaneOf[r] \in Lanes
  BY RowsHaveLanes
<1>5. cursors.floor \in Nat /\ \A k \in Lanes : cursors.at[k] \in Nat
  BY <1>2 DEF Cursors, Times
<1>6. CASE erase.kind = "block"
  <2>1. x \in Covered.rows /\ LaneOf[x] = erase.of
    BY <1>6 DEF ClosedOff
  <2>2. Covered.rows \subseteq store
    BY <1>6 DEF Covered
  <2> QED BY <1>2, <1>3, <1>6, <2>1, <2>2
<1>7. CASE erase.kind = "clear"
  <2>1. Covered.rows = {r \in store : LaneOf[r] = erase.of} /\ Covered.contacts = {}
    BY <1>7 DEF Covered
  <2>2. erase.sealed /\ x \in Covered.rows /\ TimeOf[x] < erase.floor
    BY <1>7, <2>1 DEF ClosedOff
  <2>3. x \in Rows /\ LaneOf[x] = erase.of /\ erase.of \in Lanes /\ erase.floor <= cursors.at[erase.of]
    BY <1>2, <1>3, <1>4, <1>7, <2>1, <2>2
  <2>4. TimeOf[x] < cursors.at[LaneOf[x]] /\ cursors.at[LaneOf[x]] \in Nat /\ TimeOf[x] \in Nat
    BY <1>2, <1>4, <1>5, <2>2, <2>3
  <2> QED BY <1>5, <2>2, <2>3, <2>4 DEF start_at
<1>8. CASE erase.kind = "wipe"
  <2>1. Covered.rows = store /\ Covered.contacts = Contacts
    BY <1>8 DEF Covered
  <2>2. /\ erase.sealed
        /\ \/ x \in Covered.rows /\ TimeOf[x] < erase.floor
           \/ /\ x \in Covered.contacts
              /\ \A r \in archive : LaneOf[r] = Owner /\ x \in About[r] => TimeOf[r] < erase.floor
    BY <1>8 DEF ClosedOff
  <2>3. erase.floor <= cursors.floor
    BY <1>3, <1>8, <2>2
  <2>4. CASE x \in Covered.rows /\ TimeOf[x] < erase.floor
    <3>1. x \in Rows /\ TimeOf[x] \in Nat /\ LaneOf[x] \in Lanes /\ cursors.at[LaneOf[x]] \in Nat
      BY <1>2, <1>4, <1>5, <2>1, <2>4
    <3>2. TimeOf[x] < start_at(cursors, LaneOf[x])
      BY <1>2, <1>5, <2>3, <2>4, <3>1 DEF start_at
    <3> QED BY <2>4, <3>1, <3>2
  <2>5. CASE /\ x \in Covered.contacts
             /\ \A r \in archive : LaneOf[r] = Owner /\ x \in About[r] => TimeOf[r] < erase.floor
    <3>1. ASSUME NEW r \in archive, LaneOf[r] = Owner, x \in About[r]
          PROVE  ~(cursors.floor <= TimeOf[r])
      <4>1. TimeOf[r] \in Nat /\ TimeOf[r] < erase.floor
        BY <1>4, <2>5, <3>1 DEF FillIInv, FillTypeOK
      <4> QED BY <1>2, <1>5, <2>3, <4>1
    <3> QED BY <2>1, <2>5, <3>1 DEF Backed
  <2> QED BY <2>2, <2>4, <2>5
<1> QED BY <1>2, <1>6, <1>7, <1>8

LEMMA EraseErases ==
  ASSUME FillIInv, ErasedIInv, EraseRows
  PROVE  ErasedIInv'
<1>1. /\ UNCHANGED <<archive, blocked, cursors, erase_epoch, erases, fill>>
      /\ erase.pc = "rows" /\ erase'.pc = "off"
  BY DEF EraseRows, Erasing, NoErase
<1>2. store \subseteq Rows /\ convs \in [Contacts -> {"none", "invited", "active"}]
  BY HandTypes
<1>3. CASE /\ store' = store \ Covered.rows
           /\ convs' = [c \in Contacts |-> IF c \in Covered.contacts THEN "none" ELSE convs[c]]
           /\ gone' = gone \cup ClosedOff
  <2>1. Backed' = Backed /\ Active' = Active \ Covered.contacts /\ Active \subseteq Contacts /\ Backed \subseteq Contacts
    BY <1>1, <1>3 DEF Backed, Active
  <2>2. Open' \subseteq Open
    BY <1>3, <2>1 DEF Open
  <2>3. ASSUME NEW x \in ClosedOff
        PROVE  x \notin Open'
    <3>1. CASE x \in Covered.rows /\ x \in Rows
      BY <1>3, <2>1, <3>1, ContactsAreNames DEF Open
    <3>2. CASE x \in Covered.contacts /\ x \in Contacts /\ x \notin Backed
      BY <1>2, <1>3, <2>1, <3>2, ContactsAreNames DEF Open
    <3> QED BY <1>1, <3>1, <3>2, ClosedFacts
  <2>4. Back' \subseteq Back
    BY <1>3, <2>2, <2>3 DEF Back
  <2>5. CountPart'
    BY <1>1, <2>4, CountReleased DEF ErasedIInv
  <2>6. GonePart'
    <3> SUFFICES ASSUME NEW r \in (gone \cup ClosedOff) \cap Rows, LaneOf[r] \notin blocked
                 PROVE  TimeOf[r] < start_at(cursors, LaneOf[r])
      BY <1>1, <1>3 DEF GonePart, start_at
    <3>1. CASE r \in gone
      BY <3>1 DEF ErasedIInv, GonePart
    <3>2. CASE r \in ClosedOff
      <4>1. r \notin Contacts
        BY ContactsAreNames
      <4> QED BY <1>1, <3>2, <4>1, ClosedFacts
    <3> QED BY <3>1, <3>2
  <2> QED BY <1>1, <2>1, <2>5, <2>6 DEF ErasedIInv, SyncPart, HandPart, ErasePart, Walking, Wiped
<1>4. CASE gone' = gone /\ convs' = convs /\ store' \subseteq store
  <2>1. Backed' = Backed /\ Back' \subseteq Back
    BY <1>1, <1>4 DEF Back, Open, Backed, Active
  <2>2. CountPart'
    BY <1>1, <2>1, CountReleased DEF ErasedIInv
  <2> QED BY <1>1, <1>4, <2>1, <2>2 DEF ErasedIInv, SyncPart, HandPart, GonePart, ErasePart, Walking, Wiped, start_at
<1> QED BY <1>3, <1>4 DEF EraseRows

---------------------------------------------------------------------------
(***************************************************************************)
(* What goes on around a run and an erase.                                 *)
(***************************************************************************)

LEMMA RestErases ==
  ASSUME FillIInv, ErasedIInv,
         UNCHANGED <<archive, kept, cursors, erase_epoch, fill, erase, gone, erases>>
  PROVE  ErasedIInv'
<1>1. SyncPart' /\ HandPart' /\ (MayReturn' => MayReturn)
  BY DEF ErasedIInv, SyncPart, HandPart, Walking, Wiped, Backed, MayReturn, Stray, Row, Open, Active, kept
<1> QED BY <1>1, RunWritesNothing

\* A death ends the run and the erase.
LEMMA DeathErases ==
  ASSUME FillIInv, ErasedIInv, FillDies
  PROVE  ErasedIInv'
<1>1. /\ UNCHANGED <<archive, kept, cursors, gone, erases>> /\ erase_epoch' = 0
      /\ fill'.pc = "off" /\ fill'.epoch = 0 /\ erase'.pc = "off"
  BY RestTypes DEF FillDies, NoErase
<1>2. Back' = Back /\ ~MayReturn'
  BY <1>1 DEF Back, Open, Active, Backed, kept, MayReturn, Stray
<1>3. CountPart'
  BY <1>1, <1>2, CountHolds DEF ErasedIInv
<1>4. SyncPart' /\ HandPart'
  BY <1>1, RunRests
<1> QED BY <1>1, <1>3, <1>4 DEF ErasedIInv, GonePart, ErasePart, start_at, kept

\* A backup that arrives lists the threads there are.
LEMMA ArrivalErases ==
  ASSUME FillIInv, ErasedIInv, NEW r \in Rows, Arrives(r)
  PROVE  ErasedIInv'
<1>1. /\ UNCHANGED <<kept, cursors, erase_epoch, fill, erase, gone, erases>> /\ archive' = archive \cup {r}
      /\ LaneOf[r] = Owner => About[r] = Active
  BY DEF Arrives
<1>2. Backed \subseteq Backed' /\ Backed' \subseteq Backed \cup Active /\ Active' = Active
  BY <1>1 DEF Backed, Active, kept
<1>3. Open' = Open
  BY <1>1, <1>2 DEF Open, kept
<1>4. Back' = Back /\ (MayReturn' => MayReturn)
  BY <1>1, <1>3 DEF Back, MayReturn, Stray, Row, kept
<1>5. CountPart'
  BY <1>1, <1>4, CountHolds DEF ErasedIInv
<1>6. SyncPart' /\ HandPart'
  BY <1>1, <1>2 DEF ErasedIInv, SyncPart, HandPart, Walking, Wiped
<1> QED BY <1>1, <1>5, <1>6 DEF ErasedIInv, GonePart, ErasePart, start_at, kept

\* The node's own lane records what was never erased: a row that is gone is behind
\* its lane's start, this one is of now.
LEMMA NodeErases ==
  ASSUME FillIInv, ErasedIInv, NEW r \in Rows, NodeFold(r)
  PROVE  ErasedIInv'
<1>1. /\ UNCHANGED <<archive, convs, blocked, cursors, erase_epoch, fill, erase, gone, erases>>
      /\ store' = store \cup {r} /\ TimeOf[r] = now /\ LaneOf[r] \notin blocked
  BY DEF NodeFold
<1>2. r \notin gone
  <2>1. LaneOf[r] \in Lanes
    BY RowsHaveLanes
  <2>2. now \in Nat /\ start_at(cursors, LaneOf[r]) \in Nat /\ start_at(cursors, LaneOf[r]) <= now
    BY <2>1 DEF FillIInv, FillTypeOK, CursorPart, Past, Cursors, Times, start_at
  <2> QED BY <1>1, <2>2 DEF ErasedIInv, GonePart
<1>3. Open' = Open \cup {r} /\ Backed' = Backed
  BY <1>1 DEF Open, Active, Backed
<1>4. Back' = Back /\ (MayReturn' => MayReturn)
  BY <1>1, <1>2, <1>3 DEF Back, MayReturn, Stray, Row
<1>5. CountPart'
  BY <1>1, <1>4, CountHolds DEF ErasedIInv
<1> QED BY <1>1, <1>3, <1>5 DEF ErasedIInv, SyncPart, HandPart, Walking, Wiped, GonePart, ErasePart, start_at

\* What the user accepts is no longer gone.
LEMMA AcceptErases ==
  ASSUME FillIInv, ErasedIInv, NEW c \in Contacts, Accept(c)
  PROVE  ErasedIInv'
<1>1. /\ UNCHANGED <<archive, store, cursors, erase_epoch, fill, erase, erases>>
      /\ convs[c] = "invited" /\ convs' = [convs EXCEPT ![c] = "active"] /\ blocked' = blocked \ {c}
      /\ gone' = gone \ ({c} \cup {r \in Rows : c \in blocked /\ LaneOf[r] = c})
  BY DEF Accept
<1>2. convs \in [Contacts -> {"none", "invited", "active"}]
  BY HandTypes
<1>3. Backed' = Backed /\ Active' = Active \cup {c}
  BY <1>1, <1>2 DEF Backed, Active
<1>4. Open' = Open \cup {c}
  BY <1>1, <1>3 DEF Open
<1>5. Back' \subseteq Back
  BY <1>1, <1>4 DEF Back
<1>6. MayReturn' => MayReturn
  <2> SUFFICES ASSUME NEW x \in Stray', x \in gone', x \notin Open'
               PROVE  MayReturn
    BY DEF MayReturn
  <2>1. x \in gone /\ x \notin Open
    BY <1>1, <1>4
  <2>2. x \in Stray
    <3>1. CASE fill.pc = "look"
      <4>1. x = Row /\ LaneOf[x] \notin blocked \ {c}
        BY <1>1, <3>1 DEF Stray, Row
      <4>2. x \in Rows
        BY <3>1, <4>1, RowAtHand DEF FillIInv, BackupPart
      <4> QED BY <1>1, <3>1, <4>1, <4>2 DEF Stray
    <3>2. CASE fill.pc # "look"
      BY <1>1, <3>2 DEF Stray, Row
    <3> QED BY <3>1, <3>2
  <2> QED BY <2>1, <2>2 DEF MayReturn
<1>7. CountPart'
  BY <1>1, <1>5, <1>6, CountHolds DEF ErasedIInv
<1>8. GonePart'
  <2> SUFFICES ASSUME NEW r \in gone' \cap Rows, LaneOf[r] \notin blocked'
               PROVE  TimeOf[r] < start_at(cursors, LaneOf[r])
    BY <1>1 DEF GonePart, start_at
  <2>1. r \in gone /\ LaneOf[r] \notin blocked
    BY <1>1
  <2> QED BY <2>1 DEF ErasedIInv, GonePart
<1>9. ErasePart'
  <2>1. erase.pc # "off" /\ erase.kind = "block" => erase.of # c
    BY <1>1 DEF ErasedIInv, ErasePart
  <2> QED BY <1>1, <1>2, <2>1 DEF ErasedIInv, ErasePart
<1> QED BY <1>1, <1>3, <1>7, <1>8, <1>9 DEF ErasedIInv, SyncPart, HandPart, Walking, Wiped

---------------------------------------------------------------------------

LEMMA ErasedStarts ==
  ASSUME FillInit
  PROVE  ErasedIInv
<1>1. gone = {} /\ erases = 0 /\ fill.pc = "off" /\ fill.epoch = 0 /\ erase.pc = "off" /\ erase_epoch = 0
  BY DEF FillInit, Off, NoErase
<1>2. Back = {} /\ ~MayReturn
  BY <1>1 DEF Back, MayReturn
<1>3. CountPart
  BY <1>1, <1>2, FS_EmptySet DEF CountPart, One
<1> QED BY <1>1, <1>3 DEF ErasedIInv, SyncPart, HandPart, GonePart, ErasePart, Walking

LEMMA ErasedStepKeeps ==
  ASSUME FillIInv, FillIInv', ErasedIInv, [FillNext]_fill_vars
  PROVE  ErasedIInv'
<1>1. CASE Filling
  BY <1>1, StartErases, BeginErases, StopErases, PhaseErases, WalkErases, OpenErases, TakeErases, RestoreErases,
     ProvedErases, RefoldErases, NextErases, InboundErases, RecordErases, LaneEndErases, SaveErases DEF Filling
<1>2. CASE UserErases
  BY <1>2, WipeErases, ClearErases, BlockErases, SealBlockErases, EraseErases DEF UserErases
<1>3. CASE fold_skip \/ Tick \/ LockVault \/ UnlockVault \/ UNCHANGED fill_vars
  <2>1. UNCHANGED <<archive, kept, cursors, erase_epoch, fill, erase, gone, erases>>
    BY <1>3 DEF fold_skip, Tick, LockVault, UnlockVault, fill_vars, kept
  <2> QED BY <2>1, RestErases
<1>4. CASE FillDies
  BY <1>4, DeathErases
<1>5. CASE (\E r \in Rows : Arrives(r) \/ NodeFold(r)) \/ (\E c \in Contacts : Accept(c))
  BY <1>5, ArrivalErases, NodeErases, AcceptErases
<1> QED BY <1>1, <1>2, <1>3, <1>4, <1>5 DEF FillNext

\* What is back is among what has a way back.
LEMMA ErasedCounts ==
  ASSUME FillIInv, ErasedIInv
  PROVE  ErasedStaysErased
<1> DEFINE came == gone \cap (store \cup Active)
<1>1. came \subseteq Back /\ IsFiniteSet(Back) /\ Cardinality(Back) \in Nat /\ erases \in Nat
  BY BackIsFinite DEF Back, Open
<1>2. Cardinality(came) <= Cardinality(Back) /\ Cardinality(came) \in Nat
  BY <1>1, FS_Subset, FS_CardinalityType
<1>3. Cardinality(Back) <= erases
  BY <1>1 DEF ErasedIInv, CountPart, One
<1> QED BY <1>1, <1>2, <1>3 DEF ErasedStaysErased

\* However wipes, clears and blocks fall into running catch-ups, with failed writes
\* and deaths between their steps, at most one row or thread per erase comes back:
\* what the floor that seal_erasure saves first, the generation it moves on, the
\* checks of ERASE_EPOCH before each row and each restored thread, and the block
\* list looked up under the store's lock are for.
THEOREM ErasureHolds == FillSpec => []ErasedStaysErased
<1>1. FillInit => FillIInv /\ ErasedIInv
  BY FillStarts, ErasedStarts
<1>2. FillIInv /\ ErasedIInv /\ [FillNext]_fill_vars => FillIInv' /\ ErasedIInv'
  BY FillStepKeeps, ErasedStepKeeps
<1>3. FillIInv /\ ErasedIInv => ErasedStaysErased
  BY ErasedCounts
<1> QED BY <1>1, <1>2, <1>3, PTL DEF FillSpec

=============================================================================
