----------------------------- MODULE Acceptance -----------------------------
(***************************************************************************)
(* The acceptance tracker (rust/chain/src/acceptance.rs): the log of       *)
(* watched transactions, the live stream of chain changes that moves them, *)
(* the walk from the cursor on disk that recovers what the stream missed,  *)
(* the message walk's pages as a memory feed, and the process's death.     *)
(*                                                                         *)
(* The chain is a tree of blocks given by the constants; the node's sink   *)
(* moves to blocks of higher score, which may lie on another branch.  A    *)
(* batch is what one chain change removed and added.  Clocks are choices:  *)
(* a window may have run out, a throttle may hold, whenever it matters.    *)
(***************************************************************************)
EXTENDS Naturals, FiniteSets, Sequences

CONSTANTS
  Blocks, Genesis,
  Chain,       \* Chain[b]: the blocks of the selected chain that ends in b
  Score,       \* Score[b]: b's blue score
  Txids,       \* transactions that may be watched
  Accepts,     \* Accepts[b]: the ones b accepts
  None,
  Terminal,    \* TERMINAL_DEPTH_BLUE
  PageCap,     \* chain blocks the node puts in a page, VCC_TIP_PAGE_THRESHOLD here
  MaxPages,    \* MAX_VCC_CATCHUP_PAGES
  MaxFaults,   \* bound: failed writes and node calls, dropped watches, lost
               \* connections and deaths of the process, together, by how many
               \* of the transactions are messages
  MaxRefused   \* bound: faults up to which a write of the message walk's word fails

ASSUME ChainIsATree ==
  /\ Genesis \in Blocks /\ None \notin Blocks
  /\ Chain \in [Blocks -> SUBSET Blocks]
  /\ Score \in [Blocks -> Nat]
  /\ Accepts \in [Blocks -> SUBSET Txids]
  /\ \A b \in Blocks : b \in Chain[b] /\ \A c \in Chain[b] : Chain[c] \subseteq Chain[b]
  /\ \A b \in Blocks : IsFiniteSet(Chain[b]) /\ \A c \in Chain[b] : c # b => Score[c] < Score[b]
  /\ \A b \in Blocks : \A c, d \in Chain[b] : c \in Chain[d] \/ d \in Chain[c]
  /\ \A b \in Blocks : \A c, d \in Chain[b] : c # d => Accepts[c] \cap Accepts[d] = {}

\* What TERMINAL_DEPTH_BLUE stands for: no change of the chain reaches that deep.
ASSUME ReorgsAreShallow ==
  \A b, c \in Blocks : Score[b] < Score[c] => \A d \in Chain[b] \ Chain[c] : Score[b] < Score[d] + Terminal

\* The message walk starts at the sink there is: what was accepted before is not its news.
ASSUME NothingBefore == \A b \in Chain[Genesis] : Accepts[b] = {}

ASSUME NoneIsNoRecord ==
  /\ None \notin [st : {"submitted", "accepted", "displaced", "finalized"}, at : Blocks \cup {None}, score : Nat]
  /\ None \notin [st : {"accepted", "displaced"}, at : Blocks]

ASSUME AcceptanceBounds ==
  /\ IsFiniteSet(Txids)
  /\ Terminal \in Nat \ {0} /\ PageCap \in Nat \ {0} /\ MaxPages \in Nat \ {0}
  /\ MaxFaults \in [0..Cardinality(Txids) -> Nat] /\ MaxRefused \in Nat

VARIABLES
  Messages,  \* the transactions of WatchSource::Transport, chosen at the start: the
             \* ones with a message payload, which the message walk names
  \* the node and the socket
  sink,      \* the node's sink
  up,        \* the socket is connected, its scopes registered
  reconn,    \* a Connected event the run loop has not taken yet
  feed,      \* vcc_rx: live batches and message pages, in order
  page,      \* the message walk's answered page, not handed over yet
  mpos,      \* the message walk's cursor
  known,     \* messages the hub has folded
  \* on disk
  rec,       \* log.records
  cursor,    \* vcc.cursor
  \* TrackerState and AcceptanceTracker
  index,     \* by_accepting_block
  sinkBlue,  \* sink_blue; 0: none seen yet
  ahead,     \* ahead: first acceptances read while a walk runs
  off,       \* off_chain
  memory,    \* matched
  frozen,    \* frozen, and TrackerState.depth_held with it
  owed,      \* force_owed
  \* the run loop
  walk,      \* the walk from the cursor, and walking
  again,     \* walk_again
  held,      \* held_back
  fold,      \* the batch being folded
  \* the consumers, and histories
  tomb,      \* messages the transport store has tombstoned
  late,      \* sends watched only after a block had accepted them
  torn,      \* something outstanding was cut off, a gap was given up, or a write of the
             \* message walk's word was refused
  missed,    \* what a walk from the cursor cannot make good: a batch folded in part
             \* brought back blocks below it, or removed blocks beyond it
  faults

node == <<Messages, sink, up, reconn, feed, page, mpos, known>>
disk == <<rec, cursor>>
maps == <<index, ahead, off>>
hold == <<frozen, owed>>
loop == <<walk, again, held, fold>>
hist == <<tomb, late, torn, missed>>
tracker_vars == <<node, disk, maps, sinkBlue, memory, hold, loop, hist, faults>>

Sends == Txids \ Messages    \* the ones of WatchSource::Send

Submitted == [st |-> "submitted", at |-> None, score |-> 0]
Displaced(b) == [st |-> "displaced", at |-> b, score |-> 0]
Accepted(b, s) == [st |-> "accepted", at |-> b, score |-> s]
Finalized(r) == [r EXCEPT !.st = "finalized"]
IsAccepted(t) == rec[t] # None /\ rec[t].st = "accepted"

NoWalk == [pc |-> "off", at |-> None, clean |-> TRUE, pages |-> 0]
NoFold == [by |-> "none", added |-> {}, todo |-> {}, seen |-> {}, complete |-> TRUE]

\* What a chain change from one sink to another removes and adds.
Batch(from, to) == [kind |-> "vcc", removed |-> Chain[from] \ Chain[to], added |-> Chain[to] \ Chain[from]]
Last(S) == CHOOSE b \in S : \A c \in S : Score[c] <= Score[b]
First(S) == CHOOSE b \in S : \A c \in S : Score[b] <= Score[c]

\* walking: no depth is claimed and no window runs out.
Walking == walk.pc # "off"
\* The run loop is in its select, in no handler's await.
LoopFree == fold.by # "live" /\ walk.pc # "drain"

Budget == MaxFaults[Cardinality(Messages)]
Spends(n, bound) == (n > 0 => faults + n <= bound) /\ faults' = faults + n
Fault(n) == Spends(n, Budget)
\* n writes of the message walk's word fail.
Refused(n) == Spends(n, MaxRefused)

---------------------------------------------------------------------------
\* The fold of a batch

\* on_removed(): F are the transactions whose write fails; they stay indexed.
on_removed(R, F) ==
  LET hit == UNION {index[b] : b \in R} IN
  /\ F \subseteq hit
  /\ rec' = [t \in Txids |-> IF t \in hit \ F THEN Displaced(rec[t].at) ELSE rec[t]]
  /\ index' = [b \in Blocks |-> IF b \in R THEN index[b] \cap F ELSE index[b]]

\* The transactions of T that on_accepted(b) would move.
Moved(b, T) == {t \in T : rec[t] # None /\ ~(IsAccepted(t) /\ rec[t].at = b)}

\* Mutant of on_accepted: the transaction stays in its old block's index entry.
on_acceptedTwice(b, s, T, F) ==
  LET landed == Moved(b, T) \ F IN
  /\ F \subseteq Moved(b, T)
  /\ rec' = [t \in Txids |-> IF t \in landed THEN Accepted(b, s) ELSE rec[t]]
  /\ index' = [index EXCEPT ![b] = @ \cup landed]
  /\ ahead' = ahead \ landed
  /\ tomb' = tomb \ landed

\* on_accepted(): the write, then the index, the guards and the Accepted event.
on_accepted(b, s, T, F) ==
  LET landed == Moved(b, T) \ F IN
  /\ F \subseteq Moved(b, T)
  /\ rec' = [t \in Txids |-> IF t \in landed THEN Accepted(b, s) ELSE rec[t]]
  /\ index' = [c \in Blocks |-> IF c = b THEN index[c] \cup landed ELSE index[c] \ landed]
  /\ ahead' = ahead \ landed
  /\ tomb' = tomb \ landed

\* fold_batch() up to its first await: removals, note_added, the two filters.
FoldBegins(who, batch) ==
  \E F \in SUBSET Txids :
    LET seen == {t \in Txids : rec[t] # None} IN
    /\ on_removed(batch.removed, F) /\ Fault(Cardinality(F))
    /\ off' = (off \cup batch.removed) \ batch.added
    /\ missed' = (missed \/ \E t \in F : cursor = None \/ rec[t].at \notin Chain[cursor])
    /\ fold' = [by |-> who, added |-> batch.added, complete |-> F = {},
                seen |-> seen,
                todo |-> {b \in batch.added : Accepts[b] \cap seen # {}}]
    /\ UNCHANGED ahead

\* read_accepting_block(): the block's own facts; a sink score in their place; none.
read_accepting_block(b, s) ==
  \/ s = Score[b] /\ UNCHANGED <<sinkBlue, faults>>
  \/ s = sinkBlue /\ sinkBlue # 0 /\ Fault(1) /\ UNCHANGED sinkBlue
  \/ s = Score[sink] /\ up /\ sinkBlue = 0 /\ Fault(1) /\ sinkBlue' = s

\* One accepting block of the batch, in chain order.
FoldBlock ==
  /\ fold.by # "none" /\ fold.todo # {}
  /\ LET b == First(fold.todo)
         T == Accepts[b] \cap fold.seen IN
     \/ /\ \E s \in {Score[c] : c \in Blocks} :
             /\ read_accepting_block(b, s)
             /\ on_accepted(b, s, T, {})
        /\ fold' = [fold EXCEPT !.todo = @ \ {b}]
     \/ /\ \E F \in (SUBSET T) \ {{}} : on_accepted(b, Score[b], T, F) /\ Fault(Cardinality(F))
        /\ fold' = [fold EXCEPT !.todo = @ \ {b}, !.complete = FALSE]
        /\ UNCHANGED sinkBlue
     \/ /\ sinkBlue = 0 /\ Fault(1)
        /\ fold' = [fold EXCEPT !.todo = @ \ {b}, !.complete = @ /\ T = {}]
        /\ UNCHANGED <<rec, index, ahead, tomb, sinkBlue>>
  /\ UNCHANGED <<node, cursor, off, memory, hold, walk, again, held, late, torn, missed>>

\* fold_batch() returns: whether the log holds an acceptance at an added block.
Carries == \E b \in fold.added : index[b] # {}

\* write_cursor(): a forced write that fails is owed, a throttled one is skipped.
write_cursor(b, force, was) ==
  \/ cursor' = b /\ owed' = was /\ UNCHANGED faults
  \/ ~force /\ owed' = was /\ UNCHANGED <<cursor, faults>>
  \/ force /\ owed' = TRUE /\ Fault(1) /\ UNCHANGED cursor

---------------------------------------------------------------------------
\* Live batches

\* A live batch is folded at once when no walk runs, in its turn after one.
TakesBatch ==
  /\ fold.by = "none"
  /\ \/ /\ ~Walking /\ feed # <<>> /\ Head(feed).kind = "vcc"
        /\ FoldBegins("live", Head(feed)) /\ feed' = Tail(feed) /\ UNCHANGED held
     \/ /\ walk.pc = "drain" /\ held # <<>> /\ Head(held).kind = "vcc"
        /\ FoldBegins("live", Head(held)) /\ held' = Tail(held) /\ UNCHANGED feed
  /\ torn' = (torn \/ reconn \/ again)
  /\ UNCHANGED <<Messages, sink, up, reconn, page, mpos, known, cursor, sinkBlue, memory, hold, walk, again, tomb, late>>

\* Mutant of FoldLive: the cursor's throttle holds for every batch.
FoldLiveThrottled ==
  /\ fold.by = "live" /\ fold.todo = {} /\ fold' = NoFold
  /\ \/ ~fold.complete /\ frozen' = TRUE /\ UNCHANGED <<cursor, owed, faults>>
     \/ fold.complete /\ (frozen \/ fold.added = {}) /\ UNCHANGED <<cursor, hold, faults>>
     \/ /\ fold.complete /\ ~frozen /\ fold.added # {}
        /\ write_cursor(Last(fold.added), FALSE, FALSE)
        /\ UNCHANGED frozen
  /\ missed' = (missed \/ (~fold.complete /\ cursor # None /\ fold.added \cap Chain[cursor] # {}))
  /\ UNCHANGED <<node, rec, maps, sinkBlue, memory, walk, again, held, tomb, late, torn>>

\* Mutant of FoldLive: an incomplete batch does not hold the cursor.
FoldLiveRuns ==
  /\ fold.by = "live" /\ fold.todo = {} /\ fold' = NoFold
  /\ \/ fold.added = {} /\ UNCHANGED <<cursor, owed, faults>>
     \/ fold.added # {} /\ write_cursor(Last(fold.added), Carries \/ owed, FALSE)
  /\ UNCHANGED <<node, rec, maps, sinkBlue, memory, frozen, walk, again, held, hist>>

\* The rest of fold_live(): an incomplete batch holds the cursor, a complete one
\* moves it, at once when the log has an acceptance there or a write is owed.
FoldLive ==
  /\ fold.by = "live" /\ fold.todo = {} /\ fold' = NoFold
  /\ \/ ~fold.complete /\ frozen' = TRUE /\ UNCHANGED <<cursor, owed, faults>>
     \/ fold.complete /\ (frozen \/ fold.added = {}) /\ UNCHANGED <<cursor, hold, faults>>
     \/ /\ fold.complete /\ ~frozen /\ fold.added # {}
        /\ write_cursor(Last(fold.added), Carries \/ owed, FALSE)
        /\ UNCHANGED frozen
  /\ missed' = (missed \/ (~fold.complete /\ cursor # None /\ fold.added \cap Chain[cursor] # {}))
  /\ UNCHANGED <<node, rec, maps, sinkBlue, memory, walk, again, held, tomb, late, torn>>

\* awaits_first_acceptance(): a send of ours, submitted still.
awaits_first_acceptance(t) == t \in Sends /\ rec[t] = Submitted

\* A walk runs: what arrives is held back; fold_ahead() reads a send's first
\* acceptance out of a live batch (a block it cannot read is left).
HoldsBack ==
  /\ walk.pc \in {"page", "fold"} /\ feed # <<>>
  /\ feed' = Tail(feed) /\ held' = Append(held, Head(feed))
  /\ LET due == {t \in Txids : /\ awaits_first_acceptance(t) /\ Head(feed).kind = "vcc"
                               /\ \E b \in Head(feed).added : t \in Accepts[b]} IN
     \/ ahead' = ahead \cup due /\ UNCHANGED <<sinkBlue, faults>>
     \/ due # {} /\ sinkBlue = 0 /\ Fault(1) /\ UNCHANGED <<ahead, sinkBlue>>
     \/ due # {} /\ sinkBlue = 0 /\ up /\ Fault(1) /\ ahead' = ahead \cup due /\ sinkBlue' = Score[sink]
  /\ UNCHANGED <<Messages, sink, up, reconn, page, mpos, known, disk, index, off, memory, hold, walk, again, fold, hist>>

---------------------------------------------------------------------------
\* The walk from the cursor

\* walk(): created by a start, a reconnect, a held cursor's tick; walking from here on.
Begun == [NoWalk EXCEPT !.pc = "page", !.at = cursor]

\* What catch_up() leaves to the loop: what was held back is folded first.
WalkStops == walk' = [NoWalk EXCEPT !.pc = "drain"]

\* The cursor is re-seeded at the sink and the gap behind it given up; or not,
\* when the node does not answer.
Reseeds(gap) ==
  \/ /\ up /\ write_cursor(sink, TRUE, owed) /\ frozen' = FALSE
     /\ torn' = (torn \/ gap)
  \/ (up => faults < Budget) /\ faults' = (IF up THEN faults + 1 ELSE faults)
     /\ torn' = (torn \/ gap) /\ UNCHANGED <<cursor, hold>>

\* catch_up() without a cursor: it seeds one and is done.
WalkSeeds ==
  /\ walk.pc = "page" /\ walk.at = None /\ WalkStops
  /\ Reseeds(\E t \in Txids : rec[t] # None)
  /\ UNCHANGED <<node, rec, maps, sinkBlue, memory, again, held, fold, tomb, late, missed>>

\* The page the node answers with from a cursor: PageCap blocks of the path at most.
PageOf(at) ==
  LET path == Chain[sink] \ Chain[at] IN
  [kind |-> "vcc", removed |-> Chain[at] \ Chain[sink],
   added |-> {b \in path : Cardinality({c \in path : Score[c] < Score[b]}) < PageCap}]

\* catch_up_page() answered.
WalkPage ==
  /\ walk.pc = "page" /\ walk.at # None /\ up
  /\ FoldBegins("walk", PageOf(walk.at))
  /\ walk' = [walk EXCEPT !.pc = "fold"]
  /\ UNCHANGED <<node, cursor, sinkBlue, memory, hold, again, held, tomb, late, torn>>

\* keeps_hold(); the pruning horizon is never passed within a behaviour.
keeps_hold == frozen

\* Its attempts are spent: a held cursor keeps its hold, another is re-seeded.
WalkUnanswered ==
  /\ walk.pc = "page" /\ walk.at # None /\ WalkStops
  /\ \/ ~up /\ UNCHANGED <<cursor, hold, torn, faults>>
     \/ up /\ keeps_hold /\ Fault(1) /\ UNCHANGED <<cursor, hold, torn>>
     \/ /\ up /\ ~keeps_hold /\ Fault(1) /\ torn' = TRUE /\ UNCHANGED hold
        /\ cursor' = sink \/ UNCHANGED cursor   \* get_sink() fails too
  /\ UNCHANGED <<node, rec, maps, sinkBlue, memory, again, held, fold, tomb, late, missed>>

\* Mutant of WalkFolded: a last page with nothing in it settles no hold.
WalkFoldedIdle ==
  LET clean == walk.clean /\ fold.complete
      at == IF fold.added = {} THEN walk.at ELSE Last(fold.added)
      done == Cardinality(fold.added) < PageCap
      spent == walk.pages + 1 = MaxPages IN
  /\ fold.by = "walk" /\ fold.todo = {} /\ fold' = NoFold
  /\ \/ /\ ~done /\ ~spent
        /\ walk' = [pc |-> "page", at |-> at, clean |-> clean, pages |-> walk.pages + 1]
        /\ IF clean THEN write_cursor(at, TRUE, owed) ELSE UNCHANGED <<cursor, owed, faults>>
        /\ frozen' = (frozen \/ ~clean) /\ UNCHANGED torn
     \/ /\ done /\ WalkStops
        /\ IF clean /\ fold.added # {} THEN write_cursor(at, TRUE, owed) ELSE UNCHANGED <<cursor, owed, faults>>
        /\ frozen' = (IF fold.added = {} THEN frozen \/ ~clean ELSE ~clean) /\ UNCHANGED torn
     \/ /\ ~done /\ spent /\ ~clean /\ WalkStops
        /\ frozen' = TRUE /\ UNCHANGED <<cursor, owed, torn, faults>>
     \/ /\ ~done /\ spent /\ clean /\ WalkStops
        /\ \/ up /\ write_cursor(sink, TRUE, owed) /\ frozen' = FALSE /\ torn' = TRUE
           \/ ~up /\ write_cursor(at, TRUE, owed) /\ UNCHANGED <<frozen, torn>>
  /\ UNCHANGED <<node, rec, maps, sinkBlue, memory, again, held, tomb, late, missed>>

\* A page folded: the cursor follows while every page so far was complete; a
\* short page ends the walk and settles the hold; so does the page budget.
WalkFolded ==
  LET clean == walk.clean /\ fold.complete
      at == IF fold.added = {} THEN walk.at ELSE Last(fold.added)
      done == Cardinality(fold.added) < PageCap
      spent == walk.pages + 1 = MaxPages IN
  /\ fold.by = "walk" /\ fold.todo = {} /\ fold' = NoFold
  /\ \/ /\ ~done /\ ~spent
        /\ walk' = [pc |-> "page", at |-> at, clean |-> clean, pages |-> walk.pages + 1]
        /\ IF clean THEN write_cursor(at, TRUE, owed) ELSE UNCHANGED <<cursor, owed, faults>>
        /\ frozen' = (frozen \/ ~clean) /\ UNCHANGED torn
     \/ /\ done /\ WalkStops
        /\ IF clean /\ fold.added # {} THEN write_cursor(at, TRUE, owed) ELSE UNCHANGED <<cursor, owed, faults>>
        /\ frozen' = ~clean /\ UNCHANGED torn
     \/ /\ ~done /\ spent /\ ~clean /\ WalkStops
        /\ frozen' = TRUE /\ UNCHANGED <<cursor, owed, torn, faults>>
     \/ /\ ~done /\ spent /\ clean /\ WalkStops
        /\ \/ up /\ write_cursor(sink, TRUE, owed) /\ frozen' = FALSE /\ torn' = TRUE
           \/ ~up /\ write_cursor(at, TRUE, owed) /\ UNCHANGED <<frozen, torn>>
  /\ UNCHANGED <<node, rec, maps, sinkBlue, memory, again, held, tomb, late, missed>>

\* What was held back is folded: the walk's mark is dropped, ahead is cleared.
WalkEnds ==
  /\ walk.pc = "drain" /\ held = <<>> /\ fold.by = "none"
  /\ walk' = (IF again THEN Begun ELSE NoWalk) /\ again' = FALSE
  /\ ahead' = {}
  /\ UNCHANGED <<node, disk, index, off, sinkBlue, memory, hold, held, fold, hist, faults>>

\* Connected: a walk, or one more after the one that runs.
TakesConnected ==
  /\ reconn /\ LoopFree /\ reconn' = FALSE
  /\ IF Walking THEN again' = TRUE /\ UNCHANGED walk ELSE walk' = Begun /\ UNCHANGED again
  /\ UNCHANGED <<Messages, sink, up, feed, page, mpos, known, disk, maps, sinkBlue, memory, hold, held, fold, hist, faults>>

\* A tick under a held cursor: a walk, the backoff allowing it.
TickWalks ==
  /\ frozen /\ ~Walking /\ LoopFree /\ walk' = Begun
  /\ UNCHANGED <<node, disk, maps, sinkBlue, memory, hold, again, held, fold, hist, faults>>

---------------------------------------------------------------------------
\* The message walk's pages

\* The transactions a page names.
MatchedIn(p) == {t \in Messages : \E b \in p.added : t \in Accepts[b]}

\* The node answers the message walk and the hub folds the page.  It may be older
\* than live batches that reach the tracker first.
PageAnswered ==
  /\ Messages # {} /\ up /\ page = None /\ mpos # sink
  /\ page' = [kind |-> "walk", removed |-> Chain[mpos] \ Chain[sink], added |-> Chain[sink] \ Chain[mpos], to |-> sink]
  /\ known' = known \cup (MatchedIn(page'))
  /\ UNCHANGED <<Messages, sink, up, reconn, feed, mpos, disk, maps, sinkBlue, memory, hold, loop, hist, faults>>

\* feed_tracker(), after the fold; then the walk commits its cursor.
PageFed ==
  /\ page # None /\ page' = None /\ mpos' = page.to
  /\ feed' = IF page.removed = {} /\ MatchedIn(page) = {} THEN feed ELSE Append(feed, page)
  /\ UNCHANGED <<Messages, sink, up, reconn, known, disk, maps, sinkBlue, memory, hold, loop, hist, faults>>

\* walk_accepted(): the walk speaks for a message that is not accepted, never
\* onto a block the live stream has removed.
walk_accepted(b, t) ==
  /\ rec[t] # None /\ rec[t].st \in {"submitted", "displaced"}
  /\ t \in Messages /\ b \notin off

\* What the memory has of a transaction: the last word of the walk's pages.
Word(p, t) ==
  LET by == {b \in p.added : t \in Accepts[b]} IN
  IF by = {} THEN (IF memory[t] # None /\ memory[t].at \in p.removed
                   THEN [memory[t] EXCEPT !.st = "displaced"] ELSE memory[t])
  ELSE [st |-> IF Last(by) \in off THEN "displaced" ELSE "accepted", at |-> Last(by)]

\* fold_walk(): removals reach the memory only; matches the log, where the stream
\* cannot have spoken (F: writes that fail, not tried again), and the memory; the
\* block's own facts replace a stand-in score.
FoldWalk ==
  \E p \in {Head(q) : q \in {feed, held} \ {<<>>}}, F \in SUBSET Messages :
    LET at == [t \in MatchedIn(p) |-> Last({b \in p.added : t \in Accepts[b]})]
        moved == {t \in MatchedIn(p) : walk_accepted(at[t], t)}
        exact == {t \in MatchedIn(p) : IsAccepted(t) /\ rec[t].at = at[t]} IN
    /\ p.kind = "walk" /\ fold.by = "none"
    /\ \/ ~Walking /\ feed # <<>> /\ p = Head(feed) /\ feed' = Tail(feed) /\ UNCHANGED held
       \/ walk.pc = "drain" /\ held # <<>> /\ p = Head(held) /\ held' = Tail(held) /\ UNCHANGED feed
    /\ F \subseteq moved /\ Refused(Cardinality(F)) /\ torn' = (torn \/ F # {})
    /\ rec' = [t \in Txids |-> IF t \in (moved \ F) \cup exact THEN Accepted(at[t], Score[at[t]]) ELSE rec[t]]
    /\ index' = [b \in Blocks |-> index[b] \cup {t \in moved \ F : at[t] = b}]
    /\ tomb' = tomb \ (moved \ F)
    /\ memory' = [t \in Messages |-> Word(p, t)]
    /\ UNCHANGED <<Messages, sink, up, reconn, page, mpos, known, cursor, ahead, off, sinkBlue, hold, walk, again, fold, late, missed>>

---------------------------------------------------------------------------
\* Watches

\* watch() of a send: the ordered stream's alone.
WatchSend(t) ==
  /\ t \in Sends /\ rec[t] = None
  /\ rec' = [rec EXCEPT ![t] = Submitted]
  /\ late' = IF \E b \in Blocks : Score[b] <= Score[sink] /\ t \in Accepts[b] THEN late \cup {t} ELSE late
  /\ UNCHANGED <<node, cursor, maps, sinkBlue, memory, hold, loop, tomb, torn, faults, missed>>

\* watch() of a message: registered as submitted, then what the walk's pages said of
\* it, if they did; a block the stream has removed since makes it displaced.  When
\* that second write fails the message stays submitted, and no later watch() retries.
WatchMessage(t) ==
  /\ t \in known /\ rec[t] = None
  /\ LET word == memory[t] IN
     \/ /\ word = None
        /\ rec' = [rec EXCEPT ![t] = Submitted] /\ UNCHANGED <<index, tomb, torn, faults>>
     \/ /\ word # None /\ Refused(1)
        /\ rec' = [rec EXCEPT ![t] = Submitted] /\ torn' = TRUE /\ UNCHANGED <<index, tomb>>
     \/ /\ word # None /\ (word.st = "displaced" \/ word.at \in off)
        /\ rec' = [rec EXCEPT ![t] = Displaced(word.at)] /\ UNCHANGED <<index, tomb, torn, faults>>
     \/ /\ word # None /\ word.st = "accepted" /\ word.at \notin off
        /\ rec' = [rec EXCEPT ![t] = Accepted(word.at, Score[word.at])]
        /\ index' = [index EXCEPT ![word.at] = @ \cup {t}]
        /\ tomb' = tomb \ {t} /\ UNCHANGED <<torn, faults>>
  /\ UNCHANGED <<node, cursor, ahead, off, sinkBlue, memory, hold, loop, late, missed>>

\* drop_watch(): the watch cap's oldest, or one beyond the pruning horizon.
DropWatch(t) ==
  /\ rec[t] # None /\ Fault(1) /\ rec' = [rec EXCEPT ![t] = None]
  /\ index' = [b \in Blocks |-> index[b] \ {t}]
  /\ UNCHANGED <<node, cursor, ahead, off, sinkBlue, memory, hold, loop, hist>>

---------------------------------------------------------------------------
\* The score, the windows

\* Whether depth may be claimed: no hold, no walk.
claims_depth == ~frozen /\ ~Walking

\* A SinkBlueScore event.  Deep acceptances are finalized and leave the index, but
\* for those whose write fails.  No batch waits for as long as TERMINAL_DEPTH_BLUE takes.
on_sink_blue ==
  /\ up /\ ~reconn /\ LoopFree /\ (Walking \/ feed = <<>>)
  /\ claims_depth \/ sinkBlue = 0
  /\ sinkBlue' = Score[sink]
  /\ \E F \in SUBSET Txids :
       LET deep == {t \in Txids : IsAccepted(t) /\ rec[t].score + Terminal <= Score[sink]}
           final == IF claims_depth THEN deep \ F ELSE {} IN
       /\ F \subseteq deep /\ (~claims_depth => F = {}) /\ Fault(Cardinality(F))
       /\ rec' = [t \in Txids |-> IF t \in final THEN Finalized(rec[t]) ELSE rec[t]]
       /\ index' = [b \in Blocks |-> index[b] \ final]
  /\ UNCHANGED <<node, cursor, ahead, off, memory, hold, loop, hist>>

\* The score read before anything folds (run), best effort.
PrimesScore ==
  /\ up /\ sinkBlue = 0 /\ walk.pc = "page" /\ sinkBlue' = Score[sink]
  /\ UNCHANGED <<node, disk, maps, memory, hold, loop, hist, faults>>

\* tick(): a displaced message's window has run out.
TickElapses(t) ==
  /\ LoopFree /\ ~Walking
  /\ t \in Messages \ tomb /\ rec[t] # None /\ rec[t].st = "displaced"
  /\ tomb' = tomb \cup {t}
  /\ UNCHANGED <<node, disk, maps, sinkBlue, memory, hold, loop, late, torn, faults, missed>>

---------------------------------------------------------------------------
\* The node, the socket, the process

\* The node's sink moves; a connected socket carries the change.
SinkMoves ==
  \E b \in Blocks :
    /\ Score[b] > Score[sink] /\ sink' = b
    /\ feed' = IF up THEN Append(feed, Batch(sink, b)) ELSE feed
  /\ UNCHANGED <<Messages, up, reconn, page, mpos, known, disk, maps, sinkBlue, memory, hold, loop, hist, faults>>

\* Something a cut connection leaves behind: a batch not folded, an acceptance that
\* the cursor on disk does not cover, or a held cursor on a branch that left the
\* chain: if that branch comes back, no walk from the cursor hears of its blocks.
Outstanding ==
  \/ feed # <<>> \/ held # <<>> \/ fold.by # "none" \/ page # None
  \/ \E t \in Txids : IsAccepted(t) /\ (cursor = None \/ rec[t].at \notin Chain[cursor])
  \/ \E t \in Messages : memory[t] # None /\ (cursor = None \/ memory[t].at \notin Chain[cursor])
  \/ off # {} /\ (cursor = None \/ off \cap Chain[cursor] # {})
  \/ frozen /\ cursor # None /\ ~(Chain[cursor] \subseteq Chain[sink])

\* The socket is lost.
Drops ==
  /\ up /\ Fault(1) /\ up' = FALSE
  /\ torn' = (torn \/ Outstanding)
  /\ UNCHANGED <<Messages, sink, reconn, feed, page, mpos, known, disk, maps, sinkBlue, memory, hold, loop, tomb, late, missed>>

\* A socket, its scopes registered; then the Connected event.
Connects ==
  /\ ~up /\ up' = TRUE /\ reconn' = TRUE
  /\ UNCHANGED <<Messages, sink, feed, page, mpos, known, disk, maps, sinkBlue, memory, hold, loop, hist, faults>>

\* The process dies; load() rebuilds the index from the log and run() walks.
TrackerDies ==
  /\ Fault(1)
  /\ up' = FALSE /\ reconn' = FALSE /\ feed' = <<>> /\ page' = None
  /\ index' = [b \in Blocks |-> {t \in Txids : IsAccepted(t) /\ rec[t].at = b}]
  /\ ahead' = {} /\ off' = {} /\ sinkBlue' = 0
  /\ memory' = [t \in Messages |-> None]
  /\ frozen' = FALSE /\ owed' = FALSE
  /\ walk' = Begun /\ again' = FALSE /\ held' = <<>> /\ fold' = NoFold
  /\ torn' = (torn \/ Outstanding \/ \E t \in Messages : memory[t] # None)
  /\ UNCHANGED <<Messages, sink, mpos, known, disk, tomb, late, missed>>

TrackerInit ==
  /\ Messages \in SUBSET Txids
  /\ sink = Genesis /\ up = TRUE /\ reconn = FALSE /\ feed = <<>> /\ page = None /\ mpos = Genesis /\ known = {}
  /\ rec = [t \in Txids |-> None] /\ cursor \in {None, Genesis}
  /\ index = [b \in Blocks |-> {}] /\ ahead = {} /\ off = {} /\ sinkBlue = 0
  /\ memory = [t \in Messages |-> None]
  /\ frozen = FALSE /\ owed = FALSE
  /\ walk = Begun /\ again = FALSE /\ held = <<>> /\ fold = NoFold
  /\ tomb = {} /\ late = {} /\ torn = FALSE /\ missed = FALSE
  /\ faults = 0

Task ==
  \/ TakesBatch \/ FoldBlock \/ FoldLive \/ HoldsBack \/ FoldWalk
  \/ WalkSeeds \/ WalkPage \/ WalkUnanswered \/ WalkFolded \/ WalkEnds \/ TakesConnected

TrackerNext ==
  \/ Task \/ TickWalks \/ PageAnswered \/ PageFed
  \/ \E t \in Txids : WatchSend(t) \/ WatchMessage(t) \/ DropWatch(t) \/ TickElapses(t)
  \/ on_sink_blue \/ PrimesScore
  \/ SinkMoves \/ Drops \/ Connects \/ TrackerDies

TrackerSpec == TrackerInit /\ [][TrackerNext]_tracker_vars

\* Every task of the runtime is polled; the link is brought back up; a held
\* cursor's tick comes.  Nothing is assumed of the chain, faults, drops, deaths.
FairTrackerSpec == TrackerSpec /\ WF_tracker_vars(Task) /\ WF_tracker_vars(TickWalks) /\ WF_tracker_vars(Connects)

---------------------------------------------------------------------------
\* Properties

Records == {None} \cup [st : {"submitted", "accepted", "displaced", "finalized"}, at : Blocks \cup {None}, score : Nat]

TrackerTypeOK ==
  /\ sink \in Blocks /\ up \in BOOLEAN /\ reconn \in BOOLEAN /\ mpos \in Blocks /\ known \subseteq Messages
  /\ rec \in [Txids -> Records] /\ cursor \in Blocks \cup {None}
  /\ index \in [Blocks -> SUBSET Txids] /\ ahead \subseteq Sends /\ off \subseteq Blocks
  /\ sinkBlue \in Nat /\ frozen \in BOOLEAN /\ owed \in BOOLEAN
  /\ walk.pc \in {"off", "page", "fold", "drain"} /\ walk.at \in Blocks \cup {None}
  /\ fold.by \in {"none", "live", "walk"} /\ fold.todo \subseteq fold.added /\ fold.added \subseteq Blocks
  /\ tomb \subseteq Txids /\ late \subseteq Sends /\ torn \in BOOLEAN /\ missed \in BOOLEAN

\* Everything that was delivered is folded.
Quiet ==
  /\ up /\ ~reconn /\ ~Walking /\ fold.by = "none"
  /\ feed = <<>> /\ held = <<>> /\ page = None

\* The index from accepting blocks to transactions is the records' own, after
\* displacement, finality, a dropped watch and a restart: a removed block finds
\* exactly what it must displace (on_removed).
IndexMatches == \A b \in Blocks : index[b] = {t \in Txids : IsAccepted(t) /\ rec[t].at = b}

\* Finalized by a score no lower than its block's own; by a stand-in that was stale
\* it may be finalized early (read_accepting_block).
IsFinal(t) == rec[t] # None /\ rec[t].st = "finalized" /\ Score[rec[t].at] <= rec[t].score

\* A tracker with nothing left to fold calls no transaction accepted at a block
\* that left the chain, also one that left while the socket was down: on_removed
\* displaces it from a live batch or from the catch-up walk.
NoStaleAcceptance ==
  Quiet /\ ~torn /\ ~missed /\ ~frozen =>
    \A t \in Txids : IsAccepted(t) \/ IsFinal(t) => rec[t].at \in Chain[sink]

\* A send on the chain, watched before a block accepted it.
Settled(t) ==
  rec[t] # None /\ (\E b \in Chain[sink] : t \in Accepts[b]) => rec[t].st \in {"accepted", "finalized"}

\* A send whose block is on the chain is not left submitted or displaced: live
\* batches held back while a walk runs, and folded after it, neither lose its
\* acceptance nor undo it (run, fold_ahead, acceptance.rs:1650).
SendsSettle == Quiet /\ ~torn /\ ~missed /\ ~frozen => \A t \in Sends \ late : Settled(t)

\* Nor is a message, whose acceptance comes from the message walk's pages, before
\* or after its watch, and is remembered until it has one (walk_accepted,
\* MatchedMemory), once that walk stands at the sink.
MessagesSettle ==
  Quiet /\ ~torn /\ ~missed /\ ~frozen /\ mpos = sink =>
    \A t \in Messages : rec[t] # None /\ (\E b \in Chain[sink] : t \in Accepts[b]) => rec[t].st # "submitted"

\* The block of every acceptance is behind the cursor on disk, so the walk of a
\* restart would see it leave the chain (write_cursor's throttle and its holds).
CursorCovers ==
  Quiet /\ ~torn /\ ~missed /\ ~frozen /\ ~owed =>
    \A t \in Sends : IsAccepted(t) => cursor # None /\ rec[t].at \in Chain[cursor]

\* A displaced message that is accepted again has its tombstone reversed, in
\* whatever order the walk, the live batches and the watch bring the news.
TombstonesReversed == \A t \in tomb : ~IsAccepted(t)

\* A cursor held over a batch that did not fold whole is released: each tick
\* starts the walk it needs (run, keeps_hold, release_cursor).
HoldHeals == frozen ~> ~frozen

\* The tracker's consistency in every state: its types, the index, and no ghost
\* left on a message that is accepted.
TrackerInv == TrackerTypeOK /\ IndexMatches /\ TombstonesReversed

\* With nothing left to fold the records agree with the node's chain, both ways:
\* what they call accepted is on it, and what is on it they call accepted,
\* whatever order batches, pages, the message walk's word, restarts and watches
\* came in.
AgreesWithChain == NoStaleAcceptance /\ SendsSettle /\ MessagesSettle
=============================================================================
