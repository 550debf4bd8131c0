---------------------------- MODULE HistoryFill ----------------------------
(***************************************************************************)
(* The catch-up that reads missed history from an indexer: `run_fill` and  *)
(* its walks (rust/bridge/src/api/transport.rs), the pager and the cursors *)
(* (rust/chain/src/history_fill.rs), and the three erases of the user that *)
(* race it: wipe, clear one thread, block one contact.                     *)
(*                                                                         *)
(* A row of the archive is its number; rows are numbered in the order of   *)
(* their block times.  It belongs to one lane: the owner's backups, the    *)
(* handshakes to one of our addresses, or the messages of one contact.  A  *)
(* conversation is named by its contact.  One run walks at a time.         *)
(*                                                                         *)
(* Init, Next and what else the message walk (Walk.tla) names too begin    *)
(* with Fill here: one module proves about both catch-ups.                 *)
(***************************************************************************)
EXTENDS Naturals, FiniteSets, FiniteSetsExt

CONSTANTS
  Rows,       \* numbers, in the order of their block times
  Owner,      \* the backup lane's key, receive/0
  Addresses,  \* our receive addresses: the handshake lanes
  Contacts,   \* the conversations: the message lanes
  LaneOf,     \* LaneOf[r]: the key of the lane row r is served in
  TimeOf,     \* TimeOf[r]: its block time
  About,      \* About[r]: the contacts a backup lists, a handshake brings, a message is from
  Foreign,    \* rows no key of ours opens, or whose sender is not the contact
  PageLimit,  \* PAGE_LIMIT
  PageBudget, \* PAGE_BUDGET
  None,
  MaxTime,    \* bound: the clock
  MaxRuns,    \* bound: runs of the fill
  MaxErases,  \* bound: erases of the user
  MaxFaults   \* bound: locks, failed writes, skips and deaths, together

Lanes == {Owner} \cup Addresses \cup Contacts

ASSUME RowsAreNumbers == Rows \subseteq Nat \ {0} /\ IsFiniteSet(Rows)
ASSUME RowsInOrder == \A r, s \in Rows : r < s => TimeOf[r] <= TimeOf[s]
ASSUME RowsHaveLanes ==
  \A r \in Rows : LaneOf[r] \in Lanes /\ About[r] \subseteq Contacts /\ TimeOf[r] \in Nat
ASSUME ContactsAreNames == IsFiniteSet(Contacts) /\ Contacts \cap Rows = {}
ASSUME LimitsAreNumbers ==
  /\ {PageLimit, PageBudget} \subseteq Nat \ {0}
  /\ {MaxTime, MaxRuns, MaxErases, MaxFaults} \subseteq Nat

VARIABLES
  now,      \* the clock, which block times are read against
  archive,  \* rows the indexer has
  unlocked, \* the vault is live
  store,    \* rows kept in the message log
  convs,    \* convs[c]: "none", "invited" (PendingInbound, no address) or "active"
  blocked,  \* the block list
  cursors,  \* fill.cursors: the floor, and each lane's position
  erase_epoch, \* ERASE_EPOCH
  skips,    \* WALK_SKIPS
  last,     \* LAST_FILL, as [complete, due, skips]
  fill,     \* the run under way
  erase,    \* the erase under way
  dealt,    \* rows a fold recorded or settled, or an erase covered
  gone,     \* rows and contacts an erase took out and closed off
  runs, erases, faults

fill_vars == <<now, archive, unlocked, store, convs, blocked, cursors, erase_epoch, skips, last,
          fill, erase, dealt, gone, runs, erases, faults>>
kept == <<store, convs, blocked>>

Active == {c \in Contacts : convs[c] = "active"}

NoReport == [complete |-> FALSE, due |-> {}, skips |-> 0]

Off == [pc |-> "off", phase |-> "stash", epoch |-> 0, cur |-> [floor |-> 0, at |-> [k \in Lanes |-> 0]],
        todo |-> {}, lane |-> None, start |-> 0, items |-> {}, top |-> 0, whole |-> TRUE,
        held |-> {}, newest |-> 0, pay |-> {}, complete |-> TRUE, skips |-> 0, due |-> {}]

NoErase == [pc |-> "off", kind |-> "none", of |-> None, sealed |-> FALSE, floor |-> 0]

---------------------------------------------------------------------------
\* The pager

\* start_at: a lane's own position, never below the floor.
start_at(cur, k) == IF cur.at[k] < cur.floor THEN cur.floor ELSE cur.at[k]

\* One page: the first rows of the lane at the cursor or after it.
PageAt(k, cursor) ==
  LET served == {r \in archive : LaneOf[r] = k /\ TimeOf[r] >= cursor}
  IN  {r \in served : Cardinality({s \in served : s < r}) < PageLimit}

\* One page more, unless one has ended the walk: a short page drains the lane, a
\* full one of rows all seen is a wall.
NextPage(k, w) ==
  LET page == PageAt(k, w.top)
  IN  IF w.ends THEN w
      ELSE [items |-> w.items \cup page,
            top   |-> Max({w.top} \cup {TimeOf[r] : r \in page}),
            ends  |-> Cardinality(page) < PageLimit \/ page \subseteq w.items,
            whole |-> Cardinality(page) < PageLimit]

\* walk_pages after n pages, up to the page that ends it.
AfterPages(k, from) ==
  LET after[n \in 0..PageBudget] ==
        IF n = 0 THEN [items |-> {}, top |-> from, ends |-> FALSE, whole |-> FALSE]
        ELSE NextPage(k, after[n - 1])
  IN  after

---------------------------------------------------------------------------
\* The run

Fault == faults < MaxFaults /\ faults' = faults + 1

Step(f) == fill' = f
Leaves == <<now, archive, unlocked, erase_epoch, skips, erase, runs, erases>>

\* A walk whose store was erased under it ends with nothing more written.
abandon_wiped_walk == [Off EXCEPT !.pc = "report", !.complete = FALSE]

Wiped == erase_epoch # fill.epoch

\* run_fill past its guards; counted_fill reads the skips before the walk.
run_fill ==
  /\ fill.pc = "off" /\ unlocked /\ runs < MaxRuns
  /\ runs' = runs + 1
  /\ Step([Off EXCEPT !.pc = "begin", !.skips = skips,
             !.due = {r \in archive : LaneOf[r] \in Contacts => LaneOf[r] \in Active}])
  /\ UNCHANGED <<now, archive, unlocked, kept, cursors, erase_epoch, skips, last, erase, dealt, gone,
                 erases, faults>>

\* run_fill while the vault is locked.
RefuseLocked ==
  /\ ~unlocked /\ last.complete
  /\ last' = NoReport
  /\ UNCHANGED <<kept, cursors, fill, dealt, gone, faults, Leaves>>

\* The generation and the cursors that belong to it, read under ERASE_GATE.
gated_walk_start ==
  /\ fill.pc = "begin"
  /\ Step([fill EXCEPT !.pc = "lane", !.epoch = erase_epoch, !.cur = cursors, !.todo = {Owner}])
  /\ UNCHANGED <<kept, cursors, last, dealt, gone, faults, Leaves>>

\* The vault is found locked before a lane: the phase's other lanes are left.
StopLocked ==
  /\ fill.pc = "lane" /\ fill.todo # {} /\ ~unlocked
  /\ Step([fill EXCEPT !.todo = {}, !.complete = FALSE])
  /\ UNCHANGED <<kept, cursors, last, dealt, gone, faults, Leaves>>

\* A phase is done.  The addresses need the vault: without it the run ends, and
\* saves nothing.  The threads are the ones active in the store by then.
NextPhase ==
  /\ fill.pc = "lane" /\ fill.todo = {}
  /\ CASE fill.phase = "stash" ->
            IF unlocked THEN Step([fill EXCEPT !.phase = "shakes", !.todo = Addresses])
                        ELSE Step([Off EXCEPT !.pc = "report", !.complete = FALSE])
       [] fill.phase = "shakes" -> Step([fill EXCEPT !.phase = "comms", !.todo = Active])
       [] OTHER -> Step([fill EXCEPT !.pc = "save", !.phase = "stash"])
  /\ UNCHANGED <<kept, cursors, last, dealt, gone, faults, Leaves>>

\* One lane's walk_pages, to its end or to a fetch that fails.
WalkLane(k) ==
  /\ fill.pc = "lane" /\ k \in fill.todo /\ unlocked
  /\ LET from  == start_at(fill.cur, k)
         after == AfterPages(k, from)
     IN  \E n \in 0..PageBudget :
           /\ IF after[n] = after[PageBudget] THEN n = PageBudget /\ UNCHANGED faults ELSE Fault
           /\ Step([fill EXCEPT !.pc = IF fill.phase = "stash" THEN "open" ELSE "next",
                      !.todo = @ \ {k}, !.lane = k, !.start = from, !.items = after[n].items,
                      !.top = after[n].top, !.whole = after[n].whole,
                      !.held = {}, !.newest = 0, !.pay = {}])
  /\ UNCHANGED <<kept, cursors, last, dealt, gone, Leaves>>

---------------------------------------------------------------------------
\* The backup lane

\* One backup is opened and its author proved; the newest is kept.
OpenBackup ==
  /\ fill.pc = "open" /\ fill.items # {}
  /\ LET r == Min(fill.items)
         f == [fill EXCEPT !.items = @ \ {r}]
     IN  IF ~unlocked THEN Step([f EXCEPT !.held = @ \cup {TimeOf[r]}]) /\ UNCHANGED dealt
         ELSE IF r \in Foreign THEN Step(f) /\ dealt' = dealt \cup {r}
         ELSE /\ Step([f EXCEPT !.newest = r])
              /\ dealt' = dealt \cup ({fill.newest} \ {0})
  /\ UNCHANGED <<kept, cursors, last, gone, faults, Leaves>>

\* Only a walk that drained restores from the newest it saw.
TakeNewest ==
  /\ fill.pc = "open" /\ fill.items = {}
  /\ CASE fill.newest = 0 -> Step([fill EXCEPT !.pc = "prove"])
       [] fill.newest # 0 /\ ~fill.whole ->
            Step([fill EXCEPT !.pc = "prove", !.held = @ \cup {fill.start}])
       [] OTHER -> IF Wiped THEN Step(abandon_wiped_walk)
                   ELSE Step([fill EXCEPT !.pc = "restore", !.pay = About[fill.newest]])
  /\ UNCHANGED <<kept, cursors, last, dealt, gone, faults, Leaves>>

\* The check before each conversation of the snapshot.
RestoreNext ==
  /\ fill.pc = "restore"
  /\ Step(CASE fill.pay = {} -> [fill EXCEPT !.pc = "prove"]
            [] fill.pay # {} /\ Wiped -> abandon_wiped_walk
            [] OTHER -> [fill EXCEPT !.pc = "refold"])
  /\ UNCHANGED <<kept, cursors, last, dealt, gone, faults, Leaves>>

\* fold_stash_row: creates or refuses, never merges.
fold_stash_row(c) ==
  /\ fill.pc = "refold" /\ c \in fill.pay
  /\ LET f == [fill EXCEPT !.pc = "restore", !.pay = @ \ {c}]
     IN  IF c \in blocked \/ convs[c] # "none" THEN Step(f) /\ UNCHANGED <<convs, faults>>
         ELSE \/ Step(f) /\ convs' = [convs EXCEPT ![c] = "active"] /\ UNCHANGED faults
              \/ Step([f EXCEPT !.held = @ \cup {0}]) /\ Fault /\ UNCHANGED convs
  /\ UNCHANGED <<store, blocked, cursors, last, dealt, gone, Leaves>>

\* The check at the coverage's commit point.  The newest has been restored, unless
\* the walk was cut or one of its conversations could not be written (held at 0).
Proved ==
  /\ fill.pc = "prove"
  /\ Step(IF Wiped THEN abandon_wiped_walk ELSE [fill EXCEPT !.pc = "next"])
  /\ dealt' = IF ~Wiped /\ fill.whole /\ 0 \notin fill.held THEN dealt \cup ({fill.newest} \ {0}) ELSE dealt
  /\ UNCHANGED <<kept, cursors, last, gone, faults, Leaves>>

---------------------------------------------------------------------------
\* One row of a handshake or message lane

Row == Min(fill.items)

Settled == Step([fill EXCEPT !.pc = "next", !.items = @ \ {Row}]) /\ dealt' = dealt \cup {Row}

Held == /\ Step([fill EXCEPT !.pc = "next", !.items = @ \ {Row}, !.held = @ \cup {TimeOf[Row]}])
        /\ UNCHANGED dealt

\* The check before each row.
FoldNext ==
  /\ fill.pc = "next" /\ fill.items # {}
  /\ Step(IF Wiped THEN abandon_wiped_walk ELSE [fill EXCEPT !.pc = "look"])
  /\ UNCHANGED <<kept, cursors, last, dealt, gone, faults, Leaves>>

\* What handle_inbound refuses before it decrypts: a row it has, and a message
\* that routes to no thread it may be written in.
Refuses(r) ==
  \/ r \in store
  \/ LaneOf[r] \in Contacts /\ (convs[LaneOf[r]] # "active" \/ LaneOf[r] \in blocked)

\* handle_inbound to its decrypt.
handle_inbound ==
  /\ fill.pc = "look"
  /\ \/ Refuses(Row) /\ Settled /\ UNCHANGED faults
     \/ ~Refuses(Row) /\ ~unlocked /\ Held /\ UNCHANGED faults
     \/ LaneOf[Row] \in Addresses /\ Row \notin store /\ Held /\ Fault  \* not in our window yet
     \/ ~Refuses(Row) /\ unlocked /\ Row \in Foreign /\ Settled /\ UNCHANGED faults
     \/ /\ ~Refuses(Row) /\ unlocked /\ Row \notin Foreign
        /\ Step([fill EXCEPT !.pc = "record"]) /\ UNCHANGED <<dealt, faults>>
  /\ UNCHANGED <<kept, cursors, last, gone, Leaves>>

\* A message is recorded under the store's lock, and the block looked up again by
\* its conversation's address: one that has gone since is not looked up.
RecordComm ==
  /\ fill.pc = "record" /\ LaneOf[Row] \in Contacts
  /\ LET c == LaneOf[Row]
     IN  IF Row \in store \/ convs[c] = "invited" \/ (convs[c] = "active" /\ c \in blocked)
         THEN Settled /\ UNCHANGED <<store, faults>>
         ELSE \/ Settled /\ store' = store \cup {Row} /\ UNCHANGED faults
              \/ Held /\ Fault /\ UNCHANGED store
  /\ UNCHANGED <<convs, blocked, cursors, last, gone, Leaves>>

\* A handshake becomes an invitation without an address, unless its alias is
\* known.  A failed append is logged, and the row counted as recorded.
RecordHandshake ==
  /\ fill.pc = "record" /\ LaneOf[Row] \in Addresses
  /\ Settled
  /\ LET brought == {c \in About[Row] : convs[c] = "none"}
         invited == [c \in Contacts |-> IF c \in brought THEN "invited" ELSE convs[c]]
     IN  \/ brought = {} /\ UNCHANGED <<store, convs, faults>>
         \/ brought # {} /\ store' = store \cup {Row} /\ convs' = invited /\ UNCHANGED faults
         \/ /\ brought # {} /\ Fault
            /\ \/ store' = store \cup {Row} /\ UNCHANGED convs
               \/ UNCHANGED store /\ convs' = invited
  /\ UNCHANGED <<blocked, cursors, last, gone, Leaves>>

\* Mutant of resume_from: the lane's position is the highest row fetched.
resume_past(f) == f.top

\* HeldFloor: never past the lowest row that was held.
resume_from(f) == Min(f.held \cup {f.top})

LaneEnd ==
  /\ fill.pc = "next" /\ fill.items = {}
  /\ LET resume == resume_from(fill)
     IN  Step([Off EXCEPT !.pc = "lane", !.phase = fill.phase, !.epoch = fill.epoch,
                 !.todo = fill.todo, !.due = fill.due, !.skips = fill.skips,
                 !.cur = IF resume > fill.start THEN [fill.cur EXCEPT !.at[fill.lane] = resume]
                                                ELSE fill.cur,
                 !.complete = fill.complete /\ fill.whole /\ fill.held = {}])
  /\ UNCHANGED <<kept, cursors, last, dealt, gone, faults, Leaves>>

Reported == [Off EXCEPT !.pc = "report", !.complete = fill.complete, !.due = fill.due, !.skips = fill.skips]

\* Mutant of SaveCursors: no look at the generation before the save.
SaveCursorsBlind ==
  /\ fill.pc = "save"
  /\ Step(Reported)
  /\ cursors' = fill.cur
  /\ UNCHANGED <<kept, last, dealt, gone, faults, Leaves>>

\* The last commit point, under ERASE_GATE.
SaveCursors ==
  /\ fill.pc = "save"
  /\ \/ Wiped /\ Step(abandon_wiped_walk) /\ UNCHANGED <<cursors, faults>>
     \/ ~Wiped /\ Step(Reported) /\ cursors' = fill.cur /\ UNCHANGED faults
     \/ ~Wiped /\ Step(Reported) /\ UNCHANGED cursors /\ Fault
  /\ UNCHANGED <<kept, last, dealt, gone, Leaves>>

\* A report and its look at the skips, under LAST_FILL's lock.
store_fill_report ==
  /\ fill.pc = "report"
  /\ last' = IF fill.complete /\ skips = fill.skips
             THEN [complete |-> TRUE, due |-> fill.due, skips |-> fill.skips] ELSE NoReport
  /\ Step(Off)
  /\ UNCHANGED <<kept, cursors, dealt, gone, faults, Leaves>>

fold_skip ==
  /\ Fault
  /\ skips' = skips + 1
  /\ last' = NoReport
  /\ UNCHANGED <<now, archive, unlocked, kept, cursors, erase_epoch, fill, erase, dealt, gone, runs, erases>>

---------------------------------------------------------------------------
\* The user's erases

Erasing == <<now, archive, unlocked, skips, last, fill, runs>>

\* The floor, or the position, goes to disk first; then the generation moves on.
\* A save that fails is reported, and the erase goes on.
seal_erasure(at, e, covers) ==
  /\ erase_epoch' = erase_epoch + 1
  /\ \/ cursors' = at /\ erase' = [e EXCEPT !.sealed = TRUE] /\ dealt' = dealt \cup covers
        /\ UNCHANGED faults
     \/ Fault /\ erase' = e /\ UNCHANGED <<cursors, dealt>>

Sealed(kind, c) == [pc |-> "rows", kind |-> kind, of |-> c, sealed |-> FALSE, floor |-> now]

transport_wipe_all ==
  /\ erase.pc = "off" /\ erases < MaxErases /\ erases' = erases + 1
  /\ seal_erasure([floor |-> now, at |-> [k \in Lanes |-> IF k \in Contacts THEN 0 ELSE cursors.at[k]]],
                  Sealed("wipe", None), {r \in archive : TimeOf[r] < now})
  /\ UNCHANGED <<kept, gone, Erasing>>

transport_clear_messages(c) ==
  /\ erase.pc = "off" /\ erases < MaxErases /\ erases' = erases + 1
  /\ convs[c] # "none"
  /\ seal_erasure([cursors EXCEPT !.at[c] = now], Sealed("clear", c),
                  {r \in archive : LaneOf[r] = c /\ TimeOf[r] < now})
  /\ UNCHANGED <<kept, gone, Erasing>>

\* The refusal is written first.
transport_block_conversation(c) ==
  /\ erase.pc = "off" /\ erases < MaxErases /\ erases' = erases + 1
  /\ convs[c] = "active"
  /\ blocked' = blocked \cup {c}
  /\ erase' = [Sealed("block", c) EXCEPT !.pc = "seal"]
  /\ UNCHANGED <<store, convs, cursors, erase_epoch, dealt, gone, faults, Erasing>>

SealBlock ==
  /\ erase.pc = "seal"
  /\ seal_erasure([cursors EXCEPT !.at[erase.of] = 0], [erase EXCEPT !.pc = "rows"], {})
  /\ UNCHANGED <<kept, gone, erases, Erasing>>

\* The rows an erase is about, and the contacts.
Covered ==
  CASE erase.kind = "wipe"  -> [rows |-> store, contacts |-> Contacts]
    [] erase.kind = "clear" -> [rows |-> {r \in store : LaneOf[r] = erase.of}, contacts |-> {}]
    [] OTHER -> [rows |-> {r \in store : LaneOf[r] = erase.of \/
                             (LaneOf[r] \in Addresses /\ About[r] = {erase.of})},
                 contacts |-> {erase.of}]

\* What a finished erase closed off: what the floor it saved keeps out, or the
\* block list refuses.
ClosedOff ==
  LET older(r) == TimeOf[r] < erase.floor
      backed(c) == \E r \in archive : LaneOf[r] = Owner /\ c \in About[r] /\ ~older(r)
  IN  IF erase.kind = "block" THEN {r \in Covered.rows : LaneOf[r] = erase.of}
      ELSE IF ~erase.sealed THEN {}
      ELSE {r \in Covered.rows : older(r)} \cup
           {c \in Covered.contacts : convs[c] # "none" /\ ~backed(c)}

\* The store's part, under its lock: all of it, or a write fails on the way: some
\* rows have gone and no conversation has.  A wipe empties the message log whole.
EraseRows ==
  /\ erase.pc = "rows"
  /\ erase' = NoErase
  /\ \/ /\ store' = store \ Covered.rows
        /\ convs' = [c \in Contacts |-> IF c \in Covered.contacts THEN "none" ELSE convs[c]]
        /\ gone' = gone \cup ClosedOff
        /\ dealt' = dealt \cup {r \in archive : LaneOf[r] \in Covered.contacts}
        /\ UNCHANGED faults
     \/ /\ Fault /\ UNCHANGED <<convs, gone, dealt>>
        /\ \E some \in IF erase.kind = "wipe" THEN {{}, Covered.rows} ELSE SUBSET Covered.rows :
             store' = store \ some
  /\ UNCHANGED <<blocked, cursors, erase_epoch, erases, Erasing>>

---------------------------------------------------------------------------
\* Around them

Tick ==
  /\ now < MaxTime /\ now' = now + 1
  /\ UNCHANGED <<archive, unlocked, kept, cursors, erase_epoch, skips, last, fill, erase, dealt, gone,
                 runs, erases, faults>>

\* A row reaches the chain and the indexer; a backup lists the threads there are.
Arrives(r) ==
  /\ r \notin archive /\ TimeOf[r] = now
  /\ LaneOf[r] = Owner => About[r] = Active
  /\ archive' = archive \cup {r}
  /\ UNCHANGED <<now, unlocked, kept, cursors, erase_epoch, skips, last, fill, erase, dealt, gone,
                 runs, erases, faults>>

\* The node's own lane records a message as it comes in.
NodeFold(r) ==
  /\ r \in archive \ (store \cup Foreign) /\ TimeOf[r] = now /\ unlocked
  /\ LaneOf[r] \in Active \ blocked
  /\ store' = store \cup {r}
  /\ UNCHANGED <<now, archive, unlocked, convs, blocked, cursors, erase_epoch, skips, last, fill, erase,
                 dealt, gone, runs, erases, faults>>

\* The user accepts: the contact is there again, and a block on it is lifted.
Accept(c) ==
  /\ unlocked /\ convs[c] = "invited"
  /\ convs' = [convs EXCEPT ![c] = "active"]
  /\ blocked' = blocked \ {c}
  /\ gone' = gone \ ({c} \cup {r \in Rows : c \in blocked /\ LaneOf[r] = c})
  /\ UNCHANGED <<now, archive, unlocked, store, cursors, erase_epoch, skips, last, fill, erase,
                 dealt, runs, erases, faults>>

LockVault ==
  /\ unlocked /\ Fault /\ unlocked' = FALSE
  /\ UNCHANGED <<now, archive, kept, cursors, erase_epoch, skips, last, fill, erase, dealt, gone, runs, erases>>

UnlockVault ==
  /\ ~unlocked /\ unlocked' = TRUE
  /\ UNCHANGED <<now, archive, kept, cursors, erase_epoch, skips, last, fill, erase, dealt, gone, runs,
                 erases, faults>>

\* The process dies: what it held in memory is gone.
FillDies ==
  /\ Fault
  /\ unlocked' = FALSE /\ erase_epoch' = 0 /\ skips' = 0
  /\ last' = NoReport /\ fill' = Off /\ erase' = NoErase
  /\ UNCHANGED <<now, archive, kept, cursors, dealt, gone, runs, erases>>

FillInit ==
  /\ now = 0 /\ archive = {r \in Rows : TimeOf[r] = 0} /\ unlocked = TRUE
  /\ store = {} /\ blocked = {}
  /\ \E s \in {"none", "active"} : convs = [c \in Contacts |-> s]   \* a fresh device, or one in use
  /\ cursors = [floor |-> 0, at |-> [k \in Lanes |-> 0]]
  /\ erase_epoch = 0 /\ skips = 0 /\ last = NoReport
  /\ fill = Off /\ erase = NoErase
  /\ dealt = {} /\ gone = {} /\ runs = 0 /\ erases = 0 /\ faults = 0

Filling ==
  \/ run_fill \/ RefuseLocked \/ gated_walk_start \/ StopLocked \/ NextPhase
  \/ \E k \in Lanes : WalkLane(k)
  \/ OpenBackup \/ TakeNewest \/ RestoreNext \/ Proved
  \/ \E c \in Contacts : fold_stash_row(c)
  \/ FoldNext \/ handle_inbound \/ RecordComm \/ RecordHandshake
  \/ LaneEnd \/ SaveCursors \/ store_fill_report

UserErases ==
  \/ transport_wipe_all \/ SealBlock \/ EraseRows
  \/ \E c \in Contacts : transport_clear_messages(c) \/ transport_block_conversation(c)

FillNext ==
  \/ Filling \/ UserErases \/ fold_skip \/ Tick \/ LockVault \/ UnlockVault \/ FillDies
  \/ \E r \in Rows : Arrives(r) \/ NodeFold(r)
  \/ \E c \in Contacts : Accept(c)

FillSpec == FillInit /\ [][FillNext]_fill_vars

---------------------------------------------------------------------------
\* Properties

Times == 0..MaxTime
Cursors == [floor : Times, at : [Lanes -> Times]]

Fills ==
  [pc : {"off", "begin", "lane", "open", "restore", "refold", "prove", "next", "look", "record", "save", "report"},
   phase : {"stash", "shakes", "comms"}, epoch : Nat, cur : Cursors, todo : SUBSET Lanes,
   lane : Lanes \cup {None}, start : Times, items : SUBSET Rows, top : Times, whole : BOOLEAN,
   held : SUBSET Times, newest : Rows \cup {0}, pay : SUBSET Contacts, complete : BOOLEAN,
   skips : Nat, due : SUBSET Rows]

Erasures == [pc : {"seal", "rows"}, kind : {"wipe", "clear", "block"}, of : Contacts \cup {None},
             sealed : BOOLEAN, floor : Times]
Erases == {NoErase} \cup Erasures

FillTypeOK ==
  /\ now \in Times /\ archive \subseteq Rows /\ unlocked \in BOOLEAN
  /\ store \subseteq Rows /\ blocked \subseteq Contacts
  /\ convs \in [Contacts -> {"none", "invited", "active"}]
  /\ cursors \in Cursors /\ erase_epoch \in Nat /\ skips \in Nat
  /\ last \in [complete : BOOLEAN, due : SUBSET Rows, skips : Nat]
  /\ fill \in Fills /\ erase \in Erases
  /\ dealt \subseteq Rows /\ gone \subseteq Rows \cup Contacts
  /\ runs \in 0..MaxRuns /\ erases \in 0..MaxErases /\ faults \in 0..MaxFaults

\* A lane's saved position is a promise: every row before it was recorded, was
\* settled, or is what an erase was about.  A row that met a locked vault or a
\* failed write is not passed.
CursorPromise ==
  \A r \in archive : TimeOf[r] < cursors.at[LaneOf[r]] => r \in dealt

\* A run that reads complete dealt with every row the archive had for it when it
\* started, and no skip of the node's own walk came since.
CompleteMeansAll == last.complete => last.due \subseteq dealt /\ last.skips = skips

\* The catch-up's promises in every state: no saved position, and no report,
\* speaks for a row that nobody dealt with.
FillInv == FillTypeOK /\ CursorPromise /\ CompleteMeansAll

\* What the user erased stays erased: once an erase is done, however it fell
\* into a running catch-up and whatever runs come after, a death between them
\* included, at most one row or thread for each erase comes back.
ErasedStaysErased ==
  Cardinality(gone \cap (store \cup Active)) <= erases

===========================================================================
