# Verification of KaspaVerse

KaspaVerse is a Kaspa wallet and messenger: a Rust workspace (`src/rust`: `chain`,
`core`, `bridge`, `covenant`) under a Flutter application. This directory holds TLA+
models of the parts of `chain` and `bridge` where an ordering, a crash or a lost answer can
lose money, messages or the link, TLC runs over small instances of them, and TLAPS proofs of the invariants
that the rest stands on. `PROJECT.json` maps every definition to the lines it models.

## 1. Inventory

| Component | State it keeps | Operations | Hard behaviour | What makes it correct |
|---|---|---|---|---|
| Key/value log (`kvlog.rs`, `durable.rs`) | one file, two maps, `end`, `cut_owed`, `held`, `removed` | load, append, upsert, remove, tombstone, wipe, compact | death and power loss inside a write, half-written frames, damage, a second writer | file and memory never disagree; an acknowledged write is found by every later open; nothing unreadable is cut without a copy |
| In-flight sends (`wallet_sync.rs`, `sends_store.rs`) | legs of unknown fate, taken, carried, their metadata, a numbered file | log a leg, note its fate, snapshot, write, load, judge by a read | writes landing out of order, death inside a submit, dropped futures | a leg that may land is on record and on disk |
| Send pipeline (`send.rs`, `spend_policy.rs`) | one stash, the commit in progress | prepare, abandon, commit | a retry after no answer | a retry conflicts with what it retries |
| Wallet lane boundary (`wallet_lane.rs`) | gate epoch, relay step, fence, counters, the list of coins at the last close | open, close, forward, admit a submit, re-arm, retire | relay, forwarder, processor, fold, reads and submits interleave freely | no frame meets a disconnected processor; no submit loses its record; pending coins are kept; transitions end |
| Lane supervisor (`wallet_sync.rs`, `lane_health.rs`, recovery in `dag_monitor.rs`) | the record of deaths and rebuilds, the dark lane, the recovery's flag and its queued request | look, rebuild, check a dark lane, re-announce, rebind, pull | threads between two atomics, wake-ups between a look and a sleep, a budget spent while a socket arrives | no death goes unserved; a lane is not dark for ever |
| Message walk (`walk.rs`) | cursor and its file, epoch, marks, failed runs, pause | arm, hold, quiesce, run, fold, commit, skip, re-seed | locks in mid-fetch and mid-fold, budgets, pages nobody can serve, death | a block is passed only when folded or named as skipped; the walk gets to the tip |
| Acceptance tracker (`acceptance.rs`) | watches and their index by block, cursor and its hold, batches held during a catch-up, the walk's remembered words | watch, fold a batch, catch up, displace, finalize | catch-up pages against live batches, branch changes while offline, restart behind a throttled cursor | a settled tracker says what the chain says |
| Foreground claims, send desk (`foreground.rs`, bridge `send.rs`, `dag.rs`) | two stashes, review and commit claims with deadlines, waiting walks | prepare, review, abandon, commit, accept, wait a turn | a release between the look and the wait, a review replaced under a commit | a send that goes out holds the socket; no claim starves a walk |
| Link (`dag_monitor.rs`, `link.rs`, `link_rpc.rs`) | the installed bind, the race and its mode, silence clocks, demotions, the pin | race, install, publish, retire, pause, resume, tap, pin, network events | events of sockets retired meanwhile, gestures that land between two awaits of the race | a live link has its socket; a dark one is hunted for; nothing takes it down without a reason |
| Transport store, message hub (`transport_store.rs`, bridge `transport.rs`) | conversations and messages in two logs, a block list | start, fold a row, wipe, clear, block, accept | an erase inside a fold, a write that fails on the way | one writer per store; what is erased stays erased |
| History fill (`history_fill.rs`, bridge `transport.rs`) | a floor and a position per lane on disk, the erase generation, the last report | walk three kinds of lanes, restore a backup, fold, hold, save, report | a lock, a failed append or an erase in the middle of a walk, a skip beside it, death | a cursor passes nothing that was not dealt with; complete means complete |
| Vault (`bridge/api/vault.rs`, `core/vault.rs`) | unlocked vault, lock epoch, lockout file, sealed blob, ceremony, pepper | unlock, confirm, re-key, create, restore, biometric entry, lock | a lock during a slow unlock, guesses on several threads, a migration beside a re-key, writes that fail | locked means locked; every wrong guess is counted and paced; the file opens with the chosen secret |
| Small stores, discovery, codecs, cryptography, covenant seam, UI, Android host, vendored client | — | — | — | not modelled, see section 7 |

They meet as follows. The **link** announces connects and disconnects; each **lane** relays
them to the pinned wallet framework's `UtxoProcessor`, which is external code. A **send**
is prepared from the lane's context, logged in the **in-flight record**, written to disk,
admitted by the lane's fence and submitted; the lane's fold and the reads of the node then
settle it. The **walk** pages the chain on the same socket and hands pages to the
**message hub**, whose stores are **key/value logs**; `lock_vault` holds the walk and
`transport_start` arms it again. The **monitor** owns the sockets: it installs, publishes and
retires them, and heals a dark lane when the **supervisor** or a pull asks. The **tracker**
follows what the walk matched and what it watches itself. A review or a commit **claims** the
socket, and both walks wait for their turn behind it.

## 2. Modules

| Module | Part | Extends / uses |
|---|---|---|
| `KvLog` | the log, its file, its environment | refines `DurableMap` |
| `DurableMap` | what a store promises its callers | — |
| `MCKvLog`, `KvLogProofs` | instances; proofs | `KvLog` |
| `SendsRecord` | in-flight record, its file, prepare and commit | — |
| `MCSendsRecord`, `SendsRecordProofs` | instances; proofs | `SendsRecord` |
| `WalletLane` | the lane boundary with the processor as environment | — |
| `MCWalletLane`, `ChainWatchProofs` | instances; proofs about the lane and the tracker | `WalletLane`, `Acceptance` |
| `Walk` | the message walk, the hub's start, the lock | — |
| `MCWalk`, `CatchUpProofs` | instance; proofs about the two catch-ups | `Walk`, `HistoryFill` |
| `Acceptance`, `MCAcceptance` | the acceptance tracker with the node's chain as environment | — |
| `Vault`, `MCVault`, `VaultProofs` | the vault session, its lockout and its file | — |
| `SendDesk`, `MCSendDesk`, `SendDeskProofs` | stashes, claims on the socket and the walks that wait | — |
| `DagMonitor`, `MCDagMonitor`, `DagMonitorProofs` | the link: binds, race, silence, gestures | — |
| `LaneSupervisor`, `MCLaneSupervisor`, `LaneSupervisorProofs` | who notices and heals a dead or dark wallet lane | — |
| `HistoryFill`, `MCHistoryFill` | the catch-up from an indexer, and the user's erases that race it | — |

### KvLog

The file is what a load would read of it: a header kind, the good frames, and what follows
them (`Rest`: nothing, a torn frame, zeros, or bad bytes with whole frames behind them).
Lengths are in units, one for a header and one for a frame, so that `end`, `file_len` and
the compaction rule keep their meaning. `synced` is how much of the file a power loss cannot
take back and `prior` the file an unsynced rename may bring back. `Load` has one disjunct per
way out of `load_with_v1`; every record operation is an append and what it does to the maps
when the append succeeds, fails half-way, is refused, or never returns. The replay is written
as "the last frame that decides a key", which is what the proofs use; `Loop` is the code's loop
and `ReplayIsTheLoop` says the two agree.

`DurableMap` says what callers rely on: a successful operation is what every later open
finds; a failed one changes nothing served and may or may not be found later. The mapping
takes the contents a later open may find from the file and every shorter one a power loss
could leave.

### SendsRecord

A transaction is its txid; what it spends, pays and costs are functions of it, so a retry built
alike is the same transaction, as in the code. `rec` holds the parts of `InFlightSends` that a
snapshot copies. `pc` is a commit's place: `recording` (its snapshot is not landed),
`recorded`, `out` (its request may have left). `queue` holds numbered snapshots that the
blocking pool writes in any order; `Lands` is `DurableFile::write` with its generation
check. `left`, `accepted` and `spent` are the network's. `Relaunch` loses the memory and
the queue, `Reload` only builds the record anew over the same writer.

### WalletLane

One lane. The relay, the forwarders, the processor, the fold, each submit, the reader and
the supervisor's replacement step on their own. The fence is tokio's fair read-write lock
(`fenceq` in arrival order); the notification lock is held by the frame being handled or
the read. The processor is external: it reads its ctl before its notifications, takes the
lock for each frame, and empties its maps when it disconnects; it may panic anywhere.

### Walk

The chain is the heights `1..tip` and only grows. A run is a sequence of steps, one per
await of `run_to_tip`, so that a lock, a start of the hub, a poke and a death fall between
any two. `run.from` is the cursor the page was asked from, `run.to` how far its lists line
up, `run.added` what the node listed. `heard` (the sink this arm read), `folded`, `skipped`
and `seed` are histories for the properties.

### Acceptance

The chain is a small tree of blocks and a sink that moves between its branches; the feed
carries the node's batches, and a walk is a sequence of pages from the cursor. The tracker's
loop is cut at its awaits: a batch begins to fold, a block's score is read, the rest is folded; a
page is asked for, answered or not, folded. `torn` marks a gap that was given up, a death or a
drop while something was outstanding, a refused write of the message walk's word (by a page of
that walk, or by the watch of a message whose word the memory had: observation 21), and a socket
whose first batch was folded before the loop saw the connect; `missed` a batch folded in part
whose loss no walk from the held cursor can make good: it brought back a block the cursor still
stood on, or it removed one the cursor had not reached and a displacement was not written. Section
4 says what they excuse and why. `late` is the set of sends watched after a block had accepted
them.

### Vault

Each call is a thread cut where the code lets another in: the wait for the gate, the sample
of the lock epoch, the slow derivation, the settlement of the attempt, the rewrite of the file,
the install. Secrets are names, some of them PINs and some weak; a sealed blob is the seed, the
secret and whether the hardware factor is in it. A write of the lockout may fail and be
dropped, as the code allows. One creating call (create or restore) is in flight at a time.

### SendDesk

Claims are ids with the time left; `wait_turn` is four steps (arm the wake-up, read the
claims, sleep, ask for the page), because its correctness is their order. A send goes from its
stash through the take of its token and the commit to its acceptance, the time-out of it, or a
refusal.

### DagMonitor

A task of the monitor runs from one suspension to the next in one step; the suspension points
are the round of probes, the hold of a winner, the dial, the subscription before a publish and
the channels of a socket's own task. A bind is a slot with its client's socket, its task and
the control events its task has not heard. The race is one record with the mode it hunts in
(cold, asked by a tap, behind a silent socket, behind a network that moved). Silence is a level
per threshold of the deadlines. Strikes and the ledger's arithmetic are a set of demoted nodes
that may grow and shrink at any time.

### LaneSupervisor

The calls of `recover_wallet_lane` run on threads. Every access to the two flags of their single
flight is a step: the report stored (`Ask`) before the holder's flag is tried (`Claim`), a report
taken (`Drain`), the flag let go (`Release`) before the report is looked for again (`Reread`). What
a call reads of the record, the lane and the socket between two of its awaits is one step (`Door`,
`Begin`, the ends of the sleeps). The supervisor wakes, arms, looks and sleeps; a wake-up through
the lane itself reaches it only if it watches that lane. A death is the processor's task, its fold,
a close nobody answers or a frame nobody takes: the supervisor treats the four alike.
`DeathsAreAsked` is the safety core of `DeathsAreServed`: while no pull has timed out, a death on
record and not held dark is with a call that will answer for it or in a request that a flight, a
call about to claim one, or one between its release and its second look still takes. It needs both
orders the code relies on (`dag_monitor.rs:4101`): with the second look before the release
(`RereadsFirst`, the mutant), or the flag tried before the report is stored, TLC finds a death that
nobody answers for.

### HistoryFill

A row of the archive is a number in the order of block times and belongs to one lane: our
backups, the handshakes to one of our addresses, or the messages of one contact. A run is cut
where the code awaits or lets a lock go: its start under the gate, each lane's pages, each
backup opened, each look at the generation, each fold before and after its decrypt, each save.
An erase is its seal (floor or position, then generation) and, later, the store's part; a block
writes its refusal first. `dealt` (rows folded, settled, or meant by an erase) and `gone` (what
a finished erase took out and closed off) are histories for the properties.

## 3. Runs

| Run | What it asks | Bounds and why they are enough |
|---|---|---|
| `kvlog_core` | types, memory = replay, tail ownership, removed bytes, refinement of `DurableMap` | two keys, two bodies, three frames, compaction from three units: an overwrite, a flag and a remove of one key beside another, a torn append, and a compaction fit |
| `kvlog_damage` | no frame behind bad bytes is cut without a copy | one damage anywhere, a launch with a broken checksum |
| `sends` | types, `OnRecord`, `OnDisk`, `RetryConflicts` | two payments to one destination over coins of different worth and a message, four snapshots, two writes waiting, one reload, one coin spent elsewhere: enough for two writes to land in the wrong order around a death, for a retry after it, and for a leg that loses its coin |
| `lane` | frames, submits, reopens, pending coins, transitions end, a replaced processor is stopped | one submit, one coin, one frame, three transitions |
| `walk` | section 4 | one block a page, budget of two pages, two failed runs, four blocks, three arms or holds, one death: a budget can be spent with blocks left, a mark can be carried over a lock and met again, an owed re-seed can be met by the next run |
| `acceptance` | section 4 | four blocks on two branches, so the sink can leave a branch and come back; one transaction, accepted on both, that is a send or a message; one fault for a send (a write, a node call, a drop, a death), and for a message one refused write of the message walk's word (`MaxRefused`); pages of one block |
| `vault` | section 4 | two threads, a word, a PIN of digits and a weak one, two wallets: a re-key beside an unlock, a lock inside either, and a death between |
| `send_desk` | section 4 | two sends over both stashes, one walk |
| `dag_monitor` | section 4 | two nodes (interchangeable), two sockets at a time, hunts of two rounds, hygiene degrades after one empty round, two gestures: a gesture inside a hunt that another one began |
| `history_fill` | section 4 | a backup, a handshake, a message now and one later, and one whose sender is not the contact; pages of two rows, two pages; two runs, one erase, one fault: an erase falls into any step of a run and another run follows it. With a backup and a message at each of two times and one contact, two erases and one fault were checked as well |
| `dag_pin` (violation) | a pinned wallet has its node's bind | as `dag_monitor` |
| `lane_supervisor` | section 4 | two calls at once, cut at the flags' accesses, one re-announce a socket, one rebuild a window, two faults, one pull that times out: a death behind a running check, a budget spent and granted |

In `kvlog_damage` one foreign event (`MaxForeign`) is a damage or another writer's bytes, and a
launch may find its checksum broken; it cannot share a run with `StoreSpec`, which a damaged
file does not keep. `lane` excuses the coins observation 13 is about and no others.

Deadlock is checked for `KvLog`, `Walk` and the modules whose cfg does not say otherwise.
`SendsRecord`, `WalletLane`, `DagMonitor`, `LaneSupervisor` and `HistoryFill` stop when their
bounds are used up (snapshot numbers, transitions, gestures, faults, runs), so it is off there;
`TransitionsEnd` is the statement about everyone waiting on everyone.

### Fairness

`WalletLane!FairSpec`: weak fairness of each task that the runtime keeps polling (relay,
forwarders, processor, fold, reader, the stop of a replaced lane) and of each submit's own
steps. Nothing is assumed of the link, of frames, of panics or of the supervisor: its
rebuild budget may leave a dead lane dark, so `TransitionsEnd` lets a dead processor be.

`Walk!FairSpec`: weak fairness of the walk's task (its node calls are bounded by timeouts),
of pokes (the chain moves about every second and each move pokes) and of the end of a pause.
Strong fairness of "a page is answered or fails" and of "the sink is read": a node that is
reached now and then. `ReachesTheTip` needs it, since a walk that never finds a socket
waits by design. Locks, starts and deaths are never fair.

`Acceptance!FairTrackerSpec`: weak fairness of the tracker's loop, its ticks and the node's answers
between faults, which are bounded. `SendDesk!FairSpec`: time passes and walks are polled;
nothing is assumed of answers or acceptances, so `WalksGoOn` rests on the claims' deadlines.
`LaneSupervisor!FairSpec`: the supervisor and the calls go on, the link finds another socket,
and a user whose lane is held dark for good pulls in the end (strong, since a pull needs a live
socket): without a pull a dark lane waits by design.

## 4. Properties

Where several invariants of a module fail for related reasons, a run checks their conjunction;
the parts keep their names and comments in the module.

Log: `MemoryIsReplay` and `OwnsItsTail` are what "append first, mutate second" and
`cut_owed` are for; `NoRemovedBytes` is the honesty of `holds_removed` after a relaunch;
`NothingCutUnseen`, `OutsideKept` about damage and second writers; `StoreSpec` the refinement.

Sends: `OnRecord`, `OnDisk` (a leg whose request has left and that can still land);
`RetryConflicts` (a payment tried once and unanswered).

Lane: `FramesMeetAConnection`; `LaneInv` (with `SubmitsReadBack`, `SubmitsFollowTheReopen`);
`PendingCoinsKept`; `LaneComesToRest` (`TransitionsEnd`, `ReplacedIsStopped`).

Walk: `WalkInv` has `NothingPassedUnsaid` (a block the cursor or its file is past was folded,
named to `on_gap`, or lies before the first seed) and `QuietWhileStarting` (no fold between
`quiesce`'s return and the arm); `CursorNeverGoesBack` (a passed mark is never landed on);
`BudgetSkipsOnlyAbsence`; `WalkEnds` (`ArmSettles`, `ReachesTheTip`).

Tracker: `TrackerInv` (`IndexMatches`, `TombstonesReversed`); `AgreesWithChain`
(`NoStaleAcceptance`, `SendsSettle`, `MessagesSettle`); `CursorCovers`; `HoldHeals`. The second is
about a tracker with nothing left to fold, and excuses the windows of observations 4, 5 and 21
and the early finalities of observation 11.

Vault: `LockWins`; `LockoutHolds` (`AttemptsCounted`: the counter on disk is short by exactly the
writes whose failure the code drops; `GuessesPaced`); `VaultInv` (`ResidentIsBlob`,
`PinsAreBound`, `OpensWithChosen`).

Desk: `DeskInv` (`CommittedOnce`, `CommitHoldsSocket`), `ReleaseWakes`, `OnePageSlips`,
`WalksGoOn`.

Link: `MonitorInv` (`LiveMeansBound`, `AwayIsDark`, `SilenceBudget`), `DarkIsHunted`,
`LinkFallsForAReason`, `TapLeaves`; `PinHolds` is the violation.

Supervisor: `SupervisorInv` (`AsleepMeansSaid`, `RebuildBudget`, `DeathsAreAsked`),
`DeathsAreServed` (a pull that times out excepted), `DarkEnds`.

Catch-up: `FillInv` has `CursorPromise` (a saved position passes only rows recorded, settled or
meant by an erase) and `CompleteMeansAll` (a report that reads complete covers every row the
archive had when its run began, and no skip came since). `ErasedStaysErased`: of what finished
erases took out and closed off, at most one item an erase comes back. The bound is the code's own
stated residual (`transport.rs:764`), and it is tight.

Every property has a mutant in `PROJECT.json`: a plausible slip in the mapped code that
TLC then reports.

### What the violation run shows

`dag_pin`: `set_pinned_node` promises to converge on every interleaving. A race that was
dialling its winner when the user pinned does not ask whose bind is installed when that dial
fails: it retires the pinned one, finds the link pinned and stands down, and nothing dials
until the watchdog, a tap or a resume.

### Observations without a run

Met while modelling, each seen as a TLC counterexample or read in the code.

1. `wipe` promises that a power loss cannot bring the old log back; `atomic_write` drops the
   result of the directory sync (`durable.rs:46`), so where that is refused it can. The runs set
   `DirSyncMayFail = FALSE`; the theorems hold for both values.
2. A plan prepared while the first commit of the same transaction waits, committed after it
   was taken and then refused, makes `forget_leg` drop the taken leg's memory
   (`wallet_sync.rs:1431`). `Overlap = FALSE` in the run and the theorems.
3. `anchor_fence` (`send.rs:1512`) asks for one coin of the unanswered legs together, its doc for
   a conflict with each: with two unanswered legs the build conflicts with one.
   `RetryConflicts` is about a payment with one.
4. `freeze_cursor`'s doc (`acceptance.rs:1726`) says the next walk "folds the batch again". If the
   throttled cursor still stands on a block that left the chain and the incomplete batch brings
   that block back, the walk from it adds nothing and the hold is released with the send still
   displaced. Its second promise, and `on_removed`'s ("folding the removal again displaces it",
   `acceptance.rs:645`), fail the other way round: an acceptance the cursor has not reached (the
   message walk's word runs ahead of it) whose block leaves the chain while the displacement's
   write fails. The walk from the older cursor never hears of that block, comes out clean, and the
   hold is released with the message still accepted off the chain, against `release_cursor`'s "The
   cursor reflects every fact again". One failed write is enough for a message, two for a send.
   `missed` marks both; `AgreesWithChain` without it is violated.
5. A new connection's batch may be folded before the loop takes the Connected event, and moves the
   cursor past the gap the walk should have started from (`torn`). A lagging event channel may
   lose the event altogether.
6. `lock_vault`'s comment (`vault.rs:1492`) names two interleavings that "both end locked"; a
   third is a call still queued at the gate when the lock lands, which samples the new epoch and
   installs. `LockWins` is about calls that had sampled.
7. `Foreground::renew` may shorten a claim without waking the walks (`foreground.rs:73`), so a
   walk can sleep past the last claim's end, at most for the time it read.
8. The transport screen's intent and plan have a mutex each (`transport.rs:432`): two prepares
   that interleave can leave a plan whose intent is another's, and it goes out without one.
9. A recovery that gave up is put on record after its last look at the lane; a lane that came up in
   between reads dark until its next start (`wallet_sync.rs:3100`).
10. A pull that times out inside a check drops the request it was serving, also one queued behind
    it, until the next report (`dag_monitor.rs:4078`).
11. `read_accepting_block` calls the sink's score that stands in for a block's own an upper bound,
    so that depth reads small (`acceptance.rs:1577`). A sink score from before the block is lower:
    the acceptance is then finalized early, and a shallow reorganisation leaves it final and off
    the chain. One `get_block` that fails is enough, seen on a tree of four blocks with
    `Terminal = 3`; `IsFinal` leaves such records out of `NoStaleAcceptance`.
12. A load serves a frame that a dying append left in the page cache without syncing it, so a
    later power loss may take back what was shown; `DurableMap` allows it, since nobody was
    told Ok. And the comment at `wallet_sync.rs:353` that a relaunch forgets the unknown legs is
    older than `load`, which brings them back.
13. The list of coins at the last close is there so that "a read re-arms them"
    (`wallet_lane.rs:567`). `extend_from_scan` runs after the read let the notification lock go
    (`wallet_sync.rs:3706`): a coin it files between a close's list and the processor's cleanup
    is in neither, and stays pending until the lane is rebuilt. `adrift` marks such coins, and
    `PendingCoinsKept` without it is violated.
14. `transport_block_conversation`'s doc says that a request already paid for "is dismissed like any other" and
    that the next handshake surfaces marked. The purge takes the contact's handshake row, no
    position of a handshake lane moves, and the fill's fresh-handshake path asks no block list,
    so the next catch-up mints the old request again, address-less and unmarked
    (`transport.rs:4999`).
15. A block that lands in a message's decrypt window purges the conversation; the re-check
    (`transport.rs:5406`) looks the block up by the address of a conversation that has gone, so
    one row is recorded for no thread.
16. A fresh invitation's append may fail and the row is reported recorded (`transport.rs:5034`),
    while `DropReason::outcome` says a failed append holds the cursor: the row counts as dealt
    with in `CursorPromise`.
17. The residual "one row per lane" is a whole conversation on the backup lane.
18. A vault that locks between the opening of an older and of a newer backup leaves the walk
    reading as drained (`transport.rs:1149`), so the older snapshot is restored, though the comment
    there says that a partial view's backup must not be folded, since the threads it makes are then
    refused the newer one's.
19. `off_chain` is emptied by an acceptance or a restart only. With no cursor saved yet, a socket
    that drops after a block was removed, and a re-seed at the sink behind it, leave the mark on a
    block that may come back (`acceptance.rs:1859`); `walk_accepted` then refuses the message
    walk's word for it. `Outstanding` counts such a mark as news still owed, and so
    it does a held cursor on a branch that left the chain: a walk that was not answered leaves it
    there, and if the branch comes back, no walk from it hears of its blocks.
20. The position a clear leaves is keyed by the conversation's id, and `merge_contact`
    (`transport_store.rs:920`) carries none over.
21. `watch_remembered` writes twice: the message as submitted, then the word the walk's memory has
    of it. When the second write fails, `watch` logs a warning (`acceptance.rs:1217`), and a later call
    returns at once because the txid is watched (`acceptance.rs:1193`): the message stays submitted
    although its block is on the chain, which is what the memory was made for ("without the memory
    it would sit `Submitted` for good"). One failed write is enough. `WatchMessage` has that path
    and marks it `torn`; `AgreesWithChain` without the mark is violated.
22. `set_pinned_node` reads the pause generation and lifts its own pause in two accesses
    (`dag_monitor.rs:2115`, `2132`). A pause between them is undone, and the repin brings the link
    of a backgrounded wallet up again, which its doc says it must not. Read in the code: the model
    takes the two in one step, and `AwayIsDark` does not cover it.

## 5. Proofs

Checked by TLAPS for every value of the constants, from the assumptions the modules name.

`KvLogProofs`, every property of its runs. `TypeCorrect`, `MemoryIsTheReplay`, `TailIsOwned` from
`IInv == TypeOK /\ EndInFile /\ OwnsItsTail /\ MemoryIsReplay`. `MemoryIsReplay` is not
inductive alone: an append writes at `end`, so one must know that the file has the frames
`end` counts (`EndInFile`) and that what follows them is cut first (`OwnsItsTail`). The
lemmas say what one more frame does to the replayed records and flags, that a rewrite's image
replays to the maps it was made from, and what a half-written frame leaves. The action properties
`ForeignBytesAreKept` and `NothingIsCutUnseen` add what an instance knows of the bytes past its
frames (`TailIsAside`). `NoRemovedBytesAreLeft` needs that a rewrite's image holds only keys with a
record, and that a key whose last frame is an upsert has one (the last of a set of frames:
`Least`, `LastOne`). `ReplayMatchesTheLoop` is for logs of any length: the content after each prefix
solves the loop's recursion, and two solutions differ nowhere first (`Least` again).

`LogImplementsMap` is the refinement, `Spec => StoreSpec`: the log as it stands, and every shorter
one a power loss could leave, are the contents a later open may find. `RInv` adds to `IInv` that what
is served is among them. One lemma says what a whole write returns (`WholeReturns`), one what an
interrupted one may (`InterruptedReturns`), and each action is then a step of the map or leaves it
alone. It assumes no second writer, no checksum that fails on good bytes and no refused directory
sync, as the run `kvlog_core` does: the map promises nothing about those, and the theorems above
hold with them.

`SendsRecordProofs`: `RecordTypeCorrect`, `LegsAreOnRecord`, `LegsAreOnDisk`, `RetriesConflict`, under
`~Overlap` (no send is prepared while another's commit runs; observation 2 shows why it is
needed). `OnDisk` needs three strengthenings about copies not landed yet:
`WritesKeepLegs` (no write that can still land drops a leg that may land),
`RecordingIsQueued` (a leg in its first write is in every copy numbered from its own on)
and `RecordedIsWritten`. `HeldBeforeRequest`, `NotTakenYet`, `WaitsForItsWrite` and
`CommitsAreRemembered` tie a commit's place to the record; `Numbered` and
`AcceptedIsSpent` close the arithmetic and the chain. One lemma per action.

For `RetriesConflict` (`RetryConflicts`) the invariant also says that an unanswered leg that may land is
of unknown fate until it is submitted again (`UnansweredIsUnknown`), that the file and every write still
to land bring it back as one (`UnansweredIsWritten`), and that no record or copy lists a leg no commit
has logged (`OnlyTried`), so the only leg tried for a payment is the only one that anchors it. A build
then leads with free coins of that leg and nothing else (`LoneLegLeads`), for which any finite set of
coins must have a largest-first order (`LargestFirstLists`, by a least counterexample), and the fence
asks for one of them. The attempt showed the model wrong once: a leg whose submit failed after the node
had it was still called unanswered, though it is in `taken` (`SubmitErrKept`). The theorem needs that a
message's anchor key is never a payment's (`MessagesHaveOwnKeys`: a conversation, an invitation or the
backup, `transport.rs:5770`, against an address, `send.rs:1176`).

`CatchUpProofs`, the message walk: `WalkIsConsistent` (`WalkInv`), `CursorIsMonotone` and `BudgetKeepsPresence`
(both action properties). `NothingPassedUnsaid` and `QuietWhileStarting` need where a page in
hand stands: it starts at the cursor under the arm that runs (`FoldsFromCursor`), what lined
up is a prefix of what the node gave (`PageInOrder`), and the walk is held while the hub
restarts. The cursor does not go back because a mark lies at the cursor or ahead, the carried
one before the arm's own (`MarksAhead`), under the sink the arm read (`HeardBounds`). No
induction over the chain is needed: a page is a range.

`CatchUpProofs`, the history fill: `FillKeepsItsPromises` (`FillInv`) and `ErasureHolds`
(`ErasedStaysErased`). For the first, what a walk fetched before its top and before every row it
held was dealt with or is still in its hands (`LanePart`); the pages that say so are a recursive
function, whose first n values are shown by the least counterexample to serve each row from the
start on to the top, or to have left the walk unfinished (`Paged`). The newest backup leaves the
hands dealt with or its lane held (`BackupPart`), and a row that was due and not dealt with has its
lane ahead of the run or is in its hands, or the run does not read complete (`DuePart`). The
positions in the run's memory promise as much as those on disk (`CursorPart`), so the save is safe
whichever erase it follows.

For the second, the invariant counts (`CountPart`): what is back or has a way back that the erases
left open, plus one if the run may still write something without another look at the generation,
plus one for an erase under way, are at most the erases begun. An erase that is done pays for what
it overtook. Nothing else comes back because a row that is gone lies before its lane's start or
its sender is blocked (`GonePart`), because a run no erase overtook walks from positions no lower
than the ones on disk (`SyncPart`), and because what it fetched is from its lane's start on and what
it restores is of a backup the floor lets in (`HandPart`). `ErasePart` says what the erase under way
has sealed. The two invariants are separate: the second rests on the first's types and hands.

`ChainWatchProofs`, the wallet lane: `LaneIsConsistent` (`LaneInv`), `NoFrameMeetsADisconnect`
(`FramesMeetAConnection`) and `PendingCoinsAreKept`. `InStep` says where a living processor is
for each step of the relay (an idle relay finds it open or shut, a waiting one finds the one
answer it waits for under way), `Unread` and `CtlOrder` what the two queues between them can
hold, also once the relay is gone. A frame is then with a connected processor that no close is
on its way to (`FramesGuarded`), a submit's fence keeps a close away (`FenceHolds`,
`NoCloseUnderSubmit`), and each open is counted once (`OpensCounted`). For the coins, a read
that no close has overtaken re-armed into the processor's map (`ReadsCounted`,
`RearmedIsPending`), and a close lists what the map will lose before it is lost
(`SnapshotTaken`).

`ChainWatchProofs`, the tracker: `TrackerIsConsistent` (`TrackerInv`). The index and the records
are one map seen from two sides, which every writer of a record keeps by a lemma of its own
(displace, accept, remember, drop, finalize); that a batch folds blocks of one chain in the order
of their scores is what makes the last block folded the one the cursor takes (`LastOfChain`,
`FirstOfChain`, by a least counterexample). `Shapes` carries the types of what waits in the feed
and behind a catch-up, a batch at a time.

`TrackerAgrees` (`AgreesWithChain`) and `CursorIsCovering` (`CursorCovers`) rest on `Accord`, which
holds as long as nothing was cut off and no word refused (`torn`) and no fold was missed (`missed`). It reads what waits
as news: a block is *told* if a batch still to be folded moves it (`ToldIn`), and every batch leads to
a block that agrees with the node's sink on all blocks not told after it (`QueuePart`), so the queue
needs no induction, only what a tail and an appended batch leave (`QueueTail`, `QueueAppend`). A
block of a record is on the node's chain, or told, or behind the cursor with a walk from it owed or
under way (`StalePart`, with `Owing` for the walks a connection or a hold has coming). The batch or
the page in the loop's hands leads to a block of its own (`FoldPart`; `PageLeadsTo`: a page leads to
its last block, and one with room left to the walk's end). The other way round `SettlePart` says why
an acceptance on the chain is not on record yet: told, in the batch in hand, ahead of the walk, or not
behind a cursor from which a walk is owed. The hard part is that a walk says nothing of a block that
both its start and the sink have: what is behind the cursor must be on record, or off the chain and
known to be (`CursorPart`, `OffPart`), and a walk whose pages were all whole may take the cursor with it
because it has seen to all of them (`CleanPart`). `CoverPart` keeps a send's block behind the cursor or
names the fold or the write that owes it, `DownPart` says what a drop or a death may leave, `FinalPart`
that a finalized block is deeper than any change reaches, `PagePart` and `WordPart` follow the message
walk's word from the page to the memory. One lemma per action, each by these parts. `Accord` was
checked by TLC on several trees, in every reachable state and step by step from states that are not,
before it was proved.

`SendDeskProofs`: `DeskIsConsistent` (`DeskInv`), `NoReleaseIsLost` (`ReleaseWakes`) and
`AtMostOnePageSlips` (the action property `OnePageSlips`). A token names one plan
(`TokensNameOnce`), so the ids handed out are at most one and two a plan (`IdsCounted`, by
cardinality: this is what bounds the ids of the types). An id has one holder, the review's slot
or one send, until its release and none after (`OneHolder`). A walk that read the claims and
was not notified since read one not released yet (`ReadsUnreleased`), which is why no wake-up
is lost between the read and the sleep.

`VaultProofs`: `LockAlwaysWins` (`LockWins`), `VaultIsConsistent` (`VaultInv`) and
`LockoutAlwaysHolds` (`LockoutHolds`). Each call is described by what its locals have left in
common with the memory and the files. A sampled generation is behind as soon as a lock
overtakes the call (`LockPart`); one call at a time is inside the gate (`GatePart`); what a
call will write is of the seed of the file there is, or there is none (`WritesSafely`). For the
lockout, the counter on the disk and every copy of it a call took are at least the failures
answered, but for lost writes (`CountPart`); the bound on the counter is the number of calls
inside, by cardinality, so `Calls` is finite.

`LaneSupervisorProofs`: `SupervisorIsConsistent` (`SupervisorInv`) and `RecoveryIsSingle`
(`OneFlight`: `lane_recovering` is set exactly while one call flies). `ChecksCounted` ties
`checking` to the calls it counts, by cardinality; `Watched` says that a lane not watched yet has a
wake-up due or a rebuild that ends with one, `StallIsOpen` that only an open stalls, `DarkIsDeath`
that only a death on record is held dark. With them `AsleepMeansSaid` is inductive. So is
`DeathsAreAsked` with `OneFlight`, which says that the flag a call finds held belongs to a call that
still looks for a request before it ends, at its drain or after its release. `RebuildBudget`, which
counts the rebuilds no new socket paid for, is inductive too.

`DagMonitorProofs`: `MonitorIsConsistent` (`MonitorInv`), `DarkIsAlwaysHunted`
(`DarkIsHunted`), and the action properties `LinksFallForAReason` and `TapsLeave`. None of
them is inductive. `LifePart` follows the one life of a bind nobody pinned: it dials inside the
race's own dial, comes up once, is published once and falls once; so a dark link has no bind or
one that is coming, and a dial that fails is never the live link's. `RacePart` says the race's
mode speaks of the link it was made for while that link is live and unpinned (the node it
leaves, the silent socket's generation), that its round excludes the node it leaves, and that
its count of empty rounds reaches the limit only where the next head recasts it; so a race that
stands down leaves a live link, a bind or a pause behind (`HuntPart`), and the winner is not the
node left. `SwapPart` equates what landed with the backoff: at its limit no silence hunt starts,
and none that started before is still running. `AwayPart` carries a pause through a repin under
way. One lemma per action; the shapes the steps share (a link that goes dark, an install, a
relink, a hunt that starts) are lemmas of their own.

The assumptions are the types of the constants and no more than the code fixes: the limits that
are constants of the source are positive, the bounds of the models are numbers, `None` is none
of the values it stands beside, a submit of the lane is not one of the fence's two writers
(`LaneWaiters`), the lane can be signalled at all (`LaneBounds`), and a pool of threads is finite
(`VaultAssumption`). A row of the archive is a positive number (0 is "no newest
backup") and no contact's name, rows and contacts are finite sets (the theorem counts them), a row
of a lane comes no later than rows numbered after it; a block's score is above those of the chain
below it, as blue scores are; a block's chain is finite and any two blocks of it lie one behind the
other (`ChainIsATree`), and accepts no transaction twice. No change of the chain removes a block as
deep as `Terminal` (`ReorgsAreShallow`: `TERMINAL_DEPTH_BLUE`, of which `acceptance.rs:82` says that
displacement at that depth is exceptional), and the chain the tracker starts on accepted none of its
transactions (`NothingBefore`): what was accepted before a watch is not the walk's news.

Where an argument is by induction on a number, the least counterexample stands in for it: the
library's `WFMin` takes a set and no operator.

Only model-checked: liveness. `HoldHeals`, `WalkEnds`, `LaneComesToRest`, `WalksGoOn`, `DeathsAreServed` and `DarkEnds` need
fairness, that is `ENABLED`, which is out of the prover's reach.
`PinHolds` is not a theorem: the run `dag_pin` shows it violated.

## 6. Bounds and abstractions to keep in mind

- Frames, records, txids and coins are names; borsh, hex, checksums and amounts beyond
  "does this coin cover it" are left out. A checksum match by chance is excluded.
- `SendsRecord`: one leg a send; legs that spend an earlier leg's output, the
  spent-coins file, landed and retired notices, and the unreadable file kept in place are
  not modelled; nor is a broadcast, which is stashed with the messages and keyed like a payment.
- `WalletLane`: the dev fault arm, stall clocks, tick scores, bind counts and the timeout
  branch of the engine's stop are not modelled.
- `Walk`: no reorganisation and no lagging node (a sink or a mark behind the cursor); the
  catch-up flag, the wait for a send's claim and the witness only delay; one cursor file;
  one `transport_start` at a time; `on_gap`'s notice is in memory. The check under
  the gate and `note_progress` are one step: a hold between them is undone by the next arm.

- `Acceptance`: sender interest, the display's stall and confirmed guards, caps and the
  pruning horizon are left out.
- `Vault`: key derivation, words and bytes are names; time is a counter to eight or so.
- `DagMonitor`: between two suspension points a task is one step. Windows between two atomics
  of one task on a multi-threaded runtime are therefore not explored: the end of `race_loop`
  and the store of `race_running`, the gate and the install (with a file write between them),
  two pinned relinks at once, `set_pinned_node`'s read of the pause generation and its store.
  `set_pinned_node` alone is cut where its comments argue about another worker. A page of our
  own in flight only makes silence fall later. The in-place network change kicks a pause and
  changes nothing else. Liveness of the link (a wallet in the foreground is live again) was
  checked on one node with one gesture and is not a run of the project.
- `LaneSupervisor`: lanes and sockets have no numbers: a check knows whether the socket it began on
  is still the one announced (`here`). An event on its way to a lane that dies goes unheard, and
  the outcome of a call is kept only where `report_dark_lane` waits for it. `stop` is left out; the
  watches and re-reads of `PANIC_LOOKS` are the wake-up they lead to.
- `HistoryFill`: the pages of one lane are one step (nothing but the lock's flag is read between
  them, and the erase check follows); a conversation is named by its contact, so an id is not
  made anew; the coverage file, hiding, parked messages, the answer to our own invitation, the
  node's handshakes, future-dated rows and the hub's generations are left out. Ties at the
  floor's own millisecond, and a device clock off the blocks', are excluded from
  `ErasedStaysErased`.

## 7. Plan

Done: `KvLog`, `SendsRecord`, `WalletLane`, `Walk`, `Acceptance`, `Vault`, `SendDesk`,
`DagMonitor`, `LaneSupervisor`, `HistoryFill`; proofs about all of them.

Next, in order:

1. Read floor of the in-flight record (`begin_read`, `logged_from`, `end_read`).
2. Strikes and their admissibility.
3. The node's lane of the message fold: an archive row overridden or disproven, parked messages
   and their release, contact merges.

Not modelled: cryptography and key derivation, wire codecs (pure functions over bytes), the
Flutter application and the Android host (their lifecycle calls are the modules' inputs), dev
instruments, vendored and generated code; about half of the Rust lines are the files' own
inline tests.
