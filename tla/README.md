# TLA+ models of the Zenon budget ledger and update downloader

This directory holds TLA+ specifications of the budget ledger, its
persistence and its GUI clients, and of the update downloader in
`src/src`, the TLC configurations that check them, and `PROJECT.json`.
`PROJECT.json` records the components, the runs, the mutants, the
definition-to-source map, the findings and the hazards.

## The system

The repository contains two subsystems.

### The governance budget ledger

Files: `masternode-budget.cpp/.h` and `rpc/budget.cpp`.

One global `CBudgetManager budget` holds:

- `mapProposals`: proposal hash to `CBudgetProposal`, each with its votes
  in `mapVotes`, keyed by the voter's collateral input;
- `mapSeenMasternodeBudgetProposals` and `mapSeenMasternodeBudgetVotes`:
  the gossip deduplication caches;
- `mapOrphanMasternodeBudgetVotes`: votes that arrived before their
  proposal, one per proposal.

Two globals live in memory only:

- `vecImmatureBudgetProposals`: broadcasts whose fee transaction is not
  yet confirmed;
- `askedForSourceProposalOrBudget`.

Four kinds of caller change the ledger:

- **Peers**, through `ProcessMessage`, under `cs_budget`:
  - `mprop` accepts, queues or rejects a proposal broadcast;
  - `mvote` stores a vote, queues it as an orphan, or drops it;
  - `mnvs` asks for a sync.
- **The block tick**, `NewBlock`, under `TRY_LOCK(cs)`, every 14 blocks.
  The order of its steps matters:
  1. the occasional full resync (`ClearSeen`, then `ResetSync`);
  2. partial `Sync` and `MarkSynced`;
  3. `CheckAndRemove`;
  4. expiry of the asked-for map;
  5. `CleanAndRemove(false)` on every proposal;
  6. promotion of the immature broadcasts.
- **The RPC** (no budget lock):
  - `mnbudgetvote local|many|alias` and `mnbudgetrawvote` call
    `UpdateProposal` and then insert into the seen map; only
    `mnbudgetvote` tests the proposal's block window;
  - `checkbudgets` runs `CheckAndRemove`;
  - `submitbudget` inserts into the seen map and calls `AddProposal`;
  - `getbudgetinfo` and the GUI's proposal table call `GetAllProposals`,
    which re-runs `CleanAndRemove(false)` and so changes vote flags.
- **Start-up and shutdown**: `CBudgetDB::Read` and `DumpBudgets` through
  `budget.dat`. The file stores the four maps. It does not store the vote
  flags `fValid`/`fSynced` or the two in-memory globals.

The masternode registry (`mnodeman`), the chain and the sync state machine
are outside this repository. The models treat them as the environment.

### The wallet's update downloader

Files: `autoupdatemodel.cpp/.h`, driven by `qt/overviewpage.cpp` and
destroyed by `ReleaseContext` in `context.cpp`.

- The GUI thread shows a banner: nothing, "available", "downloading" or
  "ready".
- Its "Download" link starts a worker thread. The worker:
  1. resets `cancel_` and `progress_`;
  2. removes old files;
  3. downloads to `<file>.tmp` through libcurl, whose progress callback
     reads `cancel_`;
  4. renames the `.tmp` file on success;
  5. queues an exit notification to the GUI.
- The GUI refreshes the banner on the start (progress 0) and exit (101)
  notifications.
- The "Open" link starts the installer and shuts the wallet down.
- The destructor asserts that no download runs, then calls `Cancel()` and
  `Wait()`.

### The proposal GUI

Files: `qt/proposaldialog.cpp`, `qt/proposallist.cpp`,
`qt/proposaltablemodel.cpp`.

- `ProposalDialog` creates a proposal in two phases. Prepare validates the
  form and pays the fee transaction, whose OP_RETURN commits to the
  proposal's hash. It then disables the form and Cancel and starts a
  one-second timer. When the timer finds the depth reached, it enables
  Finish. Finish validates the form again, checks the collateral, calls
  `AddProposal` and inserts into the seen map.
- `ProposalList`'s vote buttons sign a vote for every configured
  masternode. Each vote goes through `UpdateProposal`, then into the seen
  map.
- `ProposalTableModel` only displays `GetAllProposals`: one row per
  proposal, with its tallies and `GetRatio` truncated to an int
  percentage, drawn in the negative colour below 10.

The rest of `src/src` has no protocol state of its own:

- `invalid_outpoints.json.h` is static data;
- the tests and the curl and minizip wrappers are I/O.

## Modules

### `BudgetManager.tla`: the ledger of one node

Each code handler runs to completion under its lock, so each is modelled
as one atomic action.

**State.** The variables follow the C++ names:

| Variable | Models |
|---|---|
| `mapProposals` | hash → `[votes: vin → [v, valid, synced, relayed]]` |
| `seenProps` | `mapSeenMasternodeBudgetProposals` |
| `seenVotes` | `mapSeenMasternodeBudgetVotes`, vote hash → vote |
| `orphanVotes` | `mapOrphanMasternodeBudgetVotes` |
| `immature` | `vecImmatureBudgetProposals` |
| `askedFor` | `askedForSourceProposalOrBudget` |

The environment variables are `height`, `now`, `pillars` (masternodes
that `mnodeman` finds and `IsPillar` accepts), `syncStage` (0 = chain not
synced, 1 = chain synced, 2 = masternode sync past `MASTERNODE_SYNC_BUDGET`
but not finished, 3 = `IsSynced`), `restarts`, and `rpcVotes`, the votes an
`mnbudgetvote` call has still to cast after its window test. `deleted` is a
history variable: the hashes a DELETE vote has erased. `relayed`, a field
of each stored vote, is one too: an incremental `Sync` has offered the
vote to the peers connected at the time.

**Data abstraction.**

- A proposal is its hash, a model value. Its immutable content is given by
  constant functions: block window, spork signature, collateral validity
  and the height of the fee transaction.
- A vote is a record `[mn, prop, val, t, sig]`. `sig` says whose key made
  the signature: the masternode's, the spork key, or a bad one.
- `VoteHash` is the tuple `CBudgetVote::GetHash` serialises. Like the code,
  it leaves the signature out.

**Actions.**

| Action | Code |
|---|---|
| `ReceiveProposal` | `mprop` (three outcomes) |
| `ReceiveVote` | `mvote` (bad signature, orphan, applied) |
| `NewBlock(resync)` | a NewBlock pass past the budget sync stage, composed in the code's order; the resync, `Sync` and `MarkSynced` only when `IsSynced` |
| `NewBlockSkipped` | a NewBlock that returns at once |
| `VoteLocal` | `mnbudgetvote local`: window test, then one pending vote for `activeMasternode`; a DELETE signed with a right or a wrong `-sporkkey` |
| `VoteMany` | `mnbudgetvote many`/`alias`: DELETE refused, window test once, one pending vote per configured masternode |
| `VoteEntry` | one turn of the RPC loop, any number of steps after the window test: pillar test, `UpdateProposal`, seen insert |
| `RawVote` | `mnbudgetrawvote`: caller's time and signature, no window or seen test |
| `CheckBudgets` | `checkbudgets`: `CheckAndRemove` on its own |
| `GuiVote` | `ProposalList::vote_click_handler` (YES, NO or ABSTAIN per local masternode) |
| `SubmitBudget` | `submitbudget` with `-sporkkey` |
| `QueryProposals` | `GetAllProposals` and `GetBudget` |
| `Restart` | dump, read back, `CheckAndRemove` |
| `Tick`, `AdvanceSync`, `RegistryChange` | the environment |

The code's helpers are operators: `IsValid`, `VoteAccepted`
(`AddOrUpdateVote`), `UpdateOk`/`ApplyVote` (`UpdateProposal`),
`CheckOrphansMap`, `ResetSync`, `PartialSync` (`Sync(pnode, 0, true)`),
`MarkSynced`, `CheckAndRemove`,
`CleanAndRemove` and `SweepImmature`.

`MC_BudgetManager.tla` instantiates the ledger with:

- two proposals: `p1` is paid by a fee transaction mined at height 1, and
  `p2` is spork-signed;
- two masternodes;
- explicit sets of vote messages.

The set of vote messages covers:

- a change of mind that comes too soon and one that comes late enough;
- a forged copy of a genuine vote;
- a spork DELETE.

### `AutoUpdateModel.tla`: the downloader, its GUI and its destruction

**State.**

| Variable | Models |
|---|---|
| `pc[w]`, `chunks[w]` | each worker thread |
| `cancel`, `progress` | the atomics |
| `handle`, `joined` | `workerThread_` and joinability |
| `localFile`, `tmpFile` | the two files: absent, partial or complete |
| `signals` | the Qt queued notifications, in order |
| `banner` | `newVersionNotification` |
| `app` | running, shutdown, waiting in the destructor, destroyed or aborted |
| `opened` | the file the Open link started |
| `asserts` | whether this binary was built with assertions |

**Actions.**

- The worker is split at each access to shared state: `ResetState`,
  `PrepareFiles`, `Receive` (a callback with data), `Stall` (a callback
  without data), `NetFail`, `Cancelled`, `Complete`, `Notify`, `Exit`.
- The GUI has `HandleSignal` (through `updateNewVersionAvailability`),
  `ClickDownload` and `ClickOpen`.
- The user can `Close` the wallet.
- The destructor is `Destroy` (assert, then `Cancel`) followed by
  `WaitDone`.
- `IsDownloadRunning`'s `try_join_for(1 ms)` is `Running` plus the join it
  performs. A thread that ends within the millisecond is the interleaving
  in which `Exit` happens first.

### `ProposalRanking.tla`: budget selection and the proposal table

`GetBudget` is an operator over the tallies:

- `SortByVotes` is `sortProposalsByVotes`;
- `SortPairs` is a RECURSIVE insertion sort standing for `std::sort`;
- `IsPassing` and `IsEstablished` are translated from the code. The
  `fValid` test of `IsPassing` holds for every proposal `CheckAndRemove`
  kept, and the model always has a tip, so its NULL-tip return is left out.

`FindProposal(name)` is not modelled: it reads the `fValid` flags of the
last `CleanAndRemove` without refreshing them, and this module has only
refreshed tallies (see the hazard at `masternode-budget.cpp:347`).

The state is the input the queries read:

- `votes`: each masternode's stored vote on each proposal;
- `pillars`;
- `enabled` (`CountEnabled`);
- the tip and the clock.

`RefreshProposals` is `ProposalTableModel::refreshProposals`, the rows of
the proposal table, and `PercentageColour` is the colour `data()` gives
the Percentage column.

Actions change these inputs arbitrarily. The properties compare the
code's operators with declarative references, `Funded` and
`RankedBefore`, in every state. `MC_ProposalRanking.tla` supplies three
proposals as hashes 1 to 3:

- 1 and 2 are spork-signed (fee hash 0);
- 3 has a fee hash;
- the windows differ, and 2 is established later.

### `ProposalDialog.tla`: the create-proposal dialog

**State.**

- The dialog's widgets: `mode`, `form`, `editable`, `acceptOn`,
  `cancelOn`, `timerOn`.
- `counter` and `hashTx` (the fee shown in `hashEdit`).
- The wallet lock and the `-sporkkey` setting: none, the network's key, or
  a wrong key.
- The chain: the tip, and for each fee transaction the block that mined
  it.
- The ledger sets `proposals` and `seen` that the dialog writes.

A form is its hash input `[start, end, url]`. A URL is the set of scheme
prefixes it contains.

**Actions.**

| Action | Code |
|---|---|
| `OpenDialog` | the constructor |
| `Edit` | typing into the line edits |
| `ClickAccept` | validate, then `Prepare` (four outcomes) or `Submit` (error or accept) |
| `TimerTick` | `checkProposalTX` |
| `Cancel`, `Dismiss` | the Cancel button; Escape or the destructor |
| `NewBlock`, `ToggleLock` | the environment |

### `BudgetPersistence.tla`: budget.dat across crashes

**State.**

- `ledger`: the in-memory ledger, a version number.
- `file`: budget.dat, as the result `CBudgetDB::Read` would return for it:
  - absent, short, torn;
  - another program's magic, another network's magic;
  - bad format;
  - a good snapshot of version v.
- `phase`: how far `DumpBudgets` has got.
- `up` and `crashes`.

**Actions.**

| Action | Code |
|---|---|
| `DumpCheck` | `DumpBudgets`' dry-run `Read` and its branch |
| `WriteOpen` | `fopen("wb")`, which truncates the file |
| `OpenFails` | `fopen` fails |
| `WriteData` | the write: success, or an I/O error part-way |
| `Start` | the start-up `Read` into the ledger |
| `Change` | any ledger handler; blocked while `Write` holds the lock |
| `Crash` | the process dies; during a write it leaves a short or torn file |

### `ImmatureQueue.tla`: the immature queue between two threads

`BudgetManager` runs each handler atomically. The code does not: `mprop`
holds `cs_budget`, `NewBlock` holds `cs`, and both use
`vecImmatureBudgetProposals`. This module follows that vector, the seen
map and the keys of `mapProposals` through the steps of two threads.

**State.** `conf` is the depth of each fee transaction, capped at
`FeeConfirmations`, the only threshold the code compares it with; with
the cap the chain can grow for ever in finite state. `queue` and
`capacity` are the vector and its `capacity()`. `cs` records which thread
holds `CBudgetManager::cs`. `mpc`/`msg` are the message thread's position
and broadcast, `vpc`/`it` the block thread's position and the iterator
`it4` as an index. `dangling` says `it4` points into a freed buffer, and
`crashed` that the node died using it.

**Actions.**

| Action | Code |
|---|---|
| `Receive(p)` | `mprop` up to the push or the seen insert |
| `Push` | `push_back`; a full vector doubles its capacity and moves |
| `AddLock`, `Added` | `AddProposal`: `LOCK(cs)`, then the insert and unlock |
| `NewTipSkipped` | a block; NewBlock returns (cadence, sync stage, or `TRY_LOCK` fails, as it does for a tip connected while the sweep runs) |
| `NewBlockPass` | a block; NewBlock takes `cs`, may `ClearSeen`, drops in `CheckAndRemove` the proposals whose collateral no longer checks, starts the sweep |
| `SweepStep` | one turn of the sweep loop: `SweepEnd`, `SweepOver` (step over), or `SweepErase` (promote and erase, or erase) |
| `SweepCrash` | the sweep uses the invalidated `it4` |

A new tip (`NewTip`) makes a mined fee transaction one block deeper, or
takes it back to depth 0 when a reorganisation removes its block from
`chainActive` (`chainActive.Contains` fails, line 77); an unmined one may be
mined. InstantX confirmations (line 72) are left out. Votes are left to
`BudgetManager`: a proposal with no votes passes `CheckAndRemove` while its
collateral does. `passed` is a history variable, the entries the running
sweep has stepped over. Spork-signed broadcasts are never queued and are
left out.

### `UpdateDownload.tla`: what the downloader promises

This is an abstract specification with three variables:

- the number of downloads running;
- the release file at the final path;
- what the Open link opened.

Its actions are `Start` (only when none runs), `Clear`, `Install`
(complete), `Finish` and `Open` (only an installed release).

`AutoUpdateModel` instantiates it with a refinement mapping:

- `running` is the number of worker threads not yet ended;
- `release` is `localFile`.

`UpdateDownloadRefined == Download!Spec` is a property of the autoupdate
run.

### `VoteLedger.tla`: what the ledger promises about votes

An abstract book, proposal → masternode → vote, with one action. A step
may admit or drop any proposals. Every vote in the book must be an
authentic vote of its own voter on its own proposal (`Authentic` is a
constant operator). A proposal present before and after a step loses none
of its votes, and a vote changes only to one at least `VoteUpdateMin`
newer. The one exception is a proposal in `rejected`, the proposals the
removal test rejects: it may be dropped and re-admitted within the step,
and then shows as present with no votes. A NewBlock pass does exactly that
when `CheckAndRemove` drops a proposal and the immature sweep adds a queued
copy of it again.

`BudgetManager` instantiates it as `Ledger` with a refinement mapping:

- `book` is `Book`, `mapProposals` with the vote flags dropped;
- `Authentic` is `GenuineVote`: not a DELETE, signed by the masternode;
- `rejected` is the set of proposals `IsValid` rejects at the next height
  (`RemovedByNextPass`), the test the next pass's `CheckAndRemove` makes.

`LedgerRefined == Ledger!Spec` is a property of both ledger runs.

## Runs

| Run | Config | Expect | Checks |
|---|---|---|---|
| ledger_network | `MC_BudgetManager.cfg` | pass | TypeOK, StoredVotesAuthentic, VotesRelayedBeforeSynced, LedgerRefined |
| ledger_local | `MC_BudgetManager_Local.cfg` | pass | StoredVotesAuthentic, VotesRelayedBeforeSynced, LedgerRefined, adding RPC and GUI votes, DELETE, submitbudget, queries, a malformed proposal and a restart |
| autoupdate | `AutoUpdateModel.cfg` | pass | TypeOK, ReadyBannerCurrent, UpdateDownloadRefined |
| proposal_dialog | `ProposalDialog.cfg` | pass | TypeOK (the run exercises every handler of the dialog) |
| ranking | `MC_ProposalRanking.cfg` | pass | BudgetRanked, FundedShownPositive |
| persistence | `BudgetPersistence.cfg` | pass | RecreatesRecoverableFile, ForeignFilePreserved |
| forged_vote_shadows | `..._SeenVotesAuthentic.cfg` | violation | a forged vote is entered as seen and hides the genuine one |
| removal_stale_flags | `..._RemovalUsesCurrentVotes.cfg` | violation | CheckAndRemove counts votes of departed pillars |
| deleted_proposal_returns | `..._DeletedStaysRemoved.cfg` | violation | a DELETEd proposal promoted from the immature queue comes back on its next broadcast |
| shutdown_hangs | `AutoUpdateModel_ShutdownCompletes.cfg` | violation | a Cancel lost to ResetState blocks shutdown on a stalled server |
| immature_queue | `ImmatureQueue.cfg` | pass | TypeOK, SweepLeavesOnlyImmature, MatureBroadcastLeavesQueue |
| immature_iterator_invalidated | `ImmatureQueue_SweepIteratorValid.cfg` | violation | an `mprop` push reallocates the vector under the sweep's iterator |

Each violation run is described, with the line it comes from, under
`findings` in `PROJECT.json`.

### What the passing properties say

**StoredVotesAuthentic.** Every vote counted in a proposal, and every
orphan, carries the signature its kind needs. It relates three paths that
store votes (mvote, CheckOrphanVotes, the RPC) to the single signature
check in mvote. Orphans are applied later without any check.

**VotesRelayedBeforeSynced.** Every stored vote marked synced has been
offered to the qualifying peers connected at the time by an incremental
`Sync` (vacuously so when none is connected: peers are not modelled, and a
peer that connects later gets every valid vote from its own full sync).
NewBlock pushes the valid
votes not yet synced and then `MarkSynced` marks the valid ones; the two
must agree, since incremental sync never offers a synced vote again. It
takes a vote stored, its masternode dropping out of the pillars, a resync
pass that clears the seen map, the proposal seen again and a later pass
to reach a vote that is invalid when marked.

**LedgerRefined** (refinement). The ledger implements `VoteLedger`. On
every path that stores a vote (`mvote`, orphans applied long after they
arrived, RPC and GUI votes, a restart through budget.dat), a counted vote
is authentic, no vote is lost while its proposal stays, and a stored vote
is replaced only by the same voter's vote at least
`BUDGET_VOTE_UPDATE_MIN` newer. A proposal loses all its votes at once only
when the removal test rejects it.

**UpdateDownloadRefined** (refinement). Every behaviour of the
downloader, with its threads and the GUI, is a behaviour of
`UpdateDownload`. It holds only if all of the following hold:

- two workers never run at once;
- the release file is removed or installed only while a download runs;
- the file is installed only complete;
- Open opens only an installed release.

**BudgetRanked.** `GetBudget` returns exactly the proposals whose window
contains the tip, whose net vote exceeds `CountEnabled / 10` and that are
established. Each appears once, and none comes after one the ranking
places behind it (net votes, then fee hash descending). This holds over
every vote assignment, pillar set and enabled count.

**FundedShownPositive.** Every proposal `GetBudget` funds has one row in
the proposal table, with a percentage of at least 50 that is not drawn in
the negative colour. It ties `IsPassing`'s net-vote threshold to
`GetRatio` and its int conversion.

**RecreatesRecoverableFile** (liveness). A missing budget.dat, or one of
the right kind that no longer deserialises, is eventually overwritten by
`Write`.

**ForeignFilePreserved** (action property). `DumpBudgets` never writes
over a file with another program's or another network's magic.

**SweepLeavesOnlyImmature** (action property). When a NewBlock pass
releases `cs`, the entries left in the immature queue are exactly, in
order, the ones the sweep examined and found immature. It covers copies
pushed by `mprop` while the sweep runs, which the loop reaches because it
re-reads `end()`, and adjacent copies of one broadcast, which an erase
followed by `++it4` would skip. Tips connected during the sweep may have
matured entries it already stepped over; the next pass takes them.

**MatureBroadcastLeavesQueue** (liveness). A broadcast whose fee
transaction ends up deep for good leaves the queue, promoted or, when
`IsValid` rejects it, dropped, unless the node has crashed. Re-sends push
more copies, since a queued broadcast is not marked seen; they all go. A
fee transaction that a reorganisation takes back and that is never mined
again keeps its copies queued, as the code does.

**ReadyBannerCurrent.** After a successful download has queued its exit
notification and the GUI has drained its queue, the banner says "ready".
This holds because `updateNewVersionAvailability` looks for the file
before it asks whether the thread runs.

Every property of a passing run has a mutant in `PROJECT.json`. A mutant is
a plausible slip in the definition the property depends on. Examples:

- the signature check dropped;
- the minimum-interval check dropped;
- votes keyed by vote hash;
- the failure branch renaming the `.tmp` file;
- the two banner tests swapped;
- the fee-hash tie-break reversed;
- `DumpBudgets` treating a format error as fatal, or skipping its check;
- the "Download in progress" guard dropped;
- an off-by-one in `progress_`;
- the sweep advancing `it4` after an erase;
- the sweep stepping over an entry `IsValid` rejects instead of erasing it;
- the vector's growth doubling a capacity of 0;
- `MarkSynced` without its `fValid` test;
- `GetRatio` returning a fraction instead of a percentage.

TLC finds each mutant's property violated under the run's own
configuration.

## Bounds and why they are enough

**Ledger.**

- `MaxHeight = 4` and `Cadence = 2` give two NewBlock passes. Each pass may
  take the resync branch, so a vote can be stored, re-flagged and removed
  across passes. Two passes are also what an incremental sync needs to
  meet a vote that is invalid when it is marked: the first pass
  invalidates it (after a resync cleared the seen map), the second marks.
- `FeeConfirmations = 2` makes `p1` immature at height 1 and mature at
  height 2, so the immature queue fills and is swept.
- `VoteUpdateMin = 2` and vote times `0..2` give a replacement both too
  soon and in time.
- `FutureSlack = 1` with `MaxTime = 2` makes a vote "from the future"
  possible.
- `Churning = {m2}` lets one pillar leave and return. This is what makes
  stored fValid flags stale.
- The sync stage runs through all four values, so a pass runs both before
  masternode sync finishes (removal and sweep only) and after it.
- The local run scales the clock to `0..1` with `VoteUpdateMin = 2`, so
  every re-vote is too soon. It adds one restart and a spork proposal `p2`
  whose window ends before it starts, which exercises the invalid-proposal
  branches. With the pending RPC votes its state space is larger, so it
  stops at height 3 (one pass) and takes `FeeConfirmations = 1`, so that
  `p1` is stored, voted on and re-flagged before that pass.
- With fewer than 10 masternodes the active-removal threshold
  (`CountEnabled / 10`) is 0, the same as on a small network. The model
  counts pillars for `CountEnabled`.

**Downloader.**

- Two workers let a second Download follow the first.
- Two chunks give a partial `.tmp` file.
- A queue of three notifications allows a stall notification, a data
  notification and the exit notification at once.

**Proposal dialog.**

- `FeeConfirmations = 1` and tips up to 4 let a fee be mined before,
  during and after the wait.
- Starts `{1, 3}` and ends `{2, 3}` include a start the tip overtakes
  during the wait.
- Two sessions let a second proposal follow an abandoned or submitted one.
- All three spork settings are included.

**Ranking.** Three proposals and two masternodes give:

- ties on net votes with equal fee hashes (1 and 2), and with different
  fee hashes (3 against 1 or 2);
- net votes from −2 to 2;
- thresholds 0 and 1 (`CountEnabled` 5 or 10);
- tips 0 to 3 across the three windows;
- times 0 to 2 across the establishment edge.

**Persistence.**

- Every initial file kind is included.
- Up to three ledger changes and two crashes let a crash strike during a
  write, after it, and between a dump and a restart.

**Immature queue.**

- Two proposals, one malformed, let the sweep both promote and drop.
- `FeeConfirmations = 2` gives a fee tx that is mined but immature, so
  `mprop` queues it.
- Four `mprop` deliveries give up to four copies in the queue. The
  capacity goes through 1, 2 and 4, so a reallocation can fall before the
  sweep, during it with entries left, and after it.

## Fairness

The ledger runs only check safety, so no fairness is assumed there.

`AutoUpdateModel!FairSpec` (used by the shutdown_hangs run; the
autoupdate run checks safety only) assumes weak fairness only for steps that code
the process runs without waiting on anything outside it:

- the worker's own steps;
- the callback's cancel test: libcurl keeps calling the progress callback
  while a transfer stalls;
- completion once every byte is in;
- the Qt event loop handling a queued notification;
- the destructor's steps.

Data arriving, network failure and every user action get no fairness. A
server may stall forever and a user may never click.

`ImmatureQueue!FairSpec`, for `MatureBroadcastLeavesQueue`, assumes:

- weak fairness of each thread's own next step (push, insert, sweep);
- strong fairness of `AddProposal`'s `LOCK(cs)`: the lock is free again
  and again between passes;
- strong fairness of a pass: blocks keep coming, and a tip that finds
  `cs` free is handled infinitely often. The thread that calls NewBlock is
  not in this repository; this is the assumption that it keeps being
  called. Which depth the fee reaches is not constrained: the property
  assumes the fee ends up deep for good.

Peers need not send anything. A crashed node takes no step, so the
immature runs do not check for deadlock.

`BudgetPersistence!FairSpec` assumes three things:

- the dump's steps proceed, because the node flushes in the background and
  at shutdown;
- a crashed node is restarted;
- `fopen` does not fail for ever. This is strong fairness: a failed open
  returns, so opening is enabled only again and again.

## What is not modelled, and the plan

- **Full sync to a peer.** The incremental `Sync` of NewBlock is
  modelled, through the `relayed` flag of each stored vote. `mnvs`
  answers one peer with a full `Sync` and marks the request fulfilled; it
  changes no ledger state and is not modelled. Peers are represented only
  by the messages they send, and the inventory a peer receives is not
  followed further.
- **Lock-level interleavings.** `ImmatureQueue` splits `mprop` and the
  NewBlock sweep at their accesses to the immature queue. The other
  races on the seen maps (`ClearSeen` under `cs` against the inserts of
  `mprop`/`mvote` under `cs_budget`, and of the RPC and the GUI under no
  lock) are not split out: each is a concurrent `std::map` write, and
  `BudgetManager` keeps those handlers atomic.
- **Pointers used after the lock is released.** `GetAllProposals` and
  `FindProposal` return pointers into `mapProposals` and release `cs`.
  `ProposalTableModel::refreshProposals` and `mnbudgetvote` read through
  them afterwards, while a DELETE vote or `CheckAndRemove` on another
  thread may erase the proposal. No module holds such pointers yet; the
  hazard is listed in `PROJECT.json`.
- **Behaviours the model reaches but no run checks:**
  - an orphan overwritten by a second voter's orphan
    (`masternode-budget.cpp:751`);
  - a promoted proposal missing from the seen map, so that incremental
    sync never offers its votes and its orphans stay
    (`masternode-budget.cpp:531`);
  - Finish offered for a form that `validateProposal` now rejects, the
    tip having passed the start block while the dialog waited
    (`proposaldialog.cpp:198`);
  - Finish offered before the fee is mined (`proposaldialog.cpp:217`);
  - the inverted URL scheme test (`proposaldialog.cpp:193`);
  - a good budget.dat torn by a save (`masternode-budget.cpp:138`);
  - a torn or short budget.dat that `DumpBudgets` never rewrites
    (`masternode-budget.cpp:257`);
  - the resync branch calling `ResetSync` after `ClearSeen` has emptied
    the map it walks (`masternode-budget.cpp:481`).

  Their hazards in `PROJECT.json` say so.
- **Lookup by name.** `FindProposal(name)` (getbudgetvotes,
  getbudgetinfo with a name) reads the `fValid` flags left by the last
  `CleanAndRemove`; `ProposalRanking` models only refreshed queries, so it
  is left out (hazard at `masternode-budget.cpp:347`).
- **Abstractions in the ledger.** `CountEnabled` is the number of pillars,
  which with two masternodes makes the active-removal threshold 0, as on a
  network of fewer than ten. `SubmitBudget` leaves out
  `checkBudgetInputs`, so it admits every argument the RPC may accept.
  `Restart` is a clean shutdown: a crash loses the ledger's changes since
  the last dump, and `BudgetPersistence` models the file itself. Fee
  confirmations grow with the height: reorganisations are modelled only in
  `ImmatureQueue`. The peers an incremental `Sync` offers votes to are not
  modelled (see `VotesRelayedBeforeSynced`).
- **`GetTotalBudget`** and the payment amounts are not modelled. They are
  only arithmetic on block values.
- **Terminal removal in the abstract ledger.** `VoteLedger` lets a
  dropped proposal come back, because the code lets it: the
  deleted_proposal_returns run shows the divergence from the spec.
- **`submitbudget` without `-sporkkey`.** It always throws: it reads
  `params[6]` of 5. It changes nothing, so only the `-sporkkey` path is an
  action.
- **The proposal list.** The filters and the context menu only display;
  of `ProposalTableModel`, the rows and the percentage colour are
  operators of `ProposalRanking`, and the other roles are formatting. `selectionChanged` shows the vote
  buttons by the window at selection time, and the ledger accepts votes
  outside the window anyway.
- **Unused downloader API.** `IsLatestRunSuccess` and `latestRunError_` are
  never read in this repository.
- **Downloader paths that cannot be reached here.** The
  "Remote URL is missing" and "Local file was not found" branches are
  unreachable from the GUI, as the comments on `ClickDownload` and
  `ClickOpen` explain.
