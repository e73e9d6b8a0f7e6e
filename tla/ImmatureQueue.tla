--------------------------- MODULE ImmatureQueue ---------------------------
(***************************************************************************)
(* vecImmatureBudgetProposals (masternode-budget.cpp) between the two      *)
(* threads that touch it: the message handler, whose ProcessMessage        *)
(* "mprop" runs under cs_budget and pushes broadcasts whose fee tx is      *)
(* mined but not yet deep enough, and the thread that connects blocks,     *)
(* whose NewBlock runs under TRY_LOCK(cs) and sweeps the vector with an   *)
(* iterator, promoting what has matured.  The two locks are different, so *)
(* the push and the sweep are not serialised; this module splits both     *)
(* handlers at their accesses to the shared state.                        *)
(*                                                                         *)
(* Data abstraction: a proposal is its hash; the depth of its fee tx is    *)
(* capped at FeeConfirmations, the only threshold the code compares it    *)
(* against (nConf >= 1 and nConf >= Budget_Fee_Confirmations), so the     *)
(* chain can grow for ever in finite state.  A reorganisation takes the   *)
(* block of a fee tx out of chainActive and its depth back to 0 (InstantX *)
(* confirmations are left out).  Votes are left to BudgetManager: a       *)
(* proposal without votes passes CheckAndRemove as long as its collateral *)
(* does, and CleanAndRemove changes nothing here.  Spork-signed           *)
(* broadcasts are never queued and are left out.  A new tip may arrive on *)
(* another thread while the sweep holds cs; its NewBlock fails TRY_LOCK.  *)
(* std::vector keeps a capacity that push_back                            *)
(* doubles when full (libstdc++), and a reallocation invalidates every    *)
(* iterator into the vector.                                              *)
(***************************************************************************)
EXTENDS Naturals, Sequences, SequencesExt, Functions

CONSTANTS
    Proposals,          \* proposal hashes, all paid for by a fee tx
    Malformed,          \* proposals whose nBlockEnd < nBlockStart (IsValid fails)
    FeeConfirmations,   \* Params().Budget_Fee_Confirmations()
    MaxSends            \* bound on the "mprop" messages peers deliver

VARIABLES
    conf,       \* depth of each fee tx, capped at FeeConfirmations (0: not mined)
    queue,      \* vecImmatureBudgetProposals
    capacity,   \* its capacity()
    seen,       \* hashes in mapSeenMasternodeBudgetProposals
    props,      \* hashes in mapProposals
    cs,         \* owner of CBudgetManager::cs: "none", "msg" or "val"
    mpc,        \* message thread: "idle", "push", "add" (before AddProposal), "adding" (holds cs)
    msg,        \* the broadcast the message thread is handling
    sends,      \* "mprop" messages delivered so far
    vpc,        \* block thread: "idle" or "sweep" (NewBlock's loop over it4)
    it,         \* it4, as an index into queue
    dangling,   \* it4 points into a buffer a reallocation has freed
    crashed,    \* the node died dereferencing it
    passed      \* history: the entries the running sweep has stepped over

vars == <<conf, queue, capacity, seen, props, cs, mpc, msg, sends, vpc, it, dangling, crashed, passed>>

WellFormed(p) == p \notin Malformed

\* SignatureValid() || IsBudgetCollateralValid(...): the fee tx is deep enough.
Ready(p) == conf[p] >= FeeConfirmations

TypeOK ==
    /\ conf \in [Proposals -> 0..FeeConfirmations]
    /\ queue \in Seq(Proposals) /\ Len(queue) <= capacity
    /\ capacity \in Nat
    /\ seen \subseteq Proposals /\ props \subseteq Proposals
    /\ cs \in {"none", "msg", "val"}
    /\ mpc \in {"idle", "push", "add", "adding"} /\ msg \in Proposals
    /\ sends \in 0..MaxSends
    /\ vpc \in {"idle", "sweep"} /\ it \in 1..(MaxSends + 1)
    /\ dangling \in BOOLEAN /\ crashed \in BOOLEAN
    /\ passed \in Seq(Proposals)

Init ==
    /\ conf \in [Proposals -> 0..1]
    /\ queue = <<>> /\ capacity = 0
    /\ seen = {} /\ props = {}
    /\ cs = "none"
    /\ mpc = "idle" /\ msg \in Proposals /\ sends = 0
    /\ vpc = "idle" /\ it = 1
    /\ dangling = FALSE /\ crashed = FALSE
    /\ passed = <<>>

-----------------------------------------------------------------------------
(* The message thread: ProcessMessage "mprop", under cs_budget only.      *)

\* Mutant: the unmined fee tx (nConf = 0) is queued as well.
ReceiveQueuesUnmined(p) ==
    /\ ~crashed /\ mpc = "idle" /\ sends < MaxSends
    /\ sends' = sends + 1
    /\ msg' = p
    /\ \/ /\ p \in seen
          /\ UNCHANGED <<seen, mpc>>
       \/ /\ p \notin seen /\ ~Ready(p)
          /\ mpc' = "push"
          /\ UNCHANGED seen
       \/ /\ p \notin seen /\ Ready(p)
          /\ seen' = seen \cup {p}
          /\ mpc' = IF WellFormed(p) THEN "add" ELSE "idle"
    /\ UNCHANGED <<conf, queue, capacity, props, cs, vpc, it, dangling, crashed, passed>>

\* The checks of "mprop" up to the push or the insert into the seen map:
\* an already-seen hash returns; a fee tx that is not deep enough is queued
\* when it has at least one confirmation, else dropped; otherwise the hash
\* is marked seen and a malformed proposal returns.
Receive(p) ==
    /\ ~crashed /\ mpc = "idle" /\ sends < MaxSends
    /\ sends' = sends + 1
    /\ msg' = p
    /\ \/ /\ p \in seen
          /\ UNCHANGED <<seen, mpc>>
       \/ /\ p \notin seen /\ ~Ready(p)
          /\ mpc' = IF conf[p] >= 1 THEN "push" ELSE "idle"
          /\ UNCHANGED seen
       \/ /\ p \notin seen /\ Ready(p)
          /\ seen' = seen \cup {p}
          /\ mpc' = IF WellFormed(p) THEN "add" ELSE "idle"
    /\ UNCHANGED <<conf, queue, capacity, props, cs, vpc, it, dangling, crashed, passed>>

\* Mutant: the growth doubles the capacity, which stays 0 for an empty vector.
PushDoublesFromZero ==
    /\ ~crashed /\ mpc = "push"
    /\ queue' = Append(queue, msg)
    /\ capacity' = IF Len(queue) = capacity THEN 2 * capacity ELSE capacity
    /\ dangling' = (dangling \/ (vpc = "sweep" /\ Len(queue) = capacity))
    /\ mpc' = "idle"
    /\ UNCHANGED <<conf, seen, props, cs, msg, sends, vpc, it, crashed, passed>>

\* vecImmatureBudgetProposals.push_back, without cs: a full vector moves to
\* a buffer of twice the size, which leaves a running sweep's it4 dangling.
Push ==
    /\ ~crashed /\ mpc = "push"
    /\ queue' = Append(queue, msg)
    /\ capacity' = IF Len(queue) = capacity THEN 2 * capacity + (IF capacity = 0 THEN 1 ELSE 0)
                   ELSE capacity
    /\ dangling' = (dangling \/ (vpc = "sweep" /\ Len(queue) = capacity))
    /\ mpc' = "idle"
    /\ UNCHANGED <<conf, seen, props, cs, msg, sends, vpc, it, crashed, passed>>

\* AddProposal takes LOCK(cs), blocking while NewBlock holds it.
AddLock ==
    /\ ~crashed /\ mpc = "add" /\ cs = "none"
    /\ cs' = "msg" /\ mpc' = "adding"
    /\ UNCHANGED <<conf, queue, capacity, seen, props, msg, sends, vpc, it, dangling, crashed, passed>>

\* AddProposal inserts the proposal unless it is already known, and
\* releases cs; the relay and CheckOrphanVotes that follow do not touch
\* the state of this module.
Added ==
    /\ ~crashed /\ mpc = "adding"
    /\ props' = props \cup {msg}
    /\ cs' = "none" /\ mpc' = "idle"
    /\ UNCHANGED <<conf, queue, capacity, seen, msg, sends, vpc, it, dangling, crashed, passed>>

-----------------------------------------------------------------------------
(* The block thread: a new tip, then NewBlock.                            *)

\* A new tip: a mined fee tx whose block stays in chainActive gets one
\* confirmation deeper, one whose block a reorganisation removed is back
\* at 0 (chainActive.Contains fails), and an unmined one may be mined.
NewTip(c) ==
    { f \in [Proposals -> 0..FeeConfirmations] :
        \A p \in Proposals :
            IF c[p] = 0 THEN f[p] \in 0..1
            ELSE f[p] \in {0, IF c[p] < FeeConfirmations THEN c[p] + 1 ELSE c[p]} }

\* NewBlock returns at once: the height is not a multiple of 14, budget
\* sync has not started, or TRY_LOCK(cs) fails, as it does for a tip
\* connected while a sweep runs.
NewTipSkipped ==
    /\ ~crashed
    /\ conf' \in NewTip(conf)
    /\ UNCHANGED <<queue, capacity, seen, props, cs, mpc, msg, sends, vpc, it, dangling, crashed, passed>>

\* NewBlock takes cs, clears the seen maps on a resync height, drops in
\* CheckAndRemove the proposals whose collateral no longer checks, and
\* reaches the sweep with it4 at begin().
NewBlockPass ==
    /\ ~crashed /\ vpc = "idle" /\ cs = "none"
    /\ conf' \in NewTip(conf)
    /\ cs' = "val" /\ vpc' = "sweep" /\ it' = 1
    /\ seen' \in {seen, {}}
    /\ props' = {p \in props : conf'[p] >= FeeConfirmations}
    /\ passed' = <<>>
    /\ UNCHANGED <<queue, capacity, mpc, msg, sends, dangling, crashed>>

\* The end of the sweep, the step over an entry that is not yet mature
\* (the "++it4; continue" of the collateral test), and the erase after the
\* IsValid test, with AddProposal first when it passes.
SweepEnd ==
    /\ it > Len(queue)
    /\ vpc' = "idle" /\ cs' = "none"
    /\ UNCHANGED <<queue, props, it, passed>>

SweepOver ==
    /\ it' = it + 1
    /\ passed' = Append(passed, queue[it])
    /\ UNCHANGED <<queue, props, vpc, cs>>

SweepErase(p) ==
    /\ queue' = RemoveAt(queue, it)
    /\ props' = IF WellFormed(p) THEN props \cup {p} ELSE props
    /\ UNCHANGED <<passed, vpc, cs>>

\* Mutant: the loop advances it4 after erase as well, skipping an entry.
SweepStepSkipAfterErase ==
    /\ ~crashed /\ vpc = "sweep" /\ ~dangling
    /\ \/ SweepEnd
       \/ /\ it <= Len(queue)
          /\ \/ ~Ready(queue[it]) /\ SweepOver
             \/ Ready(queue[it]) /\ SweepErase(queue[it]) /\ it' = it + 1
    /\ UNCHANGED <<conf, capacity, seen, mpc, msg, sends, dangling, crashed>>

\* Mutant: an entry IsValid rejects is stepped over instead of erased.
SweepStepKeepsMalformed ==
    /\ ~crashed /\ vpc = "sweep" /\ ~dangling
    /\ \/ SweepEnd
       \/ /\ it <= Len(queue)
          /\ \/ ~(Ready(queue[it]) /\ WellFormed(queue[it])) /\ SweepOver
             \/ Ready(queue[it]) /\ WellFormed(queue[it]) /\ SweepErase(queue[it]) /\ UNCHANGED it
    /\ UNCHANGED <<conf, capacity, seen, mpc, msg, sends, dangling, crashed>>

\* One turn of the sweep: at end() release cs; an immature entry is
\* stepped over; a mature one is erased, after AddProposal when IsValid
\* accepts it.  erase returns the iterator to the next entry.
SweepStep ==
    /\ ~crashed /\ vpc = "sweep" /\ ~dangling
    /\ \/ SweepEnd
       \/ /\ it <= Len(queue)
          /\ \/ ~Ready(queue[it]) /\ SweepOver
             \/ Ready(queue[it]) /\ SweepErase(queue[it]) /\ UNCHANGED it
    /\ UNCHANGED <<conf, capacity, seen, mpc, msg, sends, dangling, crashed>>

\* Dereferencing or comparing the invalidated it4 is undefined; the freed
\* buffer's moved-from entries and a loop that never meets end() bring the
\* node down.
SweepCrash ==
    /\ ~crashed /\ vpc = "sweep" /\ dangling
    /\ crashed' = TRUE
    /\ UNCHANGED <<conf, queue, capacity, seen, props, cs, mpc, msg, sends, vpc, it, dangling, passed>>

Next ==
    \/ \E p \in Proposals : Receive(p)
    \/ Push \/ AddLock \/ Added
    \/ NewTipSkipped \/ NewBlockPass \/ SweepStep \/ SweepCrash

Spec == Init /\ [][Next]_vars

\* Each thread runs its next step; the lock of AddProposal is fair; blocks
\* keep coming, and a tip that finds cs free is handled infinitely often.
\* Peers need not send anything.
FairSpec ==
    /\ Spec
    /\ WF_vars(Push) /\ SF_vars(AddLock) /\ WF_vars(Added)
    /\ WF_vars(SweepStep) /\ WF_vars(SweepCrash)
    /\ SF_vars(NewBlockPass)

-----------------------------------------------------------------------------
(* Properties                                                              *)

\* NewBlock's sweep examines every queued broadcast, including the copies
\* "mprop" pushes while it runs: erase hands back the iterator to the next
\* entry and the loop re-reads end(), so when a pass releases cs the entries
\* left in vecImmatureBudgetProposals are exactly, in order, the ones it
\* found immature and stepped over.  (A tip connected during the sweep may
\* have matured some of them since; the next pass takes those.)
SweepLeavesOnlyImmature ==
    [][vpc = "sweep" /\ vpc' = "idle" => queue' = passed]_vars

\* A broadcast whose fee tx ends up deep for good does not stay queued for
\* ever: the next pass erases every such copy, promoted or, when IsValid
\* rejects it, dropped, unless the node has died first.  A fee tx that a
\* reorganisation takes back may keep its copies queued.
MatureBroadcastLeavesQueue ==
    \A p \in Proposals :
        <>[](conf[p] >= FeeConfirmations) =>
            [](p \in ToSet(queue) => <>(crashed \/ p \notin ToSet(queue)))

\* The ledger is guarded by one exclusive lock covering all access to its
\* containers (spec section 5), so no push_back reallocates
\* vecImmatureBudgetProposals while NewBlock's sweep holds it4.
SweepIteratorValid == ~dangling

=============================================================================
