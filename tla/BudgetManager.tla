--------------------------- MODULE BudgetManager ---------------------------
(***************************************************************************)
(* The proposal/vote ledger of one node: CBudgetManager and the globals    *)
(* askedForSourceProposalOrBudget and vecImmatureBudgetProposals of        *)
(* src/src/masternode-budget.cpp.  Every handler (ProcessMessage "mprop"   *)
(* and "mvote", NewBlock, the RPC vote, restart with budget.dat) is one    *)
(* atomic action: each runs to completion under cs_budget / cs.  The      *)
(* chain, the clock, the masternode registry and the sync stage are the   *)
(* environment and change by actions of their own.                        *)
(*                                                                         *)
(* Data abstraction: a proposal is its hash (a model value); its immutable *)
(* content (block window, spork signature, collateral transaction) is     *)
(* given by constant functions.  A vote is a record; its hash is the tuple *)
(* of the fields CBudgetVote::GetHash serialises, which leaves vchSig out. *)
(***************************************************************************)
EXTENDS Integers, Sequences, FiniteSets, Functions, TLC

CONSTANTS
    Proposals,          \* proposal hashes (model values)
    Masternodes,        \* masternode collateral inputs (vin), model values
    BlockStart,         \* [Proposals -> Int]  nBlockStart
    BlockEnd,           \* [Proposals -> Int]  nBlockEnd
    SporkSigned,        \* [Proposals -> BOOLEAN] vchSig verifies against the spork key
    CollateralOK,       \* [Proposals -> BOOLEAN] fee tx found, scripts and OP_RETURN valid
    TxHeight,           \* [Proposals -> Nat]  height of the block holding the fee tx
    FeeConfirmations,   \* Params().Budget_Fee_Confirmations()
    Cadence,            \* NewBlock works on heights that are multiples of this (14)
    VoteUpdateMin,      \* BUDGET_VOTE_UPDATE_MIN, in clock units
    FutureSlack,        \* the 60*60 s a vote may lie in the future, in clock units
    AskExpiry,          \* the 60*60*24 s an askedForSourceProposalOrBudget entry lives
    VoteTimes,          \* nTime values a vote may carry
    VoteMsgs,           \* the "mvote" payloads peers send (a small set of Vote records)
    RawVoteMsgs,        \* the votes given to mnbudgetrawvote
    LocalVoteValues,    \* the votes the RPC may cast ("yes", "no", "delete")
    LocalMasternodes,   \* the masternodes whose keys this node holds
    LocalProposals,     \* proposals this node submits with submitbudget
    Churning,           \* masternodes whose pillar status may change
    MaxHeight,          \* bound on the chain height
    MaxTime,            \* bound on the clock
    MaxImmature,        \* bound on the length of vecImmatureBudgetProposals
    MaxRestarts         \* bound on the number of node restarts

VARIABLES
    mapProposals,   \* hash -> [votes: vin -> stored vote]  (CBudgetManager::mapProposals)
    seenProps,      \* hashes in mapSeenMasternodeBudgetProposals
    seenVotes,      \* vote hash -> vote  (mapSeenMasternodeBudgetVotes)
    orphanVotes,    \* proposal hash -> vote  (mapOrphanMasternodeBudgetVotes)
    immature,       \* vecImmatureBudgetProposals, a sequence of proposal hashes
    askedFor,       \* proposal hash -> time  (askedForSourceProposalOrBudget)
    height,         \* chainActive.Height()
    now,            \* GetTime() / GetAdjustedTime()
    pillars,        \* masternodes that mnodeman finds and IsPillar accepts
    syncStage,      \* 0: blockchain not synced, 1: blockchain synced, 2: masternode sync past
                    \* MASTERNODE_SYNC_BUDGET but not finished, 3: masternodeSync.IsSynced()
    restarts,       \* number of restarts so far (bounded by MaxRestarts)
    rpcVotes,       \* the votes an mnbudgetvote call has still to cast, its window test made
    deleted         \* history: hashes some DELETE vote has erased from mapProposals

ledger == <<mapProposals, seenProps, seenVotes, orphanVotes, immature, askedFor>>
env == <<height, now, pillars, syncStage, restarts, rpcVotes>>
vars == <<ledger, env, deleted>>

VoteValues == {"YES", "NO", "ABSTAIN", "DELETE"}
Signatures == {"mn", "spork", "bad"}     \* whose key produced vchSig
Vote == [mn : Masternodes, prop : Proposals, val : VoteValues, t : VoteTimes \cup 0..MaxTime, sig : Signatures]
\* relayed is a history flag: an incremental Sync has offered this stored
\* vote to the peers connected at the time.
StoredVote == [v : Vote, valid : BOOLEAN, synced : BOOLEAN, relayed : BOOLEAN]

-----------------------------------------------------------------------------
(* Helpers translated from the code                                        *)

(* Plausible slips in the code, each the body of the definition it is    *)
(* named after, used to show that a property can detect them.            *)

\* SignatureValid without the VerifyMessage call.
SignatureValidUnverified(v) ==
    IF v.val = "DELETE" THEN TRUE ELSE v.mn \in pillars

\* AddOrUpdateVote without the BUDGET_VOTE_UPDATE_MIN check.
VoteAcceptedNoMinInterval(votes, v) ==
    /\ v.mn \in DOMAIN votes => ~(votes[v.mn].v.t > v.t)
    /\ ~(v.t > now + FutureSlack)

\* CBudgetVote::GetHash: vin, nProposalHash, nVote, nTime (no vchSig).
VoteHash(v) == <<v.mn, v.prop, v.val, v.t>>

\* CBudgetVote::SignatureValid(true): a DELETE vote must carry a spork-key
\* signature; any other vote needs a known pillar and its key's signature.
SignatureValid(v) ==
    IF v.val = "DELETE" THEN v.sig = "spork"
    ELSE v.mn \in pillars /\ v.sig = "mn"

\* The confirmation count IsBudgetCollateralValid computes for the fee tx
\* (no InstantSend confirmations; the tx counts once its block is active).
Confirmations(p, h) == IF TxHeight[p] <= h THEN h - TxHeight[p] + 1 ELSE 0

\* IsBudgetCollateralValid: script checks, then the confirmation threshold.
CollateralValid(p, h) == CollateralOK[p] /\ Confirmations(p, h) >= FeeConfirmations

\* nConf as IsBudgetCollateralValid leaves it: set only past the script checks.
ReportedConf(p, h) == IF CollateralOK[p] THEN Confirmations(p, h) ELSE 0

\* The signature-or-collateral test of "mprop", NewBlock and IsValid.
Authorised(p, h) == SporkSigned[p] \/ CollateralValid(p, h)

WellFormed(p) == BlockStart[p] >= 0 /\ BlockEnd[p] >= BlockStart[p]

\* CountEnabled(ActiveProtocol())
EnabledCount == Cardinality(pillars)

\* GetYeas / GetNays: votes of a value whose fValid flag is set.
Tally(votes, val) == Cardinality({m \in DOMAIN votes : votes[m].v.val = val /\ votes[m].valid})

\* CBudgetProposal::IsValid(strError, true) over the stored vote flags.
IsValid(votes, p, h) ==
    /\ ~(Tally(votes, "NO") - Tally(votes, "YES") > EnabledCount \div 10)
    /\ WellFormed(p)
    /\ Authorised(p, h)

\* CBudgetProposal::AddOrUpdateVote succeeds.
VoteAccepted(votes, v) ==
    /\ v.mn \in DOMAIN votes =>
           /\ ~(votes[v.mn].v.t > v.t)
           /\ ~(v.t - votes[v.mn].v.t < VoteUpdateMin)
    /\ ~(v.t > now + FutureSlack)

\* mapVotes keyed by vote.GetHash() instead of the voter's vin.
WithVoteKeyedByVoteHash(votes, v) ==
    [m \in DOMAIN votes \cup {VoteHash(v)} |->
        IF m = VoteHash(v) THEN [v |-> v, valid |-> TRUE, synced |-> FALSE, relayed |-> FALSE] ELSE votes[m]]

\* mapVotes[hash] = vote, with the flags a received vote has.
WithVote(votes, v) ==
    [m \in DOMAIN votes \cup {v.mn} |->
        IF m = v.mn THEN [v |-> v, valid |-> TRUE, synced |-> FALSE, relayed |-> FALSE] ELSE votes[m]]

\* CBudgetManager::UpdateProposal returns true (the proposal is known).
UpdateOk(mp, v) ==
    /\ v.prop \in DOMAIN mp
    /\ v.val = "DELETE" \/ VoteAccepted(mp[v.prop].votes, v)

\* The effect of a successful UpdateProposal on mapProposals.
ApplyVote(mp, v) ==
    IF v.val = "DELETE" THEN Restrict(mp, DOMAIN mp \ {v.prop})
    ELSE [mp EXCEPT ![v.prop].votes = WithVote(@, v)]

\* CBudgetProposal(CBudgetProposalBroadcast): no votes.
NewProposal == [votes |-> <<>>]

\* CBudgetManager::AddProposal: IsValid of the fresh copy, then insert if new.
AddProposal(mp, p, h) ==
    IF IsValid(<<>>, p, h) /\ p \notin DOMAIN mp
    THEN mp @@ (p :> NewProposal) ELSE mp

\* CheckOrphanVotes: UpdateProposal(orphan, NULL) for every orphan; the
\* ones it accepts leave the orphan map.  Orphans are keyed by proposal,
\* so each call touches its own proposal only.
OrphansApplied(mp, orph) == {p \in DOMAIN orph : UpdateOk(mp, orph[p])}

CheckOrphansMap(mp, orph) ==
    LET ok == OrphansApplied(mp, orph)
        gone == {p \in ok : orph[p].val = "DELETE"}
    IN  [p \in DOMAIN mp \ gone |->
            IF p \in ok THEN [mp[p] EXCEPT !.votes = WithVote(@, orph[p])] ELSE mp[p]]

CheckOrphansLeft(mp, orph) == Restrict(orph, DOMAIN orph \ OrphansApplied(mp, orph))

\* Proposals a DELETE orphan erases in CheckOrphanVotes.
OrphanDeletes(mp, orph) == {p \in OrphansApplied(mp, orph) : orph[p].val = "DELETE"}

-----------------------------------------------------------------------------
(* NewBlock, one pass                                                      *)

\* Set one flag of every stored vote of the proposals in ps.
SetVoteFlags(mp, ps, F(_)) ==
    [p \in DOMAIN mp |->
        IF p \in ps THEN [votes |-> [m \in DOMAIN mp[p].votes |-> F(mp[p].votes[m])]]
        ELSE mp[p]]

\* ResetSync: every vote of a proposal in mapSeenMasternodeBudgetProposals
\* is marked not synced.
ResetSync(mp, seen) == SetVoteFlags(mp, seen, LAMBDA sv : [sv EXCEPT !.synced = FALSE])

\* Sync(pnode, 0, true) for every peer: the valid votes of those proposals
\* not yet marked synced are pushed as inventory.
PartialSync(mp, seen) ==
    SetVoteFlags(mp, seen, LAMBDA sv : [sv EXCEPT !.relayed = sv.relayed \/ (sv.valid /\ ~sv.synced)])

\* MarkSynced without its fValid test.
MarkSyncedAll(mp, seen) == SetVoteFlags(mp, seen, LAMBDA sv : [sv EXCEPT !.synced = TRUE])

\* MarkSynced: the valid votes of those proposals are marked synced.
MarkSynced(mp, seen) == SetVoteFlags(mp, seen, LAMBDA sv : [sv EXCEPT !.synced = sv.synced \/ sv.valid])

\* CheckAndRemove: keep the proposals IsValid accepts, with the vote flags
\* as they stand.
CheckAndRemove(mp, h) == Restrict(mp, {p \in DOMAIN mp : IsValid(mp[p].votes, p, h)})

\* CleanAndRemove(false) on every proposal: fValid = SignatureValid(false).
CleanAndRemove(mp) ==
    SetVoteFlags(mp, DOMAIN mp, LAMBDA sv : [sv EXCEPT !.valid = sv.v.mn \in pillars])

\* An immature broadcast whose signature or collateral now checks.
Ready(p, h) == Authorised(p, h)

ImmatureKept(seq, h) == SelectSeq(seq, LAMBDA p : ~Ready(p, h))

\* The broadcasts the sweep hands to AddProposal.
ImmaturePromoted(seq, h) == {seq[i] : i \in {j \in DOMAIN seq : Ready(seq[j], h) /\ WellFormed(seq[j])}}

SweepImmature(mp, seq, h) ==
    mp @@ [p \in ImmaturePromoted(seq, h) \ DOMAIN mp |-> NewProposal]

-----------------------------------------------------------------------------
Init ==
    /\ mapProposals = <<>>
    /\ seenProps = {}
    /\ seenVotes = <<>>
    /\ orphanVotes = <<>>
    /\ immature = <<>>
    /\ askedFor = <<>>
    /\ height = 0
    /\ now = 0
    /\ pillars = Masternodes
    /\ syncStage = 0
    /\ restarts = 0
    /\ rpcVotes = {}
    /\ deleted = {}

(* ProcessMessage "mprop".  The early returns that change nothing (already *)
(* seen; neither signed nor valid nor immature) are stuttering steps.      *)
ReceiveProposal(p) ==
    /\ syncStage >= 1
    /\ p \notin seenProps
    /\ \/ /\ ~Authorised(p, height)
          /\ ReportedConf(p, height) >= 1
          /\ Len(immature) < MaxImmature
          /\ immature' = Append(immature, p)
          /\ UNCHANGED <<mapProposals, seenProps, seenVotes, orphanVotes, askedFor, deleted>>
       \/ /\ Authorised(p, height)
          /\ seenProps' = seenProps \cup {p}
          /\ ~WellFormed(p)
          /\ UNCHANGED <<mapProposals, seenVotes, orphanVotes, immature, askedFor, deleted>>
       \/ /\ Authorised(p, height)
          /\ seenProps' = seenProps \cup {p}
          /\ WellFormed(p)
          /\ LET mp == AddProposal(mapProposals, p, height) IN
             /\ mapProposals' = CheckOrphansMap(mp, orphanVotes)
             /\ orphanVotes' = CheckOrphansLeft(mp, orphanVotes)
             /\ deleted' = deleted \cup OrphanDeletes(mp, orphanVotes)
          /\ UNCHANGED <<seenVotes, immature, askedFor>>
    /\ UNCHANGED env

(* ProcessMessage "mvote" for a vote from a known pillar; an unknown or    *)
(* non-pillar voter returns before anything is stored (stuttering).       *)
ReceiveVote(v) ==
    /\ syncStage >= 1
    /\ VoteHash(v) \notin DOMAIN seenVotes
    /\ v.mn \in pillars
    /\ seenVotes' = seenVotes @@ (VoteHash(v) :> v)
    /\ \/ /\ ~SignatureValid(v)
          /\ UNCHANGED <<mapProposals, orphanVotes, askedFor, deleted>>
       \/ /\ SignatureValid(v)
          /\ v.prop \notin DOMAIN mapProposals
          /\ IF syncStage = 3
             THEN /\ orphanVotes' = (v.prop :> v) @@ orphanVotes
                  /\ askedFor' = IF v.prop \in DOMAIN askedFor THEN askedFor
                                 ELSE askedFor @@ (v.prop :> now)
             ELSE UNCHANGED <<orphanVotes, askedFor>>
          /\ UNCHANGED <<mapProposals, deleted>>
       \/ /\ SignatureValid(v)
          /\ v.prop \in DOMAIN mapProposals
          /\ IF UpdateOk(mapProposals, v)
             THEN /\ mapProposals' = ApplyVote(mapProposals, v)
                  /\ deleted' = IF v.val = "DELETE" THEN deleted \cup {v.prop} ELSE deleted
             ELSE UNCHANGED <<mapProposals, deleted>>
          /\ UNCHANGED <<orphanVotes, askedFor>>
    /\ UNCHANGED <<seenProps, immature, env>>

(* A new tip: NewBlock runs with the new height.  When TRY_LOCK(cs) fails, *)
(* the sync stage is not past the budget stage, or the height is not a    *)
(* multiple of the cadence, NewBlock returns at once.  Past the budget    *)
(* stage the pass runs; the resync, the incremental Sync and MarkSynced   *)
(* only once masternodeSync.IsSynced().                                   *)
NewBlockSkipped ==
    /\ height < MaxHeight
    /\ height' = height + 1
    /\ UNCHANGED <<ledger, now, pillars, syncStage, restarts, rpcVotes, deleted>>

NewBlock(resync) ==
    /\ height < MaxHeight
    /\ height' = height + 1
    /\ syncStage >= 2
    /\ height' % Cadence = 0
    /\ resync => syncStage = 3
    /\ LET h == height'
           seen == IF resync THEN {} ELSE seenProps
           mp0 == IF resync THEN ResetSync(mapProposals, seen) ELSE mapProposals
           mp1 == IF syncStage = 3 THEN MarkSynced(PartialSync(mp0, seen), seen) ELSE mp0
           mp2 == CheckAndRemove(mp1, h)
           mp3 == CleanAndRemove(mp2)
       IN  /\ seenProps' = seen
           /\ seenVotes' = IF resync THEN <<>> ELSE seenVotes
           /\ askedFor' = RestrictDomain(askedFor, LAMBDA p : askedFor[p] > now - AskExpiry)
           /\ mapProposals' = SweepImmature(mp3, immature, h)
           /\ immature' = ImmatureKept(immature, h)
    /\ UNCHANGED <<orphanVotes, now, pillars, syncStage, restarts, rpcVotes, deleted>>

\* The block-window test mnbudgetvote makes before any mode: a vote on a
\* known proposal outside [nBlockStart, nBlockEnd] returns an error.
InVotingWindow(p) ==
    p \in DOMAIN mapProposals => BlockStart[p] <= height /\ BlockEnd[p] >= height

\* The tail every vote RPC shares: UpdateProposal(vote, NULL) and, when it
\* succeeds, the insert into mapSeenMasternodeBudgetVotes (with no lock).
CastVote(v) ==
    /\ UpdateOk(mapProposals, v)
    /\ mapProposals' = ApplyVote(mapProposals, v)
    /\ seenVotes' = seenVotes @@ (VoteHash(v) :> v)

(* mnbudgetvote local: the window test, then one vote for               *)
(* activeMasternode.vin (m).  A DELETE is signed with the -sporkkey       *)
(* argument, and SetKey takes the public key from that very key, so a     *)
(* wrong -sporkkey yields a signature SignatureValid would refuse; the    *)
(* RPC path never checks it.  Without -sporkkey the call returns.         *)
VoteLocal(m, p, val, sig) ==
    /\ rpcVotes = {}
    /\ InVotingWindow(p)
    /\ sig \in IF val = "DELETE" THEN {"spork", "bad"} ELSE {"mn"}
    /\ rpcVotes' = {[mn |-> m, prop |-> p, val |-> val, sig |-> sig]}
    /\ UNCHANGED <<ledger, height, now, pillars, syncStage, restarts, deleted>>

(* mnbudgetvote many / alias: DELETE is refused ("Not possible"), the     *)
(* window test is made once, then the loop votes with every configured    *)
(* masternode (alias keeps the entry of the given alias).                 *)
VoteMany(p, val) ==
    /\ rpcVotes = {}
    /\ val # "DELETE"
    /\ InVotingWindow(p)
    /\ rpcVotes' = {[mn |-> m, prop |-> p, val |-> val, sig |-> "mn"] : m \in LocalMasternodes}
    /\ UNCHANGED <<ledger, height, now, pillars, syncStage, restarts, deleted>>

(* One turn of the RPC loop, after any number of other steps since the    *)
(* window test: a voter that is not a pillar fails; otherwise the vote,   *)
(* stamped now, goes through UpdateProposal and, when it succeeds, into   *)
(* the seen map.  A vote UpdateProposal refuses changes nothing.          *)
VoteEntry(e) ==
    LET v == [mn |-> e.mn, prop |-> e.prop, val |-> e.val, t |-> now, sig |-> e.sig]
    IN  /\ e \in rpcVotes
        /\ rpcVotes' = rpcVotes \ {e}
        /\ IF e.mn \in pillars /\ UpdateOk(mapProposals, v)
           THEN /\ CastVote(v)
                /\ deleted' = IF e.val = "DELETE" THEN deleted \cup {e.prop} ELSE deleted
           ELSE UNCHANGED <<mapProposals, seenVotes, deleted>>
        /\ UNCHANGED <<seenProps, orphanVotes, immature, askedFor, height, now, pillars, syncStage, restarts>>

(* mnbudgetrawvote: a YES or NO vote with the nTime and signature the     *)
(* caller supplies, for a pillar, checked with SignatureValid(true).     *)
(* Unlike mnbudgetvote there is no block-window test, and unlike "mvote" *)
(* no seen-map test: a vote the seen map holds is applied again.         *)
RawVote(v) ==
    /\ v.val \in {"YES", "NO"}
    /\ v.mn \in pillars
    /\ SignatureValid(v)
    /\ CastVote(v)
    /\ UNCHANGED <<seenProps, orphanVotes, immature, askedFor, env, deleted>>

(* checkbudgets: CheckAndRemove on its own, with the vote flags of the    *)
(* last CleanAndRemove.                                                   *)
CheckBudgets ==
    /\ mapProposals' = CheckAndRemove(mapProposals, height)
    /\ UNCHANGED <<seenProps, seenVotes, orphanVotes, immature, askedFor, env, deleted>>

(* ProposalList::vote_click_handler: the GUI's Yes/No/Abstain buttons    *)
(* vote with every configured masternode key through UpdateProposal, then *)
(* insert into the seen map.  Unlike mnbudgetvote it does not check the   *)
(* proposal's block window: the buttons' visibility was computed when the *)
(* row was selected (selectionChanged), and the hash may come from a table *)
(* refreshed before the proposal was removed.                             *)
GuiVote(m, p, val) ==
    LET v == [mn |-> m, prop |-> p, val |-> val, t |-> now, sig |-> "mn"]
    IN  /\ m \in pillars
        /\ CastVote(v)
        /\ UNCHANGED <<seenProps, orphanVotes, immature, askedFor, env, deleted>>

(* GetAllProposals (RPC getbudgetinfo, the proposal table of the GUI) and *)
(* GetBudget run CleanAndRemove(false) on every proposal before listing   *)
(* them: a query refreshes the fValid flags between NewBlock passes.      *)
QueryProposals ==
    /\ mapProposals' = CleanAndRemove(mapProposals)
    /\ UNCHANGED <<seenProps, seenVotes, orphanVotes, immature, askedFor, env, deleted>>

(* RPC submitbudget with -sporkkey set: Sign() succeeds, so the           *)
(* collateral test and, because SignatureValid() holds, the IsValid test  *)
(* are skipped; the broadcast enters the seen map, then AddProposal.      *)
(* Without -sporkkey the call reads params[6] of a 5-element array and    *)
(* throws before it changes anything.  CheckOrphanVotes is not called.    *)
SubmitBudget(p) ==
    /\ SporkSigned[p]
    /\ syncStage >= 1
    /\ seenProps' = seenProps \cup {p}
    /\ mapProposals' = AddProposal(mapProposals, p, height)
    /\ UNCHANGED <<seenVotes, orphanVotes, immature, askedFor, env, deleted>>

(* Shutdown writes budget.dat (DumpBudgets) and start-up reads it back     *)
(* (CBudgetDB::Read, then CheckAndRemove).  The file holds the seen maps, *)
(* the orphans and mapProposals; vote flags are not serialised, so loaded *)
(* votes have fValid = TRUE and fSynced = FALSE.  The immature queue and  *)
(* askedForSourceProposalOrBudget live in memory only, and masternode     *)
(* sync starts over.                                                      *)
Loaded(mp) == SetVoteFlags(mp, DOMAIN mp, LAMBDA sv : [sv EXCEPT !.valid = TRUE, !.synced = FALSE, !.relayed = FALSE])

Restart ==
    /\ restarts < MaxRestarts
    /\ restarts' = restarts + 1
    /\ mapProposals' = CheckAndRemove(Loaded(mapProposals), height)
    /\ immature' = <<>>
    /\ askedFor' = <<>>
    /\ syncStage' = 0
    /\ rpcVotes' = {}
    /\ UNCHANGED <<seenProps, seenVotes, orphanVotes, height, now, pillars, deleted>>

-----------------------------------------------------------------------------
(* Environment                                                             *)

Tick ==
    /\ now < MaxTime
    /\ now' = now + 1
    /\ UNCHANGED <<ledger, height, pillars, syncStage, restarts, rpcVotes, deleted>>

\* masternodeSync advances through its stages.
AdvanceSync ==
    /\ syncStage < 3
    /\ syncStage' = syncStage + 1
    /\ UNCHANGED <<ledger, height, now, pillars, restarts, rpcVotes, deleted>>

\* A masternode stops or starts qualifying as a pillar.
RegistryChange(m) ==
    /\ pillars' = IF m \in pillars THEN pillars \ {m} ELSE pillars \cup {m}
    /\ UNCHANGED <<ledger, height, now, syncStage, restarts, rpcVotes, deleted>>

Next ==
    \/ \E p \in Proposals : ReceiveProposal(p)
    \/ \E v \in VoteMsgs : ReceiveVote(v)
    \/ \E m \in LocalMasternodes, p \in Proposals, val \in LocalVoteValues, sig \in Signatures :
           VoteLocal(m, p, val, sig)
    \/ \E p \in Proposals, val \in LocalVoteValues : VoteMany(p, val)
    \/ \E e \in rpcVotes : VoteEntry(e)
    \/ \E v \in RawVoteMsgs : RawVote(v)
    \/ CheckBudgets
    \/ \E m \in LocalMasternodes, p \in Proposals, val \in {"YES", "NO", "ABSTAIN"} : GuiVote(m, p, val)
    \/ \E p \in LocalProposals : SubmitBudget(p)
    \/ QueryProposals
    \/ Restart
    \/ NewBlockSkipped
    \/ \E resync \in BOOLEAN : NewBlock(resync)
    \/ Tick
    \/ AdvanceSync
    \/ \E m \in Churning : RegistryChange(m)

Spec == Init /\ [][Next]_vars

-----------------------------------------------------------------------------
(* Properties                                                              *)

TypeOK ==
    /\ DOMAIN mapProposals \subseteq Proposals
    /\ \A p \in DOMAIN mapProposals :
           /\ DOMAIN mapProposals[p].votes \subseteq Masternodes
           /\ \A m \in DOMAIN mapProposals[p].votes :
                  mapProposals[p].votes[m] \in StoredVote /\ mapProposals[p].votes[m].v.mn = m
    /\ seenProps \subseteq Proposals
    /\ \A h \in DOMAIN seenVotes : seenVotes[h] \in Vote /\ VoteHash(seenVotes[h]) = h
    /\ \A p \in DOMAIN orphanVotes : orphanVotes[p] \in Vote /\ orphanVotes[p].prop = p
    /\ immature \in Seq(Proposals)
    /\ DOMAIN askedFor \subseteq Proposals /\ \A p \in DOMAIN askedFor : askedFor[p] \in 0..MaxTime
    /\ height \in 0..MaxHeight /\ now \in 0..MaxTime
    /\ pillars \subseteq Masternodes /\ syncStage \in 0..3 /\ restarts \in 0..MaxRestarts
    /\ rpcVotes \subseteq [mn : Masternodes, prop : Proposals, val : VoteValues, sig : Signatures]
    /\ deleted \subseteq Proposals

\* Every vote counted in a proposal, and every orphan waiting for one, was
\* authenticated when it arrived: the "mvote" handler checks the signature
\* before UpdateProposal, and CheckOrphanVotes applies orphans unchecked.
StoredVotesAuthentic ==
    /\ \A p \in DOMAIN mapProposals :
           \A m \in DOMAIN mapProposals[p].votes :
               LET v == mapProposals[p].votes[m].v IN v.val # "DELETE" /\ v.sig = "mn"
    /\ \A p \in DOMAIN orphanVotes :
           orphanVotes[p].sig = IF orphanVotes[p].val = "DELETE" THEN "spork" ELSE "mn"

\* The refinement mapping: the book of VoteLedger is mapProposals with the
\* vote flags dropped; a vote is authentic when its kind's key signed it.
Book == [p \in DOMAIN mapProposals |->
            [m \in DOMAIN mapProposals[p].votes |-> mapProposals[p].votes[m].v]]
GenuineVote(v) == v.val # "DELETE" /\ v.sig = "mn"
\* A proposal the removal test of the next NewBlock pass rejects.
RemovedByNextPass(p) == ~IsValid(mapProposals[p].votes, p, height + 1)

Ledger == INSTANCE VoteLedger WITH book <- Book, Authentic <- GenuineVote,
                                   rejected <- {p \in DOMAIN mapProposals : RemovedByNextPass(p)}

\* The ledger implements VoteLedger: on every path that stores a vote
\* ("mvote", orphans applied by CheckOrphanVotes, RPC and GUI votes, a
\* restart through budget.dat) a counted vote is authentic, is never lost
\* while its proposal stays, and is replaced only by a vote of the same
\* voter at least BUDGET_VOTE_UPDATE_MIN newer (AddOrUpdateVote's
\* anti-spam rule).
LedgerRefined == Ledger!Spec

\* Incremental sync: NewBlock's Sync(pnode, 0, true) offers the votes not
\* yet marked synced, and MarkSynced then marks what was offered.  A vote
\* marked synced has been offered to the peers (a synced vote is never
\* offered by an incremental sync again, until a ResetSync or a restart).
VotesRelayedBeforeSynced ==
    \A p \in DOMAIN mapProposals :
        \A m \in DOMAIN mapProposals[p].votes :
            mapProposals[p].votes[m].synced => mapProposals[p].votes[m].relayed

-----------------------------------------------------------------------------
(* What the spec says of the ledger and the code does not do.  Each is    *)
(* checked by a run that expects a violation.                            *)

\* The votes of a proposal with fValid as CleanAndRemove would set it now.
Revalidated(votes) == [m \in DOMAIN votes |-> [votes[m] EXCEPT !.valid = m \in pillars]]

\* Spec, proposal validity: active removal counts valid votes only.  A
\* proposal leaves mapProposals only by a DELETE vote or because it is
\* invalid with the votes of non-pillars discounted.  CheckAndRemove
\* tallies the fValid flags of the previous pass (all TRUE after loading
\* budget.dat) and runs before CleanAndRemove refreshes them.
RemovalUsesCurrentVotes ==
    [][\A p \in DOMAIN mapProposals \ DOMAIN mapProposals' :
         p \in deleted' \/ ~IsValid(Revalidated(mapProposals[p].votes), p, height')]_vars

\* Spec, proposal lifecycle: Removed is terminal, and a proposal re-enters
\* only as a fresh proposal with a new identity.  A DELETE vote erases the
\* hash from mapProposals only: a copy queued in the immature queue, or a
\* re-broadcast of a proposal that the sweep promoted without entering it
\* in the seen map, brings the same hash back.
DeletedStaysRemoved == \A p \in deleted : p \notin DOMAIN mapProposals

\* Spec, network handler: a vote is deduplicated only after it has been
\* validated.  "mvote" enters the vote in mapSeenMasternodeBudgetVotes
\* before checking its signature, and the hash leaves vchSig out, so a
\* forged copy makes the genuine vote a duplicate.
SeenVotesAuthentic ==
    \A h \in DOMAIN seenVotes :
        seenVotes[h].sig = IF seenVotes[h].val = "DELETE" THEN "spork" ELSE "mn"

=============================================================================
