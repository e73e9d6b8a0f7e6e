--------------------------- MODULE ProposalRanking --------------------------
(***************************************************************************)
(* The budget queries of CBudgetManager over the proposals in mapProposals *)
(* (masternode-budget.cpp): GetBudget, which ranks every proposal with     *)
(* sortProposalsByVotes and keeps those IsPassing at the tip, and the     *)
(* proposal table of the GUI built from GetAllProposals.  Both run         *)
(* CleanAndRemove(false) first, so a vote counts only while its masternode *)
(* is a pillar.                                                            *)
(*                                                                         *)
(* The code's algorithms are operators (the sort RECURSIVE), each checked  *)
(* against a declarative reference over every vote assignment, pillar set, *)
(* tip and clock the bounds allow.  A proposal is its hash, a natural      *)
(* number, so that map iteration order is the order of Proposals.          *)
(***************************************************************************)
EXTENDS Integers, Sequences, SequencesExt, FiniteSets

CONSTANTS
    Proposals,          \* hashes of the proposals in mapProposals
    Masternodes,        \* voters' collateral inputs
    Name,               \* strProposalName
    BlockStart,         \* nBlockStart
    BlockEnd,           \* nBlockEnd
    FeeHash,            \* nFeeTXHash as a number (0 for spork-signed ones)
    Created,            \* nTime: the fee block's time
    EstablishmentTime,  \* Params().GetProposalEstablishmentTime()
    EnabledCounts,      \* values mnodeman.CountEnabled() may take
    MaxHeight,
    MaxTime

ASSUME Proposals \subseteq Nat

VoteValues == {"YES", "NO", "ABSTAIN"}
NoVote == "NONE"

VARIABLES
    votes,      \* p -> m -> the value of m's stored vote on p, or NoVote
    pillars,    \* masternodes whose votes SignatureValid(false) accepts
    enabled,    \* mnodeman.CountEnabled(ActiveProtocol())
    height,     \* chainActive.Tip()->nHeight
    now         \* GetAdjustedTime()

vars == <<votes, pillars, enabled, height, now>>

TypeOK ==
    /\ votes \in [Proposals -> [Masternodes -> VoteValues \cup {NoVote}]]
    /\ pillars \subseteq Masternodes
    /\ enabled \in EnabledCounts
    /\ height \in 0..MaxHeight
    /\ now \in 0..MaxTime

-----------------------------------------------------------------------------
(* The code.                                                               *)

\* GetYeas / GetNays / GetAbstains after CleanAndRemove(false).
Count(p, val) == Cardinality({m \in Masternodes : votes[p][m] = val /\ m \in pillars})
Yeas(p) == Count(p, "YES")
Nays(p) == Count(p, "NO")

\* CBudgetProposal::IsEstablished.
IsEstablished(p) == Created[p] < now - EstablishmentTime

\* CBudgetProposal::IsPassing(pindexPrev, nBlockStart, nBlockEnd, mnCount);
\* fValid holds for every proposal CheckAndRemove kept.
IsPassing(p, start, end, mnCount) ==
    /\ ~(BlockStart[p] > start)
    /\ ~(BlockEnd[p] < end)
    /\ ~(Yeas(p) - Nays(p) <= mnCount \div 10)
    /\ IsEstablished(p)

\* Mutant: ties broken by ascending fee hash.
SortByVotesAscendingFee(l, r) ==
    IF l.score # r.score THEN l.score > r.score ELSE FeeHash[l.p] < FeeHash[r.p]

\* sortProposalsByVotes::operator() on (proposal, yeas - nays) pairs.
SortByVotes(l, r) ==
    IF l.score # r.score THEN l.score > r.score ELSE FeeHash[l.p] > FeeHash[r.p]

\* Insert e before the first element it is ordered before.
RECURSIVE InsertSorted(_, _)
InsertSorted(e, s) ==
    IF s = <<>> \/ SortByVotes(e, Head(s)) THEN <<e>> \o s
    ELSE <<Head(s)>> \o InsertSorted(e, Tail(s))

\* std::sort of the vector, by insertion.
RECURSIVE SortPairs(_)
SortPairs(s) ==
    IF s = <<>> THEN <<>> ELSE InsertSorted(Head(s), SortPairs(Tail(s)))

\* mapProposals in iteration order, each paired with its net votes.
MapOrder == SetToSortSeq(Proposals, <)
Pairs == [i \in 1..Len(MapOrder) |->
            [p |-> MapOrder[i], score |-> Yeas(MapOrder[i]) - Nays(MapOrder[i])]]

\* CBudgetManager::GetBudget: rank, then keep those passing at the tip.
GetBudget ==
    LET ranked == SortPairs(Pairs)
        kept   == SelectSeq(ranked, LAMBDA e : IsPassing(e.p, height, height, enabled))
    IN  [i \in 1..Len(kept) |-> kept[i].p]

\* Mutant: the ratio returned as a fraction, without the factor 100.
GetRatioFraction(p) ==
    IF Yeas(p) + Nays(p) = 0 THEN 0 ELSE Yeas(p) \div (Yeas(p) + Nays(p))

\* CBudgetProposal::GetRatio, as refreshProposals stores it in an int: the
\* double 100 * yeas / (yeas + nays) truncated (0 with no yes or no vote).
GetRatio(p) ==
    IF Yeas(p) + Nays(p) = 0 THEN 0 ELSE (100 * Yeas(p)) \div (Yeas(p) + Nays(p))

\* ProposalTableModel::refreshProposals: one ProposalRecord per proposal of
\* GetAllProposals (CleanAndRemove(false), then map order).
RefreshProposals ==
    [i \in 1..Len(MapOrder) |->
        LET p == MapOrder[i] IN
        [hash |-> p, start |-> BlockStart[p], end |-> BlockEnd[p], name |-> Name[p],
         yes |-> Yeas(p), no |-> Nays(p), abstain |-> Count(p, "ABSTAIN"),
         percentage |-> GetRatio(p)]]

\* ProposalTableModel::data, Qt::ForegroundRole of the Percentage column.
PercentageColour(rec) == IF rec.percentage < 10 THEN "negative" ELSE "positive"

-----------------------------------------------------------------------------
(* How the inputs change: votes are cast, replaced and (by CheckAndRemove *)
(* of other proposals, DELETE or restart) dropped; the registry changes;   *)
(* blocks and time pass.                                                    *)

SetVote(p, m, val) ==
    /\ votes' = [votes EXCEPT ![p][m] = val]
    /\ UNCHANGED <<pillars, enabled, height, now>>

RegistryChange(m) ==
    /\ pillars' = IF m \in pillars THEN pillars \ {m} ELSE pillars \cup {m}
    /\ UNCHANGED <<votes, enabled, height, now>>

EnabledChange(c) ==
    /\ enabled' = c
    /\ UNCHANGED <<votes, pillars, height, now>>

Tick ==
    /\ \/ height < MaxHeight /\ height' = height + 1 /\ UNCHANGED now
       \/ now < MaxTime /\ now' = now + 1 /\ UNCHANGED height
    /\ UNCHANGED <<votes, pillars, enabled>>

Init ==
    /\ votes = [p \in Proposals |-> [m \in Masternodes |-> NoVote]]
    /\ pillars = Masternodes
    /\ enabled \in EnabledCounts
    /\ height = 0 /\ now = 0

Next ==
    \/ \E p \in Proposals, m \in Masternodes, val \in VoteValues \cup {NoVote} : SetVote(p, m, val)
    \/ \E m \in Masternodes : RegistryChange(m)
    \/ \E c \in EnabledCounts : EnabledChange(c)
    \/ Tick

Spec == Init /\ [][Next]_vars

-----------------------------------------------------------------------------
(* The references and the properties.                                      *)

\* Spec (IsPassing, 4.2): the window contains the query window, the net
\* vote exceeds a tenth of the enabled masternodes, and it is established.
Funded == {p \in Proposals :
             /\ BlockStart[p] <= height /\ height <= BlockEnd[p]
             /\ Yeas(p) - Nays(p) > enabled \div 10
             /\ Created[p] < now - EstablishmentTime}

\* Spec (ranking): higher net votes first; equal net votes by descending
\* collateral hash.  Proposals equal in both may come in either order.
RankedBefore(a, b) ==
    \/ Yeas(a) - Nays(a) > Yeas(b) - Nays(b)
    \/ Yeas(a) - Nays(a) = Yeas(b) - Nays(b) /\ FeeHash[a] > FeeHash[b]

\* GetBudget returns exactly the funded proposals, each once, and never
\* puts one after a proposal the ranking places behind it.
BudgetRanked ==
    /\ GetBudget \in SetToSeqs(Funded)
    /\ \A i, j \in 1..Len(GetBudget) : i < j => ~RankedBefore(GetBudget[j], GetBudget[i])

\* The proposal table agrees with the budget: every proposal GetBudget
\* funds at the tip has exactly one row, whose Percentage column shows at
\* least half of its yes and no votes as yes and is not drawn in the
\* negative colour (refreshProposals' int conversion of GetRatio).
FundedShownPositive ==
    \A p \in {GetBudget[i] : i \in 1..Len(GetBudget)} :
        \E i \in 1..Len(RefreshProposals) :
            /\ RefreshProposals[i].hash = p
            /\ \A j \in 1..Len(RefreshProposals) : RefreshProposals[j].hash = p => j = i
            /\ RefreshProposals[i].percentage >= 50
            /\ PercentageColour(RefreshProposals[i]) = "positive"

=============================================================================
