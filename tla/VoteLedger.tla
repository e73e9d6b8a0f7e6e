----------------------------- MODULE VoteLedger -----------------------------
(***************************************************************************)
(* What the budget ledger promises about the votes it counts, with seen    *)
(* maps, orphans, the immature queue, vote flags and persistence left out: *)
(* a book of proposals, each with at most one vote per masternode.        *)
(*                                                                         *)
(*  - a proposal may enter (possibly with votes) or leave at any step;     *)
(*  - every vote in the book is authentic and is the voter's own vote on   *)
(*    that proposal;                                                       *)
(*  - while a proposal stays, none of its votes is lost, and a voter's     *)
(*    vote is replaced only by one at least VoteUpdateMin newer; only a    *)
(*    proposal the removal test rejects may leave and re-enter within one  *)
(*    step, and it then shows as one whose votes are all gone.             *)
(*                                                                         *)
(* One step may change several proposals at once, as a NewBlock pass or    *)
(* the orphans applied on a proposal's arrival do.  BudgetManager is shown *)
(* to implement it.                                                        *)
(***************************************************************************)
EXTENDS Integers

CONSTANTS
    Proposals,
    Masternodes,
    VoteUpdateMin,
    Authentic(_)    \* the votes a correct signature check lets through

VARIABLES
    book,           \* proposal -> masternode -> vote
    rejected        \* the proposals the removal test rejects in this state

\* A book in which every vote is an authentic vote of its own voter on
\* its own proposal.
WellFiled(b) ==
    /\ DOMAIN b \subseteq Proposals
    /\ \A p \in DOMAIN b :
           /\ DOMAIN b[p] \subseteq Masternodes
           /\ \A m \in DOMAIN b[p] : b[p][m].mn = m /\ b[p][m].prop = p /\ Authentic(b[p][m])

\* The votes of a proposal present before and after a step: none is lost,
\* and each one that changes is replaced by a vote at least VoteUpdateMin
\* newer; or the proposal was rejected, left and came back empty.
Kept(p, old, new) ==
    \/ /\ DOMAIN old \subseteq DOMAIN new
       /\ \A m \in DOMAIN old : new[m] = old[m] \/ new[m].t >= old[m].t + VoteUpdateMin
    \/ new = <<>> /\ p \in rejected

Init == book = <<>>

Next ==
    /\ WellFiled(book')
    /\ \A p \in DOMAIN book \cap DOMAIN book' : Kept(p, book[p], book'[p])

Spec == Init /\ [][Next]_book

=============================================================================
