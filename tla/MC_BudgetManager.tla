-------------------------- MODULE MC_BudgetManager --------------------------
(* Instance of BudgetManager for TLC: two proposals, two masternodes.      *)
(*  p1 is paid for by a collateral tx mined at height 1;                   *)
(*  p2 carries a spork-key signature and has no collateral tx.             *)
EXTENDS BudgetManager

CONSTANTS p1, p2, m1, m2

MC_Proposals == {p1, p2}
MC_Masternodes == {m1, m2}
MC_BlockStart == (p1 :> 0) @@ (p2 :> 0)
MC_BlockEnd == (p1 :> 4) @@ (p2 :> 4)
\* The same, with p2's block window ending before it starts.
MC_BlockEndMalformed == (p1 :> 4) @@ (p2 :> -1)
MC_SporkSigned == (p1 :> FALSE) @@ (p2 :> TRUE)
MC_CollateralOK == (p1 :> TRUE) @@ (p2 :> FALSE)
MC_TxHeight == (p1 :> 1) @@ (p2 :> 99)

MsgVote(m, p, val, t, sig) == [mn |-> m, prop |-> p, val |-> val, t |-> t, sig |-> sig]

\* Two voters on p1, a change of mind too soon and one late enough, a
\* copy of a genuine vote carrying a bad signature, and a spork DELETE.
MC_VoteMsgs ==
    { MsgVote(m1, p1, "YES", 0, "mn"),
      MsgVote(m1, p1, "NO", 1, "mn"),
      MsgVote(m1, p1, "NO", 2, "mn"),
      MsgVote(m2, p1, "NO", 0, "mn"),
      MsgVote(m2, p1, "NO", 0, "bad"),
      MsgVote(m1, p1, "DELETE", 0, "spork") }

\* One vote on the spork-signed p2, which can be known from height 0.
MC_P2VoteMsgs == { MsgVote(m2, p2, "YES", 0, "mn") }

\* A smaller set for the runs that add RPC votes and restarts.
MC_FewVoteMsgs ==
    { MsgVote(m2, p1, "NO", 0, "mn"),
      MsgVote(m2, p1, "NO", 0, "bad") }

=============================================================================
