------------------------- MODULE MC_ProposalRanking -------------------------
(***************************************************************************)
(* Three proposals.  1 and 2 share a name and are spork-signed (fee hash   *)
(* 0), so they tie on the fee hash; 3 carries a fee hash and ties with     *)
(* them on net votes whenever the tallies agree.  Their windows differ,    *)
(* 2 is established later than the others, and the enabled count moves     *)
(* the passing threshold between 0 and 1.                                  *)
(***************************************************************************)
EXTENDS ProposalRanking, TLC

MCName == (1 :> "road-map") @@ (2 :> "road-map") @@ (3 :> "infra")
MCBlockStart == (1 :> 0) @@ (2 :> 1) @@ (3 :> 0)
MCBlockEnd == (1 :> 2) @@ (2 :> 3) @@ (3 :> 3)
MCFeeHash == (1 :> 0) @@ (2 :> 0) @@ (3 :> 7)
MCCreated == (1 :> 0) @@ (2 :> 1) @@ (3 :> 0)
=============================================================================
