------------------------- MODULE MCHistorySync -----------------------------
(* Instances of HistorySyncLive: a partition that one halving makes small
   enough, and a backlog that needs more halvings than a pass has pages. *)
EXTENDS HistorySyncLive, TLC

CONSTANTS a, b

HalvedTs == (a :> 1 @@ b :> 3)
DenseTs == (a :> 1 @@ b :> 2)
=============================================================================
