----------------------------- MODULE MCLaneGate -----------------------------
(***************************************************************************)
(* Instances of LaneGate for TLC.                                          *)
(***************************************************************************)
EXTENDS LaneGate, TLC
CONSTANTS a, b, c, r, x, y

MCRank == a :> 1 @@ b :> 2 @@ r :> 3
RankStores == a :> 1 @@ b :> 2
Rivals == a :> x @@ b :> y
Partners == a :> x @@ b :> x
LastBin == r :> 2
RankPair == b :> 1 @@ r :> 2
Alone == b :> y
NoBin == <<>>
RankThree == a :> 1 @@ b :> 2 @@ c :> 3
PairAndRival == a :> x @@ b :> x @@ c :> y
=============================================================================
