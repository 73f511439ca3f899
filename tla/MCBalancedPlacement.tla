------------------------- MODULE MCBalancedPlacement -------------------------
(***************************************************************************)
(* Placement on the children of a root with three leaf children: every     *)
(* leaf capacity up to MaxCap slices, any with-leader capacity not above   *)
(* it, with or without leader eligibility, and every request up to        *)
(* MaxSlices slices and MaxLeaders leaders.                                *)
(***************************************************************************)
EXTENDS BalancedPlacement

MaxCap == 3
MaxSlices == 6
MaxLeaders == 1

MCChildren == ("r" :> <<"a", "b", "c">>) @@ ("a" :> <<>>) @@ ("b" :> <<>>) @@ ("c" :> <<>>)

MCLeafCaps ==
  {[sliceState |-> s, sliceStateWithLeader |-> w, leaderState |-> l] :
     s \in 0..MaxCap, w \in 0..MaxCap, l \in 0..1} \cap
  {c \in [sliceState : 0..MaxCap, sliceStateWithLeader : 0..MaxCap, leaderState : 0..1] :
     c.sliceStateWithLeader <= c.sliceState}

MCRequests ==
  [sliceCount : 0..MaxSlices, leaderCount : 0..MaxLeaders, sliceSize : {1},
   balanceOnChildren : {TRUE}]
=============================================================================
