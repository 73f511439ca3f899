----------------------- MODULE MCBalancedPlacementTree -----------------------
(***************************************************************************)
(* Placement on a two-level tree r -> (a, b), a -> (a1, a2), b -> (b1),    *)
(* balancing on the children (inner domains with aggregated counters) or  *)
(* on the grandchildren (the leaves), with two-unit slices so that slice  *)
(* counts and units differ.                                                *)
(***************************************************************************)
EXTENDS BalancedPlacement

MaxCap == 2
MaxSlices == 4
MaxLeaders == 1

MCChildren ==
  ("r" :> <<"a", "b">>) @@ ("a" :> <<"a1", "a2">>) @@ ("b" :> <<"b1">>)
    @@ ("a1" :> <<>>) @@ ("a2" :> <<>>) @@ ("b1" :> <<>>)

MCLeafCaps ==
  {c \in [sliceState : 0..MaxCap, sliceStateWithLeader : 0..MaxCap, leaderState : 0..1] :
     c.sliceStateWithLeader <= c.sliceState}

MCRequests ==
  [sliceCount : 0..MaxSlices, leaderCount : 0..MaxLeaders, sliceSize : {2},
   balanceOnChildren : BOOLEAN]
=============================================================================
