--------------------------- MODULE MCEntropySelect ---------------------------
(***************************************************************************)
(* selectOptimalDomainSetToFit on the children of r -> (a, b), each with  *)
(* two leaves, so that the candidates have child capacities and entropies *)
(* to compare, over every leaf capacity up to MaxCap slices, every        *)
(* request up to MaxSlices slices and MaxLeaders leaders, and both flags. *)
(***************************************************************************)
EXTENDS EntropySelect

MaxCap == 2
MaxSlices == 3
MaxLeaders == 1

MCChildren ==
  ("r" :> <<"a", "b">>) @@ ("a" :> <<"a1", "a2">>) @@ ("b" :> <<"b1", "b2">>)
    @@ ("a1" :> <<>>) @@ ("a2" :> <<>>) @@ ("b1" :> <<>>) @@ ("b2" :> <<>>)

\* a leaf that cannot host a leader has its with-leader count equal to its
\* slice count: the inner candidates read a leaf's with-leader count only
\* when the leaf may host the leader
MCLeafCaps ==
  {c \in [sliceState : 0..MaxCap, sliceStateWithLeader : 0..MaxCap, leaderState : 0..1] :
     /\ c.sliceStateWithLeader <= c.sliceState
     /\ c.leaderState = 0 => c.sliceStateWithLeader = c.sliceState}

MCRequests ==
  [sliceCount : 0..MaxSlices, leaderCount : 0..MaxLeaders, sliceSize : {1},
   balanceOnChildren : {TRUE}]
=============================================================================
