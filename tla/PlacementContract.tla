--------------------------- MODULE PlacementContract ---------------------------
(***************************************************************************)
(* What one call of the balanced placement engine promises its caller,     *)
(* without the steps it takes: on success the call returns a             *)
(* list of distinct candidate domains as long as simulateGreedy's count    *)
(* (spec 8.4), whose counters now hold the request exactly (spec 8.2) in   *)
(* the consistent form the balancer writes (spec 4.6, step 3), and leaves  *)
(* every other domain as it was; on failure it returns no list and has     *)
(* changed, at most, counters of candidate domains.  BalancedPlacement is  *)
(* checked to implement this contract under a refinement mapping.          *)
(***************************************************************************)
EXTENDS TASDomain

CONSTANTS Requests

VARIABLES
  counters,     \* the domains' counters
  req,     \* the request of the call
  status,  \* "running", "done" or "failed"
  placed   \* the list returned on success

cvars == <<counters, req, status, placed>>

Candidates == Range(DomainsToBalance(Root, req.balanceOnChildren))

\* the counters the balancer leaves on a domain given ss slices and ls leaders
Written(ss, ls) ==
  [sliceState |-> ss, sliceStateWithLeader |-> ss - ls, leaderState |-> ls,
   state |-> ss * req.sliceSize, stateWithLeader |-> ss * req.sliceSize - ls]

Init ==
  /\ counters \in [Nodes -> Counters]
  /\ req \in Requests
  /\ status = "running"
  /\ placed = <<>>

Succeed ==
  /\ status = "running"
  /\ status' = "done"
  /\ \E l \in UNION {SetToSeqs(T) : T \in SUBSET Candidates} :
       /\ Len(l) = SimulateGreedy(counters, DomainsToBalance(Root, req.balanceOnChildren),
                                  req.sliceCount, req.leaderCount).count
       /\ placed' = l
       /\ \E ss \in [Range(l) -> 0..req.sliceCount], ls \in [Range(l) -> {0, 1}] :
            /\ SumFunction(ss) = req.sliceCount
            /\ SumFunction(ls) = req.leaderCount
            /\ counters' = [n \in Nodes |-> IF n \in Range(l) THEN Written(ss[n], ls[n]) ELSE counters[n]]
  /\ UNCHANGED req

Fail ==
  /\ status = "running"
  /\ status' = "failed"
  /\ placed' = <<>>
  /\ \A n \in Nodes \ Candidates : counters'[n] = counters[n]
  /\ UNCHANGED req

Next == Succeed \/ Fail

Spec == Init /\ [][Next]_cvars
=============================================================================
