-------------------------- MODULE BalancedPlacement --------------------------
(***************************************************************************)
(* One call of the topology-aware balanced placement engine of             *)
(* src/pkg/cache/localqueue.go (package scheduler): the caller computes    *)
(* the balance threshold with balanceThresholdValue, then calls            *)
(* placeSlicesOnDomainsBalanced on the same candidate domains, which runs  *)
(* selectOptimalDomainSetToFit (greedy bound, then a dynamic program over  *)
(* the candidates) and distributes the slices over the selected domains,   *)
(* writing the result into the domains' counters.                          *)
(*                                                                         *)
(* Each loop iteration of the source whose effect is visible in the state  *)
(* (one candidate of the dynamic program, one selected domain of the       *)
(* balancer) is a step, so the invariants see the intermediate tables and  *)
(* the partly written domains.                                             *)
(***************************************************************************)
EXTENDS TASDomain

CONSTANTS
  LeafCaps,   \* the leaf counters a caller may pass in
  Requests    \* the requests: [sliceCount, leaderCount, sliceSize, balanceOnChildren]

VARIABLES
  dom,          \* the domains' counters, mutated by the balancer
  snap,         \* the counters when the call began (history, never changed)
  req,          \* the request of this call
  pc,           \* where the call is
  threshold,    \* the threshold balanceThresholdValue returned
  cands,        \* the candidate domains of the call
  opt,          \* optimalNumberOfDomains from simulateGreedy
  dp,           \* domainPlacements[i]: (leaders left, units left) -> domain list
  dIdx,         \* the candidate the dynamic program processes next
  result,       \* resultDomains
  extra,        \* extraSlicesLeft
  leadersLeft,  \* leadersLeft
  bIdx,         \* the selected domain the balancer processes next
  diag          \* the returned diagnostic

vars == <<dom, snap, req, pc, threshold, cands, opt, dp, dIdx, result, extra,
          leadersLeft, bIdx, diag>>

Diagnostics == {"", "NoFit", "NotAllPlaced"}

-----------------------------------------------------------------------------
(***************************************************************************)
(* balanceThresholdValue (lines 110-138).  divByZero marks the integer     *)
(* division of line 130 by a zero domain count, a run-time panic in Go.    *)
(***************************************************************************)
\* variant of balanceThresholdValue without the early return of line 113
NothingRequestedUnchecked(sliceCount, leaderCount) == FALSE

\* line 113
NothingRequested(sliceCount, leaderCount) == sliceCount = 0 /\ leaderCount = 0

\* line 116
StartTooSmall(dm, start, sliceCount, leaderCount) ==
  dm[start].sliceStateWithLeader < sliceCount \/ dm[start].leaderState < leaderCount

\* variant of line 130 rounding the mean up
MeanThresholdCeil(sliceCount, count) ==
  IF count = 0 THEN 0 ELSE (sliceCount + count - 1) \div count

\* line 130: the floor of the mean over the greedily selected domains
MeanThreshold(sliceCount, count) == IF count = 0 THEN 0 ELSE sliceCount \div count

\* variant of lines 131-136 that also subtracts the leader from its domain
ClampThresholdLeaderSlot(dm, g, t) ==
  LET t1 == IF g.lastWithLeader # NoDomain
            THEN Min2(t, dm[g.lastWithLeader].sliceStateWithLeader - 1) ELSE t
  IN  IF g.last # NoDomain THEN Min2(t1, dm[g.last].sliceState) ELSE t1

\* lines 131-136: clamp by the last domains the greedy simulation took
ClampThreshold(dm, g, t) ==
  LET t1 == IF g.lastWithLeader # NoDomain
            THEN Min2(t, dm[g.lastWithLeader].sliceStateWithLeader) ELSE t
  IN  IF g.last # NoDomain THEN Min2(t1, dm[g.last].sliceState) ELSE t1

BalanceThresholdValue(dm, start, sliceCount, leaderCount, balanceOnChildren) ==
  LET g == SimulateGreedy(dm, DomainsToBalance(start, balanceOnChildren),
                          sliceCount, leaderCount)
      no == [threshold |-> 0, ok |-> FALSE, divByZero |-> FALSE]
  IN  CASE NothingRequested(sliceCount, leaderCount) ->
             [threshold |-> 0, ok |-> TRUE, divByZero |-> FALSE]
        [] StartTooSmall(dm, start, sliceCount, leaderCount) -> no
        [] ~g.fits -> no
        [] OTHER -> [threshold |-> ClampThreshold(dm, g, MeanThreshold(sliceCount, g.count)),
                     ok |-> TRUE, divByZero |-> g.count = 0]

-----------------------------------------------------------------------------
(***************************************************************************)
(* The dynamic program of selectOptimalDomainSetToFit (lines 150-193).     *)
(* A level dp[i] maps a key <<leaders left, units left>> to the first      *)
(* domain list written there.  Keys are visited in ascending order of      *)
(* leaders, then units (slices.Sorted over the nested maps).               *)
(***************************************************************************)
NoCells == [k \in {} |-> <<>>]

KeyLess(a, b) == a[1] < b[1] \/ (a[1] = b[1] /\ a[2] < b[2])

SortedKeys(cells) == SetToSortSeq(DOMAIN cells, KeyLess)

\* the "write iff absent" of lines 176-178 and 186-188
WriteIfAbsent(cells, k, v) == IF k \in DOMAIN cells THEN cells ELSE cells @@ (k :> v)

\* variant of line 163 pruning a cell once either count is used up
ExtendCellPruneEither(dm, d, prev, cells, k) ==
  LET bl == k[1]
      bs == k[2]
      np == Append(prev[k], d)
      withLeader ==
        IF bl > 0 /\ dm[d].leaderState > 0
        THEN WriteIfAbsent(cells, <<bl - dm[d].leaderState, bs - dm[d].stateWithLeader>>, np)
        ELSE cells
      withoutLeader ==
        IF dm[d].sliceState > 0
        THEN WriteIfAbsent(withLeader, <<bl, bs - dm[d].state>>, np)
        ELSE withLeader
  IN  IF bl <= 0 \/ bs <= 0 THEN cells ELSE withoutLeader

\* lines 161-189: extend the cell k of level i-1 by domain d into level i
ExtendCell(dm, d, prev, cells, k) ==
  LET bl == k[1]
      bs == k[2]
      np == Append(prev[k], d)
      withLeader ==
        IF bl > 0 /\ dm[d].leaderState > 0
        THEN WriteIfAbsent(cells, <<bl - dm[d].leaderState, bs - dm[d].stateWithLeader>>, np)
        ELSE cells
      withoutLeader ==
        IF dm[d].sliceState > 0
        THEN WriteIfAbsent(withLeader, <<bl, bs - dm[d].state>>, np)
        ELSE withLeader
  IN  IF bl <= 0 /\ bs <= 0 THEN cells ELSE withoutLeader

\* lines 160-191: one level i for domain d, reading level i-1
DPLevel(dm, d, t, i) ==
  FoldLeft(LAMBDA cells, k : ExtendCell(dm, d, t[i - 1], cells, k), t[i], SortedKeys(t[i - 1]))

\* variant of line 159 walking the levels upwards
DPPassAscending(dm, d, t, n) ==
  FoldLeft(LAMBDA u, i : [u EXCEPT ![i] = DPLevel(dm, d, u, i)], t, [j \in 1..n |-> j])

\* lines 158-192 for one domain d: levels from optimalNumberOfDomains down to 1
DPPass(dm, d, t, n) ==
  FoldLeft(LAMBDA u, i : [u EXCEPT ![i] = DPLevel(dm, d, u, i)], t, [j \in 1..n |-> n + 1 - j])

(***************************************************************************)
(* The choice of lines 195-214.  The loop of line 198 ranges over the      *)
(* positions 0..n-1 of the sorted leader keys, not over the keys, so the   *)
(* row it takes is the one keyed 0 as soon as there is any row at all.     *)
(***************************************************************************)
LeaderKeys(cells) == {k[1] : k \in DOMAIN cells}

BestLeader(cells) ==
  LET ps == {j \in 0..(Cardinality(LeaderKeys(cells)) - 1) : j <= 0}
  IN  IF ps = {} THEN NoDomain ELSE CHOOSE j \in ps : \A p \in ps : p <= j

BestSlice(cells) ==
  LET row == {k[2] : k \in {c \in DOMAIN cells : c[1] = BestLeader(cells)}}
      ok  == {s \in row : s <= 0}
  IN  IF ok = {} THEN NoDomain ELSE CHOOSE s \in ok : \A p \in ok : p <= s

\* the list selectOptimalDomainSetToFit returns, NoDomain for nil
BestPlacement(cells) ==
  IF BestLeader(cells) = NoDomain \/ BestSlice(cells) = NoDomain THEN NoDomain
  ELSE cells[<<BestLeader(cells), BestSlice(cells)>>]

-----------------------------------------------------------------------------
\* without a leader to place, a domain holds as many slices with as without one
WithoutLeader(leaf) ==
  [n \in DOMAIN leaf |-> [leaf[n] EXCEPT !.sliceStateWithLeader = leaf[n].sliceState]]

Init ==
  /\ \E leaf \in [{n \in Nodes : Children[n] = <<>>} -> LeafCaps], r \in Requests :
       /\ req = r
       /\ dom = CallerCounters(IF r.leaderCount = 0 THEN WithoutLeader(leaf) ELSE leaf,
                               r.sliceSize)
  /\ snap = dom
  /\ pc = "threshold"
  /\ threshold = 0
  /\ cands = DomainsToBalance(Root, req.balanceOnChildren)
  /\ opt = 0
  /\ dp = <<>>
  /\ dIdx = 1
  /\ result = <<>>
  /\ extra = 0
  /\ leadersLeft = 0
  /\ bIdx = 1
  /\ diag = ""

ThresholdOf == BalanceThresholdValue(dom, Root, req.sliceCount, req.leaderCount,
                                     req.balanceOnChildren)

\* the caller gives up when balanceThresholdValue answers false
ThresholdRejects ==
  /\ pc = "threshold"
  /\ ~ThresholdOf.ok
  /\ pc' = "failed"
  /\ diag' = "NoFit"
  /\ UNCHANGED <<dom, snap, req, threshold, cands, opt, dp, dIdx, result, extra,
                 leadersLeft, bIdx>>

ThresholdAccepts ==
  /\ pc = "threshold"
  /\ ThresholdOf.ok
  /\ threshold' = ThresholdOf.threshold
  /\ pc' = "select"
  /\ UNCHANGED <<dom, snap, req, cands, opt, dp, dIdx, result, extra,
                 leadersLeft, bIdx, diag>>

Greedy == SimulateGreedy(dom, cands, req.sliceCount, req.leaderCount)

(***************************************************************************)
(* Lines 141-156 (line 218 passes priorizeByEntropy = false).  The early  *)
(* return of lines 142-143 is taken only when simulateGreedy rejects the  *)
(* request, and the caller has just run the same simulation on the same   *)
(* candidates in balanceThresholdValue and stopped if it failed: the fit  *)
(* is a conjunct here.                                                     *)
(***************************************************************************)
SelectStart ==
  /\ pc = "select"
  /\ Greedy.fits
  /\ opt' = Greedy.count
  /\ dp' = [i \in 0..Greedy.count |->
              IF i = 0 THEN <<req.leaderCount, req.sliceCount * req.sliceSize>> :> <<>>
              ELSE NoCells]
  /\ dIdx' = 1
  /\ pc' = "dp"
  /\ UNCHANGED <<dom, snap, req, threshold, cands, result, extra, leadersLeft, bIdx, diag>>

\* lines 158-193: one candidate domain
DPStep ==
  /\ pc = "dp"
  /\ dIdx <= Len(cands)
  /\ dp' = DPPass(dom, cands[dIdx], dp, opt)
  /\ dIdx' = dIdx + 1
  /\ UNCHANGED <<dom, snap, req, pc, threshold, cands, opt, result, extra,
                 leadersLeft, bIdx, diag>>

Selected == BestPlacement(dp[opt])

(***************************************************************************)
(* Lines 219-227.  The early returns of lines 219-220 (no cell found) and *)
(* 222-223 (threshold above the mean) are never taken for this caller:    *)
(* DPComplete and ThresholdWithinMean check that, so PickStart carries    *)
(* their guards as conjuncts.                                              *)
(***************************************************************************)
PickStart ==
  /\ pc = "dp"
  /\ dIdx > Len(cands)
  /\ Selected # NoDomain
  /\ req.sliceCount >= Len(Selected) * threshold
  /\ result' = SortedDomainsWithLeader(dom, Selected)
  /\ extra' = req.sliceCount - Len(Selected) * threshold
  /\ leadersLeft' = req.leaderCount
  /\ bIdx' = 1
  /\ pc' = "balance"
  /\ UNCHANGED <<dom, snap, req, threshold, cands, opt, dp, dIdx, diag>>

-----------------------------------------------------------------------------
(***************************************************************************)
(* The balancer loop, lines 229-247: one selected domain per step, one     *)
(* action per case of the switch.  Assign writes lines 242-246.            *)
(***************************************************************************)
\* variant of lines 242-246 that does not rewrite sliceStateWithLeader
AssignKeepWithLeader(d, ls, take) ==
  LET ss == threshold + take
  IN  /\ dom' = [dom EXCEPT ![d] = [@ EXCEPT !.sliceState = ss, !.leaderState = ls,
                                           !.state = ss * req.sliceSize,
                                           !.stateWithLeader = ss * req.sliceSize - ls]]
      /\ extra' = extra - take
      /\ bIdx' = bIdx + 1

Assign(d, ls, take) ==
  LET ss == threshold + take
  IN  /\ dom' = [dom EXCEPT ![d] = [sliceState |-> ss,
                                    sliceStateWithLeader |-> ss - ls,
                                    leaderState |-> ls,
                                    state |-> ss * req.sliceSize,
                                    stateWithLeader |-> ss * req.sliceSize - ls]]
      /\ extra' = extra - take
      /\ bIdx' = bIdx + 1

BalanceLeader ==
  /\ pc = "balance"
  /\ bIdx <= Len(result)
  /\ leadersLeft > 0
  /\ Assign(result[bIdx], 1, Min2(dom[result[bIdx]].sliceStateWithLeader - threshold, extra))
  /\ leadersLeft' = leadersLeft - 1
  /\ UNCHANGED <<snap, req, pc, threshold, cands, opt, dp, dIdx, result, diag>>

BalanceExtra ==
  /\ pc = "balance"
  /\ bIdx <= Len(result)
  /\ leadersLeft <= 0 /\ extra > 0
  /\ Assign(result[bIdx], 0, Min2(dom[result[bIdx]].sliceState - threshold, extra))
  /\ UNCHANGED <<snap, req, pc, threshold, cands, opt, dp, dIdx, result, leadersLeft, diag>>

BalanceThreshold ==
  /\ pc = "balance"
  /\ bIdx <= Len(result)
  /\ leadersLeft <= 0 /\ extra <= 0
  /\ Assign(result[bIdx], 0, 0)
  /\ UNCHANGED <<snap, req, pc, threshold, cands, opt, dp, dIdx, result, leadersLeft, diag>>

\* lines 248-249
FinishUnplaced ==
  /\ pc = "balance"
  /\ bIdx > Len(result)
  /\ extra > 0 \/ leadersLeft > 0
  /\ pc' = "failed"
  /\ diag' = "NotAllPlaced"
  /\ UNCHANGED <<dom, snap, req, threshold, cands, opt, dp, dIdx, result, extra,
                 leadersLeft, bIdx>>

\* line 251
FinishPlaced ==
  /\ pc = "balance"
  /\ bIdx > Len(result)
  /\ extra <= 0 /\ leadersLeft <= 0
  /\ pc' = "done"
  /\ UNCHANGED <<dom, snap, req, threshold, cands, opt, dp, dIdx, result, extra,
                 leadersLeft, bIdx, diag>>

Next ==
  \/ ThresholdRejects \/ ThresholdAccepts
  \/ SelectStart \/ DPStep \/ PickStart
  \/ BalanceLeader \/ BalanceExtra \/ BalanceThreshold
  \/ FinishUnplaced \/ FinishPlaced

\* the call runs to completion: no step waits on anything
Spec == Init /\ [][Next]_vars /\ WF_vars(Next)

-----------------------------------------------------------------------------
(***************************************************************************)
(* The whole call as a function of the caller's counters and a request,   *)
(* for comparing two calls.  BalancerLeftOver runs the loop of lines       *)
(* 229-247 over the sorted selection and returns the slices and leaders    *)
(* left; each domain is visited once, so its own counters are read before *)
(* they are written.                                                       *)
(***************************************************************************)
BalancerLeftOver(dm, sel, r, t) ==
  LET step(acc, d) ==
        LET take == CASE acc.leaders > 0 -> Min2(dm[d].sliceStateWithLeader - t, acc.extra)
                      [] acc.extra > 0   -> Min2(dm[d].sliceState - t, acc.extra)
                      [] OTHER           -> 0
        IN  [extra |-> acc.extra - take,
             leaders |-> IF acc.leaders > 0 THEN acc.leaders - 1 ELSE acc.leaders]
  IN  FoldLeft(step, [extra |-> r.sliceCount - Len(sel) * t, leaders |-> r.leaderCount],
               SortedDomainsWithLeader(dm, sel))

\* the caller's balanceThresholdValue, then placeSlicesOnDomainsBalanced
\* (lines 217-252): does the call fail?
PlaceFails(dm, r) ==
  LET th  == BalanceThresholdValue(dm, Root, r.sliceCount, r.leaderCount, r.balanceOnChildren)
      cs  == DomainsToBalance(Root, r.balanceOnChildren)
      n   == SimulateGreedy(dm, cs, r.sliceCount, r.leaderCount).count
      t0  == [i \in 0..n |->
                IF i = 0 THEN <<r.leaderCount, r.sliceCount * r.sliceSize>> :> <<>>
                ELSE NoCells]
      sel == BestPlacement(FoldLeft(LAMBDA u, d : DPPass(dm, d, u, n), t0, cs)[n])
      bal == BalancerLeftOver(dm, sel, r, th.threshold)
  IN  \/ ~th.ok
      \/ sel = NoDomain
      \/ r.sliceCount < Len(sel) * th.threshold
      \/ bal.extra > 0 \/ bal.leaders > 0

-----------------------------------------------------------------------------
(***************************************************************************)
(* Reference definitions for the properties.                               *)
(***************************************************************************)
Units(dm, d, withLeader) == IF withLeader THEN dm[d].stateWithLeader ELSE dm[d].state

\* the units left of the request when S hosts it with leaders on L
UnitsLeft(dm, S, L) ==
  req.sliceCount * req.sliceSize
    - SumFunction([d \in S |-> Units(dm, d, d \in L)])

\* S can host the request with one leader on each domain of L
Hosts(dm, S, L) ==
  /\ L \subseteq {d \in S : dm[d].leaderState > 0}
  /\ Cardinality(L) = req.leaderCount
  /\ UnitsLeft(dm, S, L) <= 0

HostingSets(dm) == {S \in SUBSET Range(cands) : \E L \in SUBSET S : Hosts(dm, S, L)}

-----------------------------------------------------------------------------
TypeOK ==
  /\ dom \in [Nodes -> Counters]
  /\ snap \in [Nodes -> Counters]
  /\ req \in Requests
  /\ pc \in {"threshold", "select", "dp", "balance", "done", "failed"}
  /\ threshold \in Nat
  /\ opt \in 0..Len(cands)
  /\ dIdx \in 1..(Len(cands) + 1)
  /\ result \in Seq(Nodes)
  /\ extra \in Int /\ leadersLeft \in Int
  /\ bIdx \in 1..(Len(result) + 1)
  /\ diag \in Diagnostics

(***************************************************************************)
(* Every cell of the dynamic program's table is what its key says: the     *)
(* list at level i has i distinct candidates already processed, and for    *)
(* some choice of leader domains among them the key is the leaders and     *)
(* units still missing.  This is the knapsack invariant that the descending *)
(* level loop of line 159 and the two cases of lines 170-189 maintain.     *)
(***************************************************************************)
DPCellsSound ==
  pc = "dp" =>
    \A i \in 0..opt : \A k \in DOMAIN dp[i] :
      LET l == dp[i][k]
      IN  /\ Len(l) = i
          /\ IsInjective(l)
          /\ Range(l) \subseteq Range(SubSeq(cands, 1, dIdx - 1))
          /\ \E L \in SUBSET {d \in Range(l) : dom[d].leaderState > 0} :
               k = <<req.leaderCount - Cardinality(L), UnitsLeft(dom, Range(l), L)>>

(***************************************************************************)
(* The dynamic program finds a placement on exactly optimalNumberOfDomains *)
(* domains whenever one exists: first-writer-wins and the pruning of       *)
(* line 163 never lose every table path to a hosting set of that size.     *)
(***************************************************************************)
DPComplete ==
  (pc = "dp" /\ dIdx > Len(cands)) =>
    (Selected # NoDomain <=> \E S \in HostingSets(dom) : Cardinality(S) = opt)

(***************************************************************************)
(* The threshold the caller computed with balanceThresholdValue never      *)
(* exceeds the mean over the domains the dynamic program selects, so the   *)
(* early return of line 222 is dead code for this caller.                  *)
(***************************************************************************)
ThresholdWithinMean ==
  (pc = "dp" /\ dIdx > Len(cands) /\ Selected # NoDomain) =>
    req.sliceCount >= Len(Selected) * threshold

(***************************************************************************)
(* The integer division of line 130 never divides by a zero domain count.  *)
(***************************************************************************)
NoDivisionByZero == pc = "threshold" => ~ThresholdOf.divByZero

(***************************************************************************)
(* No selected domain gets more slices than it could hold: with a leader,  *)
(* at most its sliceStateWithLeader, without, at most its sliceState       *)
(* (spec section 8, property 1).                                           *)
(***************************************************************************)
CapacityRespected ==
  pc = "done" =>
    \A i \in DOMAIN result :
      LET d == result[i]
      IN  dom[d].sliceState <= IF dom[d].leaderState = 1
                               THEN snap[d].sliceStateWithLeader
                               ELSE snap[d].sliceState

(***************************************************************************)
(* The engine mutates domains only on success (spec section 4.8).          *)
(***************************************************************************)
FailureLeavesDomains == pc = "failed" => dom = snap

(***************************************************************************)
(* Monotone infeasibility (spec 8.5): when a call fails, the same call on  *)
(* the same counters asking for one slice more fails too.                  *)
(***************************************************************************)
MonotoneInfeasibility ==
  pc = "failed" => PlaceFails(snap, [req EXCEPT !.sliceCount = @ + 1])

-----------------------------------------------------------------------------
(***************************************************************************)
(* The refinement mapping: until the call returns, the caller sees the     *)
(* counters it passed in (snap) and no result; the balancer's partial      *)
(* writes become visible with the return.                                  *)
(***************************************************************************)
Returned == pc \in {"done", "failed"}

seenDom == IF Returned THEN dom ELSE snap

seenStatus == IF Returned THEN pc ELSE "running"

seenPlaced == IF pc = "done" THEN result ELSE <<>>

Contract == INSTANCE PlacementContract
              WITH counters <- seenDom, status <- seenStatus, placed <- seenPlaced

(***************************************************************************)
(* The call implements its contract: a success leaves exactly the request  *)
(* on a list of distinct candidates as long as the greedy count, with      *)
(* consistent counters and no other domain touched, and a failure touches  *)
(* nothing but candidates.                                                 *)
(***************************************************************************)
ContractSpec == Contract!Spec
=============================================================================
