---------------------------- MODULE EntropySelect ----------------------------
(***************************************************************************)
(* One call of selectOptimalDomainSetToFit (src/pkg/cache/localqueue.go,  *)
(* lines 140-215) with either value of its priorizeByEntropy parameter,   *)
(* made by a caller that passes a node's own children slice, as           *)
(* balanceThresholdValue's candidates are (line 121).  With the flag set  *)
(* the call runs sortDomainsByCapacityAndEntropy (lines 279-313), which   *)
(* writes the sorted order back into that slice (lines 310-312): the      *)
(* variable domains is the slice, shared by the caller and the call.      *)
(*                                                                         *)
(* The only call of this function under src/ (line 218) passes false.     *)
(* The flag is the spec's prioritize_by_entropy (sections 4.5 and 8.7).   *)
(* The dynamic program and its pick are those of BalancedPlacement.       *)
(***************************************************************************)
EXTENDS TASDomain

CONSTANTS
  LeafCaps,   \* the leaf counters a caller may pass in
  Requests,   \* [sliceCount, leaderCount, sliceSize, balanceOnChildren]
  Flags       \* the values of priorizeByEntropy a caller passes

\* the entropy comparison below is exact for at most two children
ASSUME \A n \in Nodes : Len(Children[n]) <= 2

\* the sort below is exact for slices of at most 12 domains
ASSUME \A n \in Nodes : Len(Children[n]) <= 12

VARIABLES
  dom,         \* the domains' counters (read only in this function)
  req,         \* the request of this call
  prioritize,  \* priorizeByEntropy
  domains,     \* the caller's slice, Children[Root] when the call begins
  pc,          \* where the call is
  opt,         \* optimalNumberOfDomains
  dp,          \* domainPlacements
  dIdx,        \* the candidate the dynamic program processes next
  out          \* the list returned, NoDomain for nil

vars == <<dom, req, prioritize, domains, pc, opt, dp, dIdx, out>>

BP == INSTANCE BalancedPlacement
        WITH snap <- dom, threshold <- 0, cands <- domains, result <- <<>>,
             extra <- 0, leadersLeft <- 0, bIdx <- 1, diag <- ""

-----------------------------------------------------------------------------
(***************************************************************************)
(* calculateEntropy (lines 254-277).  The Shannon entropy of two sizes     *)
(* x, y grows strictly with min(x, y) / (x + y) on [0, 1/2], and is zero    *)
(* for an empty list, a zero total, or a single size; so the ratio,        *)
(* kept as a numerator-denominator pair, orders entropies exactly.  Equal  *)
(* ratios give bit-equal float64 entropies: p_i is a correctly rounded     *)
(* quotient of the same real and the two terms are added commutatively.    *)
(***************************************************************************)
\* variant of lines 270-275 without the size > 0 guard of line 271: a zero
\* size adds -0 * log2(0), which is NaN in float64
CalculateEntropyUnguarded(blockSizes) ==
  LET total == blockSizes[1] + blockSizes[2]
  IN  CASE Len(blockSizes) < 2 \/ total = 0        -> <<0, 1>>
        [] blockSizes[1] = 0 \/ blockSizes[2] = 0 -> "NaN"
        [] OTHER -> <<Min2(blockSizes[1], blockSizes[2]), total>>

CalculateEntropy(blockSizes) ==
  LET total == blockSizes[1] + blockSizes[2]
  IN  IF Len(blockSizes) < 2 \/ total = 0
      THEN <<0, 1>>
      ELSE <<Min2(blockSizes[1], blockSizes[2]), total>>

EntropyGreater(e, f) == e[1] * f[2] > f[1] * e[2]

\* lines 288-293: the entropy of a domain's children's sliceState
DomainEntropy(dm, d) ==
  CalculateEntropy([i \in DOMAIN Children[d] |-> dm[Children[d][i]].sliceState])

\* the comparator of lines 297-308: a sorts strictly before b
CapacityEntropyBefore(dm, a, b) ==
  \/ dm[a].sliceState > dm[b].sliceState
  \/ /\ dm[a].sliceState = dm[b].sliceState
     /\ EntropyGreater(DomainEntropy(dm, a), DomainEntropy(dm, b))

(***************************************************************************)
(* sortDomainsByCapacityAndEntropy (lines 279-313): the new contents of   *)
(* the caller's slice.  slices.SortFunc is pdqsort, which promises no     *)
(* stability, but sorts slices of at most 12 elements by insertion sort,  *)
(* which keeps tied elements in order; the model's slices are that short. *)
(***************************************************************************)
SortDomainsByCapacityAndEntropy(dm, ds) ==
  StableSort(ds, LAMBDA a, b : CapacityEntropyBefore(dm, a, b))

-----------------------------------------------------------------------------
\* without a leader to place, a leaf holds as many slices with as without one
LeafCapsFor(r) ==
  IF r.leaderCount = 0
  THEN {[c EXCEPT !.sliceStateWithLeader = c.sliceState] : c \in LeafCaps}
  ELSE LeafCaps

Init ==
  /\ \E r \in Requests :
       \E leaf \in [{n \in Nodes : Children[n] = <<>>} -> LeafCapsFor(r)] :
         /\ req = r
         /\ dom = CallerCounters(leaf, r.sliceSize)
  /\ prioritize \in Flags
  /\ domains = Children[Root]
  /\ pc = "start"
  /\ opt = 0
  /\ dp = <<>>
  /\ dIdx = 1
  /\ out = NoDomain

Greedy == SimulateGreedy(dom, domains, req.sliceCount, req.leaderCount)

\* lines 141-144: the early return when the greedy simulation does not fit
SelectNoFit ==
  /\ pc = "start"
  /\ ~Greedy.fits
  /\ out' = NoDomain
  /\ pc' = "done"
  /\ UNCHANGED <<dom, req, prioritize, domains, opt, dp, dIdx>>

\* lines 141-156: size the table, sort the caller's slice if asked, seed it
SelectStart ==
  /\ pc = "start"
  /\ Greedy.fits
  /\ domains' = IF prioritize THEN SortDomainsByCapacityAndEntropy(dom, domains)
                 ELSE domains
  /\ opt' = Greedy.count
  /\ dp' = [i \in 0..Greedy.count |->
              IF i = 0 THEN <<req.leaderCount, req.sliceCount * req.sliceSize>> :> <<>>
              ELSE BP!NoCells]
  /\ dIdx' = 1
  /\ pc' = "dp"
  /\ UNCHANGED <<dom, req, prioritize, out>>

\* lines 158-193: one candidate, in the slice's (possibly sorted) order
DPStep ==
  /\ pc = "dp"
  /\ dIdx <= Len(domains)
  /\ dp' = BP!DPPass(dom, domains[dIdx], dp, opt)
  /\ dIdx' = dIdx + 1
  /\ UNCHANGED <<dom, req, prioritize, domains, pc, opt, out>>

\* lines 195-214
SelectReturn ==
  /\ pc = "dp"
  /\ dIdx > Len(domains)
  /\ out' = BP!BestPlacement(dp[opt])
  /\ pc' = "done"
  /\ UNCHANGED <<dom, req, prioritize, domains, opt, dp, dIdx>>

Next == SelectNoFit \/ SelectStart \/ DPStep \/ SelectReturn

Spec == Init /\ [][Next]_vars /\ WF_vars(Next)

-----------------------------------------------------------------------------
\* the table the call builds over the slice ds, left in the given order
DPTable(dm, ds, r) ==
  LET n  == SimulateGreedy(dm, ds, r.sliceCount, r.leaderCount).count
      t0 == [i \in 0..n |->
               IF i = 0 THEN <<r.leaderCount, r.sliceCount * r.sliceSize>> :> <<>>
               ELSE BP!NoCells]
  IN  FoldLeft(LAMBDA u, d : BP!DPPass(dm, d, u, n), t0, ds)[n]

\* the key of a table's winning cell: leaders and units left over
WinningKey(cells) == <<BP!BestLeader(cells), BP!BestSlice(cells)>>

TypeOK ==
  /\ dom \in [Nodes -> Counters]
  /\ req \in Requests
  /\ prioritize \in BOOLEAN
  /\ domains \in Seq(Nodes)
  /\ pc \in {"start", "dp", "done"}
  /\ opt \in 0..Len(domains)
  /\ dIdx \in 1..(Len(domains) + 1)
  /\ out = NoDomain \/ out \in Seq(Nodes)
  \* calculateEntropy of two sizes is a number of bits in [0, 1]
  /\ \A d \in Range(domains) :
       LET e == DomainEntropy(dom, d)
       IN  e \in Nat \X Nat /\ e[2] > 0 /\ 2 * e[1] <= e[2]

(***************************************************************************)
(* Entropy is a tie-breaker only (spec 8.7, and the open question of       *)
(* section 9): whatever order sortDomainsByCapacityAndEntropy leaves the   *)
(* candidates in, the call finds a domain set exactly when the unsorted    *)
(* call does, and its winning cell leaves the same leaders and units over; *)
(* the flag only picks among equally good lists.                           *)
(***************************************************************************)
EntropyTieBreakOnly ==
  pc = "done" =>
    LET g == SimulateGreedy(dom, Children[Root], req.sliceCount, req.leaderCount)
        t == DPTable(dom, Children[Root], req)
    IN  /\ (out = NoDomain) <=> (~g.fits \/ BP!BestPlacement(t) = NoDomain)
        /\ out # NoDomain => WinningKey(dp[opt]) = WinningKey(t)

(***************************************************************************)
(* The call leaves the caller's topology as it found it (spec 4.1: the     *)
(* engine reads children through read-only accessors): simulateGreedy     *)
(* over the caller's slice, as balanceThresholdValue runs it at line 126,  *)
(* answers the same request the same way after the call as before it.      *)
(***************************************************************************)
GreedyAnswerKept ==
  pc = "done" =>
    LET before == SimulateGreedy(dom, Children[Root], req.sliceCount, req.leaderCount)
        after  == SimulateGreedy(dom, domains, req.sliceCount, req.leaderCount)
    IN  before.fits = after.fits /\ before.count = after.count
=============================================================================
