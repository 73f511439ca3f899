----------------------------- MODULE TASDomain -----------------------------
(***************************************************************************)
(* The topology tree the balanced-placement engine reads, and the pure     *)
(* helpers of src/pkg/cache/localqueue.go (package scheduler) that order   *)
(* and simulate over domains.  A domain's counters are a record; the       *)
(* engine's domain pointers are node identifiers and the counters live in *)
(* a function dm \in [Nodes -> Counters] that callers pass in, because the *)
(* balancer mutates them in place.                                         *)
(***************************************************************************)
EXTENDS Integers, Sequences, FiniteSets, SequencesExt, Functions, TLC

CONSTANTS
  Root,       \* the starting domain of a placement
  Children,   \* Children[n]: the ordered child sequence of node n
  NoDomain    \* the nil *domain pointer

Nodes == DOMAIN Children

ASSUME Root \in Nodes /\ NoDomain \notin Nodes

Counters == [sliceState : Int, sliceStateWithLeader : Int, leaderState : Int,
             state : Int, stateWithLeader : Int]

Min2(a, b) == IF a <= b THEN a ELSE b

Max2(a, b) == IF a >= b THEN a ELSE b

(***************************************************************************)
(* A stable sort of a sequence of domains: Prec(a, b) says a goes strictly *)
(* before b; ties keep their input order (the source's sorts are stable).  *)
(***************************************************************************)
StableSort(s, Prec(_, _)) ==
  LET before(i, j) == Prec(s[i], s[j]) \/ (~Prec(s[j], s[i]) /\ i < j)
      rank(i) == Cardinality({j \in DOMAIN s : before(j, i)}) + 1
  IN  [k \in DOMAIN s |-> s[CHOOSE i \in DOMAIN s : rank(i) = k]]

\* sortedDomains(ds, false): descending by sliceState.
SortedDomains(dm, ds) ==
  StableSort(ds, LAMBDA a, b : dm[a].sliceState > dm[b].sliceState)

\* sortedDomainsWithLeader(ds, false): descending by sliceStateWithLeader,
\* ties broken by sliceState.
SortedDomainsWithLeader(dm, ds) ==
  StableSort(ds, LAMBDA a, b :
    \/ dm[a].sliceStateWithLeader > dm[b].sliceStateWithLeader
    \/ /\ dm[a].sliceStateWithLeader = dm[b].sliceStateWithLeader
       /\ dm[a].sliceState > dm[b].sliceState)

\* domain.grandchildren(): the children of the children, in order.
Grandchildren(n) == FlattenSeq([i \in DOMAIN Children[n] |-> Children[Children[n][i]]])

\* the candidate list of a placement: lines 120-124 of balanceThresholdValue.
DomainsToBalance(n, balanceOnChildren) ==
  IF balanceOnChildren THEN Children[n] ELSE Grandchildren(n)

-----------------------------------------------------------------------------
(***************************************************************************)
(* simulateGreedy (lines 72-105).  The leader loop walks the domains in    *)
(* descending sliceStateWithLeader order while leaders remain and the next *)
(* domain can host one; the slice loop walks the rest in descending        *)
(* sliceState order while slices remain and the next domain has room.      *)
(***************************************************************************)
RECURSIVE LeaderLoop(_, _, _)
LeaderLoop(dm, s, acc) ==
  IF acc.leaders > 0 /\ acc.idx <= Len(s) /\ dm[s[acc.idx]].leaderState > 0
  THEN LET d == s[acc.idx]
       IN  LeaderLoop(dm, s, [acc EXCEPT !.count = @ + 1, !.lastWithLeader = d,
                                         !.leaders = @ - dm[d].leaderState,
                                         !.slices = @ - dm[d].sliceStateWithLeader,
                                         !.idx = @ + 1])
  ELSE acc

RECURSIVE SliceLoop(_, _, _)
SliceLoop(dm, s, acc) ==
  IF acc.slices > 0 /\ acc.idx <= Len(s) /\ dm[s[acc.idx]].sliceState > 0
  THEN LET d == s[acc.idx]
       IN  SliceLoop(dm, s, [acc EXCEPT !.count = @ + 1, !.last = d,
                                        !.slices = @ - dm[d].sliceState,
                                        !.idx = @ + 1])
  ELSE acc

SimulateGreedy(dm, ds, sliceCount, leaderCount) ==
  LET start  == [count |-> 0, leaders |-> leaderCount, slices |-> sliceCount,
                 lastWithLeader |-> NoDomain, last |-> NoDomain, idx |-> 1]
      sorted == SortedDomainsWithLeader(dm, ds)
      led    == IF leaderCount > 0 THEN LeaderLoop(dm, sorted, start) ELSE start
      rest   == IF leaderCount > 0
                THEN SortedDomains(dm, SubSeq(sorted, led.idx, Len(sorted)))
                ELSE SortedDomains(dm, ds)
      done   == SliceLoop(dm, rest, [led EXCEPT !.idx = 1])
  IN  IF led.leaders > 0 \/ done.slices > 0
      THEN [fits |-> FALSE, count |-> 0, lastWithLeader |-> NoDomain, last |-> NoDomain]
      ELSE [fits |-> TRUE, count |-> done.count,
            lastWithLeader |-> done.lastWithLeader, last |-> done.last]

-----------------------------------------------------------------------------
(***************************************************************************)
(* The counters the caller builds before a call (not part of this source;  *)
(* the spec leaves their derivation to the caller, section 3).  Leaves get  *)
(* their counters as given; an inner node sums its children's slices, may  *)
(* host a leader if a child may, and with a leader holds the best child    *)
(* with its leader plus the other children in full.  Slice counts are      *)
(* turned into units by multiplying with the slice size (section 3).       *)
(***************************************************************************)
RECURSIVE SliceCounters(_, _)
SliceCounters(leaf, n) ==
  IF Children[n] = <<>> THEN leaf[n]
  ELSE LET kids == Range(Children[n])
           kc   == [k \in kids |-> SliceCounters(leaf, k)]
           ss   == SumFunction([k \in kids |-> kc[k].sliceState])
           lead == {k \in kids : kc[k].leaderState > 0}
       IN  [sliceState |-> ss,
            leaderState |-> IF lead = {} THEN 0 ELSE 1,
            sliceStateWithLeader |->
              IF lead = {} THEN ss
              ELSE LET with(k) == kc[k].sliceStateWithLeader + ss - kc[k].sliceState
                   IN  with(CHOOSE k \in lead : \A j \in lead : with(j) <= with(k))]

CallerCounters(leaf, sliceSize) ==
  [n \in Nodes |-> LET c == SliceCounters(leaf, n)
                   IN  [sliceState |-> c.sliceState,
                        sliceStateWithLeader |-> c.sliceStateWithLeader,
                        leaderState |-> c.leaderState,
                        state |-> c.sliceState * sliceSize,
                        stateWithLeader |-> c.sliceStateWithLeader * sliceSize]]

=============================================================================
