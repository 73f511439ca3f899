# TLA+ models of the repository's placement engine and certificate rotator

This directory holds TLA+ models of the two parts of the repository that have
behaviour worth model checking, with TLC configurations for each:

* The balanced placement engine of topology-aware scheduling (package
  `scheduler`, `src/pkg/cache/localqueue.go` lines 64-313, described by `spec.md`).
* The webhook certificate rotator (package `rotator`,
  `src/unnamed/part_001` lines 19-935).

`PROJECT.json` lists every component, every run, the mutants that show each
property can fail, the source lines every definition models, the findings and
the hazards.

## 1. Inventory

### 1.1 Balanced placement engine (`localqueue.go`, package scheduler)

**State.** A topology tree of `*domain`. Each domain has five counters:
`sliceState`, `sliceStateWithLeader`, `leaderState`, `state` and
`stateWithLeader`. The engine reads them and overwrites the counters of the
domains it selects. Nothing else persists between calls.

**Operations.**

* `simulateGreedy` (72-105) places leaders on the domains with the most
  slices-with-leader, then slices on the largest remaining domains. It answers
  whether the request fits, how many domains it used, and the last domain of
  each loop.
* `balanceThresholdValue` (110-138) handles an empty request, rejects a
  starting domain that is too small, picks children or grandchildren as
  candidates, runs the greedy on them, and returns
  `sliceCount / count`, clamped by the last domains the greedy used.
* `selectOptimalDomainSetToFit` (140-215) is a dynamic program over
  `(domains used, leaders left, slice units left)`. Its cells are written by
  "first writer wins". It then picks the best non-positive leader key and
  slice key.
* `placeSlicesOnDomainsBalanced` (217-252) sorts the selected domains, gives
  the first ones the leaders, then the extra slices, then the threshold. It
  overwrites each visited domain's counters, and fails if slices or leaders
  are left over.
* `calculateEntropy` and `sortDomainsByCapacityAndEntropy` (254-313) are
  called only when `priorizeByEntropy` is true. Line 218 always passes false.
  The sort writes its result back into the slice it was given (310-312),
  which for candidates taken from the children is the tree's own children
  slice (line 121).

**Interactions.** The engine is one synchronous call (spec section 5). Its
hard parts are arithmetic and ordering, not concurrency:

* signed "left" values in the dynamic program;
* a divide at line 130;
* negative `take` values in the balancer;
* leaders reassigned by sort order rather than by the dynamic program's
  choice;
* counters mutated before an error return;
* int32 products.

**Properties that matter.** These come from spec section 8 and from the code:

* capacity respected;
* conservation of slices and leaders;
* the threshold floor;
* minimality of the greedy count;
* a failure leaves the domains unchanged (spec 4.8);
* the dynamic program is sound and complete over the candidate sets.

### 1.2 Certificate rotator (`part_001`, package rotator)

**State.**

* In the cluster: the Secret (CA, CA key, server certificate, key, and a
  resourceVersion); the webhook configurations, each with a `caBundle`; and
  each pod's mounted copy of the secret.
* In each process: a namespaced informer cache; the channels `certsMounted`,
  `certsNotMounted`, `caNotInjected` and `IsReady`; the atomic
  `wasCAInjected`; and the controller's work queue.

**Actors.** Each pod runs these concurrently:

* `Start`: cache sync, a bootstrap refresh, then a 12-hour ticker loop that
  exits on `certsNotMounted` or `caNotInjected`.
* The `ReconcileWH` worker. It is triggered by secret and webhook events. It
  waits on the readiness channels, reads the secret, calls
  `refreshCertIfNeeded`, and injects the CA into every webhook.
* The `ensureCertsMounted` and `ensureReady` goroutines: bounded exponential
  backoffs.

The refresh (`refreshFn`) decides on the cached secret and writes it back
with `Update`, which the API server refuses when the resourceVersion is
stale. A refresh can `os.Exit(0)` (`RestartOnSecretRefresh`).

**Hard behaviours.**

* The ticker, the bootstrap refresh and the reconciler all refresh the same
  secret.
* Decisions are made on a stale cache.
* Backoffs run out.
* The process exits and restarts while the cluster state persists.
* `ensureCerts` continues past a failed webhook.
* Events must carry a rotation to the reconciler.
* The volume lags the secret.

### 1.3 Other files

These are not modelled:

* the LocalQueue usage map (`localqueue.go` 28-47): one lock held over each
  method body;
* generated CRDs, informers and apply-configurations (`part_000`,
  `part_002`);
* a webhook test (`part_003`);
* a Dockerfile (`part_004`);
* the kueueviz server bootstrap and GVR table (`cmd/kueueviz`);
* the Helm certificate template (`part_001` lines 1-18).

## 2. Modules

| Module | Models |
|---|---|
| `TASDomain` | The tree (CONSTANTS `Root`, `Children`, `NoDomain`), the counters record, the stable sorts `sortedDomains` / `sortedDomainsWithLeader` and `grandchildren()`, `simulateGreedy` as two RECURSIVE loops, and the counters a caller builds for a tree (from the spec, section 3). |
| `BalancedPlacement` | One call of the engine as a state machine. `pc` moves through threshold, select, dp, balance, then done or failed. `dom` holds the counters, and `snap` the counters before the call. The dynamic program is `dp[i]`, a function from `<<leaders left, units left>>` to the list of domains. Each candidate domain is one `DPStep`, and each balancer iteration is one action per case of the `switch`. |
| `MCBalancedPlacement`, `MCBalancedPlacementTree` | Instantiate it on three leaves, and on a two-level tree. |
| `PlacementContract` | What one call promises, without its steps: on success a list of distinct candidates as long as the greedy count, whose counters hold the request exactly in the form the balancer writes, and no other domain touched; on failure, no list and only candidates touched. Safety only. |
| `EntropySelect` | `selectOptimalDomainSetToFit` with `priorizeByEntropy` as an input. `calculateEntropy` of two sizes is kept as the exact ratio `min/total`, compared by cross-multiplying; the sort is the stable insertion sort that Go's pdqsort uses on slices of at most 12 elements (both are `ASSUME`d of the tree). The variable `domains` is the caller's slice, so the in-place write-back is visible. The dynamic program and pick are `BalancedPlacement`'s, through `INSTANCE`. |
| `MCEntropySelect` | A tree r → (a → (a1, a2), b → (b1, b2)) with leaf capacities up to 2 and both flag values. |
| `CertRotator` | One or more pods (`Pods`). Each has the four activities above, the pod's informer cache, and the cluster objects. `pod[p]` holds each activity's program counter and locals. A write succeeds only if the cache's resourceVersion is current (`Conflict`). A process exit is `Reboot`: memory is reset and the volume is kept. A webhook configuration may be created late (`CreateWebhook`) or deleted (`DeleteWebhook`); a deleted one keeps its resourceVersion negated, so that a re-creation gets a fresh one and a cache copy of the old object can never pass the optimistic-concurrency check. Certificates are identities: a CA is a generation number, and a server certificate is `[ca, n]`. Time is `dueCA` / `dueCert`, the certificates now inside the lookahead window. |
| `RotatorContract` | What the rotator promises the cluster, without pods, caches or retries: the secret is rewritten only when its CA or server certificate no longer verifies, keeping a CA that still verifies; a caBundle is only set to a CA the secret has held and never to an older one than it carries; a volume only receives the stored certificate. Safety only. |
| `MCCertRotator` | The webhook lists for the runs, and which webhook configurations are created late (`LateWebhooks`) and which may be deleted (`DeletableWebhooks`). |

How the code maps onto the models:

* Placement engine:
  * An early return of the code is the guard of its own action: for example
    `ThresholdRejects`, `FinishUnplaced` and `FinishPlaced`.
  * The call's trailing sort, the counter writes and the error return are
    inside the actions that model them.
* Certificate rotator:
  * Every `refreshFn` attempt is one atomic step that reads the cache and
    writes the API. Between attempts, the cache can catch up.
  * Each `ensureCerts` webhook update is its own step.

The caller of the engine, the `domain` type and the sort helpers are not
under `src/`. `TASDomain` models them from the spec, and PROJECT.json marks
them `spec_modelled`.

## 3. Runs

### Balanced placement

**Bounds.** `bp_flat` uses three leaves with capacities 0..3, requests of up
to 6 slices and 1 leader, and slice size 1. That is 316k states in about
1 minute. `bp_tree` uses a tree r → (a → (a1, a2), b → (b1)) with capacities
0..2, slice size 2, and both values of `balanceOnChildren`. That is 108k
states in about 40 s.

These bounds reach every action: rejections, empty requests, every balancer
case and both returns. They also reach the dynamic program's pruning,
its first-writer collisions and its negative overshoot. Three domains are
enough for a leader, a second domain, and a domain that is left out.

| Run | Result | What it shows |
|---|---|---|
| `bp_flat` | pass | `ContractSpec`: the call refines `PlacementContract` (see below). `DPCellsSound`: every cell's list is a duplicate-free list of processed candidates whose leftovers equal the cell key for some leader choice. `DPComplete`: after the pass, a set is selected iff a hosting set of the greedy size exists. `ThresholdWithinMean`: the threshold never exceeds the mean over the selected domains. `NoDivisionByZero`: line 130 never divides by zero. That a successful call places exactly the request (spec 8.2) is part of `ContractSpec` (its `Succeed` step fixes the sums), so it is not stated again. |
| `bp_tree` | pass | The same properties, except `NoDivisionByZero`, on inner domains with aggregated counters and slice size 2. |
| `bp_capacity` | violation | `CapacityRespected` (spec 8.1). The re-sort at line 225 hands the leader to the first domain in sort order, not to the DP's leader domain. The default case at 238-240 then gives a domain of capacity 0 the threshold. |
| `bp_failure_mutates` | violation | `FailureLeavesDomains` (spec 4.8). The error at line 249 is returned after 242-245 have written the domains. |
| `bp_monotone` | violation | `MonotoneInfeasibility` (spec 8.5). With a(1,1,1), b(2,0,0), c(0,0,1) (slices, with-leader, leader flag), 2 slices and 1 leader fail: the DP picks b without a leader and c as the leader host, and the balancer hands the leader to b, which cannot host one at all, leaving both short: the leader domain takes a negative extra at line 232 and ends below the threshold. 3 slices and 1 leader succeed on a and b. |
| `es_tiebreak` | pass | `EntropyTieBreakOnly` (spec 8.7): with the flag on, the call finds a set exactly when the unsorted call does, and its winning cell leaves the same leaders and units over. `TypeOK` includes that every entropy lies in [0, 1]. 291k states, about 45 s. |
| `es_greedy_kept` | violation | `GreedyAnswerKept` (spec 4.1, read-only topology). The sort reorders the children slice to [b, a], b being unable to host the leader; simulateGreedy's leader loop stops at b and now rejects a 1-leader request it accepted before. |

**Refinement.** `BalancedPlacement` defines `Contract == INSTANCE
PlacementContract WITH counters <- seenDom, status <- seenStatus, placed <-
seenPlaced`. The mapping shows the pre-call counters until the call returns,
and the real counters once it has; so every internal step is a stuttering
step of the contract, and the return is its `Succeed` or `Fail`.
`ContractSpec` is checked as a PROPERTY in `bp_flat` and `bp_tree`. The
contract has no fairness, because TLC cannot evaluate `ENABLED` through a
mapping of expressions; liveness of the call is `WF_vars(Next)` in the
detailed module.

### Certificate rotator

**Bounds.** All passing runs model one pod; `cr_cabundle_regress` models two. Each backoff gives up after 2 polls or 2
conflicting writes, against 10 in the code. That still reaches both the
retry and the give-up of every loop.

* `MaxExpiries` limits how often time brings the stored CA or certificate
  due.
* `MaxResets` limits how often something else clears a caBundle or deletes
  a webhook configuration; `DeletableWebhooks` names the configurations that
  may be deleted, so that deletion is explored only where the state space
  allows it.
* `MaxTimeouts` limits how often a backoff runs out before its condition
  holds. That stands for the real 17-minute budget being exceeded. Without
  this bound an endless crash loop would be a legal behaviour.

| Run | Bounds | Result | What it shows |
|---|---|---|---|
| `cr_rotation` | 1 webhook, 2 expiries, no resets or timeouts, readiness check on; 256k states, 1 min | pass | `CertsEventuallyConverge`: the secret, every existing caBundle and the volume end on one valid CA and certificate. `RotatorContractSpec`: the pod implements `RotatorContract`, so the CA that Reconcile read before the ticker rotated it never moves a caBundle back, and the secret is rewritten only when the stored one needs it (the contract's `Rotate` guard), although refreshFn decides on a cache that may be stale. |
| `cr_startup` | 2 webhooks, the second created after the pod starts (`LateWebhooks`), no expiry, no deletion (`DeletableWebhooks` empty), 1 reset, 1 timeout; 314k states, 1.5 min | pass | The same properties, plus `EventuallyReady`: every pod ends ready for good, restarting when a readiness goroutine gives up. A webhook configuration the cache has not listed is skipped as NotFound (lines 858-861) with no error, and still gets the CA once its creation event arrives. |
| `cr_restart_on_refresh` | 1 webhook that may be deleted and re-created (`DeletableWebhooks`), 1 expiry, 1 reset or deletion, 1 timeout, `RestartOnSecretRefresh`, no readiness check; 267k states, 1.5 min | pass | `CertsEventuallyConverge`, `EventuallyReady` and `RotatorContractSpec`: the restarted process still converges, becomes ready and implements the contract after every refresh exits. A configuration deleted while the cache still lists it makes the Update at line 885 fail; the request is requeued until the watch delivers the deletion, and a re-created one still gets the CA. |
| `cr_ready_trust` | no environment events | violation | `ReadyServesTrustedCert`. With a CA already due at start, IsReady closes while the pod serves the old certificate, which the injected CA does not sign (`ensureCertsMounted` checks only that the file exists, line 898). |
| `cr_cabundle_regress` | 2 pods (RequireLeaderElection false), 1 webhook, 1 expiry, no readiness check | violation | `CABundleNeverRegresses` (the Reconcile comment, line 775: it "makes sure the most recent CA cert is included"). p1 reads CA 1 and decides no refresh is needed; the CA comes due, p2 rotates to CA 2 and injects it; p1's webhook cache catches up and its Update at line 885 writes CA 1 back. Found in 15 states. |

**Refinement.** `CertRotator` defines `Contract == INSTANCE RotatorContract`
with the stored secret without its resourceVersion, each webhook's caBundle
(-1 while the configuration does not exist or after it is deleted; the contract's `Create`, `Clear` and `Remove` are the chart's steps), the volumes and the lookahead
window; pods, caches, queues and backoffs are hidden. With one replica the
property holds; with the two replicas of `cr_cabundle_regress` TLC finds it
violated too, through the same stale write.

**Fairness.** Every goroutine, the informers and the kubelet get weak
fairness, because each keeps running while it has work. `StartExit` gets
strong fairness: the ticker's select is entered again after every tick, a
closed channel is ready on every pass, and Go picks among ready cases at
random. The environment has no fairness.

The placement call is a single synchronous computation, so the placement
model uses `WF_vars(Next)`.

**Mutants.** Every property of a passing run is shown to fail under a
plausible code bug, listed in PROJECT.json:

* a dropped prune condition;
* a balancer that does not rewrite `sliceStateWithLeader`;
* an entropy without the size > 0 guard (NaN);
* the DP levels iterated upwards;
* a ceiling division;
* an unchecked empty request;
* an Update that ignores resourceVersion;
* a secret watch that does not enqueue;
* an initial list that does not enqueue;
* a ticker loop that ignores `certsNotMounted`;
* an off-by-one backoff;
* a refresh that keeps the CA although it is due (`refreshCerts(false, ...)`).

## 4. Not modelled, and why

* **Minimality of the greedy count (line 81).** `simulateGreedy`'s count
  sizes the DP table but is not always minimal: a(3,1,1), b(1,1,0),
  c(1,0,1) with 3 slices and 1 leader gives 3 domains where {c with the
  leader, a} needs 2. `DPComplete` checks that the DP finds a set of the
  greedy size, not that none smaller exists; a minimality check would be a
  violation run of its own, and the project keeps to twelve runs.
* **The error returns at lines 219-220 and 222-223** are guards of
  `PickStart`, not failure actions. They are unreachable: `DPComplete`
  gives a selected set whenever the greedy fits, and `ThresholdWithinMean`
  (checked in `bp_flat` and `bp_tree`) keeps the product of line 222 within
  `sliceCount`.

* **Int32 overflow of `sliceCount * sliceSize` (line 156).** It needs values
  near 2^31, and TLC's own integers are 32-bit, so it cannot compute the
  wrapped product; whether a request that large reaches the engine is up to
  the caller, which is not under `src/`. The other product, line 222, is
  bounded by `sliceCount` (`ThresholdWithinMean`), so it cannot overflow.
* **Entropy of more than two children.** The exact ratio order holds only
  for two sizes; a float model of `math.Log2` is out of TLC's reach.
* **LocalQueue.** Its locking is trivial: one lock held over each method
  body, with no state shared outside it.
* **x509 encoding and the `inject*` field setters.** They are abstracted to
  certificate identities. Their error paths depend on malformed objects that
  this code never writes.
* **Deletion timestamps, a missing or unreadable secret, and context
  cancellation.** Webhook deletion is modelled, but as an immediate removal:
  the window in which an object carries a deletionTimestamp (the `continue`
  at lines 866-869) leads to the same skip as NotFound. A missing secret
  (Reconcile's `return nil` at lines 800-805) is a state this code never
  creates itself, and context cancellation is the manager stopping, which
  the restart (`Reboot`) already covers.
* **A passing run with two replicas.** At the smallest bounds that still
  reach a rotation, it runs for over 10 minutes; the two-replica run checks
  one property and stops at its counterexample.

## 5. Further work

1. **Spec 8.6 (idempotence).** The call is deterministic, so it holds by
   construction; a useful form would repeat the call on the counters it
   wrote, which needs a caller model.
2. **A caller of the engine** that runs `balanceThresholdValue`, the
   selection and the balancer on a sequence of requests against one tree,
   to check what the in-place sort and the failed-call writes do to later
   calls.
3. **Two replicas** with a narrower environment, to find bounds at which a
   passing run fits the time budget.
