---------------------------- MODULE CertRotator ----------------------------
(***************************************************************************)
(* The webhook certificate rotator of src/unnamed/part_001 (package        *)
(* rotator).  Every pod runs four activities that share the pod's         *)
(* informer cache:                                                         *)
(*   - Start: waits for the cache, refreshes the certificates once, then   *)
(*     refreshes them on every tick and exits the process when a readiness *)
(*     goroutine gives up;                                                 *)
(*   - the ReconcileWH worker: on every secret or webhook event it         *)
(*     refreshes the certificates and injects the secret's CA into every   *)
(*     webhook configuration;                                              *)
(*   - ensureCertsMounted and ensureReady: poll for the mounted certificate*)
(*     file and for the CA injection, with a bounded backoff.              *)
(* The cluster holds the secret and the webhook configurations; writes use *)
(* optimistic concurrency on resourceVersion; the kubelet copies the       *)
(* secret's certificate into the pod's volume some time after it changes. *)
(* Certificates are identities: a CA is a generation number, a server      *)
(* certificate the pair of its signing CA and a serial.  Time is the set   *)
(* of certificates that have come within the lookahead window.             *)
(***************************************************************************)
EXTENDS Integers, Sequences, FiniteSets, Functions

CONSTANTS
  Pods,                    \* the replicas that run the rotator
  WebhookSeq,              \* cr.Webhooks, in order
  EnableReadinessCheck,    \* cr.EnableReadinessCheck
  RestartOnSecretRefresh,  \* cr.RestartOnSecretRefresh
  RefreshSteps,            \* Steps of the backoff in refreshCertIfNeeded (10)
  PollSteps,               \* Steps of the backoffs in ensureCertsMounted/ensureReady (10)
  MaxExpiries,             \* how often a certificate may come due
  MaxResets,               \* how often someone else may clear a caBundle
  MaxTimeouts,             \* how often a backoff may run out before its condition holds
  LateWebhooks,            \* webhooks whose configuration is created after the pods start
  DeletableWebhooks        \* webhooks whose configuration someone else may delete

Webhooks == Range(WebhookSeq)

NoCert == [ca |-> 0, n |-> 0]
\* a secret in the cluster, or the cache's copy; rv 0 = not listed yet
NoSecret == [rv |-> 0, ca |-> 0, cert |-> NoCert]
\* a webhook configuration that does not exist, or that a cache has not listed;
\* a deleted one keeps its last resourceVersion, negated, so that a later
\* creation gets a fresh one
NoWebhook == [rv |-> 0, ca |-> 0]

Exists(c) == c.rv > 0

VARIABLES
  secret,       \* the Secret in the API server
  wh,           \* wh[w]: the webhook configuration's resourceVersion and caBundle
  dueCA,        \* CAs that no longer verify at lookaheadTime()
  dueCert,      \* server certificates that no longer verify at lookaheadTime()
  caGen,        \* CAs generated and stored so far
  certGen,      \* server certificates generated and stored so far
  mounted,      \* mounted[p]: the certificate file in pod p's volume
  pod,          \* pod[p]: the in-memory state of pod p's rotator
  cacheSecret,  \* cacheSecret[p]: pod p's informer copy of the secret
  cacheWh,      \* cacheWh[p][w]: pod p's informer copy of webhook w
  synced,       \* synced[p]: pod p's informers have listed
  expiries, resets, timeouts

clusterVars == <<secret, wh, dueCA, dueCert, caGen, certGen, mounted>>
cacheVars == <<cacheSecret, cacheWh, synced>>
envVars == <<expiries, resets, timeouts>>
vars == <<clusterVars, pod, cacheVars, envVars>>

(***************************************************************************)
(* The state a pod starts in (AddRotator, lines 130-209): the channels are *)
(* open and wasCAInjected is false.  start: where Start is; rec: where the *)
(* reconcile worker is; mount/ready: the two goroutines of Start.          *)
(***************************************************************************)
Boot == [start |-> "sync", startTries |-> 0,
         queued |-> FALSE, rec |-> "idle", snapCA |-> 0, recTries |-> 0,
         i |-> 1, err |-> FALSE,
         mount |-> "off", mountTries |-> 0,
         ready |-> "off", readyTries |-> 0,
         injected |-> FALSE]

\* validCACert / validServerCert (ValidCert, lines 649-710) at lookaheadTime().
ValidCA(s) == s.ca # 0 /\ s.ca \notin dueCA

ValidServer(s) == s.cert # NoCert /\ s.cert.ca = s.ca /\ s.cert \notin dueCert

NeedsRefresh(s) == ~ValidCA(s) \/ ~ValidServer(s)

(***************************************************************************)
(* refreshCerts (lines 392-419) with populateSecret (519-527): a new CA    *)
(* when the CA is invalid, else the secret's CA (buildArtifactsFromSecret),*)
(* and a new server certificate signed by it; the four keys are written    *)
(* together.                                                               *)
(***************************************************************************)
\* variant passing refreshCA = false on both branches of refreshFn
RefreshedSecretKeepCA(s) ==
  LET ca == IF s.ca # 0 THEN s.ca ELSE caGen + 1
  IN  [rv |-> secret.rv + 1, ca |-> ca, cert |-> [ca |-> ca, n |-> certGen + 1]]

RefreshedSecret(s) ==
  LET ca == IF ValidCA(s) THEN s.ca ELSE caGen + 1
  IN  [rv |-> secret.rv + 1, ca |-> ca, cert |-> [ca |-> ca, n |-> certGen + 1]]

ConflictIgnored(p) == FALSE

\* writeSecret (lines 506-509): Update of the object read from the cache,
\* refused by the API server when its resourceVersion is stale.
Conflict(p) == cacheSecret[p].rv # secret.rv

\* One refreshFn attempt (lines 345-379) that writes the secret.
RefreshWrite(p) ==
  LET c == cacheSecret[p] IN
  /\ NeedsRefresh(c)
  /\ ~Conflict(p)
  /\ secret' = RefreshedSecret(c)
  /\ caGen' = IF ValidCA(c) THEN caGen ELSE caGen + 1
  /\ certGen' = certGen + 1

\* A pod process exits and the kubelet restarts its container: everything
\* in memory is lost, the volume (mounted) stays.
Reboot(p) ==
  /\ pod' = [pod EXCEPT ![p] = Boot]
  /\ cacheSecret' = [cacheSecret EXCEPT ![p] = NoSecret]
  /\ cacheWh' = [cacheWh EXCEPT ![p] = [w \in Webhooks |-> NoWebhook]]
  /\ synced' = [synced EXCEPT ![p] = FALSE]

Init ==
  /\ \E s \in {NoSecret, [rv |-> 0, ca |-> 1, cert |-> [ca |-> 1, n |-> 1]]} :
       /\ secret = [s EXCEPT !.rv = 1]
       /\ dueCA \in SUBSET ({s.ca} \ {0})
       /\ dueCert \in SUBSET ({s.cert} \ {NoCert})
       /\ caGen = s.ca
       /\ certGen = s.cert.n
       /\ wh = [w \in Webhooks |-> IF w \in LateWebhooks THEN NoWebhook
                                  ELSE [rv |-> 1, ca |-> s.ca]]
       /\ mounted = [p \in Pods |-> s.cert]
  /\ pod = [p \in Pods |-> Boot]
  /\ cacheSecret = [p \in Pods |-> NoSecret]
  /\ cacheWh = [p \in Pods |-> [w \in Webhooks |-> NoWebhook]]
  /\ synced = [p \in Pods |-> FALSE]
  /\ expiries = 0 /\ resets = 0 /\ timeouts = 0
-----------------------------------------------------------------------------
(***************************************************************************)
(* Start (lines 297-339).  start is "sync" until WaitForCacheSync returns, *)
(* "init" during the bootstrap refresh, "loop" in the ticker loop, "tick"  *)
(* during a refresh the ticker started.  A refresh is refreshCertIfNeeded  *)
(* (lines 342-390): refreshFn re-reads the cache on every attempt; an      *)
(* attempt whose write conflicts is retried until the backoff's Steps run  *)
(* out.                                                                    *)
(***************************************************************************)
StartSync(p) ==
  /\ pod[p].start = "sync"
  /\ synced[p]
  /\ pod' = [pod EXCEPT ![p].start = "init"]
  /\ UNCHANGED <<clusterVars, cacheVars, envVars>>

\* After a refresh: the bootstrap one starts the two goroutines (315-316).
AfterStartRefresh(p) ==
  pod' = [pod EXCEPT ![p].start = "loop", ![p].startTries = 0,
                     ![p].mount = IF pod[p].start = "init" THEN "poll" ELSE @,
                     ![p].ready = IF pod[p].start = "init" THEN "wait" ELSE @]

StartRefreshNoop(p) ==
  /\ pod[p].start \in {"init", "tick"}
  /\ ~NeedsRefresh(cacheSecret[p])
  /\ AfterStartRefresh(p)
  /\ UNCHANGED <<clusterVars, cacheVars, envVars>>

StartRefreshWrite(p) ==
  /\ pod[p].start \in {"init", "tick"}
  /\ ~RestartOnSecretRefresh
  /\ RefreshWrite(p)
  /\ AfterStartRefresh(p)
  /\ UNCHANGED <<wh, dueCA, dueCert, mounted, cacheVars, envVars>>

StartRefreshConflict(p) ==
  /\ pod[p].start \in {"init", "tick"}
  /\ NeedsRefresh(cacheSecret[p]) /\ Conflict(p)
  /\ pod[p].startTries + 1 < RefreshSteps
  /\ pod' = [pod EXCEPT ![p].startTries = @ + 1]
  /\ UNCHANGED <<clusterVars, cacheVars, envVars>>

\* The backoff runs out: the bootstrap refresh makes Start return its error
\* and the manager exits (line 311); a ticker refresh only logs it (323).
StartRefreshTimeout(p) ==
  /\ pod[p].start \in {"init", "tick"}
  /\ NeedsRefresh(cacheSecret[p]) /\ Conflict(p)
  /\ pod[p].startTries + 1 = RefreshSteps
  /\ timeouts < MaxTimeouts
  /\ timeouts' = timeouts + 1
  /\ IF pod[p].start = "init"
     THEN Reboot(p)
     ELSE /\ pod' = [pod EXCEPT ![p].start = "loop", ![p].startTries = 0]
          /\ UNCHANGED cacheVars
  /\ UNCHANGED <<clusterVars, expiries, resets>>

Tick(p) ==
  /\ pod[p].start = "loop"
  /\ pod' = [pod EXCEPT ![p].start = "tick"]
  /\ UNCHANGED <<clusterVars, cacheVars, envVars>>

StartExitOnInjectOnly(p) == pod[p].ready = "notInjected"

\* The select of the ticker loop returns an error when either goroutine
\* gave up (lines 327-330): the manager stops and the process exits.
StartGivesUp(p) == pod[p].mount = "notMounted" \/ pod[p].ready = "notInjected"

StartExit(p) ==
  /\ pod[p].start = "loop"
  /\ StartGivesUp(p)
  /\ Reboot(p)
  /\ UNCHANGED <<clusterVars, envVars>>

\* os.Exit(0) after a successful write when RestartOnSecretRefresh is set
\* (lines 358-361, 372-375), from either caller of refreshCertIfNeeded.
RefreshExit(p) ==
  /\ pod[p].start \in {"init", "tick"} \/ pod[p].rec = "refresh"
  /\ RestartOnSecretRefresh
  /\ RefreshWrite(p)
  /\ Reboot(p)
  /\ UNCHANGED <<wh, dueCA, dueCert, mounted, envVars>>
-----------------------------------------------------------------------------
(***************************************************************************)
(* ReconcileWH.Reconcile (lines 777-850), one request at a time per pod.   *)
(* rec is "idle", "mount" (waiting on the readiness channels), "get",     *)
(* "refresh" (in refreshCertIfNeededDelegate) or "inject" (in ensureCerts, *)
(* lines 852-892, at webhook i).  A returned error requeues the request.   *)
(***************************************************************************)
RecDequeue(p) ==
  /\ pod[p].rec = "idle" /\ pod[p].queued
  /\ pod' = [pod EXCEPT ![p].queued = FALSE,
                        ![p].rec = IF EnableReadinessCheck THEN "mount" ELSE "get"]
  /\ UNCHANGED <<clusterVars, cacheVars, envVars>>

\* certsMounted is closed: the select returns and the secret is read from
\* the cache (WaitForCacheSync has long returned: the request came from it).
RecMounted(p) ==
  /\ pod[p].rec = "mount" /\ pod[p].mount = "mounted"
  /\ pod' = [pod EXCEPT ![p].rec = "refresh", ![p].snapCA = cacheSecret[p].ca]
  /\ UNCHANGED <<clusterVars, cacheVars, envVars>>

RecNotMounted(p) ==
  /\ pod[p].rec = "mount" /\ pod[p].mount = "notMounted"
  /\ pod' = [pod EXCEPT ![p].rec = "idle", ![p].queued = TRUE]
  /\ UNCHANGED <<clusterVars, cacheVars, envVars>>

\* The secret as the cache has it; the request never finds it missing.  Of
\* the secret only its CA is used later (buildArtifactsFromSecret).
RecGet(p) ==
  /\ pod[p].rec = "get" /\ synced[p]
  /\ pod' = [pod EXCEPT ![p].rec = "refresh", ![p].snapCA = cacheSecret[p].ca]
  /\ UNCHANGED <<clusterVars, cacheVars, envVars>>

\* After refreshCertIfNeededDelegate returned no error: stop if the CA was
\* rotated (line 822); stop if the secret read before the refresh has no CA
\* (buildArtifactsFromSecret fails, line 826); else inject the CA read
\* before the refresh.
AfterRecRefresh(p, rotatedCA) ==
  pod' = [pod EXCEPT ![p].rec = IF rotatedCA \/ pod[p].snapCA = 0
                                THEN "idle" ELSE "inject",
                     ![p].recTries = 0]

RecRefreshNoop(p) ==
  /\ pod[p].rec = "refresh"
  /\ ~NeedsRefresh(cacheSecret[p])
  /\ AfterRecRefresh(p, FALSE)
  /\ UNCHANGED <<clusterVars, cacheVars, envVars>>

RecRefreshWrite(p) ==
  /\ pod[p].rec = "refresh"
  /\ ~RestartOnSecretRefresh
  /\ RefreshWrite(p)
  /\ AfterRecRefresh(p, ~ValidCA(cacheSecret[p]))
  /\ UNCHANGED <<wh, dueCA, dueCert, mounted, cacheVars, envVars>>

RecRefreshConflict(p) ==
  /\ pod[p].rec = "refresh"
  /\ NeedsRefresh(cacheSecret[p]) /\ Conflict(p)
  /\ pod[p].recTries + 1 < RefreshSteps
  /\ pod' = [pod EXCEPT ![p].recTries = @ + 1]
  /\ UNCHANGED <<clusterVars, cacheVars, envVars>>

RecRefreshTimeout(p) ==
  /\ pod[p].rec = "refresh"
  /\ NeedsRefresh(cacheSecret[p]) /\ Conflict(p)
  /\ pod[p].recTries + 1 = RefreshSteps
  /\ timeouts < MaxTimeouts
  /\ timeouts' = timeouts + 1
  /\ pod' = [pod EXCEPT ![p].rec = "idle", ![p].queued = TRUE, ![p].recTries = 0]
  /\ UNCHANGED <<clusterVars, cacheVars, expiries, resets>>

\* ensureCerts, webhook i: the cache has no such webhook (NotFound, lines
\* 858-861): logged, and the loop goes on without an error.
RecInjectNotFound(p) ==
  LET w == WebhookSeq[pod[p].i] IN
  /\ pod[p].rec = "inject" /\ pod[p].i <= Len(WebhookSeq)
  /\ ~Exists(cacheWh[p][w])
  /\ pod' = [pod EXCEPT ![p].i = @ + 1]
  /\ UNCHANGED <<clusterVars, cacheVars, envVars>>

\* ensureCerts, webhook i: the cached object with its caBundle replaced is
\* written back; an unchanged object is a no-op for the API server.
RecInjectWrite(p) ==
  LET w == WebhookSeq[pod[p].i] IN
  /\ pod[p].rec = "inject" /\ pod[p].i <= Len(WebhookSeq)
  /\ Exists(cacheWh[p][w]) /\ cacheWh[p][w].rv = wh[w].rv
  /\ wh' = IF wh[w].ca = pod[p].snapCA THEN wh
           ELSE [wh EXCEPT ![w] = [rv |-> @.rv + 1, ca |-> pod[p].snapCA]]
  /\ pod' = [pod EXCEPT ![p].i = @ + 1]
  /\ UNCHANGED <<secret, dueCA, dueCert, caGen, certGen, mounted, cacheVars, envVars>>

\* The Update conflicts, or finds the configuration deleted since the cache
\* listed it: the error is kept and the loop goes on.
RecInjectConflict(p) ==
  LET w == WebhookSeq[pod[p].i] IN
  /\ pod[p].rec = "inject" /\ pod[p].i <= Len(WebhookSeq)
  /\ Exists(cacheWh[p][w]) /\ cacheWh[p][w].rv # wh[w].rv
  /\ pod' = [pod EXCEPT ![p].i = @ + 1, ![p].err = TRUE]
  /\ UNCHANGED <<clusterVars, cacheVars, envVars>>

\* ensureCerts returns: an error requeues, success sets wasCAInjected (845).
RecInjectDone(p) ==
  /\ pod[p].rec = "inject" /\ pod[p].i > Len(WebhookSeq)
  /\ pod' = [pod EXCEPT ![p].rec = "idle",
                        ![p].queued = @ \/ pod[p].err,
                        ![p].injected = @ \/ ~pod[p].err,
                        ![p].snapCA = 0, ![p].i = 1, ![p].err = FALSE]
  /\ UNCHANGED <<clusterVars, cacheVars, envVars>>

-----------------------------------------------------------------------------
(***************************************************************************)
(* The informers of the namespaced cache and the controller's watches      *)
(* (addController, lines 726-756): every change of the secret, and every   *)
(* change of a watched webhook (reconcileSecretAndWebhookMapFunc, lines    *)
(* 712-724), enqueues the secret's key; the initial list enqueues it too.  *)
(***************************************************************************)
InitialSyncNoEnqueue(p) ==
  /\ ~synced[p]
  /\ cacheSecret' = [cacheSecret EXCEPT ![p] = secret]
  /\ cacheWh' = [cacheWh EXCEPT ![p] = wh]
  /\ synced' = [synced EXCEPT ![p] = TRUE]
  /\ UNCHANGED <<pod, clusterVars, envVars>>

InitialSync(p) ==
  /\ ~synced[p]
  /\ cacheSecret' = [cacheSecret EXCEPT ![p] = secret]
  /\ cacheWh' = [cacheWh EXCEPT ![p] = wh]
  /\ synced' = [synced EXCEPT ![p] = TRUE]
  /\ pod' = [pod EXCEPT ![p].queued = TRUE]
  /\ UNCHANGED <<clusterVars, envVars>>

SyncSecretNoEnqueue(p) ==
  /\ synced[p] /\ cacheSecret[p] # secret
  /\ cacheSecret' = [cacheSecret EXCEPT ![p] = secret]
  /\ UNCHANGED <<pod, clusterVars, cacheWh, synced, envVars>>

SyncSecret(p) ==
  /\ synced[p] /\ cacheSecret[p] # secret
  /\ cacheSecret' = [cacheSecret EXCEPT ![p] = secret]
  /\ pod' = [pod EXCEPT ![p].queued = TRUE]
  /\ UNCHANGED <<clusterVars, cacheWh, synced, envVars>>

SyncWebhook(p, w) ==
  /\ synced[p] /\ cacheWh[p][w] # wh[w]
  /\ cacheWh' = [cacheWh EXCEPT ![p][w] = wh[w]]
  /\ pod' = [pod EXCEPT ![p].queued = TRUE]
  /\ UNCHANGED <<clusterVars, cacheSecret, synced, envVars>>
-----------------------------------------------------------------------------
(***************************************************************************)
(* ensureCertsMounted (lines 894-916) polls for the certificate file and   *)
(* closes certsMounted or, when the backoff runs out, certsNotMounted.     *)
(* ensureReady (918-935) waits for certsMounted, then polls wasCAInjected  *)
(* and closes IsReady or caNotInjected.  A poll fails only while its       *)
(* condition is false; the last one gives up.                              *)
(***************************************************************************)
MountFound(p) ==
  /\ pod[p].mount = "poll" /\ mounted[p] # NoCert
  /\ pod' = [pod EXCEPT ![p].mount = "mounted", ![p].mountTries = 0]
  /\ UNCHANGED <<clusterVars, cacheVars, envVars>>

MountMissingOffByOne(p) ==
  /\ pod[p].mount = "poll" /\ mounted[p] = NoCert
  /\ pod[p].mountTries + 1 <= PollSteps
  /\ pod' = [pod EXCEPT ![p].mountTries = @ + 1]
  /\ UNCHANGED <<clusterVars, cacheVars, envVars>>

MountMissing(p) ==
  /\ pod[p].mount = "poll" /\ mounted[p] = NoCert
  /\ pod[p].mountTries + 1 < PollSteps
  /\ pod' = [pod EXCEPT ![p].mountTries = @ + 1]
  /\ UNCHANGED <<clusterVars, cacheVars, envVars>>

MountGiveUp(p) ==
  /\ pod[p].mount = "poll" /\ mounted[p] = NoCert
  /\ pod[p].mountTries + 1 = PollSteps
  /\ timeouts < MaxTimeouts
  /\ timeouts' = timeouts + 1
  /\ pod' = [pod EXCEPT ![p].mount = "notMounted", ![p].mountTries = 0]
  /\ UNCHANGED <<clusterVars, cacheVars, expiries, resets>>

ReadyWait(p) ==
  /\ pod[p].ready = "wait" /\ pod[p].mount = "mounted"
  /\ pod' = [pod EXCEPT ![p].ready = "poll"]
  /\ UNCHANGED <<clusterVars, cacheVars, envVars>>

ReadyFound(p) ==
  /\ pod[p].ready = "poll" /\ pod[p].injected
  /\ pod' = [pod EXCEPT ![p].ready = "ready", ![p].readyTries = 0]
  /\ UNCHANGED <<clusterVars, cacheVars, envVars>>

ReadyMissing(p) ==
  /\ pod[p].ready = "poll" /\ ~pod[p].injected
  /\ pod[p].readyTries + 1 < PollSteps
  /\ pod' = [pod EXCEPT ![p].readyTries = @ + 1]
  /\ UNCHANGED <<clusterVars, cacheVars, envVars>>

ReadyGiveUp(p) ==
  /\ pod[p].ready = "poll" /\ ~pod[p].injected
  /\ pod[p].readyTries + 1 = PollSteps
  /\ timeouts < MaxTimeouts
  /\ timeouts' = timeouts + 1
  /\ pod' = [pod EXCEPT ![p].ready = "notInjected", ![p].readyTries = 0]
  /\ UNCHANGED <<clusterVars, cacheVars, expiries, resets>>

-----------------------------------------------------------------------------
(***************************************************************************)
(* The environment: the kubelet projects the secret into the volume; time *)
(* brings the stored CA or server certificate within the lookahead window; *)
(* someone else (a chart upgrade) clears a webhook's caBundle.             *)
(***************************************************************************)
Kubelet(p) ==
  /\ secret.cert # NoCert /\ mounted[p] # secret.cert
  /\ mounted' = [mounted EXCEPT ![p] = secret.cert]
  /\ UNCHANGED <<secret, wh, dueCA, dueCert, caGen, certGen, pod, cacheVars, envVars>>

ExpireCA ==
  /\ expiries < MaxExpiries /\ secret.ca # 0 /\ secret.ca \notin dueCA
  /\ dueCA' = dueCA \cup {secret.ca}
  /\ expiries' = expiries + 1
  /\ UNCHANGED <<secret, wh, dueCert, caGen, certGen, mounted, pod, cacheVars, resets, timeouts>>

ExpireCert ==
  /\ expiries < MaxExpiries /\ secret.cert # NoCert /\ secret.cert \notin dueCert
  /\ dueCert' = dueCert \cup {secret.cert}
  /\ expiries' = expiries + 1
  /\ UNCHANGED <<secret, wh, dueCA, caGen, certGen, mounted, pod, cacheVars, resets, timeouts>>

\* a webhook configuration is created, with an empty caBundle (a chart that
\* applies it after the rotator's Deployment)
CreateWebhook(w) ==
  /\ ~Exists(wh[w])
  /\ wh' = [wh EXCEPT ![w] = [rv |-> 1 - @.rv, ca |-> 0]]
  /\ UNCHANGED <<secret, dueCA, dueCert, caGen, certGen, mounted, pod, cacheVars, envVars>>

\* a webhook configuration is deleted (a chart uninstalled or upgraded);
\* an informer copy still lists it until its watch delivers the deletion
DeleteWebhook(w) ==
  /\ resets < MaxResets /\ w \in DeletableWebhooks /\ Exists(wh[w])
  /\ wh' = [wh EXCEPT ![w] = [rv |-> -@.rv, ca |-> 0]]
  /\ resets' = resets + 1
  /\ UNCHANGED <<secret, dueCA, dueCert, caGen, certGen, mounted, pod, cacheVars, expiries, timeouts>>

ExternalReset(w) ==
  /\ resets < MaxResets /\ wh[w].ca # 0
  /\ wh' = [wh EXCEPT ![w] = [rv |-> @.rv + 1, ca |-> 0]]
  /\ resets' = resets + 1
  /\ UNCHANGED <<secret, dueCA, dueCert, caGen, certGen, mounted, pod, cacheVars, expiries, timeouts>>

-----------------------------------------------------------------------------
StartStep(p) ==
  \/ StartSync(p) \/ StartRefreshNoop(p) \/ StartRefreshWrite(p)
  \/ StartRefreshConflict(p) \/ StartRefreshTimeout(p) \/ Tick(p)
  \/ StartExit(p) \/ RefreshExit(p)

RecStep(p) ==
  \/ RecDequeue(p) \/ RecMounted(p) \/ RecNotMounted(p) \/ RecGet(p)
  \/ RecRefreshNoop(p) \/ RecRefreshWrite(p) \/ RecRefreshConflict(p)
  \/ RecRefreshTimeout(p) \/ RecInjectNotFound(p) \/ RecInjectWrite(p) \/ RecInjectConflict(p)
  \/ RecInjectDone(p) \/ RefreshExit(p)

MountStep(p) == MountFound(p) \/ MountMissing(p) \/ MountGiveUp(p)

ReadyStep(p) == ReadyWait(p) \/ ReadyFound(p) \/ ReadyMissing(p) \/ ReadyGiveUp(p)

Informer(p) == InitialSync(p) \/ SyncSecret(p) \/ \E w \in Webhooks : SyncWebhook(p, w)

Environment ==
  ExpireCA \/ ExpireCert \/ \E w \in Webhooks : ExternalReset(w) \/ CreateWebhook(w) \/ DeleteWebhook(w)

Next ==
  \/ \E p \in Pods : StartStep(p) \/ RecStep(p) \/ MountStep(p) \/ ReadyStep(p)
                     \/ Informer(p) \/ Kubelet(p)
  \/ Environment

(***************************************************************************)
(* Every goroutine, the informers and the kubelet keep running: weak       *)
(* fairness for each.  The ticker loop's select picks among ready cases at *)
(* random and a closed channel is ready at every pass, so an exit case     *)
(* enabled at every return to the loop is eventually taken: strong        *)
(* fairness.  Nothing forces the environment to act.                       *)
(***************************************************************************)
Fairness ==
  \A p \in Pods :
    /\ WF_vars(StartStep(p)) /\ SF_vars(StartExit(p))
    /\ WF_vars(RecStep(p)) /\ WF_vars(MountStep(p)) /\ WF_vars(ReadyStep(p))
    /\ WF_vars(InitialSync(p)) /\ WF_vars(SyncSecret(p))
    /\ \A w \in Webhooks : WF_vars(SyncWebhook(p, w))
    /\ WF_vars(Kubelet(p))

Spec == Init /\ [][Next]_vars /\ Fairness
-----------------------------------------------------------------------------
CAs == 0..MaxExpiries + 2
Certs == [ca : CAs, n : 0..2 * MaxExpiries + 3]
Secrets == [rv : Nat, ca : CAs, cert : Certs]

TypeOK ==
  /\ secret \in Secrets /\ secret.rv > 0
  /\ wh \in [Webhooks -> [rv : Int, ca : CAs]]
  /\ dueCA \subseteq CAs /\ dueCert \subseteq Certs
  /\ mounted \in [Pods -> Certs]
  /\ cacheSecret \in [Pods -> Secrets]
  /\ cacheWh \in [Pods -> [Webhooks -> [rv : Int, ca : CAs]]]
  /\ synced \in [Pods -> BOOLEAN]
  /\ pod \in [Pods -> [start : {"sync", "init", "loop", "tick"},
                       startTries : 0..RefreshSteps - 1,
                       queued : BOOLEAN,
                       rec : {"idle", "mount", "get", "refresh", "inject"},
                       snapCA : CAs, recTries : 0..RefreshSteps - 1,
                       i : 1..Len(WebhookSeq) + 1, err : BOOLEAN,
                       mount : {"off", "poll", "mounted", "notMounted"},
                       mountTries : 0..PollSteps - 1,
                       ready : {"off", "wait", "poll", "ready", "notInjected"},
                       readyTries : 0..PollSteps - 1,
                       injected : BOOLEAN]]

(***************************************************************************)
(* Once time stops moving the certificates and nobody clears a caBundle,   *)
(* the system settles: the secret holds a valid CA and server certificate, *)
(* every existing webhook carries that CA and every pod's volume holds     *)
(* that certificate.  It needs every secret change to reach the reconciler *)
(* as an event, the reconciler to retry what failed, and a webhook         *)
(* configuration that ensureCerts skipped as not found (lines 858-861) to  *)
(* be injected once its creation reaches the cache.                        *)
(***************************************************************************)
Converged ==
  /\ ValidCA(secret) /\ ValidServer(secret)
  /\ \A w \in Webhooks : Exists(wh[w]) => wh[w].ca = secret.ca
  /\ \A p \in Pods : mounted[p] = secret.cert

CertsEventuallyConverge == <>[]Converged

(***************************************************************************)
(* Every pod eventually closes IsReady for good: a pod whose goroutines    *)
(* gave up exits from Start's select and starts again, and after a restart *)
(* the certificate is mounted and the CA gets injected.                    *)
(***************************************************************************)
EventuallyReady == <>[](\A p \in Pods : pod[p].ready = "ready")

(***************************************************************************)
(* When ensureReady closes IsReady, the certificate the pod serves from its*)
(* volume is signed by the CA every webhook trusts.                        *)
(***************************************************************************)
ReadyServesTrustedCert ==
  [][\A p \in Pods :
       pod[p].ready # "ready" /\ pod'[p].ready = "ready"
         => \A w \in Webhooks : Exists(wh[w]) => wh[w].ca = mounted[p].ca]_vars

(***************************************************************************)
(* A webhook's caBundle never goes back to an older CA: Reconcile "makes   *)
(* sure the most recent CA cert is included" (comment, line 775).  CA      *)
(* generations only grow, so an older CA is a smaller one; a caBundle      *)
(* cleared by someone else (0) is not the rotator's doing.                  *)
(***************************************************************************)
CABundleNeverRegresses ==
  [][\A w \in Webhooks : wh'[w].ca # 0 => wh'[w].ca >= wh[w].ca]_wh

-----------------------------------------------------------------------------
(***************************************************************************)
(* The refinement mapping: the contract sees the stored secret without its *)
(* resourceVersion, each webhook's caBundle (Absent while the webhook      *)
(* configuration does not exist), the volumes and the lookahead window;   *)
(* pods, caches, queues and backoffs are hidden.                           *)
(***************************************************************************)
seenStored == [ca |-> secret.ca, cert |-> secret.cert]

seenBundle == [w \in Webhooks |-> IF Exists(wh[w]) THEN wh[w].ca ELSE -1]

Contract == INSTANCE RotatorContract
              WITH stored <- seenStored, bundle <- seenBundle, volume <- mounted,
                   expiredCAs <- dueCA, expiredCerts <- dueCert

(***************************************************************************)
(* One replica implements the contract: refreshFn rewrites the secret only *)
(* when the stored one needs it and keeps a CA that still verifies, and    *)
(* ensureCerts never writes a CA older than the bundle's, although it     *)
(* writes the CA read before the refresh (line 799) and the ticker may    *)
(* rotate the CA in between.                                               *)
(***************************************************************************)
RotatorContractSpec == Contract!Spec
====
