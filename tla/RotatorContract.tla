--------------------------- MODULE RotatorContract ---------------------------
(***************************************************************************)
(* What the certificate rotator promises the cluster, without its caches, *)
(* goroutines and retries: the stored secret changes only when what it    *)
(* holds no longer verifies at lookaheadTime(), and then to a new server  *)
(* certificate signed by the same CA if that CA still verifies, else by a *)
(* new CA (refreshCertIfNeeded / refreshCerts); a webhook's caBundle is    *)
(* only ever set to a CA the secret has held, never older than the one it  *)
(* carries (the Reconcile comment: "makes sure the most recent CA cert is  *)
(* included"); a pod's volume only receives the stored certificate.        *)
(* CertRotator with one replica is checked to implement this contract.    *)
(***************************************************************************)
EXTENDS Integers

CONSTANTS Pods, Webhooks

VARIABLES
  stored,        \* the secret's CA generation and server certificate
  bundle,        \* bundle[w]: webhook w's caBundle, Absent if w does not exist
  volume,        \* volume[p]: the certificate in pod p's volume
  expiredCAs,    \* CAs that no longer verify at lookaheadTime()
  expiredCerts   \* server certificates that no longer verify

avars == <<stored, bundle, volume, expiredCAs, expiredCerts>>

NoCert == [ca |-> 0, n |-> 0]

Absent == -1

CAVerifies == stored.ca # 0 /\ stored.ca \notin expiredCAs

CertVerifies ==
  stored.cert # NoCert /\ stored.cert.ca = stored.ca /\ stored.cert \notin expiredCerts

Init ==
  /\ stored \in {[ca |-> 0, cert |-> NoCert], [ca |-> 1, cert |-> [ca |-> 1, n |-> 1]]}
  /\ expiredCAs \in SUBSET ({stored.ca} \ {0})
  /\ expiredCerts \in SUBSET ({stored.cert} \ {NoCert})
  /\ bundle \in [Webhooks -> {Absent, stored.ca}]
  /\ volume = [p \in Pods |-> stored.cert]

\* a new server certificate, and a new CA when the stored one is due
Rotate ==
  /\ ~(CAVerifies /\ CertVerifies)
  /\ LET ca == IF CAVerifies THEN stored.ca ELSE stored.ca + 1
     IN  stored' = [ca |-> ca, cert |-> [ca |-> ca, n |-> stored.cert.n + 1]]
  /\ UNCHANGED <<bundle, volume, expiredCAs, expiredCerts>>

\* a CA the secret has held, no older than the bundle's
Inject(w) ==
  /\ bundle[w] # Absent
  /\ \E c \in 1..stored.ca :
       /\ c >= bundle[w]
       /\ bundle' = [bundle EXCEPT ![w] = c]
  /\ UNCHANGED <<stored, volume, expiredCAs, expiredCerts>>

Mount(p) ==
  /\ stored.cert # NoCert
  /\ volume' = [volume EXCEPT ![p] = stored.cert]
  /\ UNCHANGED <<stored, bundle, expiredCAs, expiredCerts>>

\* what others do: time passes, a chart creates a webhook configuration,
\* clears its caBundle or deletes it
Expire ==
  /\ \/ stored.ca # 0 /\ expiredCAs' = expiredCAs \cup {stored.ca}
                     /\ UNCHANGED expiredCerts
     \/ stored.cert # NoCert /\ expiredCerts' = expiredCerts \cup {stored.cert}
                             /\ UNCHANGED expiredCAs
  /\ UNCHANGED <<stored, bundle, volume>>

Create(w) ==
  /\ bundle[w] = Absent
  /\ bundle' = [bundle EXCEPT ![w] = 0]
  /\ UNCHANGED <<stored, volume, expiredCAs, expiredCerts>>

Clear(w) ==
  /\ bundle[w] \notin {Absent, 0}
  /\ bundle' = [bundle EXCEPT ![w] = 0]
  /\ UNCHANGED <<stored, volume, expiredCAs, expiredCerts>>

Remove(w) ==
  /\ bundle[w] # Absent
  /\ bundle' = [bundle EXCEPT ![w] = Absent]
  /\ UNCHANGED <<stored, volume, expiredCAs, expiredCerts>>

Next ==
  \/ Rotate \/ Expire
  \/ \E w \in Webhooks : Inject(w) \/ Create(w) \/ Clear(w) \/ Remove(w)
  \/ \E p \in Pods : Mount(p)

Spec == Init /\ [][Next]_avars
=============================================================================
