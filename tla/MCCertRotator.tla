--------------------------- MODULE MCCertRotator ---------------------------
(* Webhook lists for the rotator's model runs: one webhook, or two so that  *)
(* ensureCerts goes on past a webhook whose update failed.                  *)
EXTENDS CertRotator

OneWebhook == <<"vwh">>

TwoWebhooks == <<"vwh", "mwh">>

\* every configuration exists from the start
NoLateWebhooks == {}

\* the second configuration is created after the pods start
LateMwh == {"mwh"}

\* no configuration is deleted
NoDeletable == {}

\* the chart may delete the validating configuration
VwhDeletable == {"vwh"}
====
