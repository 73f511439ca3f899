CONSTANTS
  Pods = {p1}
  WebhookSeq <- TwoWebhooks
  EnableReadinessCheck = TRUE
  RestartOnSecretRefresh = FALSE
  RefreshSteps = 2
  PollSteps = 2
  MaxExpiries = 0
  MaxResets = 1
  LateWebhooks <- LateMwh
  DeletableWebhooks <- NoDeletable
  MaxTimeouts = 1
SPECIFICATION Spec
INVARIANTS
  TypeOK
PROPERTIES
  CertsEventuallyConverge
  EventuallyReady
  RotatorContractSpec
