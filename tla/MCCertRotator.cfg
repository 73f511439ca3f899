CONSTANTS
  Pods = {p1}
  WebhookSeq <- OneWebhook
  EnableReadinessCheck = TRUE
  RestartOnSecretRefresh = FALSE
  RefreshSteps = 2
  PollSteps = 2
  MaxExpiries = 2
  MaxResets = 0
  LateWebhooks <- NoLateWebhooks
  DeletableWebhooks <- NoDeletable
  MaxTimeouts = 0
SPECIFICATION Spec
INVARIANTS
  TypeOK
PROPERTIES
  CertsEventuallyConverge
  RotatorContractSpec
