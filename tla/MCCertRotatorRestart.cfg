CONSTANTS
  Pods = {p1}
  WebhookSeq <- OneWebhook
  EnableReadinessCheck = FALSE
  RestartOnSecretRefresh = TRUE
  RefreshSteps = 2
  PollSteps = 2
  MaxExpiries = 1
  MaxResets = 1
  LateWebhooks <- NoLateWebhooks
  DeletableWebhooks <- VwhDeletable
  MaxTimeouts = 1
SPECIFICATION Spec
INVARIANTS
  TypeOK
PROPERTIES
  CertsEventuallyConverge
  EventuallyReady
  RotatorContractSpec
