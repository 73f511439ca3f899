CONSTANTS
  Pods = {p1, p2}
  WebhookSeq <- OneWebhook
  EnableReadinessCheck = FALSE
  RestartOnSecretRefresh = FALSE
  RefreshSteps = 2
  PollSteps = 2
  MaxExpiries = 1
  MaxResets = 0
  LateWebhooks <- NoLateWebhooks
  DeletableWebhooks <- NoDeletable
  MaxTimeouts = 0
SPECIFICATION Spec
PROPERTIES
  CABundleNeverRegresses
