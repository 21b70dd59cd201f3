SPECIFICATION ServerSpec
CHECK_DEADLOCK FALSE
CONSTANTS
  transfer = transfer
  installment = installment
  Jobs = {transfer, installment}
  Requests = {transfer}
  Payments = {installment}
  Recipients <- MCRecipients
INVARIANTS
  SentMeansDelivered
PROPERTIES
  ExitsAfterSignal
  JobsEndWithProcess
  SendersEndWithProcess
