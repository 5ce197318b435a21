CONSTANTS
  w1 = w1
  w2 = w2
  t1 = t1
  t2 = t2
  None = None
  Txn = {t1, t2}
  Rfce = {}
  Edit = {1}
  Worker = {w1, w2}
  Serves <- Overlap
  Reader = {}
  Poller = FALSE
  SignFailure = {}
  MaxEncf = 2
  LateDelivery = FALSE
  StrayEstado = FALSE
SPECIFICATION Spec
INVARIANTS EncfBelongsToOneInvoice
CHECK_DEADLOCK FALSE
