CONSTANTS
  w1 = w1
  w2 = w2
  t1 = t1
  t2 = t2
  None = None
  Txn = {t1}
  Rfce = {}
  Edit = {1}
  Worker = {w1}
  Serves <- All
  Reader = {g1}
  Poller = FALSE
  SignFailure = {}
  MaxEncf = 2
  LateDelivery = FALSE
  StrayEstado = FALSE
SPECIFICATION Spec
PROPERTY AcceptedIsFinal
CHECK_DEADLOCK FALSE
