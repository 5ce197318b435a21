CONSTANTS
  w1 = w1
  w2 = w2
  t1 = t1
  t2 = t2
  None = None
  Txn = {t1, t2}
  Rfce = {t2}
  Edit = {e1, e2}
  Worker = {w1, w2}
  Serves <- OneEach
  Reader = {g1}
  Poller = TRUE
  SignFailure = {"SigningFailed"}
  MaxEncf = 2
  LateDelivery = FALSE
  StrayEstado = FALSE
SYMMETRY Contents
SPECIFICATION Spec
CONSTRAINT OneAtATime
INVARIANTS PromiseInv TransmittedIsOnRecord AcceptedRowIsAtDgii OneValidEncfPerInvoice
PROPERTIES NeverSentTwice AcceptedIsFinal KeepsFiscalPromise
CHECK_DEADLOCK FALSE
