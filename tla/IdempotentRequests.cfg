CONSTANTS
  Thread = {t1, t2}
  Key = {k}
  Hash = {h1, h2}
  Nonce = {n1}
  Second = 2
  Window = 1
  Lead = 1
  None = None
SPECIFICATION LiveSpec
INVARIANTS TypeOK DeliveredOnce HandledByOne AnswersItsPayload
PROPERTIES SuccessIsKept KeyIsFreed
CONSTRAINT SignedOneByOne
CHECK_DEADLOCK FALSE
