SPECIFICATION WebSpec
CONSTANTS
  Wallets <- MCWallets
  Creator <- MCCreator
  Orders = {o1, o2}
  Fresh = {o1}
  MaxWrites = 2
  Texts = {t1, t2}
  Wide = {}
  FormMaxNow = 1
  MaxEdits = 4
  MaxAttempts = 2
  Requests = {q1, q2}
  Ttl = 2
  HttpLife = 2
  MaxDelay = 1
  MaxNow = 4
CONSTRAINT Followed
INVARIANTS
  
  AccountsReadBack
  PlacedRecoverable
  DeliveryRetryable
  CreationAccepted
  ConfirmedAsDescribed
  SourceVerified
  ShownAgrees
  AnswersFresh
CHECK_DEADLOCK FALSE
