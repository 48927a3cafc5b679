SPECIFICATION FairSpec
CONSTANTS
  None = None
  Payers = {c1}
  Readers = {r1}
  Invoices = {i1}
  Offers = {o1}
  PageSizes = {0, 1}
  Orders = {"desc"}
  MaxAttempts = 2
  MaxPayments = 3
  MaxNow = 1
INVARIANTS
  TypeOK
  AnswersHold
  ListingComplete
PROPERTY
  PayReturns
