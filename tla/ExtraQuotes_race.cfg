SPECIFICATION Spec
CONSTANTS
  q1 = q1
  q2 = q2
  c1 = c1
  c2 = c2
  NoQuote = NoQuote
  Quotes <- TwoQuotes
  Amount <- Amounts
  Calls <- TwoCalls
  OtherStatuses <- Completion
  MaxInFlight = 2
  MaxFailures = 1
SYMMETRY Symmetric
INVARIANTS PaidIsCharged BillsOnlyCollected BillsAllCollected
PROPERTIES ClosedStaysClosed BillingSpec
