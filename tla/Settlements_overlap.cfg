SPECIFICATION Spec
CONSTANTS
  s1 = s1
  k1 = k1
  c1 = c1
  c2 = c2
  NoSettlement = NoSettlement
  NoKey = NoKey
  Settlements <- OneSettlement
  Keys <- OneKey
  Calls <- TwoCalls
  GrossAmounts <- Total
  FeeRates <- UsualRate
  Adjustments <- BonusOrDeduction
  MaxConfirmations = 2
  MaxInFlight = 2
  MaxFailures = 1
SYMMETRY Symmetric
INVARIANTS TypeOK AnswersAreTrue RetriesAreFailures PayoutAddsUp
PROPERTIES AnsweredIsFinal PaidStaysShown
