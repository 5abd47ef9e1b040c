SPECIFICATION Spec
CONSTANTS
  Texts <- SampleTexts
  NoValue = "None"
  LlmEnabled = TRUE
  Dnis = {"d"}
  InitialClients <- Clients
  Proper <- ProperAnswers
  MaxSaved = 2
CONSTRAINT WithinScope
INVARIANT PaymentIsForWhatWasSaved
PROPERTIES SavedAsShown WillingGetsThrough
CHECK_DEADLOCK FALSE
