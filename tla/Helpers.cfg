\* The pure functions, over bounded inputs.
SPECIFICATION Spec
CONSTANTS
  Characters = {"a", "-", "0", "1"}
  firewallRuleCreateRetryDelay = 2
  maxBackOffSeconds = 8
INVARIANTS SentIsSigned SignatureIsCanonical NameFits NamesDiffer RetryIsPaced AnswerIsPrompt
