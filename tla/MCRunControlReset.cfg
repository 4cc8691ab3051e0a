CONSTANTS
    OtherKeys <- MCOtherKeys
    FullEvery <- MCFullEvery
    MaxTokens <- MCMaxTokens
SPECIFICATION Spec
INVARIANT ResetWaitsForDisplay
