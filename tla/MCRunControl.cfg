CONSTANTS
    OtherKeys <- MCOtherKeys
    FullEvery <- MCFullEvery
    MaxTokens <- MCMaxTokens
SPECIFICATION Spec
INVARIANTS
    TypeOK
    RestShowsCommands
    NoLostWakeup
PROPERTIES
    CommandObeyed
    FastModeIsShown
    ImplementsDebugger
