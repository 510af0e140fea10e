CONSTANTS
    Members = {a, b}
    Founder = a
    Browsers = {x, y}
    Submitters = {x}
    MaxPasswords = 3
    MaxTokens = 2
    MaxEpoch = 3
    MaxForms = 1
    Identities = {i, j}
    Visitors = {v, w}
    MaxChallenges = 2
    MaxGuesses = 2
    MaxAccountEpoch = 2
SPECIFICATION MCSpec
CHECK_DEADLOCK FALSE
INVARIANTS ResetCutsOff SomeAdminRemains ToldIsTrue CodesServeOnce
