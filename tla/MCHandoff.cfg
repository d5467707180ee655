SPECIFICATION Spec
CONSTANTS
    r1 = r1  r2 = r2  r3 = r3  t1 = t1  t2 = t2  t3 = t3
    NoToken = NoToken
    Requests = {r1, r2, r3}
    Tokens = {t1, t2, t3}
    MaxStarts = 4
    MaxDeaths = 2
    MaxMisreads = 1
SYMMETRY AllAlike
INVARIANTS
    EffectOnce
    ClaimsAreBacked
PROPERTIES
    CalledAgainOnlyAfterRefusal
    KeepsEffectLedger
    TerminalStays
    OutcomeStays
    ConfirmedAnew
CHECK_DEADLOCK FALSE
