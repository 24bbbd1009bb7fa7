SPECIFICATION FairSpec
CONSTANTS
    Procs = {p1, p2}
    None = None
    InitialWait = 1
    MaxSleep = 3
    Uint32Max = 7
    Timeouts = {0, 2, 7}
INVARIANT TypeOK
INVARIANT CommandsUnderClaim
INVARIANT HandleIsOpenWhenUsed
INVARIANT SleepBudget
INVARIANT NoEarlyGiveUp
PROPERTY ClaimReturns
