SPECIFICATION FairSpec
CONSTANTS
    r1 = r1  r2 = r2  m1 = m1
    Records = {r1, r2}
    Models = {m1}
    ModelOf <- OneModel
    Kills = {k1}
    Dismisses = {d1}
    Platforms = {"unix", "windows"}
INVARIANTS IInv NoFalseSuccess SignalsFollowVerification OneProcessPerModel
PROPERTY KillReturns
CHECK_DEADLOCK FALSE
