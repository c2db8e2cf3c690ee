SPECIFICATION Spec
CONSTANTS
    r1 = r1  r2 = r2  m1 = m1
    Records = {r1, r2}
    Models = {m1}
    ModelOf <- OneModel
    Kills = {k1}
    Dismisses = {d1}
    Platforms = {"unix", "windows"}
PROPERTY StaleIsFinal
CHECK_DEADLOCK FALSE
