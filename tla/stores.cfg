CONSTANTS
    c1 = c1
    c2 = c2
    c3 = c3
    c4 = c4
    c5 = c5
    c6 = c6
    c7 = c7
    c8 = c8
    c9 = c9
    c10 = c10
    s1 = s1
    s2 = s2
    k1 = k1
    None = None
    Absent = Absent
    Clients = {c1, c2, c3, c4, c5, c6, c7, c8}
    Sessions = {s1, s2}
    Keys = {k1}
    Kind <- Family
    On <- FamilyOn
    Key <- SameKey
    Target <- ToS2
    After <- FamilyAfter
    Locked = TRUE
    Faults = {"select", "insert", "copy", "delete"}
    MaxRestarts = 1
SPECIFICATION MCSpec
CHECK_DEADLOCK FALSE
INVARIANTS MirrorsRows
  
