SPECIFICATION Spec
CONSTANTS
    c1 = c1  c2 = c2  c3 = c3  c4 = c4  c5 = c5  mit = mit  apache = apache
    Unlicensed = Unlicensed  None = None
    Coords = {c1, c2, c3, c4, c5}
    Components = {c1, c5}
    Unnameable = {c5}
    Poms <- SmallPoms
    Jars <- SomeJars
    MaxPOMAncestry = 3
INVARIANTS NearestDeclares EndsForCause
CHECK_DEADLOCK FALSE
