\* runtime plans, skills, the self-improvement loop and sections
CONSTANTS
    p1 = p1
    p2 = p2
    s1 = s1
    s2 = s2
    h1 = h1
    h2 = h2
    k1 = k1
    k2 = k2
    x1 = x1
    x2 = x2
    y = y
    f = f
    g = g
    a1 = a1
    a2 = a2
    Plans = {p1, p2}
    Servers = {s1, s2}
    ServerOf <- MCServerOf
    NoPlan = NoPlan
    Shells = {h1, h2}
    MaxApplies = 2
    MaxEdits = 1
    Paths = {1, 2}
    Packages = {k1, k2}
    Contents = {x1, x2, y}
    ContentOf <- MCContentOf
    Nothing = Nothing
    Own = Own
    Agents = {a1, a2}
    MaxInstalls = 2
    MaxTouches = 1
    Claims = {c1, c2}
    NoClaim = NoClaim
    External = {c1}
    Harmful = {c2}
    MinOccurrences = 2
    Budget = 3
    MaxReviews = 1
    MaxFiles = 3
    MaxSleeps = 1
    MaxRewritten = 1
    MaxVersions = 3
    Files = {f, g}
    Texts <- MCTexts
    Missing = Missing
    Bundles <- MCBundles
SPECIFICATION WritersSpec
PROPERTIES
    AppliesAreUndoable
    SkillsAreTidy
    LoopIsGuarded
    SectionsAreKept
SYMMETRY MCSymmetry
CONSTRAINT ApplyBound LoopBound
CHECK_DEADLOCK FALSE
