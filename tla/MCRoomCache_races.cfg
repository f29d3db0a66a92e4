SPECIFICATION Spec
CONSTANTS
    r1 = r1  r2 = r2  old = old  new = new  w1 = w1  w2 = w2  s1 = s1  s2 = s2  c1 = c1  c2 = c2
    Rooms <- OneRoom
    Contents <- TwoContents
    Windows <- TwoWindows
    Searches <- TwoSearches
    Changes <- TwoChanges
    MaxChanges = 2
INVARIANTS
    TypeOK StaleForAReason
PROPERTY
    EventuallyFresh
