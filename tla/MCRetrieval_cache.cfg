CONSTANTS
    None = None
    Rotten = Rotten
    Foreign = Foreign
    s = s
    r = r
    Files = {s, r}
    Layouts <- BothLayouts
    Lines <- SmallLines
    Empty = Empty
    MaxIssues = 100
    Raw = {r}
    c1 = c1
    c2 = c2
    Commands = {c1, c2}
    MaxVersion = 2
    Bounds <- SmallBounds
SPECIFICATION Spec
CHECK_DEADLOCK FALSE
SYMMETRY Symmetry
INVARIANT AnswerIsCurrent
INVARIANT NothingIsForgotten
INVARIANT PagesAreWhole
