SPECIFICATION Spec
CONSTANTS
    Window = {w1, w2}
    Edit = {e1, e2}
    Market = {all, tw}
    MaxRevision = 3
    MaxValuing = 2
SYMMETRY Symmetric
INVARIANTS TypeOK LostOnlyAfterTwoLogins DraftSurvives ScreenSettles
