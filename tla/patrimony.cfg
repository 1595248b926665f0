SPECIFICATION Spec
CONSTANTS
    Workers = {w1, w2}
    w1 = w1
    w2 = w2
    AccountForms <- SmallForms
    Periods = {1, 2, 4}
    GrossValues = {10000, 10624, 10625}
    Deposits = {10500}
    Rates = {1720}
    MaxAccounts = 2
    Room <- SmallRoom
    CurveWidths = {1, 2}
SYMMETRY WorkerSymmetry
INVARIANTS
    TypeOK
    PolicyFollowsType
    OrderAlwaysAccepted
    DeltasAddUp
    SynthesisAgrees
    CurvesAddUp
    MoreGrossMoreNet
