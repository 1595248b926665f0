SPECIFICATION Spec
CONSTANTS
    None = None
    a1 = a1
    a2 = a2
    sv = sv
    sv2 = sv2
    c1 = c1
    c2 = c2
    c3 = c3
    Periods = {1}
    Accounts = {a1, a2, sv, sv2}
    Savings = {sv, sv2}
    Categories = {c1, c2}
    Envelopes = {e1}
    TxnIds = {t1, t2}
    Magnitudes = {1, 2}
    Days = {1, 2}
    MonthLength = 2
    MaxEvents = 2
    MaxInFlight = 0
    DateWindow = 0
    AmountTolerance = 1
    EditedFields = {"op_date", "account_id"}
    TxnForms <- ReconcileTxnForms
    EnvelopeForms <- ReconcileEnvelopeForms
    Movements <- ReconcileMovements
    ArchivableAccounts = {}
    Sweeps = {a1, a2}
    Cascade <- TwoVehicles
    Ceilings <- CeilingOfTwo
    Snapshots <- FirstUpToFull
    Groups = {g}
SYMMETRY RowSymmetry
INVARIANTS PairsIntact LowPointsAgree
PROPERTIES ReconcileCountsOnce SweepCountsOnce
