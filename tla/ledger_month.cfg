SPECIFICATION Spec
CONSTANTS
    None = None
    a1 = a1
    a2 = a2
    sv = sv
    c1 = c1
    c2 = c2
    c3 = c3
    Periods = {1}
    Accounts = {a1, a2}
    Savings = {}
    Categories = {c1, c2}
    Envelopes = {e1, e2}
    TxnIds = {t1, t2}
    Magnitudes = {0, 1}
    Days = {1}
    MonthLength = 1
    MaxEvents = 1
    MaxInFlight = 1
    DateWindow = 0
    AmountTolerance = 0
    EditedFields = {}
    TxnForms <- NoForms
    EnvelopeForms <- MonthForms
    Movements <- NoForms
    ArchivableAccounts = {a2}
SYMMETRY RowSymmetry
INVARIANTS TypeOK EnvelopesIntact
PROPERTIES RegenerateIsAdditive
