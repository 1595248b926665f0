SPECIFICATION Spec
CONSTANTS
    None = None
    a1 = a1
    a2 = a2
    sv = sv
    c1 = c1
    c2 = c2
    c3 = c3
    Periods = {1}
    Accounts = {a1, a2}
    Savings = {}
    Categories = {c1, c2, c3}
    Envelopes = {e1, e2, e3}
    TxnIds = {t1, t2, t3}
    Magnitudes = {0, 1}
    Days = {1}
    MonthLength = 1
    MaxEvents = 2
    MaxInFlight = 0
    DateWindow = 0
    AmountTolerance = 0
    EditedFields = {}
    TxnForms <- NoForms
    EnvelopeForms <- TransferForms
    Movements <- NoForms
    ArchivableAccounts = {}
SYMMETRY RowSymmetry
PROPERTIES RegenerateCoversTransfers
