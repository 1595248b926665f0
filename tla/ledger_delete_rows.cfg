SPECIFICATION Spec
CONSTANTS
    None = None
    a1 = a1
    a2 = a2
    sv = sv
    c1 = c1
    c2 = c2
    c3 = c3
    Periods = {1}
    Accounts = {a1, a2}
    Savings = {}
    Categories = {c1, c2}
    Envelopes = {e1, e2}
    TxnIds = {t1, t2}
    Magnitudes = {1, 2}
    Days = {1, 2}
    MonthLength = 2
    MaxEvents = 2
    MaxInFlight = 1
    DateWindow = 0
    AmountTolerance = 1
    EditedFields = {"category_id"}
    TxnForms <- ReconcileTxnForms
    EnvelopeForms <- JournalCategoryForms
    Movements <- NoForms
    ArchivableAccounts = {}
PROPERTIES DeletedWithoutRows
