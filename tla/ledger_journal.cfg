SPECIFICATION Spec
CONSTANTS
    None = None
    a1 = a1
    a2 = a2
    sv = sv
    sv2 = sv2
    c1 = c1
    c2 = c2
    c3 = c3
    Periods = {1, 2}
    Accounts = {a1, sv}
    Savings = {sv}
    Categories = {c1, c2}
    Envelopes = {e1}
    TxnIds = {t1}
    Magnitudes = {1, 2}
    Days = {1}
    MonthLength = 1
    MaxEvents = 3
    MaxInFlight = 0
    DateWindow = 0
    AmountTolerance = 0
    EditedFields = {"status", "op_date", "budget_period", "amount", "category_id", "account_id"}
    TxnForms <- JournalForms
    EnvelopeForms <- JournalEnvelopeForms
    Movements <- NoForms
    ArchivableAccounts = {a1}
    Sweeps = {a1}
    Cascade <- OneVehicle
    Ceilings <- CeilingOfTwo
    Snapshots <- FirstUpToFull
    Groups = {g}
INVARIANTS AuditMatchesState SignMatchesFlow
INVARIANTS MoneyConserved JournalAgrees SecuredMeetsPlan CurveMeetsProjection
PROPERTIES TransferLegsFixed ImplementsMonthBook PreviewKept
