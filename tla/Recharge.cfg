SPECIFICATION FairSpec
CONSTANTS
    Orders = {o1, o2}
    Admins = {a1, a2}
    None = None
    Credits = 2
    Spends = {1}
    Endpoints = {"admin-finance", "admin-user"}
INVARIANTS CreditedOnce ClawbackBacked PaymentMatchesOrder
PROPERTIES PaidIsForGood PaidEventuallyCredited
CHECK_DEADLOCK FALSE
