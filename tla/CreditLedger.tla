---------------------------- MODULE CreditLedger ----------------------------
(***************************************************************************)
(* What the credit service promises about ONE user's credits: money is     *)
(* available or reserved; a reservation (a "hold", the freeze transaction) *)
(* is opened once and closed once, by a settlement or by a refund; every   *)
(* operation is a single atomic step.  There is no lock, no process and no *)
(* failure here: CreditsService is shown to implement this module.         *)
(*                                                                         *)
(* Users share nothing (the lock key, the account row and the transaction  *)
(* rows are all selected by userId), so one ledger stands for each.        *)
(***************************************************************************)
EXTENDS Integers

CONSTANTS Holds,     \* identities of the freeze transactions (frozenTxnId)
          Amounts,   \* amounts credited, debited and reserved
          Costs      \* actual amounts of settlements

ASSUME LedgerAssumption == Amounts \subseteq Nat \ {0} /\ Costs \subseteq Nat

VARIABLES available,   \* credits the user can spend
          reserved,    \* credits set aside by open holds
          status,      \* life of each hold
          size         \* amount each hold was opened with, 0 before

ledgerVars == <<available, reserved, status, size>>

HoldStatus == {"none", "open", "settled", "refunded"}

LedgerInit ==
    /\ available = 0
    /\ reserved = 0
    /\ status = [h \in Holds |-> "none"]
    /\ size = [h \in Holds |-> 0]

\* rechargeCredits, rewardCredits, adminAdjust with a positive amount.
Credit(a) ==
    /\ available' = available + a
    /\ UNCHANGED <<reserved, status, size>>

\* applyDeductFromManager, adminAdjust with a negative amount.
Debit(a) ==
    /\ available >= a
    /\ available' = available - a
    /\ UNCHANGED <<reserved, status, size>>

\* freezeCredits.
Reserve(h, a) ==
    /\ status[h] = "none"
    /\ available >= a
    /\ available' = available - a
    /\ reserved' = reserved + a
    /\ status' = [status EXCEPT ![h] = "open"]
    /\ size' = [size EXCEPT ![h] = a]

\* settleCredits: the cost may be below the reservation, the rest returns, or
\* above it, the rest is taken from what is available.
Settle(h, actual) ==
    /\ status[h] = "open"
    /\ available + size[h] >= actual
    /\ available' = available + size[h] - actual
    /\ reserved' = reserved - size[h]
    /\ status' = [status EXCEPT ![h] = "settled"]
    /\ UNCHANGED size

\* refundCredits.
Refund(h) ==
    /\ status[h] = "open"
    /\ available' = available + size[h]
    /\ reserved' = reserved - size[h]
    /\ status' = [status EXCEPT ![h] = "refunded"]
    /\ UNCHANGED size

LedgerNext ==
    \/ \E a \in Amounts : Credit(a) \/ Debit(a)
    \/ \E h \in Holds, a \in Amounts : Reserve(h, a)
    \/ \E h \in Holds, actual \in Costs : Settle(h, actual)
    \/ \E h \in Holds : Refund(h)

LedgerSpec == LedgerInit /\ [][LedgerNext]_ledgerVars
=============================================================================
