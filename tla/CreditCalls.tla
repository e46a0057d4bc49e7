---------------------------- MODULE CreditCalls ----------------------------
(***************************************************************************)
(* How the job services see the credit service: calls of settleCredits and *)
(* refundCredits by the id of a hold, and the ways such a call may end.    *)
(***************************************************************************)
EXTENDS CreditLedger

CONSTANT Outcomes     \* how a call of the credit service may end

\* "ok": done.  "refused": an exception, nothing done (the lock is busy, or the
\* balance does not cover the cost).  "unsure": committed, and then an exception
\* (the release of the lock fails).
ASSUME OutcomesAssumption ==
    "ok" \in Outcomes /\ Outcomes \subseteq {"ok", "refused", "unsure"}

\* settleCredits and refundCredits return at once when the hold is closed already.
SettleHold(h, actual) ==
    IF status[h] = "open" THEN Settle(h, actual) ELSE UNCHANGED ledgerVars
RefundHold(h) ==
    IF status[h] = "open" THEN Refund(h) ELSE UNCHANGED ledgerVars

\* A call ends in one of the Outcomes.
Calls(op, outcome) == IF outcome = "refused" THEN UNCHANGED ledgerVars ELSE op
=============================================================================
