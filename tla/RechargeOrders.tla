--------------------------- MODULE RechargeOrders ---------------------------
(***************************************************************************)
(* Recharge orders of one user, from checkout to refund: recharge.service  *)
(* (createRecharge, sweepExpiredOrders), payment-callback.service          *)
(* (handlePaid) and the TWO refund endpoints, admin-finance.service and    *)
(* admin-user.service.  Credits move through the ledger of CreditLedger,   *)
(* which CreditsService is shown to implement; a database transaction that *)
(* calls applyRechargeFromManager or applyDeductFromManager commits both   *)
(* its own rows and the ledger's operation, in one step.                   *)
(*                                                                         *)
(* Both refund handlers are registered for POST                            *)
(* /admin/recharge-orders/:id/refund.  The router serves the one           *)
(* registered first, and AppModule imports AdminUserModule first; the      *)
(* constant Endpoints says which handlers are served.                      *)
(*                                                                         *)
(* The payment provider is external: it takes the money, keeps delivering  *)
(* its notice (again, late, after a refund) and gives the money back.      *)
(***************************************************************************)
EXTENDS Integers

CONSTANTS Orders,           \* recharge orders (order_no)
          Admins,           \* concurrent refund requests
          Credits,          \* credits + bonusCredits of the plan
          Spends,           \* amounts the user spends meanwhile
          None,             \* no admin, no order
          Endpoints         \* the refund handlers the router serves

ASSUME CreditsAssumption == Credits \in Nat \ {0} /\ Spends \subseteq Nat \ {0}
ASSUME RefundAssumption ==
    Endpoints \subseteq {"admin-finance", "admin-user"} /\ None \notin Admins /\ None \notin Orders

VARIABLES checkout,    \* createRecharge, per order
          gateway,     \* the provider's side of the order
          order,       \* recharge_orders.status, "absent" before the row is there
          payment,     \* payment_records.status
          available,   \* the user's balance
          credited,    \* 'recharge' transaction rows with this order's number
          clawed,      \* credits taken back for this order
          orderLock,   \* refund that holds the lock of the order row
          admin        \* the refund requests

vars == <<checkout, gateway, order, payment, available, credited, clawed,
          orderLock, admin>>

\* Holds play no part here: the ledger is the part of it recharges touch.
Ledger == INSTANCE CreditLedger WITH
            Holds <- {}, Amounts <- {Credits}, Costs <- {},
            reserved <- 0, status <- <<>>, size <- <<>>

Idle == [pc |-> "idle", order |-> None, deduct |-> 0]

Init ==
    /\ checkout = [o \in Orders |-> "none"]
    /\ gateway = [o \in Orders |-> "none"]
    /\ order = [o \in Orders |-> "absent"]
    /\ payment = [o \in Orders |-> "absent"]
    /\ available = 0
    /\ credited = [o \in Orders |-> 0]
    /\ clawed = [o \in Orders |-> 0]
    /\ orderLock = [o \in Orders |-> None]
    /\ admin = [a \in Admins |-> Idle]

-----------------------------------------------------------------------------
(* Checkout *)

\* createRecharge asks the provider for a payment link first,
CreateAtGateway(o) ==
    /\ checkout[o] = "none"
    /\ checkout' = [checkout EXCEPT ![o] = "saving"]
    /\ gateway' = [gateway EXCEPT ![o] = "created"]
    /\ UNCHANGED <<order, payment, available, credited, clawed, orderLock, admin>>

\* then commits both rows and only then hands the link to the user,
SaveOrder(o) ==
    /\ checkout[o] = "saving"
    /\ checkout' = [checkout EXCEPT ![o] = "offered"]
    /\ order' = [order EXCEPT ![o] = "pending"]
    /\ payment' = [payment EXCEPT ![o] = "pending"]
    /\ UNCHANGED <<gateway, available, credited, clawed, orderLock, admin>>

\* or dies in between: the link is lost, the provider's order stays unpaid.
CreateFails(o) ==
    /\ checkout[o] = "saving"
    /\ checkout' = [checkout EXCEPT ![o] = "lost"]
    /\ UNCHANGED <<gateway, order, payment, available, credited, clawed,
                   orderLock, admin>>

\* External: the user pays, however late.
Pay(o) ==
    /\ checkout[o] = "offered"
    /\ gateway[o] = "created"
    /\ gateway' = [gateway EXCEPT ![o] = "paid"]
    /\ UNCHANGED <<checkout, order, payment, available, credited, clawed,
                   orderLock, admin>>

\* Mutant: the sweep looks at the age of an order only.
Sweep_AnyStatus(o) ==
    /\ order[o] \notin {"absent", "failed"}
    /\ order' = [order EXCEPT ![o] = "failed"]
    /\ UNCHANGED <<checkout, gateway, payment, available, credited, clawed,
                   orderLock, admin>>

\* sweepExpiredOrders: one UPDATE that touches pending orders only.
Sweep(o) ==
    /\ order[o] = "pending"
    /\ order' = [order EXCEPT ![o] = "failed"]
    /\ UNCHANGED <<checkout, gateway, payment, available, credited, clawed,
                   orderLock, admin>>

-----------------------------------------------------------------------------
(* The provider's notice *)

\* Mutant: only a paid order counts as done, not a refunded one.
HandlePaid_AfterRefund(o) ==
    /\ gateway[o] \in {"paid", "returned"}
    /\ orderLock[o] = None
    /\ order[o] \notin {"absent", "paid"}
    /\ Ledger!Credit(Credits)
    /\ credited' = [credited EXCEPT ![o] = @ + 1]
    /\ order' = [order EXCEPT ![o] = "paid"]
    /\ payment' = [payment EXCEPT ![o] = "paid"]
    /\ UNCHANGED <<checkout, gateway, clawed, orderLock, admin>>

\* Mutant: an order the sweep has failed is left alone.
HandlePaid_PendingOnly(o) ==
    /\ gateway[o] \in {"paid", "returned"}
    /\ orderLock[o] = None
    /\ order[o] = "pending"
    /\ Ledger!Credit(Credits)
    /\ credited' = [credited EXCEPT ![o] = @ + 1]
    /\ order' = [order EXCEPT ![o] = "paid"]
    /\ payment' = [payment EXCEPT ![o] = "paid"]
    /\ UNCHANGED <<checkout, gateway, clawed, orderLock, admin>>

\* Mutant: the payment record is forgotten.
HandlePaid_OrderOnly(o) ==
    /\ gateway[o] \in {"paid", "returned"}
    /\ orderLock[o] = None
    /\ order[o] \notin {"absent", "paid", "refunded"}
    /\ Ledger!Credit(Credits)
    /\ credited' = [credited EXCEPT ![o] = @ + 1]
    /\ order' = [order EXCEPT ![o] = "paid"]
    /\ UNCHANGED <<checkout, gateway, payment, clawed, orderLock, admin>>

\* A verified notice, the first or a repeated one, finds the order and waits for
\* its row lock.  An order already paid or refunded is left alone.
HandlePaid(o) ==
    /\ gateway[o] \in {"paid", "returned"}
    /\ orderLock[o] = None
    /\ order[o] \notin {"absent", "paid", "refunded"}
    /\ Ledger!Credit(Credits)
    /\ credited' = [credited EXCEPT ![o] = @ + 1]
    /\ order' = [order EXCEPT ![o] = "paid"]
    /\ payment' = [payment EXCEPT ![o] = "paid"]
    /\ UNCHANGED <<checkout, gateway, clawed, orderLock, admin>>

\* The user's other operations take credits.
Spend(s) ==
    /\ Ledger!Debit(s)
    /\ UNCHANGED <<checkout, gateway, order, payment, credited, clawed,
                   orderLock, admin>>

-----------------------------------------------------------------------------
(* Refund by admin-finance *)

\* The status is read without a lock.
RequestRefund(a, o) ==
    /\ "admin-finance" \in Endpoints
    /\ admin[a].pc = "idle"
    /\ order[o] = "paid"
    /\ admin' = [admin EXCEPT ![a] = [pc |-> "gateway", order |-> o, deduct |-> 0]]
    /\ UNCHANGED <<checkout, gateway, order, payment, available, credited,
                   clawed, orderLock>>

\* gateway.refund gives the money back (asked twice, it says so again),
GatewayRefund(a) ==
    /\ admin[a].pc = "gateway"
    /\ gateway' = [gateway EXCEPT ![admin[a].order] = "returned"]
    /\ admin' = [admin EXCEPT ![a].pc = "lock"]
    /\ UNCHANGED <<checkout, order, payment, available, credited, clawed, orderLock>>

\* or it fails, or does its work and the answer is lost, or refuses a repetition.
GatewayRefundFails(a) ==
    /\ admin[a].pc = "gateway"
    /\ admin' = [admin EXCEPT ![a] = Idle]
    /\ \/ UNCHANGED gateway
       \/ gateway' = [gateway EXCEPT ![admin[a].order] = "returned"]
    /\ UNCHANGED <<checkout, order, payment, available, credited, clawed, orderLock>>

AtMost(x, y) == IF x <= y THEN x ELSE y

\* Mutant: the status is not checked again.
LockOrder_NoRecheck(a) ==
    LET o == admin[a].order
    IN  /\ admin[a].pc = "lock"
        /\ orderLock[o] = None
        /\ orderLock' = [orderLock EXCEPT ![o] = a]
        /\ admin' = [admin EXCEPT ![a] =
             [pc |-> "claw", order |-> o, deduct |-> AtMost(Credits, available)]]
        /\ UNCHANGED <<checkout, gateway, order, payment, available, credited, clawed>>

\* The local transaction locks the order row, checks the status again, and reads
\* the balance without a lock.
LockOrder(a) ==
    LET o == admin[a].order
    IN  /\ admin[a].pc = "lock"
        /\ orderLock[o] = None
        /\ IF order[o] = "paid"
           THEN /\ orderLock' = [orderLock EXCEPT ![o] = a]
                /\ admin' = [admin EXCEPT ![a] =
                     [pc |-> "claw", order |-> o, deduct |-> AtMost(Credits, available)]]
           ELSE /\ admin' = [admin EXCEPT ![a] = Idle]
                /\ UNCHANGED orderLock
        /\ UNCHANGED <<checkout, gateway, order, payment, available, credited, clawed>>

Unlock(a) ==
    /\ orderLock' = [o \in Orders |-> IF orderLock[o] = a THEN None ELSE orderLock[o]]
    /\ admin' = [admin EXCEPT ![a] = Idle]

\* applyDeductFromManager, both rows, commit.
ClawBack(a) ==
    LET o == admin[a].order
        d == admin[a].deduct
    IN  /\ admin[a].pc = "claw"
        /\ Ledger!Debit(d)
        /\ clawed' = [clawed EXCEPT ![o] = @ + d]
        /\ order' = [order EXCEPT ![o] = "refunded"]
        /\ payment' = [payment EXCEPT ![o] = "refunded"]
        /\ Unlock(a)
        /\ UNCHANGED <<checkout, gateway, credited>>

\* The balance no longer suffices, the database errs, or the process dies: the
\* transaction rolls back, the provider's refund stays.
Abandon(a) ==
    /\ admin[a].pc # "idle"
    /\ Unlock(a)
    /\ UNCHANGED <<checkout, gateway, order, payment, available, credited, clawed>>

-----------------------------------------------------------------------------
(* Refund by admin-user: two saves, no transaction, no provider, no claw-back *)

RequestMark(a, o) ==
    /\ "admin-user" \in Endpoints
    /\ admin[a].pc = "idle"
    /\ order[o] = "paid"
    /\ admin' = [admin EXCEPT ![a] = [pc |-> "mark", order |-> o, deduct |-> 0]]
    /\ UNCHANGED <<checkout, gateway, order, payment, available, credited,
                   clawed, orderLock>>

MarkOrder(a) ==
    LET o == admin[a].order
    IN  /\ admin[a].pc = "mark"
        /\ orderLock[o] = None
        /\ order' = [order EXCEPT ![o] = "refunded"]
        /\ admin' = [admin EXCEPT ![a].pc = "markPayment"]
        /\ UNCHANGED <<checkout, gateway, payment, available, credited, clawed,
                       orderLock>>

MarkPayment(a) ==
    /\ admin[a].pc = "markPayment"
    /\ payment' = [payment EXCEPT ![admin[a].order] = "refunded"]
    /\ admin' = [admin EXCEPT ![a] = Idle]
    /\ UNCHANGED <<checkout, gateway, order, available, credited, clawed, orderLock>>

-----------------------------------------------------------------------------
(* The specification *)

Checkout(o) ==
    \/ CreateAtGateway(o) \/ SaveOrder(o) \/ CreateFails(o)
    \/ Pay(o) \/ Sweep(o) \/ HandlePaid(o)

Refund(a) ==
    \/ \E o \in Orders : RequestRefund(a, o) \/ RequestMark(a, o)
    \/ GatewayRefund(a) \/ GatewayRefundFails(a)
    \/ LockOrder(a) \/ ClawBack(a) \/ Abandon(a)
    \/ MarkOrder(a) \/ MarkPayment(a)

Next ==
    \/ \E o \in Orders : Checkout(o)
    \/ \E a \in Admins : Refund(a)
    \/ \E s \in Spends : Spend(s)

Spec == Init /\ [][Next]_vars

\* The provider delivers its notice until it is answered with success, and the
\* controllers answer an exception with an error status.
FairSpec == Spec /\ \A o \in Orders : WF_vars(HandlePaid(o))

-----------------------------------------------------------------------------
(* Properties *)

\* Every variable keeps its type.
TypeOK ==
    /\ checkout \in [Orders -> {"none", "saving", "offered", "lost"}]
    /\ gateway \in [Orders -> {"none", "created", "paid", "returned"}]
    /\ order \in [Orders -> {"absent", "pending", "paid", "failed", "refunded"}]
    /\ payment \in [Orders -> {"absent", "pending", "paid", "refunded"}]
    /\ available \in Int
    /\ credited \in [Orders -> Nat]
    /\ clawed \in [Orders -> Int]
    /\ orderLock \in [Orders -> Admins \cup {None}]
    /\ admin \in [Admins -> [pc : {"idle", "gateway", "lock", "claw", "mark",
                                   "markPayment"},
                             order : Orders \cup {None}, deduct : Int]]

\* An order's credits are added once, however often and however late the notice
\* arrives, and exactly when its status says so (handlePaid).
CreditedOnce ==
    \A o \in Orders :
        credited[o] = IF order[o] \in {"paid", "refunded"} THEN 1 ELSE 0

\* Nobody has credits of an order whose money never arrived.
NoCreditWithoutPayment ==
    \A o \in Orders : credited[o] > 0 => gateway[o] \in {"paid", "returned"}

\* An order that can be paid is on record, so no notice meets "order not found"
\* (createRecharge returns the link after its commit).
PayableOnRecord ==
    \A o \in Orders :
        gateway[o] \in {"paid", "returned"} => "absent" \notin {order[o], payment[o]}

\* The user's balance never goes below zero, whatever a refund takes back.
BalanceStaysPositive == available >= 0

\* Credits are taken back once, at most what the order gave and what is still there,
\* and only for an order whose money went back (refundOrder of admin-finance, raced,
\* retried, or overtaken by what the user spends).
ClawbackBacked ==
    /\ BalanceStaysPositive
    /\ \A o \in Orders :
          /\ clawed[o] \in 0..Credits
          /\ clawed[o] > 0 => gateway[o] = "returned" /\ order[o] = "refunded"

\* Order and payment record tell the same story, the sweep aside, which fails the order
\* alone, and a refund of admin-user, which saves the order first and then, perhaps
\* never, the payment record.
PaymentMatchesOrder ==
    \A o \in Orders :
        \/ payment[o] = IF order[o] = "failed" THEN "pending" ELSE order[o]
        \/ order[o] = "refunded" /\ payment[o] = "paid" /\ "admin-user" \in Endpoints

\* A paid order is never swept or paid again, and a refunded one is final.
PaidIsForGood ==
    [][\A o \in Orders :
        /\ order[o] = "paid" => order'[o] \in {"paid", "refunded"}
        /\ order[o] = "refunded" => order'[o] = "refunded"]_vars

\* Who has paid gets the credits, also after the sweep marked the order failed.
PaidEventuallyCredited ==
    \A o \in Orders : gateway[o] = "paid" ~> credited[o] = 1

\* "Real provider refund": a refunded order's money went back.  TLC refutes it with the
\* endpoint that the router serves, Endpoints = {"admin-user"} (README, section 5).
RefundReturnsMoney ==
    \A o \in Orders : order[o] = "refunded" => gateway[o] = "returned"
=============================================================================
