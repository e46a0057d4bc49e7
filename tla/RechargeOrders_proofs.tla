----------------------- MODULE RechargeOrders_proofs -----------------------
(***************************************************************************)
(* Proofs about recharge orders, for any number of orders, of concurrent   *)
(* refund requests, any plan, and whichever refund handlers are served.    *)
(*                                                                         *)
(* The argument: an order's row is created before it can be paid           *)
(* (Recorded); it is paid or refunded only once its money has arrived, and *)
(* then it never leaves these two states, so handlePaid's status check     *)
(* makes it credit once (Earned).  A refund that is about to take credits  *)
(* back holds the row lock, so the order is still paid and nothing has     *)
(* been taken back yet (Refunding).                                        *)
(***************************************************************************)
EXTENDS RechargeOrders, TLAPS

\* The rows of an order exist exactly from the moment its link is handed out.
Recorded ==
    \A o \in Orders :
        /\ checkout[o] = "offered" <=> order[o] # "absent"
        /\ order[o] = "absent" <=> payment[o] = "absent"
        /\ gateway[o] \in {"paid", "returned"} => checkout[o] = "offered"

\* A paid or refunded order's money arrived.
Earned ==
    \A o \in Orders :
        order[o] \in {"paid", "refunded"} => gateway[o] \in {"paid", "returned"}

\* What a refund request knows at each point, and what its lock protects.
Refunding ==
    /\ \A a \in Admins : admin[a].pc # "idle" =>
        /\ admin[a].order \in Orders
        /\ order[admin[a].order] \in {"paid", "refunded"}
    /\ \A a \in Admins : admin[a].pc \in {"lock", "claw"} =>
        gateway[admin[a].order] = "returned"
    /\ \A a \in Admins : admin[a].pc = "claw" =>
        /\ orderLock[admin[a].order] = a
        /\ order[admin[a].order] = "paid"
        /\ admin[a].deduct \in 0..Credits
    /\ \A o \in Orders : order[o] # "refunded" => clawed[o] = 0

IInv ==
    /\ TypeOK
    /\ BalanceStaysPositive
    /\ Recorded
    /\ Earned
    /\ CreditedOnce
    /\ Refunding
    /\ ClawbackBacked

USE CreditsAssumption, RefundAssumption

\* Nothing has happened yet.
LEMMA InitInv == Init => IInv
  BY DEF Init, Idle, IInv, TypeOK, BalanceStaysPositive, Recorded, Earned,
         CreditedOnce, Refunding, ClawbackBacked

\* Checkout, payment and sweep preserve the invariant.
LEMMA CheckoutInv ==
    ASSUME IInv, NEW o \in Orders,
           CreateAtGateway(o) \/ SaveOrder(o) \/ CreateFails(o) \/ Pay(o) \/ Sweep(o)
    PROVE  IInv'
<1> USE DEF IInv, TypeOK, BalanceStaysPositive, Recorded, Earned, CreditedOnce,
            Refunding, ClawbackBacked
<1>1. CASE CreateAtGateway(o) BY <1>1 DEF CreateAtGateway
<1>2. CASE SaveOrder(o) BY <1>2 DEF SaveOrder
<1>3. CASE CreateFails(o) BY <1>3 DEF CreateFails
<1>4. CASE Pay(o) BY <1>4 DEF Pay
<1>5. CASE Sweep(o) BY <1>5 DEF Sweep
<1>6. QED BY <1>1, <1>2, <1>3, <1>4, <1>5

\* The notice of a payment preserves the invariant.
LEMMA HandlePaidInv ==
    ASSUME IInv, NEW o \in Orders, HandlePaid(o)
    PROVE  IInv'
  BY DEF HandlePaid, Ledger!Credit, IInv, TypeOK, BalanceStaysPositive, Recorded,
         Earned, CreditedOnce, Refunding, ClawbackBacked

\* Spending preserves the invariant.
LEMMA SpendInv ==
    ASSUME IInv, NEW s \in Spends, Spend(s)
    PROVE  IInv'
  BY DEF Spend, Ledger!Debit, IInv, TypeOK, BalanceStaysPositive, Recorded,
         Earned, CreditedOnce, Refunding, ClawbackBacked

\* A refund request preserves the invariant, up to taking credits back.
LEMMA RequestInv ==
    ASSUME IInv, NEW a \in Admins,
           \/ \E o \in Orders : RequestRefund(a, o) \/ RequestMark(a, o)
           \/ GatewayRefund(a) \/ GatewayRefundFails(a) \/ LockOrder(a)
           \/ Abandon(a) \/ MarkOrder(a) \/ MarkPayment(a)
    PROVE  IInv'
<1> USE DEF IInv, TypeOK, BalanceStaysPositive, Recorded, Earned, CreditedOnce,
            Refunding, ClawbackBacked, Idle
<1>1. ASSUME NEW o \in Orders, RequestRefund(a, o) PROVE IInv'
  BY <1>1 DEF RequestRefund
<1>2. ASSUME NEW o \in Orders, RequestMark(a, o) PROVE IInv'
  BY <1>2 DEF RequestMark
<1>3. CASE GatewayRefund(a) BY <1>3 DEF GatewayRefund
<1>4. CASE GatewayRefundFails(a) BY <1>4 DEF GatewayRefundFails
<1>5. CASE LockOrder(a)
  <2>1. PICK o \in Orders : o = admin[a].order /\ order[o] \in {"paid", "refunded"}
                             /\ gateway[o] = "returned" /\ orderLock[o] = None
    BY <1>5 DEF LockOrder
  <2>2. PICK d \in 0..Credits : d = AtMost(Credits, available)
    BY DEF AtMost
  <2>3. CASE order[o] = "paid"
    <3>1. /\ orderLock' = [orderLock EXCEPT ![o] = a]
          /\ admin' = [admin EXCEPT ![a] = [pc |-> "claw", order |-> o, deduct |-> d]]
          /\ UNCHANGED <<checkout, gateway, order, payment, available, credited,
                         clawed>>
      BY <1>5, <2>1, <2>2, <2>3 DEF LockOrder
    <3>2. TypeOK'
      BY <3>1, <2>1
    <3>3. Refunding'
      BY <3>1, <2>1, <2>3
    <3>4. QED BY <3>1, <3>2, <3>3
  <2>4. CASE order[o] # "paid"
    <3>1. /\ admin' = [admin EXCEPT ![a] = [pc |-> "idle", order |-> None, deduct |-> 0]]
          /\ UNCHANGED <<checkout, gateway, order, payment, available, credited,
                         clawed, orderLock>>
      BY <1>5, <2>1, <2>4 DEF LockOrder
    <3>2. TypeOK'
      BY <3>1
    <3>3. Refunding'
      BY <3>1
    <3>4. QED BY <3>1, <3>2, <3>3
  <2>5. QED BY <2>3, <2>4
<1>6. CASE Abandon(a) BY <1>6 DEF Abandon, Unlock
<1>7. CASE MarkOrder(a) BY <1>7 DEF MarkOrder
<1>8. CASE MarkPayment(a) BY <1>8 DEF MarkPayment
<1>9. QED BY <1>1, <1>2, <1>3, <1>4, <1>5, <1>6, <1>7, <1>8

\* Taking credits back preserves the invariant.
LEMMA ClawBackInv ==
    ASSUME IInv, NEW a \in Admins, ClawBack(a)
    PROVE  IInv'
  BY DEF ClawBack, Unlock, Ledger!Debit, Idle, IInv, TypeOK, BalanceStaysPositive,
         Recorded, Earned, CreditedOnce, Refunding, ClawbackBacked

\* Every step preserves the invariant.
LEMMA StepInv == IInv /\ [Next]_vars => IInv'
<1> SUFFICES ASSUME IInv, [Next]_vars PROVE IInv'
  OBVIOUS
<1>1. ASSUME NEW o \in Orders, Checkout(o) PROVE IInv'
  BY <1>1, CheckoutInv, HandlePaidInv DEF Checkout
<1>2. ASSUME NEW a \in Admins, Refund(a) PROVE IInv'
  BY <1>2, RequestInv, ClawBackInv DEF Refund
<1>3. ASSUME NEW s \in Spends, Spend(s) PROVE IInv'
  BY <1>3, SpendInv
<1>4. CASE UNCHANGED vars
  BY <1>4 DEF vars, IInv, TypeOK, BalanceStaysPositive, Recorded, Earned,
              CreditedOnce, Refunding, ClawbackBacked
<1>5. QED BY <1>1, <1>2, <1>3, <1>4 DEF Next

\* The invariant holds in every reachable state.
LEMMA Invariant == Spec => []IInv
  BY InitInv, StepInv, PTL DEF Spec

\* Every variable keeps its type.
THEOREM TypeCorrect == Spec => []TypeOK
  BY Invariant, PTL DEF IInv

\* handlePaid credits an order once, exactly when the order says so.
THEOREM CreditsOnce == Spec => []CreditedOnce
  BY Invariant, PTL DEF IInv

\* Nobody has credits of an order whose money never arrived.
THEOREM CreditNeedsPayment == Spec => []NoCreditWithoutPayment
<1>1. IInv => NoCreditWithoutPayment
  BY DEF IInv, Earned, CreditedOnce, NoCreditWithoutPayment
<1>2. QED BY Invariant, <1>1, PTL

\* No notice of a payment can meet "order not found".
THEOREM NoticeFindsOrder == Spec => []PayableOnRecord
<1>1. IInv => PayableOnRecord
  BY DEF IInv, TypeOK, Recorded, PayableOnRecord
<1>2. QED BY Invariant, <1>1, PTL

\* Credits are taken back at most once, and only with the money returned.
THEOREM ClawsBackOnce == Spec => []ClawbackBacked
  BY Invariant, PTL DEF IInv

\* A refund never overdraws the balance, although it reads it without a lock.
THEOREM NeverOverdrawn == Spec => []BalanceStaysPositive
  BY Invariant, PTL DEF IInv

-----------------------------------------------------------------------------
(* Order and payment record *)

\* Between its two saves admin-user's handler has refunded the order.
Marking ==
    \A a \in Admins :
        /\ admin[a].pc \in {"mark", "markPayment"} => "admin-user" \in Endpoints
        /\ admin[a].pc = "markPayment" => order[admin[a].order] = "refunded"

MatchInv == Marking /\ PaymentMatchesOrder

\* Checkout, notices and sweeps write both rows, or fail the order alone.
LEMMA CheckoutMatches ==
    ASSUME IInv, MatchInv, NEW o \in Orders, Checkout(o)
    PROVE  MatchInv'
<1> USE DEF IInv, TypeOK, Recorded, Refunding, MatchInv, Marking, PaymentMatchesOrder
<1>1. CASE CreateAtGateway(o) BY <1>1 DEF CreateAtGateway
<1>2. CASE SaveOrder(o) BY <1>2 DEF SaveOrder
<1>3. CASE CreateFails(o) BY <1>3 DEF CreateFails
<1>4. CASE Pay(o) BY <1>4 DEF Pay
<1>5. CASE Sweep(o) BY <1>5 DEF Sweep
<1>6. CASE HandlePaid(o) BY <1>6 DEF HandlePaid
<1>7. QED BY <1>1, <1>2, <1>3, <1>4, <1>5, <1>6 DEF Checkout

\* A refund writes both rows in one transaction, or the order first.
LEMMA RefundMatches ==
    ASSUME IInv, MatchInv, NEW a \in Admins, Refund(a)
    PROVE  MatchInv'
<1> USE DEF IInv, TypeOK, Refunding, MatchInv, Marking, PaymentMatchesOrder, Idle
<1>1. ASSUME NEW o \in Orders, RequestRefund(a, o) PROVE MatchInv'
  BY <1>1 DEF RequestRefund
<1>2. ASSUME NEW o \in Orders, RequestMark(a, o) PROVE MatchInv'
  BY <1>2 DEF RequestMark
<1>3. CASE GatewayRefund(a) BY <1>3 DEF GatewayRefund
<1>4. CASE GatewayRefundFails(a) BY <1>4 DEF GatewayRefundFails
<1>5. CASE LockOrder(a) BY <1>5 DEF LockOrder
<1>6. CASE ClawBack(a) BY <1>6 DEF ClawBack, Unlock
<1>7. CASE Abandon(a) BY <1>7 DEF Abandon, Unlock
<1>8. CASE MarkOrder(a) BY <1>8 DEF MarkOrder
<1>9. CASE MarkPayment(a) BY <1>9 DEF MarkPayment
<1>10. QED
  BY <1>1, <1>2, <1>3, <1>4, <1>5, <1>6, <1>7, <1>8, <1>9 DEF Refund

\* Order and payment record agree, the sweep and the stages of admin-user's refund aside.
THEOREM RecordsAgree == Spec => []PaymentMatchesOrder
<1>1. Init => MatchInv
  BY DEF Init, Idle, MatchInv, Marking, PaymentMatchesOrder
<1>2. IInv /\ MatchInv /\ [Next]_vars => MatchInv'
  <2> SUFFICES ASSUME IInv, MatchInv, [Next]_vars PROVE MatchInv'
    OBVIOUS
  <2>1. ASSUME NEW s \in Spends, Spend(s) PROVE MatchInv'
    BY <2>1 DEF Spend, MatchInv, Marking, PaymentMatchesOrder
  <2>2. CASE UNCHANGED vars
    BY <2>2 DEF vars, MatchInv, Marking, PaymentMatchesOrder
  <2>3. QED BY <2>1, <2>2, CheckoutMatches, RefundMatches DEF Next
<1>3. QED BY <1>1, <1>2, Invariant, PTL DEF Spec, MatchInv

\* The sweep, a late notice or a second refund never undoes a paid or refunded status.
THEOREM PaidStays == Spec => PaidIsForGood
<1> DEFINE Stays == \A o \in Orders :
                      /\ order[o] = "paid" => order'[o] \in {"paid", "refunded"}
                      /\ order[o] = "refunded" => order'[o] = "refunded"
<1>1. ASSUME IInv, NEW o \in Orders, Checkout(o) PROVE Stays
  BY <1>1 DEF Checkout, CreateAtGateway, SaveOrder, CreateFails, Pay, Sweep, HandlePaid,
              IInv, TypeOK, Recorded
<1>2. ASSUME IInv, NEW a \in Admins, Refund(a) PROVE Stays
  <2> USE DEF IInv, TypeOK, Refunding
  <2>1. CASE MarkOrder(a) BY <1>2, <2>1 DEF MarkOrder
  <2>2. CASE ClawBack(a) BY <1>2, <2>2 DEF ClawBack
  <2>3. CASE ~MarkOrder(a) /\ ~ClawBack(a)
    BY <1>2, <2>3 DEF Refund, RequestRefund, RequestMark, GatewayRefund, GatewayRefundFails,
                      LockOrder, Abandon, MarkPayment
  <2>4. QED BY <2>1, <2>2, <2>3
<1>3. IInv /\ [Next]_vars => Stays
  BY <1>1, <1>2 DEF Next, Spend, vars
<1>4. QED BY <1>3, Invariant, PTL DEF Spec, PaidIsForGood
-----------------------------------------------------------------------------
(* The ledger *)

\* The ledger as orders, refunds and the user's spending move it: a claw-back takes what
\* is still there, at most the credits of the plan.
Books == INSTANCE CreditLedger WITH
            Holds <- {}, Amounts <- (1..Credits) \cup Spends, Costs <- {},
            reserved <- 0, status <- <<>>, size <- <<>>

\* A notice adds the plan's credits, a claw-back and the user's spending take some.
LEMMA StepOfBooks ==
    ASSUME IInv, [Next]_vars
    PROVE  [Books!LedgerNext]_(Books!ledgerVars)
<1> DEFINE Moves == \/ UNCHANGED available
                    \/ \E x \in (1..Credits) \cup Spends :
                          available' = available + x \/ (available >= x /\ available' = available - x)
<1>1. ASSUME NEW o \in Orders, Checkout(o) PROVE Moves
  <2>1. CASE HandlePaid(o)
    BY <2>1 DEF HandlePaid, Ledger!Credit
  <2>2. CASE ~HandlePaid(o)
    BY <1>1, <2>2 DEF Checkout, CreateAtGateway, SaveOrder, CreateFails, Pay, Sweep
  <2>3. QED BY <2>1, <2>2
<1>2. ASSUME NEW a \in Admins, Refund(a) PROVE Moves
  <2>1. CASE ClawBack(a)
    <3>1. admin[a].deduct \in 0..Credits /\ available \in Int
      BY <2>1 DEF ClawBack, IInv, Refunding, TypeOK
    <3>2. available >= admin[a].deduct /\ available' = available - admin[a].deduct
      BY <2>1 DEF ClawBack, Ledger!Debit
    <3>3. QED BY <3>1, <3>2
  <2>2. CASE ~ClawBack(a)
    BY <1>2, <2>2 DEF Refund, RequestRefund, RequestMark, GatewayRefund, GatewayRefundFails,
                      LockOrder, Abandon, MarkOrder, MarkPayment
  <2>3. QED BY <2>1, <2>2
<1>3. Moves
  BY <1>1, <1>2 DEF Next, Spend, Ledger!Debit, vars
<1>4. QED
  BY <1>3 DEF Books!LedgerNext, Books!Credit, Books!Debit, Books!ledgerVars

\* Checkout, notices, sweeps, refunds and spending, in any order, move a user's credits as
\* the ledger does: one amount at a time and never below zero (applyRechargeFromManager,
\* applyDeductFromManager).
THEOREM OrdersMoveLedger == Spec => Books!LedgerSpec
<1>1. Init => Books!LedgerInit
  BY DEF Init, Books!LedgerInit
<1>2. QED BY <1>1, StepOfBooks, Invariant, PTL DEF Spec, Books!LedgerSpec
=============================================================================
