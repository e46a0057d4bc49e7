----------------------- MODULE CreditsService_proofs -----------------------
(***************************************************************************)
(* Proofs about CreditsService, for any number of concurrent requests,     *)
(* holds, amounts and retries.                                             *)
(***************************************************************************)
EXTENDS CreditsService, HoldSums, TLAPS

USE DataAssumption, NoneAssumption, BoundsAssumption

-----------------------------------------------------------------------------
(* Typing *)

\* What the arguments of a request are, by its kind.
LEMMA RequestTypes ==
    ASSUME NEW r \in Requests
    PROVE  /\ r.amount \in Int
           /\ r.kind \in Closing => r.hold \in Holds /\ r.amount \in Nat
           /\ r.kind \notin Closing \cup {"adjust"} => r.amount \in Nat \ {0}
           /\ r.kind # "none"
  <1>1. CASE r \in [kind : {"recharge", "reward", "deduct", "freeze"} \cup Manager,
                    amount : Amounts, hold : {None}]
    <2>1. r.kind \in {"recharge", "reward", "deduct", "freeze", "callback", "clawback"}
      BY <1>1 DEF Manager
    <2>2. r.amount \in Nat \ {0}
      BY <1>1
    <2>3. QED
      BY <2>1, <2>2 DEF Closing
  <1>2. CASE r \in [kind : {"adjust"}, amount : Amounts \cup Debits, hold : {None}]
    <2>1. r.kind = "adjust"
      BY <1>2
    <2>2. r.amount \in Amounts \cup Debits
      BY <1>2
    <2>3. Amounts \subseteq Int /\ Debits \subseteq Int
      BY DEF Debits
    <2>4. r.amount \in Int
      BY <2>2, <2>3
    <2>5. r.kind \notin Closing
      BY <2>1 DEF Closing
    <2>6. QED
      BY <2>1, <2>4, <2>5
  <1>3. CASE r \in [kind : {"settle"}, amount : Costs, hold : Holds]
    <2>1. r.kind = "settle" /\ r.amount \in Costs /\ r.hold \in Holds
      BY <1>3
    <2>2. r.amount \in Nat
      BY <2>1
    <2>3. r.kind \in Closing
      BY <2>1 DEF Closing
    <2>4. QED
      BY <2>1, <2>2, <2>3
  <1>4. CASE r \in [kind : {"refund"}, amount : {0}, hold : Holds]
    BY <1>4 DEF Closing
  <1>5. QED
    BY <1>1, <1>2, <1>3, <1>4 DEF Requests

\* A new account row is well typed.
LEMMA NewAccountType == NewAccount \in AccountRecord
  BY DEF NewAccount, AccountRecord

\* The empty service is well typed.
LEMMA InitType == Init => TypeOK
  <1> SUFFICES ASSUME Init PROVE TypeOK
    OBVIOUS
  <1>1. account \in AccountRecord /\ read \in [Procs -> AccountRecord]
    BY NewAccountType DEF Init
  <1>2. hold \in [Holds -> HoldRecord]
    BY DEF Init, NoHold, HoldRecord
  <1>3. posted \in [RowKinds -> Int]
    BY DEF Init
  <1>4. 0 \in 0..(LockRetry - 1) /\ 0 \in 0..MaxOps
    OBVIOUS
  <1>5. QED
    BY <1>1, <1>2, <1>3, <1>4 DEF Init, TypeOK

\* A request that returns leaves well-typed locals behind.
LEMMA ReturnType ==
    ASSUME TypeOK, NEW p \in Procs, Return(p)
    PROVE  /\ pc' \in [Procs -> {"idle", "lock", "readHold", "select", "insert",
                                 "write", "release"}]
           /\ req' \in [Procs -> Requests \cup {NoReq}]
           /\ tries' \in [Procs -> 0..(LockRetry - 1)]
           /\ read' \in [Procs -> AccountRecord]
           /\ overrun' \subseteq Procs
  BY NewAccountType DEF TypeOK, Return, Goto

\* What a commit writes, but for the hold, is well typed.
LEMMA CommitType ==
    ASSUME TypeOK, NEW p \in Procs, NEW acct \in AccountRecord,
           NEW kind \in RowKinds, NEW amount \in Int,
           Commit(p, acct, kind, amount), hold' \in [Holds -> HoldRecord]
    PROVE  TypeOK'
  <1>1. account' \in AccountRecord
    BY DEF Commit, AccountRecord, TypeOK
  <1>2. posted' \in [RowKinds -> Int]
    BY DEF Commit, TypeOK
  <1>3. QED
    BY <1>1, <1>2 DEF Commit, TypeOK, Goto

\* A request past its guard has an operation, and the record it carries is typed.
LEMMA WriterType ==
    ASSUME TypeOK, NEW p \in Procs, req[p].kind # "none"
    PROVE  /\ req[p] \in Requests
           /\ read[p] \in AccountRecord
           /\ req[p].amount \in Int
           /\ req[p].kind \in Closing => req[p].hold \in Holds /\ req[p].amount \in Nat
           /\ req[p].kind \notin Closing \cup {"adjust"} => req[p].amount \in Nat \ {0}
  <1>1. NoReq.kind = "none"
    BY DEF NoReq
  <1>2. req[p] \in Requests
    BY <1>1 DEF TypeOK
  <1>3. QED
    BY <1>2, RequestTypes DEF TypeOK

\* What each operation makes of the account row.
LEMMA RowOps ==
    ASSUME NEW r \in AccountRecord, NEW a \in Int
    PROVE  /\ Recharged(r, a) \in AccountRecord
           /\ Recharged(r, a).balance = r.balance + a
           /\ Recharged(r, a).frozen = r.frozen
           /\ Recharged(r, a).recharged = r.recharged + a
           /\ Rewarded(r, a) \in AccountRecord
           /\ Rewarded(r, a).balance = r.balance + a
           /\ Rewarded(r, a).frozen = r.frozen
           /\ Rewarded(r, a).recharged = r.recharged
           /\ Deducted(r, a) \in AccountRecord
           /\ Deducted(r, a).balance = r.balance - a
           /\ Deducted(r, a).frozen = r.frozen
           /\ Deducted(r, a).recharged = r.recharged
           /\ Adjusted(r, a) \in AccountRecord
           /\ Adjusted(r, a).balance = r.balance + a
           /\ Adjusted(r, a).frozen = r.frozen
           /\ Adjusted(r, a).recharged = r.recharged
           /\ Frozen(r, a) \in AccountRecord
           /\ Frozen(r, a).balance = r.balance - a
           /\ Frozen(r, a).frozen = r.frozen + a
           /\ Frozen(r, a).recharged = r.recharged
           /\ Refunded(r, a) \in AccountRecord
           /\ Refunded(r, a).balance = r.balance + a
           /\ Refunded(r, a).frozen = r.frozen - a
           /\ Refunded(r, a).recharged = r.recharged
  <1>1. /\ r.balance \in Int /\ r.frozen \in Int /\ r.recharged \in Int
        /\ r.consumed \in Int /\ r.version \in Int
    BY DEF AccountRecord
  <1>2. /\ Recharged(r, a) \in AccountRecord
        /\ Recharged(r, a).balance = r.balance + a
        /\ Recharged(r, a).frozen = r.frozen
        /\ Recharged(r, a).recharged = r.recharged + a
    <2>1. r.balance + a \in Int /\ r.frozen \in Int /\ r.recharged + a \in Int
          /\ r.consumed \in Int
      BY <1>1
    <2>2. Recharged(r, a) \in AccountRecord
      BY <2>1 DEF AccountRecord, Recharged
    <2>3. QED
      BY <2>2 DEF AccountRecord, Recharged
  <1>3. /\ Rewarded(r, a) \in AccountRecord
        /\ Rewarded(r, a).balance = r.balance + a
        /\ Rewarded(r, a).frozen = r.frozen
        /\ Rewarded(r, a).recharged = r.recharged
    <2>1. r.balance + a \in Int /\ r.frozen \in Int /\ r.recharged \in Int
          /\ r.consumed \in Int
      BY <1>1
    <2>2. Rewarded(r, a) \in AccountRecord
      BY <2>1 DEF AccountRecord, Rewarded
    <2>3. QED
      BY <2>2 DEF AccountRecord, Rewarded
  <1>4. /\ Deducted(r, a) \in AccountRecord
        /\ Deducted(r, a).balance = r.balance - a
        /\ Deducted(r, a).frozen = r.frozen
        /\ Deducted(r, a).recharged = r.recharged
    <2>1. r.balance - a \in Int /\ r.frozen \in Int /\ r.recharged \in Int
          /\ r.consumed + a \in Int
      BY <1>1
    <2>2. Deducted(r, a) \in AccountRecord
      BY <2>1 DEF AccountRecord, Deducted
    <2>3. QED
      BY <2>2 DEF AccountRecord, Deducted
  <1>5. /\ Adjusted(r, a) \in AccountRecord
        /\ Adjusted(r, a).balance = r.balance + a
        /\ Adjusted(r, a).frozen = r.frozen
        /\ Adjusted(r, a).recharged = r.recharged
    <2>1. r.balance + a \in Int /\ r.frozen \in Int /\ r.recharged \in Int
          /\ (IF a < 0 THEN r.consumed - a ELSE r.consumed) \in Int
      BY <1>1
    <2>2. Adjusted(r, a) \in AccountRecord
      BY <2>1 DEF AccountRecord, Adjusted
    <2>3. QED
      BY <2>2 DEF AccountRecord, Adjusted
  <1>6. /\ Frozen(r, a) \in AccountRecord
        /\ Frozen(r, a).balance = r.balance - a
        /\ Frozen(r, a).frozen = r.frozen + a
        /\ Frozen(r, a).recharged = r.recharged
    <2>1. r.balance - a \in Int /\ r.frozen + a \in Int /\ r.recharged \in Int
          /\ r.consumed \in Int
      BY <1>1
    <2>2. Frozen(r, a) \in AccountRecord
      BY <2>1 DEF AccountRecord, Frozen
    <2>3. QED
      BY <2>2 DEF AccountRecord, Frozen
  <1>7. /\ Refunded(r, a) \in AccountRecord
        /\ Refunded(r, a).balance = r.balance + a
        /\ Refunded(r, a).frozen = r.frozen - a
        /\ Refunded(r, a).recharged = r.recharged
    <2>1. r.balance + a \in Int /\ r.frozen - a \in Int /\ r.recharged \in Int
          /\ r.consumed \in Int
      BY <1>1
    <2>2. Refunded(r, a) \in AccountRecord
      BY <2>1 DEF AccountRecord, Refunded
    <2>3. QED
      BY <2>2 DEF AccountRecord, Refunded
  <1>8. QED
    BY <1>2, <1>3, <1>4, <1>5, <1>6, <1>7

\* What a settlement makes of the account row.
LEMMA SettledRow ==
    ASSUME NEW r \in AccountRecord, NEW a \in Int, NEW c \in Int
    PROVE  /\ Settled(r, a, c) \in AccountRecord
           /\ Settled(r, a, c).balance = r.balance - (c - a)
           /\ Settled(r, a, c).frozen = r.frozen - a
           /\ Settled(r, a, c).recharged = r.recharged
  <1>1. /\ r.balance \in Int /\ r.frozen \in Int /\ r.recharged \in Int
        /\ r.consumed \in Int /\ r.version \in Int
    BY DEF AccountRecord
  <1>2. /\ Settled(r, a, c) \in AccountRecord
        /\ Settled(r, a, c).balance = r.balance - (c - a)
        /\ Settled(r, a, c).frozen = r.frozen - a
        /\ Settled(r, a, c).recharged = r.recharged
    <2>1. r.balance - (c - a) \in Int /\ r.frozen - a \in Int /\ r.recharged \in Int
          /\ r.consumed + c \in Int
      BY <1>1
    <2>2. Settled(r, a, c) \in AccountRecord
      BY <2>1 DEF AccountRecord, Settled
    <2>3. QED
      BY <2>2 DEF AccountRecord, Settled
  <1>3. QED
    BY <1>2

\* What the three operations on a freeze row make of it.
LEMMA HoldOps ==
    ASSUME NEW r \in HoldRecord, NEW a \in Nat
    PROVE  /\ [r EXCEPT !.amount = a] \in HoldRecord
           /\ [r EXCEPT !.settled = TRUE, !.settles = @ + 1] \in HoldRecord
           /\ [r EXCEPT !.settled = TRUE, !.refunds = @ + 1] \in HoldRecord
  <1>1. r.amount \in Nat /\ r.settled \in BOOLEAN /\ r.settles \in Nat /\ r.refunds \in Nat
    BY DEF HoldRecord
  <1>2. r.settles + 1 \in Nat /\ r.refunds + 1 \in Nat
    BY <1>1
  <1>3. QED
    BY <1>1, <1>2 DEF HoldRecord

\* A write that commits leaves every variable well typed.
LEMMA WriteType ==
    ASSUME TypeOK, NEW p \in Procs, Write(p)
    PROVE  TypeOK'
  <1>1. read[p] \in AccountRecord /\ hold \in [Holds -> HoldRecord]
    BY DEF TypeOK
  <1>2. CASE WriteRecharge(p)
    <2> DEFINE a == req[p].amount
    <2>1. a \in Int
      BY <1>2, WriterType DEF WriteRecharge
    <2>2. Recharged(read[p], a) \in AccountRecord
      BY <1>1, <2>1, RowOps
    <2>3. Commit(p, Recharged(read[p], a), "recharge", a) /\ hold' = hold
      BY <1>2 DEF WriteRecharge
    <2>4. QED
      BY <1>1, <2>1, <2>2, <2>3, CommitType DEF RowKinds
  <1>3. CASE WriteReward(p)
    <2> DEFINE a == req[p].amount
    <2>1. a \in Int
      BY <1>3, WriterType DEF WriteReward
    <2>2. Rewarded(read[p], a) \in AccountRecord
      BY <1>1, <2>1, RowOps
    <2>3. Commit(p, Rewarded(read[p], a), "reward", a) /\ hold' = hold
      BY <1>3 DEF WriteReward
    <2>4. QED
      BY <1>1, <2>1, <2>2, <2>3, CommitType DEF RowKinds
  <1>4. CASE WriteDeduct(p)
    <2> DEFINE a == req[p].amount
    <2>1. a \in Int
      BY <1>4, WriterType DEF WriteDeduct
    <2>2. Deducted(read[p], a) \in AccountRecord
      BY <1>1, <2>1, RowOps
    <2>3. Commit(p, Deducted(read[p], a), "recharge_refund", -a) /\ hold' = hold
      BY <1>4 DEF WriteDeduct
    <2>4. QED
      BY <1>1, <2>1, <2>2, <2>3, CommitType DEF RowKinds
  <1>5. CASE WriteAdjust(p)
    <2> DEFINE a == req[p].amount
    <2>1. a \in Int
      BY <1>5, WriterType DEF WriteAdjust
    <2>2. Adjusted(read[p], a) \in AccountRecord
      BY <1>1, <2>1, RowOps
    <2>3. Commit(p, Adjusted(read[p], a), "admin_adjust", a) /\ hold' = hold
      BY <1>5 DEF WriteAdjust
    <2>4. QED
      BY <1>1, <2>1, <2>2, <2>3, CommitType DEF RowKinds
  <1>6. CASE WriteFreeze(p)
    <2> DEFINE a == req[p].amount
    <2>1. a \in Nat /\ a \in Int
      BY <1>6, WriterType DEF WriteFreeze, Closing
    <2>2. Frozen(read[p], a) \in AccountRecord
      BY <1>1, <2>1, RowOps
    <2>3. Commit(p, Frozen(read[p], a), "freeze", a)
      BY <1>6 DEF WriteFreeze
    <2>4. hold' \in [Holds -> HoldRecord]
      <3>1. PICK h \in Holds : hold' = [hold EXCEPT ![h] = [hold[h] EXCEPT !.amount = a]]
        BY <1>6 DEF WriteFreeze
      <3>2. [hold[h] EXCEPT !.amount = a] \in HoldRecord
        BY <1>1, <2>1, HoldOps
      <3>3. QED
        BY <1>1, <3>1, <3>2
    <2>5. QED
      BY <2>1, <2>2, <2>3, <2>4, CommitType DEF RowKinds
  <1>7. CASE WriteSettle(p)
    <2> DEFINE c == req[p].amount
               a == hold[req[p].hold].amount
    <2>1. c \in Nat /\ c \in Int /\ req[p].hold \in Holds
      BY <1>7, WriterType DEF WriteSettle, Closing
    <2>2. a \in Nat /\ a \in Int
      BY <1>1, <2>1 DEF HoldRecord
    <2>3. Settled(read[p], a, c) \in AccountRecord
      BY <1>1, <2>1, <2>2, SettledRow
    <2>4. Commit(p, Settled(read[p], a, c), "settle", c)
      BY <1>7 DEF WriteSettle
    <2>5. hold' \in [Holds -> HoldRecord]
      <3> DEFINE h == req[p].hold
                 closed == [hold[h] EXCEPT !.settled = TRUE, !.settles = @ + 1]
      <3>1. hold' = [hold EXCEPT ![h] = closed]
        BY <1>7 DEF WriteSettle
      <3>2. closed \in HoldRecord
        BY <1>1, <2>1, HoldOps
      <3>3. QED
        BY <1>1, <2>1, <3>1, <3>2
    <2>6. QED
      BY <2>1, <2>3, <2>4, <2>5, CommitType DEF RowKinds
  <1>8. CASE WriteRefund(p)
    <2> DEFINE a == hold[req[p].hold].amount
    <2>1. req[p].hold \in Holds
      BY <1>8, WriterType DEF WriteRefund, Closing
    <2>2. a \in Nat /\ a \in Int
      BY <1>1, <2>1 DEF HoldRecord
    <2>3. Refunded(read[p], a) \in AccountRecord
      BY <1>1, <2>2, RowOps
    <2>4. Commit(p, Refunded(read[p], a), "refund", a)
      BY <1>8 DEF WriteRefund
    <2>5. hold' \in [Holds -> HoldRecord]
      <3> DEFINE h == req[p].hold
                 closed == [hold[h] EXCEPT !.settled = TRUE, !.refunds = @ + 1]
      <3>1. hold' = [hold EXCEPT ![h] = closed]
        BY <1>8 DEF WriteRefund
      <3>2. closed \in HoldRecord
        BY <1>1, <2>1, HoldOps
      <3>3. QED
        BY <1>1, <2>1, <3>1, <3>2
    <2>6. QED
      BY <2>2, <2>3, <2>4, <2>5, CommitType DEF RowKinds
  <1>9. QED
    BY <1>2, <1>3, <1>4, <1>5, <1>6, <1>7, <1>8 DEF Write

\* Every step keeps the types.
LEMMA StepType == TypeOK /\ [Next]_vars => TypeOK'
  <1> SUFFICES ASSUME TypeOK, [Next]_vars PROVE TypeOK'
    OBVIOUS
  <1>1. ASSUME NEW p \in Procs, Call(p) PROVE TypeOK'
    BY <1>1 DEF Call, TypeOK, Goto, dbVars
  <1>2. ASSUME NEW p \in Procs, AcquireLock(p) PROVE TypeOK'
    BY <1>2 DEF AcquireLock, TypeOK, Goto, dbVars
  <1>3. ASSUME NEW p \in Procs, LockBusy(p) PROVE TypeOK'
    <2>1. CASE tries[p] + 1 < LockRetry
      <3>1. tries' = [tries EXCEPT ![p] = tries[p] + 1]
        BY <1>3, <2>1 DEF LockBusy
      <3>2. tries[p] + 1 \in 0..(LockRetry - 1)
        BY <2>1 DEF TypeOK
      <3>3. tries' \in [Procs -> 0..(LockRetry - 1)]
        BY <3>1, <3>2 DEF TypeOK
      <3>4. UNCHANGED <<exists, account, hold, posted, lock, rowOwner, pc, req, read, overrun, ops>>
        BY <1>3, <2>1 DEF LockBusy, dbVars
      <3>5. QED
        BY <3>3, <3>4 DEF TypeOK
    <2>2. CASE ~(tries[p] + 1 < LockRetry)
      <3>1. Return(p) /\ UNCHANGED <<dbVars, lock, rowOwner, ops>>
        BY <1>3, <2>2 DEF LockBusy
      <3>2. QED
        BY <3>1, ReturnType DEF TypeOK, dbVars
    <2>3. QED
      BY <2>1, <2>2
  <1>4. ASSUME NEW p \in Procs, ReadHold(p) PROVE TypeOK'
    BY <1>4 DEF ReadHold, TypeOK, Goto, dbVars
  <1>5. ASSUME NEW p \in Procs, SelectAccount(p) \/ SelectNothing(p) PROVE TypeOK'
    BY <1>5 DEF SelectAccount, SelectNothing, TypeOK, Goto, dbVars
  <1>6. ASSUME NEW p \in Procs, InsertAccount(p) PROVE TypeOK'
    BY <1>6, NewAccountType DEF InsertAccount, TypeOK, Goto, dbVars
  <1>7. ASSUME NEW p \in Procs, Write(p) PROVE TypeOK'
    BY <1>7, WriteType
  <1>8. ASSUME NEW p \in Procs, Rollback(p) PROVE TypeOK'
    BY <1>8 DEF Rollback, TypeOK, Goto, dbVars
  <1>9. ASSUME NEW p \in Procs, ReleaseLock(p) \/ ReturnToCaller(p) PROVE TypeOK'
    BY <1>9, ReturnType DEF ReleaseLock, ReturnToCaller, TypeOK, Goto, dbVars
  <1>10. ASSUME NEW p \in Procs, Crash(p) PROVE TypeOK'
    BY <1>10, ReturnType DEF Crash, TypeOK, Goto, dbVars
  <1>11. CASE ExpireLock \/ CreateAccount \/ Rest \/ UNCHANGED vars
    BY <1>11 DEF ExpireLock, CreateAccount, Rest, vars, TypeOK, dbVars
  <1>12. QED
    BY <1>1, <1>2, <1>3, <1>4, <1>5, <1>6, <1>7, <1>8, <1>9, <1>10, <1>11 DEF Next, Step

\* Every reachable state of the service is well typed.
THEOREM TypeCorrect == Spec => []TypeOK
  <1>1. Init => TypeOK
    BY InitType
  <1>2. TypeOK /\ [Next]_vars => TypeOK'
    BY StepType
  <1>3. QED
    BY <1>1, <1>2, PTL DEF Spec
-----------------------------------------------------------------------------
(* The row lock *)

\* The row lock protects what was read; an account that is not there is empty.
RowInv == NoStaleRead /\ (~exists => account = NewAccount)

\* Every write commits, releases the row lock and leaves the requests alone.
LEMMA WriteFrame ==
    ASSUME NEW p \in Procs, Write(p)
    PROVE  /\ pc[p] = "write" /\ req[p].kind # "none"
           /\ exists' = TRUE /\ rowOwner' = None
           /\ pc' = [pc EXCEPT ![p] = "release"]
           /\ UNCHANGED <<lock, req, tries, read, overrun, ops>>
  BY DEF Write, WriteRecharge, WriteReward, WriteDeduct, WriteAdjust, WriteFreeze,
         WriteSettle, WriteRefund, Commit, Goto

\* Every step keeps the row lock's invariant.
LEMMA StepRow == TypeOK /\ RowInv /\ [Next]_vars => RowInv'
  <1> SUFFICES ASSUME TypeOK, RowInv, [Next]_vars PROVE RowInv'
    OBVIOUS
  <1>1. ASSUME NEW q \in Procs,
               Call(q) \/ AcquireLock(q) \/ LockBusy(q) \/ ReadHold(q)
               \/ SelectNothing(q) \/ ReleaseLock(q) \/ ReturnToCaller(q)
        PROVE RowInv'
    BY <1>1 DEF RowInv, NoStaleRead, TypeOK, Call, AcquireLock, LockBusy, ReadHold,
                SelectNothing, ReleaseLock, ReturnToCaller, Return, Goto, dbVars
  <1>2. ASSUME NEW q \in Procs, SelectAccount(q) PROVE RowInv'
    BY <1>2 DEF RowInv, NoStaleRead, TypeOK, SelectAccount, Goto, dbVars
  <1>3. ASSUME NEW q \in Procs, InsertAccount(q) PROVE RowInv'
    BY <1>3 DEF RowInv, NoStaleRead, TypeOK, InsertAccount, Goto, dbVars
  <1>4. ASSUME NEW q \in Procs, Write(q) PROVE RowInv'
    BY <1>4, WriteFrame DEF RowInv, NoStaleRead, TypeOK
  <1>5. ASSUME NEW q \in Procs, Rollback(q) \/ Crash(q) PROVE RowInv'
    BY <1>5 DEF RowInv, NoStaleRead, TypeOK, Rollback, Crash, Return, Goto, dbVars
  <1>6. CASE ExpireLock \/ CreateAccount \/ Rest \/ UNCHANGED vars
    BY <1>6 DEF RowInv, NoStaleRead, TypeOK, ExpireLock, CreateAccount, Rest, vars, dbVars
  <1>7. QED
    BY <1>1, <1>2, <1>3, <1>4, <1>5, <1>6 DEF Next, Step

\* The row lock's invariant holds in every reachable state.
THEOREM RowSafe == Spec => []RowInv
  <1>1. Init => RowInv
    BY DEF Init, RowInv, NoStaleRead
  <1>2. QED
    BY <1>1, StepRow, TypeCorrect, PTL DEF Spec

\* A request about to write has read the row as it is: no update is lost, with or
\* without the Redis lock.
THEOREM NoLostUpdate == Spec => []NoStaleRead
  <1>1. RowInv => NoStaleRead
    BY DEF RowInv
  <1>2. QED
    BY <1>1, RowSafe, PTL
-----------------------------------------------------------------------------
(* The account and its rows *)

\* A commit replaces the balances by those computed from the row as it is, and adds
\* one row to the transaction table.
LEMMA CommitEffect ==
    ASSUME TypeOK, NEW p \in Procs, NEW acct \in AccountRecord,
           NEW kind \in RowKinds, NEW amount \in Int, Commit(p, acct, kind, amount)
    PROVE  /\ account'.balance = acct.balance
           /\ account'.frozen = acct.frozen
           /\ account'.recharged = acct.recharged
           /\ posted' = [posted EXCEPT ![kind] = posted[kind] + amount]
  BY DEF Commit, AccountRecord, TypeOK

\* What an operation makes of the balances, the holds and the transaction rows:
\* it credits or debits, opens a hold, or closes one.
Credited(a, d) ==
    /\ account'.balance = account.balance + a
    /\ account'.frozen = account.frozen
    /\ account'.recharged = account.recharged + d
    /\ hold' = hold

Opened(p, h) ==
    /\ ~Written(h)
    /\ account.balance >= req[p].amount
    /\ account'.balance = account.balance - req[p].amount
    /\ account'.frozen = account.frozen + req[p].amount
    /\ account'.recharged = account.recharged
    /\ hold' = [hold EXCEPT ![h] = [hold[h] EXCEPT !.amount = req[p].amount]]

Closed(p, cost) ==
    LET h == req[p].hold
    IN  /\ h \in Holds
        /\ account'.balance = account.balance + hold[h].amount - cost
        /\ account'.frozen = account.frozen - hold[h].amount
        /\ account'.recharged = account.recharged

Row(kind, amount) == posted' = [posted EXCEPT ![kind] = posted[kind] + amount]

\* A committed recharge adds its amount to balance and to its rows.
LEMMA RechargeEffect ==
    ASSUME TypeOK, NoStaleRead, NEW p \in Procs, WriteRecharge(p)
    PROVE  /\ req[p].amount \in Nat \ {0}
           /\ Credited(req[p].amount, req[p].amount)
           /\ Row("recharge", req[p].amount)
  <1> DEFINE a == req[p].amount
             acct == Recharged(read[p], a)
  <1>1. a \in Nat \ {0} /\ a \in Int
    BY WriterType DEF WriteRecharge, Closing
  <1>2. read[p] = account /\ read[p] \in AccountRecord
    BY DEF NoStaleRead, WriteRecharge, TypeOK
  <1>3. /\ acct \in AccountRecord /\ acct.balance = account.balance + a
        /\ acct.frozen = account.frozen /\ acct.recharged = account.recharged + a
    BY <1>1, <1>2, RowOps
  <1>4. Commit(p, acct, "recharge", a) /\ hold' = hold
    BY DEF WriteRecharge
  <1>5. QED
    BY <1>1, <1>3, <1>4, CommitEffect DEF Credited, Row, RowKinds

\* A committed reward adds its amount to balance and to its rows.
LEMMA RewardEffect ==
    ASSUME TypeOK, NoStaleRead, NEW p \in Procs, WriteReward(p)
    PROVE  /\ req[p].amount \in Nat \ {0}
           /\ Credited(req[p].amount, 0)
           /\ Row("reward", req[p].amount)
  <1> DEFINE a == req[p].amount
             acct == Rewarded(read[p], a)
  <1>1. a \in Nat \ {0} /\ a \in Int
    BY WriterType DEF WriteReward, Closing
  <1>2. /\ read[p] = account /\ read[p] \in AccountRecord
        /\ account.balance \in Int /\ account.recharged \in Int
    BY DEF NoStaleRead, WriteReward, TypeOK, AccountRecord
  <1>3. /\ acct \in AccountRecord /\ acct.balance = account.balance + a
        /\ acct.frozen = account.frozen /\ acct.recharged = account.recharged
    BY <1>1, <1>2, RowOps
  <1>4. Commit(p, acct, "reward", a) /\ hold' = hold
    BY DEF WriteReward
  <1>5. QED
    BY <1>1, <1>2, <1>3, <1>4, CommitEffect DEF Credited, Row, RowKinds

\* A committed deduction takes its amount, which was there, from balance.
LEMMA DeductEffect ==
    ASSUME TypeOK, NoStaleRead, NEW p \in Procs, WriteDeduct(p)
    PROVE  /\ req[p].amount \in Nat \ {0}
           /\ account.balance >= req[p].amount
           /\ Credited(-req[p].amount, 0)
           /\ Row("recharge_refund", -req[p].amount)
  <1> DEFINE a == req[p].amount
             acct == Deducted(read[p], a)
  <1>1. a \in Nat \ {0} /\ a \in Int
    BY WriterType DEF WriteDeduct, Closing
  <1>2. /\ read[p] = account /\ read[p] \in AccountRecord /\ account.balance >= a
        /\ account.balance \in Int /\ account.recharged \in Int
    BY DEF NoStaleRead, WriteDeduct, TypeOK, AccountRecord
  <1>3. /\ acct \in AccountRecord /\ acct.balance = account.balance - a
        /\ acct.frozen = account.frozen /\ acct.recharged = account.recharged
    BY <1>1, <1>2, RowOps
  <1>4. Commit(p, acct, "recharge_refund", -a) /\ hold' = hold
    BY DEF WriteDeduct
  <1>5. QED
    BY <1>1, <1>2, <1>3, <1>4, CommitEffect DEF Credited, Row, RowKinds

\* A committed adjustment moves balance by its amount, not below zero.
LEMMA AdjustEffect ==
    ASSUME TypeOK, NoStaleRead, NEW p \in Procs, WriteAdjust(p)
    PROVE  /\ req[p].amount \in Int
           /\ account.balance + req[p].amount >= 0
           /\ Credited(req[p].amount, 0)
           /\ Row("admin_adjust", req[p].amount)
  <1> DEFINE a == req[p].amount
             acct == Adjusted(read[p], a)
  <1>1. a \in Int
    BY WriterType DEF WriteAdjust
  <1>2. /\ read[p] = account /\ read[p] \in AccountRecord /\ account.balance + a >= 0
        /\ account.balance \in Int /\ account.recharged \in Int
    BY DEF NoStaleRead, WriteAdjust, TypeOK, AccountRecord
  <1>3. /\ acct \in AccountRecord /\ acct.balance = account.balance + a
        /\ acct.frozen = account.frozen /\ acct.recharged = account.recharged
    BY <1>1, <1>2, RowOps
  <1>4. Commit(p, acct, "admin_adjust", a) /\ hold' = hold
    BY DEF WriteAdjust
  <1>5. QED
    BY <1>1, <1>2, <1>3, <1>4, CommitEffect DEF Credited, Row, RowKinds

\* A committed freeze moves its amount from balance to frozenBalance and opens
\* a hold.
LEMMA FreezeEffect ==
    ASSUME TypeOK, NoStaleRead, NEW p \in Procs, WriteFreeze(p)
    PROVE  /\ req[p].amount \in Nat \ {0}
           /\ \E h \in Holds : Opened(p, h)
           /\ Row("freeze", req[p].amount)
  <1> DEFINE a == req[p].amount
             acct == Frozen(read[p], a)
  <1>1. a \in Nat \ {0} /\ a \in Int
    BY WriterType DEF WriteFreeze, Closing
  <1>2. read[p] = account /\ read[p] \in AccountRecord /\ account.balance >= a
    BY DEF NoStaleRead, WriteFreeze, TypeOK
  <1>3. /\ acct \in AccountRecord /\ acct.balance = account.balance - a
        /\ acct.frozen = account.frozen + a /\ acct.recharged = account.recharged
    BY <1>1, <1>2, RowOps
  <1>4. /\ Commit(p, acct, "freeze", a)
        /\ \E h \in Holds :
             ~Written(h) /\ hold' = [hold EXCEPT ![h] = [hold[h] EXCEPT !.amount = a]]
    BY DEF WriteFreeze
  <1>5. /\ account'.balance = account.balance - a
        /\ account'.frozen = account.frozen + a
        /\ account'.recharged = account.recharged
        /\ Row("freeze", a)
    BY <1>1, <1>3, <1>4, CommitEffect DEF Row, RowKinds
  <1>6. QED
    BY <1>1, <1>2, <1>4, <1>5 DEF Opened

\* A committed settlement closes a hold and charges the actual cost.
LEMMA SettleEffect ==
    ASSUME TypeOK, NoStaleRead, NEW p \in Procs, WriteSettle(p)
    PROVE  /\ req[p].hold \in Holds /\ hold[req[p].hold] \in HoldRecord
           /\ req[p].amount \in Nat
           /\ req[p].amount > hold[req[p].hold].amount =>
                  account.balance >= req[p].amount - hold[req[p].hold].amount
           /\ Closed(p, req[p].amount)
           /\ Row("settle", req[p].amount)
  <1> DEFINE c == req[p].amount
             a == hold[req[p].hold].amount
             acct == Settled(read[p], a, c)
  <1>1. c \in Nat /\ c \in Int /\ req[p].hold \in Holds
    BY WriterType DEF WriteSettle, Closing
  <1>2. hold[req[p].hold] \in HoldRecord /\ a \in Nat /\ a \in Int
    BY <1>1 DEF TypeOK, HoldRecord
  <1>3. /\ read[p] = account /\ read[p] \in AccountRecord
        /\ c > a => account.balance >= c - a
    BY DEF NoStaleRead, WriteSettle, TypeOK
  <1>4. /\ acct \in AccountRecord /\ acct.balance = account.balance - (c - a)
        /\ acct.frozen = account.frozen - a /\ acct.recharged = account.recharged
    BY <1>1, <1>2, <1>3, SettledRow
  <1>5. acct.balance = account.balance + a - c
    BY <1>1, <1>2, <1>3, <1>4 DEF AccountRecord
  <1>6. Commit(p, acct, "settle", c)
    BY DEF WriteSettle
  <1>7. QED
    BY <1>1, <1>2, <1>3, <1>4, <1>5, <1>6, CommitEffect DEF Closed, Row, RowKinds

\* A committed refund closes a hold and gives its amount back.
LEMMA RefundEffect ==
    ASSUME TypeOK, NoStaleRead, NEW p \in Procs, WriteRefund(p)
    PROVE  /\ req[p].hold \in Holds /\ hold[req[p].hold] \in HoldRecord
           /\ Closed(p, 0)
           /\ Row("refund", hold[req[p].hold].amount)
  <1> DEFINE a == hold[req[p].hold].amount
             acct == Refunded(read[p], a)
  <1>1. req[p].hold \in Holds
    BY WriterType DEF WriteRefund, Closing
  <1>2. hold[req[p].hold] \in HoldRecord /\ a \in Nat /\ a \in Int
    BY <1>1 DEF TypeOK, HoldRecord
  <1>3. read[p] = account /\ read[p] \in AccountRecord
    BY DEF NoStaleRead, WriteRefund, TypeOK
  <1>4. /\ acct \in AccountRecord /\ acct.balance = account.balance + a
        /\ acct.frozen = account.frozen - a /\ acct.recharged = account.recharged
    BY <1>2, <1>3, RowOps
  <1>5. acct.balance = account.balance + a - 0
    BY <1>2, <1>3, <1>4 DEF AccountRecord
  <1>6. Commit(p, acct, "refund", a)
    BY DEF WriteRefund
  <1>7. QED
    BY <1>1, <1>2, <1>4, <1>5, <1>6, CommitEffect DEF Closed, Row, RowKinds

\* The steps that write nothing leave the tables alone, but for the empty account row
\* a read-only request creates.
LEMMA OtherSteps ==
    ASSUME [Next]_vars, \A p \in Procs : ~Write(p)
    PROVE  UNCHANGED <<account, hold, posted>>
  <1>1. ASSUME NEW p \in Procs, Call(p) \/ Step(p) \/ Crash(p)
        PROVE UNCHANGED <<account, hold, posted>>
    BY <1>1 DEF Step, Call, AcquireLock, LockBusy, ReadHold, SelectAccount,
                SelectNothing, InsertAccount, Rollback, ReleaseLock, ReturnToCaller,
                Crash, dbVars
  <1>2. CASE ExpireLock \/ CreateAccount \/ Rest \/ UNCHANGED vars
    BY <1>2 DEF ExpireLock, CreateAccount, Rest, vars, dbVars
  <1>3. QED
    BY <1>1, <1>2 DEF Next

\* No step overdraws the account.
LEMMA StepSolvent == TypeOK /\ NoStaleRead /\ Solvent /\ [Next]_vars => Solvent'
  <1> SUFFICES ASSUME TypeOK, NoStaleRead, Solvent, [Next]_vars PROVE Solvent'
    OBVIOUS
  <1>0. account.balance \in Int /\ account.balance >= 0
    BY DEF TypeOK, AccountRecord, Solvent
  <1>1. ASSUME NEW p \in Procs, WriteRecharge(p) PROVE Solvent'
    BY <1>0, <1>1, RechargeEffect DEF Credited, Solvent
  <1>2. ASSUME NEW p \in Procs, WriteReward(p) PROVE Solvent'
    BY <1>0, <1>2, RewardEffect DEF Credited, Solvent
  <1>3. ASSUME NEW p \in Procs, WriteDeduct(p) PROVE Solvent'
    BY <1>0, <1>3, DeductEffect DEF Credited, Solvent
  <1>4. ASSUME NEW p \in Procs, WriteAdjust(p) PROVE Solvent'
    BY <1>0, <1>4, AdjustEffect DEF Credited, Solvent
  <1>5. ASSUME NEW p \in Procs, WriteFreeze(p) PROVE Solvent'
    BY <1>0, <1>5, FreezeEffect DEF Opened, Solvent
  <1>6. ASSUME NEW p \in Procs, WriteSettle(p) PROVE Solvent'
    <2> DEFINE a == hold[req[p].hold].amount
               c == req[p].amount
    <2>1. a \in Nat /\ c \in Nat /\ (c > a => account.balance >= c - a)
      BY <1>6, SettleEffect DEF HoldRecord
    <2>2. account'.balance = account.balance + a - c
      BY <1>6, SettleEffect DEF Closed
    <2>3. QED
      BY <1>0, <2>1, <2>2 DEF Solvent
  <1>7. ASSUME NEW p \in Procs, WriteRefund(p) PROVE Solvent'
    <2> DEFINE a == hold[req[p].hold].amount
    <2>1. a \in Nat
      BY <1>7, RefundEffect DEF HoldRecord
    <2>2. account'.balance = account.balance + a - 0
      BY <1>7, RefundEffect DEF Closed
    <2>3. QED
      BY <1>0, <2>1, <2>2 DEF Solvent
  <1>8. CASE \A p \in Procs : ~Write(p)
    BY <1>8, OtherSteps DEF Solvent
  <1>9. QED
    BY <1>1, <1>2, <1>3, <1>4, <1>5, <1>6, <1>7, <1>8 DEF Write

\* No operation overdraws the account, whatever the Redis lock does.
THEOREM NeverOverdrawn == Spec => []Solvent
  <1>1. Init => Solvent
    BY DEF Init, Solvent, NewAccount
  <1>2. QED
    BY <1>1, StepSolvent, TypeCorrect, NoLostUpdate, PTL DEF Spec

\* Every step keeps the account and its transaction rows in agreement.
LEMMA StepAccounted == TypeOK /\ NoStaleRead /\ Accounted /\ [Next]_vars => Accounted'
  <1> SUFFICES ASSUME TypeOK, NoStaleRead, Accounted, [Next]_vars PROVE Accounted'
    OBVIOUS
  <1>0. /\ account.balance \in Int /\ account.frozen \in Int /\ account.recharged \in Int
        /\ posted \in [RowKinds -> Int]
    BY DEF TypeOK, AccountRecord
  <1>1. ASSUME NEW p \in Procs, WriteRecharge(p) PROVE Accounted'
    BY <1>0, <1>1, RechargeEffect DEF Credited, Row, RowKinds, Accounted
  <1>2. ASSUME NEW p \in Procs, WriteReward(p) PROVE Accounted'
    BY <1>0, <1>2, RewardEffect DEF Credited, Row, RowKinds, Accounted
  <1>3. ASSUME NEW p \in Procs, WriteDeduct(p) PROVE Accounted'
    BY <1>0, <1>3, DeductEffect DEF Credited, Row, RowKinds, Accounted
  <1>4. ASSUME NEW p \in Procs, WriteAdjust(p) PROVE Accounted'
    BY <1>0, <1>4, AdjustEffect DEF Credited, Row, RowKinds, Accounted
  <1>5. ASSUME NEW p \in Procs, WriteFreeze(p) PROVE Accounted'
    BY <1>0, <1>5, FreezeEffect DEF Opened, Row, RowKinds, Accounted
  <1>6. ASSUME NEW p \in Procs, WriteSettle(p) PROVE Accounted'
    <2> DEFINE a == hold[req[p].hold].amount
               c == req[p].amount
    <2>1. a \in Nat /\ c \in Nat
      BY <1>6, SettleEffect DEF HoldRecord
    <2>2. /\ account'.balance = account.balance + a - c
          /\ account'.frozen = account.frozen - a
          /\ account'.recharged = account.recharged
      BY <1>6, SettleEffect DEF Closed
    <2>3. posted' = [posted EXCEPT !["settle"] = posted["settle"] + c]
      BY <1>6, SettleEffect DEF Row
    <2>4. QED
      BY <1>0, <2>1, <2>2, <2>3 DEF Accounted, RowKinds
  <1>7. ASSUME NEW p \in Procs, WriteRefund(p) PROVE Accounted'
    <2> DEFINE a == hold[req[p].hold].amount
    <2>1. a \in Nat
      BY <1>7, RefundEffect DEF HoldRecord
    <2>2. /\ account'.balance = account.balance + a - 0
          /\ account'.frozen = account.frozen - a
          /\ account'.recharged = account.recharged
      BY <1>7, RefundEffect DEF Closed
    <2>3. posted' = [posted EXCEPT !["refund"] = posted["refund"] + a]
      BY <1>7, RefundEffect DEF Row
    <2>4. QED
      BY <1>0, <2>1, <2>2, <2>3 DEF Accounted, RowKinds
  <1>8. CASE \A p \in Procs : ~Write(p)
    BY <1>8, OtherSteps DEF Accounted
  <1>9. QED
    BY <1>1, <1>2, <1>3, <1>4, <1>5, <1>6, <1>7, <1>8 DEF Write

\* The account agrees with its transaction rows, whatever the Redis lock does: what a
\* double settlement or refund takes from frozenBalance it gives back in balance.
THEOREM BooksBalance == Spec => []Accounted
  <1>1. Init => Accounted
    BY DEF Init, Accounted, NewAccount, RowKinds
  <1>2. QED
    BY <1>1, StepAccounted, TypeCorrect, NoLostUpdate, PTL DEF Spec
-----------------------------------------------------------------------------
(* The Redis lock *)

\* A request that works inside the lock and has not overrun its TTL still holds it.
OwnInv == \A p \in Procs : Inside(p) /\ p \notin overrun => lock = p

\* Every step keeps the lock with the request that has time left.
LEMMA StepOwn == TypeOK /\ OwnInv /\ [Next]_vars => OwnInv'
  <1> SUFFICES ASSUME TypeOK, OwnInv, [Next]_vars PROVE OwnInv'
    OBVIOUS
  <1>1. ASSUME NEW q \in Procs, Call(q) PROVE OwnInv'
    BY <1>1 DEF OwnInv, Inside, TypeOK, Call, Goto
  <1>2. ASSUME NEW q \in Procs, AcquireLock(q) PROVE OwnInv'
    BY <1>2 DEF OwnInv, Inside, TypeOK, AcquireLock, Goto
  <1>3. ASSUME NEW q \in Procs,
               ReadHold(q) \/ SelectAccount(q) \/ SelectNothing(q) \/ InsertAccount(q)
               \/ Rollback(q)
        PROVE OwnInv'
    BY <1>3 DEF OwnInv, Inside, TypeOK, ReadHold, SelectAccount, SelectNothing,
                InsertAccount, Rollback, Goto
  <1>4. ASSUME NEW q \in Procs, Write(q) PROVE OwnInv'
    BY <1>4, WriteFrame DEF OwnInv, Inside, TypeOK
  <1>5. ASSUME NEW q \in Procs,
               LockBusy(q) \/ ReleaseLock(q) \/ ReturnToCaller(q) \/ Crash(q)
        PROVE OwnInv'
    BY <1>5 DEF OwnInv, Inside, TypeOK, LockBusy, ReleaseLock, ReturnToCaller, Crash,
                Return, Goto
  <1>6. CASE ExpireLock
    <2>1. \A p \in Procs : Inside(p)' <=> Inside(p)
      BY <1>6 DEF ExpireLock, Inside
    <2>2. \A p \in Procs : Inside(p) => p \in overrun'
      BY <1>6 DEF OwnInv, ExpireLock
    <2>3. QED
      BY <2>1, <2>2 DEF OwnInv
  <1>7. CASE CreateAccount \/ Rest \/ UNCHANGED vars
    BY <1>7 DEF OwnInv, Inside, CreateAccount, Rest, vars
  <1>8. QED
    BY <1>1, <1>2, <1>3, <1>4, <1>5, <1>6, <1>7 DEF Next, Step

\* The request that works inside the lock with time left holds it, always.
THEOREM OwnSafe == Spec => []OwnInv
  <1>1. Init => OwnInv
    BY DEF Init, OwnInv, Inside
  <1>2. QED
    BY <1>1, StepOwn, TypeCorrect, PTL DEF Spec

\* Locks may run out under working holders, any number of times and in any order: two
\* operations overlap only if the lock of one of the two did.
THEOREM OverlapsOnlyAfterOverrun == Spec => []OverlapNeedsOverrun
  <1>1. OwnInv => OverlapNeedsOverrun
    BY DEF OwnInv, OverlapNeedsOverrun
  <1>2. QED
    BY <1>1, OwnSafe, PTL

\* A request between setNx and releaseLock holds the lock, if no lock expires under it.
LockInv == \A p \in Procs : Inside(p) => lock = p

THEOREM LockSafe ==
    ASSUME ~MayExpire
    PROVE  Spec => []LockInv
  <1> DEFINE InTime == overrun = {}
  <1>1. Init => InTime
    BY DEF Init
  <1>2. InTime /\ [Next]_vars => InTime'
    <2> SUFFICES ASSUME InTime, [Next]_vars PROVE InTime'
      OBVIOUS
    <2>1. ASSUME NEW p \in Procs, Call(p) \/ Step(p) \/ Crash(p) PROVE InTime'
      <3>1. CASE Write(p)
        BY <3>1, WriteFrame
      <3>2. CASE ~Write(p)
        BY <2>1, <3>2 DEF Step, Call, AcquireLock, LockBusy, ReadHold, SelectAccount,
                          SelectNothing, InsertAccount, Rollback, ReleaseLock,
                          ReturnToCaller, Crash, Return
      <3>3. QED
        BY <3>1, <3>2
    <2>2. CASE ExpireLock \/ CreateAccount \/ Rest \/ UNCHANGED vars
      BY <2>2 DEF ExpireLock, CreateAccount, Rest, vars
    <2>3. QED
      BY <2>1, <2>2 DEF Next
  <1>3. InTime /\ OwnInv => LockInv
    BY DEF OwnInv, LockInv
  <1> HIDE DEF InTime
  <1>4. QED
    BY <1>1, <1>2, <1>3, OwnSafe, PTL DEF Spec

\* If no lock runs out under a working holder, the operations that take it never
\* overlap.
THEOREM MutualExclusion ==
    ASSUME ~MayExpire
    PROVE  Spec => []LockExclusive
  <1>1. LockInv => LockExclusive
    BY DEF LockInv, LockExclusive
  <1>2. Spec => []LockInv
    BY LockSafe
  <1>3. QED
    BY <1>1, <1>2, PTL

-----------------------------------------------------------------------------
(* Holds are closed once *)

\* A settlement or refund past its read of the freeze row is about an open hold.
PendingInv ==
    \A p \in Procs :
        /\ pc[p] \in {"select", "insert", "write"}
        /\ req[p].kind \in Closing
        => Written(req[p].hold) /\ ~hold[req[p].hold].settled

HoldInv == ClosedOnce /\ \A h \in Holds : hold[h].settled => Written(h)

\* Only one request closes holds at a time.
LEMMA CloserAlone ==
    ASSUME TypeOK, LockInv, NEW p \in Procs, NEW q \in Procs,
           pc[p] \in {"select", "insert", "write"}, req[p].kind \in Closing,
           pc[q] \in {"select", "insert", "write"}, req[q].kind \in Closing
    PROVE  p = q
  BY DEF LockInv, Inside, Closing, Manager

\* What marking one hold leaves and changes.
LEMMA CloseRow ==
    ASSUME NEW f \in [Holds -> HoldRecord], NEW h \in Holds
    PROVE  /\ LET n == [f EXCEPT ![h].settled = TRUE, ![h].settles = @ + 1]
              IN  /\ \A g \in Holds : g # h => n[g] = f[g]
                  /\ n[h].settled = TRUE /\ n[h].amount = f[h].amount
                  /\ n[h].settles = f[h].settles + 1 /\ n[h].refunds = f[h].refunds
           /\ LET n == [f EXCEPT ![h].settled = TRUE, ![h].refunds = @ + 1]
              IN  /\ \A g \in Holds : g # h => n[g] = f[g]
                  /\ n[h].settled = TRUE /\ n[h].amount = f[h].amount
                  /\ n[h].refunds = f[h].refunds + 1 /\ n[h].settles = f[h].settles
  BY DEF HoldRecord

\* What a close does to the holds.
LEMMA CloseHold ==
    ASSUME TypeOK, NEW p \in Procs, WriteSettle(p) \/ WriteRefund(p)
    PROVE  LET h == req[p].hold
           IN  /\ pc[p] = "write" /\ req[p].kind \in Closing /\ h \in Holds
               /\ hold' \in [Holds -> HoldRecord]
               /\ \A g \in Holds : g # h => hold'[g] = hold[g]
               /\ hold'[h].settled = TRUE
               /\ hold'[h].amount = hold[h].amount
               /\ \/ WriteSettle(p) /\ hold'[h].settles = hold[h].settles + 1
                                    /\ hold'[h].refunds = hold[h].refunds
                  \/ WriteRefund(p) /\ hold'[h].refunds = hold[h].refunds + 1
                                    /\ hold'[h].settles = hold[h].settles
  <1> DEFINE h == req[p].hold
  <1>1. pc[p] = "write" /\ req[p].kind \in Closing
    BY DEF WriteSettle, WriteRefund, Closing
  <1>2. h \in Holds
    BY <1>1, WriterType DEF Closing
  <1>3. hold' \in [Holds -> HoldRecord]
    BY WriteType DEF TypeOK, Write
  <1>4. hold \in [Holds -> HoldRecord]
    BY DEF TypeOK
  <1>5. CASE WriteSettle(p)
    <2>1. hold' = [hold EXCEPT ![h].settled = TRUE, ![h].settles = @ + 1]
      BY <1>5 DEF WriteSettle
    <2>2. QED
      BY <1>1, <1>2, <1>3, <1>4, <1>5, <2>1, CloseRow
  <1>6. CASE WriteRefund(p)
    <2>1. hold' = [hold EXCEPT ![h].settled = TRUE, ![h].refunds = @ + 1]
      BY <1>6 DEF WriteRefund
    <2>2. QED
      BY <1>1, <1>2, <1>3, <1>4, <1>6, <2>1, CloseRow
  <1>7. QED
    BY <1>1, <1>5, <1>6

\* Every step keeps the holds' invariant, if no lock expires.
LEMMA StepHold ==
    TypeOK /\ NoStaleRead /\ LockInv /\ PendingInv /\ HoldInv /\ [Next]_vars
        => PendingInv' /\ HoldInv'
  <1> SUFFICES ASSUME TypeOK, NoStaleRead, LockInv, PendingInv, HoldInv, [Next]_vars
               PROVE  PendingInv' /\ HoldInv'
    OBVIOUS
  <1>0. hold \in [Holds -> HoldRecord]
    BY DEF TypeOK
  <1>1. ASSUME NEW q \in Procs, WriteSettle(q) \/ WriteRefund(q)
        PROVE  PendingInv' /\ HoldInv'
    <2> DEFINE h == req[q].hold
    <2>1. h \in Holds /\ Written(h) /\ ~hold[h].settled
      BY <1>1, CloseHold DEF PendingInv
    <2>2. hold[h].settles + hold[h].refunds = 0
      BY <2>1 DEF HoldInv, ClosedOnce
    <2>3. /\ \A g \in Holds : g # h => hold'[g] = hold[g]
          /\ hold'[h].settled = TRUE
          /\ hold'[h].amount = hold[h].amount
          /\ \/ /\ hold'[h].settles = hold[h].settles + 1
                /\ hold'[h].refunds = hold[h].refunds
             \/ /\ hold'[h].refunds = hold[h].refunds + 1
                /\ hold'[h].settles = hold[h].settles
      BY <1>1, CloseHold
    <2>4. HoldInv'
      <3>1. hold[h].settles \in Nat /\ hold[h].refunds \in Nat
        BY <1>0, <2>1 DEF HoldRecord
      <3>2. hold'[h].settles + hold'[h].refunds = 1
        <4>1. hold[h].settles = 0 /\ hold[h].refunds = 0
          BY <2>2, <3>1
        <4>2. QED
          BY <2>3, <4>1
      <3>3. ASSUME NEW g \in Holds
            PROVE  /\ hold'[g].settles + hold'[g].refunds =
                          IF hold'[g].settled THEN 1 ELSE 0
                   /\ hold'[g].settled => hold'[g].amount > 0
        <4>1. CASE g = h
          <5>1. hold'[h].settled
            BY <2>3
          <5>2. hold'[h].amount > 0
            BY <2>1, <2>3 DEF Written
          <5>3. (IF hold'[h].settled THEN 1 ELSE 0) = 1
            BY <5>1
          <5>4. QED
            BY <3>2, <4>1, <5>2, <5>3
        <4>2. CASE g # h
          BY <2>3, <4>2 DEF HoldInv, ClosedOnce, Written
        <4>3. QED
          BY <4>1, <4>2
      <3>4. QED
        BY <3>3 DEF HoldInv, ClosedOnce, Written
    <2>5. Write(q)
      BY <1>1 DEF Write
    <2>6. PendingInv'
      <3> SUFFICES ASSUME NEW p \in Procs, pc'[p] \in {"select", "insert", "write"},
                          req'[p].kind \in Closing
                   PROVE  (Written(req[p].hold) /\ ~hold[req[p].hold].settled)'
        BY DEF PendingInv
      <3>1. p # q /\ pc'[p] = pc[p] /\ req'[p] = req[p]
        BY <2>5, WriteFrame DEF TypeOK
      <3>2. p = q
        BY <1>1, <3>1, CloseHold, CloserAlone
      <3>3. QED
        BY <3>1, <3>2
    <2>7. QED
      BY <2>4, <2>6
  <1>2. ASSUME NEW q \in Procs, WriteFreeze(q) PROVE PendingInv' /\ HoldInv'
    <2>1. PICK h \in Holds : Opened(q, h)
      BY <1>2, FreezeEffect
    <2>2. req[q].amount \in Nat \ {0}
      BY <1>2, FreezeEffect
    <2>3. /\ \A g \in Holds : g # h => hold'[g] = hold[g]
          /\ hold'[h].amount = req[q].amount
          /\ hold'[h].settled = hold[h].settled
          /\ hold'[h].settles = hold[h].settles
          /\ hold'[h].refunds = hold[h].refunds
      BY <1>0, <2>1 DEF Opened, HoldRecord
    <2>4. HoldInv'
      BY <2>2, <2>3 DEF HoldInv, ClosedOnce, Written
    <2>5. /\ Write(q)
          /\ pc' = [pc EXCEPT ![q] = "release"] /\ req' = req
      BY <1>2, WriteFrame DEF Write
    <2>6. PendingInv'
      <3> SUFFICES ASSUME NEW p \in Procs, pc'[p] \in {"select", "insert", "write"},
                          req'[p].kind \in Closing
                   PROVE  (Written(req[p].hold) /\ ~hold[req[p].hold].settled)'
        BY DEF PendingInv
      <3>1. pc[p] \in {"select", "insert", "write"} /\ req'[p] = req[p]
        BY <2>5 DEF TypeOK
      <3>2. req[p].hold \in Holds
        BY <3>1, WriterType DEF Closing
      <3>3. Written(req[p].hold) /\ ~hold[req[p].hold].settled
        BY <3>1 DEF PendingInv
      <3>4. QED
        BY <2>2, <2>3, <3>1, <3>2, <3>3 DEF Written
    <2>7. QED
      BY <2>4, <2>6
  <1>3. ASSUME NEW q \in Procs,
               WriteRecharge(q) \/ WriteReward(q) \/ WriteDeduct(q) \/ WriteAdjust(q)
        PROVE  PendingInv' /\ HoldInv'
    <2>1. hold' = hold
      BY <1>3 DEF WriteRecharge, WriteReward, WriteDeduct, WriteAdjust
    <2>2. pc' = [pc EXCEPT ![q] = "release"] /\ req' = req
      BY <1>3, WriteFrame DEF Write
    <2>3. QED
      BY <2>1, <2>2 DEF PendingInv, HoldInv, ClosedOnce, Written, TypeOK
  <1>4. ASSUME NEW q \in Procs,
               Call(q) \/ Step(q) \/ Crash(q), ~Write(q)
        PROVE  PendingInv' /\ HoldInv'
    <2>1. hold' = hold
      BY <1>4 DEF Step, Call, AcquireLock, LockBusy, ReadHold, SelectAccount,
                SelectNothing, InsertAccount, Rollback, ReleaseLock, ReturnToCaller,
                Crash, dbVars
    <2>2. HoldInv'
      BY <2>1 DEF HoldInv, ClosedOnce, Written
    <2>3. PendingInv'
      <3> SUFFICES ASSUME NEW p \in Procs, pc'[p] \in {"select", "insert", "write"},
                          req'[p].kind \in Closing
                   PROVE  (Written(req[p].hold) /\ ~hold[req[p].hold].settled)'
        BY DEF PendingInv
      <3>1. CASE p = q /\ ReadHold(q)
        BY <2>1, <3>1 DEF ReadHold, Goto, TypeOK, Written
      <3>2. CASE ~(p = q /\ ReadHold(q))
        <4>1. pc[p] \in {"select", "insert", "write"} /\ req'[p] = req[p]
          <5>1. CASE Call(q)
            BY <5>1 DEF TypeOK, Call, Goto, Closing, Manager
          <5>2. CASE AcquireLock(q)
            BY <5>2 DEF TypeOK, AcquireLock, Goto
          <5>3. CASE ReadHold(q)
            BY <3>2, <5>3 DEF TypeOK, ReadHold, Goto
          <5>4. CASE \/ SelectAccount(q) \/ SelectNothing(q) \/ InsertAccount(q)
                     \/ Rollback(q)
            BY <5>4 DEF TypeOK, SelectAccount, SelectNothing, InsertAccount, Rollback,
                        Goto
          <5>5. CASE LockBusy(q) \/ ReleaseLock(q) \/ ReturnToCaller(q) \/ Crash(q)
            BY <5>5 DEF TypeOK, LockBusy, ReleaseLock, ReturnToCaller, Crash, Return,
                        Goto
          <5>6. QED
            BY <1>4, <5>1, <5>2, <5>3, <5>4, <5>5 DEF Step
        <4>2. QED
          BY <2>1, <4>1 DEF PendingInv, Written
      <3>3. QED
        BY <3>1, <3>2
    <2>4. QED
      BY <2>2, <2>3
  <1>5. CASE ExpireLock \/ CreateAccount \/ Rest \/ UNCHANGED vars
    BY <1>5 DEF PendingInv, HoldInv, ClosedOnce, Written, ExpireLock, CreateAccount,
                Rest, vars, dbVars
  <1>6. QED
    BY <1>1, <1>2, <1>3, <1>4, <1>5 DEF Next, Step, Write

\* The holds' invariant holds in every reachable state, if no lock expires.
THEOREM HoldSafe ==
    ASSUME ~MayExpire
    PROVE  Spec => [](PendingInv /\ HoldInv)
  <1>1. Init => PendingInv /\ HoldInv
    BY DEF Init, PendingInv, HoldInv, ClosedOnce, NoHold
  <1>2. Spec => []LockInv
    BY LockSafe
  <1>3. QED
    BY <1>1, <1>2, StepHold, TypeCorrect, NoLostUpdate, PTL DEF Spec

\* If no lock runs out under a working holder, every hold is closed at most once, by
\* one settlement or one refund, and marked settled exactly then.
THEOREM ClosedAtMostOnce ==
    ASSUME ~MayExpire
    PROVE  Spec => []ClosedOnce
  <1>1. HoldInv => ClosedOnce
    BY DEF HoldInv
  <1>2. Spec => [](PendingInv /\ HoldInv)
    BY HoldSafe
  <1>3. QED
    BY <1>1, <1>2, PTL
-----------------------------------------------------------------------------
(* The frozen balance *)

\* What is frozen for each hold, by the freeze rows f.
FrozenFor(f) == [h \in Holds |-> IF f[h].settled THEN 0 ELSE f[h].amount]

\* It is a number of credits.
LEMMA FrozenForType ==
    ASSUME NEW f \in [Holds -> HoldRecord]
    PROVE  FrozenFor(f) \in [Holds -> Int] /\ FrozenFor(f) \in [Holds -> Nat]
  BY DEF FrozenFor, HoldRecord

\* The sum FrozenBacked takes is the sum of these.
LEMMA FrozenIsTotal ==
    ASSUME IsFiniteSet(Holds), NEW f \in [Holds -> HoldRecord]
    PROVE  MapThenSumSet(LAMBDA h : IF f[h].settled THEN 0 ELSE f[h].amount, Holds)
               = Total(Holds, FrozenFor(f))
  <1>1. FrozenFor(f) \in [Holds -> Int]
    BY FrozenForType
  <1>2. PICK F \in [SUBSET Holds -> Int] :
            PartialSums(F, Holds, FrozenFor(f)) /\ Total(Holds, FrozenFor(f)) = F[Holds]
    BY <1>1, TotalIs
  <1> DEFINE Rec(g) == g = [s \in SUBSET Holds |->
                       IF s = {} THEN 0
                       ELSE (IF f[Pick(s)].settled THEN 0 ELSE f[Pick(s)].amount)
                            + g[s \ {Pick(s)}]]
             iter == CHOOSE g : Rec(g)
  <1>3. \A s \in SUBSET Holds : s # {} => FrozenFor(f)[Pick(s)] =
             IF f[Pick(s)].settled THEN 0 ELSE f[Pick(s)].amount
    BY PickIn DEF FrozenFor
  <1>4. ASSUME NEW g PROVE Rec(g) <=> PartialSums(g, Holds, FrozenFor(f))
    BY <1>3 DEF PartialSums
  <1>5. Rec(iter)
    <2>1. Rec(F)
      BY <1>2, <1>4
    <2> HIDE DEF Rec
    <2>2. QED
      BY <2>1
  <1>6. iter = F
    <2>1. PartialSums(iter, Holds, FrozenFor(f))
      BY <1>4, <1>5
    <2> HIDE DEF iter, Rec
    <2>2. QED
      BY <1>2, <2>1, PartialSumsUnique
  <1>7. MapThenSumSet(LAMBDA h : IF f[h].settled THEN 0 ELSE f[h].amount, Holds) = iter[Holds]
    BY DEF MapThenSumSet, MapThenFoldSet, Pick
  <1>8. QED
    BY <1>2, <1>6, <1>7

\* The frozen balance is backed when it is that sum, before a step
LEMMA BackedByTotal ==
    ASSUME IsFiniteSet(Holds), hold \in [Holds -> HoldRecord]
    PROVE  FrozenBacked <=> account.frozen = Total(Holds, FrozenFor(hold))
  <1>1. MapThenSumSet(LAMBDA h : IF hold[h].settled THEN 0 ELSE hold[h].amount, Holds)
            = Total(Holds, FrozenFor(hold))
    BY FrozenIsTotal
  <1>2. QED
    BY <1>1 DEF FrozenBacked, MapThenSumSet, MapThenFoldSet

\* and after it.
LEMMA BackedByTotalNext ==
    ASSUME IsFiniteSet(Holds), hold' \in [Holds -> HoldRecord]
    PROVE  FrozenBacked' <=> account'.frozen = Total(Holds, FrozenFor(hold'))
  <1>1. MapThenSumSet(LAMBDA h : IF hold'[h].settled THEN 0 ELSE hold'[h].amount, Holds)
            = Total(Holds, FrozenFor(hold'))
    BY FrozenIsTotal
  <1>2. QED
    BY <1>1 DEF FrozenBacked, MapThenSumSet, MapThenFoldSet

\* A step that touches one hold changes the sum by what it changes there.
LEMMA FrozenForChange ==
    ASSUME IsFiniteSet(Holds), NEW f \in [Holds -> HoldRecord],
           NEW g \in [Holds -> HoldRecord], NEW h \in Holds,
           \A k \in Holds : k # h => g[k] = f[k]
    PROVE  Total(Holds, FrozenFor(g)) =
               Total(Holds, FrozenFor(f)) - FrozenFor(f)[h] + FrozenFor(g)[h]
  <1>1. FrozenFor(f) \in [Holds -> Int] /\ FrozenFor(g) \in [Holds -> Int]
    BY FrozenForType
  <1>2. \A k \in Holds : k # h => FrozenFor(g)[k] = FrozenFor(f)[k]
    BY DEF FrozenFor
  <1>3. QED
    BY <1>1, <1>2, TotalChange

\* Every step keeps the frozen balance backed by the holds that are open.
LEMMA StepFrozen ==
    ASSUME IsFiniteSet(Holds), TypeOK, TypeOK', NoStaleRead, PendingInv, HoldInv,
           FrozenBacked, [Next]_vars
    PROVE  FrozenBacked'
  <1> DEFINE T(f) == Total(Holds, FrozenFor(f))
  <1>0. /\ hold \in [Holds -> HoldRecord] /\ hold' \in [Holds -> HoldRecord]
        /\ account.frozen \in Int /\ account'.frozen \in Int
    BY DEF TypeOK, AccountRecord
  <1>1. account.frozen = T(hold) /\ T(hold) \in Int
    BY <1>0, BackedByTotal
  <1>2. account'.frozen = T(hold') => FrozenBacked'
    BY <1>0, BackedByTotalNext
  <1>3. ASSUME NEW p \in Procs,
               WriteRecharge(p) \/ WriteReward(p) \/ WriteDeduct(p) \/ WriteAdjust(p)
        PROVE  account'.frozen = T(hold')
    <2>1. account'.frozen = account.frozen /\ hold' = hold
      BY <1>3, RechargeEffect, RewardEffect, DeductEffect, AdjustEffect DEF Credited
    <2>2. QED
      BY <1>1, <2>1
  <1>4. ASSUME NEW p \in Procs, WriteFreeze(p) PROVE account'.frozen = T(hold')
    <2>1. PICK h \in Holds : Opened(p, h)
      BY <1>4, FreezeEffect
    <2> DEFINE a == req[p].amount
    <2>2. a \in Nat
      BY <1>4, FreezeEffect
    <2>3. /\ \A g \in Holds : g # h => hold'[g] = hold[g]
          /\ hold'[h] = [hold[h] EXCEPT !.amount = a]
          /\ account'.frozen = account.frozen + a
      BY <1>0, <2>1 DEF Opened
    <2>4. /\ hold[h].amount = 0 /\ ~hold[h].settled
          /\ hold'[h].amount = a /\ ~hold'[h].settled
      BY <1>0, <2>1, <2>3 DEF Opened, Written, HoldInv, HoldRecord
    <2>5. FrozenFor(hold)[h] = 0 /\ FrozenFor(hold')[h] = a
      BY <2>4 DEF FrozenFor
    <2>6. T(hold') = T(hold) - FrozenFor(hold)[h] + FrozenFor(hold')[h]
      BY <1>0, <2>3, FrozenForChange
    <2>7. QED
      BY <1>0, <1>1, <2>2, <2>3, <2>5, <2>6
  <1>5. ASSUME NEW p \in Procs, WriteSettle(p) \/ WriteRefund(p)
        PROVE  account'.frozen = T(hold')
    <2>1. PICK h \in Holds : h = req[p].hold
      BY <1>5, CloseHold
    <2>2. Written(h) /\ ~hold[h].settled
      BY <1>5, <2>1, CloseHold DEF PendingInv
    <2>3. /\ \A g \in Holds : g # h => hold'[g] = hold[g]
          /\ hold'[h].settled = TRUE
          /\ hold[h].amount \in Nat
      BY <1>0, <1>5, <2>1, CloseHold DEF HoldRecord
    <2>4. account'.frozen = account.frozen - hold[h].amount
      BY <1>5, <2>1, SettleEffect, RefundEffect DEF Closed
    <2>5. FrozenFor(hold)[h] = hold[h].amount /\ FrozenFor(hold')[h] = 0
      BY <2>2, <2>3 DEF FrozenFor
    <2>6. T(hold') = T(hold) - FrozenFor(hold)[h] + FrozenFor(hold')[h]
      BY <1>0, <2>3, FrozenForChange
    <2>7. QED
      BY <1>0, <1>1, <2>3, <2>4, <2>5, <2>6
  <1>6. CASE \A p \in Procs : ~Write(p)
    <2>1. account' = account /\ hold' = hold
      BY <1>6, OtherSteps
    <2>2. QED
      BY <1>1, <1>2, <2>1
  <1>7. QED
    BY <1>2, <1>3, <1>4, <1>5, <1>6 DEF Write

\* If no lock runs out under a working holder, frozenBalance is at every moment the sum
\* of the freeze rows that are not closed, for any (finite) number of them.
THEOREM FrozenIsBacked ==
    ASSUME ~MayExpire, IsFiniteSet(Holds)
    PROVE  Spec => []FrozenBacked
  <1>1. Init => FrozenBacked
    <2> SUFFICES ASSUME Init PROVE FrozenBacked
      OBVIOUS
    <2>1. hold \in [Holds -> HoldRecord] /\ account.frozen = 0
      BY InitType DEF Init, TypeOK, NewAccount
    <2>2. \A h \in Holds : FrozenFor(hold)[h] = 0
      BY DEF Init, FrozenFor, NoHold
    <2>3. Total(Holds, FrozenFor(hold)) = 0
      BY <2>1, <2>2, FrozenForType, TotalType
    <2>4. QED
      BY <2>1, <2>3, BackedByTotal
  <1>2. TypeOK /\ TypeOK' /\ NoStaleRead /\ PendingInv /\ HoldInv /\ FrozenBacked /\ [Next]_vars
            => FrozenBacked'
    BY StepFrozen
  <1>3. Spec => [](PendingInv /\ HoldInv)
    BY HoldSafe
  <1>4. QED
    BY <1>1, <1>2, <1>3, TypeCorrect, NoLostUpdate, PTL DEF Spec
-----------------------------------------------------------------------------
(* The service implements the ledger *)

\* The amounts of requests are amounts of the ledger.
LEMMA RequestAmounts ==
    ASSUME NEW r \in Requests
    PROVE  /\ r.kind \notin Closing \cup {"adjust"} => r.amount \in Amounts
           /\ r.kind = "adjust" => r.amount \in Amounts \cup Debits
           /\ r.kind = "settle" => r.amount \in Costs
  <1>1. CASE r \in [kind : {"recharge", "reward", "deduct", "freeze"} \cup Manager,
                    amount : Amounts, hold : {None}]
    BY <1>1 DEF Manager
  <1>2. CASE r \in [kind : {"adjust"}, amount : Amounts \cup Debits, hold : {None}]
    BY <1>2
  <1>3. CASE r \in [kind : {"settle"}, amount : Costs, hold : Holds]
    BY <1>3 DEF Closing
  <1>4. CASE r \in [kind : {"refund"}, amount : {0}, hold : Holds]
    BY <1>4 DEF Closing
  <1>5. QED
    BY <1>1, <1>2, <1>3, <1>4 DEF Requests

\* The status of a hold depends on its own record only.
LEMMA StatusFrame ==
    ASSUME NEW h \in Holds, hold'[h] = hold[h]
    PROVE  StatusOf(h)' = StatusOf(h)
  BY DEF StatusOf, Written

\* Every step is one operation of the ledger, or leaves it alone.
LEMMA StepRefines ==
    ASSUME TypeOK, NoStaleRead, LockInv, PendingInv, HoldInv, Solvent, [Next]_vars
    PROVE  [Ledger!LedgerNext]_(Ledger!ledgerVars)
  <1>0. /\ hold \in [Holds -> HoldRecord]
        /\ account.balance \in Int /\ account.frozen \in Int
    BY DEF TypeOK, AccountRecord
  <1>1. ASSUME NEW p \in Procs, WriteRecharge(p) \/ WriteReward(p)
        PROVE  Ledger!LedgerNext
    <2>1. req[p] \in Requests /\ req[p].kind \notin Closing \cup {"adjust"}
      BY <1>1, WriterType DEF WriteRecharge, WriteReward, Closing
    <2>2. req[p].amount \in Amounts
      BY <2>1, RequestAmounts
    <2>3. /\ account'.balance = account.balance + req[p].amount
          /\ account'.frozen = account.frozen /\ hold' = hold
      BY <1>1, RechargeEffect, RewardEffect DEF Credited
    <2>4. Ledger!Credit(req[p].amount)
      BY <2>3, StatusFrame DEF Ledger!Credit
    <2>5. QED
      BY <2>2, <2>4 DEF Ledger!LedgerNext
  <1>2. ASSUME NEW p \in Procs, WriteDeduct(p) PROVE Ledger!LedgerNext
    <2>1. req[p] \in Requests /\ req[p].kind \notin Closing \cup {"adjust"}
      BY <1>2, WriterType DEF WriteDeduct, Closing
    <2>2. req[p].amount \in Amounts /\ req[p].amount \in Int
      BY <2>1, RequestAmounts, RequestTypes
    <2>3. /\ account.balance >= req[p].amount
          /\ account'.balance = account.balance - req[p].amount
          /\ account'.frozen = account.frozen /\ hold' = hold
      BY <1>0, <1>2, <2>2, DeductEffect DEF Credited
    <2>4. Ledger!Debit(req[p].amount)
      BY <2>3, StatusFrame DEF Ledger!Debit
    <2>5. QED
      BY <2>2, <2>4 DEF Ledger!LedgerNext
  <1>3. ASSUME NEW p \in Procs, WriteAdjust(p) PROVE Ledger!LedgerNext
    <2>1. req[p] \in Requests /\ req[p].kind = "adjust"
      BY <1>3, WriterType DEF WriteAdjust
    <2>2. /\ account.balance + req[p].amount >= 0
          /\ account'.balance = account.balance + req[p].amount
          /\ account'.frozen = account.frozen /\ hold' = hold
      BY <1>3, AdjustEffect DEF Credited
    <2>3. CASE req[p].amount \in Amounts
      <3>1. Ledger!Credit(req[p].amount)
        BY <2>2, StatusFrame DEF Ledger!Credit
      <3>2. QED
        BY <2>3, <3>1 DEF Ledger!LedgerNext
    <2>4. CASE req[p].amount \in Debits
      <3>1. PICK a \in Amounts : req[p].amount = -a
        BY <2>4 DEF Debits
      <3>2. account.balance >= a /\ account'.balance = account.balance - a
        BY <1>0, <2>2, <3>1
      <3>3. Ledger!Debit(a)
        BY <2>2, <3>2, StatusFrame DEF Ledger!Debit
      <3>4. QED
        BY <3>3 DEF Ledger!LedgerNext
    <2>5. QED
      BY <2>1, <2>3, <2>4, RequestAmounts
  <1>4. ASSUME NEW p \in Procs, WriteFreeze(p) PROVE Ledger!LedgerNext
    <2>1. req[p] \in Requests /\ req[p].kind \notin Closing \cup {"adjust"}
      BY <1>4, WriterType DEF WriteFreeze, Closing
    <2>2. PICK a \in Amounts : a = req[p].amount
      BY <2>1, RequestAmounts
    <2>3. PICK h \in Holds : Opened(p, h)
      BY <1>4, FreezeEffect
    <2>4. /\ \A g \in Holds : g # h => hold'[g] = hold[g]
          /\ hold'[h].amount = a
          /\ hold'[h].settles = hold[h].settles
          /\ hold'[h].refunds = hold[h].refunds
      BY <1>0, <2>2, <2>3 DEF Opened, HoldRecord
    <2>5. ~Written(h) /\ hold[h].settles + hold[h].refunds = 0
      BY <2>3 DEF Opened, HoldInv, ClosedOnce
    <2>6. StatusOf(h) = "none" /\ StatusOf(h)' = "open"
      <3>1. hold'[h].amount > 0 /\ hold'[h].settles + hold'[h].refunds = 0
        <4>1. a \in Nat \ {0}
          OBVIOUS
        <4>2. QED
          BY <2>4, <2>5, <4>1
      <3>2. QED
        BY <2>5, <3>1 DEF StatusOf, Written
    <2>7. \A g \in Holds : g # h => StatusOf(g)' = StatusOf(g)
      BY <2>4, StatusFrame
    <2>8. [g \in Holds |-> StatusOf(g)]' =
              [[g \in Holds |-> StatusOf(g)] EXCEPT ![h] = "open"]
      BY <2>6, <2>7
    <2>9. [g \in Holds |-> hold[g].amount]' =
              [[g \in Holds |-> hold[g].amount] EXCEPT ![h] = a]
      BY <2>4
    <2>10. Ledger!Reserve(h, a)
      BY <2>2, <2>3, <2>6, <2>8, <2>9 DEF Ledger!Reserve, Opened
    <2>11. QED
      BY <2>2, <2>10 DEF Ledger!LedgerNext
  <1>5. ASSUME NEW p \in Procs, WriteSettle(p) \/ WriteRefund(p)
        PROVE  Ledger!LedgerNext
    <2>0. PICK h \in Holds : h = req[p].hold
      BY <1>5, CloseHold
    <2> DEFINE a == hold[h].amount
    <2>1. Written(h) /\ ~hold[h].settled
      BY <1>5, <2>0, CloseHold DEF PendingInv
    <2>2. /\ hold[h].settles \in Nat /\ hold[h].refunds \in Nat /\ a \in Nat
          /\ hold[h].settles = 0 /\ hold[h].refunds = 0
      <3>1. hold[h].settles \in Nat /\ hold[h].refunds \in Nat /\ a \in Nat
        BY <1>0, <2>1 DEF HoldRecord
      <3>2. hold[h].settles + hold[h].refunds = 0
        BY <2>1 DEF HoldInv, ClosedOnce
      <3>3. QED
        BY <3>1, <3>2
    <2>3. /\ \A g \in Holds : g # h => hold'[g] = hold[g]
          /\ hold'[h].amount = a
          /\ \/ /\ WriteSettle(p)
                /\ hold'[h].settles = hold[h].settles + 1
                /\ hold'[h].refunds = hold[h].refunds
             \/ /\ WriteRefund(p)
                /\ hold'[h].refunds = hold[h].refunds + 1
                /\ hold'[h].settles = hold[h].settles
      BY <1>5, <2>0, CloseHold
    <2>4. StatusOf(h) = "open"
      BY <2>1, <2>2 DEF StatusOf
    <2>5. \A g \in Holds : g # h => StatusOf(g)' = StatusOf(g)
      BY <2>3, StatusFrame
    <2>6. [g \in Holds |-> hold[g].amount]' = [g \in Holds |-> hold[g].amount]
      BY <2>3
    <2>7. CASE WriteSettle(p) /\ hold'[h].settles = hold[h].settles + 1
               /\ hold'[h].refunds = hold[h].refunds
      <3> DEFINE c == req[p].amount
      <3>1. StatusOf(h)' = "settled"
        <4>1. /\ hold'[h].amount > 0
              /\ hold'[h].settles = 1 /\ hold'[h].refunds = 0
          BY <2>1, <2>2, <2>3, <2>7 DEF Written
        <4>2. QED
          BY <4>1 DEF StatusOf, Written
      <3>2. [g \in Holds |-> StatusOf(g)]' =
                [[g \in Holds |-> StatusOf(g)] EXCEPT ![h] = "settled"]
        BY <2>1, <2>5, <3>1
      <3>3. /\ c \in Nat /\ (c > a => account.balance >= c - a)
            /\ account'.balance = account.balance + a - c
            /\ account'.frozen = account.frozen - a
        BY <2>0, <2>7, SettleEffect DEF Closed
      <3>4. c \in Costs
        BY <2>7, WriterType, RequestAmounts DEF WriteSettle
      <3>5. account.balance + a >= c
        BY <1>0, <2>2, <3>3 DEF Solvent
      <3>6. Ledger!Settle(h, c)
        BY <2>1, <2>4, <2>6, <3>2, <3>3, <3>5 DEF Ledger!Settle
      <3>7. QED
        BY <2>1, <3>4, <3>6 DEF Ledger!LedgerNext
    <2>8. CASE WriteRefund(p) /\ hold'[h].refunds = hold[h].refunds + 1
               /\ hold'[h].settles = hold[h].settles
      <3>1. StatusOf(h)' = "refunded"
        <4>1. /\ hold'[h].amount > 0
              /\ hold'[h].settles = 0 /\ hold'[h].refunds = 1
          BY <2>1, <2>2, <2>3, <2>8 DEF Written
        <4>2. QED
          BY <4>1 DEF StatusOf, Written
      <3>2. [g \in Holds |-> StatusOf(g)]' =
                [[g \in Holds |-> StatusOf(g)] EXCEPT ![h] = "refunded"]
        BY <2>1, <2>5, <3>1
      <3>3. /\ account'.balance = account.balance + a
            /\ account'.frozen = account.frozen - a
        BY <1>0, <2>0, <2>2, <2>8, RefundEffect DEF Closed
      <3>4. Ledger!Refund(h)
        BY <2>1, <2>4, <2>6, <3>2, <3>3 DEF Ledger!Refund
      <3>5. QED
        BY <2>1, <3>4 DEF Ledger!LedgerNext
    <2>9. QED
      BY <2>3, <2>7, <2>8
  <1>6. CASE \A p \in Procs : ~Write(p)
    <2>1. account' = account /\ hold' = hold
      BY <1>6, OtherSteps
    <2>2. UNCHANGED Ledger!ledgerVars
      BY <2>1, StatusFrame DEF Ledger!ledgerVars
    <2>3. QED
      BY <2>2
  <1>7. QED
    BY <1>1, <1>2, <1>3, <1>4, <1>5, <1>6 DEF Write

\* If no lock runs out under a working holder, the service implements the atomic
\* ledger: each commit is one of its operations, every other step leaves it alone.
THEOREM Refinement ==
    ASSUME ~MayExpire
    PROVE  Spec => ImplementsLedger
  <1>1. Init => Ledger!LedgerInit
    BY DEF Init, NewAccount, NoHold, StatusOf, Written, Ledger!LedgerInit
  <1>2. TypeOK /\ NoStaleRead /\ LockInv /\ PendingInv /\ HoldInv /\ Solvent /\ [Next]_vars
            => [Ledger!LedgerNext]_(Ledger!ledgerVars)
    BY StepRefines
  <1>3. Spec => []LockInv /\ [](PendingInv /\ HoldInv)
    BY LockSafe, HoldSafe
  <1>4. QED
    BY <1>1, <1>2, <1>3, TypeCorrect, NoLostUpdate, NeverOverdrawn, PTL
       DEF Spec, ImplementsLedger, Ledger!LedgerSpec
=============================================================================
