--------------------------- MODULE CreditsService ---------------------------
(***************************************************************************)
(* credits.service.ts, for one user, as the concurrent program it is.      *)
(* Every public operation runs in withLock (a Redis key with a time to     *)
(* live), and inside it in a database transaction that reads the account   *)
(* row FOR UPDATE, checks a guard, writes the row under its version and    *)
(* appends a transaction row.  settleCredits and refundCredits first read  *)
(* the freeze row WITHOUT locking it.  The payment callback and the admin  *)
(* refund call applyRechargeFromManager and applyDeductFromManager in a    *)
(* transaction of their own, without the Redis lock.                       *)
(*                                                                         *)
(* The writes of a transaction are visible to others only once it commits, *)
(* and nobody else writes the row it has locked, so guard, writes and      *)
(* commit are one step.  Reading the freeze row, waiting for the row lock  *)
(* and committing are separate: anything may happen between them.          *)
(***************************************************************************)
EXTENDS Integers, FiniteSetsExt

CONSTANTS Procs,       \* concurrent requests for this user
          Holds,       \* identities of freeze transactions (frozenTxnId)
          Amounts,     \* amounts credited, debited and frozen
          Costs,       \* actual amounts of settlements
          None,        \* no process, no hold
          LockRetry,   \* LOCK_RETRY: attempts to take the Redis lock
          MaxOps,      \* bound: operations started in a behaviour
          MayExpire    \* may the lock's TTL run out while its holder still works?

ASSUME DataAssumption == Amounts \subseteq Nat \ {0} /\ Costs \subseteq Nat
ASSUME NoneAssumption == None \notin Procs /\ None \notin Holds
ASSUME BoundsAssumption ==
    LockRetry \in Nat \ {0} /\ MaxOps \in Nat /\ MayExpire \in BOOLEAN

VARIABLES exists,     \* the credit_accounts row is committed
          account,    \* its columns
          hold,       \* per freeze transaction: amount, settledAt, closing rows
          posted,     \* signed sum of the transaction rows of each kind
          lock,       \* holder of the Redis key credits:lock:<userId>, or None
          rowOwner,   \* transaction that holds the row lock, or None
          pc,         \* where each request is
          req,        \* the operation it runs
          tries,      \* its failed attempts to take the lock
          read,       \* the account row it read under the row lock
          overrun,    \* the requests whose lock ran out while they worked (history)
          ops         \* operations started so far

dbVars == <<exists, account, hold, posted>>
vars == <<exists, account, hold, posted, lock, rowOwner, pc, req, tries, read, overrun, ops>>

-----------------------------------------------------------------------------
(* Data *)

(***************************************************************************)
(* The kinds of transaction row are the (type, source) pairs the service   *)
(* writes: a claw-back has type 'refund' like a refund of a hold, with     *)
(* source 'recharge_refund' and a negative amount.                         *)
(***************************************************************************)
RowKinds == {"recharge", "reward", "admin_adjust", "freeze", "settle",
             "refund", "recharge_refund"}

AccountRecord ==
    [balance : Int, frozen : Int, recharged : Int, consumed : Int, version : Int]
HoldRecord == [amount : Nat, settled : BOOLEAN, settles : Nat, refunds : Nat]

NoHold == [amount |-> 0, settled |-> FALSE, settles |-> 0, refunds |-> 0]
NewAccount ==
    [balance |-> 0, frozen |-> 0, recharged |-> 0, consumed |-> 0, version |-> 0]

Written(h) == hold[h].amount > 0                 \* the freeze row is committed

Manager == {"callback", "clawback"}              \* run without the Redis lock
Closing == {"settle", "refund"}                  \* read the freeze row first

Debits == {-a : a \in Amounts}

Requests ==
         [kind : {"recharge", "reward", "deduct", "freeze"} \cup Manager,
          amount : Amounts, hold : {None}]
    \cup [kind : {"adjust"}, amount : Amounts \cup Debits, hold : {None}]
    \cup [kind : {"settle"}, amount : Costs, hold : Holds]
    \cup [kind : {"refund"}, amount : {0}, hold : Holds]

NoReq == [kind |-> "none", amount |-> 0, hold |-> None]

Init ==
    /\ exists = FALSE
    /\ account = NewAccount
    /\ hold = [h \in Holds |-> NoHold]
    /\ posted = [k \in RowKinds |-> 0]
    /\ lock = None
    /\ rowOwner = None
    /\ pc = [p \in Procs |-> "idle"]
    /\ req = [p \in Procs |-> NoReq]
    /\ tries = [p \in Procs |-> 0]
    /\ read = [p \in Procs |-> NewAccount]
    /\ overrun = {}
    /\ ops = 0

Goto(p, label) == pc' = [pc EXCEPT ![p] = label]

\* The request is over: its locals are gone.
Return(p) ==
    /\ Goto(p, "idle")
    /\ req' = [req EXCEPT ![p] = NoReq]
    /\ tries' = [tries EXCEPT ![p] = 0]
    /\ read' = [read EXCEPT ![p] = NewAccount]
    /\ overrun' = overrun \ {p}

-----------------------------------------------------------------------------
(* withLock *)

\* An operation is called with arguments that pass its validation.
Call(p) ==
    /\ pc[p] = "idle"
    /\ ops < MaxOps
    /\ \E r \in Requests :
        /\ req' = [req EXCEPT ![p] = r]
        /\ Goto(p, IF r.kind \in Manager THEN "select" ELSE "lock")
    /\ ops' = ops + 1
    /\ UNCHANGED <<dbVars, lock, rowOwner, tries, read, overrun>>

\* redis.setNx succeeds; the database transaction begins.
AcquireLock(p) ==
    /\ pc[p] = "lock"
    /\ lock = None
    /\ lock' = p
    /\ Goto(p, IF req[p].kind \in Closing THEN "readHold" ELSE "select")
    /\ UNCHANGED <<dbVars, rowOwner, req, tries, read, overrun, ops>>

\* redis.setNx fails: sleep and try again, or give up after LOCK_RETRY times.
LockBusy(p) ==
    /\ pc[p] = "lock"
    /\ lock # None
    /\ IF tries[p] + 1 < LockRetry
       THEN /\ tries' = [tries EXCEPT ![p] = @ + 1]
            /\ UNCHANGED <<pc, req, read, overrun>>
       ELSE Return(p)
    /\ UNCHANGED <<dbVars, lock, rowOwner, ops>>

\* Mutant: the finally block deletes the key, whosever it is.
ReleaseLock_AnyToken(p) ==
    /\ pc[p] = "release"
    /\ req[p].kind \notin Manager
    /\ lock' = None
    /\ Return(p)
    /\ UNCHANGED <<dbVars, rowOwner, ops>>

\* The finally block: the key is deleted only if it still holds our value.
ReleaseLock(p) ==
    /\ pc[p] = "release"
    /\ req[p].kind \notin Manager
    /\ lock' = IF lock = p THEN None ELSE lock
    /\ Return(p)
    /\ UNCHANGED <<dbVars, rowOwner, ops>>

\* An operation without the lock returns to its caller.
ReturnToCaller(p) ==
    /\ pc[p] = "release"
    /\ req[p].kind \in Manager
    /\ Return(p)
    /\ UNCHANGED <<dbVars, lock, rowOwner, ops>>

\* Between setNx and releaseLock, in an operation that takes the lock.
Inside(p) ==
    /\ pc[p] \in {"readHold", "select", "insert", "write", "release"}
    /\ req[p].kind \notin Manager

\* The TTL runs out: 10 seconds after setNx, which is long after the holder has
\* died, or (MayExpire) while it waits for the row lock or the database.
ExpireLock ==
    /\ lock # None
    /\ MayExpire \/ ~Inside(lock)
    /\ lock' = None
    /\ overrun' = IF Inside(lock) THEN overrun \cup {lock} ELSE overrun
    /\ UNCHANGED <<dbVars, rowOwner, pc, req, tries, read, ops>>

\* The process dies: the database rolls back, the Redis key stays.
Crash(p) ==
    /\ pc[p] # "idle"
    /\ rowOwner' = IF rowOwner = p THEN None ELSE rowOwner
    /\ Return(p)
    /\ UNCHANGED <<dbVars, lock, ops>>

-----------------------------------------------------------------------------
(* The database transaction up to the account row *)

\* settleCredits, refundCredits: plain read of the freeze row.  No such row: an
\* exception.  settledAt is set: return the row an earlier call wrote.
ReadHold(p) ==
    /\ pc[p] = "readHold"
    /\ Goto(p, IF Written(req[p].hold) /\ ~hold[req[p].hold].settled
               THEN "select" ELSE "release")
    /\ UNCHANGED <<dbVars, lock, rowOwner, req, tries, read, overrun, ops>>

\* getOrCreateAccountLocked: SELECT ... FOR UPDATE finds the row and locks it.
SelectAccount(p) ==
    /\ pc[p] = "select"
    /\ exists
    /\ rowOwner = None
    /\ rowOwner' = p
    /\ read' = [read EXCEPT ![p] = account]
    /\ Goto(p, "write")
    /\ UNCHANGED <<dbVars, lock, req, tries, overrun, ops>>

\* ... finds no row,
SelectNothing(p) ==
    /\ pc[p] = "select"
    /\ ~exists
    /\ Goto(p, "insert")
    /\ UNCHANGED <<dbVars, lock, rowOwner, req, tries, read, overrun, ops>>

\* and saves a new one, which others see once this transaction commits.
InsertAccount(p) ==
    /\ pc[p] = "insert"
    /\ ~exists
    /\ rowOwner = None
    /\ rowOwner' = p
    /\ read' = [read EXCEPT ![p] = NewAccount]
    /\ Goto(p, "write")
    /\ UNCHANGED <<dbVars, lock, req, tries, overrun, ops>>

\* getOrCreateAccount, called by a read-only request: creates the row unlocked.
CreateAccount ==
    /\ ~exists
    /\ rowOwner = None
    /\ exists' = TRUE
    /\ UNCHANGED <<account, hold, posted, lock, rowOwner, pc, req, tries, read, overrun, ops>>

-----------------------------------------------------------------------------
(* Guards, writes and commit *)

\* updateAccountVersioned: UPDATE ... WHERE version = the version read.
VersionMatches(p) == read[p].version = account.version

\* The columns every operation writes are computed from the row it read.
Commit(p, acct, kind, amount) ==
    /\ VersionMatches(p)
    /\ account' = [acct EXCEPT !.version = account.version + 1]
    /\ posted' = [posted EXCEPT ![kind] = @ + amount]
    /\ exists' = TRUE
    /\ rowOwner' = None
    /\ Goto(p, "release")
    /\ UNCHANGED <<lock, req, tries, read, overrun, ops>>

\* The account row each operation computes from the row it read.
Recharged(r, a) == [r EXCEPT !.balance = @ + a, !.recharged = @ + a]
Rewarded(r, a)  == [r EXCEPT !.balance = @ + a]
Deducted(r, a)  == [r EXCEPT !.balance = @ - a, !.consumed = @ + a]
Adjusted(r, d)  ==
    [r EXCEPT !.balance = @ + d, !.consumed = IF d < 0 THEN @ - d ELSE @]
Frozen(r, a)    == [r EXCEPT !.balance = @ - a, !.frozen = @ + a]
\* Mutant: the difference is neither taken nor given back.
Settled_KeepsDifference(r, a, c) ==
    [r EXCEPT !.frozen = @ - a, !.consumed = @ + c]

Settled(r, a, c) ==                \* diff = c - a is taken or given back
    [r EXCEPT !.balance = @ - (c - a), !.frozen = @ - a, !.consumed = @ + c]
\* Mutant: frozenBalance is not reduced.
Refunded_KeepsFrozen(r, a) == [r EXCEPT !.balance = @ + a]

Refunded(r, a)  == [r EXCEPT !.balance = @ + a, !.frozen = @ - a]

WriteRecharge(p) ==
    LET a == req[p].amount
    IN  /\ pc[p] = "write"
        /\ req[p].kind \in {"recharge", "callback"}
        /\ Commit(p, Recharged(read[p], a), "recharge", a)
        /\ UNCHANGED hold

WriteReward(p) ==
    LET a == req[p].amount
    IN  /\ pc[p] = "write"
        /\ req[p].kind = "reward"
        /\ Commit(p, Rewarded(read[p], a), "reward", a)
        /\ UNCHANGED hold

WriteDeduct(p) ==
    LET a == req[p].amount
    IN  /\ pc[p] = "write"
        /\ req[p].kind \in {"deduct", "clawback"}
        /\ read[p].balance >= a
        /\ Commit(p, Deducted(read[p], a), "recharge_refund", -a)
        /\ UNCHANGED hold

WriteAdjust(p) ==
    LET d == req[p].amount
    IN  /\ pc[p] = "write"
        /\ req[p].kind = "adjust"
        /\ read[p].balance + d >= 0
        /\ Commit(p, Adjusted(read[p], d), "admin_adjust", d)
        /\ UNCHANGED hold

\* The new freeze row gets an id of its own, returned as frozenTxnId.
WriteFreeze(p) ==
    LET a == req[p].amount
    IN  /\ pc[p] = "write"
        /\ req[p].kind = "freeze"
        /\ read[p].balance >= a
        /\ Commit(p, Frozen(read[p], a), "freeze", a)
        /\ \E h \in Holds : ~Written(h) /\ hold' = [hold EXCEPT ![h].amount = a]

\* Mutant: a settlement above the frozen amount does not check the balance.
WriteSettle_NoGuard(p) ==
    LET h == req[p].hold
        a == hold[h].amount
        c == req[p].amount
    IN  /\ pc[p] = "write"
        /\ req[p].kind = "settle"
        /\ Commit(p, Settled(read[p], a, c), "settle", c)
        /\ hold' = [hold EXCEPT ![h].settled = TRUE, ![h].settles = @ + 1]

\* The amount of a freeze row is immutable, so it still is what ReadHold read; its
\* settledAt mark is overwritten, whatever it is now.
WriteSettle(p) ==
    LET h == req[p].hold
        a == hold[h].amount
        c == req[p].amount
    IN  /\ pc[p] = "write"
        /\ req[p].kind = "settle"
        /\ c > a => read[p].balance >= c - a
        /\ Commit(p, Settled(read[p], a, c), "settle", c)
        /\ hold' = [hold EXCEPT ![h].settled = TRUE, ![h].settles = @ + 1]

WriteRefund(p) ==
    LET h == req[p].hold
        a == hold[h].amount
    IN  /\ pc[p] = "write"
        /\ req[p].kind = "refund"
        /\ Commit(p, Refunded(read[p], a), "refund", a)
        /\ hold' = [hold EXCEPT ![h].settled = TRUE, ![h].refunds = @ + 1]

\* Mutant: an exception after the row lock is swallowed, and nothing returns.
Rollback_NotAfterRead(p) ==
    /\ pc[p] \in {"readHold", "select"}
    /\ Goto(p, "release")
    /\ UNCHANGED <<dbVars, lock, rowOwner, req, tries, read, overrun, ops>>

\* An exception rolls everything back: the guard of the operation fails, the
\* version does not match, a second insert of the same user_id is refused, a lock
\* wait times out, the database errs, the caller's own transaction aborts.
Rollback(p) ==
    /\ pc[p] \in {"readHold", "select", "insert", "write"}
    /\ rowOwner' = IF rowOwner = p THEN None ELSE rowOwner
    /\ Goto(p, "release")
    /\ UNCHANGED <<dbVars, lock, req, tries, read, overrun, ops>>

-----------------------------------------------------------------------------
(* The specification *)

Write(p) ==
    \/ WriteRecharge(p) \/ WriteReward(p) \/ WriteDeduct(p) \/ WriteAdjust(p)
    \/ WriteFreeze(p) \/ WriteSettle(p) \/ WriteRefund(p)

Step(p) ==
    \/ AcquireLock(p) \/ LockBusy(p) \/ ReadHold(p)
    \/ SelectAccount(p) \/ SelectNothing(p) \/ InsertAccount(p)
    \/ Write(p) \/ Rollback(p)
    \/ ReleaseLock(p) \/ ReturnToCaller(p)

\* The bound is reached and every request has returned.
Rest ==
    /\ ops = MaxOps
    /\ \A p \in Procs : pc[p] = "idle"
    /\ UNCHANGED vars

Next ==
    \/ \E p \in Procs : Call(p) \/ Step(p) \/ Crash(p)
    \/ ExpireLock
    \/ CreateAccount
    \/ Rest

Spec == Init /\ [][Next]_vars

\* A live request keeps running (Node schedules it, MySQL grants the row lock or
\* times the wait out) and Redis does expire keys.
FairSpec == Spec /\ (\A p \in Procs : WF_vars(Step(p))) /\ WF_vars(ExpireLock)

-----------------------------------------------------------------------------
(* Properties *)

\* Every variable keeps its type; a missing account row reads as zeros.
TypeOK ==
    /\ exists \in BOOLEAN
    /\ account \in AccountRecord
    /\ hold \in [Holds -> HoldRecord]
    /\ posted \in [RowKinds -> Int]
    /\ lock \in Procs \cup {None}
    /\ rowOwner \in Procs \cup {None}
    /\ pc \in [Procs -> {"idle", "lock", "readHold", "select", "insert", "write",
                         "release"}]
    /\ req \in [Procs -> Requests \cup {NoReq}]
    /\ tries \in [Procs -> 0..(LockRetry - 1)]
    /\ read \in [Procs -> AccountRecord]
    /\ overrun \subseteq Procs
    /\ ops \in 0..MaxOps

\* As long as no lock outlives its TTL, two operations of one user that take the
\* lock never overlap (withLock).
LockExclusive == \A p, q \in Procs : Inside(p) /\ Inside(q) => p = q

\* Two operations that take the lock overlap only when the lock of one of the two ran
\* out while it worked: one that overran its 10 seconds does not, when it returns, dies or
\* is called again, take the lock from another, which would let a third one in
\* (releaseLock deletes the key only if it still holds its own token).
OverlapNeedsOverrun ==
    \A p, q \in Procs : Inside(p) /\ Inside(q) /\ p # q => p \in overrun \/ q \in overrun

\* A request about to write has read the row as it still is, so its optimistic
\* version check cannot fail: the row lock alone prevents lost updates, also
\* against the operations that do not take the Redis lock.
NoStaleRead == \A p \in Procs : pc[p] = "write" => read[p] = account /\ rowOwner = p

\* A hold is closed by one settlement or one refund, and is marked settledAt
\* exactly then (the "idempotent" settle and refund).
ClosedOnce ==
    \A h \in Holds : hold[h].settles + hold[h].refunds = IF hold[h].settled THEN 1 ELSE 0

\* frozenBalance is the sum of the amounts of the freeze rows not yet closed.
FrozenBacked ==
    account.frozen =
        MapThenSumSet(LAMBDA h : IF hold[h].settled THEN 0 ELSE hold[h].amount, Holds)

\* No operation overdraws the account.
Solvent == account.balance >= 0

\* The account agrees with its transaction rows: what came in, less claw-backs and
\* settlements, is what is there, spendable or frozen.
Accounted ==
    /\ account.balance + account.frozen =
           posted["recharge"] + posted["reward"] + posted["admin_adjust"]
           + posted["recharge_refund"] - posted["settle"]
    /\ account.recharged = posted["recharge"]

\* Every request returns, with its result, with "busy" or with an exception, even
\* when another died holding the lock.
EveryRequestReturns == \A p \in Procs : pc[p] # "idle" ~> pc[p] = "idle"

-----------------------------------------------------------------------------
(* Refinement: the service implements the ledger *)

StatusOf(h) ==
    IF ~Written(h) THEN "none"
    ELSE IF hold[h].settles + hold[h].refunds = 0 THEN "open"
    ELSE IF hold[h].settles > 0 THEN "settled"
    ELSE "refunded"

Ledger == INSTANCE CreditLedger WITH
            available <- account.balance,
            reserved  <- account.frozen,
            status    <- [h \in Holds |-> StatusOf(h)],
            size      <- [h \in Holds |-> hold[h].amount]

\* Every behaviour of the service is one of the ledger's: each commit is one
\* operation of the ledger, every other step leaves it alone.
ImplementsLedger == Ledger!LedgerSpec
=============================================================================
