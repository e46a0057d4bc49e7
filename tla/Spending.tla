----------------------------- MODULE Spending -----------------------------
(***************************************************************************)
(* Requests of one user that spend credits within one call: the purchase   *)
(* of a market item (market.service.ts), a priced tool                     *)
(* (chat-accounting.service.ts), a run of a skill                          *)
(* (skill-runner.service.ts) and a chat through the model proxy            *)
(* (llm-proxy.service.ts over llm-client.service.ts).  None of them has a  *)
(* row that names its hold, so nothing but the request itself can close    *)
(* it.  The chats share a circuit breaker and the row of a pooled API key  *)
(* (api-key-pool.service.ts), which an administrator edits meanwhile.      *)
(*                                                                         *)
(* A request that finds no item, package or key ends before it has done    *)
(* anything and is left out, so are free items and free tools.  The        *)
(* purchases are of one item, the pooled chats of one key.                 *)
(***************************************************************************)
EXTENDS CreditCalls

CONSTANTS Budget,       \* what the user can spend at first
          Quota,        \* total quotas a key may be given
          Tokens,       \* tokens a chat may use
          Threshold,    \* FAILURE_THRESHOLD
          MaxEdits,     \* bound: edits of the key
          MaxKills,     \* bound: crashes that no request causes
          NotRead       \* no row read

ASSUME SpendingAssumption ==
    /\ Budget \in Nat /\ Quota \subseteq Nat /\ Tokens \subseteq Nat
    /\ Threshold \in Nat \ {0} /\ MaxEdits \in Nat /\ MaxKills \in Nat
    /\ NotRead \notin Nat

VARIABLES at,        \* where the request is
          kind,      \* what it asks for
          answer,    \* what its client was told
          bought,    \* the purchases that wrote a row of purchased_items
          log,       \* the result in the row of skill_install_logs
          pooled,    \* entryId: the chat uses the key of the pool
          seen,      \* the key row deductQuota has read
          key,       \* the key row
          editing,   \* usedQuota as the administrator's update has read it
          circuit,   \* circuitState
          failures,  \* failureCount
          edits,
          kills,
          left,      \* why nobody closes the request's hold (history)
          raced,     \* purchases begun while another was under way (history)
          mixed      \* an edit of the key overlapped a deduction (history)

requestVars == <<at, kind, answer, bought, log, pooled, seen>>
keyVars == <<key, editing, edits, mixed>>
circuitVars == <<circuit, failures>>
history == <<left, raced>>
spendingVars == <<ledgerVars, requestVars, keyVars, circuitVars, kills, history>>

Kinds == {"purchase", "tool", "skill", "chat"}
InPurchase == {"freeze", "settle", "insert"}

SpendingTypeOK ==
    /\ available \in Nat /\ reserved \in Nat
    /\ status \in [Holds -> HoldStatus]
    /\ at \in [Holds -> {"idle", "freeze", "settle", "insert", "run", "logSuccess",
                         "logFailed", "connect", "fetch", "stream", "readKey", "writeKey",
                         "refundStream", "over", "lost"}]
    /\ kind \in [Holds -> Kinds \cup {"none"}]
    /\ answer \in [Holds -> {"none", "ok", "failed"}]
    /\ bought \subseteq Holds
    /\ log \in [Holds -> {"none", "success", "failed"}]
    /\ pooled \in [Holds -> BOOLEAN]
    /\ \A r \in Holds : seen[r] # NotRead => seen[r].used \in Nat /\ seen[r].remaining \in Int
    /\ key.total \in Nat /\ key.used \in Nat /\ key.remaining \in Int
    /\ key.status \in {"active", "exhausted"}
    /\ circuit \in {"closed", "open", "half-open"}
    /\ failures \in 0 .. Threshold
    /\ left \in [Holds -> {"no", "refused", "dropped"}]

SpendingInit ==
    /\ available = Budget
    /\ reserved = 0
    /\ status = [r \in Holds |-> "none"]
    /\ size = [r \in Holds |-> 0]
    /\ at = [r \in Holds |-> "idle"]
    /\ kind = [r \in Holds |-> "none"]
    /\ answer = [r \in Holds |-> "none"]
    /\ bought = {}
    /\ log = [r \in Holds |-> "none"]
    /\ pooled = [r \in Holds |-> FALSE]
    /\ seen = [r \in Holds |-> NotRead]
    /\ \E q \in Quota : key = [total |-> q, used |-> 0, remaining |-> q, status |-> "active"]
    /\ editing = NotRead
    /\ circuit = "closed"
    /\ failures = 0
    /\ edits = 0
    /\ kills = 0
    /\ left = [r \in Holds |-> "no"]
    /\ raced = {}
    /\ mixed = FALSE

-----------------------------------------------------------------------------
(* Steps that several kinds of request share *)

Goto(r, label) == at' = [at EXCEPT ![r] = label]

\* The request is over, and its client knows how.
Answers(r, result) ==
    /\ Goto(r, "over")
    /\ answer' = [answer EXCEPT ![r] = result]

\* Nobody is left to close the hold of r.
Leaves(r, reason) == left' = [left EXCEPT ![r] = reason]

\* A closing call ends; an exception of it is swallowed, the hold stays as it is.
Closes(r, op, outcome) ==
    /\ Calls(op, outcome)
    /\ IF outcome = "refused" THEN Leaves(r, "refused") ELSE UNCHANGED left

\* Only a usable key is chosen, an exhausted one is not.
Usable == key.status = "active" /\ key.remaining > 0

\* The next request; which name it takes is immaterial.
Begin(r, k) ==
    /\ at[r] = "idle"
    /\ r = CHOOSE s \in Holds : at[s] = "idle"
    /\ kind' = [kind EXCEPT ![r] = k]

\* Mutant: a purchase is looked up by request, not by item.
BeginPurchase_NoLookup(r) ==
    /\ Begin(r, "purchase")
    /\ Goto(r, "freeze")
    /\ raced' = IF \E s \in Holds : kind[s] = "purchase" /\ at[s] \in InPurchase
                THEN raced \cup {r} ELSE raced
    /\ UNCHANGED <<ledgerVars, answer, bought, log, pooled, seen, keyVars, circuitVars,
                   kills, left>>

\* purchase: what is owned already is returned and costs nothing.
BeginPurchase(r) ==
    /\ Begin(r, "purchase")
    /\ IF bought # {} THEN Answers(r, "ok") ELSE Goto(r, "freeze") /\ UNCHANGED answer
    /\ raced' = IF \E s \in Holds : kind[s] = "purchase" /\ at[s] \in InPurchase
                THEN raced \cup {r} ELSE raced
    /\ UNCHANGED <<ledgerVars, bought, log, pooled, seen, keyVars, circuitVars, kills, left>>

\* chargeTool and execute.
BeginOther(r) ==
    /\ \E k \in {"tool", "skill"} : Begin(r, k)
    /\ Goto(r, "freeze")
    /\ UNCHANGED <<ledgerVars, answer, bought, log, pooled, seen, keyVars, circuitVars,
                   kills, history>>

\* chatCompletions: the model's own supplier is called directly, otherwise a key of
\* the pool is used.
BeginChat(r) ==
    /\ Begin(r, "chat")
    /\ Goto(r, "freeze")
    /\ \E p \in BOOLEAN : (p => Usable) /\ pooled' = [pooled EXCEPT ![r] = p]
    /\ UNCHANGED <<ledgerVars, answer, bought, log, seen, keyVars, circuitVars, kills, history>>

AfterFreeze(k) == CASE k = "skill" -> "run" [] k = "chat" -> "connect" [] OTHER -> "settle"

\* freezeCredits is awaited by all of them, and its exception is the request's.
Freeze(r) ==
    /\ at[r] = "freeze"
    /\ \E outcome \in Outcomes, a \in Amounts :
        /\ Calls(Reserve(r, a), outcome)
        /\ IF outcome = "ok" THEN Goto(r, AfterFreeze(kind[r])) /\ UNCHANGED <<answer, left>>
                             ELSE Answers(r, "failed") /\ Leaves(r, "refused")
    /\ UNCHANGED <<kind, bought, log, pooled, seen, keyVars, circuitVars, kills, raced>>

-----------------------------------------------------------------------------
(* Purchase and tool *)

\* The price is settled at once; its exception ends the request and the hold stays.
SettlePrice(r) ==
    /\ at[r] = "settle"
    /\ \E outcome \in Outcomes :
        /\ Closes(r, SettleHold(r, size[r]), outcome)
        /\ IF outcome = "ok" /\ kind[r] = "purchase"
           THEN Goto(r, "insert") /\ UNCHANGED answer
           ELSE Answers(r, IF outcome = "ok" THEN "ok" ELSE "failed")
    /\ UNCHANGED <<kind, bought, log, pooled, seen, keyVars, circuitVars, kills, raced>>

\* purchasedRepo.save: the table has no unique key, the insert may fail.
Insert(r) ==
    /\ at[r] = "insert"
    /\ \/ bought' = bought \cup {r} /\ Answers(r, "ok")
       \/ UNCHANGED bought /\ Answers(r, "failed")
    /\ UNCHANGED <<ledgerVars, kind, log, pooled, seen, keyVars, circuitVars, kills, history>>

-----------------------------------------------------------------------------
(* Skill *)

\* The session is saved, or the child process ends (it is killed after 30 seconds), the
\* call is counted, and the estimate is settled; an exception of that is only logged.
SettleSkill(r) ==
    /\ at[r] = "run"
    /\ \E outcome \in Outcomes : Closes(r, SettleHold(r, size[r]), outcome)
    /\ Goto(r, "logSuccess")
    /\ UNCHANGED <<kind, answer, bought, log, pooled, seen, keyVars, circuitVars, kills, raced>>

\* Mutant: the result is not set in the catch block.
RefundSkill_LogsSuccess(r) ==
    /\ at[r] = "run"
    /\ \E outcome \in Outcomes : Closes(r, RefundHold(r), outcome)
    /\ Goto(r, "logSuccess")
    /\ UNCHANGED <<kind, answer, bought, log, pooled, seen, keyVars, circuitVars, kills, raced>>

\* The work or the counter fails.
RefundSkill(r) ==
    /\ at[r] = "run"
    /\ \E outcome \in Outcomes : Closes(r, RefundHold(r), outcome)
    /\ Goto(r, "logFailed")
    /\ UNCHANGED <<kind, answer, bought, log, pooled, seen, keyVars, circuitVars, kills, raced>>

\* writeLog, in the finally block: its exception takes the place of the result.
WriteLog(r) ==
    /\ at[r] \in {"logSuccess", "logFailed"}
    /\ LET success == at[r] = "logSuccess" IN
        \/ /\ log' = [log EXCEPT ![r] = IF success THEN "success" ELSE "failed"]
           /\ Answers(r, IF success THEN "ok" ELSE "failed")
        \/ UNCHANGED log /\ Answers(r, "failed")
    /\ UNCHANGED <<ledgerVars, kind, bought, pooled, seen, keyVars, circuitVars, kills, history>>

-----------------------------------------------------------------------------
(* Chat *)

\* streamChat throws without a callback: the client sees the error, nobody the hold.
Drops(r) == Answers(r, "failed") /\ Leaves(r, "dropped")

\* checkCircuit: 30 seconds after the last failure the open circuit lets calls pass.
Connect(r) ==
    /\ at[r] = "connect"
    /\ \/ /\ circuit' = IF circuit = "open" THEN "half-open" ELSE circuit
          /\ Goto(r, "fetch")
          /\ UNCHANGED <<answer, left>>
       \/ circuit = "open" /\ Drops(r) /\ UNCHANGED circuit
    /\ UNCHANGED <<ledgerVars, kind, bought, log, pooled, seen, keyVars, failures, kills, raced>>

\* recordSuccess: an open circuit stays open.
Recorded ==
    /\ failures' = 0
    /\ circuit' = IF circuit = "half-open" THEN "closed" ELSE circuit

\* Mutant: one failure more is let pass.
RecordedFailure_OffByOne ==
    /\ failures' = IF failures <= Threshold THEN failures + 1 ELSE failures
    /\ circuit' = IF failures' > Threshold THEN "open" ELSE circuit

\* recordFailure; the count is capped at the threshold, where it opens the circuit.
RecordedFailure ==
    /\ failures' = IF failures < Threshold THEN failures + 1 ELSE failures
    /\ circuit' = IF failures' >= Threshold THEN "open" ELSE circuit

\* fetch with its two retries: an answer with a body or without, an error that is
\* not tried again, or the last attempt fails too.
Fetch(r) ==
    /\ at[r] = "fetch"
    /\ \/ Recorded /\ Goto(r, "stream") /\ UNCHANGED <<answer, left>>
       \/ Recorded /\ Drops(r)
       \/ UNCHANGED circuitVars /\ Drops(r)
       \/ RecordedFailure /\ Drops(r)
    /\ UNCHANGED <<ledgerVars, kind, bought, log, pooled, seen, keyVars, kills, raced>>

\* Mutant: onError only tells the client.
ReadFails_NoRefund(r) ==
    /\ at[r] = "stream"
    /\ Answers(r, "failed")
    /\ UNCHANGED <<ledgerVars, kind, bought, log, pooled, seen, keyVars, circuitVars,
                   kills, history>>

\* The body is read, within 60 seconds, whether or not the client still listens.  After
\* an error of it nobody waits for the refund (onError).
ReadFails(r) ==
    /\ at[r] = "stream"
    /\ Goto(r, "refundStream")
    /\ answer' = [answer EXCEPT ![r] = "failed"]
    /\ UNCHANGED <<ledgerVars, kind, bought, log, pooled, seen, keyVars, circuitVars,
                   kills, history>>

\* The process ends and is started again: all requests and the breaker's state go.
Dies ==
    /\ at' = [r \in Holds |-> IF at[r] \in {"idle", "over"} THEN at[r] ELSE "lost"]
    /\ circuit' = "closed"
    /\ failures' = 0
    /\ seen' = [r \in Holds |-> NotRead]
    /\ editing' = NotRead
    /\ kills' = kills + 1

\* settle: the body has ended, its price is settled, or all refunded when it is zero;
\* exceptions of the credit service are swallowed.
SettleChat(r) ==
    /\ at[r] = "stream"
    /\ \E c \in Costs, outcome \in Outcomes :
        Closes(r, IF c > 0 THEN SettleHold(r, c) ELSE RefundHold(r), outcome)
    /\ IF pooled[r] THEN Goto(r, "readKey") /\ UNCHANGED answer ELSE Answers(r, "ok")
    /\ UNCHANGED <<kind, bought, log, pooled, seen, keyVars, circuitVars, kills, raced>>

\* The price cannot be read: after a text streamChat throws.
PriceFails(r) ==
    /\ at[r] = "stream"
    /\ Drops(r)
    /\ UNCHANGED <<ledgerVars, kind, bought, log, pooled, seen, keyVars, circuitVars,
                   kills, raced>>

\* The price cannot be read after tool calls, or the refund of onError is refused: nobody
\* waits for the promise that is rejected, and Node ends the process.
Unhandled(r) ==
    /\ \/ at[r] = "stream" /\ UNCHANGED <<ledgerVars, left>>
       \/ /\ at[r] = "refundStream"
          /\ \E outcome \in Outcomes \ {"ok"} : Closes(r, RefundHold(r), outcome)
    /\ Dies
    /\ UNCHANGED <<kind, answer, bought, log, pooled, key, edits, mixed, raced>>

\* The refund of onError comes through.
RefundStream(r) ==
    /\ at[r] = "refundStream"
    /\ RefundHold(r)
    /\ Goto(r, "over")
    /\ UNCHANGED <<kind, answer, bought, log, pooled, seen, keyVars, circuitVars, kills,
                   history>>

-----------------------------------------------------------------------------
(* The key of the pool *)

\* deductQuota reads the row, or fails, which is swallowed.
ReadKey(r) ==
    /\ at[r] = "readKey"
    /\ \/ /\ seen' = [seen EXCEPT ![r] = [used |-> key.used, remaining |-> key.remaining]]
          /\ Goto(r, "writeKey")
          /\ UNCHANGED answer
       \/ UNCHANGED seen /\ Answers(r, "ok")
    /\ UNCHANGED <<ledgerVars, kind, bought, log, pooled, keyVars, circuitVars, kills, history>>

\* Mutant: what remains is computed from the row as it is now.
Deducted_HalfFresh(old, t) ==
    [key EXCEPT !.used = old.used + t,
                !.remaining = key.remaining - t,
                !.status = IF key.remaining - t <= 0 THEN "exhausted" ELSE @]

\* The patch: both numbers from the row that was read, the status only when nothing
\* remains.
Deducted(old, t) ==
    [key EXCEPT !.used = old.used + t,
                !.remaining = old.remaining - t,
                !.status = IF old.remaining - t <= 0 THEN "exhausted" ELSE @]

WriteKey(r) ==
    /\ at[r] = "writeKey"
    /\ \E t \in Tokens : key' = Deducted(seen[r], t)
    /\ mixed' = (mixed \/ editing # NotRead)
    /\ seen' = [seen EXCEPT ![r] = NotRead]
    /\ Answers(r, "ok")
    /\ UNCHANGED <<ledgerVars, kind, bought, log, pooled, editing, edits, circuitVars,
                   kills, history>>

\* update with another total: the row is read, then what is given and what remains by
\* the quota used then is written; the status is not looked at.
EditRead ==
    /\ edits < MaxEdits
    /\ editing = NotRead
    /\ editing' = key.used
    /\ edits' = edits + 1
    /\ UNCHANGED <<ledgerVars, requestVars, key, mixed, circuitVars, kills, history>>

EditWrite ==
    /\ editing # NotRead
    /\ \E q \in Quota : key' = [key EXCEPT !.total = q, !.remaining = q - editing]
    /\ editing' = NotRead
    /\ mixed' = (mixed \/ \E r \in Holds : at[r] = "writeKey")
    /\ UNCHANGED <<ledgerVars, requestVars, edits, circuitVars, kills, history>>

\* resetErrors makes the key active, whatever remains.
ResetErrors ==
    /\ edits < MaxEdits
    /\ key' = [key EXCEPT !.status = "active"]
    /\ edits' = edits + 1
    /\ UNCHANGED <<ledgerVars, requestVars, editing, mixed, circuitVars, kills, history>>

-----------------------------------------------------------------------------
Killed ==
    /\ kills < MaxKills
    /\ \E r \in Holds : at[r] \notin {"idle", "over", "lost"}
    /\ Dies
    /\ UNCHANGED <<ledgerVars, kind, answer, bought, log, pooled, key, edits, mixed, history>>

RequestStep(r) ==
    \/ Freeze(r) \/ SettlePrice(r) \/ Insert(r)
    \/ SettleSkill(r) \/ RefundSkill(r) \/ WriteLog(r)
    \/ Connect(r) \/ Fetch(r) \/ ReadFails(r) \/ SettleChat(r) \/ PriceFails(r)
    \/ Unhandled(r) \/ RefundStream(r)
    \/ ReadKey(r) \/ WriteKey(r)

SpendingNext ==
    \/ \E r \in Holds : BeginPurchase(r) \/ BeginOther(r) \/ BeginChat(r) \/ RequestStep(r)
    \/ EditRead \/ EditWrite \/ ResetErrors
    \/ Killed

SpendingSpec == SpendingInit /\ [][SpendingNext]_spendingVars

-----------------------------------------------------------------------------
(* Properties *)

\* Those who will close the hold of their request.
Closers == {"settle", "run", "connect", "fetch", "stream", "refundStream"}

\* Frozen credits come back or are spent: as long as a hold is open its request is on
\* the way to close it, unless the process died, a call was refused and the exception
\* swallowed (settle, onError), or streamChat threw without a callback.
OpenHoldIsWatched ==
    \A r \in Holds :
        status[r] = "open" => at[r] \in Closers \cup {"lost"} \/ left[r] # "no"

\* What was served is what was billed: an item owned is paid for, the log of a skill and
\* the hold agree unless a call was refused, and a chat that failed costs nothing.
ServedAsBilled ==
    \A r \in Holds :
        /\ r \in bought => status[r] = "settled"
        /\ log[r] = "success" => status[r] = "settled" \/ left[r] = "refused"
        /\ log[r] = "failed" => status[r] = "refunded" \/ left[r] = "refused"
        /\ kind[r] = "chat" /\ answer[r] = "failed" => status[r] # "settled"

\* An item is paid for once, unless two purchases overlap or a paid one was not recorded.
PaidOnce ==
    \A r, s \in bought :
        r # s => r \in raced \/ s \in raced

\* What a key has used and what remains add up to its total, whatever chats overlap,
\* unless an edit overlapped a deduction; an untouched key that is active is not used up,
\* unless it was made with nothing.
KeyAddsUp ==
    /\ ~mixed => key.used + key.remaining = key.total
    /\ edits = 0 /\ key.status = "active" => key.remaining > 0 \/ key.total = 0
=============================================================================
