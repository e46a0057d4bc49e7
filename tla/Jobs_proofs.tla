---------------------------- MODULE Jobs_proofs ----------------------------
(***************************************************************************)
(* Proofs about the two kinds of work that spend a user's credits under a  *)
(* hold.                                                                   *)
(*                                                                         *)
(* Media jobs, for any number of image and video jobs and of crashes: the  *)
(* invariant says, for every point of a job, what its row is               *)
(* (RowFollowsRunner) and, for an image, which nobody else touches, what   *)
(* its hold is (ImageFollowsRunner).                                       *)
(*                                                                         *)
(* Spending requests, for any number of them, any outcomes of the calls,   *)
(* edits of the key and crashes: the invariant says what a request asks    *)
(* for and what its hold is, by where the request is (RequestInv), how     *)
(* many purchases are alone (LoneInv), what has been read of the key       *)
(* (KeyInv), and that reserved is the sum of the open holds (LedgerInv).   *)
(***************************************************************************)
EXTENDS MediaJobs, Spending, HoldSums, TLAPS

USE LedgerAssumption, OutcomesAssumption, JobsAssumption

Terminal == {"done", "failed"}

\* What the row of a job can be at each point of its runner, whatever its watchdog
\* does meanwhile; a job that is over left no unfinished row, except in a crash.
RowFollowsRunner ==
    \A j \in Holds :
        /\ runner[j] \in {"idle", "create"} => row[j] = "absent" /\ watchdog[j] = "off"
        /\ runner[j] \in {"settle", "refund"} => row[j] \in Terminal
        /\ runner[j] = "over" => row[j] \in Terminal \cup {"absent"} \/ server = "booting"
        /\ runner[j] = "poll" => row[j] # "absent"
        /\ runner[j] \in {"idle", "create", "submit", "poll"} => streak[j] < 3

\* A booting server runs no job; an orphan being refunded is saved as failed.
BootIsAlone ==
    /\ server = "booting" => \A j \in Holds : runner[j] \in {"idle", "over"}
    /\ recovering # None => server = "booting" /\ row[recovering] = "failed"

SafeInv == TypeOK /\ RowFollowsRunner /\ BootIsAlone

-----------------------------------------------------------------------------
(* Type correctness *)

\* The operations of the ledger keep the types of its variables, and change the
\* status of one hold at most, an open one to a closed one.
LEMMA CallType ==
    ASSUME TypeOK, NEW j \in Holds, NEW outcome \in Outcomes,
           Calls(SettleHold(j, size[j]), outcome) \/ Calls(RefundHold(j), outcome)
    PROVE  /\ available' \in Nat /\ reserved' \in Int
           /\ status' \in [Holds -> HoldStatus]
           /\ size' \in [Holds -> Nat]
<1>1. CASE UNCHANGED ledgerVars
  BY <1>1 DEF TypeOK, ledgerVars
<1>2. CASE Settle(j, size[j])
  BY <1>2 DEF TypeOK, Settle, HoldStatus
<1>3. CASE Refund(j)
  BY <1>3 DEF TypeOK, Refund, HoldStatus
<1>4. QED BY <1>1, <1>2, <1>3 DEF Calls, SettleHold, RefundHold

\* Nothing has happened yet.
LEMMA InitSafe == Init => SafeInv
  BY DEF Init, SafeInv, TypeOK, RowFollowsRunner, BootIsAlone, HoldStatus

\* A step of a request or of a loop preserves the invariant.
LEMMA RunnerSafe ==
    ASSUME SafeInv, NEW j \in Holds, Charge(j) \/ RunnerStep(j)
    PROVE  SafeInv'
<1> USE DEF SafeInv, TypeOK, RowFollowsRunner, BootIsAlone, Terminal, Run, Save,
            jobVars, serverVars
<1>1. CASE Charge(j)
  BY <1>1 DEF Charge, Reserve, HoldStatus
<1>2. CASE CreateRow(j)
  BY <1>2 DEF CreateRow, ledgerVars
<1>3. CASE Submit(j)
  BY <1>3 DEF Submit, ledgerVars
<1>4. CASE SubmitFails(j)
  BY <1>4 DEF SubmitFails, ledgerVars
<1>5. CASE PollProcessing(j)
  BY <1>5 DEF PollProcessing, ledgerVars
<1>6. CASE PollError(j)
  BY <1>6 DEF PollError, ledgerVars
<1>7. CASE PollDone(j)
  BY <1>7 DEF PollDone, ledgerVars
<1>8. CASE PollFailed(j)
  BY <1>8 DEF PollFailed, ledgerVars
<1>9. CASE PollTimeout(j)
  BY <1>9 DEF PollTimeout, ledgerVars
<1>10. CASE Generate(j)
  BY <1>10 DEF Generate, ledgerVars
<1>11. CASE SaveDone(j)
  BY <1>11 DEF SaveDone, ledgerVars
<1>12. CASE SettleJob(j)
  BY <1>12, CallType DEF SettleJob, CreditCall
<1>13. CASE SaveFailed(j)
  BY <1>13 DEF SaveFailed, ledgerVars
<1>14. CASE RefundJob(j)
  BY <1>14, CallType DEF RefundJob, CreditCall
<1>15. QED
  BY <1>1, <1>2, <1>3, <1>4, <1>5, <1>6, <1>7, <1>8, <1>9, <1>10, <1>11, <1>12,
     <1>13, <1>14 DEF RunnerStep

\* A step of a watchdog preserves the invariant.
LEMMA WatchdogSafe ==
    ASSUME SafeInv, NEW j \in Holds, WatchdogStep(j)
    PROVE  SafeInv'
<1> USE DEF SafeInv, TypeOK, RowFollowsRunner, BootIsAlone, Terminal, Run, Save,
            jobVars, serverVars
<1>1. CASE WatchdogFires(j)
  BY <1>1 DEF WatchdogFires, ledgerVars
<1>2. CASE WatchdogSaves(j)
  BY <1>2 DEF WatchdogSaves, ledgerVars
<1>3. CASE WatchdogRefunds(j)
  BY <1>3, CallType DEF WatchdogRefunds, CreditCall
<1>4. QED BY <1>1, <1>2, <1>3 DEF WatchdogStep

\* A crash and the steps of onModuleInit preserve the invariant.
LEMMA BootSafe ==
    ASSUME SafeInv, Crash \/ BootStep
    PROVE  SafeInv'
<1> USE DEF SafeInv, TypeOK, RowFollowsRunner, BootIsAlone, Terminal, Run, Save,
            jobVars, serverVars
<1>1. CASE Crash
  BY <1>1 DEF Crash, ledgerVars
<1>2. ASSUME NEW j \in Holds, RecoverSave(j) PROVE SafeInv'
  BY <1>2 DEF RecoverSave, Orphans, ledgerVars
<1>3. CASE RecoverRefund
  BY <1>3, CallType DEF RecoverRefund, CreditCall
<1>4. CASE Booted
  BY <1>4 DEF Booted, Orphans, ledgerVars
<1>5. QED BY <1>1, <1>2, <1>3, <1>4 DEF BootStep

\* Every step preserves the invariant.
LEMMA StepSafe == SafeInv /\ [Next]_vars => SafeInv'
<1> SUFFICES ASSUME SafeInv, [Next]_vars PROVE SafeInv'
  OBVIOUS
<1>1. ASSUME NEW j \in Holds, Charge(j) \/ RunnerStep(j) PROVE SafeInv'
  BY <1>1, RunnerSafe
<1>2. ASSUME NEW j \in Holds, WatchdogStep(j) PROVE SafeInv'
  BY <1>2, WatchdogSafe
<1>3. CASE Crash \/ BootStep
  BY <1>3, BootSafe
<1>4. CASE UNCHANGED vars
  BY <1>4 DEF vars, ledgerVars, jobVars, serverVars, SafeInv, TypeOK,
              RowFollowsRunner, BootIsAlone
<1>5. QED BY <1>1, <1>2, <1>3, <1>4 DEF Next

\* The invariant holds in every reachable state.
LEMMA Safe == Spec => []SafeInv
  BY InitSafe, StepSafe, PTL DEF Spec

\* Every variable keeps its type.
THEOREM TypeCorrect == Spec => []TypeOK
  BY Safe, PTL DEF SafeInv

\* A running server works on every unfinished row, after any number of crashes:
\* onModuleInit leaves none behind, and no loop ends without a final status.
THEOREM NoOrphans == Spec => []NoOrphanOnceUp
<1>1. SafeInv => NoOrphanOnceUp
  <2> SUFFICES ASSUME SafeInv, server = "up", NEW j \in Holds,
                      row[j] \in {"pending", "processing"}
               PROVE  Active(j)
    BY DEF NoOrphanOnceUp
  <2>1. runner[j] \notin {"idle", "over"}
    BY DEF SafeInv, RowFollowsRunner, Terminal
  <2>2. QED BY <2>1 DEF Active
<1>2. QED BY Safe, <1>1, PTL

-----------------------------------------------------------------------------
(* Billing of images *)

\* An image's hold is open until its row is final and its runner's last call, or the
\* recovery's, closes it.
ImageFollowsRunner ==
    \A j \in Holds \ Videos :
        /\ watchdog[j] = "off"
        /\ runner[j] \notin {"submit", "poll"}
        /\ runner[j] = "idle" => status[j] = "none"
        /\ Active(j) => status[j] = "open"
        /\ runner[j] = "settle" => row[j] = "done"
        /\ runner[j] = "refund" => row[j] = "failed"
        /\ status[j] \in {"settled", "refunded"} => row[j] \in Terminal

BillInv == SafeInv /\ ImageFollowsRunner /\ ImagesBilledRight

\* A call that closes a hold leaves every other hold alone; a refused one, all.
LEMMA CallEffect ==
    ASSUME TypeOK, NEW j \in Holds, NEW outcome \in Outcomes
    PROVE  /\ Calls(SettleHold(j, size[j]), outcome) =>
                \/ status' = status
                \/ status' = [status EXCEPT ![j] = "settled"]
           /\ Calls(RefundHold(j), outcome) =>
                \/ status' = status
                \/ status[j] = "open" /\ status' = [status EXCEPT ![j] = "refunded"]
           /\ outcome = "refused" =>
                (Calls(SettleHold(j, size[j]), outcome) => status' = status)
  BY DEF Calls, SettleHold, RefundHold, Settle, Refund, ledgerVars

\* A step of a request or of a loop preserves the billing invariant.
LEMMA RunnerBills ==
    ASSUME BillInv, "unsure" \notin Outcomes, NEW j \in Holds, Charge(j) \/ RunnerStep(j)
    PROVE  ImageFollowsRunner' /\ ImagesBilledRight'
<1> USE DEF BillInv, SafeInv, TypeOK, RowFollowsRunner, ImageFollowsRunner,
            ImagesBilledRight, Terminal, Run, Save, Active, jobVars, serverVars
<1>1. CASE Charge(j)
  BY <1>1 DEF Charge, Reserve, HoldStatus
<1>2. CASE CreateRow(j)
  BY <1>2 DEF CreateRow, ledgerVars
<1>3. CASE Submit(j)
  BY <1>3 DEF Submit, ledgerVars
<1>4. CASE SubmitFails(j)
  BY <1>4 DEF SubmitFails, ledgerVars
<1>5. CASE PollProcessing(j)
  BY <1>5 DEF PollProcessing, ledgerVars
<1>6. CASE PollError(j)
  BY <1>6 DEF PollError, ledgerVars
<1>7. CASE PollDone(j)
  BY <1>7 DEF PollDone, ledgerVars
<1>8. CASE PollFailed(j)
  BY <1>8 DEF PollFailed, ledgerVars
<1>9. CASE PollTimeout(j)
  BY <1>9 DEF PollTimeout, ledgerVars
<1>10. CASE Generate(j)
  BY <1>10 DEF Generate, ledgerVars
<1>11. CASE SaveDone(j)
  BY <1>11 DEF SaveDone, ledgerVars
<1>12. CASE SettleJob(j)
  <2>1. PICK outcome \in Outcomes :
            /\ Calls(SettleHold(j, size[j]), outcome)
            /\ runner' = [runner EXCEPT ![j] = IF outcome = "ok" THEN "over" ELSE "saveFailed"]
    BY <1>12 DEF SettleJob, CreditCall
  <2>2. UNCHANGED <<row, watchdog>> /\ runner[j] = "settle"
    BY <1>12 DEF SettleJob
  <2>3. CASE outcome = "ok"
    BY <2>1, <2>2, <2>3, CallEffect
  <2>4. CASE outcome = "refused"
    BY <2>1, <2>2, <2>4, CallEffect
  <2>5. QED BY <2>3, <2>4
<1>13. CASE SaveFailed(j)
  BY <1>13 DEF SaveFailed, ledgerVars
<1>14. CASE RefundJob(j)
  BY <1>14, CallEffect DEF RefundJob, CreditCall
<1>15. QED
  BY <1>1, <1>2, <1>3, <1>4, <1>5, <1>6, <1>7, <1>8, <1>9, <1>10, <1>11, <1>12,
     <1>13, <1>14 DEF RunnerStep

\* A watchdog has no business with images; onModuleInit refunds what it has failed.
LEMMA OthersBill ==
    ASSUME BillInv, NEW j \in Holds, WatchdogStep(j) \/ Crash \/ BootStep
    PROVE  ImageFollowsRunner' /\ ImagesBilledRight'
<1> USE DEF BillInv, SafeInv, TypeOK, RowFollowsRunner, BootIsAlone,
            ImageFollowsRunner, ImagesBilledRight, Terminal, Run, Save, Active,
            jobVars, serverVars
<1>1. CASE WatchdogFires(j)
  BY <1>1 DEF WatchdogFires, ledgerVars
<1>2. CASE WatchdogSaves(j)
  BY <1>2 DEF WatchdogSaves, ledgerVars
<1>3. CASE WatchdogRefunds(j)
  BY <1>3, CallEffect DEF WatchdogRefunds, CreditCall
<1>4. CASE Crash
  BY <1>4 DEF Crash, ledgerVars
<1>5. ASSUME NEW k \in Holds, RecoverSave(k)
      PROVE  ImageFollowsRunner' /\ ImagesBilledRight'
  BY <1>5 DEF RecoverSave, Orphans, ledgerVars
<1>6. CASE RecoverRefund
  BY <1>6, CallEffect DEF RecoverRefund, CreditCall
<1>7. CASE Booted
  BY <1>7 DEF Booted, ledgerVars
<1>8. QED BY <1>1, <1>2, <1>3, <1>4, <1>5, <1>6, <1>7 DEF WatchdogStep, BootStep

\* An image is paid for exactly if it was delivered, and refunded only if it was not,
\* as long as a credit call that throws has done nothing.
THEOREM ImagesBilled ==
    ASSUME "unsure" \notin Outcomes
    PROVE  Spec => []ImagesBilledRight
<1>1. Init => BillInv
  BY InitSafe DEF Init, BillInv, ImageFollowsRunner, ImagesBilledRight, Active
<1>2. BillInv /\ [Next]_vars => BillInv'
  <2> SUFFICES ASSUME BillInv, [Next]_vars PROVE BillInv'
    OBVIOUS
  <2>1. SafeInv'
    BY StepSafe DEF BillInv
  <2>2. ASSUME NEW j \in Holds, Charge(j) \/ RunnerStep(j)
        PROVE  ImageFollowsRunner' /\ ImagesBilledRight'
    BY <2>2, RunnerBills
  <2>3. ASSUME NEW j \in Holds, WatchdogStep(j) \/ Crash \/ BootStep
        PROVE  ImageFollowsRunner' /\ ImagesBilledRight'
    BY <2>3, OthersBill
  <2>4. ASSUME UNCHANGED vars PROVE ImageFollowsRunner' /\ ImagesBilledRight'
    BY <2>4 DEF vars, ledgerVars, jobVars, serverVars, BillInv, ImageFollowsRunner,
                ImagesBilledRight, Active
  <2>5. ASSUME Holds = {} PROVE ImageFollowsRunner' /\ ImagesBilledRight'
    BY <2>5 DEF ImageFollowsRunner, ImagesBilledRight
  <2>6. ImageFollowsRunner' /\ ImagesBilledRight'
    BY <2>2, <2>3, <2>4, <2>5 DEF Next
  <2>7. QED BY <2>1, <2>6 DEF BillInv
<1>3. QED BY <1>1, <1>2, PTL DEF Spec, BillInv

-----------------------------------------------------------------------------
(* Nobody forgets a hold *)

\* Only the runner itself saves a job as done, when it stops polling.
NotDoneYet == \A j \in Holds : runner[j] = "poll" => row[j] # "done"

CloserInv == SafeInv /\ NotDoneYet /\ OpenHoldHasCloser

\* A call that is not refused closes the hold; it opens none.
LEMMA CallCloses ==
    ASSUME TypeOK, NEW j \in Holds, NEW outcome \in Outcomes,
           \/ CreditCall(j, SettleHold(j, size[j]), outcome)
           \/ CreditCall(j, RefundHold(j), outcome)
    PROVE  /\ \A k \in Holds : status'[k] = "open" => status[k] = "open"
           /\ status'[j] = "open" => j \in refused'
           /\ refused \subseteq refused'
<1>1. CASE outcome = "refused"
  BY <1>1 DEF CreditCall, Calls, ledgerVars
<1>2. CASE outcome # "refused" /\ status[j] # "open"
  BY <1>2 DEF CreditCall, Calls, SettleHold, RefundHold, ledgerVars
<1>3. CASE outcome # "refused" /\ status[j] = "open"
  BY <1>3 DEF CreditCall, Calls, SettleHold, RefundHold, Settle, Refund, TypeOK
<1>. QED BY <1>1, <1>2, <1>3

\* A step of a request or of a loop leaves no hold behind.
LEMMA RunnerCloses ==
    ASSUME CloserInv, NEW j \in Holds, Charge(j) \/ RunnerStep(j)
    PROVE  NotDoneYet' /\ OpenHoldHasCloser'
<1> USE DEF CloserInv, SafeInv, TypeOK, NotDoneYet, OpenHoldHasCloser, Run, Save, Active,
            jobVars, serverVars
<1>1. CASE Charge(j)
  BY <1>1 DEF Charge, Reserve, RowFollowsRunner
<1>2. CASE CreateRow(j)
  BY <1>2 DEF CreateRow, ledgerVars
<1>3. CASE Submit(j)
  BY <1>3 DEF Submit, ledgerVars
<1>4. CASE SubmitFails(j)
  BY <1>4 DEF SubmitFails, ledgerVars
<1>5. CASE PollProcessing(j)
  BY <1>5 DEF PollProcessing, ledgerVars
<1>6. CASE PollError(j)
  BY <1>6 DEF PollError, ledgerVars
<1>7. CASE PollDone(j)
  BY <1>7 DEF PollDone, ledgerVars
<1>8. CASE PollFailed(j)
  BY <1>8 DEF PollFailed, ledgerVars
<1>9. CASE PollTimeout(j)
  BY <1>9 DEF PollTimeout, ledgerVars
<1>10. CASE Generate(j)
  BY <1>10 DEF Generate, ledgerVars
<1>11. CASE SaveDone(j)
  BY <1>11 DEF SaveDone, ledgerVars
<1>12. CASE SettleJob(j)
  BY <1>12, CallCloses DEF SettleJob
<1>13. CASE SaveFailed(j)
  BY <1>13 DEF SaveFailed, ledgerVars
<1>14. CASE RefundJob(j)
  BY <1>14, CallCloses DEF RefundJob
<1>15. QED
  BY <1>1, <1>2, <1>3, <1>4, <1>5, <1>6, <1>7, <1>8, <1>9, <1>10, <1>11, <1>12,
     <1>13, <1>14 DEF RunnerStep

\* Neither does a watchdog, and a crash ends the promise.
LEMMA OthersClose ==
    ASSUME CloserInv, NEW j \in Holds, WatchdogStep(j) \/ Crash \/ BootStep
    PROVE  NotDoneYet' /\ OpenHoldHasCloser'
<1> USE DEF CloserInv, SafeInv, TypeOK, NotDoneYet, OpenHoldHasCloser, Run, Save, Active,
            jobVars, serverVars
<1>1. CASE WatchdogFires(j)
  BY <1>1 DEF WatchdogFires, ledgerVars
<1>2. CASE WatchdogSaves(j)
  BY <1>2 DEF WatchdogSaves, ledgerVars
<1>3. CASE WatchdogRefunds(j)
  BY <1>3, CallCloses DEF WatchdogRefunds
<1>4. CASE Crash
  BY <1>4 DEF Crash, ledgerVars
<1>5. ASSUME NEW k \in Holds, RecoverSave(k) PROVE NotDoneYet' /\ OpenHoldHasCloser'
  BY <1>5 DEF RecoverSave, ledgerVars
<1>6. CASE RecoverRefund
  <2>1. recovering \in Holds
    BY <1>6 DEF RecoverRefund
  <2>. QED BY <1>6, <2>1, CallCloses DEF RecoverRefund
<1>7. CASE Booted
  BY <1>7 DEF Booted, ledgerVars
<1>8. QED BY <1>1, <1>2, <1>3, <1>4, <1>5, <1>6, <1>7 DEF WatchdogStep, BootStep

\* Without a crash, an open hold whose closing call was not refused has somebody who
\* will close it, for any number of jobs, polls and orders of loop and watchdog.
THEOREM OpenHoldsAreWatched == Spec => []OpenHoldHasCloser
<1>1. Init => CloserInv
  BY InitSafe DEF Init, CloserInv, NotDoneYet, OpenHoldHasCloser
<1>2. CloserInv /\ [Next]_vars => CloserInv'
  <2> SUFFICES ASSUME CloserInv, [Next]_vars PROVE CloserInv'
    OBVIOUS
  <2>1. SafeInv'
    BY StepSafe DEF CloserInv
  <2>2. ASSUME NEW j \in Holds, Charge(j) \/ RunnerStep(j)
        PROVE  NotDoneYet' /\ OpenHoldHasCloser'
    BY <2>2, RunnerCloses
  <2>3. ASSUME NEW j \in Holds, WatchdogStep(j) \/ Crash \/ BootStep
        PROVE  NotDoneYet' /\ OpenHoldHasCloser'
    BY <2>3, OthersClose
  <2>4. ASSUME UNCHANGED vars PROVE NotDoneYet' /\ OpenHoldHasCloser'
    BY <2>4 DEF vars, ledgerVars, jobVars, serverVars, CloserInv, NotDoneYet,
                OpenHoldHasCloser, Active
  <2>5. ASSUME Holds = {} PROVE NotDoneYet' /\ OpenHoldHasCloser'
    BY <2>5 DEF NotDoneYet, OpenHoldHasCloser
  <2>6. NotDoneYet' /\ OpenHoldHasCloser'
    BY <2>2, <2>3, <2>4, <2>5 DEF Next
  <2>7. QED BY <2>1, <2>6 DEF CloserInv
<1>3. QED BY <1>1, <1>2, PTL DEF Spec, CloserInv

-----------------------------------------------------------------------------
(* Spending: types *)

\* Where a request is.
Points == {"idle", "freeze", "settle", "insert", "run", "logSuccess", "logFailed", "connect",
           "fetch", "stream", "readKey", "writeKey", "refundStream", "over", "lost"}

KeyRow == [total : Nat, used : Nat, remaining : Int, status : {"active", "exhausted"}]

\* The types of all variables but the sums of the ledger.
Typed ==
    /\ status \in [Holds -> HoldStatus]
    /\ at \in [Holds -> Points]
    /\ kind \in [Holds -> Kinds \cup {"none"}]
    /\ answer \in [Holds -> {"none", "ok", "failed"}]
    /\ bought \subseteq Holds
    /\ log \in [Holds -> {"none", "success", "failed"}]
    /\ pooled \in [Holds -> BOOLEAN]
    /\ seen \in [Holds -> {NotRead} \cup [used : Nat, remaining : Int]]
    /\ key \in KeyRow
    /\ editing \in Nat \cup {NotRead}
    /\ circuit \in {"closed", "open", "half-open"}
    /\ failures \in 0 .. Threshold
    /\ edits \in Nat /\ mixed \in BOOLEAN
    /\ left \in [Holds -> {"no", "refused", "dropped"}]

\* deductQuota writes what it has read.
ReadFirst == \A r \in Holds : at[r] = "writeKey" => seen[r] \in [used : Nat, remaining : Int]

TypedInv == Typed /\ ReadFirst

\* What a closing call that may be refused does to the hold and leaves behind.
LEMMA SettlesEffect ==
    ASSUME Typed, NEW r \in Holds, NEW outcome \in Outcomes, NEW c,
           Closes(r, SettleHold(r, c), outcome)
    PROVE  /\ outcome = "refused" => status' = status /\ left' = [left EXCEPT ![r] = "refused"]
           /\ outcome # "refused" =>
                 /\ left' = left
                 /\ status' = IF status[r] = "open"
                              THEN [status EXCEPT ![r] = "settled"] ELSE status
  BY DEF Closes, Leaves, Calls, SettleHold, Settle, ledgerVars

\* ... and a refund likewise.
LEMMA RefundsEffect ==
    ASSUME Typed, NEW r \in Holds, NEW outcome \in Outcomes, Closes(r, RefundHold(r), outcome)
    PROVE  /\ outcome = "refused" => status' = status /\ left' = [left EXCEPT ![r] = "refused"]
           /\ outcome # "refused" =>
                 /\ left' = left
                 /\ status' = IF status[r] = "open"
                              THEN [status EXCEPT ![r] = "refunded"] ELSE status
  BY DEF Closes, Leaves, Calls, RefundHold, Refund, ledgerVars

\* Both keep the types.
LEMMA ClosesTyped ==
    ASSUME Typed, NEW r \in Holds, NEW outcome \in Outcomes, NEW c,
           Closes(r, SettleHold(r, c), outcome) \/ Closes(r, RefundHold(r), outcome)
    PROVE  /\ status' \in [Holds -> HoldStatus]
           /\ left' \in [Holds -> {"no", "refused", "dropped"}]
  BY SettlesEffect, RefundsEffect DEF Typed, HoldStatus

\* The key row remains one.
LEMMA KeyRowUpdates ==
    ASSUME NEW k \in KeyRow, NEW n \in Nat, NEW m \in Int
    PROVE  /\ [k EXCEPT !.used = n, !.remaining = m] \in KeyRow
           /\ [k EXCEPT !.total = n, !.remaining = m] \in KeyRow
           /\ \A s \in {"active", "exhausted"} : [k EXCEPT !.status = s] \in KeyRow
  BY DEF KeyRow

\* A deduction leaves a key row.
LEMMA DeductedRow ==
    ASSUME NEW old \in [used : Nat, remaining : Int], NEW t \in Nat, key \in KeyRow
    PROVE  Deducted(old, t) \in KeyRow
  <1> DEFINE l == [key EXCEPT !.used = old.used + t, !.remaining = old.remaining - t]
             s == IF old.remaining - t <= 0 THEN "exhausted" ELSE l.status
  <1>1. old.used + t \in Nat /\ old.remaining - t \in Int
    OBVIOUS
  <1>2. l \in KeyRow
    BY <1>1, KeyRowUpdates
  <1>3. Deducted(old, t) = [l EXCEPT !.status = s]
    BY DEF Deducted
  <1> HIDE DEF l
  <1>4. s \in {"active", "exhausted"}
    BY <1>2 DEF KeyRow
  <1> HIDE DEF s
  <1>5. [l EXCEPT !.status = s] \in KeyRow
    BY <1>2, <1>4, KeyRowUpdates
  <1>6. QED
    BY <1>3, <1>5

\* The initial state is typed,
LEMMA SpendingInitTyped == SpendingInit => TypedInv
  <1> SUFFICES ASSUME SpendingInit PROVE TypedInv
    OBVIOUS
  <1>1. key \in KeyRow /\ 0 \in 0 .. Threshold
    BY SpendingAssumption DEF SpendingInit, KeyRow
  <1>2. QED
    BY <1>1 DEF SpendingInit, TypedInv, Typed, ReadFirst, Points, Kinds, HoldStatus

\* The request's own steps that leave the key and the circuit alone.
LEMMA RequestTyped ==
    ASSUME TypedInv, NEW r \in Holds,
           \/ BeginPurchase(r) \/ BeginOther(r) \/ BeginChat(r) \/ Freeze(r) \/ SettlePrice(r)
           \/ Insert(r) \/ SettleSkill(r) \/ RefundSkill(r) \/ WriteLog(r) \/ ReadFails(r)
           \/ SettleChat(r) \/ PriceFails(r) \/ RefundStream(r) \/ ReadKey(r)
    PROVE  TypedInv'
  <1> USE DEF TypedInv, Typed, ReadFirst, Points, Kinds, Goto, Answers, Leaves, Begin, Drops,
              keyVars, circuitVars, history, ledgerVars
  <1>1. CASE BeginPurchase(r)
    <2>1. \E a \in {"over", "freeze"}, n \in {answer[r], "ok"} :
              at' = [at EXCEPT ![r] = a] /\ answer' = [answer EXCEPT ![r] = n]
      BY <1>1 DEF BeginPurchase
    <2>2. at' \in [Holds -> Points] /\ answer' \in [Holds -> {"none", "ok", "failed"}] /\ ReadFirst'
      BY <1>1, <2>1 DEF BeginPurchase
    <2>3. QED
      BY <1>1, <2>2 DEF BeginPurchase
  <1>2. CASE BeginOther(r)
    BY <1>2 DEF BeginOther
  <1>3. CASE BeginChat(r)
    BY <1>3 DEF BeginChat
  <1>4. CASE Freeze(r)
    <2>1. PICK outcome \in Outcomes, a \in Amounts : Calls(Reserve(r, a), outcome)
      BY <1>4 DEF Freeze
    <2>2. status' \in [Holds -> HoldStatus]
      BY <2>1 DEF Calls, Reserve, HoldStatus
    <2>3. at' = [at EXCEPT ![r] = AfterFreeze(kind[r])] \/ at' = [at EXCEPT ![r] = "over"]
      BY <1>4 DEF Freeze
    <2>4. AfterFreeze(kind[r]) \in {"run", "connect", "settle"}
      BY DEF AfterFreeze
    <2>5. QED
      BY <1>4, <2>2, <2>3, <2>4 DEF Freeze
  <1>5. CASE SettlePrice(r)
    <2>1. PICK outcome \in Outcomes : Closes(r, SettleHold(r, size[r]), outcome)
      BY <1>5 DEF SettlePrice
    <2>2. QED
      BY <1>5, <2>1, ClosesTyped DEF SettlePrice
  <1>6. CASE Insert(r)
    BY <1>6 DEF Insert
  <1>7. CASE SettleSkill(r)
    BY <1>7, ClosesTyped DEF SettleSkill
  <1>8. CASE RefundSkill(r)
    BY <1>8, ClosesTyped DEF RefundSkill
  <1>9. CASE WriteLog(r)
    BY <1>9 DEF WriteLog
  <1>10. CASE ReadFails(r)
    BY <1>10 DEF ReadFails
  <1>11. CASE SettleChat(r)
    <2>1. PICK c \in Costs, outcome \in Outcomes :
             Closes(r, SettleHold(r, c), outcome) \/ Closes(r, RefundHold(r), outcome)
      BY <1>11 DEF SettleChat
    <2>2. status' \in [Holds -> HoldStatus] /\ left' \in [Holds -> {"no", "refused", "dropped"}]
      BY <2>1, ClosesTyped
    <2>3. /\ UNCHANGED <<kind, bought, log, pooled, seen, keyVars, circuitVars>>
          /\ \/ at' = [at EXCEPT ![r] = "readKey"] /\ answer' = answer
             \/ at' = [at EXCEPT ![r] = "over"] /\ answer' = [answer EXCEPT ![r] = "ok"]
      BY <1>11 DEF SettleChat
    <2>4. QED
      BY <2>2, <2>3
  <1>12. CASE PriceFails(r)
    BY <1>12 DEF PriceFails
  <1>13. CASE RefundStream(r)
    BY <1>13 DEF RefundStream, RefundHold, Refund, HoldStatus
  <1>14. CASE ReadKey(r)
    BY <1>14 DEF ReadKey, KeyRow
  <1>15. QED
    BY <1>1, <1>2, <1>3, <1>4, <1>5, <1>6, <1>7, <1>8, <1>9, <1>10, <1>11, <1>12, <1>13, <1>14

\* The steps that count failures, that write the key, and those that end the process.
LEMMA SharedTyped ==
    ASSUME TypedInv, SpendingNext,
           \/ \E r \in Holds : Connect(r) \/ Fetch(r) \/ Unhandled(r) \/ WriteKey(r)
           \/ EditRead \/ EditWrite \/ ResetErrors \/ Killed
    PROVE  TypedInv'
  <1> USE DEF TypedInv, Typed, ReadFirst, Points, Goto, Answers, Leaves, Drops,
              requestVars, keyVars, circuitVars, history, ledgerVars
  <1>1. ASSUME NEW r \in Holds, Connect(r) PROVE TypedInv'
    BY <1>1 DEF Connect
  <1>2. ASSUME NEW r \in Holds, Fetch(r) PROVE TypedInv'
    BY <1>2, SpendingAssumption DEF Fetch, Recorded, RecordedFailure
  <1>3. ASSUME Dies PROVE /\ at' \in [Holds -> Points] /\ ReadFirst'
                          /\ seen' \in [Holds -> {NotRead}] /\ editing' = NotRead
                          /\ circuit' = "closed" /\ failures' \in 0 .. Threshold
    BY <1>3, SpendingAssumption DEF Dies
  <1>4. ASSUME NEW r \in Holds, Unhandled(r) PROVE TypedInv'
    <2>1. status' \in [Holds -> HoldStatus] /\ left' \in [Holds -> {"no", "refused", "dropped"}]
      BY <1>4, ClosesTyped DEF Unhandled
    <2>2. QED
      BY <1>3, <1>4, <2>1 DEF Unhandled
  <1>5. ASSUME NEW r \in Holds, WriteKey(r) PROVE TypedInv'
    <2>1. PICK t \in Tokens : key' = Deducted(seen[r], t)
      BY <1>5 DEF WriteKey
    <2>2. seen[r] \in [used : Nat, remaining : Int] /\ t \in Nat
      BY <1>5, SpendingAssumption DEF WriteKey
    <2>3. key' \in KeyRow
      BY <2>1, <2>2, DeductedRow
    <2>4. QED
      BY <1>5, <2>3 DEF WriteKey
  <1>6. CASE EditRead
    BY <1>6 DEF EditRead, KeyRow
  <1>7. CASE EditWrite
    <2>1. PICK q \in Quota : key' = [key EXCEPT !.total = q, !.remaining = q - editing]
      BY <1>7 DEF EditWrite
    <2>2. q \in Nat /\ q - editing \in Int
      <3>1. q \in Nat /\ editing \in Nat
        BY <1>7, SpendingAssumption DEF EditWrite
      <3>2. QED
        BY <3>1
    <2>3. key' \in KeyRow
      BY <2>1, <2>2, KeyRowUpdates
    <2>4. QED
      BY <1>7, <2>3 DEF EditWrite
  <1>8. CASE ResetErrors
    BY <1>8 DEF ResetErrors, KeyRow
  <1>9. CASE Killed
    BY <1>3, <1>9 DEF Killed
  <1>10. QED
    BY <1>1, <1>2, <1>4, <1>5, <1>6, <1>7, <1>8, <1>9

\* and every step keeps that.
LEMMA SpendingStepTyped == TypedInv /\ [SpendingNext]_spendingVars => TypedInv'
  <1> SUFFICES ASSUME TypedInv, [SpendingNext]_spendingVars PROVE TypedInv'
    OBVIOUS
  <1>1. CASE UNCHANGED spendingVars
    BY <1>1 DEF TypedInv, Typed, ReadFirst, spendingVars, ledgerVars, requestVars, keyVars,
                circuitVars, history
  <1>2. CASE SpendingNext
    BY <1>2, RequestTyped, SharedTyped DEF SpendingNext, RequestStep
  <1>3. QED
    BY <1>1, <1>2
-----------------------------------------------------------------------------
(* Spending: requests and their holds *)

\* What a request asks for, by where it is.
KindFits ==
    \A r \in Holds :
        /\ at[r] = "freeze" => kind[r] \in Kinds
        /\ at[r] = "settle" => kind[r] \in {"purchase", "tool"}
        /\ at[r] = "insert" => kind[r] = "purchase"
        /\ at[r] \in {"run", "logSuccess", "logFailed"} => kind[r] = "skill"
        /\ at[r] \in {"connect", "fetch", "stream", "refundStream", "readKey", "writeKey"} =>
               kind[r] = "chat"

\* What its hold is, by where it is.
HoldFits ==
    \A r \in Holds :
        /\ at[r] \in {"idle", "freeze"} => status[r] = "none"
        /\ at[r] \in Closers => status[r] = "open"
        /\ at[r] = "insert" => status[r] = "settled"
        /\ at[r] = "logSuccess" => status[r] = "settled" \/ left[r] = "refused"
        /\ at[r] = "logFailed" => status[r] = "refunded" \/ left[r] = "refused"

\* What is bought, logged or answered was so at the end of a request.
EndFits ==
    \A r \in Holds :
        /\ r \in bought => at[r] = "over"
        /\ log[r] # "none" => at[r] = "over"
        /\ answer[r] = "failed" => at[r] \in {"over", "refundStream", "lost"}

RequestInv == KindFits /\ HoldFits /\ EndFits /\ OpenHoldIsWatched /\ ServedAsBilled

\* Nothing is under way at first,
LEMMA SpendingInitRequests == SpendingInit => RequestInv
  BY DEF SpendingInit, RequestInv, KindFits, HoldFits, EndFits, OpenHoldIsWatched, ServedAsBilled,
         Closers

\* A request that begins or whose hold is opened or closed by a call of its own.
LEMMA RequestBilled ==
    ASSUME TypedInv, RequestInv, NEW r \in Holds,
           \/ BeginPurchase(r) \/ BeginOther(r) \/ BeginChat(r) \/ RequestStep(r)
    PROVE  RequestInv'
  <1> USE DEF TypedInv, Typed, RequestInv, KindFits, HoldFits, EndFits, OpenHoldIsWatched,
              ServedAsBilled, Closers, Kinds, Goto, Answers, Leaves, Begin, Drops, ledgerVars
  <1>1. CASE BeginPurchase(r)
    <2>1. /\ at[r] = "idle" /\ kind' = [kind EXCEPT ![r] = "purchase"]
          /\ UNCHANGED <<status, bought, log, left>>
          /\ \/ at' = [at EXCEPT ![r] = "over"] /\ answer' = [answer EXCEPT ![r] = "ok"]
             \/ at' = [at EXCEPT ![r] = "freeze"] /\ answer' = answer
      BY <1>1 DEF BeginPurchase
    <2>2. QED
      BY <2>1
  <1>2. CASE BeginOther(r)
    BY <1>2 DEF BeginOther, history
  <1>3. CASE BeginChat(r)
    BY <1>3 DEF BeginChat, history
  <1>4. CASE Freeze(r)
    <2>1. PICK outcome \in Outcomes, a \in Amounts :
              /\ Calls(Reserve(r, a), outcome)
              /\ IF outcome = "ok"
                 THEN at' = [at EXCEPT ![r] = AfterFreeze(kind[r])] /\ UNCHANGED <<answer, left>>
                 ELSE /\ at' = [at EXCEPT ![r] = "over"]
                      /\ answer' = [answer EXCEPT ![r] = "failed"]
                      /\ left' = [left EXCEPT ![r] = "refused"]
      BY <1>4 DEF Freeze
    <2>2. /\ outcome # "refused" => status' = [status EXCEPT ![r] = "open"]
          /\ outcome = "refused" => status' = status
      BY <2>1 DEF Calls, Reserve
    <2>3. /\ at[r] = "freeze"
          /\ UNCHANGED <<kind, bought, log>>
      BY <1>4 DEF Freeze
    <2>4. CASE outcome = "ok"
      <3>1. /\ at' = [at EXCEPT ![r] = AfterFreeze(kind[r])] /\ UNCHANGED <<answer, left>>
            /\ status' = [status EXCEPT ![r] = "open"]
        BY <2>1, <2>2, <2>4
      <3>2. /\ kind[r] = "skill" => AfterFreeze(kind[r]) = "run"
            /\ kind[r] = "chat" => AfterFreeze(kind[r]) = "connect"
            /\ kind[r] \in {"purchase", "tool"} => AfterFreeze(kind[r]) = "settle"
        BY DEF AfterFreeze
      <3>3. QED
        BY <2>3, <3>1, <3>2
    <2>5. CASE outcome # "ok"
      BY <2>1, <2>2, <2>3, <2>5
    <2>6. QED
      BY <2>4, <2>5
  <1>5. CASE SettlePrice(r)
    <2>1. PICK outcome \in Outcomes :
              /\ Closes(r, SettleHold(r, size[r]), outcome)
              /\ IF outcome = "ok" /\ kind[r] = "purchase"
                 THEN at' = [at EXCEPT ![r] = "insert"] /\ UNCHANGED answer
                 ELSE /\ at' = [at EXCEPT ![r] = "over"]
                      /\ answer' = [answer EXCEPT ![r] = IF outcome = "ok" THEN "ok" ELSE "failed"]
      BY <1>5 DEF SettlePrice
    <2>2. at[r] = "settle" /\ UNCHANGED <<kind, bought, log>>
      BY <1>5 DEF SettlePrice
    <2>3. /\ outcome = "refused" => status' = status /\ left' = [left EXCEPT ![r] = "refused"]
          /\ outcome # "refused" => left' = left /\ status' = [status EXCEPT ![r] = "settled"]
      BY <2>1, <2>2, SettlesEffect
    <2>4. QED
      BY <2>1, <2>2, <2>3
  <1>6. CASE Insert(r)
    BY <1>6 DEF Insert, history
  <1>7. CASE SettleSkill(r)
    <2>1. PICK outcome \in Outcomes : Closes(r, SettleHold(r, size[r]), outcome)
      BY <1>7 DEF SettleSkill
    <2>2. /\ at[r] = "run" /\ UNCHANGED <<kind, bought, log, answer>>
          /\ at' = [at EXCEPT ![r] = "logSuccess"]
      BY <1>7 DEF SettleSkill
    <2>3. /\ outcome = "refused" => status' = status /\ left' = [left EXCEPT ![r] = "refused"]
          /\ outcome # "refused" => left' = left /\ status' = [status EXCEPT ![r] = "settled"]
      BY <2>1, <2>2, SettlesEffect
    <2>4. QED
      BY <2>2, <2>3
  <1>8. CASE RefundSkill(r)
    <2>1. PICK outcome \in Outcomes : Closes(r, RefundHold(r), outcome)
      BY <1>8 DEF RefundSkill
    <2>2. /\ at[r] = "run" /\ UNCHANGED <<kind, bought, log, answer>>
          /\ at' = [at EXCEPT ![r] = "logFailed"]
      BY <1>8 DEF RefundSkill
    <2>3. /\ outcome = "refused" => status' = status /\ left' = [left EXCEPT ![r] = "refused"]
          /\ outcome # "refused" => left' = left /\ status' = [status EXCEPT ![r] = "refunded"]
      BY <2>1, <2>2, RefundsEffect
    <2>4. QED
      BY <2>2, <2>3
  <1>9. CASE WriteLog(r)
    BY <1>9 DEF WriteLog, history
  <1>10. CASE Connect(r)
    BY <1>10 DEF Connect
  <1>11. CASE Fetch(r)
    BY <1>11 DEF Fetch
  <1>12. CASE ReadFails(r)
    BY <1>12 DEF ReadFails, history
  <1>13. CASE SettleChat(r)
    <2>1. PICK c \in Costs, outcome \in Outcomes :
              Closes(r, SettleHold(r, c), outcome) \/ Closes(r, RefundHold(r), outcome)
      BY <1>13 DEF SettleChat
    <2>2. /\ at[r] = "stream" /\ UNCHANGED <<kind, bought, log>>
          /\ \/ at' = [at EXCEPT ![r] = "readKey"] /\ answer' = answer
             \/ at' = [at EXCEPT ![r] = "over"] /\ answer' = [answer EXCEPT ![r] = "ok"]
      BY <1>13 DEF SettleChat
    <2>3. /\ outcome = "refused" => status' = status /\ left' = [left EXCEPT ![r] = "refused"]
          /\ outcome # "refused" => left' = left /\ \/ status' = [status EXCEPT ![r] = "settled"]
                                                    \/ status' = [status EXCEPT ![r] = "refunded"]
      BY <2>1, <2>2, SettlesEffect, RefundsEffect
    <2>4. QED
      BY <2>2, <2>3
  <1>14. CASE PriceFails(r)
    BY <1>14 DEF PriceFails
  <1>15. CASE Unhandled(r)
    <2>1. /\ at' = [s \in Holds |-> IF at[s] \in {"idle", "over"} THEN at[s] ELSE "lost"]
          /\ UNCHANGED <<kind, answer, bought, log>>
      BY <1>15 DEF Unhandled, Dies
    <2>2. CASE at[r] = "stream"
      BY <1>15, <2>1, <2>2 DEF Unhandled
    <2>3. CASE at[r] = "refundStream"
      <3>1. PICK outcome \in Outcomes : Closes(r, RefundHold(r), outcome)
        BY <1>15, <2>3 DEF Unhandled
      <3>2. /\ outcome = "refused" => status' = status /\ left' = [left EXCEPT ![r] = "refused"]
            /\ outcome # "refused" => left' = left /\ status' = [status EXCEPT ![r] = "refunded"]
        BY <2>3, <3>1, RefundsEffect
      <3>3. QED
        BY <2>1, <2>3, <3>2
    <2>4. QED
      BY <1>15, <2>2, <2>3 DEF Unhandled
  <1>16. CASE RefundStream(r)
    BY <1>16 DEF RefundStream, RefundHold, Refund, history
  <1>17. CASE ReadKey(r)
    BY <1>17 DEF ReadKey, history
  <1>18. CASE WriteKey(r)
    BY <1>18 DEF WriteKey, history
  <1>19. QED
    BY <1>1, <1>2, <1>3, <1>4, <1>5, <1>6, <1>7, <1>8, <1>9, <1>10, <1>11, <1>12, <1>13,
       <1>14, <1>15, <1>16, <1>17, <1>18 DEF RequestStep

\* and every step keeps what a request asks for and has.
LEMMA SpendingStepRequests ==
    TypedInv /\ RequestInv /\ [SpendingNext]_spendingVars => RequestInv'
  <1> SUFFICES ASSUME TypedInv, RequestInv, [SpendingNext]_spendingVars PROVE RequestInv'
    OBVIOUS
  <1>1. ASSUME UNCHANGED <<ledgerVars, requestVars, history>> PROVE RequestInv'
    BY <1>1 DEF RequestInv, KindFits, HoldFits, EndFits, OpenHoldIsWatched, ServedAsBilled,
                ledgerVars, requestVars, history
  <1>2. CASE EditRead \/ EditWrite \/ ResetErrors \/ UNCHANGED spendingVars
    BY <1>1, <1>2 DEF EditRead, EditWrite, ResetErrors, spendingVars
  <1>3. CASE Killed
    BY <1>3 DEF Killed, Dies, ledgerVars, history, TypedInv, Typed, RequestInv, KindFits, HoldFits,
                EndFits, OpenHoldIsWatched, ServedAsBilled, Closers
  <1>4. QED
    BY <1>2, <1>3, RequestBilled DEF SpendingNext
-----------------------------------------------------------------------------
(* Spending: purchases of one item *)

\* Purchases that none raced, paid for or on their way: there is one of them at most.
Lone == {r \in Holds :
            /\ r \notin raced
            /\ r \in bought \/ (kind[r] = "purchase" /\ at[r] \in InPurchase)}

LoneInv == \A r, s \in Lone : r = s

\* The steps of a request under way add none: it buys what it was after.
LEMMA LoneKept ==
    ASSUME TypedInv, RequestInv, LoneInv, raced' = raced, kind' = kind,
           \A r \in Holds : /\ r \in bought' /\ r \notin bought => at[r] = "insert"
                            /\ kind[r] = "purchase" /\ at'[r] \in InPurchase => at[r] \in InPurchase
    PROVE  LoneInv'
  <1>1. \A r \in Holds : at[r] = "insert" => kind[r] = "purchase"
    BY DEF RequestInv, KindFits
  <1>2. \A r \in Lone' : r \in Lone
    BY <1>1 DEF Lone, InPurchase
  <1>3. QED
    BY <1>2 DEF LoneInv

\* A purchase that began alone stays the only one that did.
LEMMA SpendingStepLone ==
    TypedInv /\ RequestInv /\ LoneInv /\ [SpendingNext]_spendingVars => LoneInv'
  <1> SUFFICES ASSUME TypedInv, RequestInv, LoneInv, [SpendingNext]_spendingVars PROVE LoneInv'
    OBVIOUS
  <1> USE DEF Goto, Answers, Begin, Drops
  <1>1. ASSUME NEW r \in Holds, BeginPurchase(r) PROVE LoneInv'
    <2>1. /\ at[r] = "idle" /\ kind' = [kind EXCEPT ![r] = "purchase"] /\ UNCHANGED bought
          /\ \/ bought # {} /\ at' = [at EXCEPT ![r] = "over"]
             \/ bought = {} /\ at' = [at EXCEPT ![r] = "freeze"]
          /\ raced' = IF \E s \in Holds : kind[s] = "purchase" /\ at[s] \in InPurchase
                      THEN raced \cup {r} ELSE raced
      BY <1>1 DEF BeginPurchase
    <2>2. r \notin bought
      BY <2>1 DEF RequestInv, EndFits
    <2>3. \A s \in Holds \ {r} : s \in Lone' => s \in Lone
      BY <2>1 DEF Lone, TypedInv, Typed
    <2>4. CASE bought # {}
      <3>1. at' = [at EXCEPT ![r] = "over"]
        BY <2>1, <2>4
      <3>2. r \notin Lone'
        BY <2>1, <2>2, <3>1 DEF Lone, InPurchase, TypedInv, Typed
      <3>3. \A s \in Lone' : s \in Lone
        BY <2>3, <3>2 DEF Lone
      <3>4. QED
        BY <3>3 DEF LoneInv
    <2>5. CASE \E s \in Holds : kind[s] = "purchase" /\ at[s] \in InPurchase
      <3>1. r \notin Lone'
        BY <2>1, <2>5 DEF Lone
      <3>2. \A s \in Lone' : s \in Lone
        BY <2>3, <3>1 DEF Lone
      <3>3. QED
        BY <3>2 DEF LoneInv
    <2>6. CASE bought = {} /\ ~\E s \in Holds : kind[s] = "purchase" /\ at[s] \in InPurchase
      <3>1. \A s \in Lone' : s = r
        BY <2>3, <2>6 DEF Lone
      <3>2. QED
        BY <3>1 DEF LoneInv
    <2>7. QED
      BY <2>4, <2>5, <2>6
  <1>2. ASSUME NEW r \in Holds, BeginOther(r) \/ BeginChat(r) PROVE LoneInv'
    <2>1. /\ kind'[r] # "purchase" /\ \A s \in Holds \ {r} : kind'[s] = kind[s] /\ at'[s] = at[s]
          /\ UNCHANGED <<bought, raced>>
      BY <1>2 DEF BeginOther, BeginChat, TypedInv, Typed, history
    <2>2. \A s \in Lone' : s \in Lone
      BY <2>1 DEF Lone, InPurchase
    <2>3. QED
      BY <2>2 DEF LoneInv
  <1>3. ASSUME NEW r \in Holds, RequestStep(r) PROVE LoneInv'
    <2> DEFINE Going == /\ raced' = raced /\ kind' = kind
                        /\ \A s \in Holds :
                             /\ s \in bought' /\ s \notin bought => at[s] = "insert"
                             /\ kind[s] = "purchase" /\ at'[s] \in InPurchase =>
                                   at[s] \in InPurchase
    <2> USE DEF TypedInv, Typed, InPurchase
    <2>1. CASE Freeze(r) \/ SettlePrice(r)
      <3>1. Freeze(r) => at[r] = "freeze" /\ \A s \in Holds \ {r} : at'[s] = at[s]
        BY DEF Freeze
      <3>2. SettlePrice(r) => at[r] = "settle" /\ \A s \in Holds \ {r} : at'[s] = at[s]
        BY DEF SettlePrice
      <3>3. raced' = raced /\ kind' = kind /\ bought' = bought
        BY <2>1 DEF Freeze, SettlePrice
      <3>4. Going
        BY <2>1, <3>1, <3>2, <3>3
      <3>5. QED
        BY <3>4, LoneKept
    <2>2. CASE Insert(r)
      <3>1. Going
        BY <2>2 DEF Insert, history
      <3>2. QED
        BY <3>1, LoneKept
    <2>3. CASE SettleSkill(r) \/ RefundSkill(r) \/ WriteLog(r)
      <3>1. Going
        BY <2>3 DEF SettleSkill, RefundSkill, WriteLog, history
      <3>2. QED
        BY <3>1, LoneKept
    <2>4. CASE Connect(r) \/ Fetch(r) \/ ReadFails(r) \/ SettleChat(r) \/ PriceFails(r)
               \/ RefundStream(r)
      <3>1. /\ raced' = raced /\ kind' = kind /\ bought' = bought
            /\ \A s \in Holds \ {r} : at'[s] = at[s]
            /\ at'[r] \in {"fetch", "stream", "refundStream", "readKey", "over"}
        BY <2>4 DEF Connect, Fetch, ReadFails, SettleChat, PriceFails, RefundStream, history
      <3>2. Going
        BY <3>1
      <3>3. QED
        BY <3>2, LoneKept
    <2>5. CASE ReadKey(r) \/ WriteKey(r)
      <3>1. Going
        BY <2>5 DEF ReadKey, WriteKey, history
      <3>2. QED
        BY <3>1, LoneKept
    <2>6. CASE Unhandled(r)
      <3>1. Going
        BY <2>6 DEF Unhandled, Dies
      <3>2. QED
        BY <3>1, LoneKept
    <2>7. QED
      BY <1>3, <2>1, <2>2, <2>3, <2>4, <2>5, <2>6 DEF RequestStep
  <1>4. CASE EditRead \/ EditWrite \/ ResetErrors \/ UNCHANGED spendingVars
    <2>1. UNCHANGED <<raced, kind, bought, at>>
      BY <1>4 DEF EditRead, EditWrite, ResetErrors, spendingVars, requestVars, history
    <2>2. QED
      BY <2>1 DEF LoneInv, Lone
  <1>5. CASE Killed
    <2>1. /\ raced' = raced /\ kind' = kind /\ bought' = bought
          /\ \A s \in Holds : at'[s] = at[s] \/ at'[s] = "lost"
      BY <1>5 DEF Killed, Dies, history
    <2>2. QED
      BY <2>1, LoneKept DEF InPurchase
  <1>6. QED
    BY <1>1, <1>2, <1>3, <1>4, <1>5 DEF SpendingNext
-----------------------------------------------------------------------------
(* Spending: the key of the pool *)

\* What deductQuota and the administrator have read adds up as the row does.
ReadAddsUp ==
    /\ ~mixed => /\ editing # NotRead => editing = key.used
                 /\ \A r \in Holds : at[r] = "writeKey" =>
                        seen[r].used + seen[r].remaining = key.total
    /\ edits = 0 => editing = NotRead

KeyInv == KeyAddsUp /\ ReadAddsUp

\* Nobody has read the key at first,
LEMMA SpendingInitKey == SpendingInit => KeyInv
  BY SpendingAssumption DEF SpendingInit, KeyInv, KeyAddsUp, ReadAddsUp

\* The numbers the patch writes.
LEMMA DeductedFields ==
    ASSUME NEW old \in [used : Nat, remaining : Int], NEW t \in Nat, key \in KeyRow
    PROVE  /\ Deducted(old, t).used = old.used + t
           /\ Deducted(old, t).remaining = old.remaining - t
           /\ Deducted(old, t).total = key.total
           /\ Deducted(old, t).status = IF old.remaining - t <= 0 THEN "exhausted" ELSE key.status
  BY DEF KeyRow, Deducted

\* Nobody reads the key row or writes it.
LEMMA KeyKept ==
    ASSUME KeyInv, UNCHANGED keyVars,
           \A r \in Holds : at'[r] = "writeKey" => at[r] = "writeKey" /\ seen'[r] = seen[r]
    PROVE  KeyInv'
  BY DEF KeyInv, KeyAddsUp, ReadAddsUp, keyVars

\* a request keeps what is known of it,
LEMMA RequestKey ==
    ASSUME TypedInv, RequestInv, KeyInv, NEW r \in Holds,
           \/ BeginPurchase(r) \/ BeginOther(r) \/ BeginChat(r) \/ RequestStep(r)
    PROVE  KeyInv'
  <1> USE DEF Goto, Answers, Begin, Drops
  <1>1. ASSUME UNCHANGED <<keyVars, seen>>, \A s \in Holds \ {r} : at'[s] = at[s],
               at'[r] # "writeKey"
        PROVE  KeyInv'
    BY <1>1, KeyKept
  <1>2. CASE BeginPurchase(r) \/ BeginOther(r) \/ BeginChat(r)
    BY <1>1, <1>2 DEF BeginPurchase, BeginOther, BeginChat, TypedInv, Typed
  <1>3. CASE Freeze(r)
    <2>1. AfterFreeze(kind[r]) # "writeKey"
      BY DEF AfterFreeze
    <2>2. QED
      BY <1>1, <1>3, <2>1 DEF Freeze, TypedInv, Typed
  <1>4. CASE SettlePrice(r) \/ Insert(r)
    BY <1>1, <1>4 DEF SettlePrice, Insert, TypedInv, Typed
  <1>5. CASE SettleSkill(r) \/ RefundSkill(r) \/ WriteLog(r)
    BY <1>1, <1>5 DEF SettleSkill, RefundSkill, WriteLog, TypedInv, Typed
  <1>6. CASE Connect(r) \/ Fetch(r) \/ ReadFails(r)
    BY <1>1, <1>6 DEF Connect, Fetch, ReadFails, TypedInv, Typed
  <1>7. CASE SettleChat(r) \/ PriceFails(r) \/ RefundStream(r)
    BY <1>1, <1>7 DEF SettleChat, PriceFails, RefundStream, TypedInv, Typed
  <1>8. CASE Unhandled(r)
    <2>1. /\ editing' = NotRead /\ UNCHANGED <<key, edits, mixed>>
          /\ \A s \in Holds : at'[s] # "writeKey"
      BY <1>8 DEF Unhandled, Dies
    <2>2. QED
      BY <2>1 DEF KeyInv, KeyAddsUp, ReadAddsUp
  <1>9. CASE ReadKey(r)
    <2>1. /\ UNCHANGED keyVars /\ \A s \in Holds \ {r} : at'[s] = at[s] /\ seen'[s] = seen[s]
          /\ \/ at'[r] = "over"
             \/ at'[r] = "writeKey" /\ seen'[r] = [used |-> key.used, remaining |-> key.remaining]
      BY <1>9 DEF ReadKey, TypedInv, Typed
    <2>2. QED
      BY <2>1 DEF KeyInv, KeyAddsUp, ReadAddsUp, keyVars
  <1>10. CASE WriteKey(r)
    <2>1. PICK t \in Tokens : key' = Deducted(seen[r], t)
      BY <1>10 DEF WriteKey
    <2>2. /\ at[r] = "writeKey" /\ mixed' = (mixed \/ editing # NotRead) /\ at'[r] = "over"
          /\ UNCHANGED <<editing, edits>>
          /\ \A s \in Holds \ {r} : at'[s] = at[s] /\ seen'[s] = seen[s]
      BY <1>10 DEF WriteKey, TypedInv, Typed
    <2>3. seen[r] \in [used : Nat, remaining : Int] /\ t \in Nat /\ key \in KeyRow
      BY <2>2, SpendingAssumption DEF TypedInv, Typed, ReadFirst
    <2>4. /\ key'.used = seen[r].used + t
          /\ key'.remaining = seen[r].remaining - t
          /\ key'.total = key.total
          /\ key'.status = IF seen[r].remaining - t <= 0 THEN "exhausted" ELSE key.status
      BY <2>1, <2>3, DeductedFields
    <2>5. /\ seen[r].used \in Nat /\ seen[r].remaining \in Int /\ key.total \in Nat
          /\ t \in Nat
      BY <2>3 DEF KeyRow
    <2>6. ~mixed' => key'.used + key'.remaining = key'.total
      <3>1. ~mixed' => seen[r].used + seen[r].remaining = key.total
        BY <2>2 DEF KeyInv, ReadAddsUp
      <3>2. QED
        BY <2>4, <2>5, <3>1
    <2>7. edits' = 0 /\ key'.status = "active" => key'.remaining > 0
      BY <2>4, <2>5
    <2>8. ReadAddsUp'
      BY <2>2, <2>4 DEF KeyInv, ReadAddsUp
    <2>9. QED
      BY <2>6, <2>7, <2>8 DEF KeyInv, KeyAddsUp
  <1>11. QED
    BY <1>2, <1>3, <1>4, <1>5, <1>6, <1>7, <1>8, <1>9, <1>10 DEF RequestStep

\* The administrator's edits.
LEMMA EditKey ==
    ASSUME TypedInv, KeyInv, EditRead \/ EditWrite \/ ResetErrors
    PROVE  KeyInv'
  <1>1. /\ key \in KeyRow /\ edits \in Nat
        /\ key.total \in Nat /\ key.used \in Nat /\ key.remaining \in Int
    BY DEF TypedInv, Typed, KeyRow
  <1>2. CASE EditRead
    BY <1>1, <1>2 DEF EditRead, requestVars, KeyInv, KeyAddsUp, ReadAddsUp
  <1>3. CASE EditWrite
    <2>1. PICK q \in Quota : key' = [key EXCEPT !.total = q, !.remaining = q - editing]
      BY <1>3 DEF EditWrite
    <2>2. /\ editing # NotRead /\ editing' = NotRead /\ UNCHANGED <<at, edits>>
          /\ mixed' = (mixed \/ \E r \in Holds : at[r] = "writeKey")
      BY <1>3 DEF EditWrite, requestVars
    <2>3. q \in Nat /\ editing \in Nat
      BY <2>2, SpendingAssumption DEF TypedInv, Typed
    <2>4. key'.total = q /\ key'.used = key.used /\ key'.remaining = q - editing
      BY <1>1, <2>1 DEF KeyRow
    <2>5. ~mixed' => editing = key.used
      BY <2>2 DEF KeyInv, ReadAddsUp
    <2>6. ~mixed' => key'.used + key'.remaining = key'.total
      BY <1>1, <2>3, <2>4, <2>5
    <2>7. edits' # 0
      BY <2>2 DEF KeyInv, ReadAddsUp
    <2>8. QED
      BY <2>2, <2>6, <2>7 DEF KeyInv, KeyAddsUp, ReadAddsUp
  <1>4. CASE ResetErrors
    <2>1. /\ key'.total = key.total /\ key'.used = key.used /\ key'.remaining = key.remaining
          /\ edits' = edits + 1 /\ UNCHANGED <<editing, mixed, at, seen>>
      BY <1>1, <1>4 DEF ResetErrors, KeyRow, requestVars
    <2>2. QED
      BY <1>1, <2>1 DEF KeyInv, KeyAddsUp, ReadAddsUp
  <1>5. QED
    BY <1>2, <1>3, <1>4

\* and so does every step.
LEMMA SpendingStepKey ==
    TypedInv /\ RequestInv /\ KeyInv /\ [SpendingNext]_spendingVars => KeyInv'
  <1> SUFFICES ASSUME TypedInv, RequestInv, KeyInv, [SpendingNext]_spendingVars PROVE KeyInv'
    OBVIOUS
  <1>1. CASE UNCHANGED spendingVars
    BY <1>1, KeyKept DEF spendingVars, requestVars
  <1>2. CASE Killed
    <2>1. /\ editing' = NotRead /\ UNCHANGED <<key, edits, mixed>>
          /\ \A s \in Holds : at'[s] # "writeKey"
      BY <1>2 DEF Killed, Dies
    <2>2. QED
      BY <2>1 DEF KeyInv, KeyAddsUp, ReadAddsUp
  <1>3. QED
    BY <1>1, <1>2, RequestKey, EditKey DEF SpendingNext

-----------------------------------------------------------------------------
(* Spending: the user's credits *)

\* What each hold sets aside, for any statuses st and sizes sz.
OpenSizes(st, sz) == [h \in Holds |-> IF st[h] = "open" THEN sz[h] ELSE 0]

\* Reserved is the sum of the open holds.
Backed == reserved = Total(Holds, OpenSizes(status, size))

LedgerInv == /\ available \in Nat /\ status \in [Holds -> HoldStatus] /\ size \in [Holds -> Nat]
             /\ Backed

\* What Backed says of the next state.
LEMMA BackedNext == Backed' <=> reserved' = Total(Holds, OpenSizes(status', size'))
  BY DEF Backed, Total, OpenSizes, MapThenSumSet, MapThenFoldSet

\* What the holds set aside are numbers.
LEMMA OpenSizesType ==
    ASSUME NEW st, NEW sz \in [Holds -> Nat]
    PROVE  OpenSizes(st, sz) \in [Holds -> Int] /\ OpenSizes(st, sz) \in [Holds -> Nat]
  BY DEF OpenSizes

\* A step that touches one hold changes the sum by what it changes there.
LEMMA OneHold ==
    ASSUME IsFiniteSet(Holds), LedgerInv, NEW h \in Holds, size' \in [Holds -> Nat],
           \A k \in Holds : k # h => status'[k] = status[k] /\ size'[k] = size[k],
           reserved' = reserved - OpenSizes(status, size)[h] + OpenSizes(status', size')[h]
    PROVE  Backed'
  <1>1. /\ OpenSizes(status, size) \in [Holds -> Int]
        /\ OpenSizes(status', size') \in [Holds -> Int]
    BY OpenSizesType DEF LedgerInv
  <1>2. \A k \in Holds : k # h => OpenSizes(status', size')[k] = OpenSizes(status, size)[k]
    BY DEF OpenSizes
  <1>3. Total(Holds, OpenSizes(status', size'))
            = Total(Holds, OpenSizes(status, size)) - OpenSizes(status, size)[h]
              + OpenSizes(status', size')[h]
    BY <1>1, <1>2, TotalChange
  <1>4. QED
    BY <1>3, BackedNext DEF LedgerInv, Backed

\* A reservation, a settlement and a refund keep the ledger whole.
LEMMA LedgerKept ==
    ASSUME IsFiniteSet(Holds), LedgerInv, NEW h \in Holds, NEW a \in Nat,
           Reserve(h, a) \/ Settle(h, a) \/ Refund(h)
    PROVE  LedgerInv'
  <1> USE DEF LedgerInv
  <1>1. CASE Reserve(h, a)
    <2>1. size' \in [Holds -> Nat] /\ status' \in [Holds -> HoldStatus] /\ available' \in Nat
      BY <1>1 DEF Reserve, HoldStatus
    <2>2. \A k \in Holds : k # h => status'[k] = status[k] /\ size'[k] = size[k]
      BY <1>1 DEF Reserve
    <2>3. OpenSizes(status, size)[h] = 0 /\ OpenSizes(status', size')[h] = a
      BY <1>1 DEF Reserve, OpenSizes
    <2>4. reserved \in Int /\ reserved' = reserved + a
      BY <1>1, OpenSizesType, TotalType DEF Reserve, Backed
    <2>5. Backed'
      BY <2>1, <2>2, <2>3, <2>4, OneHold
    <2>6. QED
      BY <2>1, <2>5
  <1>2. CASE Settle(h, a) \/ Refund(h)
    <2>1. /\ size' = size /\ status' \in [Holds -> HoldStatus] /\ available' \in Nat
          /\ status[h] = "open" /\ status'[h] # "open" /\ reserved' = reserved - size[h]
      BY <1>2 DEF Settle, Refund, HoldStatus
    <2>2. \A k \in Holds : k # h => status'[k] = status[k] /\ size'[k] = size[k]
      BY <1>2 DEF Settle, Refund
    <2>3. OpenSizes(status, size)[h] = size[h] /\ OpenSizes(status', size')[h] = 0
      BY <2>1 DEF OpenSizes
    <2>4. reserved \in Int /\ size[h] \in Nat
      BY OpenSizesType, TotalType DEF Backed
    <2>5. Backed'
      BY <2>1, <2>2, <2>3, <2>4, OneHold
    <2>6. QED
      BY <2>1, <2>5
  <1>3. QED
    BY <1>1, <1>2

\* Credits that come or go, and steps that leave the ledger alone, keep it whole.
LEMMA LedgerMoves ==
    ASSUME LedgerInv, UNCHANGED <<reserved, status, size>>, available' \in Nat
    PROVE  LedgerInv'
  BY BackedNext DEF LedgerInv, Backed

\* A ledger without holds is whole.
LEMMA NoHolds ==
    ASSUME IsFiniteSet(Holds), available \in Nat, reserved = 0,
           status = [h \in Holds |-> "none"], size = [h \in Holds |-> 0]
    PROVE  LedgerInv
  <1>1. status \in [Holds -> HoldStatus] /\ size \in [Holds -> Nat]
    BY DEF HoldStatus
  <1>2. \A h \in Holds : OpenSizes(status, size)[h] = 0
    BY DEF OpenSizes
  <1>3. Total(Holds, OpenSizes(status, size)) = 0
    BY <1>1, <1>2, OpenSizesType, TotalType
  <1>4. QED
    BY <1>1, <1>3 DEF LedgerInv, Backed

\* What the ledger promises whoever implements or calls it: the user is never overdrawn, and
\* what is reserved is the sum of the holds that are open, for any finite number of them
\* (freezeCredits, settleCredits, refundCredits).
THEOREM LedgerIsWhole ==
    ASSUME IsFiniteSet(Holds)
    PROVE  LedgerSpec => []LedgerInv
  <1>1. LedgerInit => LedgerInv
    BY NoHolds DEF LedgerInit
  <1>2. LedgerInv /\ [LedgerNext]_ledgerVars => LedgerInv'
    <2> SUFFICES ASSUME LedgerInv, [LedgerNext]_ledgerVars PROVE LedgerInv'
      OBVIOUS
    <2>1. Amounts \subseteq Nat /\ Costs \subseteq Nat
      OBVIOUS
    <2>2. ASSUME NEW a \in Amounts, Credit(a) \/ Debit(a) PROVE LedgerInv'
      BY <2>1, <2>2, LedgerMoves DEF Credit, Debit, LedgerInv
    <2>3. ASSUME NEW h \in Holds, NEW a \in Amounts \cup Costs,
                 Reserve(h, a) \/ Settle(h, a) \/ Refund(h)
          PROVE  LedgerInv'
      BY <2>1, <2>3, LedgerKept
    <2>4. ASSUME NEW h \in Holds, Refund(h) PROVE LedgerInv'
      BY <2>4, LedgerKept, 0 \in Nat
    <2>5. CASE UNCHANGED ledgerVars
      BY <2>5, LedgerMoves DEF ledgerVars, LedgerInv
    <2>6. QED
      BY <2>2, <2>3, <2>4, <2>5 DEF LedgerNext
  <1>3. QED
    BY <1>1, <1>2, PTL DEF LedgerSpec

\* Spending begins with a ledger without holds.
LEMMA SpendingInitLedger ==
    ASSUME IsFiniteSet(Holds), SpendingInit PROVE LedgerInv
  BY NoHolds, SpendingAssumption DEF SpendingInit

\* A step either leaves the ledger alone or is one call for one hold.
LEMMA SpendingCalls ==
    ASSUME [SpendingNext]_spendingVars
    PROVE  \/ UNCHANGED ledgerVars
           \/ \E h \in Holds, a \in Amounts \cup Costs : Reserve(h, a) \/ Settle(h, a)
           \/ \E h \in Holds : Settle(h, size[h]) \/ Refund(h)
  <1> DEFINE Call == \/ UNCHANGED ledgerVars
                     \/ \E h \in Holds, a \in Amounts \cup Costs : Reserve(h, a) \/ Settle(h, a)
                     \/ \E h \in Holds : Settle(h, size[h]) \/ Refund(h)
  <1>1. ASSUME NEW r \in Holds, NEW c \in Costs \cup {size[r]}, NEW outcome \in Outcomes,
               Closes(r, SettleHold(r, c), outcome) \/ Closes(r, RefundHold(r), outcome)
        PROVE  Call
    BY <1>1 DEF Closes, Calls, SettleHold, RefundHold
  <1>2. ASSUME NEW r \in Holds, Freeze(r) PROVE Call
    BY <1>2 DEF Freeze, Calls
  <1>3. ASSUME NEW r \in Holds, SettlePrice(r) \/ SettleSkill(r) \/ RefundSkill(r) \/ SettleChat(r)
        PROVE  Call
    <2>1. \E c \in Costs \cup {size[r]}, outcome \in Outcomes :
              Closes(r, SettleHold(r, c), outcome) \/ Closes(r, RefundHold(r), outcome)
      BY <1>3 DEF SettlePrice, SettleSkill, RefundSkill, SettleChat
    <2> HIDE DEF Call
    <2>2. QED
      BY <1>1, <2>1
  <1>4. ASSUME NEW r \in Holds, RefundStream(r) \/ Unhandled(r) PROVE Call
    BY <1>4 DEF RefundStream, Unhandled, RefundHold, Closes, Calls
  <1>5. ASSUME NEW r \in Holds, \/ BeginPurchase(r) \/ BeginOther(r) \/ BeginChat(r) \/ Insert(r)
                                \/ WriteLog(r) \/ Connect(r) \/ Fetch(r) \/ ReadFails(r)
                                \/ PriceFails(r) \/ ReadKey(r) \/ WriteKey(r)
        PROVE  Call
    BY <1>5 DEF BeginPurchase, BeginOther, BeginChat, Insert, WriteLog, Connect, Fetch, ReadFails,
                PriceFails, ReadKey, WriteKey, ledgerVars
  <1>6. ASSUME EditRead \/ EditWrite \/ ResetErrors \/ Killed \/ UNCHANGED spendingVars
        PROVE  Call
    BY <1>6 DEF EditRead, EditWrite, ResetErrors, Killed, spendingVars, ledgerVars
  <1> HIDE DEF Call
  <1>7. ASSUME NEW r \in Holds,
               BeginPurchase(r) \/ BeginOther(r) \/ BeginChat(r) \/ RequestStep(r)
        PROVE  Call
    BY <1>2, <1>3, <1>4, <1>5, <1>7 DEF RequestStep
  <1>8. Call
    BY <1>6, <1>7 DEF SpendingNext
  <1>9. QED
    BY <1>8 DEF Call

\* So the ledger stays whole.
LEMMA SpendingStepLedger ==
    ASSUME IsFiniteSet(Holds), LedgerInv, [SpendingNext]_spendingVars PROVE LedgerInv'
  <1>1. CASE UNCHANGED ledgerVars
    BY <1>1, LedgerMoves DEF ledgerVars, LedgerInv
  <1>2. Amounts \cup Costs \subseteq Nat /\ \A h \in Holds : size[h] \in Nat
    BY DEF LedgerInv
  <1>3. QED
    BY <1>1, <1>2, LedgerKept, SpendingCalls

-----------------------------------------------------------------------------
(* Spending: the theorems *)

SpendingInv == TypedInv /\ RequestInv /\ LoneInv /\ KeyInv

\* All parts of the invariant but the ledger, always.
LEMMA SpendingSafe == SpendingSpec => []SpendingInv
  <1>1. SpendingInit => SpendingInv
    <2>1. SpendingInit => LoneInv
      BY DEF SpendingInit, LoneInv, Lone
    <2>2. QED
      BY <2>1, SpendingInitTyped, SpendingInitRequests, SpendingInitKey DEF SpendingInv
  <1>2. SpendingInv /\ [SpendingNext]_spendingVars => SpendingInv'
    BY SpendingStepTyped, SpendingStepRequests, SpendingStepLone, SpendingStepKey DEF SpendingInv
  <1>3. QED
    BY <1>1, <1>2, PTL DEF SpendingSpec

\* Every variable keeps its type; that the reserved credits never fall below zero rests on
\* their being the sum of the open holds, of which there is any finite number.
THEOREM SpendingTypeCorrect ==
    ASSUME IsFiniteSet(Holds)
    PROVE  SpendingSpec => []SpendingTypeOK
  <1>1. SpendingInit => LedgerInv
    BY SpendingInitLedger
  <1>2. LedgerInv /\ [SpendingNext]_spendingVars => LedgerInv'
    BY SpendingStepLedger
  <1>3. SpendingInv /\ LedgerInv => SpendingTypeOK
    <2> SUFFICES ASSUME SpendingInv, LedgerInv PROVE SpendingTypeOK
      OBVIOUS
    <2>1. OpenSizes(status, size) \in [Holds -> Int] /\ OpenSizes(status, size) \in [Holds -> Nat]
      BY OpenSizesType DEF LedgerInv
    <2>2. reserved \in Nat
      BY <2>1, TotalType DEF LedgerInv, Backed
    <2>3. /\ key \in KeyRow
          /\ \A r \in Holds : seen[r] \in {NotRead} \cup [used : Nat, remaining : Int]
      BY DEF SpendingInv, TypedInv, Typed
    <2>4. /\ key.total \in Nat /\ key.used \in Nat /\ key.remaining \in Int
          /\ key.status \in {"active", "exhausted"}
          /\ \A r \in Holds : seen[r] # NotRead => seen[r].used \in Nat /\ seen[r].remaining \in Int
      BY <2>3 DEF KeyRow
    <2>5. QED
      BY <2>2, <2>4 DEF SpendingInv, LedgerInv, TypedInv, Typed, Points, SpendingTypeOK
  <1>4. QED
    BY <1>1, <1>2, <1>3, SpendingSafe, PTL DEF SpendingSpec

\* As long as a hold is open its request is on the way to close it, unless the process
\* died, a call was refused, or the chat ended without a callback, for any number of
\* requests of any kind.
THEOREM OpenHoldsOfRequests == SpendingSpec => []OpenHoldIsWatched
  BY SpendingSafe, PTL DEF SpendingInv, RequestInv

\* An item owned is paid for, the log of a skill agrees with its hold unless a call was
\* refused, and a chat that failed costs nothing.
THEOREM BilledAsServed == SpendingSpec => []ServedAsBilled
  BY SpendingSafe, PTL DEF SpendingInv, RequestInv

\* Of two paid purchases of an item one began while another was under way: lookup and
\* insertion are apart, and nothing else lets a second one through.
THEOREM ItemPaidOnce == SpendingSpec => []PaidOnce
  <1>1. SpendingInv => PaidOnce
    BY DEF SpendingInv, TypedInv, Typed, LoneInv, Lone, PaidOnce
  <1>2. QED
    BY <1>1, SpendingSafe, PTL

\* Whatever chats overlap, a key's used and remaining quota add up to its total, unless an
\* edit overlapped a deduction; an active key that nobody edited has something left, unless
\* it was made with nothing (deductQuota, update, resetErrors).
THEOREM KeysAddUp == SpendingSpec => []KeyAddsUp
  BY SpendingSafe, PTL DEF SpendingInv, KeyInv
=============================================================================
