----------------------------- MODULE MediaJobs -----------------------------
(***************************************************************************)
(* media-generation.service.ts: paid image and video jobs.  A job freezes  *)
(* its price, saves its row, generates, and then saves "done" and settles, *)
(* or saves "failed" and refunds: two writes with nothing around them.  An *)
(* image is made inside its request.  A video is polled by a background    *)
(* loop, beside a watchdog timer that gives the job up when it still is    *)
(* "processing" after the deadline.  Both read the row, work, and save it. *)
(* When the process restarts, onModuleInit fails and refunds what was left *)
(* unfinished, before any request is served.                               *)
(*                                                                         *)
(* The credits are those of CreditLedger: a job's hold is the freeze row   *)
(* whose id it keeps in frozenTxnId, named like the job.                   *)
(***************************************************************************)
EXTENDS CreditCalls

CONSTANTS Videos,       \* the jobs that make a video; the others make an image
          Funds,        \* what the user can spend at first
          MaxCrashes,   \* bound: crashes in a behaviour
          MaxPolls,     \* maxAttempts of the poll loop
          None          \* no job

ASSUME JobsAssumption ==
    /\ Videos \subseteq Holds /\ None \notin Holds
    /\ Funds \in Nat /\ MaxCrashes \in Nat /\ MaxPolls \in Nat

VARIABLES row,         \* media_jobs.status
          runner,      \* the request or the background loop of the job
          polls,       \* attempt
          streak,      \* pollFailStreak
          watchdog,    \* the timer
          server,      \* "up", or "booting" in onModuleInit
          recovering,  \* the orphan whose refund is due in onModuleInit
          crashes,
          refused      \* the jobs whose hold a refused call left as it was (history)

jobVars == <<row, runner, polls, streak, watchdog>>
serverVars == <<server, recovering, crashes, refused>>
vars == <<ledgerVars, jobVars, serverVars>>

Init ==
    /\ available = Funds
    /\ reserved = 0
    /\ status = [j \in Holds |-> "none"]
    /\ size = [j \in Holds |-> 0]
    /\ row = [j \in Holds |-> "absent"]
    /\ runner = [j \in Holds |-> "idle"]
    /\ polls = [j \in Holds |-> 0]
    /\ streak = [j \in Holds |-> 0]
    /\ watchdog = [j \in Holds |-> "off"]
    /\ server = "up"
    /\ recovering = None
    /\ crashes = 0
    /\ refused = {}

\* A call of the credit service ends, well or not.
CreditCall(j, op, outcome) ==
    /\ Calls(op, outcome)
    /\ refused' = IF outcome = "refused" THEN refused \cup {j} ELSE refused

Run(j, label) == runner' = [runner EXCEPT ![j] = label]
Save(j, value) == row' = [row EXCEPT ![j] = value]

-----------------------------------------------------------------------------
(* The request *)

\* charge: the price is frozen before the row exists.
Charge(j) ==
    /\ server = "up"
    /\ runner[j] = "idle"
    /\ \E a \in Amounts : Reserve(j, a)
    /\ Run(j, "create")
    /\ UNCHANGED <<row, polls, streak, watchdog, serverVars>>

\* The row is saved; a video's loop starts and the request returns.
CreateRow(j) ==
    /\ runner[j] = "create"
    /\ Save(j, IF j \in Videos THEN "pending" ELSE "processing")
    /\ Run(j, IF j \in Videos THEN "submit" ELSE "generate")
    /\ UNCHANGED <<ledgerVars, polls, streak, watchdog, serverVars>>

-----------------------------------------------------------------------------
(* runVideoJob *)

\* Mutant: no watchdog.
Submit_NoWatchdog(j) ==
    /\ runner[j] = "submit"
    /\ Save(j, "processing")
    /\ Run(j, "poll")
    /\ UNCHANGED <<ledgerVars, polls, streak, watchdog, serverVars>>

\* submitVideo answers with a task: the row says so and the watchdog is armed.
Submit(j) ==
    /\ runner[j] = "submit"
    /\ Save(j, "processing")
    /\ watchdog' = [watchdog EXCEPT ![j] = "armed"]
    /\ Run(j, "poll")
    /\ UNCHANGED <<ledgerVars, polls, streak, serverVars>>

\* Mutant: the outer catch only logs.
SubmitFails_LogsOnly(j) ==
    /\ runner[j] = "submit"
    /\ Run(j, "over")
    /\ UNCHANGED <<ledgerVars, row, polls, streak, watchdog, serverVars>>

\* submitVideo fails: the outer catch.
SubmitFails(j) ==
    /\ runner[j] = "submit"
    /\ Run(j, "saveFailed")
    /\ UNCHANGED <<ledgerVars, row, polls, streak, watchdog, serverVars>>

\* The provider is still at work.
PollProcessing(j) ==
    /\ runner[j] = "poll"
    /\ polls[j] < MaxPolls
    /\ polls' = [polls EXCEPT ![j] = @ + 1]
    /\ streak' = [streak EXCEPT ![j] = 0]
    /\ UNCHANGED <<ledgerVars, row, runner, watchdog, serverVars>>

\* The poll itself fails; the third time in a row the job is given up.
PollError(j) ==
    /\ runner[j] = "poll"
    /\ polls[j] < MaxPolls
    /\ polls' = [polls EXCEPT ![j] = @ + 1]
    /\ streak' = [streak EXCEPT ![j] = @ + 1]
    /\ Run(j, IF streak[j] + 1 < 3 THEN "poll"
              ELSE IF row[j] = "done" THEN "over" ELSE "saveFailed")
    /\ UNCHANGED <<ledgerVars, row, watchdog, serverVars>>

\* The provider has the video: it is fetched next.
PollDone(j) ==
    /\ runner[j] = "poll"
    /\ polls[j] < MaxPolls
    /\ Run(j, "generate")
    /\ UNCHANGED <<ledgerVars, row, polls, streak, watchdog, serverVars>>

\* The provider gave up.
PollFailed(j) ==
    /\ runner[j] = "poll"
    /\ polls[j] < MaxPolls
    /\ Run(j, "saveFailed")
    /\ UNCHANGED <<ledgerVars, row, polls, streak, watchdog, serverVars>>

\* The attempts are used up.
PollTimeout(j) ==
    /\ runner[j] = "poll"
    /\ polls[j] = MaxPolls
    /\ Run(j, IF row[j] = "done" THEN "over" ELSE "saveFailed")
    /\ UNCHANGED <<ledgerVars, row, polls, streak, watchdog, serverVars>>

-----------------------------------------------------------------------------
(* The end of a job, image or video *)

\* An image is made and stored, a video is downloaded and stored: it may take long
\* and it may fail.
Generate(j) ==
    /\ runner[j] = "generate"
    /\ Run(j, "saveDone") \/ Run(j, "saveFailed")
    /\ UNCHANGED <<ledgerVars, row, polls, streak, watchdog, serverVars>>

\* The row read before the work is saved, whatever it is now.
SaveDone(j) ==
    /\ runner[j] = "saveDone"
    /\ Save(j, "done")
    /\ Run(j, "settle")
    /\ UNCHANGED <<ledgerVars, polls, streak, watchdog, serverVars>>

\* The settlement is inside the try block: its exception fails the job.
SettleJob(j) ==
    /\ runner[j] = "settle"
    /\ \E outcome \in Outcomes :
        /\ CreditCall(j, SettleHold(j, size[j]), outcome)
        /\ Run(j, IF outcome = "ok" THEN "over" ELSE "saveFailed")
    /\ UNCHANGED <<row, polls, streak, watchdog, server, recovering, crashes>>

\* Mutant: the refund comes first, the row later or never.
SaveFailed_RefundsFirst(j) ==
    /\ runner[j] = "saveFailed"
    /\ RefundHold(j)
    /\ Run(j, "refund")
    /\ UNCHANGED <<row, polls, streak, watchdog, serverVars>>

SaveFailed(j) ==
    /\ runner[j] = "saveFailed"
    /\ Save(j, "failed")
    /\ Run(j, "refund")
    /\ UNCHANGED <<ledgerVars, polls, streak, watchdog, serverVars>>

\* An exception of the refund is logged, and that is all.
RefundJob(j) ==
    /\ runner[j] = "refund"
    /\ \E outcome \in Outcomes : CreditCall(j, RefundHold(j), outcome)
    /\ Run(j, "over")
    /\ UNCHANGED <<row, polls, streak, watchdog, server, recovering, crashes>>

-----------------------------------------------------------------------------
(* The watchdog: its delay counts from the submission, while the time the polls *)
(* and the download take counts on top of the loop's own delays.                *)

WatchdogFires(j) ==
    /\ watchdog[j] = "armed"
    /\ watchdog' = [watchdog EXCEPT ![j] = IF row[j] = "processing" THEN "save" ELSE "off"]
    /\ UNCHANGED <<ledgerVars, row, runner, polls, streak, serverVars>>

WatchdogSaves(j) ==
    /\ watchdog[j] = "save"
    /\ Save(j, "failed")
    /\ watchdog' = [watchdog EXCEPT ![j] = "refund"]
    /\ UNCHANGED <<ledgerVars, runner, polls, streak, serverVars>>

WatchdogRefunds(j) ==
    /\ watchdog[j] = "refund"
    /\ \E outcome \in Outcomes : CreditCall(j, RefundHold(j), outcome)
    /\ watchdog' = [watchdog EXCEPT ![j] = "off"]
    /\ UNCHANGED <<row, runner, polls, streak, server, recovering, crashes>>

-----------------------------------------------------------------------------
(* Crash and restart *)

\* Loops, timers and requests are gone, the database stays.
Crash ==
    /\ crashes < MaxCrashes
    /\ crashes' = crashes + 1
    /\ server' = "booting"
    /\ recovering' = None
    /\ runner' = [j \in Holds |-> IF runner[j] = "idle" THEN "idle" ELSE "over"]
    /\ watchdog' = [j \in Holds |-> "off"]
    /\ UNCHANGED <<ledgerVars, row, polls, streak, refused>>

Orphans == {j \in Holds : row[j] \in {"pending", "processing"}}

\* onModuleInit, one orphan after the other: fail it,
RecoverSave(j) ==
    /\ server = "booting"
    /\ recovering = None
    /\ j \in Orphans
    /\ Save(j, "failed")
    /\ recovering' = j
    /\ UNCHANGED <<ledgerVars, runner, polls, streak, watchdog, server, crashes, refused>>

\* then refund it.
RecoverRefund ==
    /\ recovering # None
    /\ \E outcome \in Outcomes : CreditCall(recovering, RefundHold(recovering), outcome)
    /\ recovering' = None
    /\ UNCHANGED <<jobVars, server, crashes>>

\* The server listens.
Booted ==
    /\ server = "booting"
    /\ recovering = None
    /\ Orphans = {}
    /\ server' = "up"
    /\ UNCHANGED <<ledgerVars, jobVars, recovering, crashes, refused>>

-----------------------------------------------------------------------------
(* The specification *)

RunnerStep(j) ==
    \/ CreateRow(j) \/ Submit(j) \/ SubmitFails(j)
    \/ PollProcessing(j) \/ PollError(j) \/ PollDone(j) \/ PollFailed(j) \/ PollTimeout(j)
    \/ Generate(j) \/ SaveDone(j) \/ SettleJob(j) \/ SaveFailed(j) \/ RefundJob(j)

WatchdogStep(j) == WatchdogFires(j) \/ WatchdogSaves(j) \/ WatchdogRefunds(j)

BootStep == RecoverRefund \/ Booted \/ \E j \in Holds : RecoverSave(j)

Next ==
    \/ \E j \in Holds : Charge(j) \/ RunnerStep(j) \/ WatchdogStep(j)
    \/ Crash
    \/ BootStep

Spec == Init /\ [][Next]_vars

\* A timer fires, and a started process finishes booting.  Nothing is assumed of
\* the loops: a download or a provider may hang for ever.
TimersRun == (\A j \in Holds : WF_vars(WatchdogStep(j))) /\ WF_vars(BootStep)
HangSpec == Spec /\ TimersRun

\* The loops do not hang.
LoopsRun == \A j \in Holds : WF_vars(RunnerStep(j))

-----------------------------------------------------------------------------
(* Properties *)

Active(j) == runner[j] \notin {"idle", "over"}

\* Every variable keeps its type.
TypeOK ==
    /\ available \in Nat /\ reserved \in Int
    /\ status \in [Holds -> HoldStatus]
    /\ size \in [Holds -> Nat]
    /\ row \in [Holds -> {"absent", "pending", "processing", "done", "failed"}]
    /\ runner \in [Holds -> {"idle", "create", "submit", "poll", "generate", "saveDone",
                             "settle", "saveFailed", "refund", "over"}]
    /\ polls \in [Holds -> 0..MaxPolls]
    /\ streak \in [Holds -> 0..3]
    /\ watchdog \in [Holds -> {"off", "armed", "save", "refund"}]
    /\ server \in {"up", "booting"}
    /\ recovering \in Holds \cup {None}
    /\ crashes \in 0..MaxCrashes
    /\ refused \subseteq Holds

\* An image the user paid for was delivered, and one that was refunded was not, across
\* crashes and refused credit calls (generateImage saves the row, then closes the hold).
ImagesBilledRight ==
    \A j \in Holds \ Videos :
        /\ status[j] = "settled" => row[j] = "done"
        /\ status[j] = "refunded" => row[j] = "failed"

\* A running server has no unfinished row that nobody works on (onModuleInit takes
\* every orphan of the previous process before requests are served).
NoOrphanOnceUp ==
    server = "up" =>
        \A j \in Holds : row[j] \in {"pending", "processing"} => Active(j)

\* While nothing crashes, an open hold always has somebody who will close it, a loop, a
\* request or a watchdog, or its closing call was refused.
OpenHoldHasCloser ==
    \A j \in Holds :
        status[j] = "open" /\ crashes = 0 /\ j \notin refused =>
            Active(j) \/ watchdog[j] \in {"save", "refund"}

\* "Rules out generating for ever": a job that is processing ends, even if its loop
\* hangs or the process dies (the watchdog, onModuleInit).
ProcessingEnds ==
    \A j \in Videos : row[j] = "processing" ~> row[j] \in {"done", "failed"}

\* Every frozen amount is settled or refunded in the end, if no loop hangs and unless
\* the process dies or the closing call is refused.
EveryHoldCloses ==
    LoopsRun => \A j \in Holds :
        status[j] = "open" ~> (status[j] # "open" \/ crashes > 0 \/ j \in refused)

\* "Completed: settle, failed: refund", once the job is over.  TLC refutes it, when a
\* watchdog gives up a job that is being downloaded (README, section 5).
DoneSettledFailedRefunded ==
    \A j \in Holds :
        ~Active(j) /\ watchdog[j] = "off" =>
            /\ row[j] = "done" => status[j] = "settled"
            /\ row[j] = "failed" => status[j] = "refunded"

\* onModuleInit: after a restart no amount stays frozen for ever, that is, without
\* anybody to close it.  TLC refutes it with one crash (README, section 5).
NoPermanentFreeze ==
    server = "up" /\ crashes > 0 => \A j \in Holds : status[j] = "open" => Active(j)
=============================================================================
