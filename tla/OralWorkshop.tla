---------------------------- MODULE OralWorkshop ----------------------------
(***************************************************************************)
(* One job of the oral workshop: a pipeline of steps that the executor     *)
(* runs one after the other, while the user's requests create, cancel,     *)
(* advance, retry and render it.  Everybody reads the job row and the step *)
(* rows, thinks, and saves what was read with some columns changed: a save *)
(* puts back every column of the row as it was read.  Only the claim of a  *)
(* step and the cancellation are conditional updates.                      *)
(*                                                                         *)
(* Jobs share nothing but the credits.  Two stages matter: the steps up to *)
(* digitalHuman make the draft, those after it edit the video; a job in    *)
(* draft mode pays for the draft and waits in between for a render.        *)
(***************************************************************************)
EXTENDS CreditCalls, FiniteSetsExt

CONSTANTS Executors,   \* instances of the server that run executor ticks
          Users,       \* requests of the user
          Ops,         \* the requests made
          Overlapping, \* those made also while something else is under way
          Modes,       \* step by step or auto, with a draft or not, with a video or not
          NSteps,      \* length of the pipeline, 7 in the code
          DraftStep,   \* position of digitalHuman in it, 4 in the code
          MaxRetries,  \* MAX_STEP_RETRIES
          Funds,       \* what the user can spend at first
          MaxOps,      \* bound: requests in a behaviour
          MaxCrashes,  \* bound: crashes in a behaviour
          None         \* no hold

ASSUME WorkshopAssumption ==
    /\ Executors \cap Users = {} /\ None \notin Holds \cup Ops
    /\ Ops \subseteq {"create", "cancel", "advance", "retry", "render"}
    /\ Overlapping \subseteq Ops
    /\ Modes \subseteq [manual : BOOLEAN, draftMode : BOOLEAN, video : BOOLEAN]
    /\ NSteps \in Nat /\ DraftStep \in 1..(NSteps - 1)
    /\ MaxRetries \in Nat /\ Funds \in Nat /\ MaxOps \in Nat /\ MaxCrashes \in Nat

VARIABLES job,         \* the row of oral_workshop_jobs
          steps,       \* the rows of oral_workshop_steps
          pc,          \* where each executor and request is
          at,          \* the step an executor works on
          asked,       \* what each request asks for
          mine,        \* the job row as an actor read it, with its changes
          copy,        \* the step rows as an actor read them
          server,      \* "up", or "booting" in onModuleInit
          ops, crashes

rows == <<job, steps>>
locals == <<at, asked, mine, copy>>
server_ == <<server, crashes>>
vars == <<ledgerVars, rows, pc, locals, server_, ops>>

-----------------------------------------------------------------------------
(* Rows *)

Actors == Executors \cup Users
Steps == 1..NSteps
Editing == (DraftStep + 1)..NSteps          \* videoEdit, titleCover, publishReady

Live == {"pending", "processing"}
Final == {"done", "failed", "cancelled"}

JobRow == [status : {"absent"} \cup Live \cup Final, hold : Holds \cup {None},
           current : 0..NSteps, waiting : BOOLEAN, manual : BOOLEAN,
           draftMode : BOOLEAN, draft : BOOLEAN, video : BOOLEAN]
StepRow == [status : {"absent", "pending", "running", "done", "failed"},
            retries : 0..MaxRetries]

NoJob == [status |-> "absent", hold |-> None, current |-> 0, waiting |-> FALSE,
          manual |-> FALSE, draftMode |-> FALSE, draft |-> FALSE, video |-> FALSE]
Fresh == [status |-> "pending", retries |-> 0]
NoSteps == [s \in Steps |-> [status |-> "absent", retries |-> 0]]
FreshSteps == [s \in Steps |-> Fresh]       \* buildInitialSteps

Pending(st) == {s \in Steps : st[s].status = "pending"}

\* Mutant: the rows come in any order, and the last one is taken for the first.
NextPending_LastFirst(st) == IF Pending(st) = {} THEN 0 ELSE Max(Pending(st))

\* nextPendingStep, 0 for null.
NextPending(st) == IF Pending(st) = {} THEN 0 ELSE Min(Pending(st))

\* jobStatusAfterSteps.
StatusAfter(st) ==
    IF \A s \in Steps : st[s].status = "done" THEN "done"
    ELSE IF \E s \in Steps : st[s].status = "failed" THEN "failed" ELSE "processing"

\* markStepDone of the pipeline: a step that has failed stays so.
Finish(st, s) ==
    IF st[s].status = "failed" THEN st ELSE [st EXCEPT ![s].status = "done"]

\* Mutant: one retry too many.
GivenUp_OffByOne(st, s) == st[s].status = "failed" \/ st[s].retries > MaxRetries

\* markStepFailed of the pipeline: failed for good when the retries are used up,
GivenUp(st, s) == st[s].status = "failed" \/ st[s].retries >= MaxRetries

\* Mutant: the step stays claimed while it waits for its retry.
Fail_StaysRunning(st, s) ==
    IF GivenUp(st, s) THEN [st EXCEPT ![s].status = "failed"]
    ELSE [st EXCEPT ![s].retries = @ + 1]

\* and pending again otherwise.
Fail(st, s) ==
    IF GivenUp(st, s) THEN [st EXCEPT ![s].status = "failed"]
    ELSE [st EXCEPT ![s] = [status |-> "pending", retries |-> @.retries + 1]]

\* The steps that may return a video_url: digitalHuman, of some engines, and videoEdit.
Artefacts(s) ==
    IF s = DraftStep THEN BOOLEAN ELSE {s = DraftStep + 1}

Init ==
    /\ available = Funds
    /\ reserved = 0
    /\ status = [h \in Holds |-> "none"]
    /\ size = [h \in Holds |-> 0]
    /\ job = NoJob
    /\ steps = NoSteps
    /\ pc = [a \in Actors |-> "idle"]
    /\ at = [a \in Actors |-> 0]
    /\ asked = [u \in Users |-> None]
    /\ mine = [a \in Actors |-> NoJob]
    /\ copy = [a \in Actors |-> NoSteps]
    /\ server = "up"
    /\ ops = 0
    /\ crashes = 0

\* Nothing is under way; nothing that has to be alone is.
Quiet == server = "up" /\ \A a \in Actors : pc[a] = "idle"
Free == \A u \in Users : asked[u] \in Overlapping \cup {None}

Goto(a, label) == pc' = [pc EXCEPT ![a] = label]
Keep(a, row) == mine' = [mine EXCEPT ![a] = row]

\* A request returns, or a step is over: the locals are gone.
Over(a) ==
    /\ Goto(a, "idle")
    /\ at' = [at EXCEPT ![a] = 0]
    /\ asked' = [u \in Users |-> IF u = a THEN None ELSE asked[u]]
    /\ mine' = [mine EXCEPT ![a] = NoJob]
    /\ copy' = [copy EXCEPT ![a] = NoSteps]

\* findOne on the job row: go on with what it says, or return.
ReadJob(a, from, guard, label) ==
    /\ pc[a] = from
    /\ IF guard THEN Keep(a, job) /\ Goto(a, label) /\ UNCHANGED <<at, asked, copy>> ELSE Over(a)
    /\ UNCHANGED <<ledgerVars, rows, server_, ops>>

\* loadSteps.
LoadSteps(a, from, label) ==
    /\ pc[a] = from
    /\ copy' = [copy EXCEPT ![a] = steps]
    /\ Goto(a, label)
    /\ UNCHANGED <<ledgerVars, rows, at, asked, mine, server_, ops>>

\* A new hold for the job; too little balance, and the request fails.
Freeze(a, from, label) ==
    /\ pc[a] = from
    /\ \/ \E h \in Holds, price \in Amounts :
            /\ Reserve(h, price)
            /\ mine' = [mine EXCEPT ![a].hold = h]
            /\ Goto(a, label)
            /\ UNCHANGED <<at, asked, copy>>
       \/ /\ \E price \in Amounts : available < price
          /\ Over(a)
          /\ UNCHANGED ledgerVars
    /\ UNCHANGED <<rows, server_, ops>>

\* The last thing a handler does: refund the hold of the row it read.
RefundMine(a) ==
    /\ pc[a] = "refund"
    /\ IF mine[a].hold = None THEN UNCHANGED ledgerVars
       ELSE \E outcome \in Outcomes : Calls(RefundHold(mine[a].hold), outcome)
    /\ Over(a)
    /\ UNCHANGED <<rows, server_, ops>>

-----------------------------------------------------------------------------
(* The executor: processJob *)

\* findExecutableJobs and nextPendingStepOf only read, and the claim below checks
\* again what they found: they are one step.
Pick(e) ==
    /\ server = "up"
    /\ pc[e] = "idle"
    /\ Free
    /\ job.status \in Live /\ ~job.waiting
    /\ NextPending(steps) # 0
    /\ job.draftMode => NextPending(steps) \notin Editing
    /\ at' = [at EXCEPT ![e] = NextPending(steps)]
    /\ Goto(e, "start")
    /\ UNCHANGED <<ledgerVars, rows, asked, mine, copy, server_, ops>>

\* markStepRunning: read the job,
Start(e) == ReadJob(e, "start", job.status # "cancelled", "claim")

\* claim the step: a conditional update,
Claim(e) ==
    /\ pc[e] = "claim"
    /\ IF steps[at[e]].status = "pending"
       THEN /\ steps' = [steps EXCEPT ![at[e]].status = "running"]
            /\ Goto(e, "begin")
            /\ UNCHANGED locals
       ELSE Over(e) /\ UNCHANGED steps
    /\ UNCHANGED <<ledgerVars, job, server_, ops>>

\* and save the job as it was read.
Begin(e) ==
    /\ pc[e] = "begin"
    /\ job' = [mine[e] EXCEPT !.status = "processing", !.current = at[e]]
    /\ Keep(e, NoJob)
    /\ Goto(e, "work")
    /\ UNCHANGED <<ledgerVars, steps, at, asked, copy, server_, ops>>

\* dispatch: it may take long and it may fail.
Work(e) ==
    /\ pc[e] = "work"
    /\ Goto(e, "finish") \/ Goto(e, "fail")
    /\ UNCHANGED <<ledgerVars, rows, locals, server_, ops>>

\* markStepDone: read the job; if it is cancelled, the exception leads to
\* markStepFailed, which reads it again;
ReadDone(e) ==
    /\ pc[e] = "finish"
    /\ IF job.status = "cancelled"
       THEN Goto(e, "fail") /\ UNCHANGED mine
       ELSE Keep(e, job) /\ Goto(e, "finishLoad")
    /\ UNCHANGED <<ledgerVars, rows, at, asked, copy, server_, ops>>

FinishLoad(e) == LoadSteps(e, "finishLoad", "finishSave")

\* save the steps, and compute what syncJobProgress will save;
FinishSave(e) ==
    LET next == Finish(copy[e], at[e])
    IN  /\ pc[e] = "finishSave"
        /\ steps' = next
        /\ \E video \in Artefacts(at[e]) :
            Keep(e, [mine[e] EXCEPT !.status = StatusAfter(next),
                                    !.current = NextPending(next),
                                    !.video = @ \/ video])
        /\ copy' = [copy EXCEPT ![e] = next]
        /\ Goto(e, IF StatusAfter(next) = "done" /\ mine[e].hold # None
                   THEN "settle" ELSE "saveProgress")
        /\ UNCHANGED <<ledgerVars, job, at, asked, server_, ops>>

\* when all is done, settle, whose exception leads to markStepFailed;
SettleAll(e) ==
    /\ pc[e] = "settle"
    /\ \E outcome \in Outcomes, actual \in Costs :
        /\ Calls(SettleHold(mine[e].hold, actual), outcome)
        /\ Goto(e, IF outcome = "ok" THEN "saveProgress" ELSE "fail")
    /\ UNCHANGED <<rows, locals, server_, ops>>

\* a draft is settled by itself.
DraftDue(e) ==
    mine[e].draftMode /\ at[e] = DraftStep /\ mine[e].status # "failed" /\ ~mine[e].draft

SaveProgress(e) ==
    /\ pc[e] = "saveProgress"
    /\ job' = mine[e]
    /\ IF mine[e].manual THEN Goto(e, "pause") /\ UNCHANGED locals
       ELSE IF DraftDue(e) THEN Goto(e, "draft") /\ UNCHANGED locals
       ELSE Over(e)
    /\ UNCHANGED <<ledgerVars, steps, server_, ops>>

\* Step by step, the job waits for the user while there is a next step.
Pause(e) ==
    LET waits == mine[e].status \notin {"done", "failed"} /\ NextPending(copy[e]) # 0
    IN  /\ pc[e] = "pause"
        /\ job' = [mine[e] EXCEPT !.waiting = waits]
        /\ IF DraftDue(e) THEN Goto(e, "draft") /\ UNCHANGED locals ELSE Over(e)
        /\ UNCHANGED <<ledgerVars, steps, server_, ops>>

\* onDraftReady: read the job again,
ReadDraft(e) ==
    ReadJob(e, "draft", ~job.draft, IF job.hold = None THEN "saveDraft" ELSE "settleDraft")

\* settle what was frozen for the draft,
SettleDraft(e) ==
    /\ pc[e] = "settleDraft"
    /\ \E outcome \in Outcomes, actual \in Costs :
        /\ Calls(SettleHold(mine[e].hold, actual), outcome)
        /\ Goto(e, IF outcome = "ok" THEN "saveDraft" ELSE "fail")
    /\ UNCHANGED <<rows, locals, server_, ops>>

\* and wait for a render.
SaveDraft(e) ==
    /\ pc[e] = "saveDraft"
    /\ job' = [mine[e] EXCEPT !.hold = None, !.draft = TRUE, !.waiting = TRUE]
    /\ Over(e)
    /\ UNCHANGED <<ledgerVars, steps, server_, ops>>

\* markStepFailed: a cancelled job is left alone;
ReadFail(e) == ReadJob(e, "fail", job.status # "cancelled", "failLoad")

FailLoad(e) == LoadSteps(e, "failLoad", "failSave")

\* the step is pending again, or given up, and the job with it;
FailSave(e) ==
    LET next == Fail(copy[e], at[e])
    IN  /\ pc[e] = "failSave"
        /\ steps' = next
        /\ IF GivenUp(copy[e], at[e])
           THEN /\ Keep(e, [mine[e] EXCEPT !.status = "failed"])
                /\ Goto(e, "saveFailed")
           ELSE /\ Keep(e, [mine[e] EXCEPT !.status = StatusAfter(next),
                                          !.current = NextPending(next)])
                /\ Goto(e, "saveRetry")
        /\ UNCHANGED <<ledgerVars, job, at, asked, copy, server_, ops>>

SaveRetry(e) ==
    /\ pc[e] = "saveRetry"
    /\ job' = mine[e]
    /\ Over(e)
    /\ UNCHANGED <<ledgerVars, steps, server_, ops>>

\* a failed job is refunded.
SaveFailed(e) ==
    /\ pc[e] = "saveFailed"
    /\ job' = mine[e]
    /\ Goto(e, "refund")
    /\ UNCHANGED <<ledgerVars, steps, locals, server_, ops>>

-----------------------------------------------------------------------------
(* The user's requests *)

Request(u, op) ==
    /\ server = "up"
    /\ op \in Ops
    /\ ops < MaxOps
    /\ ops' = ops + 1
    /\ pc[u] = "idle"
    /\ Free
    /\ op \in Overlapping \/ Quiet
    /\ asked' = [asked EXCEPT ![u] = op]
    /\ UNCHANGED <<ledgerVars, rows, at, copy, server_>>

\* create: a job with this clientTxnId is returned as it is,
CallCreate(u) ==
    /\ Request(u, "create")
    /\ job.status = "absent"
    /\ \E mode \in Modes :
        Keep(u, [NoJob EXCEPT !.status = "pending", !.manual = mode.manual,
                              !.waiting = mode.manual, !.draftMode = mode.draftMode,
                              !.video = mode.video])
    /\ Goto(u, "createFreeze")

\* otherwise the price is frozen,
CreateFreeze(u) == Freeze(u, "createFreeze", "createJob")

\* Mutant: who comes second returns the job and keeps the credits.
CreateJob_NoRefund(u) ==
    /\ pc[u] = "createJob"
    /\ IF job.status = "absent"
       THEN job' = mine[u] /\ Goto(u, "createSteps") /\ UNCHANGED locals
       ELSE Over(u) /\ UNCHANGED job
    /\ UNCHANGED <<ledgerVars, steps, server_, ops>>

\* and the row saved: clientTxnId is unique, who comes second is refunded;
CreateJob(u) ==
    /\ pc[u] = "createJob"
    /\ IF job.status = "absent"
       THEN job' = mine[u] /\ Goto(u, "createSteps")
       ELSE Goto(u, "refund") /\ UNCHANGED job
    /\ UNCHANGED <<ledgerVars, steps, locals, server_, ops>>

CreateSteps(u) ==
    /\ pc[u] = "createSteps"
    /\ steps' = FreshSteps
    /\ Over(u)
    /\ UNCHANGED <<ledgerVars, job, server_, ops>>

\* cancel: read the job,
CallCancel(u) ==
    /\ Request(u, "cancel")
    /\ job.status # "absent"
    /\ Keep(u, job)
    /\ Goto(u, "cancel")

\* update its status if it is still live, and refund the hold read before.
Cancel(u) ==
    /\ pc[u] = "cancel"
    /\ IF job.status \in Live
       THEN /\ job' = [job EXCEPT !.status = "cancelled"]
            /\ Goto(u, "refund")
            /\ UNCHANGED locals
       ELSE Over(u) /\ UNCHANGED job
    /\ UNCHANGED <<ledgerVars, steps, server_, ops>>

\* advance: let a job that waits go on.
CallAdvance(u) ==
    /\ Request(u, "advance")
    /\ job.status \in Live
    /\ job.manual
    /\ Keep(u, job)
    /\ Goto(u, "advance")

Advance(u) ==
    /\ pc[u] = "advance"
    /\ job' = [mine[u] EXCEPT !.waiting = FALSE]
    /\ Over(u)
    /\ UNCHANGED <<ledgerVars, steps, server_, ops>>

\* retryJob: a failed job only;
CallRetry(u) ==
    /\ Request(u, "retry")
    /\ job.status = "failed"
    /\ Keep(u, job)
    /\ Goto(u, "retryLoad")

RetryLoad(u) == LoadSteps(u, "retryLoad", "retrySave")

\* Mutant: the counters are given back, and a step that failed stays so.
RetrySave_KeepsFailed(u) ==
    /\ pc[u] = "retrySave"
    /\ steps' = [s \in Steps |-> [copy[u][s] EXCEPT !.retries = 0]]
    /\ Goto(u, "retryFreeze")
    /\ UNCHANGED <<ledgerVars, job, locals, server_, ops>>

\* what is not done is pending again,
RetrySave(u) ==
    /\ pc[u] = "retrySave"
    /\ steps' = [s \in Steps |->
         IF copy[u][s].status \in {"done", "absent"}
         THEN [copy[u][s] EXCEPT !.retries = 0] ELSE Fresh]
    /\ Goto(u, "retryFreeze")
    /\ UNCHANGED <<ledgerVars, job, locals, server_, ops>>

\* the price is frozen anew,
RetryFreeze(u) == Freeze(u, "retryFreeze", "retryJob")

\* and the job is saved with the new hold.
RetryJob(u) ==
    /\ pc[u] = "retryJob"
    /\ job' = [mine[u] EXCEPT !.status = "pending", !.current = 0]
    /\ Over(u)
    /\ UNCHANGED <<ledgerVars, steps, server_, ops>>

\* render: a job with a draft or a video, unless it is being edited,
RenderAllowed ==
    /\ job.draft \/ job.video
    /\ ~(job.current = DraftStep + 1 /\ job.status = "processing")

CallRender(u) ==
    /\ Request(u, "render")
    /\ RenderAllowed
    /\ Keep(u, job)
    /\ Goto(u, "renderFreeze")

RenderFreeze(u) == Freeze(u, "renderFreeze", "renderLoad")

RenderLoad(u) == LoadSteps(u, "renderLoad", "renderSave")

\* is edited again from videoEdit on.
RenderSave(u) ==
    /\ pc[u] = "renderSave"
    /\ steps' = [s \in Steps |->
         IF s \in Editing /\ copy[u][s].status # "absent" THEN Fresh
         ELSE [copy[u][s] EXCEPT !.retries = 0]]
    /\ Goto(u, "renderJob")
    /\ UNCHANGED <<ledgerVars, job, locals, server_, ops>>

\* Mutant: the row does not learn of the new hold.
RenderJob_KeepsHold(u) ==
    /\ pc[u] = "renderJob"
    /\ job' = [mine[u] EXCEPT !.hold = job.hold, !.status = "processing", !.current = 0,
                              !.waiting = FALSE, !.draftMode = FALSE]
    /\ Over(u)
    /\ UNCHANGED <<ledgerVars, steps, server_, ops>>


\* Mutant: the job stays what it was.
RenderJob_KeepsStatus(u) ==
    /\ pc[u] = "renderJob"
    /\ job' = [mine[u] EXCEPT !.current = 0, !.waiting = FALSE, !.draftMode = FALSE]
    /\ Over(u)
    /\ UNCHANGED <<ledgerVars, steps, server_, ops>>

RenderJob(u) ==
    /\ pc[u] = "renderJob"
    /\ job' = [mine[u] EXCEPT !.status = "processing", !.current = 0,
                              !.waiting = FALSE, !.draftMode = FALSE]
    /\ Over(u)
    /\ UNCHANGED <<ledgerVars, steps, server_, ops>>

-----------------------------------------------------------------------------
(* Crash and restart *)

Crash ==
    /\ crashes < MaxCrashes
    /\ crashes' = crashes + 1
    /\ server' = "booting"
    /\ pc' = [a \in Actors |-> "idle"]
    /\ at' = [a \in Actors |-> 0]
    /\ asked' = [u \in Users |-> None]
    /\ mine' = [a \in Actors |-> NoJob]
    /\ copy' = [a \in Actors |-> NoSteps]
    /\ UNCHANGED <<ledgerVars, rows, ops>>

\* onModuleInit fails a job that was left unfinished,
RecoverSave ==
    /\ server = "booting"
    /\ job.status \in Live
    /\ job' = [job EXCEPT !.status = "failed"]
    /\ server' = IF job.hold = None THEN "booting" ELSE "refunding"
    /\ UNCHANGED <<ledgerVars, steps, pc, locals, ops, crashes>>

\* and refunds it.
RecoverRefund ==
    /\ server = "refunding"
    /\ \E outcome \in Outcomes : Calls(RefundHold(job.hold), outcome)
    /\ server' = "booting"
    /\ UNCHANGED <<rows, pc, locals, ops, crashes>>

Booted ==
    /\ server = "booting"
    /\ job.status \notin Live
    /\ server' = "up"
    /\ UNCHANGED <<ledgerVars, rows, pc, locals, ops, crashes>>

-----------------------------------------------------------------------------
(* The specification *)

ExecutorStep(e) ==
    \/ Pick(e) \/ Start(e) \/ Claim(e) \/ Begin(e) \/ Work(e)
    \/ ReadDone(e) \/ FinishLoad(e) \/ FinishSave(e) \/ SettleAll(e) \/ SaveProgress(e)
    \/ Pause(e) \/ ReadDraft(e) \/ SettleDraft(e) \/ SaveDraft(e)
    \/ ReadFail(e) \/ FailLoad(e) \/ FailSave(e) \/ SaveRetry(e) \/ SaveFailed(e)
    \/ RefundMine(e)

UserStep(u) ==
    \/ CallCreate(u) \/ CreateFreeze(u) \/ CreateJob(u) \/ CreateSteps(u)
    \/ CallCancel(u) \/ Cancel(u)
    \/ CallAdvance(u) \/ Advance(u)
    \/ CallRetry(u) \/ RetryLoad(u) \/ RetrySave(u) \/ RetryFreeze(u) \/ RetryJob(u)
    \/ CallRender(u) \/ RenderFreeze(u) \/ RenderLoad(u) \/ RenderSave(u) \/ RenderJob(u)
    \/ RefundMine(u)

Next ==
    \/ \E e \in Executors : ExecutorStep(e)
    \/ \E u \in Users : UserStep(u)
    \/ Crash \/ RecoverSave \/ RecoverRefund \/ Booted

Spec == Init /\ [][Next]_vars

\* The interval timer keeps starting ticks, a step's calls return or time out, a
\* request that has begun goes on, and a start completes.  No request need be made.
FairSpec ==
    /\ Spec
    /\ \A e \in Executors : WF_vars(ExecutorStep(e))
    /\ \A u \in Users : WF_vars(pc[u] # "idle" /\ UserStep(u))
    /\ WF_vars(RecoverSave \/ RecoverRefund \/ Booted)

-----------------------------------------------------------------------------
(* Properties *)

\* Every variable has its type; a step is not repeated more than MAX_STEP_RETRIES times.
TypeOK ==
    /\ available \in Nat /\ reserved \in Int
    /\ status \in [Holds -> HoldStatus] /\ size \in [Holds -> Nat]
    /\ job \in JobRow
    /\ steps \in [Steps -> StepRow]
    /\ at \in [Actors -> 0..NSteps]
    /\ asked \in [Users -> Ops \cup {None}]
    /\ mine \in [Actors -> JobRow]
    /\ copy \in [Actors -> [Steps -> StepRow]]
    /\ server \in {"up", "booting", "refunding"}
    /\ ops \in 0..MaxOps /\ crashes \in 0..MaxCrashes

\* The steps run in their order: whatever fails, is repeated or retried, a step runs
\* or is done only when all before it are done (nextPendingStep, retryJob).  Of the rows
\* that are saved as they were read it is the job's that may be stale here: with one
\* executor and no overlapping retry the step rows have one writer at a time.
StepsInOrder ==
    \A s \in Steps : steps[s].status \in {"running", "done"} =>
        \A r \in 1..(s - 1) : steps[r].status = "done"

\* No step is stranded: as long as the job is live, a step that is claimed or has failed,
\* which nextPendingStep gives to nobody, is one the executor is still at.  An executor
\* drops a cancelled job and leaves the claim, so that no row read before the
\* cancellation may bring the job back once it has gone (markStepRunning, markStepDone
\* and markStepFailed save the job as they read it, against cancelJob's update).
NoStepStranded ==
    server = "up" /\ job.status \in Live =>
        \A s \in Steps : steps[s].status \in {"running", "failed"} =>
            \E e \in Executors : pc[e] # "idle" /\ at[e] = s

\* A job that is done was paid for: the hold it names is settled, the one of the
\* last render too (syncJobProgress settles before it saves).
DeliveredIsPaid ==
    job.status = "done" => job.hold # None /\ status[job.hold] = "settled"

\* What a job that is done shows is what was asked for last: no step of it waits
\* to be run again (jobStatusAfterSteps and the resets of render).
DoneIsWhole ==
    crashes = 0 /\ Quiet /\ job.status = "done" =>
        \A s \in Steps : steps[s].status = "done"

\* Without a crash an open hold is never forgotten: the row names it, or a request
\* that is under way does (create, retryJob), and when nothing is under way the job
\* is not over, also when it was cancelled while a step ran (cancel, markStepFailed).
OpenHoldNamed ==
    crashes = 0 => \A h \in Holds : status[h] = "open" =>
        /\ job.hold = h \/ \E a \in Actors : mine[a].hold = h
        /\ ~(Quiet /\ job.status \in Final)

\* Whoever waits for a draft can render it (render and onDraftReady).  TLC refutes it
\* with Modes <- AutoDraft (README, section 5).
DraftCanBeRendered ==
    Quiet /\ job.status \in Live /\ job.draftMode /\ job.draft => RenderAllowed

\* A job does not go on for ever: while the server runs it ends, or waits for the
\* user, who advances a manual job and renders a draft (tick, markStepFailed, the
\* bounded retries), whatever requests race with its steps.
JobEnds ==
    job.status \in Live ~> job.status \in Final \/ job.waiting \/ job.draft

=============================================================================
