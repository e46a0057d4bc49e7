----------------------------- MODULE StepRunner -----------------------------
(***************************************************************************)
(* A team task that the desktop executes node by node: createStepRunner in *)
(* hermes-orchestrator.ts, a coroutine in the main process that plans the  *)
(* task, runs an agent for each node, has the result reviewed and waits    *)
(* for the user where he confirms himself; the calls of the window that    *)
(* start, pause, stop, answer and delete it (index.ts); and the row of the *)
(* task on the server, which the runner overwrites by PATCH and the window *)
(* reads.  The program counter of the runner rests at its awaits: what the *)
(* code does between two of them is one step, and the calls of the window  *)
(* come in between.                                                        *)
(***************************************************************************)
EXTENDS Integers

CONSTANTS MaxNodes,    \* bound on the nodes of a plan
          MaxRetries,  \* maxRetries, 2 in index.ts
          MaxRuns,     \* bound on submissions
          MaxFaults,   \* bound on requests to the server that fail
          MaxQuits     \* bound on exits of the desktop

ASSUME BoundsAssumption ==
    /\ MaxNodes \in Nat \ {0}
    /\ {MaxRetries, MaxRuns, MaxFaults, MaxQuits} \subseteq Nat

VARIABLES task,       \* status of the row; "gone" when deleted
          shown,      \* rawStatus of the nodes in the row's result
          pc,         \* where the runner is; "none": no entry in stepRunners
          nodes,      \* the runner's own status of each node
          cur,        \* the node it works on
          retries,    \* retryCount of that node
          paused, cancelled,
          auto,       \* stepAutoConfirm
          approved,   \* nodes whose last result was accepted by who had to (history)
          stoppedAt,  \* where the run was when it was first stopped (history)
          lateRuns,   \* agents started in a stopped run (history)
          deleting,   \* a DELETE is on its way
          runs, faults, quits
runnerVars == <<nodes, cur, retries>>
switches == <<paused, cancelled, auto>>
runHistory == <<approved, stoppedAt, lateRuns>>
bounds == <<runs, quits>>
stepVars == <<task, shown, pc, runnerVars, switches, runHistory, deleting, faults, bounds>>

Nodes == 1..MaxNodes
\* RunnerStepStatus; "absent" beyond the end of the plan.
NodeStatus == {"absent", "pending", "running", "pending_review", "done", "rejected"}
NoPlan == [i \in Nodes |-> "absent"]
Awaits == {"none", "begin", "plan", "list", "hanging", "mark", "exec", "review", "ask",
           "decide", "rejected", "fail", "finish", "report", "persist", "caught"}

RunnerInit ==
    /\ task = "pending" /\ shown = NoPlan
    /\ pc = "none" /\ nodes = NoPlan /\ cur = 1 /\ retries = 0
    /\ paused = FALSE /\ cancelled = FALSE /\ auto = FALSE
    /\ approved = {} /\ stoppedAt = "none" /\ lateRuns = 0
    /\ deleting = FALSE
    /\ runs = 0 /\ faults = 0 /\ quits = 0

-----------------------------------------------------------------------------
\* patchTask throws: the row is gone, or the request failed, written or not.
Fault == faults < MaxFaults /\ faults' = faults + 1
Write(status, list) == task # "gone" /\ task' = status /\ shown' = list
PatchThrows(status, list) ==
    \/ task # "gone" /\ Fault /\ (Write(status, list) \/ UNCHANGED <<task, shown>>)
    \/ task = "gone" /\ UNCHANGED <<task, shown, faults>>

\* patchTask from await "at", after which the runner goes on to "next".
Patch(at, status, list, next, thrown) ==
    /\ pc = at
    /\ \/ Write(status, list) /\ pc' = next /\ UNCHANGED faults
       \/ PatchThrows(status, list) /\ pc' = thrown
    /\ UNCHANGED <<switches, deleting, bounds>>

\* Mutant: the cancellation is not looked at.
Loop_NoCancel(list, i) ==
    \/ paused /\ pc' = "hanging" /\ nodes' = list
    \/ ~paused /\ pc' = "mark" /\ nodes' = [list EXCEPT ![i] = "running"]

\* Mutant: the pause is looked at before the cancellation.
Loop_PauseFirst(list, i) ==
    \/ paused /\ pc' = "hanging" /\ nodes' = list
    \/ ~paused /\ cancelled /\ pc' = "fail" /\ nodes' = list
    \/ ~paused /\ ~cancelled /\ pc' = "mark" /\ nodes' = [list EXCEPT ![i] = "running"]

\* The head of the loop over the nodes, reached without an await: a cancelled run
\* fails, a paused one waits in pausePoint, the others mark node i as running.
Loop(list, i) ==
    \/ cancelled /\ pc' = "fail" /\ nodes' = list
    \/ ~cancelled /\ paused /\ pc' = "hanging" /\ nodes' = list
    \/ ~cancelled /\ ~paused /\ pc' = "mark" /\ nodes' = [list EXCEPT ![i] = "running"]

Last(i) == i = MaxNodes \/ nodes[i + 1] = "absent"

\* Node cur is done, by the word of the user or of the reviewer: the next one, or the end.
Accept(by) ==
    /\ approved' = IF by = "user" \/ auto THEN approved \union {cur} ELSE approved
    /\ IF Last(cur)
       THEN pc' = "finish" /\ nodes' = [nodes EXCEPT ![cur] = "done"] /\ UNCHANGED <<cur, retries>>
       ELSE /\ cur' = cur + 1 /\ retries' = 0
            /\ Loop([nodes EXCEPT ![cur] = "done"], cur + 1)
    /\ UNCHANGED <<stoppedAt, lateRuns>>

\* Node cur is to be done again, up to MaxRetries times.
Redo ==
    /\ retries' = retries + 1
    /\ IF retries' > MaxRetries
       THEN pc' = "rejected" /\ nodes' = [nodes EXCEPT ![cur] = "rejected"]
       ELSE Loop(nodes, cur)
    /\ approved' = approved \ {cur}
    /\ UNCHANGED <<cur, stoppedAt, lateRuns>>

Quiet == UNCHANGED <<task, shown, switches, deleting, faults, bounds>>

-----------------------------------------------------------------------------
\* The runner.

Begin == Patch("begin", "in_progress", shown, "plan", "caught") /\ UNCHANGED <<runnerVars, runHistory>>

\* parsePlan gives a list of nodes, or the run fails.
Plan ==
    /\ pc = "plan"
    /\ \/ pc' = "fail" /\ UNCHANGED nodes
       \/ pc' = "list" /\ \E n \in Nodes :
            nodes' = [i \in Nodes |-> IF i <= n THEN "pending" ELSE "absent"]
    /\ Quiet /\ UNCHANGED <<cur, retries, runHistory>>

\* The plan is sent, and the first node begins.
List ==
    /\ pc = "list"
    /\ \/ Write("in_progress", nodes) /\ Loop(nodes, 1) /\ UNCHANGED faults
       \/ PatchThrows("in_progress", nodes) /\ pc' = "caught" /\ UNCHANGED nodes
    /\ UNCHANGED <<cur, retries, switches, runHistory, deleting, bounds>>

\* sync before the agent is started; the search of knowledge in between cannot fail.
Mark ==
    /\ Patch("mark", "in_progress", nodes, "exec", "caught")
    /\ lateRuns' = IF cancelled /\ pc' = "exec" THEN lateRuns + 1 ELSE lateRuns
    /\ UNCHANGED <<runnerVars, approved, stoppedAt>>

\* The agent ends with an error, with a result it finds wanting, or with one to review.
\* abortCurrent is not among the dependencies index.ts passes, so a stop lets it end.
Exec ==
    /\ pc = "exec"
    /\ \/ /\ pc' = "rejected" /\ nodes' = [nodes EXCEPT ![cur] = "rejected"]
          /\ UNCHANGED <<cur, retries, runHistory>>
       \/ Redo
       \/ pc' = "review" /\ UNCHANGED <<runnerVars, runHistory>>
    /\ Quiet

\* Mutant: the switch is not looked at, every reviewed result is taken.
Review_NoGate ==
    /\ pc = "review"
    /\ Redo \/ Accept("reviewer")
    /\ Quiet

\* The reviewer refuses or fails; or passes, and the user is asked unless auto is on.
Review ==
    /\ pc = "review"
    /\ \/ Redo
       \/ auto /\ Accept("reviewer")
       \/ /\ ~auto /\ pc' = "ask"
          /\ nodes' = [nodes EXCEPT ![cur] = "pending_review"]
          /\ UNCHANGED <<cur, retries, runHistory>>
    /\ Quiet

Ask == Patch("ask", "in_progress", nodes, "decide", "caught") /\ UNCHANGED <<runnerVars, runHistory>>
Rejected == Patch("rejected", "in_progress", nodes, "fail", "caught") /\ UNCHANGED <<runnerVars, runHistory>>

\* failTask.
FailTask == Patch("fail", "failed", nodes, "none", "caught") /\ UNCHANGED <<runnerVars, runHistory>>

Finish == Patch("finish", "completed", nodes, "report", "caught") /\ UNCHANGED <<runnerVars, runHistory>>

\* reportExecution and persistOutputs; the sedimentation after them cannot fail.
Report(at, next) ==
    /\ pc = at
    /\ \/ pc' = next /\ UNCHANGED faults
       \/ Fault /\ pc' = "caught"
    /\ UNCHANGED <<task, shown, runnerVars, switches, runHistory, deleting, bounds>>

\* The catch branch of run; a second exception goes to the caller, who logs it.
Caught == Patch("caught", "failed", nodes, "none", "none") /\ UNCHANGED <<runnerVars, runHistory>>

RunnerStep ==
    \/ Begin \/ Plan \/ List \/ Mark \/ Exec \/ Review \/ Ask \/ Rejected \/ FailTask
    \/ Finish \/ Report("report", "persist") \/ Report("persist", "none") \/ Caught

-----------------------------------------------------------------------------
\* The window.

Registered == pc # "none"

\* The window offers to start a task that is pending, failed, or running without nodes.
Startable == task \in {"pending", "failed"} \/ (task = "in_progress" /\ shown = NoPlan)

Submit ==
    /\ ~Registered /\ Startable /\ runs < MaxRuns
    /\ runs' = runs + 1
    /\ pc' = "begin"
    /\ nodes' = NoPlan /\ cur' = 1 /\ retries' = 0
    /\ paused' = FALSE /\ cancelled' = FALSE /\ auto' \in BOOLEAN
    /\ approved' = {} /\ stoppedAt' = "none" /\ lateRuns' = 0
    /\ UNCHANGED <<task, shown, deleting, faults, quits>>

\* confirmStep and rejectStep find the waiting promise, or do nothing.
Decide ==
    /\ pc = "decide"
    /\ Accept("user") \/ Redo
    /\ Quiet

Pause ==
    /\ Registered /\ ~paused
    /\ paused' = TRUE
    /\ UNCHANGED <<task, shown, pc, runnerVars, cancelled, auto, runHistory, deleting, faults, bounds>>

\* setPaused(false) wakes who waits in pausePoint, past the test of cancelled.
Wake ==
    /\ paused' = FALSE
    /\ IF pc = "hanging"
       THEN pc' = "mark" /\ nodes' = [nodes EXCEPT ![cur] = "running"]
       ELSE UNCHANGED <<pc, nodes>>
    /\ UNCHANGED <<cur, retries>>

Resume ==
    /\ Registered /\ paused
    /\ Wake
    /\ UNCHANGED <<task, shown, cancelled, auto, runHistory, deleting, faults, bounds>>

\* stop.
Interrupt ==
    /\ cancelled' = TRUE
    /\ stoppedAt' = IF cancelled THEN stoppedAt ELSE pc
    /\ Wake
    /\ UNCHANGED <<auto, approved, lateRuns>>

Stop ==
    /\ Registered
    /\ Interrupt
    /\ UNCHANGED <<task, shown, deleting, faults, bounds>>

SetAuto ==
    /\ Registered
    /\ auto' = ~auto
    /\ UNCHANGED <<task, shown, pc, runnerVars, paused, cancelled, runHistory, deleting, faults, bounds>>

\* hermes-orchestrate:delete stops the run, if there is one, and sends the DELETE.
RequestDelete ==
    /\ ~deleting /\ task # "gone"
    /\ deleting' = TRUE
    /\ IF Registered THEN Interrupt ELSE UNCHANGED <<pc, runnerVars, switches, runHistory>>
    /\ UNCHANGED <<task, shown, faults, bounds>>

Delete ==
    /\ deleting
    /\ deleting' = FALSE
    /\ \/ task' = "gone" /\ UNCHANGED faults
       \/ Fault /\ UNCHANGED task
    /\ UNCHANGED <<shown, pc, runnerVars, switches, runHistory, bounds>>

\* The desktop is closed or dies: the runner and the DELETE exist in its memory only.
Quit ==
    /\ quits < MaxQuits
    /\ quits' = quits + 1
    /\ pc' = "none" /\ deleting' = FALSE
    /\ UNCHANGED <<task, shown, runnerVars, switches, runHistory, faults, runs>>

WindowStep == Submit \/ Decide \/ Pause \/ Resume \/ Stop \/ SetAuto \/ RequestDelete

RunnerNext == RunnerStep \/ WindowStep \/ Delete \/ Quit

RunnerSpec == RunnerInit /\ [][RunnerNext]_stepVars

\* Agents are killed after ten minutes and requests after fifteen seconds, so the
\* runner goes on from every await but the two in which it waits for the user.
RunnerFairSpec == RunnerSpec /\ WF_stepVars(RunnerStep)

-----------------------------------------------------------------------------
\* Properties.

RunnerTypeOK ==
    /\ task \in {"pending", "in_progress", "completed", "failed", "gone"}
    /\ shown \in [Nodes -> NodeStatus]
    /\ pc \in Awaits
    /\ nodes \in [Nodes -> NodeStatus]
    /\ cur \in Nodes
    /\ retries \in 0..MaxRetries + 1
    /\ paused \in BOOLEAN /\ cancelled \in BOOLEAN /\ auto \in BOOLEAN /\ deleting \in BOOLEAN
    /\ approved \subseteq Nodes
    /\ stoppedAt \in Awaits
    /\ lateRuns \in Nat
    /\ runs \in 0..MaxRuns /\ faults \in 0..MaxFaults /\ quits \in 0..MaxQuits

\* A task that reads completed has a plan, and every node of it was done and accepted
\* by who had to: the user, or the reviewer while automatic confirmation was on.
CompletedIsApproved ==
    task = "completed" =>
        /\ shown[1] # "absent"
        /\ \A i \in Nodes : shown[i] # "absent" => shown[i] = "done" /\ i \in approved

\* Every way out of a run, an exception anywhere and one failed request included,
\* leaves the task completed, failed or deleted, never in progress with nobody at it.
OverIsFinal ==
    pc = "none" /\ runs > 0 /\ faults <= 1 /\ quits = 0 => task \in {"completed", "failed", "gone"}

\* While the runner waits for an answer the window shows the node it waits for.
AskedIsShown ==
    pc = "decide" /\ task # "gone" => shown = nodes /\ shown[cur] = "pending_review"

\* A stopped run starts at most one more agent: the one it was woken for.
StopIsHeeded == lateRuns <= 1

\* A run ends, or waits for an answer or in a pause; a stopped one not in a pause.
RunEnds == Registered ~> \/ ~Registered
                         \/ pc = "decide"
                         \/ pc = "hanging" /\ ~cancelled

\* hermes-orchestrator.ts: "stop: interrupts at once, ... the task is marked failed".
\* TLC refutes it: a stop in the last node is not seen (README, section 5).
StoppedFails ==
    stoppedAt \notin {"none", "finish", "report", "persist"} => task # "completed"
=============================================================================
