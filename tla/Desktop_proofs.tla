-------------------- MODULE Desktop_proofs ----------------------------------
(***************************************************************************)
(* Proofs about the two state machines of the desktop client.              *)
(*                                                                         *)
(* StepRunner, for plans of any length and any number of retries,          *)
(* submissions, failed requests and exits: what a completed task went      *)
(* through, how a run ends, what the user is asked about, and how much is  *)
(* still started after a stop.                                             *)
(*                                                                         *)
(* Services, for any calls, processes and bounds: who owns the operation   *)
(* flag, a stop that holds, and a runtime that is not lost.                *)
(***************************************************************************)
EXTENDS StepRunner, Services, TLAPS

-----------------------------------------------------------------------------
(* The step runner *)

USE BoundsAssumption

\* The awaits between the plan and the end of the last node.
Working == {"hanging", "mark", "exec", "review", "ask", "decide"}

\* Before the first node nothing has been done.
Fresh == pc \in {"begin", "plan", "list"} => cur = 1 /\ retries = 0

\* A node of the plan is worked on, those before it are done and accepted.
Progress ==
    /\ \A i, j \in Nodes : nodes[i] = "absent" /\ i < j => nodes[j] = "absent"
    /\ pc \in Working \union {"list", "finish"} =>
          nodes[cur] # "absent" /\ \A i \in Nodes : i < cur => nodes[i] = "done" /\ i \in approved
    /\ pc \in Working => retries <= MaxRetries
    /\ pc = "finish" => /\ nodes[cur] = "done" /\ cur \in approved
                        /\ \A i \in Nodes : cur < i => nodes[i] = "absent"

\* Where the task reads completed, and what a failed request has to do with an exception.
Endings ==
    /\ pc \in {"report", "persist"} => task \in {"completed", "gone"}
    /\ task = "completed" => pc \in {"report", "persist", "caught", "none"}
    /\ pc = "caught" => faults >= 1 \/ task = "gone"
    /\ pc # "none" => runs > 0

\* What is shown when the user is asked.
Asking ==
    /\ pc \in {"ask", "decide"} => nodes[cur] = "pending_review"
    /\ pc = "decide" => task = "gone" \/ shown = nodes

\* A stop wakes the runner, and nothing makes it wait again.
StopHeld ==
    /\ cancelled = FALSE => lateRuns = 0
    /\ pc = "hanging" => cancelled = FALSE
    /\ pc = "mark" => lateRuns = 0
    /\ lateRuns <= 1

Inv == /\ RunnerTypeOK /\ Fresh /\ Progress /\ Endings /\ Asking /\ StopHeld
       /\ CompletedIsApproved /\ OverIsFinal

\* The invariant holds at first,
LEMMA InitInv == RunnerInit => Inv
<1> SUFFICES ASSUME RunnerInit PROVE Inv
  OBVIOUS
<1>1. RunnerTypeOK
  <2>1. shown \in [Nodes -> NodeStatus] /\ nodes \in [Nodes -> NodeStatus]
    BY DEF RunnerInit, NoPlan, NodeStatus
  <2>2. cur \in Nodes /\ retries \in 0..MaxRetries + 1
    BY DEF RunnerInit, Nodes
  <2>3. runs \in 0..MaxRuns /\ faults \in 0..MaxFaults /\ quits \in 0..MaxQuits
    BY DEF RunnerInit
  <2> QED BY <2>1, <2>2, <2>3 DEF RunnerInit, RunnerTypeOK, Awaits
<1>2. Fresh /\ Endings /\ Asking /\ StopHeld /\ CompletedIsApproved /\ OverIsFinal
  BY DEF RunnerInit, Fresh, Endings, Asking, StopHeld, CompletedIsApproved, OverIsFinal
<1>3. Progress
  BY DEF RunnerInit, Progress, NoPlan, Working
<1> QED BY <1>1, <1>2, <1>3 DEF Inv

-----------------------------------------------------------------------------
\* What the parts of an action do.

\* The head of the loop leaves the other nodes alone and begins no node once cancelled.
LEMMA LoopFacts ==
    ASSUME NEW list \in [Nodes -> NodeStatus], NEW i \in Nodes,
           cancelled \in BOOLEAN, paused \in BOOLEAN, Loop(list, i)
    PROVE  /\ nodes' \in [Nodes -> NodeStatus]
           /\ pc' \in {"fail", "hanging", "mark"}
           /\ pc' \in {"hanging", "mark"} => cancelled = FALSE
           /\ \A j \in Nodes : j # i => nodes'[j] = list[j]
           /\ nodes'[i] = list[i] \/ nodes'[i] = "running"
  BY DEF Loop, NodeStatus

\* A PATCH goes on or throws.
LEMMA PatchFacts ==
    ASSUME RunnerTypeOK, NEW at, NEW rowStatus \in {"in_progress", "completed", "failed"},
           NEW list \in [Nodes -> NodeStatus], NEW next \in Awaits, NEW thrown \in Awaits,
           Patch(at, rowStatus, list, next, thrown)
    PROVE  /\ pc = at /\ pc' \in {next, thrown}
           /\ faults' \in Nat /\ faults' <= MaxFaults /\ faults' >= faults
           /\ task = "gone" => task' = "gone"
           /\ (task' = task /\ shown' = shown) \/ (task' = rowStatus /\ shown' = list)
           /\ pc' = thrown \/ (pc' = next /\ task' = rowStatus /\ shown' = list /\ faults' = faults)
           /\ pc' = next \/ faults' = faults + 1 \/ task' = "gone"
           /\ task' = rowStatus \/ faults' = faults + 1 \/ task' = "gone"
           /\ paused' = paused /\ cancelled' = cancelled /\ auto' = auto
           /\ deleting' = deleting /\ runs' = runs /\ quits' = quits
<1>0. /\ pc = at
      /\ paused' = paused /\ cancelled' = cancelled /\ auto' = auto
      /\ deleting' = deleting /\ runs' = runs /\ quits' = quits
      /\ faults \in Nat /\ MaxFaults \in Nat /\ faults <= MaxFaults
  BY DEF Patch, switches, bounds, RunnerTypeOK
<1>1. CASE Write(rowStatus, list) /\ pc' = next /\ UNCHANGED faults
  BY <1>0, <1>1 DEF Write
<1>2. CASE PatchThrows(rowStatus, list) /\ pc' = thrown
  <2>1. CASE task # "gone" /\ Fault /\ (Write(rowStatus, list) \/ UNCHANGED <<task, shown>>)
    BY <1>0, <1>2, <2>1 DEF Write, Fault
  <2>2. CASE task = "gone" /\ UNCHANGED <<task, shown, faults>>
    BY <1>0, <1>2, <2>2
  <2> QED BY <1>2, <2>1, <2>2 DEF PatchThrows
<1> QED BY <1>1, <1>2 DEF Patch

\* So does the finished node, to the next node or to the end.
LEMMA AcceptFacts ==
    ASSUME Inv, NEW by, Accept(by), pc \in Working,
           by = "user" \/ auto = TRUE, UNCHANGED switches
    PROVE  /\ nodes' \in [Nodes -> NodeStatus] /\ cur' \in Nodes /\ retries' \in 0..MaxRetries
           /\ pc' \in {"fail", "hanging", "mark", "finish"}
           /\ pc' \in {"hanging", "mark"} => cancelled = FALSE
           /\ approved' = approved \union {cur} /\ UNCHANGED <<stoppedAt, lateRuns>>
           /\ Progress'
<1> USE DEF Inv, RunnerTypeOK
<1>1. approved' = approved \union {cur} /\ UNCHANGED <<stoppedAt, lateRuns>>
  BY DEF Accept
<1> DEFINE done == [nodes EXCEPT ![cur] = "done"]
<1>2. done \in [Nodes -> NodeStatus] /\ done[cur] = "done" /\ \A j \in Nodes : j # cur => done[j] = nodes[j]
  BY DEF NodeStatus
<1>3. /\ nodes[cur] # "absent" /\ retries <= MaxRetries
      /\ \A i \in Nodes : i < cur => nodes[i] = "done" /\ i \in approved
      /\ \A i, j \in Nodes : nodes[i] = "absent" /\ i < j => nodes[j] = "absent"
  BY DEF Progress
<1>4. CASE Last(cur)
  <2>1. pc' = "finish" /\ nodes' = done /\ cur' = cur /\ retries' = retries
    BY <1>4 DEF Accept
  <2>2. \A i \in Nodes : cur < i => nodes[i] = "absent"
    BY <1>3, <1>4 DEF Last, Nodes
  <2>3. Progress'
    BY <1>1, <1>2, <1>3, <2>1, <2>2 DEF Progress, Working, Nodes
  <2> QED BY <1>1, <1>2, <1>3, <2>1, <2>3
<1>5. CASE ~Last(cur)
  <2>1. cur' = cur + 1 /\ retries' = 0 /\ Loop(done, cur + 1)
    BY <1>5 DEF Accept
  <2>2. cur + 1 \in Nodes /\ nodes[cur + 1] # "absent"
    BY <1>5 DEF Last, Nodes
  <2>3. /\ nodes' \in [Nodes -> NodeStatus]
        /\ pc' \in {"fail", "hanging", "mark"}
        /\ pc' \in {"hanging", "mark"} => cancelled = FALSE
        /\ \A j \in Nodes : j # cur + 1 => nodes'[j] = done[j]
        /\ nodes'[cur + 1] = done[cur + 1] \/ nodes'[cur + 1] = "running"
    BY <1>2, <2>1, <2>2, LoopFacts
  <2>4. nodes'[cur + 1] # "absent" /\ nodes'[cur] = "done"
    BY <1>2, <2>2, <2>3 DEF Nodes
  <2>5. \A i \in Nodes : i < cur + 1 => nodes'[i] = "done" /\ i \in approved'
    BY <1>1, <1>2, <1>3, <2>3, <2>4 DEF Nodes
  <2>6. \A i, j \in Nodes : nodes'[i] = "absent" /\ i < j => nodes'[j] = "absent"
    BY <1>2, <1>3, <2>2, <2>3, <2>4, <2>5 DEF Nodes
  <2>7. Progress'
    BY <2>1, <2>3, <2>4, <2>5, <2>6 DEF Progress, Working
  <2> QED BY <1>1, <2>1, <2>2, <2>3, <2>7
<1> QED BY <1>4, <1>5

\* Doing a node again.
LEMMA RedoFacts ==
    ASSUME Inv, Redo, pc \in Working, UNCHANGED switches
    PROVE  /\ nodes' \in [Nodes -> NodeStatus] /\ cur' = cur /\ retries' \in 0..MaxRetries + 1
           /\ pc' \in {"fail", "hanging", "mark", "rejected"}
           /\ pc' \in {"hanging", "mark"} => cancelled = FALSE
           /\ approved' = approved \ {cur} /\ UNCHANGED <<stoppedAt, lateRuns>>
           /\ Progress'
<1> USE DEF Inv, RunnerTypeOK
<1>1. approved' = approved \ {cur} /\ cur' = cur /\ retries' = retries + 1 /\ UNCHANGED <<stoppedAt, lateRuns>>
  BY DEF Redo
<1>2. /\ nodes[cur] # "absent" /\ retries <= MaxRetries
      /\ \A i \in Nodes : i < cur => nodes[i] = "done" /\ i \in approved
      /\ \A i, j \in Nodes : nodes[i] = "absent" /\ i < j => nodes[j] = "absent"
  BY DEF Progress
<1>3. CASE retries' > MaxRetries
  <2>1. pc' = "rejected" /\ nodes' = [nodes EXCEPT ![cur] = "rejected"]
    BY <1>3 DEF Redo
  <2> QED BY <1>1, <1>2, <2>1 DEF Progress, Working, NodeStatus
<1>4. CASE ~(retries' > MaxRetries)
  <2>1. Loop(nodes, cur)
    BY <1>4 DEF Redo
  <2>2. /\ nodes' \in [Nodes -> NodeStatus]
        /\ pc' \in {"fail", "hanging", "mark"}
        /\ pc' \in {"hanging", "mark"} => cancelled = FALSE
        /\ \A j \in Nodes : j # cur => nodes'[j] = nodes[j]
        /\ nodes'[cur] = nodes[cur] \/ nodes'[cur] = "running"
    BY <2>1, LoopFacts
  <2>3. Progress'
    BY <1>1, <1>2, <1>4, <2>2 DEF Progress, Working, Nodes
  <2> QED BY <1>1, <1>2, <1>4, <2>2, <2>3
<1> QED BY <1>3, <1>4

-----------------------------------------------------------------------------
\* Each action keeps the invariant.

\* The awaits at which the runner only writes to the row.
LEMMA PatchSteps ==
    ASSUME Inv, Begin \/ Ask \/ Rejected \/ FailTask \/ Finish \/ Caught
    PROVE  Inv'
<1> USE DEF Inv, RunnerTypeOK
<1>0. nodes' = nodes /\ cur' = cur /\ retries' = retries
      /\ approved' = approved /\ stoppedAt' = stoppedAt /\ lateRuns' = lateRuns
  BY DEF Begin, Ask, Rejected, FailTask, Finish, Caught, runnerVars, runHistory
<1> DEFINE Facts(at, rowStatus, list, next, thrown) ==
      /\ pc = at /\ pc' \in {next, thrown}
      /\ faults' \in Nat /\ faults' <= MaxFaults /\ faults' >= faults
      /\ task = "gone" => task' = "gone"
      /\ (task' = task /\ shown' = shown) \/ (task' = rowStatus /\ shown' = list)
      /\ pc' = thrown \/ (pc' = next /\ task' = rowStatus /\ shown' = list /\ faults' = faults)
      /\ pc' = next \/ faults' = faults + 1 \/ task' = "gone"
      /\ task' = rowStatus \/ faults' = faults + 1 \/ task' = "gone"
      /\ paused' = paused /\ cancelled' = cancelled /\ auto' = auto
      /\ deleting' = deleting /\ runs' = runs /\ quits' = quits
<1> USE DEF Awaits
<1>1. CASE Begin
  <2>1. Facts("begin", "in_progress", shown, "plan", "caught")
    BY <1>1, PatchFacts DEF Begin
  <2> QED BY <1>0, <2>1 DEF Fresh, Progress, Endings, Asking, StopHeld, CompletedIsApproved, OverIsFinal, Working
<1>2. CASE Ask
  <2>1. Facts("ask", "in_progress", nodes, "decide", "caught")
    BY <1>2, PatchFacts DEF Ask
  <2> QED BY <1>0, <2>1 DEF Fresh, Progress, Endings, Asking, StopHeld, CompletedIsApproved, OverIsFinal, Working
<1>3. CASE Rejected
  <2>1. Facts("rejected", "in_progress", nodes, "fail", "caught")
    BY <1>3, PatchFacts DEF Rejected
  <2> QED BY <1>0, <2>1 DEF Fresh, Progress, Endings, Asking, StopHeld, CompletedIsApproved, OverIsFinal, Working
<1>4. CASE FailTask
  <2>1. Facts("fail", "failed", nodes, "none", "caught")
    BY <1>4, PatchFacts DEF FailTask
  <2> QED BY <1>0, <2>1 DEF Fresh, Progress, Endings, Asking, StopHeld, CompletedIsApproved, OverIsFinal, Working
<1>5. CASE Finish
  <2>1. Facts("finish", "completed", nodes, "report", "caught")
    BY <1>5, PatchFacts DEF Finish
  <2>2. \A i \in Nodes : nodes[i] # "absent" => nodes[i] = "done" /\ i \in approved
    BY <2>1 DEF Progress, Nodes
  <2>3. nodes[1] # "absent"
    BY <2>1 DEF Progress, Nodes
  <2> QED BY <1>0, <2>1, <2>2, <2>3 DEF Fresh, Progress, Endings, Asking, StopHeld, CompletedIsApproved, OverIsFinal, Working
<1>6. CASE Caught
  <2>1. Facts("caught", "failed", nodes, "none", "none")
    BY <1>6, PatchFacts DEF Caught
  <2> QED BY <1>0, <2>1 DEF Fresh, Progress, Endings, Asking, StopHeld, CompletedIsApproved, OverIsFinal, Working
<1> QED BY <1>1, <1>2, <1>3, <1>4, <1>5, <1>6

\* The other awaits of the runner.
LEMMA PlanSteps ==
    ASSUME Inv, Plan \/ List
    PROVE  Inv'
<1> USE DEF Inv, RunnerTypeOK, Awaits
<1>1. CASE Plan
  <2>1. /\ pc = "plan" /\ pc' \in {"fail", "list"} /\ cur' = cur /\ retries' = retries
        /\ approved' = approved /\ stoppedAt' = stoppedAt /\ lateRuns' = lateRuns
        /\ task' = task /\ shown' = shown /\ faults' = faults /\ runs' = runs /\ quits' = quits
        /\ paused' = paused /\ cancelled' = cancelled /\ auto' = auto /\ deleting' = deleting
    BY <1>1 DEF Plan, Quiet, runHistory, switches, bounds
  <2>2. CASE pc' = "fail" /\ UNCHANGED nodes
    BY <2>1, <2>2 DEF Fresh, Progress, Endings, Asking, StopHeld, CompletedIsApproved, OverIsFinal, Working
  <2>3. ASSUME NEW n \in Nodes, pc' = "list",
               nodes' = [i \in Nodes |-> IF i <= n THEN "pending" ELSE "absent"]
        PROVE  Inv'
    <3>1. nodes' \in [Nodes -> NodeStatus] /\ nodes'[1] # "absent"
      BY <2>3 DEF NodeStatus, Nodes
    <3>2. \A i, j \in Nodes : nodes'[i] = "absent" /\ i < j => nodes'[j] = "absent"
      BY <2>3 DEF Nodes
    <3>3. Progress'
      BY <2>1, <2>3, <3>1, <3>2 DEF Fresh, Progress, Working, Nodes
    <3> QED BY <2>1, <2>3, <3>1, <3>3 DEF Fresh, Endings, Asking, StopHeld, CompletedIsApproved, OverIsFinal
  <2> QED BY <1>1, <2>2, <2>3 DEF Plan
<1>2. CASE List
  <2>1. /\ pc = "list" /\ cur' = cur /\ retries' = retries
        /\ approved' = approved /\ stoppedAt' = stoppedAt /\ lateRuns' = lateRuns
        /\ runs' = runs /\ quits' = quits
        /\ paused' = paused /\ cancelled' = cancelled /\ auto' = auto /\ deleting' = deleting
    BY <1>2 DEF List, runHistory, switches, bounds
  <2>2. cur = 1 /\ 1 \in Nodes /\ nodes[1] # "absent" /\ retries = 0
    BY <2>1 DEF Fresh, Progress, Nodes
  <2>3. CASE Write("in_progress", nodes) /\ Loop(nodes, 1) /\ UNCHANGED faults
    <3>1. /\ nodes' \in [Nodes -> NodeStatus]
          /\ pc' \in {"fail", "hanging", "mark"}
          /\ pc' \in {"hanging", "mark"} => cancelled = FALSE
          /\ \A j \in Nodes : j # 1 => nodes'[j] = nodes[j]
          /\ nodes'[1] = nodes[1] \/ nodes'[1] = "running"
      BY <2>2, <2>3, LoopFacts
    <3>2. task' = "in_progress" /\ shown' = nodes /\ faults' = faults
      BY <2>3 DEF Write
    <3>3. Progress'
      BY <2>1, <2>2, <3>1 DEF Progress, Working, Nodes
    <3> QED BY <2>1, <2>2, <3>1, <3>2, <3>3 DEF Fresh, Endings, Asking, StopHeld, CompletedIsApproved, OverIsFinal
  <2>4. CASE PatchThrows("in_progress", nodes) /\ pc' = "caught" /\ UNCHANGED nodes
    <3>1. /\ task' \in {task, "in_progress"} /\ shown' \in {shown, nodes}
          /\ faults' \in Nat /\ faults' <= MaxFaults /\ faults' >= faults
          /\ faults' = faults + 1 \/ task' = "gone"
          /\ task' = "completed" => task = "completed" /\ shown' = shown
      BY <2>4 DEF PatchThrows, Write, Fault
    <3> QED BY <2>1, <2>4, <3>1 DEF Fresh, Progress, Endings, Asking, StopHeld, CompletedIsApproved, OverIsFinal, Working
  <2> QED BY <1>2, <2>3, <2>4 DEF List
<1> QED BY <1>1, <1>2

\* The steps on a node keep the invariant: mark, execution, review and decision.
LEMMA NodeSteps ==
    ASSUME Inv, Mark \/ Exec \/ Review \/ Decide
    PROVE  Inv'
<1> USE DEF Inv, RunnerTypeOK, Awaits
<1>1. CASE Mark
  <2>0. Patch("mark", "in_progress", nodes, "exec", "caught")
    BY <1>1 DEF Mark
  <2>1. /\ pc = "mark" /\ pc' \in {"exec", "caught"}
        /\ faults' \in Nat /\ faults' <= MaxFaults /\ faults' >= faults
        /\ task = "gone" => task' = "gone"
        /\ (task' = task /\ shown' = shown) \/ (task' = "in_progress" /\ shown' = nodes)
        /\ pc' = "caught" \/ (pc' = "exec" /\ task' = "in_progress" /\ shown' = nodes /\ faults' = faults)
        /\ pc' = "exec" \/ faults' = faults + 1 \/ task' = "gone"
        /\ task' = "in_progress" \/ faults' = faults + 1 \/ task' = "gone"
        /\ paused' = paused /\ cancelled' = cancelled /\ auto' = auto
        /\ deleting' = deleting /\ runs' = runs /\ quits' = quits
    BY <2>0, PatchFacts
  <2>2. nodes' = nodes /\ cur' = cur /\ retries' = retries /\ approved' = approved /\ stoppedAt' = stoppedAt
    BY <1>1 DEF Mark, runnerVars
  <2>3. lateRuns' \in Nat /\ lateRuns' <= 1 /\ (cancelled = FALSE => lateRuns' = 0)
    BY <1>1, <2>1 DEF Mark, StopHeld
  <2> QED BY <2>1, <2>2, <2>3 DEF Fresh, Progress, Endings, Asking, StopHeld, CompletedIsApproved, OverIsFinal, Working
<1>2. CASE Exec \/ Review \/ Decide
  <2>1. /\ pc \in {"exec", "review", "decide"}
        /\ task' = task /\ shown' = shown /\ faults' = faults /\ runs' = runs /\ quits' = quits
        /\ paused' = paused /\ cancelled' = cancelled /\ auto' = auto /\ deleting' = deleting
        /\ UNCHANGED switches
    BY <1>2 DEF Exec, Review, Decide, Quiet, switches, bounds
  <2>2. task # "completed" /\ runs > 0 /\ pc \in Working
    BY <2>1 DEF Endings, Working
  <2>3. ASSUME NEW by, Accept(by), by = "user" \/ auto = TRUE PROVE Inv'
    <3>1. /\ nodes' \in [Nodes -> NodeStatus] /\ cur' \in Nodes /\ retries' \in 0..MaxRetries
          /\ pc' \in {"fail", "hanging", "mark", "finish"}
          /\ pc' \in {"hanging", "mark"} => cancelled = FALSE
          /\ approved' = approved \union {cur} /\ UNCHANGED <<stoppedAt, lateRuns>>
          /\ Progress'
      BY <2>1, <2>2, <2>3, AcceptFacts
    <3> QED BY <2>1, <2>2, <3>1 DEF Fresh, Endings, Asking, StopHeld, CompletedIsApproved, OverIsFinal
  <2>4. CASE Redo
    <3>1. /\ nodes' \in [Nodes -> NodeStatus] /\ cur' = cur /\ retries' \in 0..MaxRetries + 1
          /\ pc' \in {"fail", "hanging", "mark", "rejected"}
          /\ pc' \in {"hanging", "mark"} => cancelled = FALSE
          /\ approved' = approved \ {cur} /\ UNCHANGED <<stoppedAt, lateRuns>>
          /\ Progress'
      BY <2>1, <2>2, <2>4, RedoFacts
    <3> QED BY <2>1, <2>2, <3>1 DEF Fresh, Endings, Asking, StopHeld, CompletedIsApproved, OverIsFinal
  <2>5. CASE /\ cur' = cur /\ retries' = retries /\ approved' = approved
             /\ stoppedAt' = stoppedAt /\ lateRuns' = lateRuns
             /\ \/ pc' = "rejected" /\ nodes' = [nodes EXCEPT ![cur] = "rejected"]
                \/ pc' = "review" /\ nodes' = nodes
                \/ pc' = "ask" /\ nodes' = [nodes EXCEPT ![cur] = "pending_review"]
    <3>1. /\ nodes' \in [Nodes -> NodeStatus]
          /\ \A j \in Nodes : j # cur => nodes'[j] = nodes[j]
          /\ nodes'[cur] = nodes[cur] \/ nodes'[cur] = "rejected" \/ nodes'[cur] = "pending_review"
          /\ pc' = "ask" => nodes'[cur] = "pending_review"
      BY <2>5 DEF NodeStatus
    <3>2. Progress'
      <4>1. /\ \A i \in Nodes : nodes'[i] = "absent" <=> nodes[i] = "absent"
            /\ \A i \in Nodes : i < cur => nodes'[i] = "done" /\ i \in approved
            /\ pc' # "finish" /\ retries <= MaxRetries /\ nodes[cur] # "absent"
        BY <2>2, <2>5, <3>1 DEF Progress, Nodes
      <4> QED BY <2>5, <4>1 DEF Progress
    <3>3. RunnerTypeOK' /\ Fresh' /\ Endings'
      BY <2>1, <2>2, <2>5, <3>1 DEF Fresh, Endings
    <3>4. Asking' /\ StopHeld'
      BY <2>1, <2>2, <2>5, <3>1 DEF Asking, StopHeld
    <3>5. CompletedIsApproved' /\ OverIsFinal'
      BY <2>1, <2>2, <2>5 DEF CompletedIsApproved, OverIsFinal, Working
    <3> QED BY <3>2, <3>3, <3>4, <3>5
  <2> QED BY <1>2, <2>3, <2>4, <2>5 DEF Exec, Review, Decide, runnerVars, runHistory
<1> QED BY <1>1, <1>2

\* So do the reports at the end of a run,
LEMMA ReportSteps ==
    ASSUME Inv, NEW at \in {"report", "persist"}, NEW next \in {"persist", "none"},
           Report(at, next)
    PROVE  Inv'
<1> USE DEF Inv, RunnerTypeOK, Awaits
<1>1. /\ pc \in {"report", "persist"} /\ task' = task /\ shown' = shown
      /\ nodes' = nodes /\ cur' = cur /\ retries' = retries
      /\ approved' = approved /\ stoppedAt' = stoppedAt /\ lateRuns' = lateRuns
      /\ runs' = runs /\ quits' = quits
      /\ paused' = paused /\ cancelled' = cancelled /\ auto' = auto /\ deleting' = deleting
  BY DEF Report, runnerVars, runHistory, switches, bounds
<1>2. CASE pc' = next /\ UNCHANGED faults
  BY <1>1, <1>2 DEF Fresh, Progress, Endings, Asking, StopHeld, CompletedIsApproved, OverIsFinal, Working
<1>3. CASE Fault /\ pc' = "caught"
  <2>1. faults' \in Nat /\ faults' <= MaxFaults /\ faults' = faults + 1
    BY <1>3 DEF Fault
  <2> QED BY <1>1, <1>3, <2>1 DEF Fresh, Progress, Endings, Asking, StopHeld, CompletedIsApproved, OverIsFinal, Working
<1> QED BY <1>2, <1>3 DEF Report

\* Waking the runner, with or without a stop.
LEMMA WakeSteps ==
    ASSUME Inv, Wake, UNCHANGED <<task, shown, faults, runs, quits>>,
           auto' = auto, approved' = approved, lateRuns' = lateRuns, deleting' \in BOOLEAN,
           stoppedAt' \in Awaits,
           \/ cancelled' = cancelled
           \/ cancelled' = TRUE
    PROVE  Inv'
<1> USE DEF Inv, RunnerTypeOK
<1>0. paused' = FALSE /\ cur' = cur /\ retries' = retries
  BY DEF Wake
<1>1. CASE pc = "hanging"
  <2>1. pc' = "mark" /\ nodes' = [nodes EXCEPT ![cur] = "running"]
    BY <1>1 DEF Wake
  <2>2. /\ nodes' \in [Nodes -> NodeStatus] /\ nodes'[cur] = "running"
        /\ \A j \in Nodes : j # cur => nodes'[j] = nodes[j]
    BY <2>1 DEF NodeStatus
  <2>3. Progress'
    BY <1>0, <1>1, <2>1, <2>2 DEF Progress, Working, Nodes
  <2> QED BY <1>0, <1>1, <2>1, <2>2, <2>3 DEF Fresh, Endings, Asking, StopHeld, CompletedIsApproved, OverIsFinal, Awaits
<1>2. CASE pc # "hanging"
  <2>1. pc' = pc /\ nodes' = nodes
    BY <1>2 DEF Wake
  <2>2. Progress'
    BY <1>0, <2>1 DEF Progress
  <2>3. Fresh' /\ Endings' /\ Asking' /\ CompletedIsApproved' /\ OverIsFinal'
    BY <1>0, <2>1 DEF Fresh, Endings, Asking, CompletedIsApproved, OverIsFinal
  <2>4. StopHeld'
    BY <1>0, <1>2, <2>1 DEF StopHeld
  <2>5. RunnerTypeOK'
    BY <1>0, <2>1
  <2> QED BY <2>2, <2>3, <2>4, <2>5
<1> QED BY <1>1, <1>2

\* and the calls of the window, wherever the runner is.
LEMMA WindowSteps ==
    ASSUME Inv, Submit \/ Pause \/ Resume \/ Stop \/ SetAuto \/ RequestDelete \/ Delete \/ Quit
    PROVE  Inv'
<1> USE DEF Inv, RunnerTypeOK
<1>1. CASE Submit
  <2>1. /\ pc = "none" /\ pc' = "begin" /\ task # "completed" /\ task' = task /\ shown' = shown
        /\ nodes' = NoPlan /\ cur' = 1 /\ retries' = 0 /\ approved' = {} /\ stoppedAt' = "none"
        /\ lateRuns' = 0 /\ paused' = FALSE /\ cancelled' = FALSE /\ auto' \in BOOLEAN
        /\ deleting' = deleting /\ faults' = faults /\ quits' = quits
        /\ runs' = runs + 1 /\ runs < MaxRuns
    BY <1>1 DEF Submit, Registered, Startable
  <2>2. NoPlan \in [Nodes -> NodeStatus] /\ \A i \in Nodes : NoPlan[i] = "absent"
    BY DEF NoPlan, NodeStatus
  <2>3. RunnerTypeOK'
    <3>1. runs' \in 0..MaxRuns /\ retries' \in 0..MaxRetries + 1 /\ 1 \in Nodes
      BY <2>1 DEF Nodes
    <3>2. task' \in {"pending", "in_progress", "completed", "failed", "gone"} /\ pc' \in Awaits /\ stoppedAt' \in Awaits
      BY <2>1 DEF Awaits
    <3> QED BY <2>1, <2>2, <3>1, <3>2
  <2> QED BY <2>1, <2>2, <2>3 DEF Fresh, Progress, Endings, Asking, StopHeld, CompletedIsApproved, OverIsFinal, Working
<1>2. CASE Pause
  BY <1>2 DEF Pause, runnerVars, runHistory, bounds, Fresh, Progress, Endings, Asking, StopHeld, CompletedIsApproved, OverIsFinal
<1>3. CASE Resume
  <2>1. /\ Wake /\ UNCHANGED <<task, shown, faults, runs, quits>> /\ deleting' = deleting
        /\ auto' = auto /\ approved' = approved /\ lateRuns' = lateRuns /\ stoppedAt' = stoppedAt
        /\ cancelled' = cancelled
    BY <1>3 DEF Resume, runHistory, bounds
  <2> QED BY <2>1, WakeSteps
<1>4. CASE Stop
  <2>1. /\ Wake /\ UNCHANGED <<task, shown, faults, runs, quits>> /\ deleting' = deleting
        /\ auto' = auto /\ approved' = approved /\ lateRuns' = lateRuns /\ stoppedAt' \in {stoppedAt, pc}
        /\ cancelled' = TRUE
    BY <1>4 DEF Stop, Interrupt, bounds
  <2> QED BY <2>1, WakeSteps
<1>5. CASE SetAuto
  BY <1>5 DEF SetAuto, runnerVars, runHistory, bounds, Fresh, Progress, Endings, Asking, StopHeld, CompletedIsApproved, OverIsFinal
<1>6. CASE RequestDelete
  <2>1. UNCHANGED <<task, shown, faults, runs, quits>> /\ deleting' = TRUE
    BY <1>6 DEF RequestDelete, bounds
  <2>2. CASE Interrupt
    <3>1. /\ Wake /\ auto' = auto /\ approved' = approved /\ lateRuns' = lateRuns
          /\ stoppedAt' \in {stoppedAt, pc} /\ cancelled' = TRUE
      BY <2>2 DEF Interrupt
    <3> QED BY <2>1, <3>1, WakeSteps
  <2>3. CASE UNCHANGED <<pc, runnerVars, switches, runHistory>>
    BY <2>1, <2>3 DEF runnerVars, switches, runHistory, Fresh, Progress, Endings, Asking, StopHeld, CompletedIsApproved, OverIsFinal
  <2> QED BY <1>6, <2>2, <2>3 DEF RequestDelete
<1>7. CASE Delete
  <2>1. /\ task' \in {task, "gone"} /\ faults' \in Nat /\ faults' <= MaxFaults /\ faults' >= faults
        /\ deleting' = FALSE /\ shown' = shown /\ pc' = pc
        /\ UNCHANGED <<runnerVars, switches, runHistory, bounds>>
    BY <1>7 DEF Delete, Fault
  <2>2. Progress' /\ Fresh' /\ StopHeld'
    BY <2>1 DEF runnerVars, switches, runHistory, Progress, Fresh, StopHeld
  <2>3. Endings' /\ Asking' /\ CompletedIsApproved' /\ OverIsFinal'
    BY <2>1 DEF runnerVars, switches, runHistory, bounds, Endings, Asking, CompletedIsApproved, OverIsFinal
  <2>4. RunnerTypeOK'
    <3>1. faults' \in 0..MaxFaults /\ task' \in {"pending", "in_progress", "completed", "failed", "gone"}
      BY <2>1
    <3> QED BY <2>1, <3>1 DEF runnerVars, switches, runHistory, bounds
  <2> QED BY <2>2, <2>3, <2>4
<1>8. CASE Quit
  <2>1. /\ pc' = "none" /\ deleting' = FALSE /\ quits' = quits + 1 /\ quits < MaxQuits
        /\ UNCHANGED <<task, shown, runnerVars, switches, runHistory, faults, runs>>
    BY <1>8 DEF Quit
  <2>2. Progress' /\ Fresh' /\ StopHeld'
    BY <2>1 DEF runnerVars, switches, runHistory, Progress, Fresh, StopHeld, Working
  <2>3. Endings' /\ Asking' /\ CompletedIsApproved' /\ OverIsFinal'
    BY <2>1 DEF runnerVars, switches, runHistory, Endings, Asking, CompletedIsApproved, OverIsFinal
  <2>4. RunnerTypeOK'
    <3>1. quits' \in 0..MaxQuits /\ pc' \in Awaits
      BY <2>1 DEF Awaits
    <3> QED BY <2>1, <3>1 DEF runnerVars, switches, runHistory
  <2> QED BY <2>2, <2>3, <2>4
<1> QED BY <1>1, <1>2, <1>3, <1>4, <1>5, <1>6, <1>7, <1>8

\* a step that changes nothing keeps it,
LEMMA StutterStep == Inv /\ UNCHANGED stepVars => Inv'
  BY DEF stepVars, runnerVars, switches, runHistory, bounds, Inv, RunnerTypeOK, Fresh, Progress, Endings, Asking,
         StopHeld, CompletedIsApproved, OverIsFinal

\* so it always holds.
LEMMA Always == RunnerSpec => []Inv
<1>1. Inv /\ [RunnerNext]_stepVars => Inv'
  <2> SUFFICES ASSUME Inv, [RunnerNext]_stepVars PROVE Inv'
    OBVIOUS
  <2>1. CASE RunnerStep
    BY <2>1, PatchSteps, PlanSteps, NodeSteps, ReportSteps DEF RunnerStep
  <2>2. CASE WindowStep \/ Delete \/ Quit
    BY <2>2, NodeSteps, WindowSteps DEF WindowStep
  <2> QED BY <2>1, <2>2, StutterStep DEF RunnerNext
<1> QED BY <1>1, InitInv, PTL DEF RunnerSpec

-----------------------------------------------------------------------------
\* Every reachable state has its types; the retries of a node stay within maxRetries.
THEOREM RunnerTypeCorrect == RunnerSpec => []RunnerTypeOK
  BY Always, PTL DEF Inv

\* createStepRunner patches completed only when every node of the plan is done and
\* was accepted by the user or, with automatic confirmation, by the reviewer.
THEOREM CompletedWasApproved == RunnerSpec => []CompletedIsApproved
  BY Always, PTL DEF Inv

\* However a run ends, through failTask, the catch branch or the report, at most one
\* failed request does not leave its task in progress.
THEOREM EndsFinal == RunnerSpec => []OverIsFinal
  BY Always, PTL DEF Inv

\* sync comes before waitDecision: the node the runner waits for is the one on show.
THEOREM AsksWhatIsShown == RunnerSpec => []AskedIsShown
<1>1. Inv => AskedIsShown
  BY DEF Inv, Asking, AskedIsShown
<1> QED BY <1>1, Always, PTL

\* stop sets cancelled, which the loop reads before every node: one agent at most,
\* for which the runner was already past that test, is still started.
THEOREM StopHeeded == RunnerSpec => []StopIsHeeded
<1>1. Inv => StopIsHeeded
  BY DEF Inv, StopHeld, StopIsHeeded
<1> QED BY <1>1, Always, PTL

-----------------------------------------------------------------------------
(* Services and updates *)

\* An automatic restart only starts, and neither a call that is over nor a stop owns
\* the flag.
Shape ==
    /\ \A f \in Flows : flow[f].at = "idle" \/ Ending(f) => flow[f].owns = FALSE
    /\ \A f \in Restarters : /\ flow[f].at \in {"idle", "sleep", "probe", "build", "wait"}
                             /\ flow[f].owns = FALSE

\* What the calls remember, and who owns the flag.
FlowInv == flow \in [Flows -> Records] /\ attempted \in BOOLEAN /\ Shape /\ FlagHasOwner

\* While the service is quiet the stop has not been revoked.
QuietInv == StopHolds /\ (quiet => intentional = TRUE)

\* The old runtime is among the backups of the call that will restore it.
KeptInv ==
    runtime = "none" /\ deleted = FALSE =>
        \E f \in Flows : flow[f].at \in {"download", "refused"} /\ flow[f].backup # "none"

\* The variables other than those of FlowInv.
RestTyped ==
    /\ proc \in [Children -> {"gone", "up", "listening"}]
    /\ watched \subseteq Children /\ tracked \in Children \union {None}
    /\ status \in {"unknown", "starting", "running", "error", "stopped"}
    /\ intentional \in BOOLEAN /\ restarts \in 0..(MaxRestarts + 1)
    /\ runtime \in {"none", "stale", "fresh"}
    /\ deleted \in BOOLEAN /\ quiet \in BOOLEAN
    /\ ops \in 0..MaxOps

-----------------------------------------------------------------------------
(* The pieces of the calls *)

\* A call whose record becomes r, while nobody starts or ceases to own the flag.
LEMMA RecordChanges ==
    ASSUME FlowInv, NEW f \in Flows, NEW r \in Records,
           flow' = [flow EXCEPT ![f] = r], attempted' = attempted,
           r.owns = flow[f].owns,
           r.at = "idle" \/ (r.at = "kill" /\ r.next = "end") => r.owns = FALSE,
           f \in Restarters => r.at \in {"idle", "sleep", "probe", "build", "wait"}
    PROVE  FlowInv'
<1>1. flow' \in [Flows -> Records] /\ attempted' \in BOOLEAN
  BY DEF FlowInv
<1>2. flow'[f] = r /\ \A g \in Flows \ {f} : flow'[g] = flow[g]
  BY DEF FlowInv
<1>3. \A g \in Flows : flow'[g].owns = flow[g].owns
  BY <1>2
<1>4. FlagHasOwner'
  BY <1>3 DEF FlowInv, FlagHasOwner
<1>5. Restarters \subseteq Flows
  BY DEF Flows
<1>6. Shape'
  BY <1>2, <1>3, <1>5 DEF FlowInv, Shape, Ending
<1> QED BY <1>1, <1>4, <1>6 DEF FlowInv

\* A call that is over has its type,
LEMMA IdleTyped == Idle \in Records
  BY DEF Idle, Records

\* so has one that is at its next await, which keeps the rest.
LEMMA AtTyped ==
    ASSUME FlowInv, NEW f \in Flows,
           NEW where \in {"check", "probe", "build", "wait", "installed", "refused", "pause", "release"}
    PROVE  At(f, where) \in Records /\ At(f, where).at = where
           /\ At(f, where).owns = flow[f].owns /\ At(f, where).next = flow[f].next
           /\ At(f, where).backup = flow[f].backup
<1>1. flow[f] \in Records
  BY DEF FlowInv
<1> QED BY <1>1 DEF At, Records

\* A call that goes on to its next await keeps the shapes,
LEMMA GoesOn ==
    ASSUME FlowInv, NEW f \in Flows,
           NEW where \in {"check", "probe", "build", "wait"}, Goes(f, At(f, where)),
           f \in Restarters => where \in {"probe", "build", "wait"}
    PROVE  FlowInv'
  BY AtTyped, RecordChanges DEF Goes

\* as does one that returns,
LEMMA ReturnTyped ==
    ASSUME FlowInv, NEW f \in Flows, Return(f)
    PROVE  FlowInv'
<1>1. flow' \in [Flows -> Records] /\ attempted' \in BOOLEAN
  BY IdleTyped DEF FlowInv, Return
<1>2. flow'[f] = Idle /\ \A g \in Flows \ {f} : flow'[g] = flow[g]
  BY DEF FlowInv, Return
<1>3. Idle.owns = FALSE /\ Idle.at = "idle"
  BY DEF Idle
<1>4. attempted' = IF flow[f].owns THEN FALSE ELSE attempted
  BY DEF Return
<1>5. FlagHasOwner'
  BY <1>2, <1>3, <1>4 DEF FlowInv, FlagHasOwner
<1>6. Restarters \subseteq Flows
  BY DEF Flows
<1>7. Shape'
  BY <1>2, <1>3, <1>6 DEF FlowInv, Shape, Ending
<1> QED BY <1>1, <1>5, <1>7 DEF FlowInv

\* an automatic restart that waits,
LEMMA SleepTyped ==
    ASSUME FlowInv, NEW f \in Restarters, Goes(f, [Idle EXCEPT !.at = "sleep"])
    PROVE  FlowInv'
<1> DEFINE r == [Idle EXCEPT !.at = "sleep"]
<1>1. r \in Records /\ r.at = "sleep" /\ r.owns = FALSE
  BY DEF Idle, Records
<1>2. f \in Flows /\ flow[f].owns = FALSE
  BY DEF Flows, FlowInv, Shape
<1>3. flow' = [flow EXCEPT ![f] = r] /\ attempted' = attempted
  BY DEF Goes
<1> HIDE DEF r
<1> QED BY <1>1, <1>2, <1>3, RecordChanges

\* A stop of a call that remembers s, of a command or of a start that owns the flag.
LEMMA StopsTyped ==
    ASSUME FlowInv, tracked \in Children \union {None}, NEW f \in Commands, NEW s \in Records,
           NEW now, Stops(f, s, now),
           s.next = "end" => s.owns = FALSE,
           \/ attempted' = attempted /\ s.owns = flow[f].owns
           \/ attempted = FALSE /\ attempted' = TRUE /\ s.owns = TRUE
    PROVE  FlowInv'
<1> DEFINE r == flow'[f]
           Changed == /\ flow' = [flow EXCEPT ![f] = r]
                      /\ r \in Records /\ r.owns = s.owns
                      /\ r.at = "idle" \/ (r.at = "kill" /\ r.next = "end") => r.owns = FALSE
<1>1. f \in Flows /\ f \notin Restarters
  BY ServicesAssumption DEF Flows
<1>2. ASSUME tracked # None PROVE Changed
  <2>1. [s EXCEPT !.at = "kill", !.child = tracked] \in Records
    BY DEF Records
  <2>2. flow' = [flow EXCEPT ![f] = [s EXCEPT !.at = "kill", !.child = tracked]]
    BY <1>2 DEF Stops
  <2>3. r \in Records /\ r.owns = s.owns /\ r.at = "kill" /\ r.next = s.next
    BY <1>1, <2>1, <2>2 DEF FlowInv, Records
  <2>4. flow' = [flow EXCEPT ![f] = r]
    BY <1>1, <2>2 DEF FlowInv
  <2> HIDE DEF r
  <2> QED BY <2>3, <2>4
<1>3. ASSUME tracked = None, s.next = "end" PROVE Changed
  <2>1. flow' = [flow EXCEPT ![f] = Idle] /\ r = Idle
    BY <1>1, <1>3 DEF Stops, FlowInv
  <2>2. Idle.owns = FALSE /\ s.owns = FALSE
    BY <1>3 DEF Idle
  <2> QED BY <2>1, <2>2, IdleTyped
<1>4. ASSUME tracked = None, s.next # "end" PROVE Changed
  <2>1. s.next \in {"pause", "release"}
    BY <1>4 DEF Records
  <2>2. [s EXCEPT !.at = s.next] \in Records
    BY <2>1 DEF Records
  <2>3. flow' = [flow EXCEPT ![f] = [s EXCEPT !.at = s.next]]
    BY <1>4 DEF Stops
  <2>4. r \in Records /\ r.owns = s.owns /\ r.at \in {"pause", "release"} /\ r.next = s.next
    BY <1>1, <2>1, <2>2, <2>3 DEF FlowInv, Records
  <2>5. flow' = [flow EXCEPT ![f] = r]
    BY <1>1, <2>3 DEF FlowInv
  <2> HIDE DEF r
  <2> QED BY <2>4, <2>5
<1>5. Changed
  BY <1>2, <1>3, <1>4, Zenon
<1> HIDE DEF r
<1>6. CASE attempted' = attempted /\ s.owns = flow[f].owns
  BY <1>1, <1>5, <1>6, RecordChanges
<1>7. CASE attempted = FALSE /\ attempted' = TRUE /\ s.owns = TRUE
  <2>1. flow'[f] = r /\ \A g \in Flows \ {f} : flow'[g] = flow[g]
    BY <1>1, <1>5 DEF FlowInv
  <2>2. \A g \in Flows : flow[g].owns \in BOOLEAN /\ ~flow[g].owns
    BY <1>7 DEF FlowInv, FlagHasOwner, Records
  <2>3. FlagHasOwner'
    BY <1>1, <1>5, <1>7, <2>1, <2>2 DEF FlagHasOwner
  <2>4. Shape'
    BY <1>1, <1>5, <2>1 DEF FlowInv, Shape, Ending, Flows
  <2> QED BY <1>1, <1>5, <1>7, <2>3, <2>4 DEF FlowInv
<1> QED BY <1>6, <1>7

\* an installation that begins,
LEMMA InstallsTyped ==
    ASSUME FlowInv, tracked \in Children \union {None}, NEW f \in Commands, NEW now,
           attempted = FALSE, Installs(f, now)
    PROVE  FlowInv'
<1> DEFINE s == [flow[f] EXCEPT !.next = "release", !.owns = TRUE]
<1>1. flow[f] \in Records
  BY DEF FlowInv, Flows
<1>2. s \in Records /\ s.next = "release" /\ s.owns = TRUE
  BY <1>1 DEF Records
<1>3. Stops(f, s, now) /\ attempted' = TRUE
  BY DEF Installs
<1> HIDE DEF s
<1> QED BY <1>2, <1>3, StopsTyped

\* A command that stops first, with what it does next.
LEMMA CommandStops ==
    ASSUME FlowInv, tracked \in Children \union {None}, NEW f \in Commands, NEW now,
           NEW next \in {"end", "pause", "release"}, flow[f].at = "idle",
           Stops(f, [Idle EXCEPT !.next = next], now), attempted' = attempted
    PROVE  FlowInv'
<1> DEFINE s == [Idle EXCEPT !.next = next]
<1>1. s \in Records /\ s.next = next /\ s.owns = FALSE
  BY DEF Idle, Records
<1>2. flow[f].owns = FALSE
  BY DEF FlowInv, Shape, Flows
<1> HIDE DEF s
<1> QED BY <1>1, <1>2, StopsTyped DEF s

\* a start that fails,
LEMMA FailsTyped ==
    ASSUME FlowInv, tracked \in Children \union {None}, NEW f \in Flows, NEW now, Fails(f, now)
    PROVE  FlowInv'
<1>1. CASE f \in Restarters \/ attempted
  BY <1>1, ReturnTyped DEF Fails
<1>2. CASE ~(f \in Restarters \/ attempted)
  <2>1. f \in Commands /\ attempted = FALSE
    BY <1>2 DEF Flows, FlowInv
  <2>2. Installs(f, now)
    BY <1>2 DEF Fails
  <2> QED BY <2>1, <2>2, InstallsTyped
<1> QED BY <1>1, <1>2

\* one that begins,
LEMMA BeginsTyped ==
    ASSUME FlowInv, tracked \in Children \union {None}, NEW f \in Commands, Begins(f)
    PROVE  FlowInv'
<1>1. CASE runtime = "stale" /\ ~attempted
  <2>1. attempted = FALSE
    BY <1>1 DEF FlowInv
  <2> QED BY <1>1, <2>1, InstallsTyped DEF Begins
<1>2. CASE ~(runtime = "stale" /\ ~attempted)
  <2>1. Goes(f, At(f, "probe")) /\ f \in Flows
    BY <1>2 DEF Begins, Flows
  <2> QED BY <2>1, GoesOn
<1> QED BY <1>1, <1>2

\* one that is asked for,
LEMMA StartsTyped ==
    ASSUME FlowInv, tracked \in Children \union {None}, NEW f \in Commands, Starts(f)
    PROVE  FlowInv'
<1>1. CASE status = "running"
  <2>1. Goes(f, At(f, "check")) /\ f \in Flows /\ f \notin Restarters
    BY <1>1, ServicesAssumption DEF Starts, Flows
  <2> QED BY <2>1, GoesOn
<1>2. CASE status # "running"
  BY <1>2, BeginsTyped DEF Starts
<1> QED BY <1>1, <1>2

\* and a restart.
LEMMA RestartingTyped ==
    ASSUME FlowInv, NEW f \in Restarters, NEW now, Restarting(f, now)
    PROVE  FlowInv'
<1>1. Return(f) \/ Goes(f, [Idle EXCEPT !.at = "sleep"])
  BY DEF Restarting
<1>2. f \in Flows
  BY DEF Flows
<1> QED BY <1>1, <1>2, ReturnTyped, SleepTyped

-----------------------------------------------------------------------------
(* The steps *)

\* Only a start, and no automatic restart, is at these places.
LEMMA CommandAt ==
    ASSUME FlowInv, NEW f \in Flows, flow[f].at \in {"check", "kill", "pause", "release", "download", "installed", "refused"}
    PROVE  f \in Commands
  BY DEF FlowInv, Shape, Flows

\* Every step keeps the shapes of the calls.
LEMMA FlowInvStep == FlowInv /\ RestTyped /\ [Next]_vars => FlowInv'
<1> SUFFICES ASSUME FlowInv, RestTyped, [Next]_vars PROVE FlowInv'
  OBVIOUS
<1>0. tracked \in Children \union {None}
  BY DEF RestTyped
<1>u. ASSUME flow' = flow, attempted' = attempted PROVE FlowInv'
  BY <1>u DEF FlowInv, Shape, Ending, FlagHasOwner
<1>1. CASE UNCHANGED vars
  BY <1>1, <1>u DEF vars
<1>2. ASSUME NEW f \in Flows, Check(f) PROVE FlowInv'
  BY <1>0, <1>2, CommandAt, ReturnTyped, BeginsTyped DEF Check
<1>3. ASSUME NEW f \in Flows, Probe(f) PROVE FlowInv'
  BY <1>3, ReturnTyped, GoesOn DEF Probe
<1>4. ASSUME NEW f \in Flows, Spawn(f) PROVE FlowInv'
  BY <1>4, GoesOn DEF Spawn
<1>5. ASSUME NEW f \in Flows, NoSpawn(f) PROVE FlowInv'
  BY <1>0, <1>5, FailsTyped DEF NoSpawn
<1>6. ASSUME NEW f \in Flows, BuildThrows(f) PROVE FlowInv'
  BY <1>6, ReturnTyped, RestartingTyped DEF BuildThrows
<1>7. ASSUME NEW f \in Flows, Waited(f) PROVE FlowInv'
  BY <1>0, <1>7, ReturnTyped, FailsTyped DEF Waited
<1>8. ASSUME NEW f \in Flows, Killed(f) PROVE FlowInv'
  <2> DEFINE r == IF flow[f].next = "end" THEN Idle
                  ELSE [At(f, flow[f].next) EXCEPT !.child = None]
  <2>1. f \in Commands /\ flow[f].at = "kill" /\ flow[f] \in Records
    BY <1>8, CommandAt DEF Killed, FlowInv
  <2>2. CASE flow[f].next = "end"
    <3>1. r = Idle /\ Idle.owns = FALSE /\ Idle.at = "idle" /\ flow[f].owns = FALSE
      BY <2>1, <2>2 DEF Idle, FlowInv, Shape, Ending
    <3>2. flow' = [flow EXCEPT ![f] = Idle] /\ attempted' = attempted
      BY <1>8, <2>2 DEF Killed
    <3>3. f \notin Restarters
      BY <2>1, ServicesAssumption
    <3> QED BY <3>1, <3>2, <3>3, IdleTyped, RecordChanges
  <2>3. CASE flow[f].next # "end"
    <3>1. flow[f].next \in {"pause", "release"}
      BY <2>1, <2>3 DEF Records
    <3>2. /\ r \in Records /\ r.owns = flow[f].owns /\ r.at = flow[f].next
      BY <2>1, <2>3, <3>1 DEF At, Records
    <3>3. flow' = [flow EXCEPT ![f] = r] /\ attempted' = attempted
      BY <1>8 DEF Killed
    <3>4. f \notin Restarters
      BY <2>1, ServicesAssumption
    <3> HIDE DEF r
    <3> QED BY <3>1, <3>2, <3>3, <3>4, RecordChanges
  <2> QED BY <2>2, <2>3
<1>9. ASSUME NEW f \in Flows, Paused(f) PROVE FlowInv'
  <2>1. f \in Commands /\ f \notin Restarters
    BY <1>9, CommandAt, ServicesAssumption DEF Paused
  <2> QED BY <1>0, <1>9, <2>1, GoesOn, BeginsTyped DEF Paused
<1>10. ASSUME NEW f \in Flows, Released(f) PROVE FlowInv'
  <2> DEFINE r == flow'[f]
  <2>1. f \in Commands /\ f \notin Restarters /\ flow[f] \in Records
    BY <1>10, CommandAt, ServicesAssumption DEF Released, FlowInv
  <2>2. \E b \in {"none", "stale", "fresh"} :
           Goes(f, [flow[f] EXCEPT !.at = "download", !.backup = b])
    BY <1>10 DEF Released, RestTyped
  <2>3. PICK b \in {"none", "stale", "fresh"} :
           Goes(f, [flow[f] EXCEPT !.at = "download", !.backup = b])
    BY <2>2
  <2>4. r = [flow[f] EXCEPT !.at = "download", !.backup = b]
    BY <2>3 DEF Goes, FlowInv
  <2>5. r \in Records /\ r.at = "download" /\ r.owns = flow[f].owns
    BY <2>1, <2>4 DEF Records
  <2>6. flow' = [flow EXCEPT ![f] = r] /\ attempted' = attempted
    BY <2>3, <2>4 DEF Goes
  <2> HIDE DEF r
  <2> QED BY <2>1, <2>5, <2>6, RecordChanges
<1>11. ASSUME NEW ok \in BOOLEAN, DownloadEnds(ok) PROVE FlowInv'
  <2> DEFINE to == IF ok THEN "installed" ELSE "refused"
  <2>1. \A f \in Flows : At(f, to) \in Records /\ At(f, to).at = to
                          /\ At(f, to).owns = flow[f].owns /\ At(f, to).next = flow[f].next
    BY AtTyped
  <2>2. /\ flow' \in [Flows -> Records] /\ attempted' = attempted
        /\ \A f \in Flows : /\ flow'[f].owns = flow[f].owns
                            /\ flow[f].at # "download" => flow'[f] = flow[f]
                            /\ flow[f].at = "download" => flow'[f].at = to
    BY <1>11, <2>1 DEF DownloadEnds, FlowInv
  <2>3. to \in {"installed", "refused"}
    OBVIOUS
  <2> HIDE DEF to
  <2>4. FlagHasOwner'
    <3>1. \A f \in Flows : flow'[f].owns = flow[f].owns
      BY <2>2
    <3> QED BY <2>2, <3>1 DEF FlowInv, FlagHasOwner
  <2>5. ASSUME NEW f \in Flows, flow'[f].at = "idle" \/ Ending(f)' PROVE flow'[f].owns = FALSE
    BY <2>2, <2>3, <2>5 DEF FlowInv, Shape, Ending
  <2>6. ASSUME NEW f \in Restarters
        PROVE  /\ flow'[f].at \in {"idle", "sleep", "probe", "build", "wait"}
               /\ flow'[f].owns = FALSE
    <3>1. f \in Flows /\ flow[f].at # "download"
      BY DEF FlowInv, Shape, Flows
    <3> QED BY <2>2, <3>1 DEF FlowInv, Shape
  <2>7. Shape'
    BY <2>5, <2>6 DEF Shape
  <2> QED BY <2>2, <2>4, <2>7 DEF FlowInv
<1>12. ASSUME NEW f \in Flows, Installed(f) PROVE FlowInv'
  BY <1>0, <1>12, CommandAt, StartsTyped DEF Installed
<1>13. ASSUME NEW f \in Flows, Refused(f) PROVE FlowInv'
  BY <1>13, ReturnTyped DEF Refused
<1>14. ASSUME NEW f \in Flows, Wakes(f) PROVE FlowInv'
  BY <1>14, ReturnTyped, GoesOn DEF Wakes
<1>15. ASSUME NEW c \in Children, ProcessStep(c) PROVE FlowInv'
  <2>1. CASE Listens(c) \/ Dies(c) \/ SpawnError(c)
    BY <2>1, <1>u DEF Listens, Dies, SpawnError
  <2>2. CASE Exit(c)
    BY <2>2, <1>u, RestartingTyped DEF Exit
  <2> QED BY <1>15, <2>1, <2>2 DEF ProcessStep
<1>16. CASE Polls
  BY <1>16, <1>u DEF Polls
<1>17. ASSUME NEW f \in Commands, StartCommand(f) PROVE FlowInv'
  BY <1>0, <1>17, StartsTyped DEF StartCommand
<1>18. ASSUME NEW f \in Commands, StopCommand(f) PROVE FlowInv'
  BY <1>0, <1>18, CommandStops DEF StopCommand, Command
<1>19. ASSUME NEW f \in Commands, RestartCommand(f) PROVE FlowInv'
  BY <1>0, <1>19, CommandStops DEF RestartCommand, Command
<1>20. ASSUME NEW f \in Commands, InstallCommand(f) PROVE FlowInv'
  BY <1>0, <1>20, CommandStops DEF InstallCommand, Command
<1> QED
  BY <1>1, <1>2, <1>3, <1>4, <1>5, <1>6, <1>7, <1>8, <1>9, <1>10, <1>11, <1>12, <1>13,
     <1>14, <1>15, <1>16, <1>17, <1>18, <1>19, <1>20 DEF Next, FlowStep
-----------------------------------------------------------------------------
(* The other variables *)

\* What a piece of a call leaves of the executor, and which calls it leaves alone.
Framed(f) ==
    /\ watched' \subseteq Children /\ intentional' \in BOOLEAN
    /\ status' \in {"unknown", "starting", "running", "error", "stopped"}
    /\ restarts' \in 0..(MaxRestarts + 1)
    /\ \A g \in Flows \ {f} : flow'[g] = flow[g]

\* A start that fails, or installs instead, keeps the types of what is not its own;
LEMMA FailsFramed ==
    ASSUME FlowInv, RestTyped, NEW f \in Flows,
           NEW now \in {"unknown", "starting", "running", "error", "stopped"},
           Fails(f, now) \/ Installs(f, now)
    PROVE  Framed(f)
<1>1. CASE Return(f) /\ status' = now /\ UNCHANGED <<watched, intentional, restarts>>
  BY <1>1 DEF Return, Framed, RestTyped, FlowInv
<1>2. CASE Installs(f, now)
  <2>1. restarts' = 0 /\ watched' = watched \ {tracked} /\ intentional' = TRUE
    BY <1>2 DEF Installs, Stops
  <2>2. restarts' \in 0..(MaxRestarts + 1)
    BY <2>1, ServicesAssumption
  <2>3. status' \in {"unknown", "starting", "running", "error", "stopped"}
    BY <1>2 DEF Installs, Stops
  <2>4. \A g \in Flows \ {f} : flow'[g] = flow[g]
    BY <1>2 DEF Installs, Stops, FlowInv
  <2> QED BY <2>1, <2>2, <2>3, <2>4 DEF Framed, RestTyped
<1> QED BY <1>1, <1>2 DEF Fails

\* so does one that begins,
LEMMA BeginsFramed ==
    ASSUME FlowInv, RestTyped, NEW f \in Flows, Begins(f)
    PROVE  Framed(f)
<1>1. CASE Installs(f, status)
  BY <1>1, FailsFramed DEF RestTyped
<1>2. CASE Goes(f, At(f, "probe")) /\ intentional' = FALSE /\ restarts' = 0
           /\ UNCHANGED <<status, watched>>
  <2>1. restarts' \in 0..(MaxRestarts + 1)
    BY <1>2, ServicesAssumption
  <2> QED BY <1>2, <2>1 DEF Goes, Framed, RestTyped, FlowInv
<1> QED BY <1>1, <1>2 DEF Begins

\* one that is asked for,
LEMMA StartsFramed ==
    ASSUME FlowInv, RestTyped, NEW f \in Flows, Starts(f)
    PROVE  Framed(f)
<1>1. CASE Goes(f, At(f, "check")) /\ UNCHANGED <<status, watched, intentional, restarts>>
  BY <1>1 DEF Goes, Framed, RestTyped, FlowInv
<1> QED BY <1>1, BeginsFramed DEF Starts

\* a restart,
LEMMA RestartingFramed ==
    ASSUME FlowInv, RestTyped, NEW f \in Flows, Restarting(f, "error"),
           intentional' = intentional, watched' \subseteq watched
    PROVE  Framed(f)
<1>1. restarts' \in 0..(MaxRestarts + 1)
  BY ServicesAssumption DEF Restarting, Counted, RestTyped
<1>2. \A g \in Flows \ {f} : flow'[g] = flow[g]
  BY DEF Restarting, Return, Goes, FlowInv
<1> QED BY <1>1, <1>2 DEF Restarting, Framed, RestTyped

\* and a command.
LEMMA CommandFramed ==
    ASSUME FlowInv, RestTyped, NEW f \in Commands, NEW next \in {"end", "pause", "release"},
           Command(f), Stops(f, [Idle EXCEPT !.next = next], status)
    PROVE  Framed(f) /\ ops' \in 0..MaxOps
<1>1. restarts' = 0 /\ watched' = watched \ {tracked} /\ intentional' = TRUE
  BY DEF Stops
<1>2. restarts' \in 0..(MaxRestarts + 1)
  BY <1>1, ServicesAssumption
<1>3. status' \in {"unknown", "starting", "running", "error", "stopped"}
  BY DEF Stops, RestTyped
<1>4. \A g \in Flows \ {f} : flow'[g] = flow[g]
  BY DEF Stops, FlowInv
<1>5. ops' \in 0..MaxOps
  BY ServicesAssumption DEF Command, RestTyped
<1> QED BY <1>1, <1>2, <1>3, <1>4, <1>5 DEF Framed, RestTyped

\* Every step of a call leaves the other calls alone and the executor typed.
LEMMA FlowStepFramed ==
    ASSUME FlowInv, RestTyped, NEW f \in Flows, FlowStep(f)
    PROVE  Framed(f)
<1>1. CASE Check(f)
  BY <1>1, BeginsFramed DEF Check, Return, Framed, RestTyped, FlowInv
<1>2. CASE Probe(f)
  BY <1>2 DEF Probe, os, Return, Goes, Framed, RestTyped, FlowInv
<1>3. CASE Spawn(f)
  <2>1. tracked' \in Free /\ Free \subseteq Children
    BY <1>3 DEF Spawn, Free
  <2> QED BY <1>3, <2>1 DEF Spawn, Goes, Framed, RestTyped, FlowInv
<1>4. CASE NoSpawn(f)
  BY <1>4, FailsFramed DEF NoSpawn
<1>5. CASE BuildThrows(f)
  <2>1. watched' \subseteq watched /\ intentional' = intentional
    BY <1>5 DEF BuildThrows, os
  <2>2. CASE Restarting(f, "error")
    BY <2>1, <2>2, RestartingFramed
  <2>3. CASE Return(f) /\ status' = "error" /\ UNCHANGED restarts
    BY <2>1, <2>3 DEF Return, Framed, RestTyped, FlowInv
  <2> QED BY <1>5, <2>2, <2>3 DEF BuildThrows
<1>6. CASE Waited(f)
  <2>1. CASE Fails(f, IF tracked # None THEN "starting" ELSE status)
    BY <2>1, FailsFramed DEF RestTyped
  <2>2. CASE Return(f) /\ status' = "running" /\ restarts' = 0 /\ UNCHANGED <<watched, intentional>>
    <3>1. restarts' \in 0..(MaxRestarts + 1)
      BY <2>2, ServicesAssumption
    <3> QED BY <2>2, <3>1 DEF Return, Framed, RestTyped, FlowInv
  <2> QED BY <1>6, <2>1, <2>2 DEF Waited
<1>7. CASE Killed(f)
  BY <1>7 DEF Killed, Framed, RestTyped, FlowInv
<1>8. CASE Paused(f)
  <2>1. CASE Begins(f)
    BY <2>1, BeginsFramed
  <2>2. CASE Goes(f, At(f, "check")) /\ intentional' = FALSE /\ restarts' = 0
             /\ UNCHANGED <<status, watched>>
    <3>1. restarts' \in 0..(MaxRestarts + 1)
      BY <2>2, ServicesAssumption
    <3> QED BY <2>2, <3>1 DEF Goes, Framed, RestTyped, FlowInv
  <2> QED BY <1>8, <2>1, <2>2 DEF Paused
<1>9. CASE Released(f)
  <2>1. \A g \in Flows \ {f} : flow'[g] = flow[g]
    BY <1>9 DEF Released, Goes, FlowInv
  <2>2. UNCHANGED <<watched, executor>>
    BY <1>9 DEF Released
  <2> QED BY <2>1, <2>2 DEF executor, Framed, RestTyped
<1>10. CASE Installed(f)
  BY <1>10, StartsFramed DEF Installed
<1>11. CASE Refused(f)
  BY <1>11 DEF Refused, os, Return, Framed, RestTyped, FlowInv
<1>12. CASE Wakes(f)
  BY <1>12 DEF Wakes, os, Return, Goes, Framed, RestTyped, FlowInv
<1> QED
  BY <1>1, <1>2, <1>3, <1>4, <1>5, <1>6, <1>7, <1>8, <1>9, <1>10, <1>11, <1>12 DEF FlowStep

\* Every step keeps the remaining types,
LEMMA RestStep == FlowInv /\ RestTyped /\ [Next]_vars => RestTyped'
<1> SUFFICES ASSUME FlowInv, RestTyped, [Next]_vars PROVE RestTyped'
  OBVIOUS
<1> DEFINE OsTyped == /\ proc' \in [Children -> {"gone", "up", "listening"}]
                      /\ tracked' \in Children \union {None}
                      /\ runtime' \in {"none", "stale", "fresh"}
                      /\ deleted' \in BOOLEAN /\ quiet' \in BOOLEAN
<1>1. CASE UNCHANGED vars
  BY <1>1 DEF vars, os, executor, history, RestTyped
<1>2. ASSUME NEW f \in Flows, FlowStep(f) PROVE RestTyped'
  <2>1. Framed(f)
    BY <1>2, FlowStepFramed
  <2>2. ops' = ops
    BY <1>2 DEF FlowStep, Check, Probe, Spawn, NoSpawn, BuildThrows, Waited, Killed, Paused,
                Released, Installed, Refused, Wakes
  <2>3. CASE Spawn(f)
    <3>1. tracked' \in Free /\ Free \subseteq Children
      BY <2>3 DEF Spawn, Free
    <3> QED BY <2>1, <2>2, <2>3, <3>1 DEF Spawn, Framed, history, RestTyped
  <2>4. CASE Killed(f)
    <3>1. OsTyped
      BY <2>4 DEF Killed, history, RestTyped
    <3> QED BY <2>1, <2>2, <3>1 DEF Framed, RestTyped
  <2>5. CASE Released(f)
    <3>1. proc' \in [Children -> {"gone", "up", "listening"}]
      BY <2>5 DEF Released, RestTyped
    <3>2. runtime' \in {"none", "stale", "fresh"} /\ deleted' \in BOOLEAN
      BY <2>5 DEF Released, RestTyped
    <3>3. UNCHANGED <<tracked, quiet>>
      BY <2>5 DEF Released, executor
    <3> QED BY <2>1, <2>2, <3>1, <3>2, <3>3 DEF Framed, RestTyped
  <2>6. CASE Refused(f)
    <3>1. flow[f].backup \in {"none", "stale", "fresh"}
      BY DEF FlowInv, Records
    <3>2. runtime' \in {"none", "stale", "fresh"}
      BY <2>6, <3>1 DEF Refused, RestTyped
    <3> QED BY <2>1, <2>2, <2>6, <3>2 DEF Refused, os, history, Framed, RestTyped
  <2>7. CASE \/ Check(f) \/ Probe(f) \/ NoSpawn(f) \/ BuildThrows(f) \/ Waited(f)
             \/ Paused(f) \/ Installed(f) \/ Wakes(f)
    <3>1. UNCHANGED <<proc, tracked, runtime, history>>
      BY <2>7 DEF Check, Probe, NoSpawn, BuildThrows, Waited, Paused, Installed, Wakes, os
    <3> QED BY <2>1, <2>2, <3>1 DEF history, Framed, RestTyped
  <2> QED BY <1>2, <2>3, <2>4, <2>5, <2>6, <2>7 DEF FlowStep
<1>3. ASSUME NEW ok \in BOOLEAN, DownloadEnds(ok) PROVE RestTyped'
  BY <1>3 DEF DownloadEnds, os, executor, history, RestTyped
<1>4. ASSUME NEW c \in Children, ProcessStep(c) PROVE RestTyped'
  <2>1. CASE Listens(c) \/ Dies(c)
    BY <2>1 DEF Listens, Dies, executor, history, RestTyped
  <2>2. CASE SpawnError(c)
    BY <2>2 DEF SpawnError, history, RestTyped
  <2>3. CASE Exit(c)
    <3>1. restarts' \in 0..(MaxRestarts + 1)
      BY <2>3, ServicesAssumption DEF Exit, Restarting, Counted, RestTyped
    <3>2. status' \in {"unknown", "starting", "running", "error", "stopped"}
      BY <2>3 DEF Exit, Restarting
    <3> QED BY <2>3, <3>1, <3>2 DEF Exit, history, RestTyped
  <2> QED BY <1>4, <2>1, <2>2, <2>3 DEF ProcessStep
<1>5. CASE Polls
  BY <1>5 DEF Polls, os, history, RestTyped
<1>6. ASSUME NEW f \in Commands, StartCommand(f) PROVE RestTyped'
  <2>1. ops' \in 0..MaxOps
    BY <1>6, ServicesAssumption DEF StartCommand, Command, RestTyped
  <2>2. Framed(f)
    BY <1>6, StartsFramed DEF StartCommand, Flows
  <2> QED BY <1>6, <2>1, <2>2 DEF StartCommand, Command, Framed, RestTyped
<1>7. ASSUME NEW f \in Commands, StopCommand(f) \/ RestartCommand(f) \/ InstallCommand(f)
      PROVE  RestTyped'
  <2>1. Framed(f) /\ ops' \in 0..MaxOps
    BY <1>7, CommandFramed DEF StopCommand, RestartCommand, InstallCommand
  <2>2. UNCHANGED <<proc, tracked, runtime, deleted>> /\ quiet' \in BOOLEAN
    BY <1>7 DEF StopCommand, RestartCommand, InstallCommand, Command
  <2> QED BY <2>1, <2>2 DEF Framed, RestTyped
<1> QED BY <1>1, <1>2, <1>3, <1>4, <1>5, <1>6, <1>7 DEF Next

-----------------------------------------------------------------------------
(* A stop holds *)

\* The calls that rest or end before a step do so after it.
LEMMA QuietStep == FlowInv /\ RestTyped /\ QuietInv /\ [Next]_vars => QuietInv'
<1> SUFFICES ASSUME FlowInv, RestTyped, QuietInv, [Next]_vars PROVE QuietInv'
  OBVIOUS
<1> SUFFICES ASSUME quiet' = TRUE
             PROVE  /\ intentional' = TRUE
                    /\ \A g \in Flows : Resting(g)' \/ Ending(g)'
                    /\ tracked' # None => \E g \in Flows : Ending(g)' /\ flow'[g].child = tracked'
  <2>1. RestTyped'
    BY RestStep
  <2>2. quiet' = TRUE \/ quiet' = FALSE
    BY <2>1 DEF RestTyped
  <2> QED BY <2>2 DEF QuietInv, StopHolds
<1> DEFINE Rests == \A g \in Flows : Resting(g)' \/ Ending(g)'
<1>0. quiet = TRUE =>
        /\ intentional = TRUE
        /\ \A g \in Flows : Resting(g) \/ Ending(g)
        /\ tracked # None => \E g \in Flows : Ending(g) /\ flow[g].child = tracked
  BY DEF QuietInv, StopHolds
<1>1. CASE quiet = TRUE /\ UNCHANGED <<intentional, flow>> /\ tracked' \in {tracked, None}
  BY <1>0, <1>1 DEF Resting, Ending
<1>2. CASE UNCHANGED vars
  BY <1>1, <1>2 DEF vars, executor, history
<1>3. ASSUME NEW f \in Flows, FlowStep(f), quiet = TRUE
      PROVE  intentional' = TRUE /\ tracked' \in {tracked, None} /\ Rests
             /\ (tracked' # None => flow[f].at = "sleep")
  <2>1. flow[f].at \in {"idle", "sleep"} \/ (flow[f].at = "kill" /\ flow[f].next = "end")
    BY <1>0, <1>3 DEF Resting, Ending
  <2>2. Wakes(f) \/ Killed(f)
    BY <1>3, <2>1 DEF FlowStep, Check, Probe, Spawn, NoSpawn, BuildThrows, Waited, Killed, Paused,
                      Released, Installed, Refused, Wakes
  <2>3. /\ flow'[f] = Idle /\ intentional' = intentional /\ tracked' \in {tracked, None}
        /\ tracked' # None => flow[f].at = "sleep"
    BY <1>0, <1>3, <2>1, <2>2 DEF Wakes, Killed, Return, FlowInv
  <2>4. \A g \in Flows \ {f} : flow'[g] = flow[g]
    BY <1>3, FlowStepFramed DEF Framed
  <2>5. Rests
    BY <1>0, <1>3, <2>3, <2>4 DEF Resting, Ending, Idle
  <2> QED BY <1>0, <1>3, <2>3, <2>5
<1>4. ASSUME NEW f \in Flows, FlowStep(f), quiet = TRUE, tracked' # None
      PROVE  \E g \in Flows : Ending(g)' /\ flow'[g].child = tracked'
  <2>1. tracked' = tracked /\ flow[f].at = "sleep"
    BY <1>3, <1>4
  <2>2. PICK g \in Flows : Ending(g) /\ flow[g].child = tracked
    BY <1>0, <1>4, <2>1
  <2>3. g # f
    BY <2>1, <2>2 DEF Ending
  <2>4. flow'[g] = flow[g]
    BY <1>4, <2>3, FlowStepFramed DEF Framed
  <2> QED BY <2>1, <2>2, <2>4 DEF Ending
<1>5. ASSUME NEW f \in Flows, FlowStep(f) PROVE quiet = TRUE
  BY <1>5 DEF FlowStep, Check, Probe, Spawn, NoSpawn, BuildThrows, Waited, Killed, Paused,
              Released, Installed, Refused, Wakes, history
<1>6. ASSUME NEW ok \in BOOLEAN, DownloadEnds(ok) PROVE FALSE
  <2>1. quiet = TRUE
    BY <1>6 DEF DownloadEnds, history
  <2> QED BY <1>0, <1>6, <2>1 DEF DownloadEnds, Resting, Ending
<1>7. ASSUME NEW c \in Children, ProcessStep(c)
      PROVE  quiet = TRUE /\ UNCHANGED intentional /\ tracked' \in {tracked, None}
  BY <1>7 DEF ProcessStep, Listens, Dies, Exit, SpawnError, executor, history
<1>9. ASSUME NEW c \in Children, ProcessStep(c) PROVE flow' = flow
  <2>1. CASE Exit(c)
    <3>1. intentional = TRUE
      BY <1>0, <1>7, <1>9
    <3> QED BY <2>1, <3>1 DEF Exit
  <2>2. CASE Listens(c) \/ Dies(c) \/ SpawnError(c)
    BY <2>2 DEF Listens, Dies, SpawnError
  <2> QED BY <1>9, <2>1, <2>2 DEF ProcessStep
<1>10. CASE Polls
  BY <1>1, <1>10 DEF Polls, history
<1>11. ASSUME NEW f \in Commands, StopCommand(f)
       PROVE  /\ intentional' = TRUE /\ Rests
              /\ tracked' # None => \E g \in Flows : Ending(g)' /\ flow'[g].child = tracked'
  <2>1. f \in Flows /\ \A g \in Flows \ {f} : Resting(g)
    BY <1>11 DEF StopCommand, Flows
  <2>2. Stops(f, [Idle EXCEPT !.next = "end"], status) /\ tracked' = tracked
    BY <1>11 DEF StopCommand, Command
  <2>3. intentional' = TRUE /\ \A g \in Flows \ {f} : flow'[g] = flow[g]
    BY <2>2 DEF Stops, FlowInv
  <2>4. ASSUME tracked # None
        PROVE  flow'[f].at = "kill" /\ flow'[f].next = "end" /\ flow'[f].child = tracked
    <3>1. flow'[f] = [[Idle EXCEPT !.next = "end"] EXCEPT !.at = "kill", !.child = tracked]
      BY <2>1, <2>2, <2>4 DEF Stops, FlowInv
    <3> QED BY <3>1 DEF Idle
  <2>5. ASSUME tracked = None PROVE flow'[f].at = "idle"
    <3>1. flow'[f] = Idle
      BY <2>1, <2>2, <2>5 DEF Stops, FlowInv, Idle
    <3> QED BY <3>1 DEF Idle
  <2> QED BY <2>1, <2>2, <2>3, <2>4, <2>5 DEF Resting, Ending
<1>12. ASSUME NEW f \in Commands, StartCommand(f) \/ RestartCommand(f) \/ InstallCommand(f)
       PROVE  FALSE
  BY <1>12 DEF StartCommand, RestartCommand, InstallCommand
<1> QED
  BY <1>1, <1>2, <1>3, <1>4, <1>5, <1>6, <1>7, <1>9, <1>10, <1>11, <1>12 DEF Next
-----------------------------------------------------------------------------
(* A runtime is kept *)

\* and that a missing runtime is among the backups of a call.
LEMMA KeptStep == FlowInv /\ RestTyped /\ KeptInv /\ [Next]_vars => KeptInv'
<1> SUFFICES ASSUME FlowInv, RestTyped, KeptInv, [Next]_vars,
                    runtime' = "none", deleted' = FALSE
             PROVE  \E f \in Flows : flow'[f].at \in {"download", "refused"} /\ flow'[f].backup # "none"
  BY DEF KeptInv
<1> DEFINE Holds(f) == flow[f].at \in {"download", "refused"} /\ flow[f].backup # "none"
           Held == \E f \in Flows : flow'[f].at \in {"download", "refused"} /\ flow'[f].backup # "none"
\* A step that leaves the runtime and every holder as they are.
<1>1. ASSUME runtime = "none", deleted = FALSE,
             \A g \in Flows : Holds(g) => flow'[g] = flow[g]
      PROVE  Held
  BY <1>1 DEF KeptInv
<1>2. CASE UNCHANGED vars
  BY <1>1, <1>2 DEF vars, history
<1>3. ASSUME NEW f \in Flows, ~Holds(f), \A g \in Flows \ {f} : flow'[g] = flow[g],
             runtime' = runtime, deleted' = deleted
      PROVE  Held
  BY <1>1, <1>3
<1>4. ASSUME NEW f \in Flows, FlowStep(f) PROVE Held
  <2>1. \A g \in Flows \ {f} : flow'[g] = flow[g]
    BY <1>4, FlowStepFramed DEF Framed
  <2>2. CASE Released(f)
    <3>1. flow[f].at = "release" /\ flow[f] \in Records
      BY <2>2 DEF Released, FlowInv
    <3>2. deleted = FALSE /\ Goes(f, [flow[f] EXCEPT !.at = "download", !.backup = runtime])
      BY <2>2 DEF Released, RestTyped
    <3>3. flow'[f].at = "download" /\ flow'[f].backup = runtime
      BY <3>1, <3>2 DEF Goes, FlowInv, Records
    <3>4. CASE runtime # "none"
      BY <3>3, <3>4
    <3>5. CASE runtime = "none"
      BY <1>1, <2>1, <3>1, <3>2, <3>5
    <3> QED BY <3>4, <3>5
  <2>3. CASE Refused(f)
    <3>1. flow[f].backup = "none" /\ runtime = "none" /\ deleted = FALSE
      BY <2>3 DEF Refused, history
    <3> QED BY <1>1, <2>1, <3>1
  <2>4. CASE \/ Check(f) \/ Probe(f) \/ Spawn(f) \/ NoSpawn(f) \/ BuildThrows(f) \/ Waited(f)
             \/ Killed(f) \/ Paused(f) \/ Installed(f) \/ Wakes(f)
    <3>1. flow[f].at \notin {"download", "refused"} /\ UNCHANGED <<runtime, deleted>>
      BY <2>4 DEF Check, Probe, Spawn, NoSpawn, BuildThrows, Waited, Killed, Paused, Installed,
                  Wakes, history
    <3> QED BY <1>3, <2>1, <3>1
  <2> QED BY <1>4, <2>2, <2>3, <2>4 DEF FlowStep
<1>5. ASSUME NEW ok \in BOOLEAN, DownloadEnds(ok) PROVE Held
  <2>1. ok = FALSE /\ runtime = "none" /\ deleted = FALSE
    BY <1>5 DEF DownloadEnds, history
  <2>2. PICK f \in Flows : Holds(f)
    BY <2>1 DEF KeptInv
  <2>3. CASE flow[f].at = "download"
    <3>1. flow'[f] = At(f, "refused")
      BY <1>5, <2>1, <2>3 DEF DownloadEnds
    <3>2. At(f, "refused").at = "refused" /\ At(f, "refused").backup = flow[f].backup
      BY AtTyped
    <3> QED BY <2>2, <3>1, <3>2
  <2>4. CASE flow[f].at = "refused"
    <3>1. flow'[f] = flow[f]
      BY <1>5, <2>4 DEF DownloadEnds
    <3> QED BY <2>2, <3>1
  <2> QED BY <2>2, <2>3, <2>4
<1>6. ASSUME NEW c \in Children, ProcessStep(c) PROVE Held
  <2>1. UNCHANGED <<runtime, deleted>>
    BY <1>6 DEF ProcessStep, Listens, Dies, Exit, SpawnError, history
  <2>2. ASSUME NEW g \in Flows, Holds(g) PROVE flow'[g] = flow[g]
    <3>1. ASSUME NEW f \in Restarters, flow[f].at = "idle", Restarting(f, "error")
          PROVE  flow'[g] = flow[g]
      BY <2>2, <3>1 DEF Restarting, Return, Goes, FlowInv
    <3>2. \/ flow' = flow
          \/ \E f \in Restarters : flow[f].at = "idle" /\ Restarting(f, "error")
      BY <1>6 DEF ProcessStep, Listens, Dies, Exit, SpawnError
    <3> QED BY <3>1, <3>2
  <2> QED BY <1>1, <2>1, <2>2
<1>7. CASE Polls
  BY <1>1, <1>7 DEF Polls, history
<1>8. ASSUME NEW f \in Commands,
             StartCommand(f) \/ StopCommand(f) \/ RestartCommand(f) \/ InstallCommand(f)
      PROVE  Held
  <2>1. f \in Flows /\ flow[f].at = "idle" /\ UNCHANGED <<runtime, deleted>>
    BY <1>8 DEF StartCommand, StopCommand, RestartCommand, InstallCommand, Command, Flows
  <2>2. \A g \in Flows \ {f} : flow'[g] = flow[g]
    <3>1. CASE StartCommand(f)
      BY <2>1, <3>1, StartsFramed DEF StartCommand, Framed
    <3>2. CASE StopCommand(f) \/ RestartCommand(f) \/ InstallCommand(f)
      BY <3>2, CommandFramed DEF StopCommand, RestartCommand, InstallCommand, Framed
    <3> QED BY <1>8, <3>1, <3>2
  <2> QED BY <1>3, <2>1, <2>2
<1> QED BY <1>2, <1>4, <1>5, <1>6, <1>7, <1>8 DEF Next

-----------------------------------------------------------------------------
(* A running service has a process *)

Killing(f, c) == flow[f].at = "kill" /\ flow[f].child = c

\* A process whose exit is not listened to is being killed.
BackedInv ==
    /\ RunningIsBacked
    /\ \A c \in Live : c \in watched \/ \E f \in Flows : Killing(f, c)

\* A piece of a call listens as before, and says running only of a listening process,
Keeps == watched' = watched /\ (status' = "running" => status = "running" \/ Listening)
\* or it stops the tracked process.
Stopping(f) ==
    /\ watched' = watched \ {tracked}
    /\ tracked = None => status' = "stopped"
    /\ tracked # None => flow'[f].at = "kill" /\ flow'[f].child = tracked

\* Who stops the tracked process is killing it from then on;
LEMMA StopsStopping ==
    ASSUME FlowInv, NEW f \in Flows, NEW r \in Records, NEW now, Stops(f, r, now)
    PROVE  Stopping(f)
<1>1. CASE tracked # None
  <2> DEFINE k == [r EXCEPT !.at = "kill", !.child = tracked]
  <2>1. k.at = "kill" /\ k.child = tracked
    BY DEF Records
  <2>2. flow'[f] = k
    BY <1>1 DEF Stops, FlowInv
  <2> HIDE DEF k
  <2> QED BY <1>1, <2>1, <2>2 DEF Stops, Stopping
<1>2. CASE tracked = None
  BY <1>2 DEF Stops, Stopping
<1> QED BY <1>1, <1>2

\* an installation does that too.
LEMMA InstallsStopping ==
    ASSUME FlowInv, NEW f \in Flows, NEW now, Installs(f, now)
    PROVE  Stopping(f)
<1>1. [flow[f] EXCEPT !.next = "release", !.owns = TRUE] \in Records
  BY DEF FlowInv, Records
<1> QED BY <1>1, StopsStopping DEF Installs

\* A start that fails forgets no process,
LEMMA FailsPiece ==
    ASSUME FlowInv, NEW f \in Flows, NEW now, now # "running" \/ now = status, Fails(f, now)
    PROVE  Keeps \/ Stopping(f)
<1>1. CASE Installs(f, now)
  BY <1>1, InstallsStopping
<1>2. CASE status' = now /\ UNCHANGED <<watched, intentional, restarts>>
  BY <1>2 DEF Keeps
<1> QED BY <1>1, <1>2 DEF Fails

\* nor does one that begins,
LEMMA BeginsPiece ==
    ASSUME FlowInv, NEW f \in Flows, Begins(f)
    PROVE  Keeps \/ Stopping(f)
<1>1. CASE Installs(f, status)
  BY <1>1, InstallsStopping
<1>2. CASE UNCHANGED <<status, watched>>
  BY <1>2 DEF Keeps
<1> QED BY <1>1, <1>2 DEF Begins

\* nor one that is asked for.
LEMMA StartsPiece ==
    ASSUME FlowInv, NEW f \in Flows, Starts(f)
    PROVE  Keeps \/ Stopping(f)
<1>1. CASE Begins(f)
  BY <1>1, BeginsPiece
<1>2. CASE UNCHANGED <<status, watched, intentional, restarts>>
  BY <1>2 DEF Keeps
<1> QED BY <1>1, <1>2 DEF Starts

\* Such a piece, of a call that kills nothing, keeps the invariant.
LEMMA PieceBacked ==
    ASSUME FlowInv, RestTyped, BackedInv, NEW f \in Flows, flow[f].at # "kill",
           \A g \in Flows \ {f} : flow'[g] = flow[g], proc' = proc, Keeps \/ Stopping(f)
    PROVE  BackedInv'
<1>1. \A g \in Flows : flow[g].at = "kill" => flow'[g] = flow[g]
  OBVIOUS
<1>2. Live' = Live
  BY DEF Live
<1>3. None \notin watched
  BY ServicesAssumption DEF RestTyped
<1>4. \A c \in Live : c \in watched' \/ \E g \in Flows : Killing(g, c)'
  BY <1>1, <1>3 DEF BackedInv, Killing, Keeps, Stopping
<1>5. RunningIsBacked'
  <2>1. CASE Keeps
    <3>1. Listening => Live # {}
      BY DEF Listening, Live
    <3>2. status' = "running" => \/ Live # {}
                                 \/ \E c \in watched : proc[c] = "gone"
                                 \/ \E g \in Flows : flow[g].at = "kill"
      BY <2>1, <3>1 DEF BackedInv, RunningIsBacked, Keeps
    <3> QED BY <1>1, <1>2, <2>1, <3>2 DEF RunningIsBacked, Keeps
  <2>2. CASE Stopping(f)
    BY <2>2 DEF Stopping, RunningIsBacked
  <2> QED BY <2>1, <2>2
<1> QED BY <1>2, <1>4, <1>5 DEF BackedInv

\* Every step keeps running backed.
LEMMA BackedStep == FlowInv /\ RestTyped /\ BackedInv /\ [Next]_vars => BackedInv'
<1> SUFFICES ASSUME FlowInv, RestTyped, BackedInv, [Next]_vars PROVE BackedInv'
  OBVIOUS
\* A step that spares those who kill and those who are watched, and after which no
\* process lives that did not, and the status is running only if it was.
<1>0. ASSUME \A g \in Flows : flow[g].at = "kill" => flow'[g] = flow[g],
             watched' = watched, Live' \subseteq Live,
             \A c \in Children : proc[c] = "gone" => proc'[c] = "gone",
             status' = "running" => status = "running" \/ Listening
      PROVE  BackedInv'
  <2>1. \A c \in Live' : c \in watched' \/ \E g \in Flows : Killing(g, c)'
    BY <1>0 DEF BackedInv, Killing
  <2>2. Listening => Live # {}
    BY DEF Listening, Live
  <2>3. status' = "running" => \/ Live # {}
                               \/ \E c \in watched : proc[c] = "gone"
                               \/ \E g \in Flows : flow[g].at = "kill"
    BY <1>0, <2>2 DEF BackedInv, RunningIsBacked
  <2>4. ASSUME NEW c \in Live, c \notin Live'
        PROVE  (c \in watched /\ proc'[c] = "gone") \/ \E g \in Flows : flow'[g].at = "kill"
    <3>1. c \in Children /\ (proc'[c] = "gone" \/ proc' \notin [Children -> {"gone", "up", "listening"}])
      BY <2>4 DEF Live
    <3>2. proc' \in [Children -> {"gone", "up", "listening"}]
      BY RestStep DEF RestTyped
    <3>3. c \in watched \/ \E g \in Flows : Killing(g, c)
      BY DEF BackedInv
    <3> QED BY <1>0, <3>1, <3>2, <3>3 DEF Killing
  <2>5. watched \subseteq Children
    BY DEF RestTyped
  <2>6. RunningIsBacked'
    BY <1>0, <2>3, <2>4, <2>5 DEF RunningIsBacked
  <2> QED BY <2>1, <2>6 DEF BackedInv
<1>1. CASE UNCHANGED vars
  <2>1. UNCHANGED <<flow, proc, watched, status>>
    BY <1>1 DEF vars, os, executor
  <2> QED BY <1>0, <2>1 DEF Live
<1>2. ASSUME NEW f \in Flows, FlowStep(f) PROVE BackedInv'
  <2>1. \A g \in Flows \ {f} : flow'[g] = flow[g]
    BY <1>2, FlowStepFramed DEF Framed
  <2>2. CASE Spawn(f)
    <3>1. flow[f].at # "kill" /\ status' = "starting" /\ watched' = watched \union {tracked'}
      BY <2>2 DEF Spawn
    <3>2. Live' \subseteq Live \union {tracked'}
      BY <2>2 DEF Spawn, Live, RestTyped
    <3>3. \A g \in Flows : flow[g].at = "kill" => flow'[g] = flow[g]
      BY <2>1, <3>1
    <3> QED BY <3>1, <3>2, <3>3 DEF BackedInv, RunningIsBacked, Killing
  <2>3. CASE Killed(f)
    <3>1. status' = "stopped" /\ watched' = watched
      BY <2>3 DEF Killed
    <3>2. Live' \subseteq Live \ {flow[f].child}
      BY <2>3 DEF Killed, Live, RestTyped
    <3> QED BY <2>1, <3>1, <3>2 DEF BackedInv, RunningIsBacked, Killing
  <2>4. CASE Released(f)
    <3>1. flow[f].at = "release" /\ watched' = watched /\ status' = status
      BY <2>4 DEF Released, executor
    <3>2. Live' \subseteq Live /\ \A c \in Children : proc[c] = "gone" => proc'[c] = "gone"
      BY <2>4 DEF Released, Live
    <3> QED BY <1>0, <2>1, <3>1, <3>2
  <2>5. CASE \/ Check(f) \/ Probe(f) \/ NoSpawn(f) \/ BuildThrows(f) \/ Waited(f)
             \/ Paused(f) \/ Installed(f) \/ Refused(f) \/ Wakes(f)
    <3>1. flow[f].at # "kill" /\ proc' = proc
      BY <2>5 DEF Check, Probe, NoSpawn, BuildThrows, Waited, Paused, Installed, Refused, Wakes, os
    <3> SUFFICES Keeps \/ Stopping(f)
      BY <2>1, <3>1, PieceBacked
    <3>2. CASE Check(f)
      BY <3>2, BeginsPiece DEF Check, Keeps
    <3>3. CASE Probe(f)
      BY <3>3 DEF Probe, os, Keeps
    <3>4. CASE NoSpawn(f)
      BY <3>4, FailsPiece DEF NoSpawn
    <3>5. CASE BuildThrows(f)
      BY <3>5 DEF BuildThrows, Restarting, os, Keeps
    <3>6. CASE Waited(f)
      <4>1. CASE Fails(f, IF tracked # None THEN "starting" ELSE status)
        BY <4>1, FailsPiece
      <4>2. CASE Listening /\ UNCHANGED <<watched, intentional>>
        BY <4>2 DEF Keeps
      <4> QED BY <3>6, <4>1, <4>2 DEF Waited
    <3>7. CASE Paused(f)
      BY <3>7, BeginsPiece DEF Paused, Keeps
    <3>8. CASE Installed(f)
      BY <3>8, StartsPiece DEF Installed
    <3>9. CASE Refused(f)
      BY <3>9 DEF Refused, os, Keeps
    <3>10. CASE Wakes(f)
      BY <3>10 DEF Wakes, os, Keeps
    <3> QED
      BY <2>5, <3>2, <3>3, <3>4, <3>5, <3>6, <3>7, <3>8, <3>9, <3>10
  <2> QED BY <1>2, <2>2, <2>3, <2>4, <2>5 DEF FlowStep
<1>3. ASSUME NEW ok \in BOOLEAN, DownloadEnds(ok) PROVE BackedInv'
  <2>1. \A g \in Flows : flow[g].at = "kill" => flow'[g] = flow[g]
    BY <1>3 DEF DownloadEnds
  <2>2. UNCHANGED <<proc, watched, status>>
    BY <1>3 DEF DownloadEnds, os, executor
  <2> QED BY <1>0, <2>1, <2>2 DEF Live
<1>4. CASE Polls
  <2>1. UNCHANGED <<proc, watched, flow>> /\ (status' = "running" => Listening)
    BY <1>4 DEF Polls, os
  <2> QED BY <1>0, <2>1 DEF Live
<1>5. ASSUME NEW c \in Children, Listens(c) \/ Dies(c) PROVE BackedInv'
  <2>1. Live' \subseteq Live /\ \A d \in Children : proc[d] = "gone" => proc'[d] = "gone"
    BY <1>5 DEF Listens, Dies, Live, RestTyped
  <2>2. UNCHANGED <<watched, status, flow>>
    BY <1>5 DEF Listens, Dies, executor
  <2> QED BY <1>0, <2>1, <2>2
<1>6. ASSUME NEW c \in Children, SpawnError(c) PROVE BackedInv'
  <2>1. Live' \subseteq Live \ {c} /\ watched' = watched \ {c}
    BY <1>6 DEF SpawnError, Live, RestTyped
  <2>2. flow' = flow /\ status' = "error"
    BY <1>6 DEF SpawnError
  <2> QED BY <2>1, <2>2 DEF BackedInv, RunningIsBacked, Killing
<1>7. ASSUME NEW c \in Children, Exit(c) PROVE BackedInv'
  <2>1. proc' = proc /\ watched' = watched \ {c} /\ c \notin Live /\ status' # "running"
    BY <1>7 DEF Exit, Restarting, Live
  <2>2. ASSUME NEW g \in Flows, flow[g].at = "kill" PROVE flow'[g] = flow[g]
    <3>1. ASSUME NEW f \in Restarters, flow[f].at = "idle", Restarting(f, "error")
          PROVE  flow'[g] = flow[g]
      BY <2>2, <3>1 DEF Restarting, Return, Goes, FlowInv
    <3>2. flow' = flow \/ \E f \in Restarters : flow[f].at = "idle" /\ Restarting(f, "error")
      BY <1>7 DEF Exit
    <3> QED BY <3>1, <3>2
  <2>3. Live' = Live
    BY <2>1 DEF Live
  <2> QED BY <2>1, <2>2, <2>3 DEF BackedInv, RunningIsBacked, Killing
<1>8. ASSUME NEW f \in Commands,
             StartCommand(f) \/ StopCommand(f) \/ RestartCommand(f) \/ InstallCommand(f)
      PROVE  BackedInv'
  <2>1. f \in Flows /\ flow[f].at = "idle" /\ proc' = proc
    BY <1>8 DEF StartCommand, StopCommand, RestartCommand, InstallCommand, Command, Flows
  <2>2. CASE StartCommand(f)
    BY <2>1, <2>2, StartsFramed, StartsPiece, PieceBacked DEF StartCommand, Framed
  <2>3. ASSUME NEW next \in {"end", "pause", "release"}, Command(f),
               Stops(f, [Idle EXCEPT !.next = next], status)
        PROVE  BackedInv'
    <3>1. [Idle EXCEPT !.next = next] \in Records
      BY DEF Idle, Records
    <3> QED BY <2>1, <2>3, <3>1, CommandFramed, StopsStopping, PieceBacked DEF Framed
  <2> QED BY <1>8, <2>2, <2>3 DEF StopCommand, RestartCommand, InstallCommand
<1> QED
  BY <1>1, <1>2, <1>3, <1>4, <1>5, <1>6, <1>7, <1>8 DEF Next, ProcessStep

-----------------------------------------------------------------------------
(* The theorems *)

IInv == FlowInv /\ RestTyped /\ QuietInv /\ KeptInv /\ BackedInv

\* The invariant holds at first,
LEMMA InvInit == Init => IInv
<1> SUFFICES ASSUME Init PROVE IInv
  OBVIOUS
<1>1. \A f \in Flows : flow[f] = Idle
  BY DEF Init
<1>2. Idle.owns = FALSE /\ Idle.at = "idle"
  BY DEF Idle
<1>3. flow \in [Flows -> Records]
  BY IdleTyped DEF Init
<1>4. FlowInv
  BY <1>1, <1>2, <1>3 DEF Init, FlowInv, Shape, Ending, FlagHasOwner, Flows
<1>5. restarts \in 0..(MaxRestarts + 1) /\ ops \in 0..MaxOps
  BY ServicesAssumption DEF Init
<1>6. RestTyped
  BY <1>5 DEF Init, RestTyped
<1>7. quiet = FALSE /\ runtime # "none" /\ status = "unknown" /\ Live = {}
  BY DEF Init, Live
<1>8. QuietInv /\ KeptInv /\ BackedInv
  BY <1>7 DEF QuietInv, StopHolds, KeptInv, BackedInv, RunningIsBacked
<1> QED BY <1>4, <1>6, <1>8 DEF IInv

\* and always.
LEMMA InvAlways == Spec => []IInv
<1>1. IInv /\ [Next]_vars => IInv'
  BY FlowInvStep, RestStep, QuietStep, KeptStep, BackedStep DEF IInv
<1> QED BY InvInit, <1>1, PTL DEF Spec

\* Every reachable state has its types: status, process table, runtime and calls.
THEOREM TypeCorrect == Spec => []TypeOK
<1>1. IInv => TypeOK
  BY DEF IInv, FlowInv, RestTyped, TypeOK
<1> QED BY <1>1, InvAlways, PTL

\* A service stopped while nothing else is under way is not brought back without a
\* command (stop, tryAutoRestart, the exit handler).
THEOREM StopsHold == Spec => []StopHolds
<1>1. IInv => StopHolds
  BY DEF IInv, QuietInv
<1> QED BY <1>1, InvAlways, PTL

\* An installed runtime is there, or among the backups of a call that will restore it,
\* unless it had to be deleted (install).
THEOREM RuntimesAreKept == Spec => []RuntimeKept
<1>1. IInv => RuntimeKept
  BY DEF IInv, KeptInv, RestTyped, RuntimeKept
<1> QED BY <1>1, InvAlways, PTL

\* The flag against installing again and again belongs to one call (start).
THEOREM OneOwner == Spec => []FlagHasOwner
<1>1. IInv => FlagHasOwner
  BY DEF IInv, FlowInv
<1> QED BY <1>1, InvAlways, PTL

\* A service shown as running has a process, or the event or the call that will correct
\* the status is under way (the exit handler, stop).
THEOREM RunningHasProcess == Spec => []RunningIsBacked
<1>1. IInv => RunningIsBacked
  BY DEF IInv, BackedInv
<1> QED BY <1>1, InvAlways, PTL
=============================================================================
