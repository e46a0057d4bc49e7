----------------------------- MODULE EdictBoard -----------------------------
(***************************************************************************)
(* One edict on the board of the three departments and six ministries: the *)
(* file tasks_source.json, changed by kanban_update.py alone; the pipeline *)
(* of edict-orchestrator.ts, which runs the agent of the present state and *)
(* then asks for the next one; the commands of the windows; and the stall  *)
(* detector of edict-bridge.ts.  A command is checked twice: by the main   *)
(* process when it is asked for, and by the script, under the file's lock, *)
(* when it is carried out; everything may happen in between.  The pipeline *)
(* that edict:issue, edict:retry and the detector start is registered in   *)
(* runningTasks, the one of edict:run is not.                              *)
(***************************************************************************)
EXTENDS Naturals

CONSTANTS MaxVeto,         \* maxVetoRounds, 3 in the code
          MaxLoops,        \* turns of the pipeline's loop, 20 in the code
          MaxStallRetries, \* MAX_STALL_RETRIES, 2
          MaxEscalations,  \* MAX_ESCALATION_LEVEL, 3
          Columns,         \* the columns the user drags the card to
          MaxOps,          \* bound on commands of the user
          MaxFaults        \* bound on agents that fail and exits of the desktop

ASSUME BoundsAssumption ==
    /\ Columns \subseteq {"Taizi", "Zhongshu", "Menxia", "Assigned", "Next", "Doing",
                           "Review", "PendingConfirm", "Blocked", "Done", "Cancelled"}
    /\ {MaxVeto, MaxLoops, MaxStallRetries, MaxEscalations, MaxOps, MaxFaults} \subseteq Nat

VARIABLES state, target,          \* the task's state and what a confirmation leads to
          stalls, level,          \* stall_count and escalation_level in its meta
          run,                    \* of each pipeline: where it is, the state it works on,
                                  \* its vetoRound and its guard
          asked,                  \* the state each actor has asked the script for
          touched,                \* the user moved or cancelled the task by hand (history)
          approved, executed,     \* Menxia's consent; a ministry has answered (history)
          cancelled,              \* the user's last command was a cancel, answered ok (history)
          ops, faults
board == <<state, target>>
meta == <<stalls, level>>
history == <<touched, approved, executed, cancelled>>
bounds == <<ops, faults>>
vars == <<board, meta, run, asked, history, bounds>>

Pipelines == {"auto", "manual"}
\* Who has a command under way: the pipelines, the user, and the stall detector, when
\* it escalates a task and when it gives it up.
Actors == Pipelines \union {"user", "escalation", "blocking"}
States == {"Pending", "Taizi", "Zhongshu", "Menxia", "Assigned", "Next", "Doing",
           "Review", "PendingConfirm", "Blocked", "Done", "Cancelled"}
Terminal == {"Done", "Cancelled"}
Off == [at |-> "off", node |-> "none", vetoes |-> 0, loops |-> 0]
Started == [at |-> "read", node |-> "none", vetoes |-> 0, loops |-> 0]
At(r, where) == [r EXCEPT !.at = where]
Resumed(r) == [r EXCEPT !.at = "read", !.node = "none"]

\* STATE_TRANSITIONS, the same table in the main process and in the script.
Transitions(s) ==
    CASE s = "Pending" -> {"Taizi", "Cancelled"}
      [] s = "Taizi" -> {"Zhongshu", "Cancelled"}
      [] s = "Zhongshu" -> {"Menxia", "Cancelled", "Blocked"}
      [] s = "Menxia" -> {"Assigned", "Zhongshu", "Cancelled"}
      [] s = "Assigned" -> {"Doing", "Next", "Cancelled", "Blocked"}
      [] s = "Next" -> {"Doing", "Cancelled", "Blocked"}
      [] s = "Doing" -> {"Review", "Done", "Blocked", "Cancelled"}
      [] s = "Review" -> {"Done", "Menxia", "Doing", "Cancelled", "PendingConfirm"}
      [] s = "PendingConfirm" -> {"Done", "Review", "Cancelled"}
      [] s = "Blocked" -> {"Taizi", "Zhongshu", "Menxia", "Assigned", "Next", "Doing",
                           "Review", "Cancelled"}
      [] OTHER -> {}
Legal(from, to) == to \in Transitions(from)

\* HIGH_RISK_TRANSITIONS: they only lead to PendingConfirm.
HighRisk(from, to) ==
    <<from, to>> \in {<<"Review", "Done">>, <<"Doing", "Cancelled">>, <<"Menxia", "Cancelled">>}

Init ==
    /\ state \in {"Taizi", "Zhongshu"} /\ target = "Done"
    /\ stalls = 0 /\ level = 0
    /\ run = [p \in Pipelines |-> IF p = "auto" THEN Started ELSE Off]
    /\ asked = [a \in Actors |-> "none"]
    /\ touched = FALSE /\ approved = FALSE /\ executed = FALSE /\ cancelled = FALSE
    /\ ops = 0 /\ faults = 0

-----------------------------------------------------------------------------
(* The script *)

\* cmd_state looks at the state once more, under the file's lock.
Accepted(to) == Legal(state, to)

\* The command moves the task, or asks for a confirmation.
Moved(to) ==
    IF HighRisk(state, to)
    THEN state' = "PendingConfirm" /\ target' = to
    ELSE state' = to /\ UNCHANGED target

\* How a pipeline goes on: after Review comes the confirmation, a refusal ends it.
\* After an escalation a pipeline is started, whatever came of it.
Answered(a, ok) ==
    CASE a \in Pipelines /\ ~ok -> run' = [run EXCEPT ![a] = Off]
      [] a \in Pipelines /\ ok /\ run[a].node = "Review" -> run' = [run EXCEPT ![a] = At(run[a], "confirm")]
      [] a \in Pipelines /\ ok /\ run[a].node # "Review" -> run' = [run EXCEPT ![a] = Resumed(run[a])]
      [] a = "escalation" /\ run["auto"] = Off -> run' = [run EXCEPT !["auto"] = Started]
      [] OTHER -> UNCHANGED run

\* A command that was asked for is carried out or refused.
Kanban(a) ==
    /\ asked[a] # "none"
    /\ asked' = [asked EXCEPT ![a] = "none"]
    /\ IF Accepted(asked[a]) THEN Moved(asked[a]) ELSE UNCHANGED board
    /\ Answered(a, Accepted(asked[a]))
    /\ approved' = (approved \/ (Accepted(asked[a]) /\ asked[a] = "Assigned" /\ a # "escalation"))
    /\ cancelled' = (cancelled \/ (a = "user" /\ Accepted(asked[a]) /\ asked[a] = "Cancelled"))
    /\ UNCHANGED <<meta, touched, executed, bounds>>

-----------------------------------------------------------------------------
(* The pipeline *)

\* edictTransition of the main process: an illegal one ends the pipeline.
Ask(p, r, to) ==
    IF Legal(state, to)
    THEN asked' = [asked EXCEPT ![p] = to] /\ run' = [run EXCEPT ![p] = At(r, "told")]
    ELSE UNCHANGED asked /\ run' = [run EXCEPT ![p] = Off]

Working == {"Zhongshu", "Menxia", "Assigned", "Doing"}
Turn(p) == [at |-> "agent", node |-> state, vetoes |-> run[p].vetoes, loops |-> run[p].loops + 1]

\* The head of the loop: the agent of the state is started, Review is closed, every
\* other state ends the pipeline, as does the limit of its turns.
Read(p) ==
    /\ run[p].at = "read"
    /\ \/ /\ run[p].loops < MaxLoops /\ state \in Working
          /\ run' = [run EXCEPT ![p] = Turn(p)]
          /\ UNCHANGED asked
       \/ run[p].loops < MaxLoops /\ state = "Review" /\ Ask(p, Turn(p), "Done")
       \/ /\ run[p].loops >= MaxLoops \/ state \notin Working \union {"Review"}
          /\ run' = [run EXCEPT ![p] = Off] /\ UNCHANGED asked
    /\ UNCHANGED <<board, meta, history, bounds>>

\* Menxia sends the plan back at most maxVetoRounds times in a run.
MayVeto(p) == run[p].node = "Menxia" /\ run[p].vetoes < MaxVeto

\* What comes after the state a pipeline has read (PIPELINE).
Following(s) ==
    CASE s = "Zhongshu" -> "Menxia"
      [] s = "Menxia" -> "Assigned"
      [] s = "Assigned" -> "Doing"
      [] OTHER -> "Review"

Answers(p) ==
    /\ run[p].at = "agent"
    /\ executed' = (executed \/ run[p].node = "Doing")
    /\ \/ Ask(p, run[p], Following(run[p].node))
       \/ MayVeto(p) /\ Ask(p, [run[p] EXCEPT !.vetoes = @ + 1], "Zhongshu")
    /\ UNCHANGED <<board, meta, touched, approved, cancelled, bounds>>

\* Mutant: a pipeline that fails stays in runningTasks.
Fails_StaysRegistered(p) ==
    /\ run[p].at = "agent"
    /\ faults < MaxFaults /\ faults' = faults + 1
    /\ run' = [run EXCEPT ![p].at = "told"]
    /\ UNCHANGED <<board, meta, asked, history, ops>>

\* An agent that fails ends the pipeline, with a line in the task's progress only.
Fails(p) ==
    /\ run[p].at = "agent"
    /\ faults < MaxFaults /\ faults' = faults + 1
    /\ run' = [run EXCEPT ![p] = Off]
    /\ UNCHANGED <<board, meta, asked, history, ops>>

\* cmd_confirm approves whatever is to be confirmed, and is refused in other states.
Confirm(p) ==
    /\ run[p].at = "confirm"
    /\ IF state = "PendingConfirm"
       THEN state' = target /\ target' = "Done" /\ run' = [run EXCEPT ![p] = Resumed(run[p])]
       ELSE run' = [run EXCEPT ![p] = Off] /\ UNCHANGED board
    /\ UNCHANGED <<meta, asked, history, bounds>>

-----------------------------------------------------------------------------
(* The stall detector *)

\* Mutant: a stalled execution is taken for finished.
Escalated_ToReview(s) ==
    CASE s = "Menxia" -> "Zhongshu"
      [] s = "Review" -> "Menxia"
      [] s \in {"PendingConfirm", "Doing"} -> "Review"
      [] s = "Taizi" -> "Zhongshu"
      [] OTHER -> "Blocked"

\* Mutant: the deliberation of Menxia is skipped.
Escalated_Onward(s) ==
    CASE s = "Menxia" -> "Assigned"
      [] s = "Review" -> "Menxia"
      [] s = "PendingConfirm" -> "Review"
      [] s = "Taizi" -> "Zhongshu"
      [] OTHER -> "Blocked"

\* escalateOneLevel sends the task one step back, or to the user.
Escalated(s) ==
    CASE s = "Menxia" -> "Zhongshu"
      [] s = "Review" -> "Menxia"
      [] s = "PendingConfirm" -> "Review"
      [] s = "Taizi" -> "Zhongshu"
      [] OTHER -> "Blocked"

Escalate(a) ==
    /\ level' = level + 1
    /\ UNCHANGED stalls
    /\ IF Legal(state, Escalated(state))
       THEN asked' = [asked EXCEPT ![a] = Escalated(state)] /\ UNCHANGED run
       ELSE UNCHANGED asked /\ Answered(a, FALSE)

\* Ten minutes without a change, which may be any slow agent, and no registered
\* pipeline: isStalledTask and the head of applyStallRecovery.
Stalled ==
    /\ state \notin Terminal \union {"Blocked", "Pending"}
    /\ run["auto"] = Off
    /\ asked["escalation"] = "none" /\ asked["blocking"] = "none"

\* First the pipeline is started again,
StallRetry ==
    /\ Stalled
    /\ stalls < MaxStallRetries
    /\ stalls' = stalls + 1
    /\ run' = [run EXCEPT !["auto"] = Started]
    /\ UNCHANGED <<board, level, asked, history, bounds>>

\* then the task is sent back and the pipeline started again,
StallEscalate ==
    /\ Stalled
    /\ stalls >= MaxStallRetries /\ level < MaxEscalations
    /\ Escalate("escalation")
    /\ UNCHANGED <<board, history, bounds>>

\* and at last it is blocked, where the table allows it.  (edictBlock's second
\* command, which only notes the reason, is refused: zhongshu may not block.)
StallBlock ==
    /\ Stalled
    /\ stalls >= MaxStallRetries /\ level >= MaxEscalations
    /\ Legal(state, "Blocked")
    /\ asked' = [asked EXCEPT !["blocking"] = "Blocked"]
    /\ UNCHANGED <<board, meta, run, history, bounds>>

-----------------------------------------------------------------------------
(* The user *)

Commands ==
    asked["user"] = "none" /\ ops < MaxOps /\ ops' = ops + 1 /\ UNCHANGED faults

\* A card is dragged to any column, or pushed on by edictAdvance to the first one that
\* is legal; a cancel is a move, too.
UserMoves(to) ==
    /\ Commands
    /\ Legal(state, to)
    /\ asked' = [asked EXCEPT !["user"] = to]
    /\ touched' = TRUE /\ cancelled' = FALSE
    /\ UNCHANGED <<board, meta, run, approved, executed>>

\* The commands that do not take over from the departments: edictVeto, edictApprove,
\* edictBlock and edictUnblock.
UserRules(from, to) ==
    /\ Commands
    /\ state \in from
    /\ Legal(state, to)
    /\ asked' = [asked EXCEPT !["user"] = to]
    /\ cancelled' = FALSE
    /\ UNCHANGED <<board, meta, run, touched, approved, executed>>

UserEscalates ==
    /\ Commands
    /\ state \notin Terminal
    /\ Escalate("user")
    /\ cancelled' = FALSE
    /\ UNCHANGED <<board, touched, approved, executed>>

\* cmd_done reports the work of a ministry.
UserCompletes ==
    /\ Commands
    /\ state \in {"Doing", "Next"}
    /\ state' = "Review"
    /\ touched' = TRUE /\ cancelled' = FALSE
    /\ UNCHANGED <<target, meta, run, asked, approved, executed>>

\* edict:retry registers its pipeline, edict:run only asks whether one is registered.
UserRuns(p) ==
    /\ Commands
    /\ run["auto"] = Off /\ run[p] = Off
    /\ run' = [run EXCEPT ![p] = Started]
    /\ cancelled' = FALSE
    /\ UNCHANGED <<board, meta, asked, touched, approved, executed>>

User ==
    \/ \E to \in Columns : UserMoves(to)
    \/ UserRules(States, "Zhongshu")
    \/ UserRules(States, "Assigned")
    \/ UserRules(States, "Blocked")
    \/ UserEscalates \/ UserCompletes
    \/ \E p \in Pipelines : UserRuns(p)

\* The application is closed: its pipelines and what was asked for are gone.
Quit ==
    /\ faults < MaxFaults /\ faults' = faults + 1
    /\ run' = [p \in Pipelines |-> Off]
    /\ asked' = [a \in Actors |-> "none"]
    /\ UNCHANGED <<board, meta, history, ops>>

-----------------------------------------------------------------------------
PipelineStep(p) == Read(p) \/ Answers(p) \/ Fails(p) \/ Confirm(p) \/ Kanban(p)
Detector == StallRetry \/ StallEscalate \/ StallBlock \/ Kanban("escalation") \/ Kanban("blocking")

Next == (\E p \in Pipelines : PipelineStep(p)) \/ Detector \/ Kanban("user") \/ User \/ Quit

Spec == Init /\ [][Next]_vars

\* The script returns, which is a local process without waits, and the detector's timer
\* keeps firing on a task that stays as it is.  An agent need not answer: runHermes waits
\* for the exit of its process, without a time-out.  The user need not do anything.
FairSpec ==
    /\ Spec
    /\ \A p \in Pipelines : WF_vars(Read(p) \/ Confirm(p) \/ Kanban(p))
    /\ WF_vars(Detector) /\ WF_vars(Kanban("user"))

-----------------------------------------------------------------------------
(* Properties *)

Runs == [at : {"off", "read", "agent", "told", "confirm"}, node : Working \union {"Review", "none"},
         vetoes : 0..MaxVeto, loops : 0..MaxLoops]

\* Every variable has its type, and no run vetoes more often than it may.
TypeOK ==
    /\ state \in States /\ target \in Terminal
    /\ stalls \in 0..MaxStallRetries /\ level \in 0..(MaxEscalations + MaxOps)
    /\ run \in [Pipelines -> Runs]
    /\ asked \in [Actors -> States \union {"none"}]
    /\ touched \in BOOLEAN /\ approved \in BOOLEAN
    /\ executed \in BOOLEAN /\ cancelled \in BOOLEAN
    /\ ops \in 0..MaxOps /\ faults \in 0..MaxFaults

\* A task that is done or cancelled stays so, whatever was asked for before it ended
\* and is carried out after it (cmd_state's own check).
EndIsFinal == [][(state \in Terminal) => state' = state]_vars

\* No ministry works at a plan that Menxia has not passed, unless the user moved the
\* card himself: not after stalls, blocks, unblocks, vetoes or a second pipeline
\* (edictRunPipeline, escalateOneLevel).
NothingUnapproved ==
    ~touched => approved \/ \A p \in Pipelines : ~(run[p].at = "agent" /\ run[p].node = "Doing")

\* A task that is done was executed by a ministry, unless the user moved it, cancelled
\* it or reported it done by hand (escalateOneLevel from PendingConfirm, cmd_confirm).
DoneWasExecuted == state = "Done" /\ ~touched => executed

\* Whatever fails, a task ends or waits for the user as blocked while the detector has an
\* escalation left.  TLC refutes it: the agent of the registered pipeline hangs, and keeps
\* its task in runningTasks, where the detector leaves it (README, section 5).
NeverHangs ==
    (state \notin Terminal \union {"Blocked"}) ~>
        (state \in Terminal \union {"Blocked"} \/ level >= MaxEscalations)

\* No agent of the registered pipeline hangs for ever.
AgentsReturn == []<>(run["auto"].at # "agent")

\* A task does not hang as long as the agents of its registered pipeline return, well or
\* not, also when the agent of a pipeline that is not registered hangs
\* (applyStallRecovery, the finally of runPipelineSafe).
TaskEnds == AgentsReturn => NeverHangs

\* A cancel that was answered as done is not followed by the completion of the task.
\* TLC refutes it, with one operation and no fault: in Doing and Menxia the cancel only
\* asks for a confirmation that nobody can give (README, section 5).
CancelHolds == cancelled => state # "Done"
=============================================================================
