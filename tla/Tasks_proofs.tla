-------------------- MODULE Tasks_proofs ------------------------------------
(***************************************************************************)
(* Proofs about the two ways a user's wish becomes tasks.                  *)
(*                                                                         *)
(* EdictBoard, for any limits and any commands of the user: the inductive  *)
(* invariant says, of a task the user has not moved, that before Menxia's  *)
(* consent the task, what the pipelines work on and what anybody has asked *)
(* for all lie before the ministries, and that before a ministry has       *)
(* answered all of them lie before the review.                             *)
(*                                                                         *)
(* Briefs, for any requests, failures and crashes: done stands over stored *)
(* tasks, a brief that may be edited is untouched, and its tasks are       *)
(* stored once.                                                            *)
(***************************************************************************)
EXTENDS EdictBoard, Briefs, TLAPS

-----------------------------------------------------------------------------
(* The board of edicts *)

USE DEF Pipelines, Actors, States, Terminal, Working

LevelBound == level <= MaxEscalations + ops

\* An agent works on a state that has one.
AgentHasNode == \A p \in Pipelines : run[p].at = "agent" => run[p].node \in Working

Drafting == {"Taizi", "Zhongshu", "Menxia", "Blocked"}
BeforeReview == Drafting \union {"Assigned", "Doing"}

ApprovalInv == touched = FALSE => \/ approved = TRUE
    \/ /\ state \in Drafting
       /\ \A p \in Pipelines : run[p].node \in {"none", "Zhongshu", "Menxia"}
       /\ \A a \in Actors : asked[a] \in {"none", "Zhongshu", "Menxia", "Blocked", "Assigned"}
       /\ asked["escalation"] # "Assigned" /\ asked["blocking"] # "Assigned"

ExecutionInv == touched = FALSE => \/ executed = TRUE
    \/ /\ state \in BeforeReview
       /\ \A p \in Pipelines : run[p].node \in {"none"} \union Working
       /\ \A a \in Actors : asked[a] \in {"none"} \union BeforeReview

Inv == TypeOK /\ LevelBound /\ AgentHasNode /\ ApprovalInv /\ ExecutionInv


-----------------------------------------------------------------------------
\* What a pipeline's slot holds after it is written.
LEMMA RunWritten ==
    ASSUME run \in [Pipelines -> Runs], NEW p \in Pipelines, NEW r \in Runs,
           run' = [run EXCEPT ![p] = r]
    PROVE  /\ run' \in [Pipelines -> Runs]
           /\ \A q \in Pipelines : run'[q] = IF q = p THEN r ELSE run[q]
  OBVIOUS

\* The records of a pipeline that is off and of one that starts.
LEMMA Constants == Off \in Runs /\ Started \in Runs /\ Off.node = "none" /\ Off.at = "off"
                   /\ Started.node = "none" /\ Started.at = "read"
  BY BoundsAssumption DEF Off, Started, Runs

\* What the steps of a pipeline make of its record.
LEMMA ShapeRuns ==
    ASSUME NEW r \in Runs
    PROVE  /\ \A w \in {"off", "read", "agent", "told", "confirm"} :
                At(r, w) \in Runs /\ At(r, w).at = w /\ At(r, w).node = r.node
           /\ Resumed(r) \in Runs /\ Resumed(r).at = "read" /\ Resumed(r).node = "none"
  BY DEF At, Resumed, Runs

\* A state that is asked for is told to the script, or the pipeline is over.
LEMMA AskGives ==
    ASSUME TypeOK, NEW p \in Pipelines, NEW r \in Runs, NEW to \in States, Ask(p, r, to)
    PROVE  /\ run' \in [Pipelines -> Runs] /\ asked' \in [Actors -> States \union {"none"}]
           /\ \A q \in Pipelines : q # p => run'[q] = run[q]
           /\ run'[p].at \in {"told", "off"} /\ run'[p].node \in {r.node, "none"}
           /\ \A a \in Actors : asked'[a] = asked[a] \/ (a = p /\ asked'[a] = to)
<1>. DEFINE told == At(r, "told")
<1>1. told \in Runs /\ told.at = "told" /\ told.node = r.node
  BY ShapeRuns
<1>2. CASE Legal(state, to)
  <2>1. run' = [run EXCEPT ![p] = told] /\ asked' = [asked EXCEPT ![p] = to]
    BY <1>2 DEF Ask
  <2>. HIDE DEF told
  <2>. QED BY <1>1, <2>1, RunWritten DEF TypeOK
<1>3. CASE ~Legal(state, to)
  <2>1. run' = [run EXCEPT ![p] = Off] /\ asked' = asked
    BY <1>3 DEF Ask
  <2>. QED BY <2>1, RunWritten, Constants DEF TypeOK
<1>. QED BY <1>2, <1>3

\* An answer ends a node or leaves the record as it is.
LEMMA AnsweredGives ==
    ASSUME TypeOK, NEW a \in Actors, NEW ok \in BOOLEAN, Answered(a, ok)
    PROVE  /\ run' \in [Pipelines -> Runs]
           /\ \A q \in Pipelines : /\ run'[q].node \in {run[q].node, "none"}
                                   /\ run'[q].at = "agent" => run'[q] = run[q]
<1>1. run \in [Pipelines -> Runs]
  BY DEF TypeOK
<1>2. ASSUME NEW p \in Pipelines, NEW r \in Runs, run' = [run EXCEPT ![p] = r],
             r.node \in {run[p].node, "none"}, r.at # "agent"
      PROVE  /\ run' \in [Pipelines -> Runs]
             /\ \A q \in Pipelines : /\ run'[q].node \in {run[q].node, "none"}
                                     /\ run'[q].at = "agent" => run'[q] = run[q]
  BY <1>1, <1>2, RunWritten
<1>3. CASE a \in Pipelines /\ ~ok
  <2>1. run' = [run EXCEPT ![a] = Off]
    BY <1>3 DEF Answered
  <2>. QED BY <2>1, <1>2, <1>3, Constants
<1>4. CASE a \in Pipelines /\ ok /\ run[a].node = "Review"
  <2>1. run' = [run EXCEPT ![a] = At(run[a], "confirm")]
    BY <1>4 DEF Answered
  <2>2. run[a] \in Runs
    BY <1>1, <1>4
  <2>3. At(run[a], "confirm") \in Runs /\ At(run[a], "confirm").at = "confirm"
        /\ At(run[a], "confirm").node = run[a].node
    BY <2>2, ShapeRuns
  <2>. QED BY <2>1, <2>3, <1>2, <1>4
<1>5. CASE a \in Pipelines /\ ok /\ run[a].node # "Review"
  <2>1. run' = [run EXCEPT ![a] = Resumed(run[a])]
    BY <1>5 DEF Answered
  <2>2. run[a] \in Runs
    BY <1>1, <1>5
  <2>3. Resumed(run[a]) \in Runs /\ Resumed(run[a]).at = "read" /\ Resumed(run[a]).node = "none"
    BY <2>2, ShapeRuns
  <2>. QED BY <2>1, <2>3, <1>2, <1>5
<1>6. CASE a \notin Pipelines /\ a = "escalation" /\ run["auto"] = Off
  <2>1. run' = [run EXCEPT !["auto"] = Started]
    BY <1>6 DEF Answered
  <2>. QED BY <2>1, <1>2, Constants
<1>7. CASE a \notin Pipelines /\ ~(a = "escalation" /\ run["auto"] = Off)
  <2>1. run' = run
    BY <1>7 DEF Answered
  <2>. QED BY <2>1, <1>1
<1>. QED BY <1>3, <1>4, <1>5, <1>6, <1>7

\* The states that a command can lead to.
LEMMA MovedTo ==
    ASSUME TypeOK, NEW to \in States, Legal(state, to), Moved(to)
    PROVE  /\ state' \in States /\ target' \in Terminal
           /\ to \notin Terminal => state' = to
<1>1. HighRisk(state, to) => to \in Terminal
  BY DEF HighRisk
<1>. QED BY <1>1 DEF Moved, TypeOK

-----------------------------------------------------------------------------

\* The invariant holds at first;
LEMMA InitInv == Init => Inv
<1>. SUFFICES ASSUME Init PROVE Inv
  OBVIOUS
<1>1. run \in [Pipelines -> Runs] /\ \A p \in Pipelines : run[p].node = "none" /\ run[p].at # "agent"
  BY Constants DEF Init
<1>2. asked \in [Actors -> States \union {"none"}] /\ \A a \in Actors : asked[a] = "none"
  BY DEF Init
<1>3. TypeOK
  <2>1. stalls \in 0..MaxStallRetries /\ level \in 0..(MaxEscalations + MaxOps)
        /\ ops \in 0..MaxOps /\ faults \in 0..MaxFaults
    BY BoundsAssumption DEF Init
  <2>2. state \in States /\ target \in Terminal /\ touched \in BOOLEAN /\ approved \in BOOLEAN
        /\ executed \in BOOLEAN /\ cancelled \in BOOLEAN
    BY DEF Init
  <2>. QED BY <1>1, <1>2, <2>1, <2>2 DEF TypeOK
<1>4. LevelBound
  BY BoundsAssumption DEF Init, LevelBound
<1>. QED BY <1>1, <1>2, <1>3, <1>4 DEF Init, Inv, AgentHasNode, ApprovalInv, ExecutionInv, Drafting, BeforeReview

\* the script keeps it, whoever asked for the move,
LEMMA KanbanStep ==
    ASSUME Inv, NEW a \in Actors, Kanban(a)
    PROVE  Inv'
<1>. DEFINE to == asked[a]
            ok == Accepted(to)
<1>1. to \in States /\ asked \in [Actors -> States \union {"none"}]
  BY DEF Kanban, Inv, TypeOK
<1>2. /\ run' \in [Pipelines -> Runs]
      /\ \A q \in Pipelines : /\ run'[q].node \in {run[q].node, "none"}
                              /\ run'[q].at = "agent" => run'[q] = run[q]
  <2>1. Answered(a, ok) /\ TypeOK
    BY DEF Kanban, Inv
  <2>2. ok \in BOOLEAN
    BY DEF Accepted, Legal
  <2>. HIDE DEF ok
  <2>. QED BY <2>1, <2>2, AnsweredGives
<1>3. /\ asked' \in [Actors -> States \union {"none"}]
      /\ \A b \in Actors : asked'[b] = IF b = a THEN "none" ELSE asked[b]
  BY <1>1 DEF Kanban
<1>4. /\ state' \in States /\ target' \in Terminal
      /\ state' = state \/ (ok /\ (to \notin Terminal => state' = to))
  <2>1. CASE ok
    BY <1>1, <2>1, MovedTo DEF Kanban, Inv, Accepted
  <2>2. CASE ~ok
    BY <2>2 DEF Kanban, Inv, TypeOK, board
  <2>. QED BY <2>1, <2>2
<1>5. /\ touched' = touched /\ executed' = executed /\ stalls' = stalls /\ level' = level
      /\ ops' = ops /\ faults' = faults
  BY DEF Kanban, meta, bounds
<1>6. /\ approved' \in BOOLEAN /\ cancelled' \in BOOLEAN
      /\ approved = TRUE => approved' = TRUE
      /\ ok /\ to = "Assigned" /\ a # "escalation" => approved' = TRUE
  BY Zenon DEF Kanban, Inv, TypeOK
<1>. HIDE DEF ok, to
<1>7. TypeOK'
  BY <1>2, <1>3, <1>4, <1>5, <1>6 DEF Inv, TypeOK
<1>8. LevelBound'
  BY <1>5 DEF Inv, LevelBound
<1>9. AgentHasNode'
  BY <1>2 DEF Inv, AgentHasNode
<1>10. ApprovalInv'
  BY <1>1, <1>2, <1>3, <1>4, <1>5, <1>6 DEF Inv, ApprovalInv, Drafting, to
<1>11. ExecutionInv'
  BY <1>1, <1>2, <1>3, <1>4, <1>5 DEF Inv, ExecutionInv, Drafting, BeforeReview, to
<1>. QED BY <1>7, <1>8, <1>9, <1>10, <1>11 DEF Inv

\* a pipeline that reads the board keeps it,
LEMMA ReadStep ==
    ASSUME Inv, NEW p \in Pipelines, Read(p)
    PROVE  Inv'
<1>. DEFINE turn == Turn(p)
<1>1. run \in [Pipelines -> Runs] /\ run[p] \in Runs /\ asked \in [Actors -> States \union {"none"}]
  BY DEF Inv, TypeOK
<1>2. /\ state' = state /\ target' = target /\ stalls' = stalls /\ level' = level
      /\ touched' = touched /\ approved' = approved /\ executed' = executed /\ cancelled' = cancelled
      /\ ops' = ops /\ faults' = faults
  BY DEF Read, board, meta, history, bounds
<1>3. ASSUME run[p].loops < MaxLoops, state \in Working \union {"Review"}
      PROVE  turn \in Runs /\ turn.node = state
  <2>1. run[p].loops + 1 \in 0..MaxLoops /\ MaxVeto \in Nat
    BY <1>1, <1>3, BoundsAssumption DEF Runs
  <2>. QED BY <1>1, <1>3, <2>1 DEF Turn, Runs
<1>. HIDE DEF turn
<1>4. /\ run' \in [Pipelines -> Runs] /\ asked' \in [Actors -> States \union {"none"}]
      /\ \A q \in Pipelines : q # p => run'[q] = run[q]
      /\ run'[p].node \in {state, "none"}
      /\ run'[p].at = "agent" => run'[p].node \in Working
      /\ run'[p].node # "none" => state \in Working \union {"Review"}
      /\ \A a \in Actors : asked'[a] = asked[a] \/ (a = p /\ state = "Review")
  <2>1. CASE run[p].loops < MaxLoops /\ state \in Working /\ run' = [run EXCEPT ![p] = Turn(p)]
             /\ UNCHANGED asked
    <3>1. turn \in Runs /\ turn.node = state
      BY <1>3, <2>1
    <3>2. run' = [run EXCEPT ![p] = turn]
      BY <2>1 DEF turn
    <3>. QED BY <1>1, <2>1, <3>1, <3>2, RunWritten
  <2>2. CASE run[p].loops < MaxLoops /\ state = "Review" /\ Ask(p, Turn(p), "Done")
    <3>1. turn \in Runs /\ turn.node = state
      BY <1>3, <2>2
    <3>2. Ask(p, turn, "Done") /\ TypeOK
      BY <2>2 DEF turn, Inv
    <3>. QED BY <2>2, <3>1, <3>2, AskGives
  <2>3. CASE run' = [run EXCEPT ![p] = Off] /\ UNCHANGED asked
    BY <1>1, <2>3, RunWritten, Constants
  <2>. QED BY <2>1, <2>2, <2>3 DEF Read
<1>5. TypeOK'
  BY <1>2, <1>4 DEF Inv, TypeOK
<1>6. LevelBound' /\ AgentHasNode'
  BY <1>2, <1>4 DEF Inv, LevelBound, AgentHasNode
<1>7. ApprovalInv'
  BY <1>2, <1>4 DEF Inv, ApprovalInv, Drafting
<1>8. ExecutionInv'
  BY <1>2, <1>4 DEF Inv, ExecutionInv, Drafting, BeforeReview
<1>. QED BY <1>5, <1>6, <1>7, <1>8 DEF Inv

\* an agent that answers,
LEMMA AnswersStep ==
    ASSUME Inv, NEW p \in Pipelines, Answers(p)
    PROVE  Inv'
<1>1. run \in [Pipelines -> Runs] /\ run[p] \in Runs /\ asked \in [Actors -> States \union {"none"}]
      /\ run[p].node \in Working
  BY DEF Inv, TypeOK, AgentHasNode, Answers
<1>2. /\ state' = state /\ target' = target /\ stalls' = stalls /\ level' = level
      /\ touched' = touched /\ approved' = approved /\ cancelled' = cancelled
      /\ ops' = ops /\ faults' = faults
  BY DEF Answers, board, meta, bounds
<1>3. executed' \in BOOLEAN /\ (executed = TRUE => executed' = TRUE)
      /\ (run[p].node = "Doing" => executed' = TRUE)
  BY Zenon DEF Answers, Inv, TypeOK
<1>4. /\ run' \in [Pipelines -> Runs] /\ asked' \in [Actors -> States \union {"none"}]
      /\ \A q \in Pipelines : q # p => run'[q] = run[q]
      /\ run'[p].at \in {"told", "off"} /\ run'[p].node \in {run[p].node, "none"}
      /\ \A a \in Actors : asked'[a] = asked[a] \/ (a = p /\ asked'[a] \in {Following(run[p].node), "Zhongshu"})
  <2>1. CASE Ask(p, run[p], Following(run[p].node))
    <3>1. Following(run[p].node) \in States
      BY DEF Following
    <3>2. TypeOK
      BY DEF Inv
    <3>. QED BY <1>1, <2>1, <3>1, <3>2, AskGives
  <2>2. CASE MayVeto(p) /\ Ask(p, [run[p] EXCEPT !.vetoes = @ + 1], "Zhongshu")
    <3>. DEFINE r == [run[p] EXCEPT !.vetoes = @ + 1]
    <3>1. r \in Runs /\ r.node = run[p].node
      BY <1>1, <2>2, BoundsAssumption DEF MayVeto, Runs
    <3>2. TypeOK /\ Ask(p, r, "Zhongshu")
      BY <2>2 DEF Inv
    <3>. HIDE DEF r
    <3>. QED BY <3>1, <3>2, AskGives
  <2>. QED BY <2>1, <2>2 DEF Answers
<1>5. /\ run[p].node \in {"Zhongshu", "Menxia"} => Following(run[p].node) \in {"Menxia", "Assigned"}
      /\ run[p].node # "Doing" => Following(run[p].node) \in {"Menxia", "Assigned", "Doing"}
  BY <1>1 DEF Following
<1>6. TypeOK'
  BY <1>2, <1>3, <1>4 DEF Inv, TypeOK
<1>7. LevelBound' /\ AgentHasNode'
  BY <1>2, <1>4 DEF Inv, LevelBound, AgentHasNode
<1>8. ApprovalInv'
  BY <1>1, <1>2, <1>4, <1>5 DEF Inv, ApprovalInv, Drafting
<1>9. ExecutionInv'
  BY <1>1, <1>2, <1>3, <1>4, <1>5 DEF Inv, ExecutionInv, Drafting, BeforeReview
<1>. QED BY <1>6, <1>7, <1>8, <1>9 DEF Inv

\* A step that leaves the board alone, starts or ends pipelines, and asks for nothing
\* that leads past Menxia or past the ministries.
LEMMA Keeps ==
    ASSUME Inv, state' = state, target' = target, approved' = approved, executed' = executed,
           run' \in [Pipelines -> Runs],
           \A q \in Pipelines : /\ run'[q].node \in {run[q].node, "none"}
                                /\ run'[q].at = "agent" => run'[q] = run[q],
           asked' \in [Actors -> States \union {"none"}],
           touched' = FALSE => \A a \in Actors :
               \/ asked'[a] \in {asked[a], "none", "Zhongshu", "Menxia", "Blocked"}
               \/ a = "user" /\ asked'[a] = "Assigned"
               \/ state = "PendingConfirm",
           touched' \in BOOLEAN, touched = TRUE => touched' = TRUE, cancelled' \in BOOLEAN,
           stalls' \in 0..MaxStallRetries, level' \in 0..(MaxEscalations + MaxOps),
           level' <= MaxEscalations + ops', ops' \in 0..MaxOps, faults' \in 0..MaxFaults
    PROVE  Inv'
<1>1. TypeOK' /\ LevelBound'
  BY DEF Inv, TypeOK, LevelBound
<1>2. AgentHasNode'
  BY DEF Inv, AgentHasNode
<1>3. touched' = FALSE => touched = FALSE
  BY DEF Inv, TypeOK
<1>4. ApprovalInv'
  BY <1>3 DEF Inv, ApprovalInv, Drafting
<1>5. ExecutionInv'
  BY <1>3 DEF Inv, ExecutionInv, Drafting, BeforeReview
<1>. QED BY <1>1, <1>2, <1>4, <1>5 DEF Inv

\* one that fails, and a quit,
LEMMA FaultStep ==
    ASSUME Inv, Quit \/ \E p \in Pipelines : Fails(p)
    PROVE  Inv'
<1>1. faults' \in 0..MaxFaults /\ stalls \in 0..MaxStallRetries /\ ops \in 0..MaxOps
      /\ level \in 0..(MaxEscalations + MaxOps) /\ level <= MaxEscalations + ops
  BY BoundsAssumption DEF Quit, Fails, Inv, TypeOK, LevelBound
<1>2. /\ state' = state /\ target' = target /\ approved' = approved /\ executed' = executed
      /\ touched' = touched /\ cancelled' = cancelled /\ stalls' = stalls /\ level' = level
      /\ ops' = ops
  BY DEF Quit, Fails, board, meta, history
<1>3. touched \in BOOLEAN /\ cancelled \in BOOLEAN /\ run \in [Pipelines -> Runs]
      /\ asked \in [Actors -> States \union {"none"}]
  BY DEF Inv, TypeOK
<1>4. CASE Quit
  <2>1. /\ run' \in [Pipelines -> Runs] /\ \A q \in Pipelines : run'[q] = Off
        /\ asked' \in [Actors -> States \union {"none"}] /\ \A a \in Actors : asked'[a] = "none"
    BY <1>4, Constants DEF Quit
  <2>. QED BY <1>1, <1>2, <1>3, <2>1, Constants, Keeps
<1>5. ASSUME NEW p \in Pipelines, Fails(p) PROVE Inv'
  <2>1. asked' = asked /\ run' = [run EXCEPT ![p] = Off]
    BY <1>5 DEF Fails
  <2>2. run' \in [Pipelines -> Runs] /\ \A q \in Pipelines : run'[q] = IF q = p THEN Off ELSE run[q]
    BY <1>3, <2>1, RunWritten, Constants
  <2>. QED BY <1>1, <1>2, <1>3, <2>1, <2>2, Constants, Keeps
<1>. QED BY <1>4, <1>5

\* the confirmation of a pipeline,
LEMMA ConfirmStep ==
    ASSUME Inv, NEW p \in Pipelines, Confirm(p)
    PROVE  Inv'
<1>1. run \in [Pipelines -> Runs] /\ run[p] \in Runs
  BY DEF Inv, TypeOK
<1>2. /\ asked' = asked /\ touched' = touched /\ approved' = approved /\ executed' = executed
      /\ cancelled' = cancelled /\ stalls' = stalls /\ level' = level /\ ops' = ops /\ faults' = faults
  BY DEF Confirm, meta, history, bounds
<1>3. CASE state = "PendingConfirm"
  <2>1. /\ state' = target /\ target' = "Done" /\ run' = [run EXCEPT ![p] = Resumed(run[p])]
    BY <1>3 DEF Confirm
  <2>2. Resumed(run[p]) \in Runs /\ Resumed(run[p]).at = "read" /\ Resumed(run[p]).node = "none"
    BY <1>1, ShapeRuns
  <2>3. /\ run' \in [Pipelines -> Runs]
        /\ \A q \in Pipelines : run'[q] = IF q = p THEN Resumed(run[p]) ELSE run[q]
    BY <1>1, <2>1, <2>2, RunWritten
  <2>4. TypeOK' /\ LevelBound'
    BY <1>2, <2>1, <2>3 DEF Inv, TypeOK, LevelBound
  <2>5. AgentHasNode'
    BY <2>2, <2>3 DEF Inv, AgentHasNode
  <2>6. touched = FALSE => approved = TRUE /\ executed = TRUE
    BY <1>3 DEF Inv, ApprovalInv, ExecutionInv, Drafting, BeforeReview
  <2>7. ApprovalInv' /\ ExecutionInv'
    BY <1>2, <2>6 DEF ApprovalInv, ExecutionInv
  <2>. QED BY <2>4, <2>5, <2>7 DEF Inv
<1>4. CASE state # "PendingConfirm"
  <2>1. state' = state /\ target' = target /\ run' = [run EXCEPT ![p] = Off]
    BY <1>4 DEF Confirm, board
  <2>2. run' \in [Pipelines -> Runs] /\ \A q \in Pipelines : run'[q] = IF q = p THEN Off ELSE run[q]
    BY <1>1, <2>1, RunWritten, Constants
  <2>. QED BY <1>2, <2>1, <2>2, Constants, Keeps DEF Inv, TypeOK, LevelBound
<1>. QED BY <1>3, <1>4

\* A pipeline that is started works on no state yet.
LEMMA StartGives ==
    ASSUME TypeOK, NEW p \in Pipelines, run' = [run EXCEPT ![p] = Started]
    PROVE  /\ run' \in [Pipelines -> Runs]
           /\ \A q \in Pipelines : /\ run'[q].node \in {run[q].node, "none"}
                                   /\ run'[q].at = "agent" => run'[q] = run[q]
  BY RunWritten, Constants DEF TypeOK

\* An escalation asks for one step back.
LEMMA EscalateGives ==
    ASSUME TypeOK, NEW a \in {"escalation", "user"}, Escalate(a)
    PROVE  /\ run' \in [Pipelines -> Runs]
           /\ \A q \in Pipelines : /\ run'[q].node \in {run[q].node, "none"}
                                   /\ run'[q].at = "agent" => run'[q] = run[q]
           /\ asked' \in [Actors -> States \union {"none"}]
           /\ \A b \in Actors :
                \/ asked'[b] \in {asked[b], "none", "Zhongshu", "Menxia", "Blocked"}
                \/ state = "PendingConfirm"
           /\ level' = level + 1 /\ stalls' = stalls
<1>1. run \in [Pipelines -> Runs] /\ asked \in [Actors -> States \union {"none"}] /\ state \in States
  BY DEF TypeOK
<1>2. /\ Escalated(state) \in {"Zhongshu", "Menxia", "Review", "Blocked"}
      /\ Escalated(state) = "Review" => state = "PendingConfirm"
  BY <1>1 DEF Escalated
<1>3. level' = level + 1 /\ stalls' = stalls
  BY DEF Escalate
<1>4. CASE Legal(state, Escalated(state))
  <2>1. asked' = [asked EXCEPT ![a] = Escalated(state)] /\ run' = run
    BY <1>4 DEF Escalate
  <2>. QED BY <1>1, <1>2, <1>3, <2>1
<1>5. CASE ~Legal(state, Escalated(state))
  <2>1. asked' = asked /\ Answered(a, FALSE)
    BY <1>5 DEF Escalate
  <2>2. /\ run' \in [Pipelines -> Runs]
        /\ \A q \in Pipelines : /\ run'[q].node \in {run[q].node, "none"}
                                /\ run'[q].at = "agent" => run'[q] = run[q]
    BY <2>1, AnsweredGives
  <2>. QED BY <1>1, <1>3, <2>1, <2>2
<1>. QED BY <1>4, <1>5

\* the stall detector,
LEMMA DetectorStep ==
    ASSUME Inv, StallRetry \/ StallEscalate \/ StallBlock
    PROVE  Inv'
<1>1. /\ state' = state /\ target' = target /\ approved' = approved /\ executed' = executed
      /\ touched' = touched /\ cancelled' = cancelled /\ ops' = ops /\ faults' = faults
  BY DEF StallRetry, StallEscalate, StallBlock, board, meta, history, bounds
<1>2. /\ TypeOK /\ touched \in BOOLEAN /\ cancelled \in BOOLEAN /\ run \in [Pipelines -> Runs]
      /\ asked \in [Actors -> States \union {"none"}] /\ stalls \in 0..MaxStallRetries
      /\ level \in 0..(MaxEscalations + MaxOps) /\ level <= MaxEscalations + ops
      /\ ops \in 0..MaxOps /\ faults \in 0..MaxFaults
  BY DEF Inv, TypeOK, LevelBound
<1>3. CASE StallRetry
  <2>1. stalls' \in 0..MaxStallRetries /\ level' = level /\ asked' = asked
    BY <1>2, <1>3, BoundsAssumption DEF StallRetry
  <2>2. /\ run' \in [Pipelines -> Runs]
        /\ \A q \in Pipelines : /\ run'[q].node \in {run[q].node, "none"}
                                /\ run'[q].at = "agent" => run'[q] = run[q]
    BY <1>2, <1>3, StartGives DEF StallRetry
  <2>. QED BY <1>1, <1>2, <2>1, <2>2, Keeps
<1>4. CASE StallEscalate
  <2>1. Escalate("escalation") /\ level < MaxEscalations
    BY <1>4 DEF StallEscalate
  <2>2. /\ run' \in [Pipelines -> Runs]
        /\ \A q \in Pipelines : /\ run'[q].node \in {run[q].node, "none"}
                                /\ run'[q].at = "agent" => run'[q] = run[q]
        /\ asked' \in [Actors -> States \union {"none"}]
        /\ \A b \in Actors :
             \/ asked'[b] \in {asked[b], "none", "Zhongshu", "Menxia", "Blocked"}
             \/ state = "PendingConfirm"
        /\ level' = level + 1 /\ stalls' = stalls
    BY <1>2, <2>1, EscalateGives
  <2>3. level' \in 0..(MaxEscalations + MaxOps) /\ level' <= MaxEscalations + ops
    BY <1>2, <2>1, <2>2, BoundsAssumption
  <2>. QED BY <1>1, <1>2, <2>2, <2>3, Keeps
<1>5. CASE StallBlock
  <2>1. /\ asked' = [asked EXCEPT !["blocking"] = "Blocked"]
        /\ run' = run /\ stalls' = stalls /\ level' = level
    BY <1>5 DEF StallBlock, meta
  <2>2. /\ asked' \in [Actors -> States \union {"none"}]
        /\ \A b \in Actors : asked'[b] \in {asked[b], "Blocked"}
    BY <1>2, <2>1
  <2>. QED BY <1>1, <1>2, <2>1, <2>2, Keeps
<1>. QED BY <1>3, <1>4, <1>5

\* and the user.
LEMMA UserStep ==
    ASSUME Inv, User
    PROVE  Inv'
<1>1. /\ TypeOK /\ touched \in BOOLEAN /\ cancelled \in BOOLEAN /\ run \in [Pipelines -> Runs]
      /\ asked \in [Actors -> States \union {"none"}] /\ stalls \in 0..MaxStallRetries
      /\ level \in 0..(MaxEscalations + MaxOps) /\ level <= MaxEscalations + ops
      /\ ops \in 0..MaxOps /\ faults \in 0..MaxFaults /\ target \in Terminal
  BY DEF Inv, TypeOK, LevelBound
<1>2. ASSUME Commands
      PROVE  /\ ops' = ops + 1 /\ ops' \in 0..MaxOps /\ faults' = faults
             /\ level <= MaxEscalations + ops' /\ level + 1 <= MaxEscalations + ops'
             /\ level + 1 \in 0..(MaxEscalations + MaxOps)
  BY <1>1, <1>2, BoundsAssumption DEF Commands
<1>3. ASSUME NEW to \in Columns, UserMoves(to) PROVE Inv'
  <2>1. /\ asked' = [asked EXCEPT !["user"] = to] /\ to \in States /\ touched' = TRUE
        /\ cancelled' = FALSE /\ state' = state /\ target' = target /\ run' = run
        /\ stalls' = stalls /\ level' = level /\ approved' = approved /\ executed' = executed
    BY <1>3, BoundsAssumption DEF UserMoves, board, meta
  <2>2. asked' \in [Actors -> States \union {"none"}]
    BY <1>1, <2>1
  <2>. QED BY <1>1, <1>2, <1>3, <2>1, <2>2, Keeps DEF UserMoves
<1>4. ASSUME NEW to \in {"Zhongshu", "Assigned", "Blocked"}, UserRules(States, to) PROVE Inv'
  <2>1. /\ asked' = [asked EXCEPT !["user"] = to] /\ touched' = touched
        /\ cancelled' = FALSE /\ state' = state /\ target' = target /\ run' = run
        /\ stalls' = stalls /\ level' = level /\ approved' = approved /\ executed' = executed
    BY <1>4 DEF UserRules, board, meta
  <2>2. /\ asked' \in [Actors -> States \union {"none"}]
        /\ \A a \in Actors : asked'[a] = asked[a] \/ (a = "user" /\ asked'[a] = to)
    BY <1>1, <2>1
  <2>. QED BY <1>1, <1>2, <1>4, <2>1, <2>2, Keeps DEF UserRules
<1>5. CASE UserEscalates
  <2>1. /\ touched' = touched /\ cancelled' = FALSE /\ state' = state /\ target' = target
        /\ approved' = approved /\ executed' = executed /\ Commands /\ Escalate("user")
    BY <1>5 DEF UserEscalates, board
  <2>2. /\ run' \in [Pipelines -> Runs]
        /\ \A q \in Pipelines : /\ run'[q].node \in {run[q].node, "none"}
                                /\ run'[q].at = "agent" => run'[q] = run[q]
        /\ asked' \in [Actors -> States \union {"none"}]
        /\ \A b \in Actors :
             \/ asked'[b] \in {asked[b], "none", "Zhongshu", "Menxia", "Blocked"}
             \/ state = "PendingConfirm"
        /\ level' = level + 1 /\ stalls' = stalls
    BY <1>1, <2>1, EscalateGives
  <2>. QED BY <1>1, <1>2, <2>1, <2>2, Keeps
<1>6. CASE UserCompletes
  <2>1. /\ state' = "Review" /\ touched' = TRUE /\ cancelled' = FALSE /\ target' = target
        /\ run' = run /\ asked' = asked /\ stalls' = stalls /\ level' = level
        /\ approved' = approved /\ executed' = executed /\ Commands
    BY <1>6 DEF UserCompletes, meta
  <2>2. TypeOK' /\ LevelBound'
    BY <1>1, <1>2, <2>1 DEF TypeOK, LevelBound
  <2>3. AgentHasNode' /\ ApprovalInv' /\ ExecutionInv'
    BY <2>1 DEF Inv, AgentHasNode, ApprovalInv, ExecutionInv
  <2>. QED BY <2>2, <2>3 DEF Inv
<1>7. ASSUME NEW p \in Pipelines, UserRuns(p) PROVE Inv'
  <2>1. /\ touched' = touched /\ cancelled' = FALSE /\ state' = state /\ target' = target
        /\ asked' = asked /\ stalls' = stalls /\ level' = level
        /\ approved' = approved /\ executed' = executed /\ Commands
        /\ run' = [run EXCEPT ![p] = Started]
    BY <1>7 DEF UserRuns, board, meta
  <2>2. /\ run' \in [Pipelines -> Runs]
        /\ \A q \in Pipelines : /\ run'[q].node \in {run[q].node, "none"}
                                /\ run'[q].at = "agent" => run'[q] = run[q]
    BY <1>1, <2>1, StartGives
  <2>. QED BY <1>1, <1>2, <2>1, <2>2, Keeps
<1>. QED BY <1>3, <1>4, <1>5, <1>6, <1>7 DEF User

-----------------------------------------------------------------------------

\* So every step does,
LEMMA Inductive == Inv /\ [Next]_vars => Inv'
<1>. SUFFICES ASSUME Inv, [Next]_vars PROVE Inv'
  OBVIOUS
<1>1. ASSUME NEW p \in Pipelines, PipelineStep(p) PROVE Inv'
  BY <1>1, ReadStep, AnswersStep, FaultStep, ConfirmStep, KanbanStep DEF PipelineStep
<1>2. CASE Detector
  BY <1>2, DetectorStep, KanbanStep DEF Detector
<1>3. CASE Kanban("user")
  BY <1>3, KanbanStep
<1>4. CASE User
  BY <1>4, UserStep
<1>5. CASE Quit
  BY <1>5, FaultStep
<1>6. CASE UNCHANGED vars
  BY <1>6 DEF vars, board, meta, history, bounds, Inv, TypeOK, LevelBound, AgentHasNode,
               ApprovalInv, ExecutionInv
<1>. QED BY <1>1, <1>2, <1>3, <1>4, <1>5, <1>6 DEF Next

\* and it always holds.
LEMMA Invariance == Spec => []Inv
  BY InitInv, Inductive, PTL DEF Spec

\* Every variable has its type, and no pipeline vetoes more often than it may.
THEOREM TypeCorrect == Spec => []TypeOK
<1>1. Inv => TypeOK
  BY DEF Inv
<1>. QED BY <1>1, Invariance, PTL

\* No ministry works at a plan that Menxia has not passed, for any limits of retries,
\* escalations and vetoes, unless the user moved the task himself.
THEOREM MenxiaIsHeard == Spec => []NothingUnapproved
<1>1. Inv => NothingUnapproved
  BY DEF Inv, TypeOK, ApprovalInv, NothingUnapproved
<1>. QED BY <1>1, Invariance, PTL

\* A task that is done was executed, for any limits, unless the user took over.
THEOREM WorkPrecedesDone == Spec => []DoneWasExecuted
<1>1. Inv => DoneWasExecuted
  BY DEF Inv, TypeOK, ExecutionInv, DoneWasExecuted, BeforeReview, Drafting
<1>. QED BY <1>1, Invariance, PTL

\* Done and cancelled are final, whatever was asked for before.
THEOREM EndsStay == Spec => EndIsFinal
<1>1. ASSUME Inv, [Next]_vars, state \in Terminal PROVE state' = state
  <2>1. ASSUME NEW a \in Actors, Kanban(a) PROVE state' = state
    <3>1. ~Accepted(asked[a])
      BY <1>1 DEF Accepted, Legal, Transitions
    <3>. QED BY <2>1, <3>1 DEF Kanban, board
  <2>2. ASSUME NEW p \in Pipelines, Read(p) \/ Answers(p) \/ Fails(p) \/ Confirm(p) PROVE state' = state
    BY <1>1, <2>2 DEF Read, Answers, Fails, Confirm, board
  <2>3. CASE StallRetry \/ StallEscalate \/ StallBlock
    BY <2>3 DEF StallRetry, StallEscalate, StallBlock, board
  <2>4. CASE User
    BY <1>1, <2>4 DEF User, UserMoves, UserRules, UserEscalates, UserCompletes, UserRuns, board
  <2>5. CASE Quit \/ UNCHANGED vars
    BY <2>5 DEF Quit, vars, board
  <2>. QED BY <1>1, <2>1, <2>2, <2>3, <2>4, <2>5 DEF Next, PipelineStep, Detector
<1>. QED BY <1>1, Invariance, PTL DEF Spec, EndIsFinal

-----------------------------------------------------------------------------
(* Briefs *)

\* What a request or a dispatch holds as done was stored.
ObjectsDone == \A r \in Requests : mine[r].dispatch = "done" \/ mine[r].result = "tasks" => batches > 0

DoneInv == BriefTypeOK /\ DoneHasTasks /\ ObjectsDone

\* What an edit makes of a row,
LEMMA EditedRow ==
    ASSUME NEW k \in Kinds, NEW object \in Row
    PROVE  /\ Edited(k, object) \in Row
           /\ Edited(k, object).dispatch = "done" => object.dispatch = "done"
           /\ Edited(k, object).result = object.result
    BY KindsAssumption DEF Edited, Row

\* and what the end of a dispatch makes of it.
LEMMA OutcomeRow ==
    ASSUME NEW object \in Row
    PROVE  /\ Failed(object) \in Row /\ Failed(object).dispatch = "failed"
           /\ Failed(object).result = "null" /\ Failed(object).status = object.status
           /\ Done(object) \in Row /\ Done(object).status = object.status
           /\ [object EXCEPT !.dispatch = "failed"] \in Row
           /\ [object EXCEPT !.dispatch = "failed"].dispatch = "failed"
           /\ [object EXCEPT !.dispatch = "failed"].result = object.result
           /\ [object EXCEPT !.dispatch = "failed"].status = object.status
    BY DEF Failed, Done, Row

\* Nothing is done at first;
LEMMA DoneInit == BriefInit => DoneInv
<1>1. NewBrief \in Row /\ NewBrief.dispatch = "none" /\ NewBrief.result = "null"
  BY DEF NewBrief, Row
<1> SUFFICES ASSUME BriefInit PROVE DoneInv
  OBVIOUS
<1>2. BriefTypeOK
  <2>1. brief \in Row /\ mine \in [Requests -> Row] /\ thrown \in BOOLEAN
    BY <1>1 DEF BriefInit
  <2>2. batches \in Nat /\ crashes \in 0..MaxCrashes
    BY CrashAssumption DEF BriefInit
  <2>3. pc \in [Requests -> Steps] /\ kind \in [Requests -> Kinds \union {"none"}]
    BY DEF BriefInit, Steps
  <2> QED BY <2>1, <2>2, <2>3 DEF BriefTypeOK
<1>3. \A r \in Requests : mine[r] = NewBrief
  BY DEF BriefInit
<1>4. DoneHasTasks /\ ObjectsDone
  BY <1>1, <1>3 DEF BriefInit, DoneHasTasks, ObjectsDone
<1> QED BY <1>2, <1>4 DEF DoneInv

\* every step keeps done rows and copies backed,
LEMMA DoneStep == DoneInv /\ [BriefNext]_briefVars => DoneInv'
<1> SUFFICES ASSUME DoneInv, [BriefNext]_briefVars PROVE DoneInv'
  OBVIOUS
<1> USE DEF DoneInv, BriefTypeOK, DoneHasTasks, ObjectsDone, Goto, Becomes, SaveBrief
<1>1. CASE UNCHANGED briefVars
  BY <1>1 DEF briefVars
<1>2. CASE Crash \/ \E r \in Requests : RescueThrows(r)
  BY <1>2, CrashAssumption DEF Crash, RescueThrows, Steps
<1>3. ASSUME NEW r \in Requests, NEW k \in Kinds, ReadBrief(r, k) PROVE DoneInv'
  <2>1. Edited(k, brief) \in Row /\ (Edited(k, brief).dispatch = "done" \/ Edited(k, brief).result = "tasks" => batches > 0)
    BY EditedRow
  <2> QED BY <1>3, <2>1 DEF ReadBrief, Steps, Handling
<1>4. ASSUME NEW r \in Requests, HandlerStep(r) PROVE DoneInv'
  <2> USE DEF Steps, Handling, Dispatching
  <2>0. mine[r] \in Row
    OBVIOUS
  <2>1. CASE Save(r) \/ Refuse(r)
    BY <2>1 DEF Save, Refuse
  <2>2. CASE Answer(r)
    BY <2>2 DEF Answer
  <2>3. CASE NoAnswer(r)
    BY <2>3, <2>0, OutcomeRow DEF NoAnswer
  <2>4. CASE Throw(r)
    BY <2>4, <2>0, OutcomeRow DEF Throw
  <2>5. CASE PersistTasks(r)
    <3>1. batches' \in Nat /\ batches' > 0
      BY <2>5 DEF PersistTasks
    <3>2. BriefTypeOK'
      <4>1. Done(mine[r]) \in Row
        BY <2>0, OutcomeRow
      <4>2. mine' \in [Requests -> Row]
        BY <2>5, <4>1 DEF PersistTasks
      <4>3. pc' \in [Requests -> Steps]
        BY <2>5 DEF PersistTasks
      <4> QED BY <2>5, <3>1, <4>2, <4>3 DEF PersistTasks
    <3> QED BY <3>1, <3>2
  <2>6. CASE SaveInDispatch(r)
    BY <2>6, <2>0, OutcomeRow DEF SaveInDispatch
  <2>7. CASE SaveThrows(r)
    BY <2>7, <2>0, OutcomeRow DEF SaveThrows
  <2>8. CASE Report(r)
    BY <2>8 DEF Report
  <2>9. CASE ReportThrows(r)
    BY <2>9, <2>0, OutcomeRow DEF ReportThrows
  <2>10. CASE Rescue(r)
    BY <2>10 DEF Rescue
  <2> QED
    BY <1>4, <2>1, <2>2, <2>3, <2>4, <2>5, <2>6, <2>7, <2>8, <2>9, <2>10 DEF HandlerStep
<1> QED BY <1>1, <1>2, <1>3, <1>4 DEF BriefNext

\* so they always are.
LEMMA DoneAlways == BriefSpec => []DoneInv
  BY DoneInit, DoneStep, PTL DEF BriefSpec

\* Every reachable state has its types.
THEOREM BriefTypeCorrect == BriefSpec => []BriefTypeOK
  BY DoneAlways, PTL DEF DoneInv

\* brief-dispatch.service.ts sets done only after persistTasks, and no stale save,
\* failure or crash makes it stand over a brief without tasks.
THEOREM DoneIsBacked == BriefSpec => []DoneHasTasks
  BY DoneAlways, PTL DEF DoneInv

-----------------------------------------------------------------------------
\* The editing of a brief, while at most cancel overlaps other requests.

Untouched == batches = 0 /\ \A r \in Requests : pc[r] \notin Dispatching

EditInv ==
    /\ BriefTypeOK
    /\ EditableIsUntouched
    \* What a dispatch saves is a confirmed brief.
    /\ \A r \in Requests : pc[r] \in Dispatching => mine[r].status = "confirmed"
    \* What a request saves, and that it may: update and confirm read a draft.
    /\ \A r \in Requests : pc[r] = "save" =>
          /\ kind[r] \in Kinds
          /\ kind[r] \in {"confirm", "redispatch"} => mine[r].status = "confirmed"
          /\ kind[r] = "cancel" => mine[r].status = "cancelled"
          /\ kind[r] \in {"update", "confirm"} => Untouched
    \* Of two requests being handled one is a cancel.
    /\ \A r, q \in Requests : pc[r] = "save" /\ pc[q] = "save" /\ r # q =>
          kind[r] = "cancel" \/ kind[q] = "cancel"

\* Nothing is being edited at first;
LEMMA EditInit == BriefInit => EditInv
  BY DoneInit DEF BriefInit, EditInv, DoneInv, EditableIsUntouched, Dispatching

\* every step keeps what a save may still write.
LEMMA EditStep ==
    ASSUME Overlapping \subseteq {"cancel"}
    PROVE  EditInv /\ BriefTypeOK' /\ [BriefNext]_briefVars => EditInv'
<1> SUFFICES ASSUME EditInv, BriefTypeOK', [BriefNext]_briefVars PROVE EditInv'
  OBVIOUS
<1> USE KindsAssumption DEF EditInv, EditableIsUntouched, Untouched, Goto, Becomes, SaveBrief
<1>1. CASE UNCHANGED briefVars
  BY <1>1 DEF briefVars
<1>2. CASE Crash \/ \E r \in Requests : RescueThrows(r)
  BY <1>2 DEF Crash, RescueThrows, BriefTypeOK, Dispatching
<1>3. ASSUME NEW r \in Requests, NEW k \in Kinds, ReadBrief(r, k) PROVE EditInv'
  <2>1. /\ k \in {"confirm", "redispatch"} => Edited(k, brief).status = "confirmed"
        /\ k = "cancel" => Edited(k, brief).status = "cancelled"
        /\ k \in {"update", "confirm"} => brief.status = "draft"
    BY <1>3 DEF ReadBrief, Accepts, Edited, BriefTypeOK, Row
  <2>2. \A q \in Requests : pc[q] = "save" => kind[q] = "cancel" \/ k = "cancel"
    BY <1>3 DEF ReadBrief, Handling
  <2> QED BY <1>3, <2>1, <2>2 DEF ReadBrief, BriefTypeOK, Dispatching
<1>4. ASSUME NEW r \in Requests, HandlerStep(r) PROVE EditInv'
  <2> USE DEF Dispatching
  <2>0. mine[r] \in Row
    BY DEF BriefTypeOK
  <2>o. /\ Failed(mine[r]).status = mine[r].status /\ Done(mine[r]).status = mine[r].status
        /\ [mine[r] EXCEPT !.dispatch = "failed"].status = mine[r].status
    BY <2>0, OutcomeRow
  <2>1. CASE Save(r)
    <3>1. CASE kind[r] = "update"
      BY <2>1, <3>1 DEF Save, BriefTypeOK
    <3>2. CASE kind[r] = "cancel"
      BY <2>1, <3>2 DEF Save, BriefTypeOK
    <3>3. CASE kind[r] \in {"confirm", "redispatch"}
      <4>1. \A q \in Requests : q # r /\ pc[q] = "save" => kind[q] = "cancel"
        BY <2>1, <3>3 DEF Save
      <4> QED BY <2>1, <3>3, <4>1 DEF Save, BriefTypeOK
    <3> QED BY <2>1, <3>1, <3>2, <3>3 DEF Save
  <2>2. CASE Refuse(r)
    BY <2>2 DEF Refuse, BriefTypeOK
  <2>3. CASE Answer(r)
    BY <2>3 DEF Answer, BriefTypeOK
  <2>4. CASE NoAnswer(r)
    BY <2>4, <2>o DEF NoAnswer, BriefTypeOK
  <2>5. CASE Throw(r)
    BY <2>5, <2>o DEF Throw, BriefTypeOK
  <2>6. CASE PersistTasks(r)
    BY <2>6, <2>o DEF PersistTasks, BriefTypeOK
  <2>7. CASE SaveInDispatch(r)
    BY <2>7, <2>o DEF SaveInDispatch, BriefTypeOK
  <2>8. CASE SaveThrows(r)
    BY <2>8, <2>o DEF SaveThrows, BriefTypeOK
  <2>9. CASE Report(r)
    BY <2>9 DEF Report, BriefTypeOK
  <2>10. CASE ReportThrows(r)
    BY <2>10, <2>o DEF ReportThrows, BriefTypeOK
  <2>11. CASE Rescue(r)
    BY <2>11 DEF Rescue, BriefTypeOK
  <2> QED
    BY <1>4, <2>1, <2>2, <2>3, <2>4, <2>5, <2>6, <2>7, <2>8, <2>9, <2>10, <2>11 DEF HandlerStep
<1> QED BY <1>1, <1>2, <1>3, <1>4 DEF BriefNext

\* brief.service.ts refuses an update unless the brief is a draft; with requests handled
\* one at a time, cancels excepted, a draft has no tasks and nobody deriving any.
THEOREM EditingIsSafe ==
    ASSUME Overlapping \subseteq {"cancel"}
    PROVE  BriefSpec => []EditableIsUntouched
<1>1. BriefSpec => []EditInv
  BY EditInit, EditStep, BriefTypeCorrect, PTL DEF BriefSpec
<1> QED BY <1>1, PTL DEF EditInv

-----------------------------------------------------------------------------
\* The tasks of a brief, under the same assumption.

\* r will make tasks, or is making them.
Busy(r) == pc[r] \in Dispatching \/ (pc[r] = "save" /\ kind[r] \in {"confirm", "redispatch"})

\* Until a dispatch meets an exception:
OnceInv == ~thrown =>
    /\ TasksOnce
    /\ \A r, q \in Requests : Busy(r) /\ Busy(q) => r = q
    \* what redispatch accepts has no tasks and nobody making them,
    /\ brief.status = "confirmed" /\ brief.dispatch = "failed" => Untouched
    /\ \A r \in Requests :
          \* which still is so when the request saves,
          /\ pc[r] = "save" /\ kind[r] \in {"confirm", "redispatch"} =>
                batches = 0 /\ mine[r].dispatch = "pending"
          /\ pc[r] = "save" /\ kind[r] = "update" => mine[r].status = "draft"
          \* and a dispatch that has stored nothing, or reports a failure, is the first.
          /\ pc[r] \in {"ask", "store"} => batches = 0
          /\ pc[r] \notin {"saveFailed", "rescue"}
          /\ pc[r] = "saveDone" => mine[r].dispatch = "done"
          /\ pc[r] = "report" =>
                mine[r].dispatch = "done" \/ (mine[r].dispatch = "failed" /\ batches = 0)

\* No tasks are stored at first;
LEMMA OnceInit == BriefInit => OnceInv
  BY DEF BriefInit, OnceInv, TasksOnce, Busy, Dispatching, NewBrief

\* every step keeps that at most one request stores them.
LEMMA OnceStep ==
    ASSUME Overlapping \subseteq {"cancel"}
    PROVE  EditInv /\ EditInv' /\ OnceInv /\ [BriefNext]_briefVars => OnceInv'
<1> SUFFICES ASSUME EditInv, EditInv', OnceInv, [BriefNext]_briefVars, ~thrown' PROVE OnceInv'
  BY DEF OnceInv
<1>0. BriefTypeOK /\ ~thrown
  BY DEF EditInv, BriefTypeOK, BriefNext, briefVars, Crash, RescueThrows, ReadBrief, HandlerStep, Save, Refuse, Answer,
         NoAnswer, Throw, PersistTasks, SaveInDispatch, SaveThrows, Report, ReportThrows, Rescue
<1> USE <1>0, KindsAssumption
    DEF OnceInv, TasksOnce, Busy, Untouched, Goto, Becomes, SaveBrief, Dispatching
<1>1. CASE UNCHANGED briefVars
  BY <1>1 DEF briefVars
<1>2. CASE Crash \/ \E r \in Requests : RescueThrows(r)
  BY <1>2 DEF Crash, RescueThrows, BriefTypeOK
<1>3. ASSUME NEW r \in Requests, NEW k \in Kinds, ReadBrief(r, k) PROVE OnceInv'
  <2>1. /\ k \in {"confirm", "redispatch"} => Untouched /\ Edited(k, brief).dispatch = "pending"
        /\ k = "update" => Edited(k, brief).status = "draft"
    BY <1>3 DEF ReadBrief, Accepts, Edited, BriefTypeOK, Row, EditInv, EditableIsUntouched
  <2>2. \A q \in Requests : pc[q] = "save" => kind[q] = "cancel" \/ k = "cancel"
    BY <1>3 DEF ReadBrief, Handling
  <2> QED BY <1>3, <2>1, <2>2 DEF ReadBrief, BriefTypeOK
<1>4. ASSUME NEW r \in Requests, HandlerStep(r) PROVE OnceInv'
  <2>0. mine[r] \in Row /\ batches \in Nat
    BY DEF BriefTypeOK
  <2>o. Failed(mine[r]).dispatch = "failed" /\ Done(mine[r]).dispatch = "done"
    BY <2>0 DEF Failed, Done, Row
  <2>1. CASE Save(r)
    <3>1. CASE kind[r] = "update"
      BY <2>1, <3>1 DEF Save, BriefTypeOK
    <3>2. CASE kind[r] = "cancel"
      BY <2>1, <3>2 DEF Save, BriefTypeOK, EditInv
    <3>3. CASE kind[r] \in {"confirm", "redispatch"}
      BY <2>1, <3>3 DEF Save, BriefTypeOK
    <3> QED BY <2>1, <3>1, <3>2, <3>3 DEF Save, EditInv
  <2>2. CASE Refuse(r)
    BY <2>2 DEF Refuse, BriefTypeOK
  <2>3. CASE Answer(r)
    BY <2>3 DEF Answer, BriefTypeOK
  <2>4. CASE NoAnswer(r)
    BY <2>4, <2>o DEF NoAnswer, BriefTypeOK
  <2>5. CASE PersistTasks(r)
    BY <2>5, <2>0, <2>o DEF PersistTasks, BriefTypeOK
  <2>6. CASE SaveInDispatch(r)
    BY <2>6 DEF SaveInDispatch, BriefTypeOK
  <2>7. CASE Report(r)
    BY <2>7 DEF Report, BriefTypeOK
  <2> QED
    BY <1>4, <2>1, <2>2, <2>3, <2>4, <2>5, <2>6, <2>7
       DEF HandlerStep, Throw, SaveThrows, ReportThrows, Rescue
<1> QED BY <1>1, <1>2, <1>3, <1>4 DEF BriefNext

\* confirm accepts a draft only and redispatch only a failure: as long as no dispatch
\* meets an exception, the tasks of a brief are stored once, crashes included.
THEOREM StoredOnce ==
    ASSUME Overlapping \subseteq {"cancel"}
    PROVE  BriefSpec => []TasksOnce
<1>1. BriefInit => EditInv /\ OnceInv
  BY EditInit, OnceInit
<1>2. EditInv /\ OnceInv /\ BriefTypeOK' /\ [BriefNext]_briefVars => EditInv' /\ OnceInv'
  BY EditStep, OnceStep
<1>3. OnceInv => TasksOnce
  BY DEF OnceInv, TasksOnce
<1> QED BY <1>1, <1>2, <1>3, BriefTypeCorrect, PTL DEF BriefSpec
=============================================================================
