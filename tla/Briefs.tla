------------------------------- MODULE Briefs -------------------------------
(***************************************************************************)
(* One brief of a user: the requests that change it (brief.service.ts) and *)
(* the dispatch that confirm and redispatch start in the background        *)
(* (brief-dispatch.service.ts), which asks a language model for a list of  *)
(* tasks and stores them.                                                  *)
(*                                                                         *)
(* A request, and the dispatch it starts, work on ONE object, the row as   *)
(* the request read it; save(brief) writes every column in which the       *)
(* object differs from the row of that moment, so afterwards the row       *)
(* equals the object, whatever others wrote in between.                    *)
(***************************************************************************)
EXTENDS Integers

CONSTANTS Requests,      \* requests, each made once
          Kinds,         \* the kinds of requests made
          Overlapping,   \* kinds whose handling may overlap that of any other request
          Failures,      \* how a dispatch may go wrong
          MaxCrashes     \* bound on crashes of the server

ASSUME KindsAssumption ==
    /\ Kinds \subseteq {"update", "confirm", "redispatch", "cancel"}
    /\ Overlapping \subseteq Kinds
\* "answer": no model, no usable answer twice, or no team.  "throw": an exception
\* (a timeout of fetch, the insertion of the tasks).  "save": a save of the brief fails.
ASSUME FailuresAssumption == Failures \subseteq {"answer", "throw", "save"}
ASSUME CrashAssumption == MaxCrashes \in Nat

VARIABLES brief,     \* the row
          batches,   \* how often tasks were inserted for the brief
          pc,        \* what each request does next
          kind,      \* its kind, chosen when it is made
          mine,      \* its object
          thrown,    \* some dispatch has met an exception (history)
          crashes
briefVars == <<brief, batches, pc, kind, mine, thrown, crashes>>

\* BriefEntity: status, dispatch_status, dispatch_result.
Row == [status : {"draft", "confirmed", "cancelled"},
        dispatch : {"none", "pending", "done", "failed"},
        result : {"null", "tasks"}]

\* create.
NewBrief == [status |-> "draft", dispatch |-> "none", result |-> "null"]

Handling == {"save"}
Dispatching == {"ask", "store", "saveDone", "saveFailed", "report", "rescue"}
Steps == {"idle", "over"} \union Handling \union Dispatching

BriefInit ==
    /\ brief = NewBrief
    /\ batches = 0
    /\ pc = [r \in Requests |-> "idle"]
    /\ kind = [r \in Requests |-> "none"]
    /\ mine = [r \in Requests |-> NewBrief]
    /\ thrown = FALSE
    /\ crashes = 0

Goto(r, step) == pc' = [pc EXCEPT ![r] = step]
\* save(brief): the row becomes what the object is.
SaveBrief(object) == brief' = object

-----------------------------------------------------------------------------
\* The requests.

\* Mutant: confirm does not look at the status of the dispatch.
Accepts_Again(k, row) ==
    CASE k = "update"     -> row.status = "draft"
      [] k = "confirm"    -> row.status \in {"draft", "confirmed"}
      [] k = "redispatch" -> row.status = "confirmed" /\ row.dispatch = "failed"
      [] k = "cancel"     -> row.status \in {"draft", "confirmed"}

\* The row with which a request of kind k goes on; the others return or throw.
Accepts(k, row) ==
    CASE k = "update"     -> row.status = "draft"
      [] k = "confirm"    -> row.status = "draft" /\ row.dispatch = "none"
      [] k = "redispatch" -> row.status = "confirmed" /\ row.dispatch = "failed"
      [] k = "cancel"     -> row.status \in {"draft", "confirmed"}

\* The object as the request changes it.
Edited(k, object) ==
    CASE k = "update"  -> object
      [] k = "confirm" -> [object EXCEPT !.status = "confirmed", !.dispatch = "pending"]
      [] k = "redispatch" -> [object EXCEPT !.dispatch = "pending"]
      [] k = "cancel"  -> [object EXCEPT !.status = "cancelled"]

\* findOne and the checks.  Between them and the save there are further reads
\* (teams, agents), and save itself reads again: others may come in between.
ReadBrief(r, k) ==
    /\ pc[r] = "idle"
    /\ \A q \in Requests : pc[q] \in Handling => {kind[q], k} \intersect Overlapping # {}
    /\ Accepts(k, brief)
    /\ kind' = [kind EXCEPT ![r] = k]
    /\ mine' = [mine EXCEPT ![r] = Edited(k, brief)]
    /\ Goto(r, "save")
    /\ UNCHANGED <<brief, batches, thrown, crashes>>

\* The save, after which confirm and redispatch answer and the dispatch begins.
Save(r) ==
    /\ pc[r] = "save"
    /\ SaveBrief(mine[r])
    /\ Goto(r, IF kind[r] \in {"confirm", "redispatch"} THEN "ask" ELSE "over")
    /\ UNCHANGED <<batches, kind, mine, thrown, crashes>>

\* The save throws and so does the request: no dispatch begins.
Refuse(r) ==
    /\ "save" \in Failures
    /\ pc[r] = "save"
    /\ Goto(r, "over")
    /\ UNCHANGED <<brief, batches, kind, mine, thrown, crashes>>

-----------------------------------------------------------------------------
\* The dispatch.

Failed(object) == [object EXCEPT !.dispatch = "failed", !.result = "null"]
Done(object) == [object EXCEPT !.dispatch = "done", !.result = "tasks"]
Becomes(r, object) == mine' = [mine EXCEPT ![r] = object]

\* Roles, model, relay and up to two calls of the model gave a list of tasks.
Answer(r) ==
    /\ pc[r] = "ask"
    /\ Goto(r, "store")
    /\ UNCHANGED <<brief, batches, kind, mine, thrown, crashes>>

\* fail: no model or relay, no usable answer, no team to take the tasks.  Nothing
\* is saved here; the caller reports.
NoAnswer(r) ==
    /\ "answer" \in Failures
    /\ pc[r] \in {"ask", "store"}
    /\ Becomes(r, Failed(mine[r]))
    /\ Goto(r, "report")
    /\ UNCHANGED <<brief, batches, kind, thrown, crashes>>

\* The catch branch of dispatch, reached before the tasks are stored.
Throw(r) ==
    /\ "throw" \in Failures
    /\ pc[r] \in {"ask", "store"}
    /\ Becomes(r, [mine[r] EXCEPT !.dispatch = "failed"])
    /\ thrown' = TRUE
    /\ Goto(r, "saveFailed")
    /\ UNCHANGED <<brief, batches, kind, crashes>>

\* Mutant: the brief is done although the insertion was rolled back.
PersistTasks_NoStore(r) ==
    /\ pc[r] = "store"
    /\ Becomes(r, Done(mine[r]))
    /\ Goto(r, "saveDone")
    /\ UNCHANGED <<brief, batches, kind, thrown, crashes>>

\* persistTasks inserts all tasks in one transaction; then the object is set to done.
PersistTasks(r) ==
    /\ pc[r] = "store"
    /\ batches' = batches + 1
    /\ Becomes(r, Done(mine[r]))
    /\ Goto(r, "saveDone")
    /\ UNCHANGED <<brief, kind, thrown, crashes>>

\* The save inside dispatch, with the tasks stored or with the exception noted.
SaveInDispatch(r) ==
    /\ pc[r] \in {"saveDone", "saveFailed"}
    /\ SaveBrief(mine[r])
    /\ Becomes(r, IF pc[r] = "saveDone" THEN mine[r] ELSE Failed(mine[r]))
    /\ Goto(r, "report")
    /\ UNCHANGED <<batches, kind, thrown, crashes>>

\* That save throws.  With the tasks stored the catch branch finds the object done,
\* saves nothing and answers not ok: the caller reports a failure.  The save in the
\* catch branch has only the caller's own catch behind it.
SaveThrows(r) ==
    /\ "save" \in Failures
    /\ pc[r] \in {"saveDone", "saveFailed"}
    /\ Becomes(r, Failed(mine[r]))
    /\ thrown' = TRUE
    /\ Goto(r, IF pc[r] = "saveDone" THEN "report" ELSE "rescue")
    /\ UNCHANGED <<brief, batches, kind, crashes>>

\* Mutant: a failure is not written back.
Report_OnlySuccess(r) ==
    /\ pc[r] = "report"
    /\ IF mine[r].dispatch = "done" THEN SaveBrief(mine[r]) ELSE UNCHANGED brief
    /\ Goto(r, "over")
    /\ UNCHANGED <<batches, kind, mine, thrown, crashes>>

\* The callback of confirm or redispatch writes the outcome, again with a save.
Report(r) ==
    /\ pc[r] = "report"
    /\ SaveBrief(mine[r])
    /\ Goto(r, "over")
    /\ UNCHANGED <<batches, kind, mine, thrown, crashes>>

\* That save throws and the last catch branch saves a failure.
ReportThrows(r) ==
    /\ "save" \in Failures
    /\ pc[r] = "report"
    /\ Becomes(r, Failed(mine[r]))
    /\ thrown' = TRUE
    /\ Goto(r, "rescue")
    /\ UNCHANGED <<brief, batches, kind, crashes>>

Rescue(r) ==
    /\ pc[r] = "rescue"
    /\ SaveBrief(mine[r])
    /\ Goto(r, "over")
    /\ UNCHANGED <<batches, kind, mine, thrown, crashes>>

\* The server dies: requests and dispatches under way are lost.  Nothing at the next
\* start looks for pending briefs.
Crash ==
    /\ crashes < MaxCrashes
    /\ crashes' = crashes + 1
    /\ pc' = [r \in Requests |-> IF pc[r] = "idle" THEN "idle" ELSE "over"]
    /\ UNCHANGED <<brief, batches, kind, mine, thrown>>

\* The save of the last catch branch throws, too.  Nobody waits for that promise and the
\* backend handles no unhandledRejection: the process ends, with all it was doing.
RescueThrows(r) == "save" \in Failures /\ pc[r] = "rescue" /\ Crash

-----------------------------------------------------------------------------
HandlerStep(r) ==
    \/ Save(r) \/ Refuse(r)
    \/ Answer(r) \/ NoAnswer(r) \/ Throw(r) \/ PersistTasks(r)
    \/ SaveInDispatch(r) \/ SaveThrows(r)
    \/ Report(r) \/ ReportThrows(r) \/ Rescue(r)

BriefNext ==
    \/ Crash
    \/ \E r \in Requests : (\E k \in Kinds : ReadBrief(r, k)) \/ HandlerStep(r) \/ RescueThrows(r)

BriefSpec == BriefInit /\ [][BriefNext]_briefVars

\* A request once read is finished, and a dispatch goes on: fetch and the database
\* calls return or time out.  Nobody has to make a request.
BriefFairSpec == BriefSpec /\ \A r \in Requests : WF_briefVars(HandlerStep(r))

-----------------------------------------------------------------------------
\* Properties.

BriefTypeOK ==
    /\ brief \in Row
    /\ batches \in Nat
    /\ pc \in [Requests -> Steps]
    /\ kind \in [Requests -> Kinds \union {"none"}]
    /\ mine \in [Requests -> Row]
    /\ thrown \in BOOLEAN
    /\ crashes \in 0..MaxCrashes

\* confirmed and waiting for its tasks.
Waiting == brief.status = "confirmed" /\ brief.dispatch = "pending"

\* What the row shows as dispatched was dispatched: done stands only over stored tasks.
DoneHasTasks == (brief.dispatch = "done" \/ brief.result = "tasks") => batches > 0

\* confirm is idempotent and redispatch follows a failure: unless a dispatch met an
\* exception, the tasks of a brief are stored once, crashes included.
TasksOnce == ~thrown => batches =< 1

\* A brief that may still be edited has no tasks and nobody making them: update may
\* not change a goal from which tasks are being derived.
EditableIsUntouched ==
    brief.status = "draft" => batches = 0 /\ \A r \in Requests : pc[r] \notin Dispatching

\* While the server lives every dispatch comes to an outcome the user can act on.
DispatchEnds == [](crashes = 0) => (Waiting ~> ~Waiting)
=============================================================================
