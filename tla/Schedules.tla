----------------------------- MODULE Schedules -----------------------------
\* A scheduled task: its row on the server (scheduled-tasks.service.ts) and the
\* desktop clients that claim it, run it and report (cron-engine.ts; the window's
\* scheduled-runner.ts does the same).  Several computers of one user may be on.
\*
\* Time is counted down, so that there is no clock to bound: next and dueAt are
\* the ticks until then, lease those until the claim expires, mark those until the
\* row's next daily (or weekly) time (a once task has none, and its mark stands still).
\* A tick is long against a request: none spans one.
EXTENDS Naturals

CONSTANTS
    Clients,     \* computers that run the scheduler
    Period,      \* ticks from one daily mark to the next
    Lease,       \* ticks a claim lasts (10 minutes)
    MaxEdits,    \* bound: requests of the user
    MaxFaults,   \* bound: requests or answers that get lost
    MaxCrashes   \* bound: crashes of clients

ASSUME LeaseAssumption == Period \in Nat /\ Lease \in 1..(Period - 1)
ASSUME BoundsAssumption == MaxEdits \in Nat /\ MaxFaults \in Nat /\ MaxCrashes \in Nat

Free  == "free"       \* no firing token
Gone  == "gone"       \* the row is deleted
Never == Period + 1   \* next_run_at IS NULL
ASSUME FreeAssumption == Free \notin Clients

VARIABLES
    row,       \* the task's row
    pc,        \* where each client is
    ok,        \* what it is about to report
    saving,    \* receipts the server has read the row for and not yet saved
    editing,   \* the update that has read the row and not yet saved, if there is one
    left,      \* what is left of the bounds
    runs,      \* history: runs begun since the task was last due anew (0, 1, many)
    lapsed,    \* history: one of them outlived its claim
    hold,      \* history: ticks that are left of the claim of each client that runs
    succeeded, \* history: one of them succeeded
    mixed      \* history: an edit met a run, or a receipt took the claim of another run

vars == <<row, pc, ok, saving, editing, left, runs, lapsed, hold, succeeded, mixed>>
history == <<runs, lapsed, hold, succeeded, mixed>>
Many == 2

Row == [status : {"active", "paused", "done", "failed", Gone},
        repeat : {"once", "daily"},
        dueAt  : 0..Period,
        mark   : 1..Period,
        next   : 0..Never,
        token  : Clients \union {Free},
        lease  : 0..Lease]

Busy(c) == pc[c] # "idle"

\* A new task; a once task is due in dueAt ticks, a daily one at the next mark.
Init ==
    /\ \E kind \in {"once", "daily"}, due \in 0..Period, mark \in 1..Period :
          /\ IF kind = "daily" THEN due = 0 ELSE mark = Period
          /\ row = [status |-> "active", repeat |-> kind, dueAt |-> due, mark |-> mark,
                    next |-> IF kind = "once" THEN due ELSE mark,
                    token |-> Free, lease |-> 0]
    /\ pc = [c \in Clients |-> "idle"]
    /\ ok = [c \in Clients |-> FALSE]
    /\ saving = {}
    /\ editing = {}
    /\ left = [edits |-> MaxEdits, faults |-> MaxFaults, crashes |-> MaxCrashes]
    /\ runs = 0
    /\ lapsed = FALSE
    /\ hold = [c \in Clients |-> 0]
    /\ succeeded = FALSE
    /\ mixed = FALSE

-----------------------------------------------------------------------------
\* The server.

\* computeNextRunAt: the due time of a once task, past or not, else the next mark.
ComputeNext(object) == IF object.repeat = "once" THEN object.dueAt ELSE object.mark

\* Mutant: the claim is not part of the condition.
Claimable_NoToken == row.status = "active" /\ row.next = 0

\* The condition of fire's update: one statement checks it and takes the claim.
Claimable ==
    /\ row.status = "active"
    /\ row.next = 0
    /\ row.token = Free \/ row.lease = 0

\* Mutant: a receipt counts as success unless told otherwise, and is never told.
Receipted_AlwaysGood(object, good) ==
    [object EXCEPT !.token = Free, !.lease = 0,
                   !.next = IF object.repeat = "once" THEN Never ELSE object.mark,
                   !.status = IF object.repeat = "once" THEN "done" ELSE "active"]

\* Mutant: the next run is not computed anew.
Receipted_KeepsNext(object, good) ==
    [object EXCEPT !.token = Free, !.lease = 0,
                   !.status = IF object.repeat = "daily" THEN "active"
                              ELSE IF good THEN "done" ELSE "failed"]

\* What fired makes of the row it has read.  A daily task becomes active, whatever it
\* was, and the token is cleared, whosever it is.
Receipted(object, good) ==
    [object EXCEPT !.token = Free, !.lease = 0,
                   !.next = IF object.repeat = "once" THEN Never ELSE object.mark,
                   !.status = IF object.repeat = "daily" THEN "active"
                              ELSE IF good THEN "done" ELSE "failed"]

\* A row that is due anew starts with no runs.
Anew == runs' = 0 /\ lapsed' = FALSE

-----------------------------------------------------------------------------
\* A client: list, fire, run, fired.

\* A tick of the client, or the button that runs a task now: a claim the server
\* refuses changes nothing.
Fire(c) ==
    /\ pc[c] = "idle"
    /\ Claimable
    /\ row' = [row EXCEPT !.token = c, !.lease = Lease]
    /\ pc' = [pc EXCEPT ![c] = "run"]
    /\ hold' = [hold EXCEPT ![c] = Lease]
    /\ runs' = IF runs = 0 THEN 1 ELSE Many
    /\ UNCHANGED <<ok, saving, editing, left, lapsed, succeeded, mixed>>

\* The flow has run, or the agent's task is submitted, or an exception was caught.
Finish(c, good) ==
    /\ pc[c] = "run"
    /\ pc' = [pc EXCEPT ![c] = "tell"]
    /\ ok' = [ok EXCEPT ![c] = good]
    /\ hold' = [hold EXCEPT ![c] = 0]
    /\ succeeded' = (succeeded \/ good)
    /\ UNCHANGED <<row, saving, editing, left, runs, lapsed, mixed>>

\* fired on a row without a token: nothing to do.
ReceiptIgnored(c) ==
    /\ pc[c] = "tell"
    /\ row.status # Gone
    /\ row.token = Free
    /\ pc' = [pc EXCEPT ![c] = "idle"]
    /\ ok' = [ok EXCEPT ![c] = FALSE]
    /\ UNCHANGED <<row, saving, editing, left, history>>

\* fired reads the row; it does not look whose token it is.
ReceiptRead(c) ==
    /\ pc[c] = "tell"
    /\ row.status # Gone
    /\ row.token # Free
    /\ saving' = saving \union {[by |-> c, object |-> Receipted(row, ok[c])]}
    /\ pc' = [pc EXCEPT ![c] = "wait"]
    /\ UNCHANGED <<row, ok, editing, left, history>>

\* ... and saves it; the client is done when it hears of it.
ReceiptSave(r) ==
    /\ saving' = saving \ {r}
    /\ row' = r.object
    /\ pc' = [c \in Clients |-> IF c = r.by THEN "idle" ELSE pc[c]]
    /\ ok' = [c \in Clients |-> c # r.by /\ ok[c]]
    /\ Anew
    /\ succeeded' = (succeeded /\ r.object.status # "active")
    /\ mixed' = (mixed \/ \E c \in Clients : pc[c] = "run" /\ row.token = c)
    /\ UNCHANGED <<editing, left, hold>>

\* The client's catch block: a receipt of success that throws is followed by one of
\* failure, and one of failure by nothing.
GiveUp(c) ==
    /\ pc' = [pc EXCEPT ![c] = IF ok[c] THEN "tell" ELSE "idle"]
    /\ ok' = [ok EXCEPT ![c] = FALSE]

\* The receipt finds no row.
ReceiptRefused(c) ==
    /\ pc[c] = "tell"
    /\ row.status = Gone
    /\ GiveUp(c)
    /\ UNCHANGED <<row, saving, editing, left, history>>

\* The receipt gets lost, or its answer does while the server goes on.
ReceiptLost(c) ==
    /\ left.faults > 0
    /\ pc[c] \in {"tell", "wait"}
    /\ GiveUp(c)
    /\ saving' = {[r EXCEPT !.by = IF r.by = c THEN Free ELSE r.by] : r \in saving}
    /\ left' = [left EXCEPT !.faults = @ - 1]
    /\ UNCHANGED <<row, editing, history>>

\* The client is closed, or its computer sleeps or dies.
Crash(c) ==
    /\ left.crashes > 0
    /\ Busy(c)
    /\ pc' = [pc EXCEPT ![c] = "idle"]
    /\ saving' = {[r EXCEPT !.by = IF r.by = c THEN Free ELSE r.by] : r \in saving}
    /\ left' = [left EXCEPT !.crashes = @ - 1]
    /\ ok' = [ok EXCEPT ![c] = FALSE]
    /\ hold' = [hold EXCEPT ![c] = 0]
    /\ UNCHANGED <<row, editing, runs, lapsed, succeeded, mixed>>

-----------------------------------------------------------------------------
\* The user.

\* update reads the row and merges: the status it is given, else active for a failed
\* task and the row's own; the kind and the time it goes by, each new or the row's; and
\* the next run computed anew.  The time the other kind goes by is looked at only when an
\* edit changes the kind, and that edit may name any time: here it is not kept.
Edit(status, kind, time) ==
    /\ left.edits > 0
    /\ editing = {}
    /\ row.status # Gone
    /\ kind = "daily" => time > 0
    /\ LET merged == [row EXCEPT !.repeat = kind,
                                 !.dueAt = IF kind = "once" THEN time ELSE 0,
                                 !.mark = IF kind = "daily" THEN time ELSE Period,
                                 !.status = IF status # "same" THEN status
                                            ELSE IF row.status = "failed" THEN "active" ELSE row.status]
       IN editing' = {[old |-> row, new |-> [merged EXCEPT !.next = ComputeNext(merged)]]}
    /\ left' = [left EXCEPT !.edits = @ - 1]
    /\ UNCHANGED <<row, pc, ok, saving, history>>

\* ... and saves the whole object, which inserts the row again if it is gone.
EditSave(e) ==
    /\ editing' = editing \ {e}
    /\ row' = e.new
    /\ mixed' = (mixed \/ row # e.old \/ saving # {} \/ \E c \in Clients : Busy(c))
    /\ IF e.new.status = "active" /\ (e.new.next > 0 \/ row.status # "active")
          THEN Anew /\ succeeded' = FALSE
          ELSE UNCHANGED <<runs, lapsed, succeeded>>
    /\ UNCHANGED <<pc, ok, saving, left, hold>>

Remove ==
    /\ left.edits > 0
    /\ row.status # Gone
    /\ row' = [row EXCEPT !.status = Gone]
    /\ left' = [left EXCEPT !.edits = @ - 1]
    /\ UNCHANGED <<pc, ok, saving, editing, history>>

-----------------------------------------------------------------------------
Less(n) == IF n \in 1..Period THEN n - 1 ELSE n

\* Time passes.
Tick ==
    /\ saving = {} /\ editing = {}
    /\ row' = [row EXCEPT !.dueAt = Less(@), !.next = Less(@), !.lease = Less(@),
                          !.mark = IF row.repeat = "once" THEN @ ELSE IF @ = 1 THEN Period ELSE @ - 1]
    /\ hold' = [c \in Clients |-> Less(hold[c])]
    /\ lapsed' = (lapsed \/ (row.token # Free /\ row.lease = 1))
    /\ UNCHANGED <<pc, ok, saving, editing, left, runs, succeeded, mixed>>

Client(c) ==
    \/ \E good \in BOOLEAN : Finish(c, good)
    \/ ReceiptIgnored(c) \/ ReceiptRead(c) \/ ReceiptRefused(c)

Next ==
    \/ \E c \in Clients : Fire(c) \/ Client(c) \/ ReceiptLost(c) \/ Crash(c)
    \/ \E r \in saving : ReceiptSave(r)
    \/ \E status \in {"same", "active", "paused"}, kind \in {"once", "daily"},
         time \in {row.dueAt, row.mark, Period} : Edit(status, kind, time)
    \/ \E e \in editing : EditSave(e)
    \/ Remove
    \/ Tick

Spec == Init /\ [][Next]_vars

\* Some client polls every thirty seconds, its flows and requests have time limits, a
\* request the server has begun is finished, and time passes.
FairSpec ==
    /\ Spec
    /\ WF_vars(\E c \in Clients : Fire(c))
    /\ \A c \in Clients : WF_vars(Client(c))
    /\ WF_vars(\E r \in saving : ReceiptSave(r))
    /\ WF_vars(\E e \in editing : EditSave(e))
    /\ WF_vars(Tick)

-----------------------------------------------------------------------------
\* Properties.

TypeOK ==
    /\ row \in Row
    /\ pc \in [Clients -> {"idle", "run", "tell", "wait"}]
    /\ ok \in [Clients -> BOOLEAN]
    /\ saving \subseteq [by : Clients \union {Free}, object : Row]
    /\ editing \subseteq [old : Row, new : Row]
    /\ left \in [edits : 0..MaxEdits, faults : 0..MaxFaults, crashes : 0..MaxCrashes]
    /\ runs \in 0..Many
    /\ lapsed \in BOOLEAN
    /\ hold \in [Clients -> 0..Lease]
    /\ succeeded \in BOOLEAN
    /\ mixed \in BOOLEAN

\* A task that is due runs once: again only when a claim outlived its lease (the run
\* takes longer, its client died or its receipt got lost), or an edit met a run.
RunsOnce == runs = Many => lapsed \/ mixed

\* Two clients never run one task, unless one outlives its lease, or an edit or the
\* receipt of another run has cleared its claim.
Exclusion ==
    ~mixed => \A c, d \in Clients :
        c # d /\ pc[c] = "run" /\ pc[d] = "run" => hold[c] = 0 \/ hold[d] = 0

\* A task that shows done has had a run that succeeded since it was last set; a receipt
\* of failure, a claim that lapsed or an edit do not make it done.
DoneWasRun == row.status = "done" /\ ~mixed => succeeded

\* A due task does not stay due: it runs and is told, or the user takes it away, whatever
\* crashes and gets lost.
DueIsServed ==
    (row.status = "active" /\ row.next = 0) ~> (row.status # "active" \/ row.next # 0)
=============================================================================
