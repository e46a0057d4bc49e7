------------------------------ MODULE Services ------------------------------
(***************************************************************************)
(* One local service of the desktop (n8n, Hermes, Video-claw): start,      *)
(* stop, restart and install of service-manager.ts over the child process, *)
(* the exit handler and the automatic restart of row-executor.ts.  Every   *)
(* call is a chain of awaits over one status, one tracked process and one  *)
(* flag, with nothing around it: two calls, an automatic restart and the   *)
(* events of several processes interleave.  A start that fails installs    *)
(* the runtime anew and starts again, once.                                *)
(***************************************************************************)
EXTENDS Naturals

CONSTANTS Commands,     \* calls that can be under way together
          Restarters,   \* bound on automatic restarts under way together
          Children,     \* bound on processes at a time
          None,         \* no process
          MaxRestarts,  \* MAX_RESTART_RETRIES, 3
          MaxOps        \* bound on commands of the user

ASSUME ServicesAssumption ==
    /\ Commands \cap Restarters = {} /\ None \notin Children
    /\ MaxRestarts \in Nat /\ MaxOps \in Nat

VARIABLES proc, watched, tracked,   \* of a child: its process, whether its exit event has a
                                    \* handler, and the one in the processes map
          status,                   \* info.status
          intentional, restarts,    \* intentionalStop and restartCounts
          attempted,                \* autoInstallAttempted
          runtime,                  \* the runtime directory
          flow,                     \* every call: where it is and what it remembers
          deleted,                  \* a runtime in use was deleted, not moved (history)
          quiet,                    \* stopped with nothing under way, no command since (history)
          ops
os == <<proc, watched>>
executor == <<tracked, status, intentional, restarts>>
history == <<deleted, quiet>>
vars == <<os, executor, attempted, runtime, flow, history, ops>>

Flows == Commands \union Restarters
Live == {c \in Children : proc[c] \in {"up", "listening"}}
Free == Children \ (Live \union watched \union {tracked} \union {flow[f].child : f \in Flows})
Listening == \E c \in Children : proc[c] = "listening"
Idle == [at |-> "idle", next |-> "end", child |-> None, owns |-> FALSE, backup |-> "none"]
At(f, where) == [flow[f] EXCEPT !.at = where]
Ending(f) == flow[f].at = "kill" /\ flow[f].next = "end"   \* a stop
Resting(f) == flow[f].at \in {"idle", "sleep"}

Init ==
    /\ proc = [c \in Children |-> "gone"]
    /\ watched = {} /\ tracked = None
    /\ status = "unknown" /\ intentional = FALSE /\ restarts = 0 /\ attempted = FALSE
    /\ runtime \in {"stale", "fresh"}
    /\ flow = [f \in Flows |-> Idle]
    /\ deleted = FALSE /\ quiet = FALSE /\ ops = 0

-----------------------------------------------------------------------------
(* Pieces of the calls *)

Goes(f, r) == flow' = [flow EXCEPT ![f] = r] /\ UNCHANGED attempted

\* A call ends; the start that set autoInstallAttempted clears it.
Return(f) ==
    /\ flow' = [flow EXCEPT ![f] = Idle]
    /\ attempted' = IF flow[f].owns THEN FALSE ELSE attempted

\* The first part of RowExecutor.stop, which the call r is at: the exit of the tracked
\* child is not listened to any more, and it is killed; without one the stop is over.
Stops(f, r, now) ==
    /\ intentional' = TRUE /\ restarts' = 0
    /\ watched' = watched \ {tracked}
    /\ IF tracked # None
       THEN status' = now /\ flow' = [flow EXCEPT ![f] = [r EXCEPT !.at = "kill", !.child = tracked]]
       ELSE status' = "stopped" /\ flow' = [flow EXCEPT ![f] = IF r.next = "end" THEN Idle ELSE [r EXCEPT !.at = r.next]]

\* A start or its row executor gives up: once, the runtime is installed anew.
Installs(f, now) ==
    /\ Stops(f, [flow[f] EXCEPT !.next = "release", !.owns = TRUE], now)
    /\ attempted' = TRUE

\* Mutant: the flag is set and never looked at.
Fails_Again(f, now) ==
    IF f \in Restarters
    THEN Return(f) /\ status' = now /\ UNCHANGED <<watched, intentional, restarts>>
    ELSE Installs(f, now)

Fails(f, now) ==
    IF f \in Restarters \/ attempted
    THEN Return(f) /\ status' = now /\ UNCHANGED <<watched, intentional, restarts>>
    ELSE Installs(f, now)

\* start, once it knows that the service does not run.
Begins(f) ==
    IF runtime = "stale" /\ ~attempted
    THEN Installs(f, status)
    ELSE Goes(f, At(f, "probe")) /\ intentional' = FALSE /\ restarts' = 0 /\ UNCHANGED <<status, watched>>

Starts(f) ==
    IF status = "running"
    THEN Goes(f, At(f, "check")) /\ UNCHANGED <<status, watched, intentional, restarts>>
    ELSE Begins(f)

\* One more restart; beyond the bound the count tells nothing.
Counted == IF restarts < MaxRestarts THEN restarts + 1 ELSE MaxRestarts + 1

\* tryAutoRestart up to its pause, and the status it is called with.
Restarting(f, now) ==
    /\ status' = now
    /\ IF intentional THEN Return(f) /\ UNCHANGED restarts
       ELSE /\ restarts' = Counted
            /\ IF restarts < MaxRestarts THEN Goes(f, [Idle EXCEPT !.at = "sleep"]) ELSE Return(f)

-----------------------------------------------------------------------------
(* The steps of a call, each from one await to the next *)

Check(f) ==
    /\ flow[f].at = "check"
    /\ IF Listening
       THEN Return(f) /\ UNCHANGED <<status, watched, intentional, restarts>>
       ELSE Begins(f)
    /\ UNCHANGED <<proc, tracked, runtime, history, ops>>

\* startRow: whoever listens on the port is the service.
Probe(f) ==
    /\ flow[f].at = "probe"
    /\ IF Listening THEN Return(f) /\ status' = "running" ELSE Goes(f, At(f, "build")) /\ UNCHANGED status
    /\ UNCHANGED <<os, tracked, intentional, restarts, runtime, history, ops>>

\* The specification is built and the process spawned,
Spawn(f) ==
    /\ flow[f].at = "build" /\ runtime # "none"
    /\ Free # {}
    /\ tracked' = CHOOSE c \in Free : TRUE
    /\ proc' = [proc EXCEPT ![tracked'] = "up"]
    /\ watched' = watched \union {tracked'}
    /\ status' = "starting"
    /\ Goes(f, At(f, "wait"))
    /\ UNCHANGED <<intentional, restarts, runtime, history, ops>>

\* or there is no runtime, or spawn fails,
NoSpawn(f) ==
    /\ flow[f].at = "build"
    /\ Fails(f, "error")
    /\ UNCHANGED <<proc, tracked, runtime, history, ops>>

\* or a preparation throws, which ends a start and makes a restart try again.
BuildThrows(f) ==
    /\ flow[f].at = "build"
    /\ IF f \in Restarters THEN Restarting(f, "error")
       ELSE Return(f) /\ status' = "error" /\ UNCHANGED restarts
    /\ UNCHANGED <<os, intentional, tracked, runtime, history, ops>>

\* waitForPort comes to an end: somebody listens, or the time is over.
Waited(f) ==
    /\ flow[f].at = "wait"
    /\ IF Listening /\ tracked # None
       THEN Return(f) /\ status' = "running" /\ restarts' = 0 /\ UNCHANGED <<watched, intentional>>
       ELSE Fails(f, IF tracked # None THEN "starting" ELSE status)
    /\ UNCHANGED <<proc, tracked, runtime, history, ops>>

\* Mutant: the status waits for the next probe.
Killed_NoStatus(f) ==
    /\ flow[f].at = "kill"
    /\ proc' = [proc EXCEPT ![flow[f].child] = "gone"]
    /\ tracked' = None
    /\ flow' = [flow EXCEPT ![f] = IF flow[f].next = "end" THEN Idle
                                     ELSE [At(f, flow[f].next) EXCEPT !.child = None]]
    /\ UNCHANGED <<watched, status, intentional, restarts, attempted, runtime, history, ops>>

\* The process tree is dead; whichever process is tracked now is forgotten.
Killed(f) ==
    /\ flow[f].at = "kill"
    /\ proc' = [proc EXCEPT ![flow[f].child] = "gone"]
    /\ tracked' = None /\ status' = "stopped"
    /\ flow' = [flow EXCEPT ![f] = IF flow[f].next = "end" THEN Idle
                                     ELSE [At(f, flow[f].next) EXCEPT !.child = None]]
    /\ UNCHANGED <<watched, intentional, restarts, attempted, runtime, history, ops>>

\* restart waits half a second, forgets what it knows and starts.
Paused(f) ==
    /\ flow[f].at = "pause"
    /\ IF status = "running"
       THEN Goes(f, At(f, "check")) /\ intentional' = FALSE /\ restarts' = 0 /\ UNCHANGED <<status, watched>>
       ELSE Begins(f)
    /\ UNCHANGED <<proc, tracked, runtime, history, ops>>

\* What is left of the service is killed (on Windows), and the runtime moved to the
\* backups, or deleted when it is still in use.
Released(f) ==
    /\ flow[f].at = "release"
    /\ proc' \in {proc, [c \in Children |-> "gone"]}
    /\ \/ /\ runtime' = "none" /\ UNCHANGED deleted
          /\ Goes(f, [flow[f] EXCEPT !.at = "download", !.backup = runtime])
       \/ /\ \E c \in Live : proc'[c] = proc[c]
          /\ runtime' \in {"none", runtime} /\ deleted' = TRUE
          /\ Goes(f, [flow[f] EXCEPT !.at = "download", !.backup = "none"])
    /\ UNCHANGED <<watched, executor, quiet, ops>>

\* One download serves every call that waits for it (activeDownloads).
DownloadEnds(ok) ==
    /\ \E f \in Flows : flow[f].at = "download"
    /\ flow' = [f \in Flows |-> IF flow[f].at # "download" THEN flow[f]
                                ELSE At(f, IF ok THEN "installed" ELSE "refused")]
    /\ runtime' = IF ok THEN "fresh" ELSE runtime
    /\ UNCHANGED <<os, executor, attempted, history, ops>>

Installed(f) ==
    /\ flow[f].at = "installed"
    /\ Starts(f)
    /\ UNCHANGED <<proc, tracked, runtime, history, ops>>

\* Mutant: the old runtime stays among the backups.
Refused_NoRestore(f) ==
    /\ flow[f].at = "refused"
    /\ status' = "error"
    /\ Return(f)
    /\ UNCHANGED <<runtime, os, tracked, intentional, restarts, history, ops>>

\* restoreOnFailure: the old runtime comes back.
Refused(f) ==
    /\ flow[f].at = "refused"
    /\ status' = "error"
    /\ runtime' = IF flow[f].backup # "none" THEN flow[f].backup ELSE runtime
    /\ Return(f)
    /\ UNCHANGED <<os, tracked, intentional, restarts, history, ops>>

\* Mutant: what was meant five seconds ago is done.
Wakes_NoCheck(f) ==
    /\ flow[f].at = "sleep"
    /\ Goes(f, At(f, "probe")) /\ status' = "starting"
    /\ UNCHANGED <<os, tracked, intentional, restarts, runtime, history, ops>>

\* The restart's pause is over; a stop in between calls it off.
Wakes(f) ==
    /\ flow[f].at = "sleep"
    /\ IF intentional THEN Return(f) /\ UNCHANGED status
                      ELSE Goes(f, At(f, "probe")) /\ status' = "starting"
    /\ UNCHANGED <<os, tracked, intentional, restarts, runtime, history, ops>>

-----------------------------------------------------------------------------
(* Processes and their events *)

\* One process at a time can listen on the port.
Listens(c) ==
    /\ proc[c] = "up" /\ ~Listening
    /\ proc' = [proc EXCEPT ![c] = "listening"]
    /\ UNCHANGED <<watched, executor, attempted, runtime, flow, history, ops>>

Dies(c) ==
    /\ c \in Live
    /\ proc' = [proc EXCEPT ![c] = "gone"]
    /\ UNCHANGED <<watched, executor, attempted, runtime, flow, history, ops>>

\* The exit handler forgets whichever process is tracked; only a service that runs and
\* that nobody has stopped is restarted.
Exit(c) ==
    /\ c \in watched /\ proc[c] = "gone"
    /\ tracked' = None
    /\ IF ~intentional /\ status = "running"
       THEN \E f \in Restarters : flow[f].at = "idle" /\ Restarting(f, "error")
       ELSE /\ status' = IF intentional THEN "stopped" ELSE "error"
            /\ UNCHANGED <<restarts, flow, attempted>>
    /\ watched' = watched \ {c}
    /\ UNCHANGED <<proc, intentional, runtime, history, ops>>

\* The command could not be executed at all.
SpawnError(c) ==
    /\ c \in watched /\ proc[c] = "up"
    /\ proc' = [proc EXCEPT ![c] = "gone"] /\ watched' = watched \ {c}
    /\ tracked' = None /\ status' = "error"
    /\ UNCHANGED <<intentional, restarts, attempted, runtime, flow, history, ops>>

\* getServiceStatus corrects the status by a look at the port.
Polls ==
    /\ Listening # (status = "running")
    /\ status' = IF Listening THEN "running" ELSE IF tracked # None THEN "unknown" ELSE "stopped"
    /\ UNCHANGED <<os, tracked, intentional, restarts, attempted, runtime, flow, history, ops>>

-----------------------------------------------------------------------------
(* Commands of the user, of a new key or model, and of the tasks that need a service *)

\* (Calls are interchangeable, so a new one takes a name that is given.)
Command(f) ==
    /\ flow[f].at = "idle" /\ ops < MaxOps
    /\ f = CHOOSE g \in Commands : flow[g].at = "idle"
    /\ ops' = ops + 1
    /\ UNCHANGED <<proc, tracked, runtime, deleted>>

StartCommand(f) == Command(f) /\ Starts(f) /\ quiet' = FALSE

StopCommand(f) ==
    /\ Command(f)
    /\ Stops(f, [Idle EXCEPT !.next = "end"], status)
    /\ quiet' = \A g \in Flows \ {f} : Resting(g)
    /\ UNCHANGED attempted

RestartCommand(f) ==
    Command(f) /\ Stops(f, [Idle EXCEPT !.next = "pause"], status) /\ quiet' = FALSE /\ UNCHANGED attempted

InstallCommand(f) ==
    Command(f) /\ Stops(f, [Idle EXCEPT !.next = "release"], status) /\ quiet' = FALSE /\ UNCHANGED attempted

-----------------------------------------------------------------------------
FlowStep(f) ==
    \/ Check(f) \/ Probe(f) \/ Spawn(f) \/ NoSpawn(f) \/ BuildThrows(f) \/ Waited(f)
    \/ Killed(f) \/ Paused(f) \/ Released(f) \/ Installed(f) \/ Refused(f) \/ Wakes(f)

ProcessStep(c) == Listens(c) \/ Dies(c) \/ Exit(c) \/ SpawnError(c)

Next ==
    \/ \E f \in Flows : FlowStep(f)
    \/ \E ok \in BOOLEAN : DownloadEnds(ok)
    \/ \E c \in Children : ProcessStep(c)
    \/ Polls
    \/ \E f \in Commands : StartCommand(f) \/ StopCommand(f) \/ RestartCommand(f) \/ InstallCommand(f)

Spec == Init /\ [][Next]_vars

\* Every await of a call ends but the one for a download: ports, health, kills and the
\* release of a directory are given up after a while, the request of downloadOnce is not.
\* Nothing is assumed of the processes: they may be slow, hang or exit.
FairSpec == Spec /\ \A f \in Flows : WF_vars(FlowStep(f))

-----------------------------------------------------------------------------
(* Properties *)

Records == [at : {"idle", "sleep", "check", "probe", "build", "wait", "kill", "pause",
                  "release", "download", "installed", "refused"},
            next : {"end", "pause", "release"}, child : Children \union {None},
            owns : BOOLEAN, backup : {"none", "stale", "fresh"}]

\* Every variable has its type; the restarts are counted up to one too many.
TypeOK ==
    /\ proc \in [Children -> {"gone", "up", "listening"}]
    /\ watched \subseteq Children /\ tracked \in Children \union {None}
    /\ status \in {"unknown", "starting", "running", "error", "stopped"}
    /\ intentional \in BOOLEAN /\ restarts \in 0..(MaxRestarts + 1) /\ attempted \in BOOLEAN
    /\ runtime \in {"none", "stale", "fresh"}
    /\ flow \in [Flows -> Records]
    /\ deleted \in BOOLEAN /\ quiet \in BOOLEAN
    /\ ops \in 0..MaxOps

\* A service that was stopped while no other call was past its pause stays stopped till
\* the next command: not by a restart that was pending, nor by the exit of a forgotten
\* process is it brought back (stop, tryAutoRestart, the exit handler).
StopHolds ==
    quiet => /\ \A f \in Flows : Resting(f) \/ Ending(f)
             /\ tracked # None => \E f \in Flows : Ending(f) /\ flow[f].child = tracked

\* A runtime that was installed is there unless it is being installed anew, whatever
\* downloads fail and installations overlap, and unless it had to be deleted (install).
RuntimeKept ==
    runtime = "none" /\ ~deleted => \E f \in Flows : flow[f].at \in {"download", "refused"}

\* A service shown as running has a process, or the event or the call that corrects
\* the status is under way (the exit handler, stop).
RunningIsBacked ==
    status = "running" =>
        \/ Live # {}
        \/ \E c \in watched : proc[c] = "gone"
        \/ \E f \in Flows : flow[f].at = "kill"

\* The flag that keeps a start from installing again and again belongs to exactly one
\* call, which will clear it (autoInstallAttempted).
FlagHasOwner ==
    /\ attempted <=> \E f \in Flows : flow[f].owns
    /\ \A f, g \in Flows : flow[f].owns /\ flow[g].owns => f = g

\* Every command whose download ends, well, with an error or by the user's cancel, returns:
\* start, install and start again is not repeated for ever, also when two calls share the
\* flag.  A download that stalls holds every call that has joined it (README, section 5).
EveryCallReturns ==
    \A f \in Commands :
        []<>(flow[f].at # "download") => (flow[f].at # "idle" ~> flow[f].at = "idle")

\* The service has one process.  TLC refutes it: of two overlapping starts the second
\* forgets the process of the first (README, section 5).
OneProcess == \A c, d \in Live : c = d

\* A stop that has returned is not undone but by a command.  TLC refutes it: a start
\* that waits installs and starts again (README, section 5).
StoppedStays == [][(intentional /\ UNCHANGED ops) => (status' = "running" => status = "running")]_vars
=============================================================================
