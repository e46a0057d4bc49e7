------------------------ MODULE OralWorkshop_proofs ------------------------
(***************************************************************************)
(* Proofs about a job of the oral workshop, for any number of requests,    *)
(* steps, retries and crashes.  Four invariants, each on top of those      *)
(* before it:                                                              *)
(*   TypeInv: the types, where everybody is and what for (Places), which   *)
(*     calls have a hold to close (CallsNamed), who is alone (AloneInv);   *)
(*   PaidInv: what the job's row promises of its hold, and the copies of   *)
(*     the row that are about to be saved, when nothing overlaps (Alone);  *)
(*   OrderInv: what the steps around the one that runs look like, point by *)
(*     point of the executor, while requests create and cancel;            *)
(*   HoldInv: who has an open hold at each point, until the first crash.   *)
(*                                                                         *)
(* Alone and Unrendered are premises of the theorems, not of the code: in  *)
(* a server with several executors, or with every request overlapping, the *)
(* stale rows that are saved do break these properties.                    *)
(***************************************************************************)
EXTENDS OralWorkshop, WellFoundedInduction, TLAPS

USE LedgerAssumption, OutcomesAssumption, WorkshopAssumption

ExecutorLabels == {"idle", "start", "claim", "begin", "work", "finish", "finishLoad",
                   "finishSave", "settle", "saveProgress", "pause", "draft", "settleDraft",
                   "saveDraft", "fail", "failLoad", "failSave", "saveRetry", "saveFailed", "refund"}
CreateLabels == {"createFreeze", "createJob", "createSteps"}
RetryLabels == {"retryLoad", "retrySave", "retryFreeze", "retryJob"}
RenderLabels == {"renderFreeze", "renderLoad", "renderSave", "renderJob"}
UserLabels ==
    {"idle", "refund", "cancel", "advance"} \cup CreateLabels \cup RetryLabels \cup RenderLabels

\* The points of a request of each kind.
Fits(label, op) ==
    /\ label \in CreateLabels => op = "create"
    /\ label = "cancel" => op = "cancel"
    /\ label = "advance" => op = "advance"
    /\ label \in RetryLabels => op = "retry"
    /\ label \in RenderLabels => op = "render"
    /\ label = "refund" => op \in {"create", "cancel"}

\* Where everybody is; a request is at one of its own points.
Places ==
    /\ pc \in [Actors -> ExecutorLabels \cup UserLabels]
    /\ \A e \in Executors : pc[e] \in ExecutorLabels /\ (pc[e] # "idle" => at[e] \in Steps)
    /\ \A u \in Users :
          /\ pc[u] \in UserLabels
          /\ pc[u] = "idle" <=> asked[u] = None
          /\ Fits(pc[u], asked[u])

\* A closing call is made for a hold.
CallsNamed ==
    /\ \A e \in Executors : pc[e] \in {"settle", "settleDraft"} => mine[e].hold \in Holds
    /\ server = "refunding" => job.hold \in Holds

\* Nothing runs in a booting server, and nothing beside a request that overlaps nothing.
AloneInv ==
    /\ server # "up" => \A a \in Actors : pc[a] = "idle"
    /\ \A u \in Users : asked[u] \notin Overlapping \cup {None} =>
          \A a \in Actors \ {u} : pc[a] = "idle"
    /\ \A a \in Actors : pc[a] = "idle" => mine[a] = NoJob

TypeInv == TypeOK /\ Places /\ CallsNamed /\ AloneInv

-----------------------------------------------------------------------------
(* Rows and steps *)

\* A set of steps that is not empty has a first one, and Min is it.
LEMMA MinOfSteps ==
    ASSUME NEW S \in SUBSET Steps, S # {}
    PROVE  Min(S) \in S /\ \A x \in S : Min(S) <= x
  <1>1. S \subseteq Nat
    BY DEF Steps
  <1>2. PICK m \in S : \A y \in S : ~(<<y, m>> \in OpToRel(<, Nat))
    BY <1>1, NatLessThanWellFounded, WFMin
  <1>3. ASSUME NEW y \in S PROVE m <= y
    <2>1. SUFFICES ASSUME y < m PROVE FALSE
      BY <1>1
    <2>2. <<y, m>> \in OpToRel(<, Nat)
      BY <1>1, <2>1 DEF OpToRel
    <2>3. QED
      BY <1>2, <2>2
  <1>4. QED
    BY <1>3 DEF Min

\* nextPendingStep returns the first pending step, if there is one.
LEMMA NextPendingIs ==
    ASSUME NEW st
    PROVE  /\ NextPending(st) \in 0..NSteps
           /\ NextPending(st) # 0 =>
                /\ NextPending(st) \in Steps /\ st[NextPending(st)].status = "pending"
                /\ \A s \in Steps : st[s].status = "pending" => NextPending(st) <= s
           /\ NextPending(st) = 0 => \A s \in Steps : st[s].status # "pending"
  <1>1. Pending(st) \in SUBSET Steps
    BY DEF Pending
  <1>2. CASE Pending(st) = {}
    BY <1>2 DEF NextPending, Pending
  <1>3. CASE Pending(st) # {}
    <2>1. NextPending(st) \in Pending(st) /\ \A s \in Pending(st) : NextPending(st) <= s
      BY <1>1, <1>3, MinOfSteps DEF NextPending
    <2>2. QED
      BY <1>1, <2>1 DEF Pending, Steps
  <1>4. QED
    BY <1>2, <1>3

\* The rows that do not exist yet, and those of a new job, are rows.
LEMMA NoRows ==
    /\ NoJob \in JobRow
    /\ NoSteps \in [Steps -> StepRow] /\ FreshSteps \in [Steps -> StepRow]
  BY DEF NoJob, JobRow, NoSteps, FreshSteps, Fresh, StepRow, Live, Final

Statuses == Live \cup Final

\* A row with some columns changed is a row.
LEMMA JobRowStatus ==
    ASSUME NEW row \in JobRow, NEW st \in {"absent"} \cup Statuses
    PROVE  /\ [row EXCEPT !.status = st] \in JobRow
           /\ [row EXCEPT !.status = st].hold = row.hold
           /\ [row EXCEPT !.status = st].draftMode = row.draftMode
           /\ [row EXCEPT !.status = st].status = st
  BY DEF JobRow, Statuses

\* Another hold,
LEMMA JobRowHold ==
    ASSUME NEW row \in JobRow, NEW h \in Holds \cup {None}
    PROVE  /\ [row EXCEPT !.hold = h] \in JobRow
           /\ [row EXCEPT !.hold = h].hold = h
           /\ [row EXCEPT !.hold = h].status = row.status
           /\ [row EXCEPT !.hold = h].draftMode = row.draftMode
  BY DEF JobRow

\* waiting or not,
LEMMA JobRowWaiting ==
    ASSUME NEW row \in JobRow, NEW b \in BOOLEAN
    PROVE  /\ [row EXCEPT !.waiting = b] \in JobRow
           /\ [row EXCEPT !.waiting = b].hold = row.hold
           /\ [row EXCEPT !.waiting = b].status = row.status
           /\ [row EXCEPT !.waiting = b].draftMode = row.draftMode
  BY DEF JobRow

\* at another step,
LEMMA JobRowCurrent ==
    ASSUME NEW row \in JobRow, NEW st \in {"absent"} \cup Statuses, NEW c \in 0..NSteps
    PROVE  /\ [row EXCEPT !.status = st, !.current = c] \in JobRow
           /\ [row EXCEPT !.status = st, !.current = c].hold = row.hold
           /\ [row EXCEPT !.status = st, !.current = c].status = st
           /\ [row EXCEPT !.status = st, !.current = c].draftMode = row.draftMode
  BY DEF JobRow, Statuses

\* with a video,
LEMMA JobRowVideo ==
    ASSUME NEW row \in JobRow, NEW st \in {"absent"} \cup Statuses, NEW c \in 0..NSteps,
           NEW b \in BOOLEAN
    PROVE  /\ [row EXCEPT !.status = st, !.current = c, !.video = b] \in JobRow
           /\ [row EXCEPT !.status = st, !.current = c, !.video = b].hold = row.hold
           /\ [row EXCEPT !.status = st, !.current = c, !.video = b].status = st
           /\ [row EXCEPT !.status = st, !.current = c, !.video = b].draftMode = row.draftMode
  BY DEF JobRow, Statuses

\* with its draft made (SaveDraft),
LEMMA JobRowDraft ==
    ASSUME NEW row \in JobRow
    PROVE  LET new == [row EXCEPT !.hold = None, !.draft = TRUE, !.waiting = TRUE]
           IN  /\ new \in JobRow /\ new.hold = None
               /\ new.status = row.status /\ new.draftMode = row.draftMode
  BY DEF JobRow

\* rendered (RenderJob),
LEMMA JobRowRender ==
    ASSUME NEW row \in JobRow
    PROVE  LET new == [row EXCEPT !.status = "processing", !.current = 0,
                                  !.waiting = FALSE, !.draftMode = FALSE]
           IN  /\ new \in JobRow /\ new.hold = row.hold
               /\ new.status = "processing" /\ ~new.draftMode
  <1> DEFINE first == [row EXCEPT !.status = "processing", !.current = 0]
             new == [first EXCEPT !.waiting = FALSE, !.draftMode = FALSE]
  <1>1. "processing" \in {"absent"} \cup Live \cup Final /\ 0 \in 0..NSteps
    BY DEF Live
  <1>2. first \in JobRow /\ first.hold = row.hold /\ first.status = "processing"
    BY <1>1 DEF JobRow
  <1> HIDE DEF first
  <1>3. /\ new \in JobRow /\ new.hold = row.hold
        /\ new.status = "processing" /\ ~new.draftMode
    BY <1>2 DEF JobRow
  <1>4. QED
    BY <1>3 DEF first

\* and the row of a new job.
LEMMA NewJobRow ==
    ASSUME NEW m \in BOOLEAN, NEW d \in BOOLEAN, NEW v \in BOOLEAN
    PROVE  LET row == [NoJob EXCEPT !.status = "pending", !.manual = m, !.waiting = m,
                                    !.draftMode = d, !.video = v]
           IN  row \in JobRow /\ row.status = "pending" /\ row.hold = None
  <1> DEFINE r1 == [NoJob EXCEPT !.status = "pending", !.manual = m, !.waiting = m]
             r2 == [r1 EXCEPT !.draftMode = d, !.video = v]
  <1>1. r1 \in JobRow /\ r1.status = "pending" /\ r1.hold = None
    BY NoRows DEF NoJob, JobRow, Live, Final
  <1> HIDE DEF r1
  <1>2. r2 \in JobRow /\ r2.status = "pending" /\ r2.hold = None
    BY <1>1 DEF JobRow
  <1>3. QED
    BY <1>2 DEF r1

\* jobStatusAfterSteps returns one of three statuses.
LEMMA StatusAfterIs == ASSUME NEW st PROVE StatusAfter(st) \in {"done", "failed", "processing"}
  BY DEF StatusAfter

\* Steps that end or fail are steps.
LEMMA FinishSteps ==
    ASSUME NEW st \in [Steps -> StepRow], NEW s \in Steps
    PROVE  /\ Finish(st, s) \in [Steps -> StepRow]
           /\ \A r \in Steps : r # s => Finish(st, s)[r] = st[r]
           /\ Finish(st, s)[s].status = IF st[s].status = "failed" THEN "failed" ELSE "done"
  BY DEF Finish, StepRow

\* A failed step leaves steps too, and its retries stay bounded.
LEMMA FailSteps ==
    ASSUME NEW st \in [Steps -> StepRow], NEW s \in Steps
    PROVE  /\ Fail(st, s) \in [Steps -> StepRow]
           /\ \A r \in Steps : r # s => Fail(st, s)[r] = st[r]
           /\ Fail(st, s)[s].status = IF GivenUp(st, s) THEN "failed" ELSE "pending"
  <1>1. CASE GivenUp(st, s)
    BY <1>1 DEF Fail, StepRow
  <1>2. CASE ~GivenUp(st, s)
    <2>1. st[s].retries \in 0..MaxRetries /\ ~(st[s].retries >= MaxRetries)
      BY <1>2 DEF GivenUp, StepRow
    <2>2. [status |-> "pending", retries |-> st[s].retries + 1] \in StepRow
      BY <2>1 DEF StepRow
    <2>3. QED
      BY <1>2, <2>2 DEF Fail
  <1>3. QED
    BY <1>1, <1>2

\* A call of the credit service for a hold.
LEMMA CallTyped ==
    ASSUME TypeOK, NEW h \in Holds, NEW c \in Nat, NEW outcome,
           Calls(SettleHold(h, c), outcome) \/ Calls(RefundHold(h), outcome)
    PROVE  /\ available' \in Nat /\ reserved' \in Int
           /\ status' \in [Holds -> HoldStatus] /\ size' \in [Holds -> Nat]
  <1> USE DEF TypeOK, HoldStatus
  <1>1. CASE UNCHANGED ledgerVars
    BY <1>1 DEF ledgerVars
  <1>2. CASE Settle(h, c)
    BY <1>2 DEF Settle
  <1>3. CASE Refund(h)
    BY <1>3 DEF Refund
  <1>4. QED
    BY <1>1, <1>2, <1>3 DEF Calls, SettleHold, RefundHold
-----------------------------------------------------------------------------
(* Types *)

\* A step of a leaves what the others have read and where they are.
OthersRest(a) ==
    /\ \A b \in Actors \ {a} : /\ pc'[b] = pc[b] /\ at'[b] = at[b]
                               /\ mine'[b] = mine[b] /\ copy'[b] = copy[b]
    /\ \A u \in Users \ {a} : asked'[u] = asked[u]
    /\ server' = server /\ crashes' = crashes

\* What is gone when a request or a step is over.
LEMMA OverEffect ==
    ASSUME TypeOK, Places, NEW a \in Actors, Over(a)
    PROVE  /\ pc' = [pc EXCEPT ![a] = "idle"]
           /\ at' \in [Actors -> 0..NSteps] /\ mine' \in [Actors -> JobRow]
           /\ copy' \in [Actors -> [Steps -> StepRow]] /\ asked' \in [Users -> Ops \cup {None}]
           /\ mine'[a] = NoJob
           /\ a \in Users => asked'[a] = None
           /\ server' = server /\ crashes' = crashes => OthersRest(a)
  BY NoRows DEF Over, Goto, TypeOK, Places, OthersRest

\* A step of an executor keeps everybody where they may be,
LEMMA ExecutorMoves ==
    ASSUME TypeInv, TypeOK', NEW e \in Executors, NEW l \in ExecutorLabels,
           pc[e] # "idle" \/ Free, OthersRest(e), server = "up", job' = job \/ server = "up",
           pc' = [pc EXCEPT ![e] = l],
           l = "idle" => mine'[e] = NoJob, l # "idle" => at'[e] \in Steps,
           l \in {"settle", "settleDraft"} => mine'[e].hold \in Holds
    PROVE  TypeInv'
  <1>1. \A u \in Users : /\ pc'[u] = pc[u] /\ asked'[u] = asked[u] /\ u # e
                         /\ asked[u] \notin Overlapping \cup {None} => pc[e] = "idle"
    BY DEF TypeInv, AloneInv, OthersRest, Actors
  <1>2. pc' \in [Actors -> ExecutorLabels \cup UserLabels]
    BY DEF TypeInv, Places
  <1>3. \A f \in Executors : /\ pc'[f] \in ExecutorLabels
                             /\ pc'[f] # "idle" => at'[f] \in Steps
                             /\ pc'[f] \in {"settle", "settleDraft"} => mine'[f].hold \in Holds
    BY DEF TypeInv, Places, CallsNamed, OthersRest, Actors
  <1>4. Places'
    BY <1>1, <1>2, <1>3 DEF TypeInv, Places
  <1>5. server' = "up"
    BY DEF OthersRest
  <1>6. CallsNamed'
    BY <1>3, <1>5 DEF CallsNamed
  <1>7. \A a \in Actors : pc'[a] = "idle" => mine'[a] = NoJob
    BY DEF TypeInv, AloneInv, OthersRest, Places
  <1>8. \A u \in Users : asked'[u] \in Overlapping \cup {None}
                         \/ \A a \in Actors \ {u} : pc'[a] = "idle"
    <2>1. CASE Free
      BY <1>1, <2>1 DEF Free
    <2>2. CASE pc[e] # "idle"
      BY <1>1, <2>2
    <2>3. QED
      BY <2>1, <2>2
  <1>9. QED
    BY <1>4, <1>5, <1>6, <1>7, <1>8 DEF TypeInv, AloneInv

\* and so does a step of a request.
LEMMA UserMoves ==
    ASSUME TypeInv, TypeOK', NEW u \in Users, NEW l \in UserLabels,
           \/ pc[u] # "idle"
           \/ Free /\ (asked'[u] \in Overlapping \/ \A a \in Actors : pc[a] = "idle"),
           OthersRest(u), server = "up", pc' = [pc EXCEPT ![u] = l],
           l = "idle" => mine'[u] = NoJob,
           l = "idle" <=> asked'[u] = None,
           l # "idle" /\ pc[u] # "idle" => asked'[u] = asked[u],
           Fits(l, asked'[u])
    PROVE  TypeInv'
  <1>1. u \notin Executors /\ u \in Actors
    BY DEF Actors
  <1>2. pc' \in [Actors -> ExecutorLabels \cup UserLabels]
    BY DEF TypeInv, Places
  <1>3. \A f \in Executors : /\ pc'[f] = pc[f] /\ at'[f] = at[f] /\ mine'[f] = mine[f]
    BY <1>1 DEF OthersRest, Actors
  <1>4. \A v \in Users \ {u} : pc'[v] = pc[v] /\ asked'[v] = asked[v]
    BY DEF OthersRest, Actors
  <1>5. pc'[u] = l
    BY <1>1 DEF TypeInv, Places
  <1>6. Places'
    BY <1>2, <1>3, <1>4, <1>5 DEF TypeInv, Places
  <1>7. server' = "up"
    BY DEF OthersRest
  <1>8. CallsNamed'
    BY <1>3, <1>7 DEF TypeInv, CallsNamed
  <1>9. \A a \in Actors : pc'[a] = "idle" => mine'[a] = NoJob
    BY <1>5 DEF TypeInv, AloneInv, OthersRest
  <1>10. ASSUME NEW v \in Users, asked'[v] \notin Overlapping \cup {None}, NEW a \in Actors \ {v}
         PROVE  pc'[a] = "idle"
    <2>1. CASE pc[u] # "idle" /\ v = u
      <3>1. l # "idle" /\ asked[u] = asked'[u]
        BY <1>10, <2>1
      <3>2. pc[a] = "idle"
        BY <1>10, <2>1, <3>1 DEF TypeInv, AloneInv
      <3>3. QED
        BY <1>10, <2>1, <3>2 DEF OthersRest
    <2>2. CASE pc[u] # "idle" /\ v # u
      <3>1. asked[v] \notin Overlapping \cup {None}
        BY <1>4, <1>10, <2>2
      <3>2. pc[u] = "idle"
        BY <1>1, <2>2, <3>1 DEF TypeInv, AloneInv
      <3>3. QED
        BY <2>2, <3>2
    <2>3. CASE Free /\ (asked'[u] \in Overlapping \/ \A b \in Actors : pc[b] = "idle")
      <3>1. v = u
        BY <1>4, <1>10, <2>3 DEF Free
      <3>2. QED
        BY <1>10, <2>3, <3>1 DEF OthersRest
    <2>4. QED
      BY <2>1, <2>2, <2>3
  <1>11. QED
    BY <1>6, <1>7, <1>8, <1>9, <1>10 DEF TypeInv, AloneInv

\* A step of an executor keeps the types.
LEMMA ExecutorTyped ==
    ASSUME TypeInv, NEW e \in Executors, ExecutorStep(e)
    PROVE  TypeInv' /\ OthersRest(e)
  <1>0. /\ TypeOK /\ Places /\ e \in Actors
        /\ pc[e] # "idle" => server = "up" /\ at[e] \in Steps
    BY DEF TypeInv, AloneInv, Places, Actors
  <1>1. ASSUME NEW l \in ExecutorLabels, pc[e] # "idle" \/ Free, server = "up",
               pc' = [pc EXCEPT ![e] = l], TypeOK', OthersRest(e),
               l = "idle" => mine'[e] = NoJob, l # "idle" => at'[e] \in Steps,
               l \in {"settle", "settleDraft"} => mine'[e].hold \in Holds
        PROVE  TypeInv' /\ OthersRest(e)
    BY <1>1, ExecutorMoves
  <1>2. ASSUME Over(e), pc[e] # "idle", job' \in JobRow, steps' \in [Steps -> StepRow],
               UNCHANGED <<server_, ops>>,
               /\ available' \in Nat /\ reserved' \in Int
               /\ status' \in [Holds -> HoldStatus] /\ size' \in [Holds -> Nat]
        PROVE  TypeInv' /\ OthersRest(e)
    <2>1. TypeOK' /\ OthersRest(e)
      BY <1>0, <1>2, OverEffect DEF TypeOK, server_
    <2>2. pc' = [pc EXCEPT ![e] = "idle"] /\ mine'[e] = NoJob
      BY <1>0, <1>2, OverEffect
    <2>3. QED
      BY <1>0, <1>1, <1>2, <2>1, <2>2 DEF ExecutorLabels
  <1>3. ASSUME NEW l \in ExecutorLabels \ {"idle"}, pc[e] # "idle", pc' = [pc EXCEPT ![e] = l],
               job' \in JobRow, steps' \in [Steps -> StepRow],
               UNCHANGED <<at, asked, server_, ops>>,
               /\ available' \in Nat /\ reserved' \in Int
               /\ status' \in [Holds -> HoldStatus] /\ size' \in [Holds -> Nat],
               mine' \in [Actors -> JobRow], copy' \in [Actors -> [Steps -> StepRow]],
               \A b \in Actors \ {e} : mine'[b] = mine[b] /\ copy'[b] = copy[b],
               l \in {"settle", "settleDraft"} => mine'[e].hold \in Holds
        PROVE  TypeInv' /\ OthersRest(e)
    <2>1. TypeOK'
      BY <1>0, <1>3 DEF TypeOK, server_
    <2>2. OthersRest(e)
      BY <1>0, <1>3 DEF OthersRest, Places, server_
    <2>3. QED
      BY <1>0, <1>1, <1>3, <2>1, <2>2
  <1> USE DEF ledgerVars, rows, locals
  <1>4. CASE Pick(e)
    <2>1. NextPending(steps) \in Steps /\ server = "up" /\ Free
      BY <1>4, NextPendingIs DEF Pick
    <2>2. TypeOK' /\ OthersRest(e) /\ at'[e] \in Steps /\ pc' = [pc EXCEPT ![e] = "start"]
      BY <1>0, <1>4, <2>1 DEF Pick, TypeOK, OthersRest, Places, Goto, server_, Steps
    <2>3. QED
      BY <1>1, <2>1, <2>2 DEF ExecutorLabels
  <1>5. ASSUME NEW from, NEW guard, NEW l \in ExecutorLabels \ {"idle"}, pc[e] # "idle",
               ReadJob(e, from, guard, l),
               guard /\ l \in {"settle", "settleDraft"} => job.hold \in Holds
        PROVE  TypeInv' /\ OthersRest(e)
    <2>1. CASE guard
      <3>1. /\ pc' = [pc EXCEPT ![e] = l] /\ mine' = [mine EXCEPT ![e] = job]
            /\ UNCHANGED <<ledgerVars, rows, server_, ops, at, asked, copy>>
        BY <1>5, <2>1 DEF ReadJob, Keep, Goto
      <3>2. /\ mine' \in [Actors -> JobRow] /\ mine'[e] = job
            /\ \A b \in Actors \ {e} : mine'[b] = mine[b]
        BY <1>0, <3>1 DEF TypeOK
      <3>3. QED
        BY <1>0, <1>3, <1>5, <2>1, <3>1, <3>2 DEF TypeOK
    <2>2. CASE ~guard
      <3>1. Over(e) /\ UNCHANGED <<ledgerVars, rows, server_, ops>>
        BY <1>5, <2>2 DEF ReadJob
      <3>2. QED
        BY <1>0, <1>2, <1>5, <3>1 DEF TypeOK
    <2>3. QED
      BY <2>1, <2>2
  <1>6. CASE Start(e)
    BY <1>5, <1>6 DEF Start, ReadJob, ExecutorLabels
  <1>7. CASE Claim(e)
    <2>1. CASE steps[at[e]].status = "pending"
      <3>1. steps' \in [Steps -> StepRow]
        <4>1. at[e] \in Steps /\ steps \in [Steps -> StepRow]
              /\ steps' = [steps EXCEPT ![at[e]] = [steps[at[e]] EXCEPT !.status = "running"]]
          BY <1>0, <1>7, <2>1 DEF Claim, TypeOK
        <4>2. [steps[at[e]] EXCEPT !.status = "running"] \in StepRow
          BY <4>1 DEF StepRow
        <4>3. QED
          BY <4>1, <4>2
      <3>2. QED
        BY <1>0, <1>3, <1>7, <2>1, <3>1 DEF Claim, Goto, TypeOK, ExecutorLabels
    <2>2. CASE steps[at[e]].status # "pending"
      BY <1>0, <1>2, <1>7, <2>2 DEF Claim, TypeOK
    <2>3. QED
      BY <2>1, <2>2
  <1>8. CASE Begin(e)
    <2>1. job' \in JobRow
      <3>1. mine[e] \in JobRow /\ at[e] \in 0..NSteps
        BY <1>0 DEF TypeOK
      <3>2. QED
        BY <1>8, <3>1, JobRowCurrent DEF Begin, Statuses, Live
    <2>2. QED
      BY <1>0, <1>3, <1>8, <2>1, NoRows DEF Begin, Keep, Goto, TypeOK, ExecutorLabels
  <1>9. CASE Work(e)
    BY <1>0, <1>3, <1>9 DEF Work, Goto, TypeOK, ExecutorLabels
  <1>10. CASE ReadDone(e)
    <2>1. pc[e] = "finish" /\ UNCHANGED <<ledgerVars, rows, at, asked, copy, server_, ops>>
      BY <1>10 DEF ReadDone
    <2>2. CASE job.status = "cancelled"
      <3>1. pc' = [pc EXCEPT ![e] = "fail"] /\ UNCHANGED mine
        BY <1>10, <2>2 DEF ReadDone, Goto
      <3>2. QED
        BY <1>0, <1>3, <2>1, <3>1 DEF TypeOK, ExecutorLabels
    <2>3. CASE job.status # "cancelled"
      <3>1. pc' = [pc EXCEPT ![e] = "finishLoad"] /\ mine' = [mine EXCEPT ![e] = job]
        BY <1>10, <2>3 DEF ReadDone, Goto, Keep
      <3>2. mine' \in [Actors -> JobRow] /\ \A b \in Actors \ {e} : mine'[b] = mine[b]
        BY <1>0, <2>1, <3>1 DEF TypeOK
      <3>3. QED
        BY <1>0, <1>3, <2>1, <3>1, <3>2 DEF TypeOK, ExecutorLabels
    <2>4. QED
      BY <2>2, <2>3
  <1>11. CASE FinishLoad(e) \/ FailLoad(e)
    <2>1. /\ \E l \in {"finishSave", "failSave"} : pc' = [pc EXCEPT ![e] = l]
          /\ pc[e] \in {"finishLoad", "failLoad"} /\ copy' = [copy EXCEPT ![e] = steps]
          /\ UNCHANGED <<ledgerVars, rows, at, asked, mine, server_, ops>>
      BY <1>11 DEF FinishLoad, FailLoad, LoadSteps, Goto
    <2>2. /\ copy' \in [Actors -> [Steps -> StepRow]]
          /\ \A b \in Actors \ {e} : copy'[b] = copy[b]
      BY <1>0, <2>1 DEF TypeOK
    <2>3. QED
      BY <1>0, <1>3, <2>1, <2>2 DEF TypeOK, ExecutorLabels
  <1>12. CASE FinishSave(e)
    <2> DEFINE next == Finish(copy[e], at[e])
    <2>1. next \in [Steps -> StepRow] /\ mine[e] \in JobRow
      BY <1>0, <1>12, FinishSteps DEF FinishSave, TypeOK
    <2>2. /\ steps' = next /\ copy' = [copy EXCEPT ![e] = next] /\ pc[e] = "finishSave"
          /\ pc' = [pc EXCEPT ![e] = IF StatusAfter(next) = "done" /\ mine[e].hold # None
                                     THEN "settle" ELSE "saveProgress"]
          /\ UNCHANGED <<ledgerVars, job, at, asked, server_, ops>>
      BY <1>12 DEF FinishSave, Goto
    <2>3. PICK video \in Artefacts(at[e]) :
              mine' = [mine EXCEPT ![e] = [mine[e] EXCEPT !.status = StatusAfter(next),
                                                          !.current = NextPending(next),
                                                          !.video = mine[e].video \/ video]]
      BY <1>12 DEF FinishSave, Keep
    <2> HIDE DEF next
    <2> DEFINE row == [mine[e] EXCEPT !.status = StatusAfter(next),
                                      !.current = NextPending(next),
                                      !.video = mine[e].video \/ video]
    <2>4. row \in JobRow /\ row.hold = mine[e].hold
      <3>1. StatusAfter(next) \in {"absent"} \cup Statuses /\ NextPending(next) \in 0..NSteps
        BY StatusAfterIs, NextPendingIs DEF Statuses, Live, Final
      <3>2. (mine[e].video \/ video) \in BOOLEAN
        OBVIOUS
      <3>3. row \in JobRow
        BY <2>1, <3>1, <3>2, JobRowVideo DEF row
      <3>4. row.hold = mine[e].hold
        BY <2>1 DEF JobRow
      <3>5. QED
        BY <3>3, <3>4
    <2> HIDE DEF row
    <2>5. /\ mine' = [mine EXCEPT ![e] = row] /\ mine' \in [Actors -> JobRow] /\ mine'[e] = row
          /\ copy' \in [Actors -> [Steps -> StepRow]]
      BY <1>0, <2>1, <2>2, <2>3, <2>4 DEF row, TypeOK
    <2>6. pc'[e] = "settle" => mine'[e].hold \in Holds
      BY <1>0, <2>1, <2>2, <2>4, <2>5 DEF JobRow, Places
    <2>7. /\ available' \in Nat /\ reserved' \in Int
          /\ status' \in [Holds -> HoldStatus] /\ size' \in [Holds -> Nat]
          /\ job' \in JobRow
      BY <1>0, <2>2 DEF TypeOK
    <2>8. CASE StatusAfter(next) = "done" /\ mine[e].hold # None
      <3>1. pc' = [pc EXCEPT ![e] = "settle"] /\ pc'[e] = "settle"
        BY <1>0, <2>2, <2>8 DEF Places
      <3>2. QED
        BY <1>0, <1>3, <2>1, <2>2, <2>5, <2>6, <2>7, <3>1 DEF ExecutorLabels
    <2>9. CASE ~(StatusAfter(next) = "done" /\ mine[e].hold # None)
      <3>1. pc' = [pc EXCEPT ![e] = "saveProgress"]
        BY <2>2, <2>9
      <3>2. QED
        BY <1>0, <1>3, <2>1, <2>2, <2>5, <2>7, <3>1 DEF ExecutorLabels
    <2>10. QED
      BY <2>8, <2>9
  <1>13. CASE SettleAll(e) \/ SettleDraft(e)
    <2>1. pc[e] \in {"settle", "settleDraft"} /\ mine[e].hold \in Holds
      BY <1>13 DEF SettleAll, SettleDraft, TypeInv, CallsNamed
    <2>2. PICK outcome \in Outcomes, actual \in Costs :
              Calls(SettleHold(mine[e].hold, actual), outcome)
      BY <1>13 DEF SettleAll, SettleDraft
    <2>3. /\ available' \in Nat /\ reserved' \in Int
          /\ status' \in [Holds -> HoldStatus] /\ size' \in [Holds -> Nat]
      BY <1>0, <2>1, <2>2, CallTyped
    <2>4. \E l \in {"saveProgress", "saveDraft", "fail"} : pc' = [pc EXCEPT ![e] = l]
      BY <1>13 DEF SettleAll, SettleDraft, Goto
    <2>5. UNCHANGED <<rows, locals, server_, ops>>
      BY <1>13 DEF SettleAll, SettleDraft
    <2>6. QED
      BY <1>0, <1>3, <2>1, <2>3, <2>4, <2>5 DEF TypeOK, ExecutorLabels
  <1>14. CASE SaveProgress(e)
    <2>1. mine[e] \in JobRow /\ job' = mine[e] /\ pc[e] = "saveProgress"
          /\ UNCHANGED <<ledgerVars, steps, server_, ops>>
      BY <1>0, <1>14 DEF SaveProgress, TypeOK
    <2>2. \/ Over(e)
          \/ \E l \in {"pause", "draft"} : pc' = [pc EXCEPT ![e] = l] /\ UNCHANGED locals
      BY <1>14 DEF SaveProgress, Goto
    <2>3. CASE Over(e)
      BY <1>0, <1>2, <2>1, <2>3 DEF TypeOK
    <2>4. CASE \E l \in {"pause", "draft"} : pc' = [pc EXCEPT ![e] = l] /\ UNCHANGED locals
      BY <1>0, <1>3, <2>1, <2>4 DEF TypeOK, ExecutorLabels
    <2>5. QED
      BY <2>2, <2>3, <2>4
  <1>15. CASE Pause(e)
    <2>1. /\ job' \in JobRow /\ pc[e] = "pause" /\ UNCHANGED <<ledgerVars, steps, server_, ops>>
      <3> DEFINE waits == mine[e].status \notin {"done", "failed"} /\ NextPending(copy[e]) # 0
      <3>1. mine[e] \in JobRow /\ waits \in BOOLEAN
        BY <1>0 DEF TypeOK
      <3>2. job' = [mine[e] EXCEPT !.waiting = waits] /\ pc[e] = "pause"
            /\ UNCHANGED <<ledgerVars, steps, server_, ops>>
        BY <1>15 DEF Pause
      <3> HIDE DEF waits
      <3>3. QED
        BY <3>1, <3>2, JobRowWaiting
    <2>2. Over(e) \/ (pc' = [pc EXCEPT ![e] = "draft"] /\ UNCHANGED locals)
      BY <1>15 DEF Pause, Goto
    <2>3. CASE Over(e)
      BY <1>0, <1>2, <2>1, <2>3 DEF TypeOK
    <2>4. CASE pc' = [pc EXCEPT ![e] = "draft"] /\ UNCHANGED locals
      BY <1>0, <1>3, <2>1, <2>4 DEF TypeOK, ExecutorLabels
    <2>5. QED
      BY <2>2, <2>3, <2>4
  <1>16. CASE ReadDraft(e)
    <2>1. job.hold # None => job.hold \in Holds
      BY <1>0 DEF TypeOK, JobRow
    <2>2. CASE job.hold = None
      BY <1>5, <1>16, <2>2 DEF ReadDraft, ReadJob, ExecutorLabels
    <2>3. CASE job.hold # None
      BY <1>5, <1>16, <2>1, <2>3 DEF ReadDraft, ReadJob, ExecutorLabels
    <2>4. QED
      BY <2>2, <2>3
  <1>17. CASE SaveDraft(e)
    <2>1. job' \in JobRow
      <3>1. mine[e] \in JobRow
        BY <1>0 DEF TypeOK
      <3>2. QED
        BY <1>17, <3>1, JobRowDraft DEF SaveDraft
    <2>2. QED
      BY <1>0, <1>2, <1>17, <2>1 DEF SaveDraft, TypeOK
  <1>18. CASE ReadFail(e)
    BY <1>5, <1>18 DEF ReadFail, ReadJob, ExecutorLabels
  <1>19. CASE FailSave(e)
    <2> DEFINE next == Fail(copy[e], at[e])
    <2>1. next \in [Steps -> StepRow] /\ mine[e] \in JobRow
      BY <1>0, <1>19, FailSteps DEF FailSave, TypeOK
    <2>2. /\ steps' = next /\ pc[e] = "failSave"
          /\ UNCHANGED <<ledgerVars, job, at, asked, copy, server_, ops>>
      BY <1>19 DEF FailSave
    <2>3. \/ /\ pc' = [pc EXCEPT ![e] = "saveFailed"]
             /\ mine' = [mine EXCEPT ![e] = [mine[e] EXCEPT !.status = "failed"]]
          \/ /\ pc' = [pc EXCEPT ![e] = "saveRetry"]
             /\ mine' = [mine EXCEPT ![e] = [mine[e] EXCEPT !.status = StatusAfter(next),
                                                            !.current = NextPending(next)]]
      BY <1>19 DEF FailSave, Goto, Keep
    <2> HIDE DEF next
    <2>4. /\ [mine[e] EXCEPT !.status = "failed"] \in JobRow
          /\ [mine[e] EXCEPT !.status = StatusAfter(next), !.current = NextPending(next)] \in JobRow
      <3>1. StatusAfter(next) \in {"absent"} \cup Statuses /\ NextPending(next) \in 0..NSteps
            /\ "failed" \in {"absent"} \cup Statuses
        BY StatusAfterIs, NextPendingIs DEF Statuses, Live, Final
      <3>2. QED
        BY <2>1, <3>1, JobRowStatus, JobRowCurrent
    <2>5. PICK row \in JobRow, l \in {"saveFailed", "saveRetry"} :
              mine' = [mine EXCEPT ![e] = row] /\ pc' = [pc EXCEPT ![e] = l]
      BY <2>3, <2>4
    <2>6. mine' \in [Actors -> JobRow] /\ \A b \in Actors \ {e} : mine'[b] = mine[b]
      BY <1>0, <2>5 DEF TypeOK
    <2>7. QED
      BY <1>0, <1>3, <2>1, <2>2, <2>5, <2>6 DEF TypeOK, ExecutorLabels
  <1>20. CASE SaveRetry(e)
    BY <1>0, <1>2, <1>20 DEF SaveRetry, TypeOK
  <1>21. CASE SaveFailed(e)
    BY <1>0, <1>3, <1>21 DEF SaveFailed, Goto, TypeOK, ExecutorLabels
  <1>22. CASE RefundMine(e)
    <2>1. /\ available' \in Nat /\ reserved' \in Int
          /\ status' \in [Holds -> HoldStatus] /\ size' \in [Holds -> Nat]
      <3>1. CASE mine[e].hold = None
        BY <1>0, <1>22, <3>1 DEF RefundMine, TypeOK
      <3>2. CASE mine[e].hold # None
        <4>1. mine[e].hold \in Holds
          BY <1>0, <3>2 DEF TypeOK, JobRow
        <4>2. PICK outcome \in Outcomes : Calls(RefundHold(mine[e].hold), outcome)
          BY <1>22, <3>2 DEF RefundMine
        <4>3. 0 \in Nat
          OBVIOUS
        <4>4. QED
          BY <1>0, <4>1, <4>2, <4>3, CallTyped
      <3>3. QED
        BY <3>1, <3>2
    <2>2. QED
      BY <1>0, <1>2, <1>22, <2>1 DEF RefundMine, TypeOK
  <1>23. QED
    BY <1>4, <1>6, <1>7, <1>8, <1>9, <1>10, <1>11, <1>12, <1>13, <1>14, <1>15, <1>16, <1>17,
       <1>18, <1>19, <1>20, <1>21, <1>22 DEF ExecutorStep

\* and so does a step of a request.
LEMMA UserTyped ==
    ASSUME TypeInv, NEW u \in Users, UserStep(u)
    PROVE  TypeInv' /\ OthersRest(u)
  <1>0. /\ TypeOK /\ Places /\ u \in Actors /\ u \notin Executors
        /\ pc[u] # "idle" => server = "up" /\ Fits(pc[u], asked[u]) /\ asked[u] # None
        /\ pc[u] = "idle" => asked[u] = None
    BY DEF TypeInv, AloneInv, Places, Actors
  <1>1. ASSUME Over(u), pc[u] # "idle", job' \in JobRow, steps' \in [Steps -> StepRow],
               UNCHANGED <<server_, ops>>,
               /\ available' \in Nat /\ reserved' \in Int
               /\ status' \in [Holds -> HoldStatus] /\ size' \in [Holds -> Nat]
        PROVE  TypeInv' /\ OthersRest(u)
    <2>1. TypeOK' /\ OthersRest(u)
      BY <1>0, <1>1, OverEffect DEF TypeOK, server_
    <2>2. pc' = [pc EXCEPT ![u] = "idle"] /\ mine'[u] = NoJob /\ asked'[u] = None
      BY <1>0, <1>1, OverEffect
    <2>3. Fits("idle", None) /\ "idle" \in UserLabels
      BY DEF Fits, CreateLabels, RetryLabels, RenderLabels, UserLabels
    <2>4. QED
      BY <1>0, <1>1, <2>1, <2>2, <2>3, UserMoves
  <1>2. ASSUME NEW l \in UserLabels \ {"idle"}, pc[u] # "idle", pc' = [pc EXCEPT ![u] = l],
               Fits(l, asked[u]),
               job' \in JobRow, steps' \in [Steps -> StepRow],
               UNCHANGED <<at, asked, server_, ops>>,
               /\ available' \in Nat /\ reserved' \in Int
               /\ status' \in [Holds -> HoldStatus] /\ size' \in [Holds -> Nat],
               mine' \in [Actors -> JobRow], copy' \in [Actors -> [Steps -> StepRow]],
               \A b \in Actors \ {u} : mine'[b] = mine[b] /\ copy'[b] = copy[b]
        PROVE  TypeInv' /\ OthersRest(u)
    <2>1. TypeOK'
      BY <1>0, <1>2 DEF TypeOK, server_
    <2>2. OthersRest(u)
      BY <1>0, <1>2 DEF OthersRest, Places, server_
    <2>3. asked'[u] = asked[u]
      BY <1>2
    <2>4. QED
      BY <1>0, <1>2, <2>1, <2>2, <2>3, UserMoves
  <1>3. ASSUME NEW op \in Ops, NEW l \in UserLabels \ {"idle"}, Request(u, op), Fits(l, op),
               NEW row \in JobRow, mine' = [mine EXCEPT ![u] = row],
               pc' = [pc EXCEPT ![u] = l], job' = job
        PROVE  TypeInv' /\ OthersRest(u)
    <2>1. /\ server = "up" /\ ops' = ops + 1 /\ ops < MaxOps /\ pc[u] = "idle" /\ Free
          /\ op \in Overlapping \/ \A a \in Actors : pc[a] = "idle"
          /\ asked' = [asked EXCEPT ![u] = op]
          /\ UNCHANGED <<ledgerVars, rows, at, copy, server_>>
      BY <1>3 DEF Request, Quiet
    <2>2. TypeOK'
      <3>1. /\ mine' \in [Actors -> JobRow] /\ asked' \in [Users -> Ops \cup {None}]
            /\ ops' \in 0..MaxOps
        BY <1>0, <1>3, <2>1 DEF TypeOK
      <3>2. QED
        BY <1>0, <2>1, <3>1 DEF TypeOK, server_, ledgerVars, rows
    <2>3. OthersRest(u)
      BY <1>0, <1>3, <2>1 DEF OthersRest, Places, TypeOK, server_
    <2>4. asked'[u] = op /\ asked'[u] # None
      BY <1>0, <1>3, <2>1 DEF TypeOK
    <2>5. QED
      BY <1>0, <1>3, <2>1, <2>2, <2>3, <2>4, UserMoves
  <1>4. ASSUME NEW from, NEW l \in UserLabels \ {"idle"}, Freeze(u, from, l), from # "idle",
               Fits(l, asked[u])
        PROVE  TypeInv' /\ OthersRest(u)
    <2>1. pc[u] # "idle" /\ UNCHANGED <<rows, server_, ops>>
      BY <1>4 DEF Freeze
    <2>2. ASSUME NEW h \in Holds, NEW price \in Amounts, Reserve(h, price),
                 mine' = [mine EXCEPT ![u] = [mine[u] EXCEPT !.hold = h]],
                 Goto(u, l), UNCHANGED <<at, asked, copy>>
          PROVE  TypeInv' /\ OthersRest(u)
      <3>1. /\ available' \in Nat /\ reserved' \in Int
            /\ status' \in [Holds -> HoldStatus] /\ size' \in [Holds -> Nat]
        BY <1>0, <2>2 DEF TypeOK, Reserve, HoldStatus
      <3>2. mine[u] \in JobRow /\ [mine[u] EXCEPT !.hold = h] \in JobRow
        BY <1>0, <2>2, JobRowHold DEF TypeOK
      <3>3. mine' \in [Actors -> JobRow] /\ \A b \in Actors \ {u} : mine'[b] = mine[b]
        BY <1>0, <2>2, <3>2 DEF TypeOK
      <3>4. QED
        BY <1>0, <1>2, <1>4, <2>1, <2>2, <3>1, <3>3 DEF TypeOK, Goto, rows
    <2>3. CASE Over(u) /\ UNCHANGED ledgerVars
      BY <1>0, <1>1, <2>1, <2>3 DEF TypeOK, rows, ledgerVars
    <2>4. QED
      BY <1>4, <2>2, <2>3 DEF Freeze
  <1> USE DEF ledgerVars, rows, locals
  <1>5. ASSUME NEW from, NEW l \in UserLabels \ {"idle"}, LoadSteps(u, from, l), from # "idle",
               Fits(l, asked[u])
        PROVE  TypeInv' /\ OthersRest(u)
    <2>1. /\ pc' = [pc EXCEPT ![u] = l] /\ copy' = [copy EXCEPT ![u] = steps] /\ pc[u] # "idle"
          /\ UNCHANGED <<ledgerVars, rows, at, asked, mine, server_, ops>>
      BY <1>5 DEF LoadSteps, Goto
    <2>2. /\ copy' \in [Actors -> [Steps -> StepRow]]
          /\ \A b \in Actors \ {u} : copy'[b] = copy[b]
      BY <1>0, <2>1 DEF TypeOK
    <2>3. QED
      BY <1>0, <1>2, <1>5, <2>1, <2>2 DEF TypeOK
  <1> USE DEF Fits, UserLabels, CreateLabels, RetryLabels, RenderLabels
  <1>6. CASE CallCreate(u)
    <2>1. PICK mode \in Modes :
              mine' = [mine EXCEPT ![u] =
                  [NoJob EXCEPT !.status = "pending", !.manual = mode.manual,
                                !.waiting = mode.manual, !.draftMode = mode.draftMode,
                                !.video = mode.video]]
      BY <1>6 DEF CallCreate, Keep
    <2>2. mode.manual \in BOOLEAN /\ mode.draftMode \in BOOLEAN /\ mode.video \in BOOLEAN
      OBVIOUS
    <2>3. PICK row \in JobRow : mine' = [mine EXCEPT ![u] = row]
      BY <2>1, <2>2, NewJobRow
    <2>4. /\ Request(u, "create") /\ "create" \in Ops /\ job' = job
          /\ pc' = [pc EXCEPT ![u] = "createFreeze"]
      BY <1>6 DEF CallCreate, Request, Goto
    <2>5. QED
      BY <1>3, <2>3, <2>4
  <1>7. CASE CreateFreeze(u)
    BY <1>0, <1>4, <1>7 DEF CreateFreeze, Freeze
  <1>8. CASE CreateJob(u)
    <2>1. /\ pc[u] = "createJob" /\ job' \in JobRow
          /\ \E l \in {"createSteps", "refund"} : pc' = [pc EXCEPT ![u] = l]
          /\ UNCHANGED <<ledgerVars, steps, locals, server_, ops>>
      BY <1>0, <1>8 DEF CreateJob, Goto, TypeOK
    <2>2. QED
      BY <1>0, <1>2, <2>1 DEF TypeOK
  <1>9. CASE CreateSteps(u)
    BY <1>0, <1>1, <1>9, NoRows DEF CreateSteps, TypeOK
  <1>10. ASSUME NEW op \in {"cancel", "advance", "retry", "render"},
                NEW l \in UserLabels \ {"idle"}, Fits(l, op),
                Request(u, op), Keep(u, job), Goto(u, l)
         PROVE  TypeInv' /\ OthersRest(u)
    <2>1. op \in Ops /\ job' = job /\ job \in JobRow
      BY <1>0, <1>10 DEF Request, TypeOK
    <2>2. mine' = [mine EXCEPT ![u] = job] /\ pc' = [pc EXCEPT ![u] = l]
      BY <1>10 DEF Keep, Goto
    <2>3. QED
      BY <1>3, <1>10, <2>1, <2>2
  <1>11. CASE CallCancel(u)
    BY <1>10, <1>11 DEF CallCancel
  <1>12. CASE Cancel(u)
    <2>1. CASE job.status \in Live
      <3>1. job' = [job EXCEPT !.status = "cancelled"] /\ job \in JobRow
        BY <1>0, <1>12, <2>1 DEF Cancel, TypeOK
      <3>2. "cancelled" \in {"absent"} \cup Statuses
        BY DEF Statuses, Final
      <3>3. job' \in JobRow
        BY <3>1, <3>2, JobRowStatus
      <3>4. /\ pc[u] = "cancel" /\ pc' = [pc EXCEPT ![u] = "refund"]
            /\ UNCHANGED <<ledgerVars, steps, locals, server_, ops>>
        BY <1>12, <2>1 DEF Cancel, Goto
      <3>5. QED
        BY <1>0, <1>2, <3>3, <3>4 DEF TypeOK
    <2>2. CASE job.status \notin Live
      BY <1>0, <1>1, <1>12, <2>2 DEF Cancel, TypeOK
    <2>3. QED
      BY <2>1, <2>2
  <1>13. CASE CallAdvance(u)
    BY <1>10, <1>13 DEF CallAdvance
  <1>14. CASE Advance(u)
    <2>1. job' \in JobRow
      BY <1>0, <1>14, JobRowWaiting DEF Advance, TypeOK
    <2>2. QED
      BY <1>0, <1>1, <1>14, <2>1 DEF Advance, TypeOK
  <1>15. CASE CallRetry(u)
    BY <1>10, <1>15 DEF CallRetry
  <1>16. CASE RetryLoad(u)
    BY <1>0, <1>5, <1>16 DEF RetryLoad, LoadSteps
  <1>17. CASE RetrySave(u)
    <2>1. copy[u] \in [Steps -> StepRow] /\ Fresh \in StepRow
      BY <1>0 DEF TypeOK, Fresh, StepRow
    <2>2. \A s \in Steps : [copy[u][s] EXCEPT !.retries = 0] \in StepRow
      BY <2>1 DEF StepRow
    <2>3. steps' \in [Steps -> StepRow]
      BY <1>17, <2>1, <2>2 DEF RetrySave
    <2>4. /\ pc[u] = "retrySave" /\ pc' = [pc EXCEPT ![u] = "retryFreeze"]
          /\ UNCHANGED <<ledgerVars, job, locals, server_, ops>>
      BY <1>17 DEF RetrySave, Goto
    <2>5. QED
      BY <1>0, <1>2, <2>3, <2>4 DEF TypeOK
  <1>18. CASE RetryFreeze(u)
    BY <1>0, <1>4, <1>18 DEF RetryFreeze, Freeze
  <1>19. CASE RetryJob(u)
    <2>1. mine[u] \in JobRow /\ "pending" \in {"absent"} \cup Statuses /\ 0 \in 0..NSteps
      BY <1>0 DEF TypeOK, Statuses, Live
    <2>2. job' = [mine[u] EXCEPT !.status = "pending", !.current = 0]
      BY <1>19 DEF RetryJob
    <2>3. job' \in JobRow
      BY <2>1, <2>2, JobRowCurrent
    <2>4. QED
      BY <1>0, <1>1, <1>19, <2>3 DEF RetryJob, TypeOK
  <1>20. CASE CallRender(u)
    BY <1>10, <1>20 DEF CallRender
  <1>21. CASE RenderFreeze(u)
    BY <1>0, <1>4, <1>21 DEF RenderFreeze, Freeze
  <1>22. CASE RenderLoad(u)
    BY <1>0, <1>5, <1>22 DEF RenderLoad, LoadSteps
  <1>23. CASE RenderSave(u)
    <2>1. copy[u] \in [Steps -> StepRow] /\ Fresh \in StepRow
      BY <1>0 DEF TypeOK, Fresh, StepRow
    <2>2. \A s \in Steps : [copy[u][s] EXCEPT !.retries = 0] \in StepRow
      BY <2>1 DEF StepRow
    <2>3. steps' \in [Steps -> StepRow]
      BY <1>23, <2>1, <2>2 DEF RenderSave
    <2>4. /\ pc[u] = "renderSave" /\ pc' = [pc EXCEPT ![u] = "renderJob"]
          /\ UNCHANGED <<ledgerVars, job, locals, server_, ops>>
      BY <1>23 DEF RenderSave, Goto
    <2>5. QED
      BY <1>0, <1>2, <2>3, <2>4 DEF TypeOK
  <1>24. CASE RenderJob(u)
    <2>1. job' \in JobRow
      BY <1>0, <1>24, JobRowRender DEF RenderJob, TypeOK
    <2>2. QED
      BY <1>0, <1>1, <1>24, <2>1 DEF RenderJob, TypeOK
  <1>25. CASE RefundMine(u)
    <2>1. /\ available' \in Nat /\ reserved' \in Int
          /\ status' \in [Holds -> HoldStatus] /\ size' \in [Holds -> Nat]
      <3>1. CASE mine[u].hold = None
        BY <1>0, <1>25, <3>1 DEF RefundMine, TypeOK
      <3>2. CASE mine[u].hold # None
        <4>1. mine[u].hold \in Holds
          BY <1>0, <3>2 DEF TypeOK, JobRow
        <4>2. PICK outcome \in Outcomes : Calls(RefundHold(mine[u].hold), outcome)
          BY <1>25, <3>2 DEF RefundMine
        <4>3. 0 \in Nat
          OBVIOUS
        <4>4. QED
          BY <1>0, <4>1, <4>2, <4>3, CallTyped
      <3>3. QED
        BY <3>1, <3>2
    <2>2. QED
      BY <1>0, <1>1, <1>25, <2>1 DEF RefundMine, TypeOK
  <1>26. QED
    BY <1>6, <1>7, <1>8, <1>9, <1>11, <1>12, <1>13, <1>14, <1>15, <1>16, <1>17, <1>18, <1>19,
       <1>20, <1>21, <1>22, <1>23, <1>24, <1>25 DEF UserStep

\* The initial state is typed,
LEMMA InitTyped == Init => TypeInv
  <1>1. SUFFICES ASSUME Init PROVE TypeInv
    OBVIOUS
  <1>2. TypeOK
    BY <1>1, NoRows DEF Init, TypeOK, HoldStatus
  <1>3. Places
    BY <1>1 DEF Init, Places, Fits, ExecutorLabels, UserLabels, CreateLabels, RetryLabels,
       RenderLabels, Actors
  <1>4. CallsNamed /\ AloneInv
    BY <1>1 DEF Init, CallsNamed, AloneInv, Actors
  <1>5. QED
    BY <1>2, <1>3, <1>4 DEF TypeInv

\* A crash loses what everybody knows; a start works on the job row.
LEMMA BootTyped ==
    ASSUME TypeInv, Crash \/ RecoverSave \/ RecoverRefund \/ Booted
    PROVE  TypeInv'
  <1>0. TypeOK /\ Places /\ CallsNamed /\ AloneInv
    BY DEF TypeInv
  <1> USE DEF ledgerVars, rows, locals
  <1>1. CASE Crash
    <2>1. TypeOK'
      BY <1>0, <1>1, NoRows DEF Crash, TypeOK
    <2>2. Places'
      BY <1>1 DEF Crash, Places, Fits, ExecutorLabels, UserLabels, CreateLabels, RetryLabels,
         RenderLabels, Actors
    <2>3. CallsNamed' /\ AloneInv'
      BY <1>1 DEF Crash, CallsNamed, AloneInv, Actors
    <2>4. QED
      BY <2>1, <2>2, <2>3 DEF TypeInv
  <1>2. CASE RecoverSave
    <2>1. job \in JobRow /\ "failed" \in {"absent"} \cup Statuses
      BY <1>0 DEF TypeOK, Statuses, Final
    <2>2. job' \in JobRow /\ job'.hold = job.hold
      BY <1>2, <2>1, JobRowStatus DEF RecoverSave
    <2>3. TypeOK'
      BY <1>0, <1>2, <2>2 DEF RecoverSave, TypeOK
    <2>4. Places'
      BY <1>0, <1>2 DEF RecoverSave, Places
    <2>5. server' = "refunding" => job'.hold \in Holds
      BY <1>2, <2>2 DEF RecoverSave, JobRow
    <2>6. CallsNamed' /\ AloneInv'
      BY <1>0, <1>2, <2>5 DEF RecoverSave, CallsNamed, AloneInv
    <2>7. QED
      BY <2>3, <2>4, <2>6 DEF TypeInv
  <1>3. CASE RecoverRefund
    <2>1. job.hold \in Holds /\ 0 \in Nat
      BY <1>0, <1>3 DEF RecoverRefund, CallsNamed
    <2>2. PICK outcome \in Outcomes : Calls(RefundHold(job.hold), outcome)
      BY <1>3 DEF RecoverRefund
    <2>3. /\ available' \in Nat /\ reserved' \in Int
          /\ status' \in [Holds -> HoldStatus] /\ size' \in [Holds -> Nat]
      BY <1>0, <2>1, <2>2, CallTyped
    <2>4. TypeOK'
      BY <1>0, <1>3, <2>3 DEF RecoverRefund, TypeOK
    <2>5. Places' /\ CallsNamed' /\ AloneInv'
      BY <1>0, <1>3 DEF RecoverRefund, Places, CallsNamed, AloneInv
    <2>6. QED
      BY <2>4, <2>5 DEF TypeInv
  <1>4. CASE Booted
    <2>1. TypeOK'
      BY <1>0, <1>4 DEF Booted, TypeOK
    <2>2. Places' /\ CallsNamed' /\ AloneInv'
      BY <1>0, <1>4 DEF Booted, Places, CallsNamed, AloneInv
    <2>3. QED
      BY <2>1, <2>2 DEF TypeInv
  <1>5. QED
    BY <1>1, <1>2, <1>3, <1>4

\* a step that changes nothing keeps that,
LEMMA StutterTyped == ASSUME TypeInv, UNCHANGED vars PROVE TypeInv'
  BY DEF TypeInv, TypeOK, Places, CallsNamed, AloneInv, vars, ledgerVars, rows, locals, server_

\* and so does every step.
LEMMA StepTyped == ASSUME TypeInv, [Next]_vars PROVE TypeInv'
  BY ExecutorTyped, UserTyped, BootTyped, StutterTyped DEF Next

\* Every variable of the workshop keeps its type, and a step is never repeated more
\* often than MAX_STEP_RETRIES allows, however many executors and requests race, whatever
\* the calls of the credit service do, and across crashes (markStepFailed).
THEOREM TypeCorrect == Spec => []TypeOK
  <1>1. Init => TypeInv
    BY InitTyped
  <1>2. TypeInv /\ [Next]_vars => TypeInv'
    BY StepTyped
  <1>3. TypeInv => TypeOK
    BY DEF TypeInv
  <1>4. QED
    BY <1>1, <1>2, <1>3, PTL DEF Spec

-----------------------------------------------------------------------------
(* What a job that is done has cost, and whether it is whole *)

AllDone(st) == \A s \in Steps : st[s].status = "done"
AllAbsent(st) == \A s \in Steps : st[s].status = "absent"

\* What a row promises of its hold.
RowPaid(row) ==
    /\ row.status = "done" => row.hold \in Holds /\ status[row.hold] = "settled" /\ ~row.draftMode
    /\ row.status # "absent" /\ ~row.draftMode => row.hold \in Holds
    /\ row.status \in Live /\ row.hold \in Holds => status[row.hold] \in {"open", "settled"}

JobPaid ==
    /\ RowPaid(job)
    /\ job.status = "absent" => job = NoJob /\ AllAbsent(steps)
    /\ job.draftMode => \A s \in Editing : steps[s].status # "done"
    /\ server = "refunding" => job.status = "failed"

\* Where an executor has read the job, and where it is about to save it.
Holding == {"claim", "begin", "finishLoad", "finishSave", "settle", "saveProgress",
            "settleDraft", "saveDraft", "failLoad", "failSave", "saveRetry", "saveFailed"}

ExecutorPaid(e) ==
    /\ pc[e] # "idle" => job.status # "absent" /\ (job.draftMode => at[e] \notin Editing)
    /\ pc[e] \notin {"idle", "pause", "refund"} => job.status \in Live
    /\ pc[e] \in Holding => mine[e].hold = job.hold /\ mine[e].draftMode = job.draftMode
    /\ pc[e] \in {"finishSave", "failSave"} => copy[e] = steps
    /\ pc[e] = "settle" => mine[e].status = "done" /\ AllDone(steps)
    /\ pc[e] = "saveProgress" =>
         /\ mine[e].status # "absent"
         /\ mine[e].status = "done" => RowPaid(mine[e]) /\ AllDone(steps)
    /\ pc[e] = "pause" => mine[e] = job
    /\ pc[e] \in {"saveProgress", "pause"} => mine[e].status # "cancelled"
    /\ pc[e] \in {"draft", "settleDraft", "saveDraft"} => job.draftMode
    /\ pc[e] \in {"settleDraft", "saveDraft"} => mine[e].status \in Live
    /\ pc[e] = "saveRetry" => mine[e].status \in {"processing", "failed"}
    /\ pc[e] = "saveFailed" => mine[e].status = "failed"
    /\ pc[e] = "refund" => job.status = "failed"

UserPaid(u) ==
    /\ pc[u] \in {"createFreeze", "createJob"} =>
          mine[u].status = "pending" /\ job.status = "absent"
    /\ pc[u] = "createSteps" => AllAbsent(steps) /\ job.status = "pending"
    /\ pc[u] = "refund" => job.status = "cancelled"
    /\ pc[u] = "advance" => mine[u] = job /\ job.status \in Live
    /\ pc[u] \in RetryLabels => job.status = "failed" /\ mine[u].draftMode = job.draftMode
    /\ pc[u] = "retrySave" => copy[u] = steps
    /\ pc[u] \in RenderLabels => job.status # "absent"
    /\ pc[u] \in {"createJob", "retryJob", "renderLoad", "renderSave", "renderJob"} =>
          mine[u].hold \in Holds /\ status[mine[u].hold] = "open"

\* The steps of a job that is done are done, unless a render is about to save it.
DonePaid ==
    crashes = 0 /\ job.status = "done" => AllDone(steps) \/ \E u \in Users : pc[u] = "renderJob"

PaidInv ==
    /\ JobPaid /\ DonePaid
    /\ \A e \in Executors : ExecutorPaid(e)
    /\ \A u \in Users : UserPaid(u)

\* One executor, and no request that overlaps with anything.
Alone == Overlapping = {} /\ \A e, f \in Executors : e = f

\* Whoever is at work is alone,
LEMMA OthersIdle ==
    ASSUME TypeInv, Alone, NEW a \in Actors, pc[a] # "idle"
    PROVE  \A b \in Actors \ {a} : pc[b] = "idle"
  BY DEF TypeInv, Places, AloneInv, Alone, Actors

\* so that only what it knows counts.
LEMMA PaidFrame ==
    ASSUME PaidInv, NEW a \in Actors, \A b \in Actors \ {a} : pc'[b] = "idle",
           JobPaid', DonePaid',
           a \in Executors => ExecutorPaid(a)', a \in Users => UserPaid(a)'
    PROVE  PaidInv'
  <1>1. ASSUME NEW e \in Executors PROVE ExecutorPaid(e)'
    BY <1>1 DEF ExecutorPaid, Holding, Actors
  <1>2. ASSUME NEW u \in Users PROVE UserPaid(u)'
    BY <1>2 DEF UserPaid, RetryLabels, RenderLabels, Actors
  <1>3. QED
    BY <1>1, <1>2 DEF PaidInv

\* A call that settles or refunds the hold of a live job, as seen by its row.
LEMMA PaidCall ==
    ASSUME TypeInv, NEW h \in Holds, NEW c \in Nat, NEW outcome \in Outcomes,
           status[h] \in {"open", "settled"}, Calls(SettleHold(h, c), outcome)
    PROVE  /\ status'[h] \in {"open", "settled"}
           /\ outcome = "ok" => status'[h] = "settled"
           /\ \A g \in Holds \ {h} : status'[g] = status[g]
  <1>1. status \in [Holds -> HoldStatus]
    BY DEF TypeInv, TypeOK
  <1>2. CASE status[h] = "open"
    BY <1>1, <1>2 DEF Calls, SettleHold, Settle, ledgerVars
  <1>3. CASE status[h] = "settled"
    BY <1>1, <1>3 DEF Calls, SettleHold, ledgerVars
  <1>4. QED
    BY <1>2, <1>3

\* What the executor does alone keeps what is paid.
LEMMA PaidExecutor ==
    ASSUME TypeInv, TypeInv', Alone, PaidInv, NEW e \in Executors, ExecutorStep(e), OthersRest(e)
    PROVE  PaidInv'
  <1>0. /\ TypeOK /\ TypeOK' /\ Places /\ e \in Actors
        /\ JobPaid /\ DonePaid /\ ExecutorPaid(e)
        /\ pc[e] # "idle" => server = "up" /\ at[e] \in Steps
        /\ mine[e] \in JobRow /\ job \in JobRow /\ job' \in JobRow
        /\ copy[e] \in [Steps -> StepRow] /\ steps \in [Steps -> StepRow]
    BY DEF TypeInv, AloneInv, Places, Actors, PaidInv, TypeOK
  <1>1. \A b \in Actors \ {e} : pc[b] = "idle"
    <2>1. CASE pc[e] = "idle"
      <3>1. Free
        BY <2>1 DEF ExecutorStep, Pick, Start, ReadJob, Claim, Begin, Work, ReadDone, FinishLoad,
           LoadSteps, FinishSave, SettleAll, SaveProgress, Pause, ReadDraft, SettleDraft,
           SaveDraft, ReadFail, FailLoad, FailSave, SaveRetry, SaveFailed, RefundMine
      <3>2. QED
        BY <1>0, <3>1 DEF Free, Alone, Actors, Places
    <2>2. CASE pc[e] # "idle"
      BY <1>0, <2>2, OthersIdle
    <2>3. QED
      BY <2>1, <2>2
  <1>2. \A b \in Actors \ {e} : pc'[b] = "idle"
    BY <1>1 DEF OthersRest
  <1>3. crashes = 0 /\ job.status = "done" => AllDone(steps)
    BY <1>0, <1>1 DEF DonePaid, Actors
  <1>4. SUFFICES JobPaid' /\ DonePaid' /\ ExecutorPaid(e)'
    BY <1>0, <1>2, PaidFrame
  <1>5. server' = server /\ crashes' = crashes
    BY DEF OthersRest
  <1>6. ASSUME UNCHANGED <<rows, status>> PROVE JobPaid' /\ DonePaid'
    BY <1>0, <1>3, <1>5, <1>6 DEF JobPaid, DonePaid, RowPaid, rows, AllDone, AllAbsent
  <1>7. ASSUME Over(e) PROVE ExecutorPaid(e)'
    <2>1. pc'[e] = "idle"
      BY <1>0, <1>7, OverEffect DEF Places
    <2>2. QED
      BY <2>1 DEF ExecutorPaid, Holding
  <1>8. ASSUME NEW l, pc' = [pc EXCEPT ![e] = l] PROVE pc'[e] = l
    BY <1>0, <1>8 DEF Places
  <1>9. ASSUME NEW r, mine' = [mine EXCEPT ![e] = r] PROVE mine'[e] = r
    BY <1>0, <1>9 DEF TypeOK
  <1>10. \A r \in {"failed", "running", "pending"} : r # "done"
    OBVIOUS
  <1> USE DEF rows, locals, ledgerVars
  <1>11. CASE Pick(e)
    <2>1. /\ NextPending(steps) \in Steps /\ pc' = [pc EXCEPT ![e] = "start"]
          /\ at'[e] = NextPending(steps) /\ UNCHANGED <<ledgerVars, rows>>
          /\ job.status \in Live /\ (job.draftMode => NextPending(steps) \notin Editing)
      BY <1>0, <1>11, NextPendingIs DEF Pick, Goto, TypeOK
    <2>2. pc'[e] = "start"
      BY <1>8, <2>1
    <2>3. ExecutorPaid(e)'
      BY <2>1, <2>2 DEF ExecutorPaid, Holding, Live
    <2>4. QED
      BY <1>6, <2>1, <2>3
  <1>12. CASE Start(e) \/ ReadFail(e) \/ ReadDraft(e)
    <2>1. UNCHANGED <<rows, ledgerVars>> /\ pc[e] \in {"start", "fail", "draft"}
      BY <1>12 DEF Start, ReadFail, ReadDraft, ReadJob
    <2>2. CASE Over(e)
      BY <1>6, <1>7, <2>1, <2>2
    <2>3. CASE ~Over(e)
      <3>1. /\ UNCHANGED at /\ mine' = [mine EXCEPT ![e] = job]
            /\ \/ pc[e] = "start" /\ pc' = [pc EXCEPT ![e] = "claim"]
               \/ pc[e] = "fail" /\ pc' = [pc EXCEPT ![e] = "failLoad"]
               \/ pc[e] = "draft" /\ \E l \in {"saveDraft", "settleDraft"} :
                                        pc' = [pc EXCEPT ![e] = l]
        BY <1>12, <2>3 DEF Start, ReadFail, ReadDraft, ReadJob, Keep, Goto
      <3>2. mine'[e] = job
        BY <1>9, <3>1
      <3>3. \/ pc[e] = "start" /\ pc'[e] = "claim"
            \/ pc[e] = "fail" /\ pc'[e] = "failLoad"
            \/ pc[e] = "draft" /\ pc'[e] \in {"saveDraft", "settleDraft"}
        BY <1>8, <3>1
      <3>4. ExecutorPaid(e)'
        BY <1>0, <2>1, <3>1, <3>2, <3>3 DEF ExecutorPaid, Holding
      <3>5. QED
        BY <1>6, <2>1, <3>4
    <2>4. QED
      BY <2>2, <2>3
  <1>13. CASE Claim(e)
    <2>1. CASE steps[at[e]].status = "pending"
      <3>1. /\ pc[e] = "claim" /\ UNCHANGED <<ledgerVars, job, locals>>
            /\ steps' = [steps EXCEPT ![at[e]].status = "running"]
            /\ pc' = [pc EXCEPT ![e] = "begin"]
        BY <1>13, <2>1 DEF Claim, Goto
      <3>2. pc'[e] = "begin" /\ job.status \in Live
        BY <1>0, <1>8, <3>1 DEF ExecutorPaid
      <3>3. \A s \in Steps : steps'[s].status = "done" => steps[s].status = "done"
        BY <1>0, <3>1 DEF StepRow
      <3>4. JobPaid' /\ DonePaid'
        BY <1>0, <1>5, <3>1, <3>2, <3>3 DEF JobPaid, DonePaid, RowPaid, Live, Editing, Steps
      <3>5. ExecutorPaid(e)'
        BY <1>0, <3>1, <3>2 DEF ExecutorPaid, Holding
      <3>6. QED
        BY <3>4, <3>5
    <2>2. CASE steps[at[e]].status # "pending"
      BY <1>6, <1>7, <1>13, <2>2 DEF Claim
    <2>3. QED
      BY <2>1, <2>2
  <1>14. CASE Begin(e)
    <2>1. /\ pc[e] = "begin" /\ pc' = [pc EXCEPT ![e] = "work"]
          /\ job' = [mine[e] EXCEPT !.status = "processing", !.current = at[e]]
          /\ UNCHANGED <<ledgerVars, steps, at>>
      BY <1>14 DEF Begin, Goto
    <2>2. pc'[e] = "work" /\ mine[e].hold = job.hold /\ mine[e].draftMode = job.draftMode
      BY <1>0, <1>8, <2>1 DEF ExecutorPaid, Holding
    <2>3. "processing" \in {"absent"} \cup Statuses /\ at[e] \in 0..NSteps
      BY <1>0 DEF Statuses, Live, TypeOK
    <2>4. job'.status = "processing" /\ job'.hold = job.hold /\ job'.draftMode = job.draftMode
      BY <1>0, <2>1, <2>2 DEF JobRow
    <2>5. job.status \in Live
      BY <1>0, <2>1 DEF ExecutorPaid
    <2>6. JobPaid' /\ DonePaid'
      BY <1>0, <1>5, <2>1, <2>4, <2>5 DEF JobPaid, DonePaid, RowPaid, Live
    <2>7. ExecutorPaid(e)'
      BY <1>0, <2>1, <2>2, <2>4 DEF ExecutorPaid, Holding, Live
    <2>8. QED
      BY <2>6, <2>7
  <1>15. CASE Work(e)
    <2>1. /\ pc[e] = "work" /\ UNCHANGED <<rows, ledgerVars, locals>>
          /\ \E l \in {"finish", "fail"} : pc' = [pc EXCEPT ![e] = l]
      BY <1>15 DEF Work, Goto
    <2>2. pc'[e] \in {"finish", "fail"}
      BY <1>8, <2>1
    <2>3. ExecutorPaid(e)'
      BY <1>0, <2>1, <2>2 DEF ExecutorPaid, Holding
    <2>4. QED
      BY <1>6, <2>1, <2>3
  <1>16. CASE ReadDone(e)
    <2>1. /\ pc[e] = "finish" /\ job.status # "cancelled"
          /\ UNCHANGED <<ledgerVars, rows, at>>
      BY <1>0, <1>16 DEF ReadDone, ExecutorPaid, Live
    <2>2. mine' = [mine EXCEPT ![e] = job] /\ pc' = [pc EXCEPT ![e] = "finishLoad"]
      BY <1>16, <2>1 DEF ReadDone, Keep, Goto
    <2>3. mine'[e] = job /\ pc'[e] = "finishLoad"
      BY <1>8, <1>9, <2>2
    <2>4. ExecutorPaid(e)'
      BY <1>0, <2>1, <2>3 DEF ExecutorPaid, Holding
    <2>5. QED
      BY <1>6, <2>1, <2>4
  <1>17. CASE FinishLoad(e) \/ FailLoad(e)
    <2>1. /\ UNCHANGED <<ledgerVars, rows, at, mine>> /\ copy' = [copy EXCEPT ![e] = steps]
          /\ \/ pc[e] = "finishLoad" /\ pc' = [pc EXCEPT ![e] = "finishSave"]
             \/ pc[e] = "failLoad" /\ pc' = [pc EXCEPT ![e] = "failSave"]
      BY <1>17 DEF FinishLoad, FailLoad, LoadSteps, Goto
    <2>2. /\ copy'[e] = steps
          /\ \/ pc[e] = "finishLoad" /\ pc'[e] = "finishSave"
             \/ pc[e] = "failLoad" /\ pc'[e] = "failSave"
      BY <1>0, <1>8, <2>1 DEF TypeOK
    <2>3. ExecutorPaid(e)'
      BY <1>0, <2>1, <2>2 DEF ExecutorPaid, Holding
    <2>4. QED
      BY <1>6, <2>1, <2>3
  <1>18. CASE FinishSave(e)
    <2> DEFINE next == Finish(copy[e], at[e])
    <2>1. PICK video \in Artefacts(at[e]) :
              mine' = [mine EXCEPT ![e] = [mine[e] EXCEPT !.status = StatusAfter(next),
                                                          !.current = NextPending(next),
                                                          !.video = mine[e].video \/ video]]
      BY <1>18 DEF FinishSave, Keep
    <2>2. /\ steps' = next /\ pc[e] = "finishSave" /\ UNCHANGED <<ledgerVars, job, at>>
          /\ pc' = [pc EXCEPT ![e] = IF StatusAfter(next) = "done" /\ mine[e].hold # None
                                     THEN "settle" ELSE "saveProgress"]
      BY <1>18 DEF FinishSave, Goto
    <2>3. at[e] \in Steps /\ copy[e] = steps /\ job.status \in Live
          /\ mine[e].hold = job.hold /\ mine[e].draftMode = job.draftMode
          /\ (job.draftMode => at[e] \notin Editing)
      BY <1>0, <2>2 DEF ExecutorPaid, Holding
    <2>4. \A r \in Steps : r # at[e] => next[r] = steps[r]
      BY <1>0, <2>3, FinishSteps
    <2>5. StatusAfter(next) = "done" => AllDone(next)
      BY DEF StatusAfter, AllDone
    <2>6. StatusAfter(next) \in {"absent"} \cup Statuses /\ NextPending(next) \in 0..NSteps
          /\ StatusAfter(next) \notin {"absent", "cancelled"}
      BY StatusAfterIs, NextPendingIs DEF Statuses, Live, Final
    <2> HIDE DEF next
    <2>7. /\ mine'[e].status = StatusAfter(next) /\ mine'[e].hold = job.hold
          /\ mine'[e].draftMode = job.draftMode
      <3>1. (mine[e].video \/ video) \in BOOLEAN
        OBVIOUS
      <3>2. LET row == [mine[e] EXCEPT !.status = StatusAfter(next),
                                       !.current = NextPending(next),
                                       !.video = mine[e].video \/ video]
            IN  /\ row.status = StatusAfter(next) /\ row.hold = mine[e].hold
                /\ row.draftMode = mine[e].draftMode
        BY <1>0 DEF JobRow
      <3>3. QED
        BY <1>9, <2>1, <2>3, <3>2
    <2>8. ASSUME job.draftMode PROVE StatusAfter(next) # "done"
      <3>1. DraftStep + 1 \in Editing /\ DraftStep + 1 \in Steps
        BY DEF Editing, Steps
      <3>2. next[DraftStep + 1].status # "done"
        BY <1>0, <2>3, <2>4, <2>8, <3>1 DEF JobPaid
      <3>3. QED
        BY <2>5, <3>1, <3>2 DEF AllDone
    <2>9. StatusAfter(next) = "done" => job.hold # None
      BY <1>0, <2>3, <2>8 DEF JobPaid, RowPaid, Live
    <2>10. JobPaid' /\ DonePaid'
      <3>1. job.draftMode => \A s \in Editing : steps'[s].status # "done"
        BY <1>0, <2>2, <2>3, <2>4 DEF JobPaid, Editing, Steps
      <3>2. QED
        BY <1>0, <1>5, <2>2, <2>3, <3>1 DEF JobPaid, DonePaid, RowPaid, Live
    <2>11. CASE StatusAfter(next) = "done"
      <3>1. pc' = [pc EXCEPT ![e] = "settle"]
        BY <2>2, <2>3, <2>9, <2>11
      <3>2. pc'[e] = "settle"
        BY <1>8, <3>1
      <3>3. ExecutorPaid(e)'
        BY <1>0, <2>2, <2>3, <2>5, <2>7, <2>11, <3>2 DEF ExecutorPaid, Holding
      <3>4. QED
        BY <2>10, <3>3
    <2>12. CASE StatusAfter(next) # "done"
      <3>1. pc' = [pc EXCEPT ![e] = "saveProgress"]
        BY <2>2, <2>12
      <3>2. pc'[e] = "saveProgress"
        BY <1>8, <3>1
      <3>3. ExecutorPaid(e)'
        BY <1>0, <2>2, <2>3, <2>6, <2>7, <2>12, <3>2 DEF ExecutorPaid, Holding
      <3>4. QED
        BY <2>10, <3>3
    <2>13. QED
      BY <2>11, <2>12
  <1>19. CASE SettleAll(e) \/ SettleDraft(e)
    <2>1. /\ pc[e] \in {"settle", "settleDraft"} /\ UNCHANGED <<rows, locals>>
          /\ mine[e].hold \in Holds
      BY <1>19 DEF SettleAll, SettleDraft, TypeInv, CallsNamed
    <2>2. PICK outcome \in Outcomes, actual \in Costs :
              /\ Calls(SettleHold(mine[e].hold, actual), outcome)
              /\ pc' = [pc EXCEPT ![e] = IF outcome # "ok" THEN "fail"
                            ELSE IF pc[e] = "settle" THEN "saveProgress" ELSE "saveDraft"]
      BY <1>19 DEF SettleAll, SettleDraft, Goto
    <2>3. job.hold = mine[e].hold /\ job.status \in Live /\ status[job.hold] \in {"open", "settled"}
      BY <1>0, <2>1 DEF ExecutorPaid, Holding, JobPaid, RowPaid
    <2>4. /\ status'[job.hold] \in {"open", "settled"}
          /\ outcome = "ok" => status'[job.hold] = "settled"
      BY <2>1, <2>2, <2>3, PaidCall
    <2>5. JobPaid' /\ DonePaid'
      BY <1>0, <1>5, <2>1, <2>3, <2>4 DEF JobPaid, DonePaid, RowPaid, Live
    <2>6. pc'[e] = IF outcome # "ok" THEN "fail"
                   ELSE IF pc[e] = "settle" THEN "saveProgress" ELSE "saveDraft"
      BY <1>8, <2>2
    <2>7. pc[e] = "settle" => ~mine[e].draftMode
      <3>1. DraftStep + 1 \in Editing /\ DraftStep + 1 \in Steps
        BY DEF Editing, Steps
      <3>2. QED
        BY <1>0, <3>1 DEF ExecutorPaid, Holding, AllDone, JobPaid
    <2>8. ExecutorPaid(e)'
      <3>1. CASE outcome # "ok"
        BY <1>0, <2>1, <2>3, <2>6, <3>1 DEF ExecutorPaid, Holding
      <3>2. CASE outcome = "ok" /\ pc[e] = "settle"
        <4>1. mine[e].status = "done" /\ AllDone(steps) /\ pc'[e] = "saveProgress"
          BY <1>0, <2>6, <3>2 DEF ExecutorPaid
        <4>2. RowPaid(mine[e])'
          BY <2>1, <2>3, <2>4, <2>7, <3>2, <4>1 DEF RowPaid, Live
        <4>3. QED
          BY <1>0, <2>1, <2>3, <4>1, <4>2 DEF ExecutorPaid, Holding, AllDone
      <3>3. CASE outcome = "ok" /\ pc[e] = "settleDraft"
        BY <1>0, <2>1, <2>3, <2>6, <3>3 DEF ExecutorPaid, Holding
      <3>4. QED
        BY <2>1, <3>1, <3>2, <3>3
    <2>9. QED
      BY <2>5, <2>8
  <1>20. CASE SaveProgress(e)
    <2>1. /\ pc[e] = "saveProgress" /\ job' = mine[e] /\ UNCHANGED <<ledgerVars, steps>>
          /\ \/ Over(e)
             \/ pc' = [pc EXCEPT ![e] = "pause"] /\ UNCHANGED locals
             \/ pc' = [pc EXCEPT ![e] = "draft"] /\ UNCHANGED locals /\ DraftDue(e)
      BY <1>20 DEF SaveProgress, Goto
    <2>2. /\ mine[e].hold = job.hold /\ mine[e].draftMode = job.draftMode /\ job.status \in Live
          /\ mine[e].status \notin {"absent", "cancelled"}
          /\ mine[e].status = "done" => RowPaid(mine[e]) /\ AllDone(steps)
      BY <1>0, <2>1 DEF ExecutorPaid, Holding
    <2>3. JobPaid' /\ DonePaid'
      <3>1. RowPaid(job)'
        BY <1>0, <2>1, <2>2 DEF JobPaid, RowPaid, Live
      <3>2. QED
        BY <1>0, <1>5, <2>1, <2>2, <3>1 DEF JobPaid, DonePaid, AllDone, Live
    <2>4. CASE Over(e)
      BY <1>7, <2>3, <2>4
    <2>5. CASE pc' = [pc EXCEPT ![e] = "pause"] /\ UNCHANGED locals
      <3>1. pc'[e] = "pause"
        BY <1>8, <2>5
      <3>2. ExecutorPaid(e)'
        BY <1>0, <2>1, <2>2, <2>5, <3>1 DEF ExecutorPaid, Holding
      <3>3. QED
        BY <2>3, <3>2
    <2>6. CASE pc' = [pc EXCEPT ![e] = "draft"] /\ UNCHANGED locals /\ DraftDue(e)
      <3>1. pc'[e] = "draft"
        BY <1>8, <2>6
      <3>2. mine[e].draftMode /\ mine[e].status \in Live
        <4>1. mine[e].draftMode /\ mine[e].status # "failed"
          BY <2>6 DEF DraftDue
        <4>2. mine[e].status # "done"
          BY <2>2, <4>1 DEF RowPaid
        <4>3. mine[e].status # "cancelled"
          BY <1>0, <2>1 DEF ExecutorPaid
        <4>4. mine[e].status \in {"absent"} \cup Live \cup Final
          BY <1>0 DEF JobRow
        <4>5. QED
          BY <2>2, <4>1, <4>2, <4>3, <4>4 DEF Final
      <3>3. ExecutorPaid(e)'
        BY <1>0, <2>1, <2>2, <2>6, <3>1, <3>2 DEF ExecutorPaid, Holding
      <3>4. QED
        BY <2>3, <3>3
    <2>7. QED
      BY <2>1, <2>4, <2>5, <2>6
  <1>21. CASE Pause(e)
    <2> DEFINE waits == mine[e].status \notin {"done", "failed"} /\ NextPending(copy[e]) # 0
    <2>1. /\ pc[e] = "pause" /\ job' = [mine[e] EXCEPT !.waiting = waits]
          /\ UNCHANGED <<ledgerVars, steps>>
          /\ \/ Over(e)
             \/ pc' = [pc EXCEPT ![e] = "draft"] /\ UNCHANGED locals /\ DraftDue(e)
      BY <1>21 DEF Pause, Goto
    <2>2. mine[e] = job
      BY <1>0, <2>1 DEF ExecutorPaid
    <2>3. waits \in BOOLEAN
      OBVIOUS
    <2> HIDE DEF waits
    <2>4. job'.hold = job.hold /\ job'.status = job.status /\ job'.draftMode = job.draftMode
      BY <1>0, <2>1, <2>2, <2>3, JobRowWaiting
    <2>5. job.status # "absent"
      BY <1>0, <2>1 DEF ExecutorPaid
    <2>6. JobPaid' /\ DonePaid'
      BY <1>0, <1>3, <1>5, <2>1, <2>4, <2>5 DEF JobPaid, DonePaid, RowPaid, AllDone
    <2>7. CASE Over(e)
      BY <1>7, <2>6, <2>7
    <2>8. CASE pc' = [pc EXCEPT ![e] = "draft"] /\ UNCHANGED locals /\ DraftDue(e)
      <3>1. pc'[e] = "draft"
        BY <1>8, <2>8
      <3>2. job.draftMode /\ job.status \in Live
        <4>1. job.draftMode /\ job.status # "failed"
          BY <2>2, <2>8 DEF DraftDue
        <4>2. job.status # "done"
          BY <1>0, <4>1 DEF JobPaid, RowPaid
        <4>3. job.status # "cancelled"
          BY <1>0, <2>1, <2>2 DEF ExecutorPaid
        <4>4. job.status \in {"absent"} \cup Live \cup Final
          BY <1>0 DEF JobRow
        <4>5. QED
          BY <2>5, <4>1, <4>2, <4>3, <4>4 DEF Final
      <3>3. ExecutorPaid(e)'
        BY <1>0, <2>1, <2>2, <2>4, <2>8, <3>1, <3>2 DEF ExecutorPaid, Holding
      <3>4. QED
        BY <2>6, <3>3
    <2>9. QED
      BY <2>1, <2>7, <2>8
  <1>22. CASE SaveDraft(e)
    <2>1. /\ pc[e] = "saveDraft" /\ Over(e) /\ UNCHANGED <<ledgerVars, steps>>
          /\ job' = [mine[e] EXCEPT !.hold = None, !.draft = TRUE, !.waiting = TRUE]
      BY <1>22 DEF SaveDraft
    <2>2. /\ mine[e].draftMode = job.draftMode /\ job.draftMode /\ mine[e].status \in Live
      BY <1>0, <2>1 DEF ExecutorPaid, Holding
    <2>3. job'.hold = None /\ job'.status \in Live /\ job'.draftMode
      BY <1>0, <2>1, <2>2, JobRowDraft
    <2>4. JobPaid' /\ DonePaid'
      BY <1>0, <1>5, <2>1, <2>2, <2>3 DEF JobPaid, DonePaid, RowPaid, Live, ExecutorPaid
    <2>5. QED
      BY <1>7, <2>1, <2>4
  <1>23. CASE FailSave(e)
    <2> DEFINE next == Fail(copy[e], at[e])
    <2>1. /\ steps' = next /\ pc[e] = "failSave" /\ UNCHANGED <<ledgerVars, job, at>>
          /\ \/ /\ pc' = [pc EXCEPT ![e] = "saveFailed"]
                /\ mine' = [mine EXCEPT ![e] = [mine[e] EXCEPT !.status = "failed"]]
             \/ /\ pc' = [pc EXCEPT ![e] = "saveRetry"] /\ ~GivenUp(copy[e], at[e])
                /\ mine' = [mine EXCEPT ![e] = [mine[e] EXCEPT !.status = StatusAfter(next),
                                                               !.current = NextPending(next)]]
      BY <1>23 DEF FailSave, Goto, Keep
    <2>2. /\ copy[e] = steps /\ mine[e].hold = job.hold /\ mine[e].draftMode = job.draftMode
          /\ job.status \in Live /\ at[e] \in Steps
      BY <1>0, <2>1 DEF ExecutorPaid, Holding
    <2>3. /\ \A r \in Steps : r # at[e] => next[r] = steps[r]
          /\ next[at[e]].status # "done"
      <3>1. /\ \A r \in Steps : r # at[e] => next[r] = steps[r]
            /\ next[at[e]].status = IF GivenUp(steps, at[e]) THEN "failed" ELSE "pending"
        BY <1>0, <2>2, FailSteps
      <3>2. QED
        BY <3>1
    <2>4. StatusAfter(next) \in {"processing", "failed"}
      BY <2>2, <2>3, StatusAfterIs DEF StatusAfter
    <2> HIDE DEF next
    <2>5. JobPaid' /\ DonePaid'
      <3>1. job.draftMode => \A s \in Editing : steps'[s].status # "done"
        BY <1>0, <2>1, <2>3 DEF JobPaid, Editing, Steps
      <3>2. QED
        BY <1>0, <1>5, <2>1, <2>2, <3>1 DEF JobPaid, DonePaid, RowPaid, Live
    <2>6. CASE pc' = [pc EXCEPT ![e] = "saveFailed"]
      <3>1. mine' = [mine EXCEPT ![e] = [mine[e] EXCEPT !.status = "failed"]]
        <4>1. pc' # [pc EXCEPT ![e] = "saveRetry"]
          BY <1>8, <2>6
        <4>2. QED
          BY <2>1, <4>1
      <3>3. /\ mine'[e].status = "failed" /\ mine'[e].hold = job.hold
            /\ mine'[e].draftMode = job.draftMode
        <4>1. mine'[e] = [mine[e] EXCEPT !.status = "failed"]
          BY <1>9, <3>1
        <4>2. QED
          BY <1>0, <2>2, <4>1 DEF JobRow
      <3>4. pc'[e] = "saveFailed"
        BY <1>8, <2>6
      <3>5. ExecutorPaid(e)'
        BY <1>0, <2>1, <2>2, <3>3, <3>4 DEF ExecutorPaid, Holding
      <3>6. QED
        BY <2>5, <3>5
    <2>7. CASE pc' = [pc EXCEPT ![e] = "saveRetry"]
      <3>1. mine' = [mine EXCEPT ![e] = [mine[e] EXCEPT !.status = StatusAfter(next),
                                                       !.current = NextPending(next)]]
        <4>1. pc' # [pc EXCEPT ![e] = "saveFailed"]
          BY <1>8, <2>7
        <4>2. QED
          BY <2>1, <4>1
      <3>3. /\ mine'[e].status = StatusAfter(next) /\ mine'[e].hold = job.hold
            /\ mine'[e].draftMode = job.draftMode
        <4>1. mine'[e] = [mine[e] EXCEPT !.status = StatusAfter(next),
                                         !.current = NextPending(next)]
          BY <1>9, <3>1
        <4>2. QED
          BY <1>0, <2>2, <4>1 DEF JobRow
      <3>4. pc'[e] = "saveRetry"
        BY <1>8, <2>7
      <3>5. ExecutorPaid(e)'
        BY <1>0, <2>1, <2>2, <2>4, <3>3, <3>4 DEF ExecutorPaid, Holding
      <3>6. QED
        BY <2>5, <3>5
    <2>8. QED
      BY <2>1, <2>6, <2>7
  <1>24. CASE SaveRetry(e)
    <2>1. pc[e] = "saveRetry" /\ job' = mine[e] /\ Over(e) /\ UNCHANGED <<ledgerVars, steps>>
      BY <1>24 DEF SaveRetry
    <2>2. /\ mine[e].hold = job.hold /\ mine[e].draftMode = job.draftMode /\ job.status \in Live
          /\ mine[e].status \in {"processing", "failed"}
      BY <1>0, <2>1 DEF ExecutorPaid, Holding
    <2>3. JobPaid' /\ DonePaid'
      BY <1>0, <1>5, <2>1, <2>2 DEF JobPaid, DonePaid, RowPaid, Live, ExecutorPaid
    <2>4. QED
      BY <1>7, <2>1, <2>3
  <1>25. CASE SaveFailed(e)
    <2>1. /\ pc[e] = "saveFailed" /\ job' = mine[e] /\ UNCHANGED <<ledgerVars, steps, locals>>
          /\ pc' = [pc EXCEPT ![e] = "refund"]
      BY <1>25 DEF SaveFailed, Goto
    <2>2. /\ mine[e].hold = job.hold /\ mine[e].draftMode = job.draftMode /\ job.status \in Live
          /\ mine[e].status = "failed" /\ pc'[e] = "refund"
      BY <1>0, <1>8, <2>1 DEF ExecutorPaid, Holding
    <2>3. JobPaid' /\ DonePaid'
      BY <1>0, <1>5, <2>1, <2>2 DEF JobPaid, DonePaid, RowPaid, Live, ExecutorPaid
    <2>4. ExecutorPaid(e)'
      BY <1>0, <2>1, <2>2 DEF ExecutorPaid, Holding
    <2>5. QED
      BY <2>3, <2>4
  <1>26. CASE RefundMine(e)
    <2>1. pc[e] = "refund" /\ Over(e) /\ UNCHANGED rows
      BY <1>26 DEF RefundMine
    <2>2. job.status = "failed"
      BY <1>0, <2>1 DEF ExecutorPaid
    <2>3. JobPaid' /\ DonePaid'
      BY <1>0, <1>5, <2>1, <2>2 DEF JobPaid, DonePaid, RowPaid, Live
    <2>4. QED
      BY <1>7, <2>1, <2>3
  <1>27. QED
    BY <1>11, <1>12, <1>13, <1>14, <1>15, <1>16, <1>17, <1>18, <1>19, <1>20, <1>21, <1>22,
       <1>23, <1>24, <1>25, <1>26 DEF ExecutorStep

\* A request that is alone.
LEMMA PaidUser ==
    ASSUME TypeInv, TypeInv', Alone, PaidInv, NEW u \in Users, UserStep(u), OthersRest(u)
    PROVE  PaidInv'
  <1>0. /\ TypeOK /\ TypeOK' /\ Places /\ u \in Actors /\ u \notin Executors
        /\ JobPaid /\ DonePaid /\ UserPaid(u)
        /\ pc[u] # "idle" => server = "up"
        /\ mine[u] \in JobRow /\ job \in JobRow /\ job' \in JobRow
        /\ copy[u] \in [Steps -> StepRow] /\ steps \in [Steps -> StepRow]
    BY DEF TypeInv, AloneInv, Places, Actors, PaidInv, TypeOK
  <1>1. \A b \in Actors \ {u} : pc[b] = "idle"
    <2>1. CASE pc[u] = "idle"
      <3>1. PICK op : Request(u, op)
        BY <2>1 DEF UserStep, CallCreate, CreateFreeze, Freeze, CreateJob, CreateSteps, CallCancel,
           Cancel, CallAdvance, Advance, CallRetry, RetryLoad, LoadSteps, RetrySave, RetryFreeze,
           RetryJob, CallRender, RenderFreeze, RenderLoad, RenderSave, RenderJob, RefundMine
      <3>2. QED
        BY <3>1 DEF Request, Quiet, Alone
    <2>2. CASE pc[u] # "idle"
      BY <1>0, <2>2, OthersIdle
    <2>3. QED
      BY <2>1, <2>2
  <1>2. \A b \in Actors \ {u} : pc'[b] = "idle"
    BY <1>1 DEF OthersRest
  <1>3. SUFFICES JobPaid' /\ DonePaid' /\ UserPaid(u)'
    BY <1>0, <1>2, PaidFrame
  <1>4. crashes = 0 /\ job.status = "done" => AllDone(steps) \/ pc[u] = "renderJob"
    BY <1>0, <1>1 DEF DonePaid, Actors
  <1>5. server' = server /\ crashes' = crashes
    BY DEF OthersRest
  <1>6. ASSUME UNCHANGED rows, job.hold \in Holds /\ status[job.hold] \in {"open", "settled"} =>
                                   status'[job.hold] = status[job.hold],
               pc[u] # "renderJob"
        PROVE  JobPaid' /\ DonePaid'
    BY <1>0, <1>4, <1>5, <1>6 DEF JobPaid, DonePaid, RowPaid, rows, AllDone, AllAbsent, Live
  <1>7. ASSUME Over(u) PROVE UserPaid(u)'
    <2>1. pc'[u] = "idle"
      BY <1>0, <1>7, OverEffect DEF Places
    <2>2. QED
      BY <2>1 DEF UserPaid, RetryLabels, RenderLabels
  <1>8. ASSUME NEW l, pc' = [pc EXCEPT ![u] = l] PROVE pc'[u] = l
    BY <1>0, <1>8 DEF Places
  <1>9. ASSUME NEW r, mine' = [mine EXCEPT ![u] = r] PROVE mine'[u] = r
    BY <1>0, <1>9 DEF TypeOK
  <1> USE DEF rows, locals, ledgerVars
  <1>10. ASSUME NEW l \in {"cancel", "advance", "retryLoad", "renderFreeze"}, NEW op,
                Request(u, op), Keep(u, job), Goto(u, l), job.status # "absent",
                l = "advance" => job.status \in Live, l = "retryLoad" => job.status = "failed"
         PROVE  JobPaid' /\ DonePaid' /\ UserPaid(u)'
    <2>1. UNCHANGED <<ledgerVars, rows>> /\ pc[u] = "idle"
      BY <1>10 DEF Request
    <2>2. pc'[u] = l /\ mine'[u] = job
      BY <1>8, <1>9, <1>10 DEF Goto, Keep
    <2>3. UserPaid(u)'
      BY <1>0, <1>10, <2>1, <2>2 DEF UserPaid, RetryLabels, RenderLabels
    <2>4. QED
      BY <1>6, <2>1, <2>3
  <1>11. ASSUME NEW from, NEW l \in {"createJob", "retryJob", "renderLoad"}, Freeze(u, from, l),
                \/ from = "createFreeze" /\ l = "createJob"
                \/ from = "retryFreeze" /\ l = "retryJob"
                \/ from = "renderFreeze" /\ l = "renderLoad"
         PROVE  JobPaid' /\ DonePaid' /\ UserPaid(u)'
    <2>1. pc[u] = from /\ UNCHANGED rows
      BY <1>11 DEF Freeze
    <2>2. CASE Over(u) /\ UNCHANGED ledgerVars
      BY <1>6, <1>7, <1>11, <2>1, <2>2
    <2>3. ASSUME NEW h \in Holds, NEW price \in Amounts, Reserve(h, price),
                 mine' = [mine EXCEPT ![u] = [mine[u] EXCEPT !.hold = h]], Goto(u, l)
          PROVE  JobPaid' /\ DonePaid' /\ UserPaid(u)'
      <3>1. /\ status[h] = "none" /\ status'[h] = "open"
            /\ \A g \in Holds \ {h} : status'[g] = status[g]
        BY <1>0, <2>3 DEF Reserve, TypeOK
      <3>2. pc'[u] = l /\ mine'[u] = [mine[u] EXCEPT !.hold = h]
        BY <1>8, <1>9, <2>3 DEF Goto
      <3>3. /\ mine'[u].hold = h /\ mine'[u].status = mine[u].status
            /\ mine'[u].draftMode = mine[u].draftMode
        BY <1>0, <3>2 DEF JobRow
      <3>4. UserPaid(u)'
        BY <1>0, <1>11, <2>1, <3>1, <3>2, <3>3 DEF UserPaid, RetryLabels, RenderLabels
      <3>5. JobPaid' /\ DonePaid'
        BY <1>6, <1>11, <2>1, <3>1
      <3>6. QED
        BY <3>4, <3>5
    <2>4. QED
      BY <1>11, <2>2, <2>3 DEF Freeze
  <1>12. ASSUME NEW from \in {"retryLoad", "renderLoad"}, NEW l, LoadSteps(u, from, l),
                \/ from = "retryLoad" /\ l = "retrySave"
                \/ from = "renderLoad" /\ l = "renderSave"
         PROVE  JobPaid' /\ DonePaid' /\ UserPaid(u)'
    <2>1. /\ UNCHANGED <<ledgerVars, rows, mine>> /\ copy' = [copy EXCEPT ![u] = steps]
          /\ pc[u] = from /\ pc' = [pc EXCEPT ![u] = l]
      BY <1>12 DEF LoadSteps, Goto
    <2>2. copy'[u] = steps /\ pc'[u] = l
      BY <1>0, <1>8, <2>1 DEF TypeOK
    <2>3. UserPaid(u)'
      BY <1>0, <1>12, <2>1, <2>2 DEF UserPaid, RetryLabels, RenderLabels
    <2>4. QED
      BY <1>6, <1>12, <2>1, <2>3
  <1>13. CASE CallCreate(u)
    <2>1. PICK mode \in Modes :
              mine' = [mine EXCEPT ![u] =
                  [NoJob EXCEPT !.status = "pending", !.manual = mode.manual,
                                !.waiting = mode.manual, !.draftMode = mode.draftMode,
                                !.video = mode.video]]
      BY <1>13 DEF CallCreate, Keep
    <2>2. mode.manual \in BOOLEAN /\ mode.draftMode \in BOOLEAN /\ mode.video \in BOOLEAN
      OBVIOUS
    <2>3. mine'[u].status = "pending"
      <3>1. mine'[u] = [NoJob EXCEPT !.status = "pending", !.manual = mode.manual,
                                     !.waiting = mode.manual, !.draftMode = mode.draftMode,
                                     !.video = mode.video]
        BY <1>9, <2>1
      <3>2. QED
        BY <3>1 DEF NoJob
    <2>4. /\ UNCHANGED <<ledgerVars, rows>> /\ pc[u] = "idle" /\ job.status = "absent"
          /\ pc' = [pc EXCEPT ![u] = "createFreeze"]
      BY <1>13 DEF CallCreate, Request, Goto
    <2>5. pc'[u] = "createFreeze"
      BY <1>8, <2>4
    <2>6. UserPaid(u)'
      BY <2>3, <2>4, <2>5 DEF UserPaid, RetryLabels, RenderLabels
    <2>7. QED
      BY <1>6, <2>4, <2>6
  <1>14. CASE CreateFreeze(u) \/ RetryFreeze(u) \/ RenderFreeze(u)
    BY <1>11, <1>14 DEF CreateFreeze, RetryFreeze, RenderFreeze
  <1>15. CASE CreateJob(u)
    <2>1. /\ pc[u] = "createJob" /\ job.status = "absent" /\ mine[u].hold \in Holds
          /\ status[mine[u].hold] = "open" /\ mine[u].status = "pending"
      BY <1>0, <1>15 DEF CreateJob, UserPaid
    <2>2. /\ job' = mine[u] /\ UNCHANGED <<ledgerVars, steps, locals>>
          /\ pc' = [pc EXCEPT ![u] = "createSteps"]
      BY <1>15, <2>1 DEF CreateJob, Goto
    <2>3. AllAbsent(steps) /\ pc'[u] = "createSteps"
      BY <1>0, <1>8, <2>1, <2>2 DEF JobPaid
    <2>4. JobPaid' /\ DonePaid'
      <3>1. RowPaid(job)'
        BY <2>1, <2>2 DEF RowPaid, Live
      <3>2. \A s \in Editing : steps[s].status # "done"
        BY <2>3 DEF AllAbsent, Editing, Steps
      <3>3. QED
        BY <1>0, <1>5, <2>1, <2>2, <3>1, <3>2 DEF JobPaid, DonePaid
    <2>5. UserPaid(u)'
      BY <2>1, <2>2, <2>3 DEF UserPaid, RetryLabels, RenderLabels, AllAbsent
    <2>6. QED
      BY <2>4, <2>5
  <1>16. CASE CreateSteps(u)
    <2>1. pc[u] = "createSteps" /\ steps' = FreshSteps /\ Over(u) /\ UNCHANGED <<ledgerVars, job>>
      BY <1>16 DEF CreateSteps
    <2>2. job.status = "pending"
      BY <1>0, <2>1 DEF UserPaid
    <2>3. \A s \in Editing : steps'[s].status # "done"
      BY <2>1 DEF FreshSteps, Fresh, Editing, Steps
    <2>4. JobPaid' /\ DonePaid'
      BY <1>0, <1>5, <2>1, <2>2, <2>3 DEF JobPaid, DonePaid, RowPaid
    <2>5. QED
      BY <1>7, <2>1, <2>4
  <1>17. CASE CallCancel(u)
    BY <1>10, <1>17 DEF CallCancel
  <1>18. CASE Cancel(u)
    <2>1. CASE job.status \in Live
      <3>1. /\ job' = [job EXCEPT !.status = "cancelled"] /\ UNCHANGED <<ledgerVars, steps, locals>>
            /\ pc' = [pc EXCEPT ![u] = "refund"]
        BY <1>18, <2>1 DEF Cancel, Goto
      <3>2. /\ job'.status = "cancelled" /\ job'.hold = job.hold /\ job'.draftMode = job.draftMode
        BY <1>0, <3>1 DEF JobRow
      <3>3. pc'[u] = "refund"
        BY <1>8, <3>1
      <3>4. JobPaid' /\ DonePaid'
        BY <1>0, <1>5, <2>1, <3>1, <3>2 DEF JobPaid, DonePaid, RowPaid, Live
      <3>5. UserPaid(u)'
        BY <3>2, <3>3 DEF UserPaid, RetryLabels, RenderLabels
      <3>6. QED
        BY <1>0, <3>4, <3>5
    <2>2. CASE job.status \notin Live
      <3>1. Over(u) /\ UNCHANGED <<rows, ledgerVars>> /\ pc[u] = "cancel"
        BY <1>18, <2>2 DEF Cancel
      <3>2. QED
        BY <1>6, <1>7, <3>1
    <2>3. QED
      BY <2>1, <2>2
  <1>19. CASE CallAdvance(u)
    BY <1>10, <1>19 DEF CallAdvance, Live
  <1>20. CASE Advance(u)
    <2>1. /\ pc[u] = "advance" /\ job' = [mine[u] EXCEPT !.waiting = FALSE] /\ Over(u)
          /\ UNCHANGED <<ledgerVars, steps>>
      BY <1>20 DEF Advance
    <2>2. mine[u] = job /\ job.status \in Live
      BY <1>0, <2>1 DEF UserPaid
    <2>3. job'.status = job.status /\ job'.hold = job.hold /\ job'.draftMode = job.draftMode
      BY <1>0, <2>1, <2>2 DEF JobRow
    <2>4. JobPaid' /\ DonePaid'
      BY <1>0, <1>5, <2>1, <2>2, <2>3 DEF JobPaid, DonePaid, RowPaid, Live
    <2>5. QED
      BY <1>7, <2>1, <2>4
  <1>21. CASE CallRetry(u)
    BY <1>10, <1>21 DEF CallRetry
  <1>22. CASE RetryLoad(u) \/ RenderLoad(u)
    BY <1>12, <1>22 DEF RetryLoad, RenderLoad
  <1>23. CASE RetrySave(u)
    <2>1. /\ pc[u] = "retrySave" /\ pc' = [pc EXCEPT ![u] = "retryFreeze"]
          /\ UNCHANGED <<ledgerVars, job, locals>>
          /\ steps' = [s \in Steps |->
                IF copy[u][s].status \in {"done", "absent"}
                THEN [copy[u][s] EXCEPT !.retries = 0] ELSE Fresh]
      BY <1>23 DEF RetrySave, Goto
    <2>2. copy[u] = steps /\ job.status = "failed" /\ pc'[u] = "retryFreeze"
      BY <1>0, <1>8, <2>1 DEF UserPaid, RetryLabels
    <2>3. \A s \in Steps : steps'[s].status = "done" => steps[s].status = "done"
      BY <1>0, <2>1, <2>2 DEF Fresh, StepRow
    <2>4. JobPaid' /\ DonePaid'
      BY <1>0, <1>5, <2>1, <2>2, <2>3 DEF JobPaid, DonePaid, RowPaid, Editing, Steps
    <2>5. UserPaid(u)'
      BY <1>0, <2>1, <2>2 DEF UserPaid, RetryLabels, RenderLabels
    <2>6. QED
      BY <2>4, <2>5
  <1>24. CASE RetryJob(u)
    <2>1. /\ pc[u] = "retryJob" /\ job' = [mine[u] EXCEPT !.status = "pending", !.current = 0]
          /\ Over(u) /\ UNCHANGED <<ledgerVars, steps>>
      BY <1>24 DEF RetryJob
    <2>2. /\ mine[u].hold \in Holds /\ status[mine[u].hold] = "open"
          /\ mine[u].draftMode = job.draftMode
      BY <1>0, <2>1 DEF UserPaid, RetryLabels
    <2>3. job'.status = "pending" /\ job'.hold = mine[u].hold /\ job'.draftMode = job.draftMode
      BY <1>0, <2>1, <2>2 DEF JobRow
    <2>4. JobPaid' /\ DonePaid'
      BY <1>0, <1>5, <2>1, <2>2, <2>3 DEF JobPaid, DonePaid, RowPaid
    <2>5. QED
      BY <1>7, <2>1, <2>4
  <1>25. CASE CallRender(u)
    <2>1. job.status # "absent"
      BY <1>0, <1>25 DEF CallRender, RenderAllowed, JobPaid, NoJob
    <2>2. QED
      BY <1>10, <1>25, <2>1 DEF CallRender
  <1>26. CASE RenderSave(u)
    <2>1. /\ pc[u] = "renderSave" /\ pc' = [pc EXCEPT ![u] = "renderJob"]
          /\ UNCHANGED <<ledgerVars, job, locals>>
          /\ steps' = [s \in Steps |-> IF s \in Editing /\ copy[u][s].status # "absent" THEN Fresh
                                       ELSE [copy[u][s] EXCEPT !.retries = 0]]
      BY <1>26 DEF RenderSave, Goto
    <2>2. job.status # "absent" /\ pc'[u] = "renderJob"
      BY <1>0, <1>8, <2>1 DEF UserPaid, RenderLabels
    <2>3. \A s \in Editing : steps'[s].status # "done"
      <3>1. ASSUME NEW s \in Steps, s \in Editing PROVE steps'[s].status # "done"
        BY <1>0, <2>1, <3>1 DEF Fresh, StepRow
      <3>2. QED
        BY <3>1 DEF Editing, Steps
    <2>4. JobPaid' /\ DonePaid'
      BY <1>0, <1>5, <2>1, <2>2, <2>3 DEF JobPaid, DonePaid, RowPaid
    <2>5. UserPaid(u)'
      BY <1>0, <2>1, <2>2 DEF UserPaid, RetryLabels, RenderLabels
    <2>6. QED
      BY <2>4, <2>5
  <1>27. CASE RenderJob(u)
    <2>1. /\ pc[u] = "renderJob" /\ Over(u) /\ UNCHANGED <<ledgerVars, steps>>
          /\ job' = [mine[u] EXCEPT !.status = "processing", !.current = 0,
                                    !.waiting = FALSE, !.draftMode = FALSE]
      BY <1>27 DEF RenderJob
    <2>2. mine[u].hold \in Holds /\ status[mine[u].hold] = "open"
      BY <1>0, <2>1 DEF UserPaid
    <2>3. job'.status = "processing" /\ job'.hold = mine[u].hold /\ ~job'.draftMode
      BY <1>0, <2>1, <2>2 DEF JobRow
    <2>4. JobPaid' /\ DonePaid'
      BY <1>0, <1>5, <2>1, <2>2, <2>3 DEF JobPaid, DonePaid, RowPaid, UserPaid
    <2>5. QED
      BY <1>7, <2>1, <2>4
  <1>28. CASE RefundMine(u)
    <2>1. pc[u] = "refund" /\ Over(u) /\ UNCHANGED rows
      BY <1>28 DEF RefundMine
    <2>2. job.status = "cancelled"
      BY <1>0, <2>1 DEF UserPaid
    <2>3. JobPaid' /\ DonePaid'
      BY <1>0, <1>5, <2>1, <2>2 DEF JobPaid, DonePaid, RowPaid, Live
    <2>4. QED
      BY <1>7, <2>1, <2>3
  <1>29. QED
    BY <1>13, <1>14, <1>15, <1>16, <1>17, <1>18, <1>19, <1>20, <1>21, <1>22, <1>23, <1>24,
       <1>25, <1>26, <1>27, <1>28 DEF UserStep

\* A crash forgets the requests; a start fails the job before it refunds it.
LEMMA PaidBoot ==
    ASSUME TypeInv, TypeInv', PaidInv, Crash \/ RecoverSave \/ RecoverRefund \/ Booted
    PROVE  PaidInv'
  <1>0. TypeOK /\ JobPaid /\ DonePaid /\ job \in JobRow
    BY DEF TypeInv, TypeOK, PaidInv
  <1> USE DEF rows, locals, ledgerVars
  <1>1. ASSUME \A a \in Actors : pc'[a] = "idle", JobPaid', DonePaid' PROVE PaidInv'
    BY <1>1 DEF PaidInv, ExecutorPaid, UserPaid, Holding, RetryLabels, RenderLabels, Actors
  <1>2. CASE Crash
    <2>1. crashes \in Nat /\ crashes' = crashes + 1 /\ server' = "booting"
          /\ UNCHANGED <<ledgerVars, rows>>
      BY <1>0, <1>2 DEF Crash, TypeOK
    <2>2. JobPaid' /\ DonePaid'
      BY <1>0, <2>1 DEF JobPaid, DonePaid, RowPaid, AllAbsent
    <2>3. QED
      BY <1>1, <1>2, <2>2 DEF Crash
  <1>3. CASE ~Crash
    <2>1. server # "up" /\ UNCHANGED pc
      BY <1>3 DEF RecoverSave, RecoverRefund, Booted
    <2>2. \A a \in Actors : pc'[a] = "idle"
      BY <2>1 DEF TypeInv, AloneInv
    <2>3. crashes' = crashes /\ UNCHANGED steps
      BY <1>3 DEF RecoverSave, RecoverRefund, Booted
    <2>4. crashes = 0 /\ job.status = "done" => AllDone(steps)
      BY <1>0, <2>1 DEF DonePaid, TypeInv, AloneInv, Actors
    <2>5. CASE RecoverSave
      <3>1. /\ job.status \in Live /\ UNCHANGED ledgerVars
            /\ job' = [job EXCEPT !.status = "failed"]
        BY <2>5 DEF RecoverSave
      <3>2. job'.status = "failed" /\ job'.hold = job.hold /\ job'.draftMode = job.draftMode
        BY <1>0, <3>1 DEF JobRow
      <3>3. JobPaid' /\ DonePaid'
        BY <1>0, <2>3, <3>1, <3>2 DEF JobPaid, DonePaid, RowPaid, Live
      <3>4. QED
        BY <1>1, <2>2, <3>3
    <2>6. CASE RecoverRefund
      <3>1. UNCHANGED job /\ server' = "booting" /\ server = "refunding"
        BY <2>6 DEF RecoverRefund
      <3>2. job.status = "failed"
        BY <1>0, <3>1 DEF JobPaid
      <3>3. JobPaid' /\ DonePaid'
        BY <1>0, <2>3, <3>1, <3>2 DEF JobPaid, DonePaid, RowPaid, Live
      <3>4. QED
        BY <1>1, <2>2, <3>3
    <2>7. CASE Booted
      <3>1. UNCHANGED <<ledgerVars, rows>> /\ server' = "up"
        BY <2>7 DEF Booted
      <3>2. JobPaid' /\ DonePaid'
        BY <1>0, <2>3, <2>4, <3>1 DEF JobPaid, DonePaid, RowPaid, AllDone, AllAbsent
      <3>3. QED
        BY <1>1, <2>2, <3>2
    <2>8. QED
      BY <1>3, <2>5, <2>6, <2>7
  <1>4. QED
    BY <1>2, <1>3

\* Every step keeps what is paid,
LEMMA PaidStep ==
    ASSUME TypeInv, Alone, PaidInv, [Next]_vars
    PROVE  PaidInv'
  <1>1. TypeInv'
    BY StepTyped
  <1>2. CASE UNCHANGED vars
    BY <1>2 DEF vars, ledgerVars, rows, locals, server_, PaidInv, JobPaid, DonePaid, RowPaid,
       ExecutorPaid, UserPaid, AllDone, AllAbsent
  <1>3. ASSUME NEW e \in Executors, ExecutorStep(e) PROVE PaidInv'
    BY <1>1, <1>3, ExecutorTyped, PaidExecutor
  <1>4. ASSUME NEW u \in Users, UserStep(u) PROVE PaidInv'
    BY <1>1, <1>4, UserTyped, PaidUser
  <1>5. QED
    BY <1>1, <1>2, <1>3, <1>4, PaidBoot DEF Next

\* nothing is owed at first,
LEMMA InitPaid == Init => PaidInv
  BY DEF Init, PaidInv, JobPaid, DonePaid, RowPaid, ExecutorPaid, UserPaid, Holding, RetryLabels,
     RenderLabels, AllAbsent, NoJob, NoSteps, Live, Actors, Editing, Steps

\* so it is always so.
LEMMA PaidAlways == ASSUME Alone PROVE Spec => []PaidInv
  <1>1. Init => TypeInv /\ PaidInv
    BY InitTyped, InitPaid
  <1>2. TypeInv /\ PaidInv /\ [Next]_vars => (TypeInv /\ PaidInv)'
    BY StepTyped, PaidStep
  <1>3. QED
    BY <1>1, <1>2, PTL DEF Spec

\* A job that is done was paid for, the hold of its last render too, whatever pipeline,
\* requests and crashes there are and however the calls of the credit service end, as long
\* as a server runs one executor and requests do not overlap (syncJobProgress).
THEOREM JobDoneIsPaid == ASSUME Alone PROVE Spec => []DeliveredIsPaid
  <1>1. PaidInv => DeliveredIsPaid
    BY DEF PaidInv, JobPaid, RowPaid, DeliveredIsPaid
  <1>2. QED
    BY <1>1, PaidAlways, PTL

\* Under the same premises and without a crash, no step of a job that is done waits to be
\* run again (jobStatusAfterSteps and the resets of render).
THEOREM JobDoneIsWhole == ASSUME Alone PROVE Spec => []DoneIsWhole
  <1>1. PaidInv => DoneIsWhole
    BY DEF PaidInv, DonePaid, DoneIsWhole, Quiet, AllDone, Actors
  <1>2. QED
    BY <1>1, PaidAlways, PTL

-----------------------------------------------------------------------------
(* The order of the steps *)

\* The rows of a job that waits for an executor: none yet, or no step is half done.
Ready(st) == AllAbsent(st) \/ \A s \in Steps : st[s].status \in {"pending", "done"}

\* All steps before s are done, and none after it was begun.
Around(st, s) == \A r \in Steps : /\ r < s => st[r].status = "done"
                                  /\ r > s => st[r].status = "pending"

JobOrder ==
    /\ StepsInOrder
    /\ job.status = "absent" => AllAbsent(steps)
    /\ AllAbsent(steps) \/ \A s \in Steps : steps[s].status # "absent"
    /\ server = "up" /\ job.status \in Live /\ (\A e \in Executors : pc[e] = "idle") => Ready(steps)

ExecutorOrder(e) ==
    /\ pc[e] # "idle" => Around(steps, at[e]) /\ job.status # "absent"
    /\ pc[e] \in {"start", "claim", "saveRetry"} => steps[at[e]].status = "pending"
    /\ pc[e] \in {"begin", "work", "finish", "finishLoad", "finishSave"} =>
          steps[at[e]].status = "running"
    /\ pc[e] \in {"settle", "saveProgress", "pause", "draft", "settleDraft", "saveDraft"} =>
          steps[at[e]].status = "done"
    /\ pc[e] \in {"fail", "failLoad", "failSave"} => steps[at[e]].status \in {"running", "done"}
    /\ pc[e] \in {"saveFailed", "refund"} => steps[at[e]].status = "failed"
    /\ pc[e] \in {"finishSave", "failSave"} => copy[e] = steps
    /\ pc[e] = "settle" => mine[e].status = "done"
    /\ pc[e] \in {"saveProgress", "pause"} => mine[e].status \in {"processing", "done"}
    /\ pc[e] \in {"settleDraft", "saveDraft"} => mine[e].status # "absent"
    /\ pc[e] = "saveRetry" => mine[e].status = "processing"
    /\ pc[e] = "saveFailed" => mine[e].status = "failed"
    /\ pc[e] = "refund" => job.status = "failed"

UserOrder(u) ==
    /\ pc[u] = "createSteps" => /\ AllAbsent(steps) /\ job.status # "absent"
                                /\ \A v \in Users \ {u} : pc[v] # "createSteps"
    /\ pc[u] \in {"createFreeze", "createJob"} => mine[u].status = "pending"
    /\ pc[u] = "cancel" => job.status # "absent"
    /\ pc[u] = "advance" => mine[u] = job /\ job.status \in Live
    /\ pc[u] \in RetryLabels => job.status = "failed"
    /\ pc[u] = "retrySave" => copy[u] = steps
    /\ pc[u] \in {"retryFreeze", "retryJob"} => Ready(steps)

OrderInv ==
    /\ JobOrder
    /\ \A e \in Executors : ExecutorOrder(e)
    /\ \A u \in Users : UserOrder(u)

\* One executor, no render, and what changes the pipeline of a job does not overlap.
Unrendered ==
    /\ "render" \notin Ops /\ Overlapping \subseteq {"create", "cancel"}
    /\ \A e, f \in Executors : e = f

\* A request that advances or retries a job is alone, and nobody renders.
LEMMA Loners ==
    ASSUME TypeInv, Unrendered, NEW u \in Users
    PROVE  /\ pc[u] \notin RenderLabels
           /\ pc[u] \in RetryLabels \cup {"advance"} =>
                /\ asked[u] \notin Overlapping \cup {None}
                /\ \A a \in Actors \ {u} : pc[a] = "idle"
  <1>1. /\ asked[u] \in Ops \cup {None} /\ Fits(pc[u], asked[u])
        /\ (pc[u] = "idle" <=> asked[u] = None)
    BY DEF TypeInv, TypeOK, Places
  <1>2. pc[u] \in RenderLabels => FALSE
    BY <1>1 DEF Unrendered, Fits, RenderLabels
  <1>3. pc[u] \in RetryLabels \cup {"advance"} => asked[u] \notin Overlapping \cup {None}
    BY <1>1 DEF Unrendered, Fits, RetryLabels
  <1>4. QED
    BY <1>2, <1>3 DEF TypeInv, AloneInv

\* The step of the executor changes, the steps around it do not.
LEMMA AroundStep ==
    ASSUME NEW st, NEW new, NEW s \in Steps, Around(st, s),
           \A r \in Steps : r # s => new[r] = st[r]
    PROVE  Around(new, s)
  BY DEF Around, Steps

\* The executor keeps the order of the steps, whoever creates or cancels meanwhile,
LEMMA OrderExecutor ==
    ASSUME TypeInv, TypeInv', Unrendered, OrderInv, NEW e \in Executors, ExecutorStep(e),
           OthersRest(e)
    PROVE  OrderInv'
  <1>0. /\ TypeOK /\ TypeOK' /\ Places /\ e \in Actors /\ e \notin Users
        /\ JobOrder /\ ExecutorOrder(e)
        /\ pc[e] \in ExecutorLabels
        /\ pc[e] # "idle" => server = "up" /\ at[e] \in Steps
        /\ mine[e] \in JobRow /\ job \in JobRow /\ job' \in JobRow
        /\ copy[e] \in [Steps -> StepRow] /\ steps \in [Steps -> StepRow]
    BY DEF TypeInv, AloneInv, Places, Actors, OrderInv, TypeOK
  <1>1. pc[e] = "idle" => Free /\ Pick(e)
    BY DEF ExecutorStep, Pick, Start, ReadJob, Claim, Begin, Work, ReadDone, FinishLoad,
       LoadSteps, FinishSave, SettleAll, SaveProgress, Pause, ReadDraft, SettleDraft,
       SaveDraft, ReadFail, FailLoad, FailSave, SaveRetry, SaveFailed, RefundMine
  <1>2. ASSUME NEW u \in Users
        PROVE  /\ pc[u] \notin RetryLabels \cup {"advance"}
               /\ pc'[u] = pc[u] /\ mine'[u] = mine[u] /\ UserOrder(u)
    <2>1. u \in Actors \ {e} /\ UserOrder(u)
      BY <1>0 DEF Actors, OrderInv
    <2>2. pc[u] \notin RetryLabels \cup {"advance"}
      BY <1>0, <1>1, <2>1, Loners DEF Free
    <2>3. QED
      BY <2>1, <2>2 DEF OthersRest
  <1>3. ASSUME pc[e] # "idle"
        PROVE  /\ steps[at[e]].status # "absent" /\ ~AllAbsent(steps)
               /\ Around(steps, at[e]) /\ job.status # "absent"
    BY <1>0, <1>3 DEF ExecutorOrder, ExecutorLabels, AllAbsent
  <1>4. server' = server /\ \A f \in Executors : f = e
    BY DEF OthersRest, Unrendered
  <1>5. ASSUME pc[e] # "idle", job'.status # "absent", Around(steps', at[e]),
               steps'[at[e]].status # "absent",
               pc'[e] = "idle" /\ job'.status \in Live =>
                   steps'[at[e]].status \in {"pending", "done"},
               ExecutorOrder(e)'
        PROVE  OrderInv'
    <2> DEFINE s == at[e]
    <2>1. s \in Steps /\ Around(steps', s) /\ steps'[s].status # "absent"
      BY <1>0, <1>5
    <2>2. \A r \in Steps : r < s \/ r = s \/ r > s
      BY <2>1 DEF Steps
    <2> HIDE DEF s
    <2>3. StepsInOrder'
      BY <2>1, <2>2 DEF StepsInOrder, Around, Steps
    <2>4. \A r \in Steps : steps'[r].status # "absent"
      BY <2>1, <2>2 DEF Around
    <2>5. steps'[s].status \in {"pending", "done"} => Ready(steps')
      BY <2>1, <2>2 DEF Around, Ready
    <2>6. JobOrder'
      BY <1>0, <1>4, <1>5, <2>3, <2>4, <2>5 DEF JobOrder, s
    <2>7. ASSUME NEW u \in Users PROVE UserOrder(u)'
      BY <1>2, <1>3, <1>5, <2>7 DEF UserOrder, RetryLabels
    <2>8. QED
      BY <1>4, <1>5, <2>6, <2>7 DEF OrderInv
  <1>6. ASSUME Over(e), pc[e] # "idle", job'.status # "absent", Around(steps', at[e]),
               \/ steps'[at[e]].status \in {"pending", "done"}
               \/ steps'[at[e]].status # "absent" /\ job'.status \notin Live
        PROVE  OrderInv'
    <2>1. pc'[e] = "idle"
      BY <1>0, <1>6, OverEffect DEF Places
    <2>2. ExecutorOrder(e)'
      BY <2>1 DEF ExecutorOrder
    <2>3. steps'[at[e]].status # "absent"
      BY <1>6
    <2>4. QED
      BY <1>5, <1>6, <2>2, <2>3
  <1>7. ASSUME NEW l \in ExecutorLabels \ {"idle"}, pc' = [pc EXCEPT ![e] = l], pc[e] # "idle",
               at' = at, job'.status # "absent", Around(steps', at[e]),
               steps'[at[e]].status # "absent", pc'[e] = l => ExecutorOrder(e)'
        PROVE  OrderInv'
    <2>1. pc'[e] = l
      BY <1>0, <1>7 DEF Places
    <2>2. QED
      BY <1>5, <1>7, <2>1
  <1>8. ASSUME NEW r, mine' = [mine EXCEPT ![e] = r] PROVE mine'[e] = r
    BY <1>0, <1>8 DEF TypeOK
  <1> USE DEF rows, locals, ledgerVars
  <1>9. CASE Pick(e)
    <2> DEFINE s == NextPending(steps)
    <2>1. /\ server = "up" /\ pc[e] = "idle" /\ Free /\ job.status \in Live /\ s # 0
          /\ pc' = [pc EXCEPT ![e] = "start"] /\ at' = [at EXCEPT ![e] = s]
          /\ UNCHANGED <<rows, mine>>
      BY <1>9 DEF Pick, Goto
    <2>2. /\ s \in Steps /\ steps[s].status = "pending"
          /\ \A r \in Steps : steps[r].status = "pending" => s <= r
      BY <2>1, NextPendingIs
    <2> HIDE DEF s
    <2>3. Ready(steps)
      BY <1>0, <1>4, <2>1 DEF JobOrder
    <2>4. ~AllAbsent(steps) /\ \A r \in Steps : steps[r].status \in {"pending", "done"}
      BY <2>2, <2>3 DEF Ready, AllAbsent
    <2>5. Around(steps, s)
      <3>1. ASSUME NEW r \in Steps, r < s PROVE steps[r].status = "done"
        BY <2>2, <2>4, <3>1 DEF Steps
      <3>2. ASSUME NEW r \in Steps, r > s PROVE steps[r].status = "pending"
        <4>1. s \in 1..(r - 1)
          BY <2>2, <3>2 DEF Steps
        <4>2. steps[r].status # "done"
          BY <1>0, <2>2, <4>1 DEF JobOrder, StepsInOrder
        <4>3. QED
          BY <2>4, <4>2
      <3>3. QED
        BY <3>1, <3>2 DEF Around
    <2>6. pc'[e] = "start" /\ at'[e] = s
      BY <1>0, <2>1 DEF Places, TypeOK
    <2>7. ExecutorOrder(e)'
      BY <2>1, <2>2, <2>5, <2>6 DEF ExecutorOrder, Around, Live
    <2>8. JobOrder'
      BY <1>0, <1>4, <2>1, <2>6 DEF JobOrder, StepsInOrder, AllAbsent
    <2>9. ASSUME NEW u \in Users PROVE UserOrder(u)'
      BY <1>2, <2>1, <2>4, <2>9 DEF UserOrder, RetryLabels
    <2>10. QED
      BY <1>4, <2>7, <2>8, <2>9 DEF OrderInv
  <1>10. CASE Start(e) \/ ReadFail(e) \/ ReadDraft(e)
    <2>1. UNCHANGED <<rows, ledgerVars>> /\ pc[e] \in {"start", "fail", "draft"}
      BY <1>10 DEF Start, ReadFail, ReadDraft, ReadJob
    <2>2. CASE Over(e)
      <3>1. pc[e] = "draft" \/ job.status = "cancelled" \/ pc[e] = "start"
        <4>1. pc'[e] = "idle"
          BY <1>0, <2>1, <2>2, OverEffect DEF Places
        <4>2. pc[e] = "fail" /\ job.status # "cancelled" => pc' = [pc EXCEPT ![e] = "failLoad"]
          BY <1>10 DEF Start, ReadFail, ReadDraft, ReadJob, Goto
        <4>3. pc' = [pc EXCEPT ![e] = "failLoad"] => pc'[e] = "failLoad"
          BY <1>0 DEF Places
        <4>4. QED
          BY <2>1, <4>1, <4>2, <4>3
      <3>2. steps[at[e]].status \in {"pending", "done"} \/ job.status = "cancelled"
        BY <1>0, <3>1 DEF ExecutorOrder
      <3>3. QED
        BY <1>3, <1>6, <2>1, <2>2, <3>2 DEF Live
    <2>3. CASE ~Over(e)
      <3>1. /\ UNCHANGED at /\ mine' = [mine EXCEPT ![e] = job]
            /\ \/ pc[e] = "start" /\ pc' = [pc EXCEPT ![e] = "claim"]
               \/ pc[e] = "fail" /\ pc' = [pc EXCEPT ![e] = "failLoad"]
               \/ pc[e] = "draft" /\ \E l \in {"saveDraft", "settleDraft"} :
                                        pc' = [pc EXCEPT ![e] = l]
        BY <1>10, <2>3 DEF Start, ReadFail, ReadDraft, ReadJob, Keep, Goto
      <3>2. mine'[e] = job
        BY <1>8, <3>1
      <3>3. PICK l \in {"claim", "failLoad", "saveDraft", "settleDraft"} :
                /\ pc' = [pc EXCEPT ![e] = l]
                /\ \/ pc[e] = "start" /\ l = "claim"
                   \/ pc[e] = "fail" /\ l = "failLoad"
                   \/ pc[e] = "draft" /\ l \in {"saveDraft", "settleDraft"}
        BY <3>1
      <3>4. pc'[e] = l => ExecutorOrder(e)'
        BY <1>0, <1>3, <2>1, <3>1, <3>2, <3>3 DEF ExecutorOrder, Around
      <3>5. QED
        BY <1>3, <1>7, <2>1, <3>1, <3>3, <3>4 DEF ExecutorLabels
    <2>4. QED
      BY <2>2, <2>3
  <1>11. CASE Claim(e)
    <2>1. pc[e] = "claim" /\ steps[at[e]].status = "pending" /\ at[e] \in Steps
      BY <1>0, <1>11 DEF Claim, ExecutorOrder
    <2>2. /\ UNCHANGED <<ledgerVars, job, locals>> /\ pc' = [pc EXCEPT ![e] = "begin"]
          /\ steps' = [steps EXCEPT ![at[e]].status = "running"]
      BY <1>11, <2>1 DEF Claim, Goto
    <2>3. \A r \in Steps : r # at[e] => steps'[r] = steps[r]
      BY <1>0, <2>1, <2>2
    <2>4. steps'[at[e]].status = "running"
      BY <1>0, <2>1, <2>2 DEF StepRow
    <2>5. Around(steps', at[e])
      BY <1>3, <2>1, <2>3, AroundStep
    <2>6. pc'[e] = "begin" => ExecutorOrder(e)'
      BY <1>3, <2>1, <2>2, <2>4, <2>5 DEF ExecutorOrder, Around
    <2>7. QED
      BY <1>3, <1>7, <2>1, <2>2, <2>4, <2>5, <2>6 DEF ExecutorLabels
  <1>12. CASE Begin(e)
    <2>1. /\ pc[e] = "begin" /\ pc' = [pc EXCEPT ![e] = "work"]
          /\ job' = [mine[e] EXCEPT !.status = "processing", !.current = at[e]]
          /\ UNCHANGED <<ledgerVars, steps, at>>
      BY <1>12 DEF Begin, Goto
    <2>2. job'.status = "processing"
      BY <1>0, <2>1 DEF JobRow
    <2>3. pc'[e] = "work" => ExecutorOrder(e)'
      BY <1>0, <1>3, <2>1, <2>2 DEF ExecutorOrder, Around
    <2>4. QED
      BY <1>3, <1>7, <2>1, <2>2, <2>3 DEF ExecutorLabels
  <1>13. CASE Work(e)
    <2>1. /\ pc[e] = "work" /\ UNCHANGED <<rows, ledgerVars, locals>>
          /\ \E l \in {"finish", "fail"} : pc' = [pc EXCEPT ![e] = l]
      BY <1>13 DEF Work, Goto
    <2>2. PICK l \in {"finish", "fail"} : pc' = [pc EXCEPT ![e] = l]
      BY <2>1
    <2>3. pc'[e] = l => ExecutorOrder(e)'
      BY <1>0, <1>3, <2>1 DEF ExecutorOrder, Around
    <2>4. QED
      BY <1>3, <1>7, <2>1, <2>2, <2>3 DEF ExecutorLabels
  <1>14. CASE ReadDone(e)
    <2>1. pc[e] = "finish" /\ UNCHANGED <<ledgerVars, rows, at>>
      BY <1>14 DEF ReadDone
    <2>2. PICK l \in {"fail", "finishLoad"} : pc' = [pc EXCEPT ![e] = l]
      BY <1>14 DEF ReadDone, Goto
    <2>3. pc'[e] = l => ExecutorOrder(e)'
      BY <1>0, <1>3, <2>1 DEF ExecutorOrder, Around
    <2>4. QED
      BY <1>3, <1>7, <2>1, <2>2, <2>3 DEF ExecutorLabels
  <1>15. CASE FinishLoad(e) \/ FailLoad(e)
    <2>1. /\ UNCHANGED <<ledgerVars, rows, at, mine>> /\ copy' = [copy EXCEPT ![e] = steps]
          /\ \/ pc[e] = "finishLoad" /\ pc' = [pc EXCEPT ![e] = "finishSave"]
             \/ pc[e] = "failLoad" /\ pc' = [pc EXCEPT ![e] = "failSave"]
      BY <1>15 DEF FinishLoad, FailLoad, LoadSteps, Goto
    <2>2. copy'[e] = steps
      BY <1>0, <2>1 DEF TypeOK
    <2>3. PICK l \in {"finishSave", "failSave"} :
              /\ pc' = [pc EXCEPT ![e] = l]
              /\ \/ pc[e] = "finishLoad" /\ l = "finishSave"
                 \/ pc[e] = "failLoad" /\ l = "failSave"
      BY <2>1
    <2>4. pc'[e] = l => ExecutorOrder(e)'
      BY <1>0, <1>3, <2>1, <2>2, <2>3 DEF ExecutorOrder, Around
    <2>5. QED
      BY <1>3, <1>7, <2>1, <2>3, <2>4 DEF ExecutorLabels
  <1>16. CASE FinishSave(e)
    <2> DEFINE next == Finish(copy[e], at[e])
    <2>1. PICK video \in Artefacts(at[e]) :
              mine' = [mine EXCEPT ![e] = [mine[e] EXCEPT !.status = StatusAfter(next),
                                                          !.current = NextPending(next),
                                                          !.video = mine[e].video \/ video]]
      BY <1>16 DEF FinishSave, Keep
    <2>2. /\ steps' = next /\ pc[e] = "finishSave" /\ UNCHANGED <<ledgerVars, job, at>>
          /\ pc' = [pc EXCEPT ![e] = IF StatusAfter(next) = "done" /\ mine[e].hold # None
                                     THEN "settle" ELSE "saveProgress"]
      BY <1>16 DEF FinishSave, Goto
    <2>3. at[e] \in Steps /\ copy[e] = steps /\ steps[at[e]].status = "running"
      BY <1>0, <2>2 DEF ExecutorOrder
    <2>4. /\ \A r \in Steps : r # at[e] => next[r] = steps[r]
          /\ next[at[e]].status = "done"
      BY <1>0, <2>3, FinishSteps
    <2> HIDE DEF next
    <2>5. Around(next, at[e])
      BY <1>3, <2>2, <2>3, <2>4, AroundStep
    <2>6. \A r \in Steps : next[r].status \in {"pending", "done"}
      BY <2>3, <2>4, <2>5 DEF Around, Steps
    <2>7. StatusAfter(next) \in {"processing", "done"}
      BY <2>6 DEF StatusAfter
    <2>8. mine'[e].status = StatusAfter(next)
      <3>1. mine'[e] = [mine[e] EXCEPT !.status = StatusAfter(next),
                                       !.current = NextPending(next),
                                       !.video = mine[e].video \/ video]
        BY <1>8, <2>1
      <3>2. QED
        BY <1>0, <3>1 DEF JobRow
    <2>9. PICK l \in {"settle", "saveProgress"} :
              pc' = [pc EXCEPT ![e] = l] /\ (l = "settle" => StatusAfter(next) = "done")
      <3>1. CASE StatusAfter(next) = "done" /\ mine[e].hold # None
        BY <2>2, <3>1
      <3>2. CASE ~(StatusAfter(next) = "done" /\ mine[e].hold # None)
        BY <2>2, <3>2
      <3>3. QED
        BY <3>1, <3>2
    <2>10. pc'[e] = l => ExecutorOrder(e)'
      BY <1>3, <2>2, <2>4, <2>5, <2>7, <2>8, <2>9 DEF ExecutorOrder, Around
    <2>11. QED
      BY <1>3, <1>7, <2>2, <2>4, <2>5, <2>9, <2>10 DEF ExecutorLabels
  <1>17. CASE SettleAll(e) \/ SettleDraft(e)
    <2>1. /\ pc[e] \in {"settle", "settleDraft"} /\ UNCHANGED <<rows, locals>>
          /\ \E l \in {"saveProgress", "saveDraft", "fail"} :
                /\ pc' = [pc EXCEPT ![e] = l]
                /\ l = "saveProgress" => pc[e] = "settle"
                /\ l = "saveDraft" => pc[e] = "settleDraft"
      BY <1>17 DEF SettleAll, SettleDraft, Goto
    <2>2. PICK l \in {"saveProgress", "saveDraft", "fail"} :
                /\ pc' = [pc EXCEPT ![e] = l]
                /\ l = "saveProgress" => pc[e] = "settle"
                /\ l = "saveDraft" => pc[e] = "settleDraft"
      BY <2>1
    <2>3. pc'[e] = l => ExecutorOrder(e)'
      BY <1>0, <1>3, <2>1, <2>2 DEF ExecutorOrder, Around
    <2>4. QED
      BY <1>3, <1>7, <2>1, <2>2, <2>3 DEF ExecutorLabels
  <1>18. CASE SaveProgress(e)
    <2>1. /\ pc[e] = "saveProgress" /\ job' = mine[e] /\ UNCHANGED <<ledgerVars, steps>>
          /\ \/ Over(e)
             \/ \E l \in {"pause", "draft"} : pc' = [pc EXCEPT ![e] = l] /\ UNCHANGED locals
      BY <1>18 DEF SaveProgress, Goto
    <2>2. mine[e].status \in {"processing", "done"} /\ steps[at[e]].status = "done"
      BY <1>0, <2>1 DEF ExecutorOrder
    <2>3. CASE Over(e)
      BY <1>3, <1>6, <2>1, <2>2, <2>3
    <2>4. CASE ~Over(e)
      <3>1. PICK l \in {"pause", "draft"} : pc' = [pc EXCEPT ![e] = l] /\ UNCHANGED locals
        BY <2>1, <2>4
      <3>2. pc'[e] = l => ExecutorOrder(e)'
        BY <1>0, <1>3, <2>1, <2>2, <3>1 DEF ExecutorOrder, Around
      <3>3. QED
        BY <1>3, <1>7, <2>1, <2>2, <3>1, <3>2 DEF ExecutorLabels
    <2>5. QED
      BY <2>3, <2>4
  <1>19. CASE Pause(e)
    <2> DEFINE waits == mine[e].status \notin {"done", "failed"} /\ NextPending(copy[e]) # 0
    <2>1. /\ pc[e] = "pause" /\ job' = [mine[e] EXCEPT !.waiting = waits]
          /\ UNCHANGED <<ledgerVars, steps>>
          /\ Over(e) \/ (pc' = [pc EXCEPT ![e] = "draft"] /\ UNCHANGED locals)
      BY <1>19 DEF Pause, Goto
    <2> HIDE DEF waits
    <2>2. mine[e].status \in {"processing", "done"} /\ steps[at[e]].status = "done"
      BY <1>0, <2>1 DEF ExecutorOrder
    <2>3. job'.status = mine[e].status
      BY <1>0, <2>1 DEF JobRow
    <2>4. CASE Over(e)
      BY <1>3, <1>6, <2>1, <2>2, <2>3, <2>4
    <2>5. CASE pc' = [pc EXCEPT ![e] = "draft"] /\ UNCHANGED locals
      <3>1. pc'[e] = "draft" => ExecutorOrder(e)'
        BY <1>0, <1>3, <2>1, <2>2, <2>3, <2>5 DEF ExecutorOrder, Around
      <3>2. QED
        BY <1>3, <1>7, <2>1, <2>2, <2>3, <2>5, <3>1 DEF ExecutorLabels
    <2>6. QED
      BY <2>1, <2>4, <2>5
  <1>20. CASE SaveDraft(e)
    <2>1. /\ pc[e] = "saveDraft" /\ Over(e) /\ UNCHANGED <<ledgerVars, steps>>
          /\ job' = [mine[e] EXCEPT !.hold = None, !.draft = TRUE, !.waiting = TRUE]
      BY <1>20 DEF SaveDraft
    <2>2. mine[e].status # "absent" /\ steps[at[e]].status = "done"
      BY <1>0, <2>1 DEF ExecutorOrder
    <2>3. job'.status = mine[e].status
      BY <1>0, <2>1 DEF JobRow
    <2>4. QED
      BY <1>3, <1>6, <2>1, <2>2, <2>3
  <1>21. CASE FailSave(e)
    <2> DEFINE next == Fail(copy[e], at[e])
    <2>1. /\ steps' = next /\ pc[e] = "failSave" /\ UNCHANGED <<ledgerVars, job, at>>
          /\ \/ /\ pc' = [pc EXCEPT ![e] = "saveFailed"] /\ GivenUp(copy[e], at[e])
                /\ mine' = [mine EXCEPT ![e] = [mine[e] EXCEPT !.status = "failed"]]
             \/ /\ pc' = [pc EXCEPT ![e] = "saveRetry"] /\ ~GivenUp(copy[e], at[e])
                /\ mine' = [mine EXCEPT ![e] = [mine[e] EXCEPT !.status = StatusAfter(next),
                                                               !.current = NextPending(next)]]
      BY <1>21 DEF FailSave, Goto, Keep
    <2>2. copy[e] = steps /\ at[e] \in Steps
      BY <1>0, <2>1 DEF ExecutorOrder
    <2>3. /\ \A r \in Steps : r # at[e] => next[r] = steps[r]
          /\ next[at[e]].status = IF GivenUp(steps, at[e]) THEN "failed" ELSE "pending"
      BY <1>0, <2>2, FailSteps
    <2> HIDE DEF next
    <2>4. Around(next, at[e]) /\ next[at[e]].status # "absent"
      BY <1>3, <2>1, <2>2, <2>3, AroundStep
    <2>5. CASE GivenUp(steps, at[e])
      <3>1. /\ pc' = [pc EXCEPT ![e] = "saveFailed"] /\ next[at[e]].status = "failed"
            /\ mine' = [mine EXCEPT ![e] = [mine[e] EXCEPT !.status = "failed"]]
        BY <2>1, <2>2, <2>3, <2>5
      <3>2. mine'[e].status = "failed"
        <4>1. mine'[e] = [mine[e] EXCEPT !.status = "failed"]
          BY <1>8, <3>1
        <4>2. QED
          BY <1>0, <4>1 DEF JobRow
      <3>3. pc'[e] = "saveFailed" => ExecutorOrder(e)'
        BY <1>3, <2>1, <2>4, <3>1, <3>2 DEF ExecutorOrder, Around
      <3>4. QED
        BY <1>3, <1>7, <2>1, <2>4, <3>1, <3>3 DEF ExecutorLabels
    <2>6. CASE ~GivenUp(steps, at[e])
      <3>1. /\ pc' = [pc EXCEPT ![e] = "saveRetry"] /\ next[at[e]].status = "pending"
            /\ mine' = [mine EXCEPT ![e] = [mine[e] EXCEPT !.status = StatusAfter(next),
                                                           !.current = NextPending(next)]]
        BY <2>1, <2>2, <2>3, <2>6
      <3>2. mine'[e].status = StatusAfter(next)
        <4>1. mine'[e] = [mine[e] EXCEPT !.status = StatusAfter(next),
                                         !.current = NextPending(next)]
          BY <1>8, <3>1
        <4>2. QED
          BY <1>0, <4>1 DEF JobRow
      <3>3. \A r \in Steps : next[r].status \in {"pending", "done"}
        BY <2>2, <2>4, <3>1 DEF Around, Steps
      <3>4. StatusAfter(next) = "processing"
        BY <2>2, <3>1, <3>3 DEF StatusAfter
      <3>5. pc'[e] = "saveRetry" => ExecutorOrder(e)'
        BY <1>3, <2>1, <2>4, <3>1, <3>2, <3>4 DEF ExecutorOrder, Around
      <3>6. QED
        BY <1>3, <1>7, <2>1, <2>4, <3>1, <3>5 DEF ExecutorLabels
    <2>7. QED
      BY <2>5, <2>6
  <1>22. CASE SaveRetry(e)
    <2>1. pc[e] = "saveRetry" /\ job' = mine[e] /\ Over(e) /\ UNCHANGED <<ledgerVars, steps>>
      BY <1>22 DEF SaveRetry
    <2>2. mine[e].status = "processing" /\ steps[at[e]].status = "pending"
      BY <1>0, <2>1 DEF ExecutorOrder
    <2>3. QED
      BY <1>3, <1>6, <2>1, <2>2
  <1>23. CASE SaveFailed(e)
    <2>1. /\ pc[e] = "saveFailed" /\ job' = mine[e] /\ UNCHANGED <<ledgerVars, steps, locals>>
          /\ pc' = [pc EXCEPT ![e] = "refund"]
      BY <1>23 DEF SaveFailed, Goto
    <2>2. mine[e].status = "failed"
      BY <1>0, <2>1 DEF ExecutorOrder
    <2>3. pc'[e] = "refund" => ExecutorOrder(e)'
      BY <1>0, <1>3, <2>1, <2>2 DEF ExecutorOrder, Around
    <2>4. QED
      BY <1>3, <1>7, <2>1, <2>2, <2>3 DEF ExecutorLabels
  <1>24. CASE RefundMine(e)
    <2>1. pc[e] = "refund" /\ Over(e) /\ UNCHANGED rows
      BY <1>24 DEF RefundMine
    <2>2. job.status = "failed"
      BY <1>0, <2>1 DEF ExecutorOrder
    <2>3. QED
      BY <1>3, <1>6, <2>1, <2>2 DEF Live
  <1>25. QED
    BY <1>9, <1>10, <1>11, <1>12, <1>13, <1>14, <1>15, <1>16, <1>17, <1>18, <1>19, <1>20,
       <1>21, <1>22, <1>23, <1>24 DEF ExecutorStep

\* a request keeps it, whatever the executor does meanwhile,
LEMMA OrderUser ==
    ASSUME TypeInv, TypeInv', Unrendered, OrderInv, NEW u \in Users, UserStep(u), OthersRest(u)
    PROVE  OrderInv'
  <1>0. /\ TypeOK /\ TypeOK' /\ Places /\ u \in Actors /\ u \notin Executors
        /\ JobOrder /\ UserOrder(u)
        /\ pc[u] # "idle" => server = "up"
        /\ mine[u] \in JobRow /\ job \in JobRow /\ job' \in JobRow
        /\ copy[u] \in [Steps -> StepRow] /\ steps \in [Steps -> StepRow]
    BY DEF TypeInv, AloneInv, Places, Actors, OrderInv, TypeOK
  <1>1. pc[u] = "idle" => Free
    BY DEF UserStep, CallCreate, CreateFreeze, Freeze, CreateJob, CreateSteps, CallCancel,
       Cancel, CallAdvance, Advance, CallRetry, RetryLoad, LoadSteps, RetrySave, RetryFreeze,
       RetryJob, CallRender, RenderFreeze, RenderLoad, RenderSave, RenderJob, RefundMine, Request
  <1>2. ASSUME NEW v \in Users \ {u}
        PROVE  /\ pc'[v] = pc[v] /\ mine'[v] = mine[v] /\ copy'[v] = copy[v] /\ UserOrder(v)
               /\ pc[v] \notin RetryLabels \cup {"advance"}
    <2>1. v \in Actors \ {u} /\ u \in Actors \ {v}
      BY <1>0 DEF Actors
    <2>2. pc[v] \notin RetryLabels \cup {"advance"}
      <3>1. SUFFICES ASSUME pc[v] \in RetryLabels \cup {"advance"} PROVE FALSE
        OBVIOUS
      <3>2. asked[v] \notin Overlapping \cup {None} /\ pc[u] = "idle"
        BY <2>1, <3>1, Loners
      <3>3. QED
        BY <1>1, <3>2 DEF Free
    <2>3. QED
      BY <2>1, <2>2 DEF OthersRest, OrderInv
  <1>3. ASSUME NEW e \in Executors
        PROVE  /\ pc'[e] = pc[e] /\ at'[e] = at[e] /\ mine'[e] = mine[e] /\ copy'[e] = copy[e]
               /\ ExecutorOrder(e)
               /\ pc[e] # "idle" => ~AllAbsent(steps) /\ job.status # "absent"
    <2>1. e \in Actors \ {u} /\ ExecutorOrder(e)
      BY <1>0 DEF Actors, OrderInv
    <2>2. ASSUME pc[e] # "idle" PROVE ~AllAbsent(steps)
      <3>1. at[e] \in Steps /\ pc[e] \in ExecutorLabels
        BY <1>0, <2>2 DEF Places
      <3>2. steps[at[e]].status # "absent"
        BY <2>1, <2>2, <3>1 DEF ExecutorOrder, ExecutorLabels
      <3>3. QED
        BY <3>1, <3>2 DEF AllAbsent
    <2>3. QED
      BY <2>1, <2>2 DEF OthersRest, ExecutorOrder
  <1>4. server' = server
    BY DEF OthersRest
  <1>5. ASSUME UNCHANGED steps, UserOrder(u)',
               job.status # "absent" => job'.status # "absent",
               job.status = "failed" =>
                   job'.status = "failed" \/ \A e \in Executors : pc[e] = "idle",
               job'.status \in Live => job.status \in Live \/ Ready(steps),
               pc'[u] = "createSteps" => \A v \in Users \ {u} : pc[v] # "createSteps"
        PROVE  OrderInv'
    <2>1. ASSUME NEW e \in Executors PROVE ExecutorOrder(e)'
      BY <1>3, <1>5, <2>1 DEF ExecutorOrder, Around
    <2>2. ASSUME NEW v \in Users \ {u} PROVE UserOrder(v)'
      <3>1. pc[v] = "createSteps" => \A w \in Users \ {v} : pc'[w] # "createSteps"
        BY <1>2, <1>5 DEF UserOrder
      <3>2. QED
        BY <1>2, <1>5, <3>1 DEF UserOrder, RetryLabels, AllAbsent
    <2>3. JobOrder'
      BY <1>0, <1>3, <1>4, <1>5 DEF JobOrder, StepsInOrder, AllAbsent, Ready
    <2>4. QED
      BY <1>5, <2>1, <2>2, <2>3 DEF OrderInv
  <1>6. ASSUME Over(u) PROVE pc'[u] = "idle" /\ UserOrder(u)'
    <2>1. pc'[u] = "idle"
      BY <1>0, <1>6, OverEffect DEF Places
    <2>2. QED
      BY <2>1 DEF UserOrder, RetryLabels
  <1>7. ASSUME Over(u), UNCHANGED rows PROVE OrderInv'
    BY <1>5, <1>6, <1>7 DEF rows
  <1>8. ASSUME NEW l, pc' = [pc EXCEPT ![u] = l] PROVE pc'[u] = l
    BY <1>0, <1>8 DEF Places
  <1>9. ASSUME NEW r, mine' = [mine EXCEPT ![u] = r] PROVE mine'[u] = r
    BY <1>0, <1>9 DEF TypeOK
  <1> USE DEF rows, locals, ledgerVars
  <1>10. ASSUME NEW l \in {"cancel", "advance", "retryLoad"}, NEW op,
                Request(u, op), Keep(u, job), Goto(u, l), job.status # "absent",
                l = "advance" => job.status \in Live, l = "retryLoad" => job.status = "failed"
         PROVE  OrderInv'
    <2>1. UNCHANGED rows
      BY <1>10 DEF Request
    <2>2. pc'[u] = l /\ mine'[u] = job
      BY <1>8, <1>9, <1>10 DEF Goto, Keep
    <2>3. UserOrder(u)'
      BY <1>10, <2>1, <2>2 DEF UserOrder, RetryLabels
    <2>4. QED
      BY <1>5, <2>1, <2>2, <2>3
  <1>11. ASSUME NEW from, NEW l, Freeze(u, from, l),
                \/ from = "createFreeze" /\ l = "createJob"
                \/ from = "retryFreeze" /\ l = "retryJob"
         PROVE  OrderInv'
    <2>1. pc[u] = from /\ UNCHANGED rows
      BY <1>11 DEF Freeze
    <2>2. CASE Over(u)
      BY <1>7, <2>1, <2>2
    <2>3. ASSUME NEW h \in Holds,
                 mine' = [mine EXCEPT ![u] = [mine[u] EXCEPT !.hold = h]], Goto(u, l)
          PROVE  OrderInv'
      <3>1. pc'[u] = l /\ mine'[u] = [mine[u] EXCEPT !.hold = h]
        BY <1>8, <1>9, <2>3 DEF Goto
      <3>2. mine'[u].status = mine[u].status
        BY <1>0, <3>1 DEF JobRow
      <3>3. UserOrder(u)'
        BY <1>0, <1>11, <2>1, <3>1, <3>2 DEF UserOrder, RetryLabels, Ready, AllAbsent
      <3>4. QED
        BY <1>5, <1>11, <2>1, <3>1, <3>3
    <2>4. QED
      BY <1>11, <2>2, <2>3 DEF Freeze
  <1>12. CASE CallCreate(u)
    <2>1. PICK mode \in Modes :
              mine' = [mine EXCEPT ![u] =
                  [NoJob EXCEPT !.status = "pending", !.manual = mode.manual,
                                !.waiting = mode.manual, !.draftMode = mode.draftMode,
                                !.video = mode.video]]
      BY <1>12 DEF CallCreate, Keep
    <2>2. mine'[u].status = "pending"
      <3>1. mine'[u] = [NoJob EXCEPT !.status = "pending", !.manual = mode.manual,
                                     !.waiting = mode.manual, !.draftMode = mode.draftMode,
                                     !.video = mode.video]
        BY <1>9, <2>1
      <3>2. QED
        BY <3>1 DEF NoJob
    <2>3. UNCHANGED rows /\ pc' = [pc EXCEPT ![u] = "createFreeze"]
      BY <1>12 DEF CallCreate, Request, Goto
    <2>4. pc'[u] = "createFreeze"
      BY <1>8, <2>3
    <2>5. UserOrder(u)'
      BY <2>2, <2>4 DEF UserOrder, RetryLabels
    <2>6. QED
      BY <1>5, <2>3, <2>4, <2>5
  <1>13. CASE CreateFreeze(u) \/ RetryFreeze(u)
    BY <1>11, <1>13 DEF CreateFreeze, RetryFreeze
  <1>14. CASE CreateJob(u)
    <2>1. CASE job.status = "absent"
      <3>1. /\ pc[u] = "createJob" /\ job' = mine[u] /\ UNCHANGED <<ledgerVars, steps, locals>>
            /\ pc' = [pc EXCEPT ![u] = "createSteps"]
        BY <1>14, <2>1 DEF CreateJob, Goto
      <3>2. AllAbsent(steps) /\ pc'[u] = "createSteps" /\ mine[u].status = "pending"
        BY <1>0, <1>8, <2>1, <3>1 DEF JobOrder, UserOrder
      <3>3. \A v \in Users \ {u} : pc[v] # "createSteps" /\ pc'[v] # "createSteps"
        BY <1>2, <2>1 DEF UserOrder
      <3>4. UserOrder(u)'
        BY <3>1, <3>2, <3>3 DEF UserOrder, RetryLabels, AllAbsent
      <3>5. Ready(steps)
        BY <3>2 DEF Ready
      <3>6. QED
        BY <1>5, <2>1, <3>1, <3>2, <3>3, <3>4, <3>5
    <2>2. CASE job.status # "absent"
      <3>1. UNCHANGED rows /\ pc' = [pc EXCEPT ![u] = "refund"]
        BY <1>14, <2>2 DEF CreateJob, Goto
      <3>2. pc'[u] = "refund"
        BY <1>8, <3>1
      <3>3. UserOrder(u)'
        BY <3>2 DEF UserOrder, RetryLabels
      <3>4. QED
        BY <1>5, <3>1, <3>2, <3>3
    <2>3. QED
      BY <2>1, <2>2
  <1>15. CASE CreateSteps(u)
    <2>1. pc[u] = "createSteps" /\ steps' = FreshSteps /\ Over(u) /\ UNCHANGED job
      BY <1>15 DEF CreateSteps
    <2>2. /\ AllAbsent(steps) /\ job.status # "absent"
          /\ \A v \in Users \ {u} : pc[v] # "createSteps"
      BY <1>0, <2>1 DEF UserOrder
    <2>3. \A s \in Steps : steps'[s].status = "pending"
      BY <2>1 DEF FreshSteps, Fresh
    <2>4. ASSUME NEW e \in Executors PROVE ExecutorOrder(e)'
      <3>1. pc'[e] = "idle"
        BY <1>3, <2>2, <2>4
      <3>2. QED
        BY <3>1 DEF ExecutorOrder
    <2>5. ASSUME NEW v \in Users \ {u} PROVE UserOrder(v)'
      BY <1>2, <2>1, <2>2, <2>5 DEF UserOrder, RetryLabels
    <2>6. JobOrder'
      BY <2>1, <2>2, <2>3 DEF JobOrder, StepsInOrder, Ready
    <2>7. QED
      BY <1>6, <2>1, <2>4, <2>5, <2>6 DEF OrderInv
  <1>16. CASE CallCancel(u)
    BY <1>10, <1>16 DEF CallCancel
  <1>17. CASE Cancel(u)
    <2>1. CASE job.status \in Live
      <3>1. /\ job' = [job EXCEPT !.status = "cancelled"] /\ UNCHANGED <<ledgerVars, steps, locals>>
            /\ pc' = [pc EXCEPT ![u] = "refund"]
        BY <1>17, <2>1 DEF Cancel, Goto
      <3>2. job'.status = "cancelled" /\ pc'[u] = "refund"
        BY <1>0, <1>8, <3>1 DEF JobRow
      <3>3. UserOrder(u)'
        BY <3>2 DEF UserOrder, RetryLabels
      <3>4. QED
        BY <1>5, <2>1, <3>1, <3>2, <3>3 DEF Live
    <2>2. CASE job.status \notin Live
      BY <1>7, <1>17, <2>2 DEF Cancel
    <2>3. QED
      BY <2>1, <2>2
  <1>18. CASE CallAdvance(u)
    BY <1>10, <1>18 DEF CallAdvance, Live
  <1>19. CASE Advance(u)
    <2>1. /\ pc[u] = "advance" /\ job' = [mine[u] EXCEPT !.waiting = FALSE] /\ Over(u)
          /\ UNCHANGED steps
      BY <1>19 DEF Advance
    <2>2. mine[u] = job /\ job.status \in Live
      BY <1>0, <2>1 DEF UserOrder
    <2>3. job'.status = job.status
      BY <1>0, <2>1, <2>2 DEF JobRow
    <2>4. QED
      BY <1>5, <1>6, <2>1, <2>2, <2>3
  <1>20. CASE CallRetry(u)
    BY <1>10, <1>20 DEF CallRetry
  <1>21. CASE RetryLoad(u)
    <2>1. /\ UNCHANGED rows /\ copy' = [copy EXCEPT ![u] = steps]
          /\ pc[u] = "retryLoad" /\ pc' = [pc EXCEPT ![u] = "retrySave"]
      BY <1>21 DEF RetryLoad, LoadSteps, Goto
    <2>2. copy'[u] = steps /\ pc'[u] = "retrySave"
      BY <1>0, <1>8, <2>1 DEF TypeOK
    <2>3. UserOrder(u)'
      BY <1>0, <2>1, <2>2 DEF UserOrder, RetryLabels
    <2>4. QED
      BY <1>5, <2>1, <2>2, <2>3
  <1>22. CASE RetrySave(u)
    <2>1. /\ pc[u] = "retrySave" /\ pc' = [pc EXCEPT ![u] = "retryFreeze"]
          /\ UNCHANGED <<ledgerVars, job, locals>>
          /\ steps' = [s \in Steps |->
                IF copy[u][s].status \in {"done", "absent"}
                THEN [copy[u][s] EXCEPT !.retries = 0] ELSE Fresh]
      BY <1>22 DEF RetrySave, Goto
    <2>2. copy[u] = steps /\ job.status = "failed" /\ pc'[u] = "retryFreeze"
      BY <1>0, <1>8, <2>1 DEF UserOrder, RetryLabels
    <2>3. ASSUME NEW s \in Steps
          PROVE  steps'[s].status = IF steps[s].status \in {"done", "absent"}
                                    THEN steps[s].status ELSE "pending"
      <3>1. steps[s] \in StepRow
        BY <1>0
      <3>2. [steps[s] EXCEPT !.retries = 0].status = steps[s].status
        BY <3>1 DEF StepRow
      <3>3. steps'[s] = IF steps[s].status \in {"done", "absent"}
                        THEN [steps[s] EXCEPT !.retries = 0] ELSE Fresh
        BY <2>1, <2>2
      <3>4. QED
        BY <3>2, <3>3 DEF Fresh
    <2>4. Ready(steps')
      BY <1>0, <2>3 DEF JobOrder, Ready, AllAbsent
    <2>5. StepsInOrder'
      <3>1. \A s \in Steps : steps'[s].status \in {"running", "done"} => steps[s].status = "done"
        BY <2>3
      <3>2. \A s \in Steps : \A r \in 1..(s - 1) : r \in Steps
        BY DEF Steps
      <3>3. QED
        BY <1>0, <2>3, <3>1, <3>2 DEF JobOrder, StepsInOrder
    <2>6. JobOrder'
      <3>1. AllAbsent(steps') \/ \A s \in Steps : steps'[s].status # "absent"
        BY <1>0, <2>3 DEF JobOrder, AllAbsent
      <3>2. QED
        BY <2>1, <2>2, <2>4, <2>5, <3>1 DEF JobOrder, Live
    <2>7. \A a \in Actors \ {u} : pc'[a] = "idle"
      BY <2>1, Loners DEF RetryLabels, OthersRest
    <2>8. UserOrder(u)'
      BY <2>1, <2>2, <2>4 DEF UserOrder, RetryLabels
    <2>9. ASSUME NEW v \in Users \ {u} PROVE UserOrder(v)'
      <3>1. pc'[v] = "idle"
        BY <2>7 DEF Actors
      <3>2. QED
        BY <3>1 DEF UserOrder, RetryLabels
    <2>10. ASSUME NEW e \in Executors PROVE ExecutorOrder(e)'
      <3>1. pc'[e] = "idle"
        BY <1>0, <2>7 DEF Actors
      <3>2. QED
        BY <3>1 DEF ExecutorOrder
    <2>11. QED
      BY <2>6, <2>8, <2>9, <2>10 DEF OrderInv
  <1>23. CASE RetryJob(u)
    <2>1. /\ pc[u] = "retryJob" /\ job' = [mine[u] EXCEPT !.status = "pending", !.current = 0]
          /\ Over(u) /\ UNCHANGED steps
      BY <1>23 DEF RetryJob
    <2>2. Ready(steps) /\ \A a \in Actors \ {u} : pc[a] = "idle"
      BY <1>0, <2>1, Loners DEF UserOrder, RetryLabels
    <2>3. job'.status = "pending"
      BY <1>0, <2>1 DEF JobRow
    <2>4. \A e \in Executors : pc[e] = "idle"
      BY <1>0, <2>2 DEF Actors
    <2>5. QED
      BY <1>5, <1>6, <2>1, <2>2, <2>3, <2>4
  <1>24. CASE CallRender(u) \/ RenderFreeze(u) \/ RenderLoad(u) \/ RenderSave(u) \/ RenderJob(u)
    <2>1. "render" \in Ops \/ pc[u] \in RenderLabels
      BY <1>24 DEF CallRender, Request, RenderFreeze, Freeze, RenderLoad, LoadSteps, RenderSave,
         RenderJob, RenderLabels
    <2>2. QED
      BY <2>1, Loners DEF Unrendered
  <1>25. CASE RefundMine(u)
    BY <1>7, <1>25 DEF RefundMine
  <1>26. QED
    BY <1>12, <1>13, <1>14, <1>15, <1>16, <1>17, <1>18, <1>19, <1>20, <1>21, <1>22, <1>23,
       <1>24, <1>25 DEF UserStep

\* a crash and a restart keep it,
LEMMA OrderBoot ==
    ASSUME TypeInv, OrderInv, Crash \/ RecoverSave \/ RecoverRefund \/ Booted
    PROVE  OrderInv'
  <1>0. JobOrder /\ job \in JobRow
    BY DEF TypeInv, TypeOK, OrderInv
  <1>1. UNCHANGED steps
    BY DEF Crash, RecoverSave, RecoverRefund, Booted, rows
  <1>2. \A a \in Actors : pc'[a] = "idle"
    BY DEF Crash, RecoverSave, RecoverRefund, Booted, TypeInv, AloneInv
  <1>3. job'.status = "absent" => job.status = "absent"
    <2>1. CASE RecoverSave
      <3>1. job' = [job EXCEPT !.status = "failed"]
        BY <2>1 DEF RecoverSave
      <3>2. QED
        BY <1>0, <3>1 DEF JobRow
    <2>2. CASE ~RecoverSave
      BY <2>2 DEF Crash, RecoverRefund, Booted, rows
    <2>3. QED
      BY <2>1, <2>2
  <1>4. server' = "up" => job'.status \notin Live
    BY DEF Crash, RecoverSave, RecoverRefund, Booted, rows
  <1>5. JobOrder'
    BY <1>0, <1>1, <1>3, <1>4 DEF JobOrder, StepsInOrder, AllAbsent
  <1>6. QED
    BY <1>2, <1>5 DEF OrderInv, ExecutorOrder, UserOrder, RetryLabels, Actors

\* so every step does,
LEMMA OrderStep ==
    ASSUME TypeInv, Unrendered, OrderInv, [Next]_vars
    PROVE  OrderInv'
  <1>1. TypeInv'
    BY StepTyped
  <1>2. CASE UNCHANGED vars
    BY <1>2 DEF vars, ledgerVars, rows, locals, server_, OrderInv, JobOrder, StepsInOrder,
       ExecutorOrder, UserOrder, AllAbsent, Ready, Around
  <1>3. ASSUME NEW e \in Executors, ExecutorStep(e) PROVE OrderInv'
    BY <1>1, <1>3, ExecutorTyped, OrderExecutor
  <1>4. ASSUME NEW u \in Users, UserStep(u) PROVE OrderInv'
    BY <1>1, <1>4, UserTyped, OrderUser
  <1>5. QED
    BY <1>2, <1>3, <1>4, OrderBoot DEF Next

\* and there are no steps at first.
LEMMA InitOrder == Init => OrderInv
  BY DEF Init, OrderInv, JobOrder, StepsInOrder, ExecutorOrder, UserOrder, RetryLabels,
     AllAbsent, NoJob, NoSteps, Live, Actors

\* The steps of a job run one after the other, whatever fails or is retried, whatever
\* creations and cancellations race with them, however a call of the credit service ends
\* and wherever the server crashes, when it runs one executor and no render is asked for.
THEOREM StepsRunInOrder == ASSUME Unrendered PROVE Spec => []StepsInOrder
  <1>1. Init => TypeInv /\ OrderInv
    BY InitTyped, InitOrder
  <1>2. TypeInv /\ OrderInv /\ [Next]_vars => (TypeInv /\ OrderInv)'
    BY StepTyped, OrderStep
  <1>3. OrderInv => StepsInOrder
    BY DEF OrderInv, JobOrder
  <1>4. QED
    BY <1>1, <1>2, <1>3, PTL DEF Spec

\* A live job has no step that nobody works on and nobody will pick: the claim that is left
\* when a cancelled job is dropped stays with a job that is over, whatever rows the executor
\* saves as it read them before the cancellation, when it is alone and no render is asked
\* for; crashes and failing credit calls included.
THEOREM StepsAreTended == ASSUME Unrendered PROVE Spec => []NoStepStranded
  <1>1. Init => TypeInv /\ OrderInv
    BY InitTyped, InitOrder
  <1>2. TypeInv /\ OrderInv /\ [Next]_vars => (TypeInv /\ OrderInv)'
    BY StepTyped, OrderStep
  <1>3. TypeInv /\ OrderInv => NoStepStranded
    <2> SUFFICES ASSUME TypeInv, OrderInv, server = "up", job.status \in Live,
                        NEW s \in Steps, steps[s].status \in {"running", "failed"}
                 PROVE  \E e \in Executors : pc[e] # "idle" /\ at[e] = s
      BY DEF NoStepStranded
    <2>1. ~Ready(steps)
      BY DEF Ready, AllAbsent
    <2>2. PICK e \in Executors : pc[e] # "idle"
      BY <2>1 DEF OrderInv, JobOrder
    <2>3. Around(steps, at[e]) /\ at[e] \in 0..NSteps
      BY <2>2 DEF OrderInv, ExecutorOrder, TypeInv, TypeOK, Actors
    <2>4. ~(s < at[e]) /\ ~(s > at[e])
      BY <2>3 DEF Around
    <2>5. s = at[e]
      BY <2>3, <2>4, WorkshopAssumption DEF Steps
    <2>6. QED
      BY <2>2, <2>5
  <1>4. QED
    BY <1>1, <1>2, <1>3, PTL DEF Spec

-----------------------------------------------------------------------------
(* Who knows an open hold *)

Open(h) == h \in Holds /\ status[h] = "open"

\* A request that has a hold nobody else knows.
Carries(u) == pc[u] \in {"createJob", "retryJob"} \/ (pc[u] = "refund" /\ asked[u] = "create")

\* Who names a hold has frozen it.
Frozen ==
    /\ job.hold \in Holds => status[job.hold] # "none"
    /\ \A a \in Actors : mine[a].hold \in Holds => status[mine[a].hold] # "none"

JobHold ==
    /\ server = "up"
    /\ job.status = "absent" => job.hold = None
    /\ \A h \in Holds : Open(h) => 
            job.hold = h \/ \E u \in Users : Carries(u) /\ mine[u].hold = h
    /\ job.status \in Final /\ Open(job.hold) =>
          \E a \in Actors : pc[a] = "refund" /\ mine[a].hold = job.hold

ExecutorHold(e) ==
    /\ pc[e] \in Holding \cup {"pause"} => mine[e].hold = job.hold
    /\ pc[e] = "saveDraft" => ~Open(job.hold)
    /\ pc[e] \in {"saveProgress", "pause"} /\ mine[e].status = "done" => ~Open(job.hold)

UserHold(u) ==
    /\ pc[u] = "cancel" => job.hold \in {mine[u].hold, None}
    /\ pc[u] \in RetryLabels => ~Open(job.hold)

Held ==
    /\ Frozen /\ JobHold
    /\ \A e \in Executors : ExecutorHold(e)
    /\ \A u \in Users : UserHold(u)

HoldInv == crashes = 0 => Held

\* A call that closes a hold.
LEMMA CloseCall ==
    ASSUME TypeInv, Outcomes = {"ok"}, NEW h \in Holds, NEW c \in Nat, NEW outcome \in Outcomes,
           Calls(SettleHold(h, c), outcome) \/ Calls(RefundHold(h), outcome)
    PROVE  /\ status'[h] # "open" /\ (status[h] # "none" => status'[h] # "none")
           /\ \A g \in Holds \ {h} : status'[g] = status[g]
  <1>1. status \in [Holds -> HoldStatus] /\ outcome = "ok"
    BY DEF TypeInv, TypeOK
  <1>2. CASE status[h] = "open"
    BY <1>1, <1>2 DEF Calls, SettleHold, RefundHold, Settle, Refund, ledgerVars
  <1>3. CASE status[h] # "open"
    BY <1>1, <1>3 DEF Calls, SettleHold, RefundHold, ledgerVars
  <1>4. QED
    BY <1>2, <1>3

\* The executor forgets no hold,
LEMMA HoldExecutor ==
    ASSUME TypeInv, TypeInv', Unrendered, Outcomes = {"ok"}, OrderInv, OrderInv', Held,
           NEW e \in Executors, ExecutorStep(e), OthersRest(e)
    PROVE  Held'
  <1>0. /\ TypeOK /\ TypeOK' /\ Places /\ e \in Actors /\ e \notin Users
        /\ Frozen /\ JobHold /\ ExecutorHold(e) /\ ExecutorOrder(e)
        /\ pc[e] # "idle" => server = "up" /\ at[e] \in Steps
        /\ mine[e] \in JobRow /\ job \in JobRow /\ job' \in JobRow
        /\ copy[e] \in [Steps -> StepRow] /\ steps \in [Steps -> StepRow]
        /\ pc[e] # "idle" => job.status # "absent"
    BY DEF TypeInv, AloneInv, Places, Actors, OrderInv, TypeOK, Held, ExecutorOrder
  <1>1. pc[e] = "idle" => Free /\ Pick(e)
    BY DEF ExecutorStep, Pick, Start, ReadJob, Claim, Begin, Work, ReadDone, FinishLoad,
       LoadSteps, FinishSave, SettleAll, SaveProgress, Pause, ReadDraft, SettleDraft,
       SaveDraft, ReadFail, FailLoad, FailSave, SaveRetry, SaveFailed, RefundMine
  <1>2. ASSUME NEW u \in Users
        PROVE  /\ pc[u] \notin RetryLabels /\ u \in Actors \ {e}
               /\ pc'[u] = pc[u] /\ mine'[u] = mine[u] /\ asked'[u] = asked[u] /\ UserHold(u)
    <2>1. u \in Actors \ {e} /\ u \in Users \ {e} /\ UserHold(u)
      BY <1>0 DEF Actors, Held
    <2>2. pc[u] \notin RetryLabels
      BY <1>0, <1>1, <2>1, Loners DEF Free
    <2>3. QED
      BY <2>1, <2>2 DEF OthersRest
  <1>3. \A f \in Executors : f = e
    BY DEF Unrendered
  <1>4. server' = server
    BY DEF OthersRest
  <1>5. ASSUME job'.hold \in {job.hold, None}, job'.hold # job.hold => ~Open(job.hold),
               mine'[e].hold \in {job.hold, mine[e].hold, None},
               \A h \in Holds : /\ status'[h] = "open" => status[h] = "open"
                                /\ status[h] # "none" => status'[h] # "none",
               job'.status # "absent",
               job'.status \in Final /\ Open(job.hold) /\ job'.hold = job.hold =>
                   job.status \in Final \/ (pc'[e] = "refund" /\ mine'[e].hold = job.hold),
               pc[e] = "refund" /\ mine[e].hold \in Holds => status'[mine[e].hold] # "open",
               ExecutorHold(e)'
        PROVE  Held'
    <2>1. ASSUME NEW h \in Holds, Open(h)' PROVE Open(h)
      BY <1>5, <2>1 DEF Open
    <2>2. Frozen'
      <3>1. ASSUME NEW a \in Actors, mine'[a].hold \in Holds PROVE status'[mine'[a].hold] # "none"
        <4>1. CASE a = e
          BY <1>0, <1>5, <3>1, <4>1 DEF Frozen
        <4>2. CASE a # e
          BY <1>0, <1>5, <3>1, <4>2 DEF Frozen, OthersRest
        <4>3. QED
          BY <4>1, <4>2
      <3>2. QED
        BY <1>0, <1>5, <3>1 DEF Frozen
    <2>3. ASSUME NEW h \in Holds, Open(h)'
          PROVE  job'.hold = h \/ \E u \in Users : Carries(u)' /\ mine'[u].hold = h
      <3>1. CASE job.hold = h
        BY <1>5, <2>1, <2>3, <3>1
      <3>2. CASE job.hold # h
        <4>1. PICK u \in Users : Carries(u) /\ mine[u].hold = h
          BY <1>0, <2>1, <2>3, <3>2 DEF JobHold
        <4>2. QED
          BY <1>2, <4>1 DEF Carries
      <3>3. QED
        BY <3>1, <3>2
    <2>4. ASSUME job'.status \in Final, Open(job.hold)'
          PROVE  \E a \in Actors : pc'[a] = "refund" /\ mine'[a].hold = job'.hold
      <3>1. job'.hold \in Holds /\ status'[job'.hold] = "open"
        BY <2>4 DEF Open
      <3>2. job'.hold = job.hold
        BY <1>0, <1>5, <3>1 DEF Places
      <3>3. Open(job.hold)
        BY <1>5, <3>1, <3>2 DEF Open
      <3>4. CASE pc'[e] = "refund" /\ mine'[e].hold = job.hold
        BY <1>0, <3>2, <3>4
      <3>5. CASE job.status \in Final
        <4>1. PICK a \in Actors : pc[a] = "refund" /\ mine[a].hold = job.hold
          BY <1>0, <3>3, <3>5 DEF JobHold
        <4>2. a # e
          BY <1>5, <3>1, <3>2, <4>1
        <4>3. QED
          BY <3>2, <4>1, <4>2 DEF OthersRest
      <3>6. QED
        BY <1>5, <2>4, <3>2, <3>3, <3>4, <3>5
    <2>5. JobHold'
      BY <1>0, <1>4, <1>5, <2>3, <2>4 DEF JobHold
    <2>6. ASSUME NEW u \in Users PROVE UserHold(u)'
      BY <1>2, <1>5, <2>6 DEF UserHold, RetryLabels
    <2>7. QED
      BY <1>3, <1>5, <2>2, <2>5, <2>6 DEF Held
  <1>6. ASSUME Over(e) PROVE /\ pc'[e] = "idle" /\ mine'[e].hold = None /\ ExecutorHold(e)'
    <2>1. pc'[e] = "idle" /\ mine'[e] = NoJob
      BY <1>0, <1>6, OverEffect DEF Places
    <2>2. QED
      BY <2>1 DEF ExecutorHold, Holding, NoJob
  <1>7. ASSUME NEW l, pc' = [pc EXCEPT ![e] = l] PROVE pc'[e] = l
    BY <1>0, <1>7 DEF Places
  <1>8. ASSUME NEW r, mine' = [mine EXCEPT ![e] = r] PROVE mine'[e] = r
    BY <1>0, <1>8 DEF TypeOK
  <1>9. ASSUME UNCHANGED <<rows, status>>, pc[e] # "idle", pc[e] # "refund",
               mine'[e].hold \in {job.hold, mine[e].hold, None}, ExecutorHold(e)'
        PROVE  Held'
    BY <1>0, <1>5, <1>9 DEF rows
  <1> USE DEF rows, locals, ledgerVars
  <1>10. CASE Pick(e)
    <2>1. /\ job.status \in Live /\ pc' = [pc EXCEPT ![e] = "start"] /\ pc[e] = "idle"
          /\ UNCHANGED <<ledgerVars, rows, mine>>
      BY <1>10 DEF Pick, Goto
    <2>2. pc'[e] = "start"
      BY <1>7, <2>1
    <2>3. ExecutorHold(e)'
      BY <2>2 DEF ExecutorHold, Holding
    <2>4. QED
      BY <1>5, <2>1, <2>3 DEF Live
  <1>11. CASE Start(e) \/ ReadFail(e) \/ ReadDraft(e)
    <2>1. UNCHANGED <<rows, ledgerVars>> /\ pc[e] \in {"start", "fail", "draft"}
      BY <1>11 DEF Start, ReadFail, ReadDraft, ReadJob
    <2>2. CASE Over(e)
      BY <1>6, <1>9, <2>1, <2>2
    <2>3. CASE ~Over(e)
      <3>1. /\ mine' = [mine EXCEPT ![e] = job]
            /\ \/ pc' = [pc EXCEPT ![e] = "claim"]
               \/ pc' = [pc EXCEPT ![e] = "failLoad"]
               \/ pc' = [pc EXCEPT ![e] = "settleDraft"]
               \/ pc' = [pc EXCEPT ![e] = "saveDraft"] /\ job.hold = None
        BY <1>11, <2>3 DEF Start, ReadFail, ReadDraft, ReadJob, Keep, Goto
      <3>2. /\ mine'[e] = job
            /\ \/ pc'[e] \in {"claim", "failLoad", "settleDraft"}
               \/ pc'[e] = "saveDraft" /\ job.hold = None
        BY <1>7, <1>8, <3>1
      <3>3. ExecutorHold(e)'
        BY <2>1, <3>2 DEF ExecutorHold, Holding, Open
      <3>4. QED
        BY <1>9, <2>1, <3>2, <3>3
    <2>4. QED
      BY <2>2, <2>3
  <1>12. CASE Claim(e)
    <2>1. pc[e] = "claim" /\ UNCHANGED <<job, ledgerVars>>
      BY <1>12 DEF Claim
    <2>2. CASE Over(e)
      BY <1>0, <1>5, <1>6, <2>1, <2>2
    <2>3. CASE ~Over(e)
      <3>1. UNCHANGED mine /\ pc' = [pc EXCEPT ![e] = "begin"]
        BY <1>12, <2>3 DEF Claim, Goto
      <3>2. pc'[e] = "begin"
        BY <1>7, <3>1
      <3>3. ExecutorHold(e)'
        BY <1>0, <2>1, <3>1, <3>2 DEF ExecutorHold, Holding
      <3>4. QED
        BY <1>0, <1>5, <2>1, <3>1, <3>3
    <2>4. QED
      BY <2>2, <2>3
  <1>13. CASE Begin(e)
    <2>1. /\ pc[e] = "begin" /\ pc' = [pc EXCEPT ![e] = "work"]
          /\ job' = [mine[e] EXCEPT !.status = "processing", !.current = at[e]]
          /\ mine' = [mine EXCEPT ![e] = NoJob] /\ UNCHANGED ledgerVars
      BY <1>13 DEF Begin, Goto, Keep
    <2>2. job'.status = "processing" /\ job'.hold = mine[e].hold
      BY <1>0, <2>1 DEF JobRow
    <2>3. pc'[e] = "work" /\ mine'[e] = NoJob /\ mine[e].hold = job.hold
      BY <1>0, <1>7, <1>8, <2>1 DEF ExecutorHold, Holding
    <2>4. ExecutorHold(e)'
      BY <2>3 DEF ExecutorHold, Holding
    <2>5. mine'[e].hold = None
      BY <2>3 DEF NoJob
    <2>6. QED
      BY <1>5, <2>1, <2>2, <2>3, <2>4, <2>5 DEF Final
  <1>14. CASE Work(e)
    <2>1. /\ pc[e] = "work" /\ UNCHANGED <<rows, ledgerVars, locals>>
          /\ pc' = [pc EXCEPT ![e] = "finish"] \/ pc' = [pc EXCEPT ![e] = "fail"]
      BY <1>14 DEF Work, Goto
    <2>2. pc'[e] \in {"finish", "fail"}
      BY <1>7, <2>1
    <2>3. ExecutorHold(e)'
      BY <2>2 DEF ExecutorHold, Holding
    <2>4. QED
      BY <1>9, <2>1, <2>3
  <1>15. CASE ReadDone(e)
    <2>1. pc[e] = "finish" /\ UNCHANGED <<ledgerVars, rows>>
      BY <1>15 DEF ReadDone
    <2>2. \/ pc' = [pc EXCEPT ![e] = "fail"] /\ UNCHANGED mine
          \/ pc' = [pc EXCEPT ![e] = "finishLoad"] /\ mine' = [mine EXCEPT ![e] = job]
      BY <1>15 DEF ReadDone, Goto, Keep
    <2>3. \/ pc'[e] = "fail" /\ UNCHANGED mine
          \/ pc'[e] = "finishLoad" /\ mine'[e] = job
      BY <1>7, <1>8, <2>2
    <2>4. ExecutorHold(e)'
      BY <2>1, <2>3 DEF ExecutorHold, Holding
    <2>5. QED
      BY <1>9, <2>1, <2>3, <2>4
  <1>16. CASE FinishLoad(e) \/ FailLoad(e)
    <2>1. /\ UNCHANGED <<ledgerVars, rows, mine>> /\ pc[e] \in {"finishLoad", "failLoad"}
          /\ pc' = [pc EXCEPT ![e] = "finishSave"] \/ pc' = [pc EXCEPT ![e] = "failSave"]
      BY <1>16 DEF FinishLoad, FailLoad, LoadSteps, Goto
    <2>2. pc'[e] \in {"finishSave", "failSave"}
      BY <1>7, <2>1
    <2>3. ExecutorHold(e)'
      BY <1>0, <2>1, <2>2 DEF ExecutorHold, Holding
    <2>4. QED
      BY <1>9, <2>1, <2>3
  <1>17. CASE FinishSave(e)
    <2> DEFINE next == Finish(copy[e], at[e])
    <2>1. PICK video \in Artefacts(at[e]) :
              mine' = [mine EXCEPT ![e] = [mine[e] EXCEPT !.status = StatusAfter(next),
                                                          !.current = NextPending(next),
                                                          !.video = mine[e].video \/ video]]
      BY <1>17 DEF FinishSave, Keep
    <2>2. /\ pc[e] = "finishSave" /\ UNCHANGED <<ledgerVars, job>>
          /\ pc' = [pc EXCEPT ![e] = IF StatusAfter(next) = "done" /\ mine[e].hold # None
                                     THEN "settle" ELSE "saveProgress"]
      BY <1>17 DEF FinishSave, Goto
    <2> HIDE DEF next
    <2>3. mine'[e].status = StatusAfter(next) /\ mine'[e].hold = mine[e].hold
      <3>1. mine'[e] = [mine[e] EXCEPT !.status = StatusAfter(next),
                                       !.current = NextPending(next),
                                       !.video = mine[e].video \/ video]
        BY <1>8, <2>1
      <3>2. QED
        BY <1>0, <3>1 DEF JobRow
    <2>4. mine[e].hold = job.hold
      BY <1>0, <2>2 DEF ExecutorHold, Holding
    <2>5. pc'[e] = IF StatusAfter(next) = "done" /\ mine[e].hold # None
                   THEN "settle" ELSE "saveProgress"
      BY <1>7, <2>2
    <2>6. ExecutorHold(e)'
      BY <2>2, <2>3, <2>4, <2>5 DEF ExecutorHold, Holding, Open
    <2>7. QED
      BY <1>0, <1>5, <2>2, <2>3, <2>4, <2>6
  <1>18. CASE SettleAll(e) \/ SettleDraft(e)
    <2>1. /\ pc[e] \in {"settle", "settleDraft"} /\ UNCHANGED <<rows, locals>>
          /\ mine[e].hold \in Holds
      BY <1>18 DEF SettleAll, SettleDraft, TypeInv, CallsNamed
    <2>2. PICK outcome \in Outcomes, actual \in Costs :
              /\ Calls(SettleHold(mine[e].hold, actual), outcome)
              /\ \/ pc' = [pc EXCEPT ![e] = "fail"]
                 \/ pc' = [pc EXCEPT ![e] = "saveProgress"]
                 \/ pc' = [pc EXCEPT ![e] = "saveDraft"]
      BY <1>18 DEF SettleAll, SettleDraft, Goto
    <2>3. /\ status'[mine[e].hold] # "open"
          /\ status[mine[e].hold] # "none" => status'[mine[e].hold] # "none"
          /\ \A g \in Holds \ {mine[e].hold} : status'[g] = status[g]
      BY <2>1, <2>2, CloseCall
    <2>4. pc'[e] \in {"fail", "saveProgress", "saveDraft"} /\ mine[e].hold = job.hold
      BY <1>0, <1>7, <2>1, <2>2 DEF ExecutorHold, Holding
    <2>5. ExecutorHold(e)'
      BY <2>1, <2>3, <2>4 DEF ExecutorHold, Holding, Open
    <2>6. \A h \in Holds : /\ status'[h] = "open" => status[h] = "open"
                           /\ status[h] # "none" => status'[h] # "none"
      BY <2>1, <2>3
    <2>7. QED
      BY <1>0, <1>5, <2>1, <2>4, <2>5, <2>6
  <1>19. CASE SaveProgress(e)
    <2>1. /\ pc[e] = "saveProgress" /\ job' = mine[e] /\ UNCHANGED ledgerVars
          /\ \/ Over(e)
             \/ pc' = [pc EXCEPT ![e] = "pause"] /\ UNCHANGED locals
             \/ pc' = [pc EXCEPT ![e] = "draft"] /\ UNCHANGED locals
      BY <1>19 DEF SaveProgress, Goto
    <2>2. /\ mine[e].hold = job.hold /\ mine[e].status \in {"processing", "done"}
          /\ mine[e].status = "done" => ~Open(job.hold)
      BY <1>0, <2>1 DEF ExecutorHold, Holding, ExecutorOrder
    <2>3. ExecutorHold(e)' /\ mine'[e].hold \in {mine[e].hold, None}
      <3>1. CASE Over(e)
        BY <1>6, <3>1
      <3>2. CASE ~Over(e)
        <4>1. pc'[e] \in {"pause", "draft"} /\ UNCHANGED mine
          BY <1>7, <2>1, <3>2
        <4>2. QED
          BY <2>1, <2>2, <4>1 DEF ExecutorHold, Holding, Open
      <3>3. QED
        BY <3>1, <3>2
    <2>4. QED
      BY <1>5, <2>1, <2>2, <2>3 DEF Final
  <1>20. CASE Pause(e)
    <2> DEFINE waits == mine[e].status \notin {"done", "failed"} /\ NextPending(copy[e]) # 0
    <2>1. /\ pc[e] = "pause" /\ job' = [mine[e] EXCEPT !.waiting = waits] /\ UNCHANGED ledgerVars
          /\ Over(e) \/ (pc' = [pc EXCEPT ![e] = "draft"] /\ UNCHANGED locals)
      BY <1>20 DEF Pause, Goto
    <2> HIDE DEF waits
    <2>2. /\ mine[e].hold = job.hold /\ mine[e].status \in {"processing", "done"}
          /\ mine[e].status = "done" => ~Open(job.hold)
      BY <1>0, <2>1 DEF ExecutorHold, ExecutorOrder
    <2>3. job'.status = mine[e].status /\ job'.hold = mine[e].hold
      BY <1>0, <2>1 DEF JobRow
    <2>4. ExecutorHold(e)' /\ mine'[e].hold \in {mine[e].hold, None}
      <3>1. CASE Over(e)
        BY <1>6, <3>1
      <3>2. CASE ~Over(e)
        <4>1. pc'[e] = "draft" /\ UNCHANGED mine
          BY <1>7, <2>1, <3>2
        <4>2. QED
          BY <4>1 DEF ExecutorHold, Holding
      <3>3. QED
        BY <3>1, <3>2
    <2>5. QED
      BY <1>5, <2>1, <2>2, <2>3, <2>4 DEF Final
  <1>21. CASE SaveDraft(e)
    <2>1. /\ pc[e] = "saveDraft" /\ Over(e) /\ UNCHANGED ledgerVars
          /\ job' = [mine[e] EXCEPT !.hold = None, !.draft = TRUE, !.waiting = TRUE]
      BY <1>21 DEF SaveDraft
    <2>2. mine[e].status # "absent" /\ ~Open(job.hold)
      BY <1>0, <2>1 DEF ExecutorOrder, ExecutorHold
    <2>3. job'.status = mine[e].status /\ job'.hold = None
      BY <1>0, <2>1 DEF JobRow
    <2>4. QED
      BY <1>5, <1>6, <2>1, <2>2, <2>3
  <1>22. CASE FailSave(e)
    <2> DEFINE next == Fail(copy[e], at[e])
    <2>1. /\ pc[e] = "failSave" /\ UNCHANGED <<ledgerVars, job>>
          /\ \/ /\ pc' = [pc EXCEPT ![e] = "saveFailed"]
                /\ mine' = [mine EXCEPT ![e] = [mine[e] EXCEPT !.status = "failed"]]
             \/ /\ pc' = [pc EXCEPT ![e] = "saveRetry"]
                /\ mine' = [mine EXCEPT ![e] = [mine[e] EXCEPT !.status = StatusAfter(next),
                                                               !.current = NextPending(next)]]
      BY <1>22 DEF FailSave, Goto, Keep
    <2> HIDE DEF next
    <2>2. pc'[e] \in {"saveFailed", "saveRetry"} /\ mine[e].hold = job.hold
      BY <1>0, <1>7, <2>1 DEF ExecutorHold, Holding
    <2>3. mine'[e].hold = mine[e].hold
      <3>1. \/ mine'[e] = [mine[e] EXCEPT !.status = "failed"]
            \/ mine'[e] = [mine[e] EXCEPT !.status = StatusAfter(next),
                                          !.current = NextPending(next)]
        BY <1>8, <2>1
      <3>2. QED
        BY <1>0, <3>1 DEF JobRow
    <2>4. ExecutorHold(e)'
      BY <2>1, <2>2, <2>3 DEF ExecutorHold, Holding
    <2>5. QED
      BY <1>0, <1>5, <2>1, <2>2, <2>3, <2>4
  <1>23. CASE SaveRetry(e)
    <2>1. pc[e] = "saveRetry" /\ job' = mine[e] /\ Over(e) /\ UNCHANGED ledgerVars
      BY <1>23 DEF SaveRetry
    <2>2. mine[e].hold = job.hold /\ mine[e].status = "processing"
      BY <1>0, <2>1 DEF ExecutorHold, Holding, ExecutorOrder
    <2>3. QED
      BY <1>5, <1>6, <2>1, <2>2 DEF Final
  <1>24. CASE SaveFailed(e)
    <2>1. /\ pc[e] = "saveFailed" /\ job' = mine[e] /\ UNCHANGED <<ledgerVars, locals>>
          /\ pc' = [pc EXCEPT ![e] = "refund"]
      BY <1>24 DEF SaveFailed, Goto
    <2>2. /\ mine[e].hold = job.hold /\ mine[e].status = "failed" /\ pc'[e] = "refund"
      BY <1>0, <1>7, <2>1 DEF ExecutorHold, Holding, ExecutorOrder
    <2>3. ExecutorHold(e)'
      BY <2>2 DEF ExecutorHold, Holding
    <2>4. QED
      BY <1>5, <2>1, <2>2, <2>3
  <1>25. CASE RefundMine(e)
    <2>1. pc[e] = "refund" /\ Over(e) /\ UNCHANGED rows
      BY <1>25 DEF RefundMine
    <2>2. /\ mine[e].hold \in Holds => status'[mine[e].hold] # "open"
          /\ \A h \in Holds : /\ status'[h] = "open" => status[h] = "open"
                              /\ status[h] # "none" => status'[h] # "none"
      <3>1. CASE mine[e].hold = None
        BY <1>25, <2>1, <3>1, <1>6 DEF RefundMine, Open
      <3>2. CASE mine[e].hold # None
        <4>1. mine[e].hold \in Holds /\ 0 \in Nat
          BY <1>0, <3>2 DEF JobRow
        <4>2. PICK outcome \in Outcomes : Calls(RefundHold(mine[e].hold), outcome)
          BY <1>25, <3>2 DEF RefundMine
        <4>3. /\ status'[mine[e].hold] # "open"
              /\ status[mine[e].hold] # "none" => status'[mine[e].hold] # "none"
              /\ \A g \in Holds \ {mine[e].hold} : status'[g] = status[g]
          BY <4>1, <4>2, CloseCall
        <4>4. QED
          BY <1>6, <2>1, <4>1, <4>3 DEF Open
      <3>3. QED
        BY <3>1, <3>2
    <2>3. QED
      BY <1>0, <1>5, <1>6, <2>1, <2>2
  <1>26. QED
    BY <1>10, <1>11, <1>12, <1>13, <1>14, <1>15, <1>16, <1>17, <1>18, <1>19, <1>20,
       <1>21, <1>22, <1>23, <1>24, <1>25 DEF ExecutorStep

\* a request forgets none: it hands the one it froze over to the row, or refunds it,
LEMMA HoldUser ==
    ASSUME TypeInv, TypeInv', Unrendered, Outcomes = {"ok"}, OrderInv, OrderInv', Held,
           NEW u \in Users, UserStep(u), OthersRest(u)
    PROVE  Held'
  <1>0. /\ TypeOK /\ TypeOK' /\ Places /\ u \in Actors /\ u \notin Executors
        /\ Frozen /\ JobHold /\ UserHold(u) /\ UserOrder(u)
        /\ mine[u] \in JobRow /\ job \in JobRow /\ job' \in JobRow
        /\ status \in [Holds -> HoldStatus]
    BY DEF TypeInv, Places, Actors, OrderInv, TypeOK, Held
  <1>1. pc[u] = "idle" => Free
    BY DEF UserStep, CallCreate, CreateFreeze, Freeze, CreateJob, CreateSteps, CallCancel,
       Cancel, CallAdvance, Advance, CallRetry, RetryLoad, LoadSteps, RetrySave, RetryFreeze,
       RetryJob, CallRender, RenderFreeze, RenderLoad, RenderSave, RenderJob, RefundMine, Request
  <1>2. ASSUME NEW v \in Users \ {u}
        PROVE  /\ v \in Actors /\ pc'[v] = pc[v] /\ mine'[v] = mine[v] /\ asked'[v] = asked[v]
               /\ UserHold(v) /\ UserOrder(v) /\ pc[v] \notin RetryLabels
    <2>1. v \in Actors \ {u} /\ u \in Actors \ {v}
      BY <1>0 DEF Actors
    <2>2. pc[v] \notin RetryLabels
      <3>1. SUFFICES ASSUME pc[v] \in RetryLabels PROVE FALSE
        OBVIOUS
      <3>2. asked[v] \notin Overlapping \cup {None} /\ pc[u] = "idle"
        BY <2>1, <3>1, Loners
      <3>3. QED
        BY <1>1, <3>2 DEF Free
    <2>3. QED
      BY <2>1, <2>2 DEF OthersRest, OrderInv, Held
  <1>3. ASSUME NEW e \in Executors
        PROVE  /\ pc'[e] = pc[e] /\ mine'[e] = mine[e] /\ ExecutorHold(e)
               /\ pc[e] # "idle" => job.status # "absent"
    BY <1>0 DEF Actors, OthersRest, Held, OrderInv, ExecutorOrder
  <1>4. server' = server
    BY DEF OthersRest
  <1>5. ASSUME job'.hold = job.hold, job'.status = "absent" => job.status = "absent",
               mine'[u].hold \in Holds => status'[mine'[u].hold] # "none",
               \A h \in Holds : /\ status[h] # "none" => status'[h] # "none"
                                /\ status'[h] = "open" =>
                                      \/ status[h] = "open"
                                      \/ status[h] = "none" /\ Carries(u)' /\ mine'[u].hold = h
                                /\ Carries(u) /\ mine[u].hold = h /\ status'[h] = "open" =>
                                      Carries(u)' /\ mine'[u].hold = h,
               job'.status \in Final /\ Open(job.hold) =>
                   job.status \in Final \/ (pc'[u] = "refund" /\ mine'[u].hold = job.hold),
               pc[u] = "refund" /\ mine[u].hold \in Holds => status'[mine[u].hold] # "open",
               UserHold(u)'
        PROVE  Held'
    <2>1. ASSUME job.hold \in Holds, status'[job.hold] = "open" PROVE Open(job.hold)
      BY <1>0, <1>5, <2>1 DEF Open, Frozen
    <2>2. Frozen'
      <3>1. ASSUME NEW a \in Actors, mine'[a].hold \in Holds PROVE status'[mine'[a].hold] # "none"
        <4>1. CASE a = u
          BY <1>5, <3>1, <4>1
        <4>2. CASE a # u
          BY <1>0, <1>5, <3>1, <4>2 DEF Frozen, OthersRest
        <4>3. QED
          BY <4>1, <4>2
      <3>2. QED
        BY <1>0, <1>5, <3>1 DEF Frozen
    <2>3. ASSUME NEW h \in Holds, Open(h)'
          PROVE  job'.hold = h \/ \E v \in Users : Carries(v)' /\ mine'[v].hold = h
      <3>1. status'[h] = "open"
        BY <2>3 DEF Open
      <3>2. CASE status[h] = "none"
        BY <1>5, <3>1, <3>2
      <3>3. CASE status[h] = "open" /\ job.hold # h
        <4>1. PICK v \in Users : Carries(v) /\ mine[v].hold = h
          BY <1>0, <3>3 DEF JobHold, Open
        <4>2. CASE v = u
          BY <1>5, <3>1, <4>1, <4>2
        <4>3. CASE v # u
          BY <1>2, <4>1, <4>3 DEF Carries
        <4>4. QED
          BY <4>2, <4>3
      <3>4. QED
        BY <1>5, <3>1, <3>2, <3>3
    <2>4. ASSUME job'.status \in Final, Open(job.hold)'
          PROVE  \E a \in Actors : pc'[a] = "refund" /\ mine'[a].hold = job'.hold
      <3>1. job.hold \in Holds /\ status'[job.hold] = "open" /\ Open(job.hold)
        BY <1>5, <2>1, <2>4 DEF Open
      <3>2. CASE pc'[u] = "refund" /\ mine'[u].hold = job.hold
        BY <1>0, <1>5, <3>2
      <3>3. CASE job.status \in Final
        <4>1. PICK a \in Actors : pc[a] = "refund" /\ mine[a].hold = job.hold
          BY <1>0, <3>1, <3>3 DEF JobHold
        <4>2. a # u
          BY <1>5, <3>1, <4>1
        <4>3. QED
          BY <1>5, <4>1, <4>2 DEF OthersRest
      <3>4. QED
        BY <1>5, <2>4, <3>1, <3>2, <3>3
    <2>5. JobHold'
      BY <1>0, <1>4, <1>5, <2>3, <2>4 DEF JobHold
    <2>6. ~Open(job.hold) => ~Open(job.hold)'
      BY <1>5, <2>1 DEF Open
    <2>7. ASSUME NEW v \in Users PROVE UserHold(v)'
      <3>1. CASE v = u
        BY <1>5, <3>1
      <3>2. CASE v # u
        BY <1>2, <1>5, <3>2 DEF UserHold
      <3>3. QED
        BY <3>1, <3>2
    <2>8. ASSUME NEW e \in Executors PROVE ExecutorHold(e)'
      BY <1>3, <1>5, <2>6 DEF ExecutorHold
    <2>9. QED
      BY <2>2, <2>5, <2>7, <2>8 DEF Held
  <1>6. ASSUME job'.hold = mine[u].hold, job'.status \in Live, UNCHANGED <<status, server>>,
               mine'[u].hold \in {mine[u].hold, None}, ~Open(job.hold),
               pc'[u] \notin RetryLabels \cup {"cancel"},
               \A v \in Users \ {u} : pc[v] # "cancel", \A e \in Executors : pc[e] = "idle"
        PROVE  Held'
    <2>1. Frozen'
      BY <1>0, <1>6 DEF Frozen, OthersRest
    <2>2. ASSUME NEW h \in Holds, Open(h)'
          PROVE  job'.hold = h \/ \E v \in Users : Carries(v)' /\ mine'[v].hold = h
      <3>1. Open(h) /\ job.hold # h
        BY <1>6, <2>2 DEF Open
      <3>2. PICK v \in Users : Carries(v) /\ mine[v].hold = h
        BY <1>0, <3>1 DEF JobHold
      <3>3. CASE v = u
        BY <1>6, <3>2, <3>3
      <3>4. CASE v # u
        BY <1>2, <3>2, <3>4 DEF Carries
      <3>5. QED
        BY <3>3, <3>4
    <2>3. JobHold'
      BY <1>0, <1>6, <2>2 DEF JobHold, Live, Final
    <2>4. ASSUME NEW v \in Users PROVE UserHold(v)'
      BY <1>2, <1>6 DEF UserHold
    <2>5. ASSUME NEW e \in Executors PROVE ExecutorHold(e)'
      BY <1>3, <1>6 DEF ExecutorHold, Holding
    <2>6. QED
      BY <2>1, <2>3, <2>4, <2>5 DEF Held
  <1>7. ASSUME Over(u) PROVE pc'[u] = "idle" /\ mine'[u].hold = None /\ UserHold(u)' /\ ~Carries(u)'
    <2>1. pc'[u] = "idle" /\ mine'[u] = NoJob
      BY <1>0, <1>7, OverEffect DEF Places
    <2>2. QED
      BY <2>1 DEF UserHold, RetryLabels, NoJob, Carries
  <1>8. ASSUME NEW l, pc' = [pc EXCEPT ![u] = l] PROVE pc'[u] = l
    BY <1>0, <1>8 DEF Places
  <1>9. ASSUME NEW r, mine' = [mine EXCEPT ![u] = r] PROVE mine'[u] = r
    BY <1>0, <1>9 DEF TypeOK
  <1>10. ASSUME job'.hold = job.hold, job'.status = "absent" => job.status = "absent",
                job'.status \in Final => job.status \in Final, UNCHANGED status,
                mine'[u].hold \in {job.hold, mine[u].hold, None}, ~Carries(u), pc[u] # "refund",
                UserHold(u)'
         PROVE  Held'
    <2>1. mine'[u].hold \in Holds => status'[mine'[u].hold] # "none"
      BY <1>0, <1>10 DEF Frozen
    <2>2. QED
      BY <1>5, <1>10, <2>1
  <1> USE DEF rows, locals, ledgerVars
  <1>11. ASSUME NEW l \in {"cancel", "advance", "retryLoad"}, NEW op,
                Request(u, op), Keep(u, job), Goto(u, l), l = "retryLoad" => ~Open(job.hold)
         PROVE  Held'
    <2>1. UNCHANGED <<rows, status>> /\ pc[u] = "idle"
      BY <1>11 DEF Request
    <2>2. pc'[u] = l /\ mine'[u] = job
      BY <1>8, <1>9, <1>11 DEF Goto, Keep
    <2>3. UserHold(u)'
      BY <1>11, <2>1, <2>2 DEF UserHold, RetryLabels, Open
    <2>4. QED
      BY <1>10, <2>1, <2>2, <2>3 DEF Carries
  <1>12. ASSUME NEW from, NEW l, Freeze(u, from, l),
                \/ from = "createFreeze" /\ l = "createJob"
                \/ from = "retryFreeze" /\ l = "retryJob"
         PROVE  Held'
    <2>1. pc[u] = from /\ UNCHANGED rows /\ ~Carries(u) /\ pc[u] # "refund"
      BY <1>12 DEF Freeze, Carries
    <2>2. CASE Over(u) /\ UNCHANGED ledgerVars
      BY <1>7, <1>10, <2>1, <2>2
    <2>3. ASSUME NEW h \in Holds, NEW price \in Amounts, Reserve(h, price),
                 mine' = [mine EXCEPT ![u] = [mine[u] EXCEPT !.hold = h]], Goto(u, l)
          PROVE  Held'
      <3>1. pc'[u] = l /\ mine'[u] = [mine[u] EXCEPT !.hold = h]
        BY <1>8, <1>9, <2>3 DEF Goto
      <3>2. mine'[u].hold = h
        BY <1>0, <3>1 DEF JobRow
      <3>3. /\ status[h] = "none" /\ status'[h] = "open"
            /\ \A g \in Holds \ {h} : status'[g] = status[g]
        BY <1>0, <2>3 DEF Reserve
      <3>4. Carries(u)'
        BY <1>12, <3>1 DEF Carries
      <3>5. UserHold(u)'
        <4>1. pc[u] \in RetryLabels => ~Open(job.hold)
          BY <1>0 DEF UserHold
        <4>2. pc'[u] \in RetryLabels => ~Open(job.hold)'
          <5>1. SUFFICES ASSUME pc'[u] \in RetryLabels PROVE ~Open(job.hold)'
            OBVIOUS
          <5>2. ~Open(job.hold)
            BY <1>12, <2>1, <3>1, <4>1, <5>1 DEF RetryLabels
          <5>3. job.hold # h
            BY <1>0, <3>3 DEF Frozen
          <5>4. QED
            BY <2>1, <3>3, <5>2, <5>3 DEF Open
        <4>3. pc'[u] # "cancel"
          BY <1>12, <3>1
        <4>4. QED
          BY <4>2, <4>3 DEF UserHold
      <3>6. QED
        BY <1>5, <2>1, <3>2, <3>3, <3>4, <3>5
    <2>4. QED
      BY <1>12, <2>2, <2>3 DEF Freeze
  <1>13. CASE CallCreate(u)
    <2>1. PICK mode \in Modes :
              mine' = [mine EXCEPT ![u] =
                  [NoJob EXCEPT !.status = "pending", !.manual = mode.manual,
                                !.waiting = mode.manual, !.draftMode = mode.draftMode,
                                !.video = mode.video]]
      BY <1>13 DEF CallCreate, Keep
    <2>2. mine'[u].hold = None
      <3>1. mine'[u] = [NoJob EXCEPT !.status = "pending", !.manual = mode.manual,
                                     !.waiting = mode.manual, !.draftMode = mode.draftMode,
                                     !.video = mode.video]
        BY <1>9, <2>1
      <3>2. QED
        BY <3>1 DEF NoJob
    <2>3. UNCHANGED <<rows, status>> /\ pc' = [pc EXCEPT ![u] = "createFreeze"] /\ pc[u] = "idle"
      BY <1>13 DEF CallCreate, Request, Goto
    <2>4. pc'[u] = "createFreeze"
      BY <1>8, <2>3
    <2>5. UserHold(u)' /\ ~Carries(u)
      BY <2>3, <2>4 DEF UserHold, RetryLabels, Carries
    <2>6. QED
      BY <1>10, <2>2, <2>3, <2>5
  <1>14. CASE CreateFreeze(u) \/ RetryFreeze(u)
    BY <1>12, <1>14 DEF CreateFreeze, RetryFreeze
  <1>15. CASE CreateJob(u)
    <2>1. CASE job.status = "absent"
      <3>1. /\ pc[u] = "createJob" /\ job' = mine[u] /\ UNCHANGED <<ledgerVars, steps, locals>>
            /\ pc' = [pc EXCEPT ![u] = "createSteps"] /\ UNCHANGED server
        BY <1>4, <1>15, <2>1 DEF CreateJob, Goto
      <3>2. pc'[u] = "createSteps" /\ mine[u].status = "pending" /\ ~Open(job.hold)
        BY <1>0, <1>8, <2>1, <3>1 DEF UserOrder, JobHold, Open
      <3>3. \A v \in Users \ {u} : pc[v] # "cancel"
        BY <1>2, <2>1 DEF UserOrder
      <3>4. \A e \in Executors : pc[e] = "idle"
        BY <1>3, <2>1
      <3>5. QED
        BY <1>6, <3>1, <3>2, <3>3, <3>4 DEF Live, RetryLabels
    <2>2. CASE job.status # "absent"
      <3>1. /\ pc[u] = "createJob" /\ UNCHANGED <<rows, locals, status>>
            /\ pc' = [pc EXCEPT ![u] = "refund"]
        BY <1>15, <2>2 DEF CreateJob, Goto
      <3>2. asked[u] = "create" /\ pc'[u] = "refund"
        BY <1>0, <1>8, <3>1 DEF Places, Fits, CreateLabels
      <3>3. UserHold(u)' /\ Carries(u)'
        BY <3>1, <3>2 DEF UserHold, RetryLabels, Carries
      <3>4. mine'[u].hold \in Holds => status'[mine'[u].hold] # "none"
        BY <1>0, <3>1 DEF Frozen
      <3>5. QED
        BY <1>5, <3>1, <3>3, <3>4
    <2>3. QED
      BY <2>1, <2>2
  <1>16. CASE CreateSteps(u)
    <2>1. pc[u] = "createSteps" /\ Over(u) /\ UNCHANGED <<job, status>>
      BY <1>16 DEF CreateSteps
    <2>2. QED
      BY <1>7, <1>10, <2>1 DEF Carries
  <1>17. CASE CallCancel(u)
    BY <1>11, <1>17 DEF CallCancel
  <1>18. CASE Cancel(u)
    <2>1. CASE job.status \in Live
      <3>1. /\ job' = [job EXCEPT !.status = "cancelled"] /\ UNCHANGED <<status, locals>>
            /\ pc' = [pc EXCEPT ![u] = "refund"] /\ pc[u] = "cancel"
        BY <1>18, <2>1 DEF Cancel, Goto
      <3>2. job'.status = "cancelled" /\ job'.hold = job.hold /\ pc'[u] = "refund"
        BY <1>0, <1>8, <3>1 DEF JobRow
      <3>3. Open(job.hold) => mine'[u].hold = job.hold
        BY <1>0, <3>1 DEF UserHold, Open
      <3>4. UserHold(u)' /\ ~Carries(u)
        BY <3>1, <3>2 DEF UserHold, RetryLabels, Carries
      <3>5. mine'[u].hold \in Holds => status'[mine'[u].hold] # "none"
        BY <1>0, <3>1 DEF Frozen
      <3>6. QED
        BY <1>5, <3>1, <3>2, <3>3, <3>4, <3>5
    <2>2. CASE job.status \notin Live
      <3>1. pc[u] = "cancel" /\ Over(u) /\ UNCHANGED <<job, status>>
        BY <1>18, <2>2 DEF Cancel
      <3>2. QED
        BY <1>7, <1>10, <3>1 DEF Carries
    <2>3. QED
      BY <2>1, <2>2
  <1>19. CASE CallAdvance(u)
    BY <1>11, <1>19 DEF CallAdvance
  <1>20. CASE Advance(u)
    <2>1. /\ pc[u] = "advance" /\ job' = [mine[u] EXCEPT !.waiting = FALSE] /\ Over(u)
          /\ UNCHANGED status
      BY <1>20 DEF Advance
    <2>2. mine[u] = job
      BY <1>0, <2>1 DEF UserOrder
    <2>3. job'.status = job.status /\ job'.hold = job.hold
      BY <1>0, <2>1, <2>2 DEF JobRow
    <2>4. QED
      BY <1>7, <1>10, <2>1, <2>3 DEF Carries
  <1>21. CASE CallRetry(u)
    <2>1. Quiet /\ job.status = "failed"
      BY <1>21 DEF CallRetry, Request, Unrendered
    <2>2. ~Open(job.hold)
      BY <1>0, <2>1 DEF Quiet, JobHold, Final
    <2>3. QED
      BY <1>11, <1>21, <2>2 DEF CallRetry
  <1>22. CASE RetryLoad(u) \/ RetrySave(u)
    <2>1. /\ UNCHANGED <<job, status, mine>> /\ pc[u] \in {"retryLoad", "retrySave"}
          /\ pc' = [pc EXCEPT ![u] = "retrySave"] \/ pc' = [pc EXCEPT ![u] = "retryFreeze"]
      BY <1>22 DEF RetryLoad, LoadSteps, RetrySave, Goto
    <2>2. pc'[u] \in {"retrySave", "retryFreeze"}
      BY <1>8, <2>1
    <2>3. UserHold(u)' /\ ~Carries(u)
      BY <1>0, <2>1, <2>2 DEF UserHold, RetryLabels, Carries, Open
    <2>4. QED
      BY <1>10, <2>1, <2>3
  <1>23. CASE RetryJob(u)
    <2>1. /\ pc[u] = "retryJob" /\ job' = [mine[u] EXCEPT !.status = "pending", !.current = 0]
          /\ Over(u) /\ UNCHANGED <<status, server>>
      BY <1>4, <1>23 DEF RetryJob
    <2>2. \A a \in Actors \ {u} : pc[a] = "idle"
      BY <1>0, <2>1, Loners DEF RetryLabels
    <2>3. job'.status = "pending" /\ job'.hold = mine[u].hold
      BY <1>0, <2>1 DEF JobRow
    <2>4. (\A e \in Executors : pc[e] = "idle") /\ \A v \in Users \ {u} : pc[v] # "cancel"
      BY <1>0, <2>2 DEF Actors
    <2>5. ~Open(job.hold)
      BY <1>0, <2>1 DEF UserHold, RetryLabels
    <2>6. QED
      BY <1>6, <1>7, <2>1, <2>3, <2>4, <2>5 DEF Live, RetryLabels
  <1>24. CASE CallRender(u) \/ RenderFreeze(u) \/ RenderLoad(u) \/ RenderSave(u) \/ RenderJob(u)
    <2>1. "render" \in Ops \/ pc[u] \in RenderLabels
      BY <1>24 DEF CallRender, Request, RenderFreeze, Freeze, RenderLoad, LoadSteps, RenderSave,
         RenderJob, RenderLabels
    <2>2. QED
      BY <2>1, Loners DEF Unrendered
  <1>25. CASE RefundMine(u)
    <2>1. pc[u] = "refund" /\ Over(u) /\ UNCHANGED rows
      BY <1>25 DEF RefundMine
    <2>2. /\ mine[u].hold \in Holds => status'[mine[u].hold] # "open"
          /\ \A h \in Holds : /\ status'[h] = "open" => status[h] = "open"
                              /\ status[h] # "none" => status'[h] # "none"
      <3>1. CASE mine[u].hold = None
        BY <1>25, <3>1 DEF RefundMine
      <3>2. CASE mine[u].hold # None
        <4>1. mine[u].hold \in Holds /\ 0 \in Nat
          BY <1>0, <3>2 DEF JobRow
        <4>2. PICK outcome \in Outcomes : Calls(RefundHold(mine[u].hold), outcome)
          BY <1>25, <3>2 DEF RefundMine
        <4>3. /\ status'[mine[u].hold] # "open"
              /\ status[mine[u].hold] # "none" => status'[mine[u].hold] # "none"
              /\ \A g \in Holds \ {mine[u].hold} : status'[g] = status[g]
          BY <4>1, <4>2, CloseCall
        <4>4. QED
          BY <4>1, <4>3
      <3>3. QED
        BY <3>1, <3>2
    <2>3. mine'[u].hold \notin Holds
      BY <1>7, <2>1
    <2>4. QED
      BY <1>5, <1>7, <2>1, <2>2, <2>3
  <1>26. QED
    BY <1>13, <1>14, <1>15, <1>16, <1>17, <1>18, <1>19, <1>20, <1>21, <1>22, <1>23,
       <1>24, <1>25 DEF UserStep

\* so none is forgotten by a step,
LEMMA HoldStep ==
    ASSUME TypeInv, Unrendered, Outcomes = {"ok"}, OrderInv, HoldInv, [Next]_vars
    PROVE  HoldInv'
  <1>1. TypeInv' /\ OrderInv' /\ crashes \in Nat
    BY StepTyped, OrderStep DEF TypeInv, TypeOK
  <1>2. CASE UNCHANGED vars
    BY <1>2 DEF vars, ledgerVars, rows, locals, server_, HoldInv, Held, Frozen, JobHold,
       ExecutorHold, UserHold, Open, Carries
  <1>3. ASSUME NEW e \in Executors, ExecutorStep(e) PROVE HoldInv'
    BY <1>1, <1>3, ExecutorTyped, HoldExecutor DEF HoldInv, OthersRest
  <1>4. ASSUME NEW u \in Users, UserStep(u) PROVE HoldInv'
    BY <1>1, <1>4, UserTyped, HoldUser DEF HoldInv, OthersRest
  <1>5. CASE Crash
    BY <1>1, <1>5 DEF Crash, HoldInv
  <1>6. CASE RecoverSave \/ RecoverRefund \/ Booted
    <2>1. server # "up" /\ UNCHANGED crashes
      BY <1>6 DEF RecoverSave, RecoverRefund, Booted
    <2>2. QED
      BY <2>1 DEF HoldInv, Held, JobHold
  <1>7. QED
    BY <1>2, <1>3, <1>4, <1>5, <1>6 DEF Next

\* there is none at first,
LEMMA InitHold == Init => HoldInv
  BY DEF Init, HoldInv, Held, Frozen, JobHold, ExecutorHold, UserHold, Open, Carries, Holding,
     RetryLabels, NoJob, Final, Actors

\* and what the invariant says of an open hold is what the property asks.
LEMMA HeldIsNamed ==
    ASSUME TypeInv, HoldInv
    PROVE  OpenHoldNamed
  <1>1. SUFFICES ASSUME crashes = 0, NEW h \in Holds, status[h] = "open"
                 PROVE  /\ job.hold = h \/ \E a \in Actors : mine[a].hold = h
                        /\ ~(Quiet /\ job.status \in Final)
    BY DEF OpenHoldNamed
  <1>2. JobHold /\ Open(h)
    BY <1>1 DEF HoldInv, Held, Open
  <1>3. job.hold = h \/ \E u \in Users : Carries(u) /\ mine[u].hold = h
    BY <1>2 DEF JobHold
  <1>4. ASSUME Quiet, job.status \in Final PROVE FALSE
    <2>1. \A a \in Actors : pc[a] = "idle"
      BY <1>4 DEF Quiet
    <2>2. job.hold = h
      BY <1>3, <2>1 DEF Carries, Actors
    <2>3. QED
      BY <1>2, <1>4, <2>1, <2>2 DEF JobHold
  <1>5. QED
    BY <1>3, <1>4 DEF Actors

\* Until the server crashes an open hold is named by the job's row or by a request that is
\* under way, and when nothing is under way there is none for a job that is over:
\* cancellations, failed steps, retries and second creations give back what they froze
\* (cancel, create, retryJob, markStepFailed), when the closing calls do not fail.
THEOREM OpenHoldsNamed ==
    ASSUME Unrendered, Outcomes = {"ok"}
    PROVE  Spec => []OpenHoldNamed
  <1>1. Init => TypeInv /\ OrderInv /\ HoldInv
    BY InitTyped, InitOrder, InitHold
  <1>2. TypeInv /\ OrderInv /\ HoldInv /\ [Next]_vars => (TypeInv /\ OrderInv /\ HoldInv)'
    BY StepTyped, OrderStep, HoldStep
  <1>3. TypeInv /\ HoldInv => OpenHoldNamed
    BY HeldIsNamed
  <1>4. QED
    BY <1>1, <1>2, <1>3, PTL DEF Spec

=============================================================================
