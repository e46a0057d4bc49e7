-------------------------- MODULE Schedules_proofs --------------------------
\* Proofs about Schedules, for any clients, period, lease and bounds.
EXTENDS Schedules, TLAPS

\* What the server makes of a row is a row.
LEMMA RowsStay ==
    ASSUME NEW object \in Row
    PROVE  /\ \A good \in BOOLEAN : Receipted(object, good) \in Row
           /\ ComputeNext(object) \in 0..Never
<1>1. object.dueAt \in 0..Never /\ object.mark \in 0..Never
  BY LeaseAssumption DEF Row, Never
<1>2. ASSUME NEW good \in BOOLEAN PROVE Receipted(object, good) \in Row
  <2>1. (IF object.repeat = "once" THEN Never ELSE object.mark) \in 0..Never
    BY <1>1, LeaseAssumption DEF Never
  <2>2. (IF object.repeat = "daily" THEN "active" ELSE IF good THEN "done" ELSE "failed")
          \in {"active", "done", "failed"}
    OBVIOUS
  <2>3. 0 \in 0..Lease
    BY LeaseAssumption
  <2> DEFINE nx == IF object.repeat = "once" THEN Never ELSE object.mark
             st == IF object.repeat = "daily" THEN "active" ELSE IF good THEN "done" ELSE "failed"
  <2>4. Receipted(object, good)
          = [object EXCEPT !.token = Free, !.lease = 0, !.next = nx, !.status = st]
    BY DEF Receipted
  <2>5. nx \in 0..Never /\ st \in {"active", "done", "failed"}
    BY <2>1, <2>2
  <2> HIDE DEF nx, st
  <2> QED BY <2>3, <2>4, <2>5 DEF Row
<1> QED BY <1>1, <1>2 DEF ComputeNext

\* Time that passes keeps the types.
LEMMA LessTyped ==
    /\ \A n \in 0..Never : Less(n) \in 0..Never
    /\ \A n \in 0..Period : Less(n) \in 0..Period
    /\ \A n \in 0..Lease : Less(n) \in 0..Lease
    /\ \A n \in 1..Lease : Less(n) = n - 1
  BY LeaseAssumption DEF Less, Never

\* The types hold at first,
LEMMA TypeInit == Init => TypeOK
<1> SUFFICES ASSUME Init PROVE TypeOK
  OBVIOUS
<1>1. row \in Row
  BY LeaseAssumption DEF Init, Row, Never, Gone
<1>2. left \in [edits : 0..MaxEdits, faults : 0..MaxFaults, crashes : 0..MaxCrashes]
  BY BoundsAssumption DEF Init
<1>3. hold \in [Clients -> 0..Lease] /\ runs \in 0..Many
  BY LeaseAssumption DEF Init, Many
<1>4. pc \in [Clients -> {"idle", "run", "tell", "wait"}] /\ ok \in [Clients -> BOOLEAN]
  BY DEF Init
<1>5. saving = {} /\ editing = {}
  BY DEF Init
<1>6. lapsed \in BOOLEAN /\ succeeded \in BOOLEAN /\ mixed \in BOOLEAN
  BY DEF Init
<1> QED BY <1>1, <1>2, <1>3, <1>4, <1>5, <1>6 DEF TypeOK

\* and every step keeps them.
LEMMA TypeStep == TypeOK /\ [Next]_vars => TypeOK'
<1> SUFFICES ASSUME TypeOK, [Next]_vars PROVE TypeOK'
  OBVIOUS
<1> USE LeaseAssumption, BoundsAssumption DEF TypeOK, history, Many, Busy
<1>1. CASE UNCHANGED vars
  BY <1>1 DEF vars
<1>2. ASSUME NEW c \in Clients, Fire(c) PROVE TypeOK'
  <2>1. Lease \in 0..Lease
    OBVIOUS
  <2>2. [row EXCEPT !.token = c, !.lease = Lease] \in Row
    BY <2>1 DEF Row
  <2>3. row' \in Row
    BY <1>2, <2>2 DEF Fire
  <2>4. hold' \in [Clients -> 0..Lease] /\ runs' \in 0..Many
    BY <1>2, <2>1 DEF Fire
  <2> QED BY <1>2, <2>3, <2>4 DEF Fire
<1>3. ASSUME NEW c \in Clients, NEW good \in BOOLEAN, Finish(c, good) PROVE TypeOK'
  BY <1>3 DEF Finish
<1>4. ASSUME NEW c \in Clients, ReceiptIgnored(c) PROVE TypeOK'
  BY <1>4 DEF ReceiptIgnored
<1>5. ASSUME NEW c \in Clients, ReceiptRead(c) PROVE TypeOK'
  <2>1. Receipted(row, ok[c]) \in Row
    BY RowsStay
  <2> QED BY <1>5, <2>1 DEF ReceiptRead
<1>6. ASSUME NEW r \in saving, ReceiptSave(r) PROVE TypeOK'
  <2>1. row' \in Row /\ saving' \subseteq saving
    BY <1>6 DEF ReceiptSave
  <2>2. pc' \in [Clients -> {"idle", "run", "tell", "wait"}] /\ ok' \in [Clients -> BOOLEAN]
    BY <1>6 DEF ReceiptSave
  <2>3. succeeded' \in BOOLEAN /\ mixed' \in BOOLEAN
    BY <1>6 DEF ReceiptSave
  <2>4. runs' \in 0..Many /\ lapsed' \in BOOLEAN
    <3>1. runs' = 0 /\ lapsed' = FALSE
      BY <1>6, Zenon DEF ReceiptSave, Anew
    <3>2. runs' \in 0..Many
      BY <3>1
    <3> QED BY <3>1, <3>2
  <2>5. UNCHANGED <<editing, left, hold>>
    BY <1>6 DEF ReceiptSave
  <2> QED BY <2>1, <2>2, <2>3, <2>4, <2>5
<1>7. ASSUME NEW c \in Clients, ReceiptRefused(c) PROVE TypeOK'
  BY <1>7 DEF ReceiptRefused, GiveUp
<1>8. ASSUME NEW c \in Clients, ReceiptLost(c) PROVE TypeOK'
  <2>1. saving' \subseteq [by : Clients \union {Free}, object : Row]
    BY <1>8 DEF ReceiptLost
  <2>2. left' \in [edits : 0..MaxEdits, faults : 0..MaxFaults, crashes : 0..MaxCrashes]
    BY <1>8 DEF ReceiptLost
  <2> QED BY <1>8, <2>1, <2>2 DEF ReceiptLost, GiveUp
<1>9. ASSUME NEW c \in Clients, Crash(c) PROVE TypeOK'
  <2>1. saving' \subseteq [by : Clients \union {Free}, object : Row]
    BY <1>9 DEF Crash
  <2>2. left' \in [edits : 0..MaxEdits, faults : 0..MaxFaults, crashes : 0..MaxCrashes]
    BY <1>9 DEF Crash
  <2> QED BY <1>9, <2>1, <2>2 DEF Crash
<1>10. ASSUME NEW status \in {"same", "active", "paused"}, NEW kind \in {"once", "daily"},
              NEW time \in {row.dueAt, row.mark, Period}, Edit(status, kind, time)
       PROVE  TypeOK'
  <2> DEFINE merged == [row EXCEPT !.repeat = kind,
                            !.dueAt = IF kind = "once" THEN time ELSE 0,
                            !.mark = IF kind = "daily" THEN time ELSE Period,
                            !.status = IF status # "same" THEN status
                                       ELSE IF row.status = "failed" THEN "active" ELSE row.status]
  <2> DEFINE due == IF kind = "once" THEN time ELSE 0
             mark == IF kind = "daily" THEN time ELSE Period
             st == IF status # "same" THEN status
                   ELSE IF row.status = "failed" THEN "active" ELSE row.status
  <2>0. time \in 0..Period /\ (kind = "daily" => time > 0)
    BY <1>10 DEF Row, Edit
  <2>1. due \in 0..Period /\ mark \in 1..Period /\ st \in {"active", "paused", "done", "failed", Gone}
    BY <2>0 DEF Row
  <2>2. merged \in Row
    <3>1. merged = [row EXCEPT !.repeat = kind, !.dueAt = due, !.mark = mark, !.status = st]
      OBVIOUS
    <3> HIDE DEF due, mark, st
    <3> QED BY <2>1, <3>1 DEF Row
  <2> HIDE DEF merged
  <2>3. [merged EXCEPT !.next = ComputeNext(merged)] \in Row
    <3>1. ComputeNext(merged) \in 0..Never
      BY <2>2, RowsStay
    <3> QED BY <2>2, <3>1 DEF Row
  <2>4. left' \in [edits : 0..MaxEdits, faults : 0..MaxFaults, crashes : 0..MaxCrashes]
    BY <1>10 DEF Edit
  <2>5. editing' = {[old |-> row, new |-> [merged EXCEPT !.next = ComputeNext(merged)]]}
    BY <1>10 DEF Edit, merged
  <2>6. editing' \subseteq [old : Row, new : Row]
    BY <2>3, <2>5
  <2> QED BY <1>10, <2>4, <2>6 DEF Edit
<1>11. ASSUME NEW e \in editing, EditSave(e) PROVE TypeOK'
  <2>1. runs' \in 0..Many /\ lapsed' \in BOOLEAN /\ succeeded' \in BOOLEAN
    <3>1. CASE Anew /\ succeeded' = FALSE
      <4>1. runs' = 0 /\ lapsed' = FALSE
        BY <3>1, Zenon DEF Anew
      <4>2. runs' \in 0..Many
        BY <4>1
      <4> QED BY <3>1, <4>1, <4>2
    <3>2. CASE UNCHANGED <<runs, lapsed, succeeded>>
      BY <3>2
    <3>3. (Anew /\ succeeded' = FALSE) \/ UNCHANGED <<runs, lapsed, succeeded>>
      BY <1>11, Zenon DEF EditSave
    <3> QED BY <3>1, <3>2, <3>3, Zenon
  <2>2. mixed' \in BOOLEAN /\ row' \in Row /\ editing' \subseteq editing
    BY <1>11 DEF EditSave
  <2> QED BY <1>11, <2>1, <2>2 DEF EditSave
<1>12. CASE Remove
  <2>1. row' \in Row
    BY <1>12 DEF Remove, Row, Gone
  <2>2. left' \in [edits : 0..MaxEdits, faults : 0..MaxFaults, crashes : 0..MaxCrashes]
    BY <1>12 DEF Remove
  <2> QED BY <1>12, <2>1, <2>2 DEF Remove
<1>13. CASE Tick
  <2> DEFINE mark == IF row.repeat = "once" THEN row.mark
                     ELSE IF row.mark = 1 THEN Period ELSE row.mark - 1
  <2>0. mark \in 1..Period
    BY DEF Row
  <2>1. row' \in Row
    BY <1>13, <2>0, LessTyped DEF Tick, Row
  <2>2. hold' \in [Clients -> 0..Lease]
    BY <1>13, LessTyped DEF Tick
  <2> QED BY <1>13, <2>1, <2>2 DEF Tick
<1> QED
  BY <1>1, <1>2, <1>3, <1>4, <1>5, <1>6, <1>7, <1>8, <1>9, <1>10, <1>11, <1>12, <1>13
  DEF Next, Client

\* Every reachable state has its types.
THEOREM TypeCorrect == Spec => []TypeOK
<1> QED BY TypeInit, TypeStep, PTL DEF Spec

-----------------------------------------------------------------------------
\* An update changes neither token nor lease.
EditInv == \A e \in editing : e.new.token = e.old.token /\ e.new.lease = e.old.lease

\* While nothing lapsed and nothing was mixed up, a task that has begun to run and is
\* still due is claimed, and so nobody else can begin it.
RunInv ==
    /\ mixed = FALSE /\ lapsed = FALSE /\ runs # 0 /\ row.status = "active"
          => row.next = 0 /\ row.token # Free /\ row.lease # 0
    /\ runs = Many => lapsed = TRUE \/ mixed = TRUE

\* Every step keeps what an update under way may write.
LEMMA EditKeepsClaim == TypeOK /\ EditInv /\ [Next]_vars => EditInv'
<1> SUFFICES ASSUME TypeOK, EditInv, [Next]_vars PROVE EditInv'
  OBVIOUS
<1> USE DEF EditInv
<1>1. ASSUME NEW status \in {"same", "active", "paused"}, NEW kind \in {"once", "daily"},
             NEW time \in {row.dueAt, row.mark, Period}, Edit(status, kind, time)
      PROVE  EditInv'
  <2> DEFINE merged == [row EXCEPT !.repeat = kind,
                            !.dueAt = IF kind = "once" THEN time ELSE 0,
                            !.mark = IF kind = "daily" THEN time ELSE Period,
                            !.status = IF status # "same" THEN status
                                       ELSE IF row.status = "failed" THEN "active" ELSE row.status]
             object == [merged EXCEPT !.next = ComputeNext(merged)]
  <2>1. object.token = row.token /\ object.lease = row.lease
    BY DEF TypeOK, Row
  <2>2. editing' = {[old |-> row, new |-> object]}
    BY <1>1, Zenon DEF Edit
  <2> HIDE DEF object
  <2> QED BY <2>1, <2>2
<1>2. ASSUME NEW e \in editing, EditSave(e) PROVE EditInv'
  <2>1. editing' = editing \ {e}
    BY <1>2, Zenon DEF EditSave
  <2> QED BY <2>1
<1>3. CASE UNCHANGED editing
  BY <1>3
<1>4. ASSUME NEW c \in Clients, Fire(c) \/ Client(c) \/ ReceiptLost(c) \/ Crash(c)
      PROVE  UNCHANGED editing
  BY <1>4 DEF Client, Fire, Finish, ReceiptIgnored, ReceiptRead, ReceiptRefused, ReceiptLost, Crash
<1>5. ASSUME NEW r \in saving, ReceiptSave(r) PROVE UNCHANGED editing
  BY <1>5, Zenon DEF ReceiptSave
<1>6. CASE Remove \/ Tick \/ UNCHANGED vars
  BY <1>6 DEF Remove, Tick, vars
<1> QED
  BY <1>1, <1>2, <1>3, <1>4, <1>5, <1>6 DEF Next

\* Every step keeps that a task that runs is claimed or no longer due.
LEMMA RunStep == TypeOK /\ TypeOK' /\ EditInv /\ RunInv /\ [Next]_vars => RunInv'
<1> SUFFICES ASSUME TypeOK, TypeOK', EditInv, RunInv, [Next]_vars PROVE RunInv'
  OBVIOUS
<1> USE LeaseAssumption DEF RunInv, Many
<1>1. CASE UNCHANGED <<row, runs, lapsed, mixed>>
  BY <1>1
<1>2. ASSUME NEW c \in Clients, Fire(c) PROVE RunInv'
  <2>1. row.status = "active" /\ row.next = 0 /\ (row.token = Free \/ row.lease = 0)
    BY <1>2 DEF Fire, Claimable
  <2>2. row'.token = c /\ row'.lease = Lease /\ row'.next = 0
    BY <1>2, <2>1 DEF Fire, TypeOK, Row
  <2>3. c # Free
    BY FreeAssumption
  <2>4. UNCHANGED <<lapsed, mixed>>
    BY <1>2 DEF Fire
  <2>5. runs # 0 => lapsed # FALSE \/ mixed # FALSE
    BY <2>1
  <2>6. runs' = Many => runs # 0
    BY <1>2 DEF Fire
  <2>7. lapsed \in BOOLEAN /\ mixed \in BOOLEAN
    BY DEF TypeOK
  <2>8. runs # 0 => lapsed = TRUE \/ mixed = TRUE
    BY <2>5, <2>7, Zenon
  <2>9. runs' = Many => lapsed' = TRUE \/ mixed' = TRUE
    BY <2>4, <2>6, <2>8
  <2>10. row'.token # Free /\ row'.lease # 0 /\ row'.next = 0
    BY <2>2, <2>3
  <2> QED BY <2>9, <2>10
<1>3. ASSUME NEW r \in saving, ReceiptSave(r) PROVE RunInv'
  <2>1. runs' = 0
    BY <1>3, Zenon DEF ReceiptSave, Anew
  <2> QED BY <2>1
<1>4. ASSUME NEW e \in editing, EditSave(e) PROVE RunInv'
  <2>1. CASE Anew
    <3>1. runs' = 0
      BY <2>1, Zenon DEF Anew
    <3> QED BY <3>1
  <2>2. CASE UNCHANGED <<runs, lapsed>> /\ ~(e.new.status = "active" /\ (e.new.next > 0 \/ row.status # "active"))
    <3>1. row' = e.new
      BY <1>4, Zenon DEF EditSave
    <3>2. mixed' = FALSE => mixed = FALSE /\ row = e.old
      BY <1>4, Zenon DEF EditSave, TypeOK
    <3>3. mixed' \in BOOLEAN /\ mixed \in BOOLEAN
      BY DEF TypeOK
    <3>4. e.new.next \in 0..Never
      BY DEF TypeOK, Row
    <3>5. e.new.status = "active" => e.new.next = 0 /\ row.status = "active"
      BY <2>2, <3>4 DEF Never
    <3>6. e.new.token = e.old.token /\ e.new.lease = e.old.lease
      BY DEF EditInv
    <3> QED BY <2>2, <3>1, <3>2, <3>3, <3>5, <3>6
  <2>3. Anew \/ (UNCHANGED <<runs, lapsed>> /\ ~(e.new.status = "active" /\ (e.new.next > 0 \/ row.status # "active")))
    BY <1>4, Zenon DEF EditSave
  <2> QED BY <2>1, <2>2, <2>3, Zenon
<1>5. CASE Remove
  BY <1>5 DEF Remove, TypeOK, Row, Gone, history
<1>6. CASE Tick
  <2>1. UNCHANGED <<runs, mixed>> /\ lapsed' = (lapsed \/ (row.token # Free /\ row.lease = 1))
    BY <1>6, Zenon DEF Tick
  <2>2. row'.status = row.status /\ row'.token = row.token /\ row'.next = Less(row.next) /\ row'.lease = Less(row.lease)
    BY <1>6 DEF Tick, TypeOK, Row
  <2>3. lapsed' = FALSE => lapsed = FALSE /\ ~(row.token # Free /\ row.lease = 1)
    BY <2>1, Zenon DEF TypeOK
  <2>4. lapsed \in BOOLEAN /\ lapsed' \in BOOLEAN
    BY DEF TypeOK
  <2>5. row.lease \in 0..Lease
    BY DEF TypeOK, Row
  <2>6. row.lease \notin {0, 1} => Less(row.lease) # 0
    BY <2>5 DEF Less
  <2>7. Less(0) = 0
    BY DEF Less
  <2>8. lapsed = TRUE => lapsed' = TRUE
    BY <2>1, Zenon
  <2> QED BY <2>1, <2>2, <2>3, <2>4, <2>6, <2>7, <2>8
<1> QED
  BY <1>1, <1>2, <1>3, <1>4, <1>5, <1>6 DEF Next, Client, Finish, ReceiptIgnored, ReceiptRead,
     ReceiptRefused, ReceiptLost, Crash, Edit, vars, history

\* A due task runs again only when a claim outlived its lease, or an edit met a run.
THEOREM RunsAgainOnlyAfterLapse == Spec => []RunsOnce
<1>1. Init => EditInv /\ RunInv
  BY DEF Init, EditInv, RunInv, Many
<1>2. TypeOK /\ RunInv => RunsOnce
  BY Zenon DEF RunInv, RunsOnce
<1> QED BY <1>1, <1>2, TypeCorrect, EditKeepsClaim, RunStep, PTL DEF Spec

-----------------------------------------------------------------------------
\* While nothing was mixed up a run whose lease lasts holds the claim, and the row's
\* lease is its own.
HoldInv ==
    mixed = FALSE => \A c \in Clients :
        pc[c] = "run" /\ hold[c] # 0 => row.token = c /\ row.lease = hold[c]

\* Every step keeps that the row's lease is that of the client that runs.
LEMMA HoldStep == TypeOK /\ TypeOK' /\ HoldInv /\ [Next]_vars => HoldInv'
<1> SUFFICES ASSUME TypeOK, TypeOK', HoldInv, [Next]_vars PROVE HoldInv'
  OBVIOUS
<1> USE LeaseAssumption DEF HoldInv
<1>0. mixed \in BOOLEAN /\ mixed' \in BOOLEAN
  BY DEF TypeOK
<1>1. CASE UNCHANGED <<row, hold, mixed>> /\ \A c \in Clients : pc'[c] = "run" => pc[c] = "run"
  BY <1>1
<1>2. ASSUME NEW c \in Clients, Fire(c) PROVE HoldInv'
  <2>1. row.token = Free \/ row.lease = 0
    BY <1>2 DEF Fire, Claimable
  <2>2. row'.token = c /\ row'.lease = Lease
    BY <1>2 DEF Fire, TypeOK, Row
  <2>3. mixed' = mixed /\ hold' = [hold EXCEPT ![c] = Lease] /\ pc' = [pc EXCEPT ![c] = "run"]
    BY <1>2, Zenon DEF Fire
  <2>4. mixed = FALSE => \A d \in Clients : pc[d] = "run" => hold[d] = 0
    BY <2>1, FreeAssumption DEF TypeOK
  <2> QED BY <2>2, <2>3, <2>4 DEF TypeOK
<1>3. ASSUME NEW c \in Clients, NEW good \in BOOLEAN, Finish(c, good) PROVE HoldInv'
  <2>1. /\ mixed' = mixed /\ row' = row
        /\ hold' = [hold EXCEPT ![c] = 0] /\ pc' = [pc EXCEPT ![c] = "tell"]
    BY <1>3, Zenon DEF Finish
  <2> QED BY <2>1 DEF TypeOK
<1>4. ASSUME NEW r \in saving, ReceiptSave(r) PROVE HoldInv'
  <2>1. hold' = hold /\ pc' = [c \in Clients |-> IF c = r.by THEN "idle" ELSE pc[c]]
    BY <1>4, Zenon DEF ReceiptSave
  <2>2. mixed' = FALSE => mixed = FALSE /\ \A c \in Clients : pc[c] = "run" => row.token # c
    BY <1>4, <1>0, Zenon DEF ReceiptSave
  <2> QED BY <2>1, <2>2
<1>5. ASSUME NEW e \in editing, EditSave(e) PROVE HoldInv'
  <2>1. pc' = pc
    BY <1>5, Zenon DEF EditSave
  <2>2. mixed' = FALSE => \A c \in Clients : pc[c] = "idle"
    BY <1>5, <1>0, Zenon DEF EditSave, Busy
  <2> QED BY <2>1, <2>2
<1>6. CASE Remove
  <2>1. UNCHANGED <<pc, hold, mixed>> /\ row' = [row EXCEPT !.status = Gone]
    BY <1>6, Zenon DEF Remove, history
  <2>2. row'.token = row.token /\ row'.lease = row.lease
    BY <2>1 DEF TypeOK, Row
  <2> QED BY <2>1, <2>2
<1>7. CASE Tick
  <2>1. UNCHANGED <<pc, mixed>> /\ hold' = [c \in Clients |-> Less(hold[c])]
    BY <1>7, Zenon DEF Tick
  <2>2. row'.token = row.token /\ row'.lease = Less(row.lease)
    BY <1>7 DEF Tick, TypeOK, Row
  <2>3. Less(0) = 0
    BY DEF Less
  <2> QED BY <2>1, <2>2, <2>3
<1>8. ASSUME NEW c \in Clients, Crash(c) PROVE HoldInv'
  <2>1. /\ mixed' = mixed /\ row' = row
        /\ hold' = [hold EXCEPT ![c] = 0] /\ pc' = [pc EXCEPT ![c] = "idle"]
    BY <1>8, Zenon DEF Crash
  <2> QED BY <2>1 DEF TypeOK
<1>9. ASSUME NEW c \in Clients,
             ReceiptIgnored(c) \/ ReceiptRead(c) \/ ReceiptRefused(c) \/ ReceiptLost(c)
      PROVE  HoldInv'
  <2>1. UNCHANGED <<row, hold, mixed>>
    BY <1>9 DEF ReceiptIgnored, ReceiptRead, ReceiptRefused, ReceiptLost, history
  <2>2. \E step \in {"idle", "wait", "tell"} : pc' = [pc EXCEPT ![c] = step]
    BY <1>9 DEF ReceiptIgnored, ReceiptRead, ReceiptRefused, ReceiptLost, GiveUp, TypeOK
  <2> QED BY <1>1, <2>1, <2>2 DEF TypeOK
<1>10. ASSUME NEW status \in {"same", "active", "paused"}, NEW kind \in {"once", "daily"},
              NEW time \in {row.dueAt, row.mark, Period}, Edit(status, kind, time)
       PROVE  HoldInv'
  <2>1. UNCHANGED <<row, pc, hold, mixed>>
    BY <1>10 DEF Edit, history
  <2> QED BY <1>1, <2>1
<1>11. CASE UNCHANGED vars
  BY <1>1, <1>11 DEF vars
<1> QED
  BY <1>2, <1>3, <1>4, <1>5, <1>6, <1>7, <1>8, <1>9, <1>10, <1>11 DEF Next, Client

\* Two clients run a task together only when one outlived its lease or lost its claim.
THEOREM OneRuns == Spec => []Exclusion
<1>1. Init => HoldInv
  BY DEF Init, HoldInv
<1>2. TypeOK /\ HoldInv => Exclusion
  BY FreeAssumption DEF TypeOK, HoldInv, Exclusion
<1> QED BY <1>1, <1>2, TypeCorrect, HoldStep, PTL DEF Spec

-----------------------------------------------------------------------------
\* While nothing was mixed up, receipts under way are of the task's kind (an edit may
\* change it); an update makes no task done; and what a receipt, a client or the row says
\* of success is backed by a run that succeeded.
KindInv ==
    /\ mixed = FALSE => \A r \in saving :
          /\ r.object.repeat = row.repeat
          /\ row.repeat = "once" => r.object.status # "active"
          /\ row.repeat = "daily" => r.object.status = "active"
    /\ \A e \in editing : e.new.status = "done" => e.old.status = "done"

DoneInv ==
    /\ mixed = FALSE /\ row.status = "done" => succeeded = TRUE
    /\ mixed = FALSE /\ row.repeat = "once" =>
          \A c \in Clients : ok[c] = TRUE /\ pc[c] = "tell" => succeeded = TRUE
    /\ \A r \in saving : mixed = FALSE /\ r.object.status = "done" => succeeded = TRUE

\* What a receipt makes of a row.
LEMMA ReceiptedAs ==
    ASSUME NEW object \in Row, NEW good \in BOOLEAN
    PROVE  /\ Receipted(object, good).repeat = object.repeat
           /\ object.repeat = "daily" => Receipted(object, good).status = "active"
           /\ object.repeat = "once" => Receipted(object, good).status # "active"
           /\ Receipted(object, good).status = "done" => object.repeat = "once" /\ good = TRUE
<1> DEFINE st == IF object.repeat = "daily" THEN "active" ELSE IF good THEN "done" ELSE "failed"
           nx == IF object.repeat = "once" THEN Never ELSE object.mark
<1>1. Receipted(object, good) = [object EXCEPT !.token = Free, !.lease = 0, !.next = nx, !.status = st]
  BY DEF Receipted
<1>2. object.repeat = "daily" => st = "active"
  OBVIOUS
<1>3. object.repeat # "daily" => st = IF good THEN "done" ELSE "failed"
  OBVIOUS
<1>4. good = TRUE \/ good = FALSE
  OBVIOUS
<1>5. object.repeat \in {"once", "daily"}
  BY DEF Row
<1>6. /\ object.repeat = "once" => st # "active"
      /\ st = "done" => object.repeat = "once" /\ good = TRUE
  BY <1>2, <1>3, <1>4, <1>5
<1> HIDE DEF st, nx
<1>7. Receipted(object, good).repeat = object.repeat /\ Receipted(object, good).status = st
  BY <1>1 DEF Row
<1> QED BY <1>2, <1>6, <1>7

\* Every step keeps that receipts and updates are of the task's kind,
LEMMA KindStep == TypeOK /\ TypeOK' /\ KindInv /\ [Next]_vars => KindInv'
<1> SUFFICES ASSUME TypeOK, TypeOK', KindInv, [Next]_vars PROVE KindInv'
  OBVIOUS
<1> USE DEF KindInv
<1>0. mixed \in BOOLEAN /\ mixed' \in BOOLEAN
  BY DEF TypeOK
<1>1. ASSUME mixed' = FALSE => mixed = FALSE /\ row'.repeat = row.repeat,
             editing' \subseteq editing,
             \A r \in saving' : \E q \in saving : r.object = q.object
      PROVE  KindInv'
  BY <1>1
<1>2. ASSUME NEW c \in Clients, Fire(c) PROVE KindInv'
  BY <1>1, <1>2 DEF Fire, TypeOK, Row
<1>3. ASSUME NEW c \in Clients, Client(c), UNCHANGED saving PROVE KindInv'
  BY <1>1, <1>3 DEF Client, Finish, ReceiptIgnored, ReceiptRead, ReceiptRefused, history
<1>4. ASSUME NEW c \in Clients, ReceiptRead(c) PROVE KindInv'
  <2> DEFINE object == Receipted(row, ok[c])
  <2>1. UNCHANGED <<row, editing, mixed>> /\ saving' = saving \union {[by |-> c, object |-> object]}
    BY <1>4 DEF ReceiptRead, history
  <2>2. row \in Row /\ ok[c] \in BOOLEAN
    BY DEF TypeOK
  <2>3. /\ object.repeat = row.repeat
        /\ row.repeat = "daily" => object.status = "active"
        /\ row.repeat = "once" => object.status # "active"
    BY <2>2, ReceiptedAs
  <2> HIDE DEF object
  <2> QED BY <2>1, <2>3
<1>5. ASSUME NEW c \in Clients, ReceiptLost(c) \/ Crash(c) PROVE KindInv'
  <2>1. UNCHANGED <<row, editing, mixed>>
    BY <1>5 DEF ReceiptLost, Crash, history
  <2>2. saving' = {[r EXCEPT !.by = IF r.by = c THEN Free ELSE r.by] : r \in saving}
    BY <1>5 DEF ReceiptLost, Crash
  <2>3. \A r \in saving' : \E q \in saving : r.object = q.object
    BY <2>2 DEF TypeOK
  <2> QED BY <1>1, <2>1, <2>3
<1>6. ASSUME NEW r \in saving, ReceiptSave(r) PROVE KindInv'
  <2>1. row' = r.object /\ saving' = saving \ {r} /\ editing' = editing
    BY <1>6, Zenon DEF ReceiptSave
  <2>2. mixed' = FALSE => mixed = FALSE
    BY <1>0, <1>6, Zenon DEF ReceiptSave
  <2> QED BY <1>1, <2>1, <2>2
<1>7. ASSUME NEW status \in {"same", "active", "paused"}, NEW kind \in {"once", "daily"},
             NEW time \in {row.dueAt, row.mark, Period}, Edit(status, kind, time)
      PROVE  KindInv'
  <2> DEFINE merged == [row EXCEPT !.repeat = kind,
                            !.dueAt = IF kind = "once" THEN time ELSE 0,
                            !.mark = IF kind = "daily" THEN time ELSE Period,
                            !.status = IF status # "same" THEN status
                                       ELSE IF row.status = "failed" THEN "active" ELSE row.status]
             object == [merged EXCEPT !.next = ComputeNext(merged)]
  <2>1. object.status = "done" => row.status = "done"
    BY DEF TypeOK, Row
  <2>2. editing' = {[old |-> row, new |-> object]}
    BY <1>7, Zenon DEF Edit
  <2>3. UNCHANGED <<row, saving, mixed>>
    BY <1>7 DEF Edit, history
  <2> HIDE DEF object
  <2> QED BY <2>1, <2>2, <2>3
<1>8. ASSUME NEW e \in editing, EditSave(e) PROVE KindInv'
  <2>1. row' = e.new /\ editing' = editing \ {e} /\ saving' = saving
    BY <1>8, Zenon DEF EditSave
  <2>2. mixed' = FALSE => saving = {}
    BY <1>0, <1>8, Zenon DEF EditSave
  <2> QED BY <2>1, <2>2
<1>9. CASE Remove
  BY <1>1, <1>9 DEF Remove, TypeOK, Row, history
<1>10. CASE Tick
  BY <1>1, <1>10 DEF Tick, TypeOK, Row
<1>11. CASE UNCHANGED vars
  BY <1>1, <1>11 DEF vars
<1>12. ASSUME NEW c \in Clients, Client(c) PROVE KindInv'
  BY <1>3, <1>4, <1>12 DEF Client, Finish, ReceiptIgnored, ReceiptRefused
<1> QED BY <1>2, <1>5, <1>6, <1>7, <1>8, <1>9, <1>10, <1>11, <1>12 DEF Next

\* and that success is backed.
LEMMA DoneStep == TypeOK /\ TypeOK' /\ KindInv /\ DoneInv /\ [Next]_vars => DoneInv'
<1> SUFFICES ASSUME TypeOK, TypeOK', KindInv, DoneInv, [Next]_vars PROVE DoneInv'
  OBVIOUS
<1> USE DEF DoneInv
<1>0. /\ mixed \in BOOLEAN /\ mixed' \in BOOLEAN
      /\ succeeded \in BOOLEAN /\ succeeded' \in BOOLEAN
  BY DEF TypeOK
\* Steps after which nothing new claims a success.
<1>1. ASSUME succeeded' = succeeded, mixed' = mixed, row'.repeat = row.repeat,
             row'.status = "done" => row.status = "done",
             \A c \in Clients : pc'[c] = "tell" /\ ok'[c] = TRUE => pc[c] = "tell" /\ ok[c] = TRUE,
             \A r \in saving' : \E q \in saving : r.object = q.object
      PROVE  DoneInv'
  BY <1>1
<1>2. ASSUME NEW c \in Clients, Fire(c) PROVE DoneInv'
  BY <1>1, <1>2 DEF Fire, TypeOK, Row
<1>3. ASSUME NEW c \in Clients, NEW good \in BOOLEAN, Finish(c, good) PROVE DoneInv'
  <2>1. /\ row' = row /\ saving' = saving /\ mixed' = mixed
        /\ pc' = [pc EXCEPT ![c] = "tell"] /\ ok' = [ok EXCEPT ![c] = good]
    BY <1>3, Zenon DEF Finish
  <2>2. succeeded' = (succeeded \/ good)
    BY <1>3, Zenon DEF Finish
  <2>3. CASE good = TRUE
    <3>1. succeeded' = TRUE
      BY <2>2, <2>3, Zenon
    <3> QED BY <2>1, <3>1
  <2>4. CASE good = FALSE
    <3>1. succeeded' = succeeded
      BY <1>0, <2>2, <2>4, Zenon
    <3> QED BY <1>1, <2>1, <2>4, <3>1 DEF TypeOK
  <2> QED BY <2>3, <2>4
<1>4. ASSUME NEW c \in Clients, ReceiptIgnored(c) \/ ReceiptRefused(c) PROVE DoneInv'
  BY <1>1, <1>4 DEF ReceiptIgnored, ReceiptRefused, GiveUp, TypeOK, history
<1>5. ASSUME NEW c \in Clients, ReceiptRead(c) PROVE DoneInv'
  <2> DEFINE object == Receipted(row, ok[c])
  <2>1. /\ row' = row /\ ok' = ok /\ saving' = saving \union {[by |-> c, object |-> object]}
        /\ pc[c] = "tell" /\ pc' = [pc EXCEPT ![c] = "wait"]
    BY <1>5, Zenon DEF ReceiptRead
  <2>2. UNCHANGED <<succeeded, mixed>>
    BY <1>5 DEF ReceiptRead, history
  <2>3. row \in Row /\ ok[c] \in BOOLEAN
    BY DEF TypeOK
  <2>4. object.status = "done" => row.repeat = "once" /\ ok[c] = TRUE
    BY <2>3, ReceiptedAs
  <2> HIDE DEF object
  <2> QED BY <2>1, <2>2, <2>4 DEF TypeOK
<1>6. ASSUME NEW c \in Clients, ReceiptLost(c) \/ Crash(c) PROVE DoneInv'
  <2>1. UNCHANGED <<row, succeeded, mixed>>
    BY <1>6 DEF ReceiptLost, Crash, history
  <2>2. saving' = {[r EXCEPT !.by = IF r.by = c THEN Free ELSE r.by] : r \in saving}
    BY <1>6 DEF ReceiptLost, Crash
  <2>3. \A r \in saving' : \E q \in saving : r.object = q.object
    BY <2>2 DEF TypeOK
  <2>4. ok' = [ok EXCEPT ![c] = FALSE] /\ \A d \in Clients \ {c} : pc'[d] = pc[d]
    BY <1>6 DEF ReceiptLost, Crash, GiveUp, TypeOK
  <2> QED BY <1>1, <2>1, <2>3, <2>4 DEF TypeOK
<1>7. ASSUME NEW r \in saving, ReceiptSave(r) PROVE DoneInv'
  <2>1. /\ row' = r.object /\ saving' = saving \ {r}
        /\ pc' = [c \in Clients |-> IF c = r.by THEN "idle" ELSE pc[c]]
        /\ ok' = [c \in Clients |-> c # r.by /\ ok[c]]
    BY <1>7, Zenon DEF ReceiptSave
  <2>2. mixed' = FALSE => mixed = FALSE
    BY <1>0, <1>7, Zenon DEF ReceiptSave
  <2>3. succeeded' = (succeeded /\ r.object.status # "active")
    BY <1>7, Zenon DEF ReceiptSave
  <2>4. \A c \in Clients : pc'[c] = "tell" /\ ok'[c] = TRUE => pc[c] = "tell" /\ ok[c] = TRUE
    <3>1. ok \in [Clients -> BOOLEAN]
      BY DEF TypeOK
    <3> QED BY <2>1, <3>1
  <2>5. mixed = FALSE => r.object.repeat = row.repeat
    BY DEF KindInv
  <2>6. CASE r.object.status = "active"
    <3>1. mixed = FALSE => row.repeat # "once"
      BY <2>6 DEF KindInv
    <3>2. mixed = FALSE => \A q \in saving : q.object.status = "active"
      BY <3>1 DEF KindInv, TypeOK, Row
    <3> QED BY <2>1, <2>2, <2>5, <2>6, <3>1, <3>2
  <2>7. CASE r.object.status # "active"
    <3>1. succeeded' = succeeded
      BY <1>0, <2>3, <2>7, Zenon
    <3> QED BY <2>1, <2>2, <2>4, <2>5, <3>1
  <2> QED BY <2>6, <2>7
<1>8. ASSUME NEW status \in {"same", "active", "paused"}, NEW kind \in {"once", "daily"},
             NEW time \in {row.dueAt, row.mark, Period}, Edit(status, kind, time)
      PROVE  DoneInv'
  BY <1>1, <1>8 DEF Edit, history
<1>9. ASSUME NEW e \in editing, EditSave(e) PROVE DoneInv'
  <2>1. row' = e.new /\ pc' = pc /\ saving' = saving
    BY <1>9, Zenon DEF EditSave
  <2>2. mixed' = FALSE => mixed = FALSE /\ row = e.old /\ saving = {} /\ \A c \in Clients : pc[c] = "idle"
    BY <1>0, <1>9, Zenon DEF EditSave, Busy
  <2>3. e.new.status = "active" \/ succeeded' = succeeded
    BY <1>9, Zenon DEF EditSave
  <2>4. e.new.status = "done" => e.old.status = "done"
    BY DEF KindInv
  <2>5. CASE mixed' = FALSE
    BY <2>1, <2>2, <2>3, <2>4, <2>5
  <2>6. CASE mixed' # FALSE
    BY <2>6
  <2> QED BY <2>5, <2>6
<1>10. CASE Remove
  <2>1. UNCHANGED <<pc, ok, saving, succeeded, mixed>> /\ row' = [row EXCEPT !.status = Gone]
    BY <1>10, Zenon DEF Remove, history
  <2>2. row'.repeat = row.repeat /\ row'.status # "done"
    BY <2>1 DEF TypeOK, Row, Gone
  <2> QED BY <1>1, <2>1, <2>2
<1>11. CASE Tick
  <2>1. UNCHANGED <<pc, ok, saving, succeeded, mixed>>
    BY <1>11, Zenon DEF Tick
  <2>2. row'.repeat = row.repeat /\ row'.status = row.status
    BY <1>11 DEF Tick, TypeOK, Row
  <2> QED BY <1>1, <2>1, <2>2
<1>12. CASE UNCHANGED vars
  BY <1>1, <1>12 DEF vars
<1> QED
  BY <1>2, <1>3, <1>4, <1>5, <1>6, <1>7, <1>8, <1>9, <1>10, <1>11, <1>12 DEF Next, Client

\* A task that shows done has had a run that succeeded since it was last set.
THEOREM DoneSucceeded == Spec => []DoneWasRun
<1>1. Init => KindInv /\ DoneInv
  BY DEF Init, KindInv, DoneInv
<1>2. TypeOK /\ DoneInv => DoneWasRun
  BY Zenon DEF TypeOK, DoneInv, DoneWasRun
<1> QED BY <1>1, <1>2, TypeCorrect, KindStep, DoneStep, PTL DEF Spec
=============================================================================
