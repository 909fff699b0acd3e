----------------------------- MODULE TaskProofs -----------------------------
(***************************************************************************)
(* Proofs about TaskScheduler for every set of tasks, cron expressions,    *)
(* handlers and workers, and every set of calls: the types and the one     *)
(* initTask; that a stopped task stays stopped; that an activated task is  *)
(* scheduled; and, with one request at a time and no process killed, that  *)
(* the rows know what Bull repeats.                                        *)
(***************************************************************************)
EXTENDS TaskScheduler, TLAPS

\* The calls of a handler that works on a task, those that work on the task as
\* it was read, and those of initTask between two tasks.
TaskPcs == {"info", "exist", "remove", "mark", "add", "save", "drop", "late", "find"}
SnapPcs == {"exist", "remove", "mark", "add", "save", "drop"}
BootPcs == {"purge", "load", "next"}

\* A handler has what its next call needs.
JobOK(j) ==
    /\ j.pc \in TaskPcs => j.id \in Tasks
    /\ j.pc \in SnapPcs => j.task \in Snaps
    /\ j.pc \in {"add", "save"} => j.task.cron \in Crons
    /\ j.pc \in BootPcs => j.boot

JobsOK == job \in [Handlers -> Jobs] /\ \A h \in Handlers : JobOK(job[h])

DataOK ==
    /\ row \in [Tasks -> Rows]
    /\ logs \in SUBSET Tasks
    /\ repeat \in SUBSET Schedules /\ due \in SUBSET Schedules /\ queue \in SUBSET Schedules
    /\ once \in SUBSET Tasks
    /\ run \in [Workers -> {None} \cup Tasks \X (Crons \cup {None})]
    /\ lock \in BOOLEAN
    /\ stopped \in SUBSET Tasks
    /\ settled \in SUBSET Tasks

TypeInv == DataOK /\ JobsOK

\* The key of initTask is there as long as the one initTask runs.
BootInv ==
    /\ OneInit
    /\ \A p \in Procs : job[p].boot => lock

-----------------------------------------------------------------------------
\* Records of handlers

LEMMA IdleJobOK == IdleJob \in Jobs /\ JobOK(IdleJob) /\ ~IdleJob.boot /\ IdleJob.pc = "idle"
  BY DEF IdleJob, Jobs, Pcs, JobOK, TaskPcs, SnapPcs, BootPcs

\* The record of h becomes j, and the others stay.
LEMMA OneJob ==
  ASSUME NEW h \in Handlers, NEW j \in Jobs, JobsOK, JobOK(j), j.boot => job[h].boot,
         job' = [job EXCEPT ![h] = j]
  PROVE  JobsOK' /\ \A g \in Handlers : job'[g].boot => job[g].boot
  BY DEF JobsOK

LEMMA FailJob ==
  ASSUME NEW h \in Handlers, JobsOK, Fail(h)
  PROVE  JobsOK' /\ \A g \in Handlers : job'[g].boot => job[g].boot
  BY OneJob, IdleJobOK DEF Fail

LEMMA GotoJob ==
  ASSUME NEW h \in Handlers, NEW l \in Pcs, JobsOK, Goto(h, l),
         l \in TaskPcs => job[h].id \in Tasks,
         l \in SnapPcs => job[h].task \in Snaps,
         l \in {"add", "save"} => job[h].task.cron \in Crons,
         l \in BootPcs => job[h].boot
  PROVE  JobsOK' /\ \A g \in Handlers : job'[g].boot => job[g].boot
<1> DEFINE j == [job[h] EXCEPT !.pc = l]
<1>1. j \in Jobs /\ JobOK(j) /\ j.boot = job[h].boot
  BY DEF JobsOK, Jobs, JobOK
<1>2. job' = [job EXCEPT ![h] = j]
  BY DEF Goto, JobsOK
<1> QED BY <1>1, <1>2, OneJob

LEMMA ReturnJob ==
  ASSUME NEW h \in Handlers, JobsOK, Return(h)
  PROVE  JobsOK' /\ \A g \in Handlers : job'[g].boot => job[g].boot
<1>1. CASE job[h].boot
  <2> DEFINE j == [IdleJob EXCEPT !.pc = "next", !.boot = TRUE,
                                  !.todo = job[h].todo, !.alone = job[h].alone]
  <2>1. j \in Jobs /\ JobOK(j)
    BY DEF JobsOK, IdleJob, Jobs, Pcs, JobOK, TaskPcs, SnapPcs, BootPcs
  <2>2. job' = [job EXCEPT ![h] = j]
    BY <1>1 DEF Return
  <2> HIDE DEF j
  <2> QED BY <1>1, <2>1, <2>2, OneJob
<1>2. CASE ~job[h].boot
  BY <1>2, FailJob DEF Return
<1> QED BY <1>1, <1>2

\* A handler begins with the record rec, but for what the properties remember.
LEMMA BeginJob ==
  ASSUME NEW h \in Handlers, NEW rec \in Jobs, TypeInv, JobOK(rec), rec.id \in Tasks,
         rec.boot => job[h].boot, Begin(h, rec)
  PROVE  /\ JobsOK' /\ \A g \in Handlers : job'[g].boot => job[g].boot
         /\ stopped' \in SUBSET Tasks /\ settled' \in SUBSET Tasks
<1>1. ASSUME NEW g \in Handlers
      PROVE  job'[g] \in Jobs /\ JobOK(job'[g]) /\ (job'[g].boot => job[g].boot)
  <2>1. CASE g = h
    <3> DEFINE a == \A o \in Handlers \ {h} :
                       ~job[o].boot /\ (job[o].id = rec.id => ~MayStart(job[o]))
               b == /\ \A o \in Handlers \ {h} : job[o].id # rec.id /\ ~Purging(o)
                    /\ rec.boot => rec.alone
    <3>1. job'[g] = [rec EXCEPT !.calm = a, !.alone = b]
      BY <2>1 DEF Begin
    <3>2. a \in BOOLEAN /\ b \in BOOLEAN
      OBVIOUS
    <3> HIDE DEF a, b
    <3> QED BY <2>1, <3>1, <3>2, SMTT(20), ZenonT(60) DEF Jobs, JobOK
  <2>2. CASE g # h /\ (job[g].id = rec.id \/ job[g].boot)
    <3> DEFINE a == job[g].calm /\ ~MayStart(rec)
    <3>1. job'[g] = [job[g] EXCEPT !.calm = a, !.alone = FALSE]
      BY <2>2 DEF Begin, TypeInv, JobsOK, Jobs
    <3>2. a \in BOOLEAN /\ job[g] \in Jobs /\ JobOK(job[g])
      BY DEF TypeInv, JobsOK
    <3> HIDE DEF a
    <3> QED BY <3>1, <3>2 DEF Jobs, JobOK
  <2>3. CASE g # h /\ ~(job[g].id = rec.id \/ job[g].boot)
    BY <2>3 DEF Begin, TypeInv, JobsOK
  <2> QED BY <2>1, <2>2, <2>3
<1>2. job' \in [Handlers -> Jobs]
  BY <1>1 DEF Begin
<1>3. stopped' \in SUBSET Tasks /\ settled' \in SUBSET Tasks
  BY DEF Begin, TypeInv, DataOK
<1> QED BY <1>1, <1>2, <1>3 DEF JobsOK

LEMMA InitInv == Init => TypeInv /\ BootInv
<1> SUFFICES ASSUME Init PROVE TypeInv /\ BootInv
  OBVIOUS
<1>1. JobsOK
  BY IdleJobOK DEF Init, JobsOK
<1>2. DataOK
  BY DEF Init, DataOK, Rows, Kinds
<1>3. BootInv
  BY IdleJobOK DEF Init, BootInv, OneInit, Handlers
<1> QED BY <1>1, <1>2, <1>3 DEF TypeInv

\* No initTask begins or ends.
LEMMA BootQuiet ==
  ASSUME BootInv, UNCHANGED lock, \A p \in Procs : job'[p].boot => job[p].boot
  PROVE  BootInv'
  BY DEF BootInv, OneInit

-----------------------------------------------------------------------------
\* The actions

LEMMA SnapOK ==
  ASSUME NEW t \in Tasks, DataOK
  PROVE  Snap(t) \in Snaps
  BY DEF Snap, Snaps, DataOK, Rows

LEMMA StopInv ==
  ASSUME NEW h \in Handlers, TypeInv, BootInv, StopStep(h)
  PROVE  TypeInv' /\ BootInv'
<1> USE DEF TypeInv, At, bull
<1>1. job[h].id \in Tasks /\ job[h].task \in Snaps
  BY DEF StopStep, Exist, Remove, Mark, JobsOK, JobOK, TaskPcs, SnapPcs
<1>2. job[h].task.id \in Tasks /\ job[h].task.cron \in Kinds
  BY <1>1 DEF Snaps
<1>3. JobsOK' /\ \A g \in Handlers : job'[g].boot => job[g].boot
  <2>1. CASE Exist(h)
    BY <2>1, <1>1, GotoJob DEF Exist, Pcs, TaskPcs, SnapPcs, BootPcs
  <2>2. CASE Remove(h)
    BY <2>2, <1>1, GotoJob, FailJob DEF Remove, Pcs, TaskPcs, SnapPcs, BootPcs
  <2>3. CASE Mark(h)
    BY <2>3, <1>1, <1>2, GotoJob, ReturnJob DEF Mark, Pcs, TaskPcs, SnapPcs, BootPcs, Kinds
  <2> QED BY <2>1, <2>2, <2>3 DEF StopStep
<1>4. row' \in [Tasks -> Rows] /\ stopped' \in SUBSET Tasks
  <2>1. CASE Exist(h) \/ Remove(h)
    BY <2>1 DEF Exist, Remove, past, DataOK
  <2>2. CASE Mark(h)
    <3>1. stopped' \in SUBSET Tasks
      BY <1>2, <2>2 DEF Mark, DataOK
    <3>2. \A t \in Tasks : [row[t] EXCEPT !.status = "disabled"] \in Rows
      BY DEF DataOK, Rows
    <3>3. row' = [row EXCEPT ![job[h].task.id].status = IF Exists(job[h].task.id) THEN "disabled" ELSE @]
      BY <2>2 DEF Mark
    <3>4. row' \in [Tasks -> Rows]
      <4>1. CASE Exists(job[h].task.id)
        BY <1>2, <3>2, <3>3, <4>1 DEF DataOK
      <4>2. CASE ~Exists(job[h].task.id)
        <5>1. row' = [row EXCEPT ![job[h].task.id].status = @]
          BY <3>3, <4>2
        <5>2. \A t \in Tasks : [row[t] EXCEPT !.status = row[t].status] \in Rows
          BY DEF DataOK, Rows
        <5> QED BY <1>2, <5>1, <5>2 DEF DataOK
      <4> QED BY <4>1, <4>2
    <3> QED BY <3>1, <3>4
  <2> QED BY <2>1, <2>2 DEF StopStep
<1>5. repeat' \subseteq repeat /\ due' \subseteq due /\ queue' \subseteq queue /\ once' \subseteq once
  BY DEF StopStep, Exist, Remove, Mark
<1>6. UNCHANGED <<logs, run, lock, settled>>
  BY DEF StopStep, Exist, Remove, Mark, past
<1>7. DataOK'
  BY <1>4, <1>5, <1>6 DEF DataOK
<1>8. BootInv'
  BY <1>3, <1>6, BootQuiet DEF Handlers
<1> QED BY <1>3, <1>7, <1>8

LEMMA StartInv ==
  ASSUME NEW h \in Handlers, TypeInv, BootInv, StartStep(h) \/ Drop(h)
  PROVE  TypeInv' /\ BootInv'
<1> USE DEF TypeInv, At, bull
<1>1. job[h].task \in Snaps /\ job[h].task.id \in Tasks
  BY DEF StartStep, Add, AddRefused, Save, Drop, JobsOK, JobOK, SnapPcs, Snaps
<1>2. ~Drop(h) => job[h].task.id \in Tasks /\ job[h].task.cron \in Crons
  BY <1>1 DEF StartStep, Add, AddRefused, Save, JobsOK, JobOK, Snaps
<1>3. JobsOK' /\ \A g \in Handlers : job'[g].boot => job[g].boot
  <2>1. CASE Add(h)
    BY <2>1, <1>1, <1>2, GotoJob DEF Add, Drop, JobsOK, JobOK, Pcs, TaskPcs, SnapPcs, BootPcs
  <2>2. CASE AddRefused(h) \/ Drop(h)
    BY <2>2, FailJob DEF AddRefused, Drop
  <2>3. CASE Save(h)
    BY <2>3, ReturnJob DEF Save
  <2> QED BY <2>1, <2>2, <2>3 DEF StartStep
<1>4. row' \in [Tasks -> Rows]
  <2>1. CASE Save(h)
    <3>1. job[h].task.cron \in Crons
      BY <2>1, <1>2 DEF Save, Drop
    <3> DEFINE t == job[h].task.id
               r == [status |-> "activated", cron |-> row[t].cron, opts |-> job[h].task.cron]
    <3>2. row[t].cron \in Kinds
      BY <1>1 DEF DataOK, Rows
    <3>3. r \in Rows
      BY <3>1, <3>2 DEF Rows
    <3>4. row' = row \/ row' = [row EXCEPT ![t] = r]
      BY <2>1 DEF Save
    <3> HIDE DEF r
    <3> QED BY <1>1, <3>3, <3>4 DEF DataOK
  <2>2. CASE Add(h)
    BY <2>2 DEF Add, DataOK
  <2>3. ASSUME NEW t \in Tasks, NEW s \in {"unused", "activated", "disabled", "deleted"},
               row' = [row EXCEPT ![t].status = s]
        PROVE  row' \in [Tasks -> Rows]
    BY <2>3 DEF DataOK, Rows
  <2>4. CASE AddRefused(h) \/ Drop(h)
    <3> DEFINE t == job[h].task.id
               s == IF ~Exists(t) THEN row[t].status
                    ELSE IF AddRefused(h) THEN "disabled"
                    ELSE IF t \notin logs THEN "deleted" ELSE row[t].status
    <3>1. row[t].status \in {"unused", "activated", "disabled", "deleted"}
      BY <1>1 DEF DataOK, Rows
    <3>2. s \in {"unused", "activated", "disabled", "deleted"}
      BY <3>1
    <3>3. CASE AddRefused(h)
      <4>1. row' = [row EXCEPT ![t].status = s]
        BY <3>3 DEF AddRefused
      <4> QED BY <1>1, <2>3, <3>2, <4>1
    <3>4. CASE Drop(h) /\ ~AddRefused(h)
      <4>1. row' = [row EXCEPT ![t].status = s]
        BY <3>4 DEF Drop
      <4> QED BY <1>1, <2>3, <3>2, <4>1
    <3> QED BY <2>4, <3>3, <3>4
  <2> QED BY <2>1, <2>2, <2>4 DEF StartStep
<1>5. repeat' \in SUBSET Schedules /\ due' \in SUBSET Schedules /\ queue' \in SUBSET Schedules
  <2>1. CASE Add(h)
    <3> DEFINE s == <<job[h].task.id, job[h].task.cron>>
    <3>1. s \in Schedules
      BY <2>1, <1>2 DEF Add, Drop, Schedules
    <3> QED BY <2>1, <3>1 DEF Add, DataOK
  <2>2. CASE AddRefused(h) \/ Save(h) \/ Drop(h)
    BY <2>2 DEF AddRefused, Save, Drop, DataOK
  <2> QED BY <2>1, <2>2 DEF StartStep
<1>6. stopped' \in SUBSET Tasks /\ settled' \in SUBSET Tasks
  <2>1. CASE Save(h) \/ Drop(h)
    BY <2>1, <1>1 DEF Save, Drop, DataOK
  <2>2. CASE Add(h) \/ AddRefused(h)
    BY <2>2 DEF Add, AddRefused, DataOK, past
  <2> QED BY <2>1, <2>2 DEF StartStep
<1>7. UNCHANGED <<logs, once, run, lock>>
  BY DEF StartStep, Add, AddRefused, Save, Drop
<1>8. DataOK'
  BY <1>4, <1>5, <1>6, <1>7 DEF DataOK
<1>9. BootInv'
  BY <1>3, <1>7, BootQuiet DEF Handlers
<1> QED BY <1>3, <1>8, <1>9

LEMMA BootInvStep ==
  ASSUME NEW p \in Procs, TypeInv, BootInv, BootStep(p)
  PROVE  TypeInv' /\ BootInv'
<1> USE DEF At, bull, past, Handlers
<1>1. CASE Purge(p)
  <2>1. JobsOK' /\ \A g \in Handlers : job'[g].boot => job[g].boot
    BY <1>1, GotoJob
       DEF Purge, TypeInv, JobsOK, JobOK, Pcs, TaskPcs, SnapPcs, BootPcs
  <2> QED BY <1>1, <2>1, BootQuiet DEF Purge, TypeInv, DataOK
<1>2. CASE Load(p)
  <2> DEFINE S == {Snap(t) : t \in {u \in Tasks : row[u].status = "activated"}}
             j == [job[p] EXCEPT !.pc = "next", !.todo = S]
  <2>1. S \in SUBSET Snaps
    BY SnapOK DEF TypeInv
  <2>2. job[p].boot /\ job[p] \in Jobs
    BY <1>2 DEF Load, TypeInv, JobsOK, JobOK, BootPcs
  <2>3. job' = [job EXCEPT ![p] = j]
    BY <1>2 DEF Load, TypeInv, JobsOK
  <2> HIDE DEF S
  <2>4. j \in Jobs /\ JobOK(j)
    BY <2>1, <2>2 DEF Jobs, JobOK, Pcs, TaskPcs, SnapPcs, BootPcs
  <2> HIDE DEF j
  <2>5. JobsOK' /\ \A g \in Handlers : job'[g].boot => job[g].boot
    BY <2>2, <2>3, <2>4, OneJob DEF TypeInv
  <2> QED BY <1>2, <2>5, BootQuiet DEF Load, TypeInv, DataOK
<1>3. CASE BootNext(p) /\ job[p].todo = {} /\ lock' = FALSE /\ Fail(p) /\ UNCHANGED past
  <2>1. job[p].boot
    BY <1>3 DEF BootNext, TypeInv, JobsOK, JobOK, BootPcs
  <2>2. JobsOK' /\ \A g \in Handlers : job'[g].boot => job[g].boot
    BY <1>3, FailJob DEF TypeInv
  <2>3. ~job'[p].boot
    BY <1>3, IdleJobOK DEF Fail, TypeInv, JobsOK
  <2>4. \A q \in Procs : ~job'[q].boot
    BY <2>1, <2>2, <2>3 DEF BootInv, OneInit
  <2> QED BY <1>3, <2>2, <2>4 DEF BootNext, TypeInv, DataOK, BootInv, OneInit
<1>4. ASSUME NEW s \in job[p].todo, BootNext(p), UNCHANGED lock,
             Begin(p, [job[p] EXCEPT !.pc = "exist", !.id = s.id, !.task = s,
                                     !.then = "add", !.todo = @ \ {s}])
      PROVE  TypeInv' /\ BootInv'
  <2> DEFINE S == job[p].todo \ {s}
             j == [job[p] EXCEPT !.pc = "exist", !.id = s.id, !.task = s,
                                 !.then = "add", !.todo = S]
  <2>1. job[p].boot /\ job[p] \in Jobs
    BY <1>4 DEF BootNext, TypeInv, JobsOK, JobOK, BootPcs
  <2>2. s \in Snaps /\ S \in SUBSET Snaps
    BY <2>1 DEF Jobs
  <2>3. Begin(p, j)
    BY <1>4, <2>1 DEF Jobs
  <2> HIDE DEF S
  <2>4. s.id \in Tasks
    BY <2>2 DEF Snaps
  <2>5. j \in Jobs /\ JobOK(j) /\ j.id \in Tasks
    BY <2>1, <2>2, <2>4 DEF Jobs, JobOK, Pcs, TaskPcs, SnapPcs, BootPcs
  <2> HIDE DEF j
  <2>6. /\ JobsOK' /\ \A g \in Handlers : job'[g].boot => job[g].boot
        /\ stopped' \in SUBSET Tasks /\ settled' \in SUBSET Tasks
    BY <2>1, <2>3, <2>5, BeginJob
  <2> QED BY <1>4, <2>6, BootQuiet DEF BootNext, TypeInv, DataOK
<1> QED BY <1>1, <1>2, <1>3, <1>4 DEF BootStep, BootNext

LEMMA InfoInv ==
  ASSUME NEW h \in Handlers, TypeInv, BootInv,
         (h \in Procs /\ Info(h)) \/ (h \in Workers /\ (Late(h) \/ Find(h)))
  PROVE  TypeInv' /\ BootInv'
<1> DEFINE t == job[h].id
<1>1. t \in Tasks /\ job[h] \in Jobs
  BY DEF Info, Late, Find, At, TypeInv, JobsOK, JobOK, TaskPcs
<1>2. JobsOK' /\ \A g \in Handlers : job'[g].boot => job[g].boot
  <2>1. CASE Fail(h)
    BY <2>1, FailJob DEF TypeInv
  <2>2. CASE Goto(h, "find")
    BY <2>2, <1>1, GotoJob DEF TypeInv, Pcs, TaskPcs, SnapPcs, BootPcs
  <2>3. ASSUME NEW then \in {"end", "add", "drop"}, NEW j,
               j = [job[h] EXCEPT !.pc = "exist", !.task = Snap(t), !.then = then],
               job' = [job EXCEPT ![h] = j]
        PROVE  JobsOK' /\ \A g \in Handlers : job'[g].boot => job[g].boot
    <3>1. Snap(t) \in Snaps
      BY <1>1, SnapOK DEF TypeInv
    <3>2. j \in Jobs /\ JobOK(j) /\ j.boot = job[h].boot
      BY <2>3, <1>1, <3>1 DEF Jobs, JobOK, Pcs, TaskPcs, SnapPcs, BootPcs
    <3> QED BY <2>3, <3>2, OneJob DEF TypeInv
  <2>4. CASE job' = [job EXCEPT ![h] = [@ EXCEPT !.pc = "exist", !.task = Snap(t),
                       !.then = IF row[t].status = "activated" THEN "add" ELSE "end"]]
    <3> DEFINE then == IF row[t].status = "activated" THEN "add" ELSE "end"
               j == [job[h] EXCEPT !.pc = "exist", !.task = Snap(t), !.then = then]
    <3>1. job' = [job EXCEPT ![h] = j] /\ then \in {"end", "add", "drop"}
      BY <2>4 DEF TypeInv, JobsOK
    <3> QED BY <3>1, <2>3
  <2>5. CASE job' = [job EXCEPT ![h] = [@ EXCEPT !.pc = "exist", !.task = Snap(t)]]
    <3> DEFINE then == job[h].then
               j == [job[h] EXCEPT !.pc = "exist", !.task = Snap(t), !.then = then]
    <3>1. job' = [job EXCEPT ![h] = j] /\ then \in {"end", "add", "drop"}
      BY <2>5, <1>1 DEF TypeInv, JobsOK, Jobs
    <3> QED BY <3>1, <2>3
  <2> QED BY <2>1, <2>2, <2>4, <2>5 DEF Info, Late, Find
<1>3. UNCHANGED <<row, logs, bull, lock, past>>
  BY DEF Info, Late, Find
<1> QED BY <1>2, <1>3, BootQuiet DEF bull, past, TypeInv, DataOK, Handlers

\* A request that begins to work on the task t with the record rec.
LEMMA ArriveJob ==
  ASSUME NEW h \in Handlers, NEW rec \in Jobs, TypeInv, BootInv, JobOK(rec),
         rec.id \in Tasks, ~rec.boot, Begin(h, rec), UNCHANGED lock,
         row' \in [Tasks -> Rows], logs' \in SUBSET Tasks,
         UNCHANGED <<repeat, due, queue, once>>,
         run' \in [Workers -> {None} \cup Tasks \X (Crons \cup {None})]
  PROVE  TypeInv' /\ BootInv'
<1>1. /\ JobsOK' /\ \A g \in Handlers : job'[g].boot => job[g].boot
      /\ stopped' \in SUBSET Tasks /\ settled' \in SUBSET Tasks
  BY BeginJob
<1> QED BY <1>1, BootQuiet DEF TypeInv, DataOK, Handlers

LEMMA CreateInv ==
  ASSUME NEW p \in Procs, NEW t \in Tasks, NEW c \in Kinds,
         NEW s \in {"activated", "disabled"}, TypeInv, BootInv,
         Create(p, t, c, s) \/ Update(p, t, c, s)
  PROVE  TypeInv' /\ BootInv'
<1>1. CASE Create(p, t, c, s)
  <2> DEFINE snap == [id |-> t, cron |-> c, opts |-> None]
             r == [status |-> s, cron |-> c, opts |-> None]
             then == IF s = "activated" THEN "add" ELSE "end"
             j == [IdleJob EXCEPT !.pc = "exist", !.id = t, !.task = snap, !.then = then]
  <2>1. snap \in Snaps /\ r \in Rows /\ then \in {"end", "add", "drop"}
    BY DEF Snaps, Rows, Kinds
  <2>2. row' = [row EXCEPT ![t] = r] /\ Begin(p, j)
    BY <1>1 DEF Create
  <2>3. UNCHANGED <<logs, bull, lock>>
    BY <1>1 DEF Create
  <2> HIDE DEF snap, r, then
  <2>4. j \in Jobs /\ JobOK(j) /\ j.id \in Tasks /\ ~j.boot
    BY <2>1 DEF IdleJob, Jobs, JobOK, Pcs, TaskPcs, SnapPcs, BootPcs
  <2>5. row' \in [Tasks -> Rows]
    BY <2>1, <2>2 DEF TypeInv, DataOK
  <2> HIDE DEF j
  <2> QED BY <2>2, <2>3, <2>4, <2>5, ArriveJob DEF Handlers, bull, TypeInv, DataOK
<1>2. CASE Update(p, t, c, s)
  <2> DEFINE r == [status |-> s, cron |-> c, opts |-> row[t].opts]
             j == [IdleJob EXCEPT !.pc = "info", !.id = t]
  <2>1. r \in Rows
    BY DEF Rows, Kinds, TypeInv, DataOK
  <2>2. row' = [row EXCEPT ![t] = r] /\ Begin(p, j)
    BY <1>2 DEF Update
  <2>3. UNCHANGED <<logs, bull, lock>>
    BY <1>2 DEF Update
  <2> HIDE DEF r
  <2>4. j \in Jobs /\ JobOK(j) /\ j.id \in Tasks /\ ~j.boot
    BY DEF IdleJob, Jobs, JobOK, Pcs, TaskPcs, SnapPcs, BootPcs
  <2>5. row' \in [Tasks -> Rows]
    BY <2>1, <2>2 DEF TypeInv, DataOK
  <2> HIDE DEF j
  <2> QED BY <2>2, <2>3, <2>4, <2>5, ArriveJob DEF Handlers, bull, TypeInv, DataOK
<1> QED BY <1>1, <1>2

LEMMA CallInv ==
  ASSUME NEW p \in Procs, NEW t \in Tasks, NEW then \in {"add", "end", "drop"},
         TypeInv, BootInv, Call(p, t, then)
  PROVE  TypeInv' /\ BootInv'
<1> DEFINE j == [IdleJob EXCEPT !.pc = "exist", !.id = t, !.task = Snap(t), !.then = then]
<1>1. Snap(t) \in Snaps
  BY SnapOK DEF TypeInv
<1>2. j \in Jobs /\ JobOK(j) /\ j.id \in Tasks /\ ~j.boot
  BY <1>1 DEF IdleJob, Jobs, JobOK, Pcs, TaskPcs, SnapPcs, BootPcs
<1>3. Begin(p, j) /\ UNCHANGED <<row, logs, bull, lock>>
  BY DEF Call
<1> HIDE DEF j
<1> QED BY <1>2, <1>3, ArriveJob DEF Handlers, bull, TypeInv, DataOK

\* An instance that does not find the key: no other initTask is running.
LEMMA BootStart ==
  ASSUME NEW p \in Procs, TypeInv, BootInv, Boot(p)
  PROVE  TypeInv' /\ BootInv'
<1> DEFINE a == \A o \in Handlers : Idle(o)
           j == [IdleJob EXCEPT !.pc = "purge", !.boot = TRUE, !.alone = a]
<1>1. a \in BOOLEAN
  OBVIOUS
<1>2. \A h \in Handlers :
        job'[h] = IF h = p THEN j ELSE [job[h] EXCEPT !.alone = FALSE, !.calm = FALSE]
  BY DEF Boot
<1> HIDE DEF a
<1>3. j \in Jobs /\ JobOK(j) /\ j.boot
  BY <1>1 DEF IdleJob, Jobs, JobOK, Pcs, TaskPcs, SnapPcs, BootPcs
<1> HIDE DEF j
<1>4. ASSUME NEW h \in Handlers \ {p}
      PROVE  job'[h] \in Jobs /\ JobOK(job'[h]) /\ job'[h].boot = job[h].boot
  <2>1. job[h] \in Jobs /\ JobOK(job[h])
    BY DEF TypeInv, JobsOK
  <2>2. job'[h] = [job[h] EXCEPT !.alone = FALSE, !.calm = FALSE]
    BY <1>2
  <2> QED BY <2>1, <2>2 DEF Jobs, JobOK
<1>5. job' \in [Handlers -> Jobs]
  BY <1>2, <1>3, <1>4 DEF Boot
<1>6. JobsOK'
  BY <1>2, <1>3, <1>4, <1>5 DEF JobsOK
<1>7. \A q \in Procs \ {p} : ~job'[q].boot
  BY <1>4 DEF Boot, BootInv, Handlers
<1> QED BY <1>6, <1>7 DEF Boot, bull, BootInv, OneInit, TypeInv, DataOK

LEMMA ArriveInv ==
  ASSUME NEW p \in Procs, TypeInv, BootInv, Arrive(p)
  PROVE  TypeInv' /\ BootInv'
  BY CreateInv, CallInv, BootStart DEF Arrive, StartCall, StopCall, DeleteCall

\* Time and the queue: no handler begins or ends.
LEMMA QueueInv ==
  ASSUME TypeInv, BootInv,
         \/ \E s \in Schedules : Tick(s)
         \/ \E t \in Tasks : Once(t)
         \/ \E w \in Workers, s \in Schedules : Take(w, s)
         \/ \E w \in Workers, t \in Tasks : TakeOnce(w, t)
  PROVE  TypeInv' /\ BootInv'
<1>1. DataOK'
  <2> USE DEF TypeInv, DataOK, past
  <2>1. ASSUME NEW s \in Schedules, Tick(s) PROVE DataOK'
    BY <2>1 DEF Tick
  <2>2. ASSUME NEW t \in Tasks, Once(t) PROVE DataOK'
    BY <2>2 DEF Once
  <2>3. ASSUME NEW w \in Workers, NEW s \in Schedules, Take(w, s) PROVE DataOK'
    <3>1. s \in Tasks \X (Crons \cup {None})
      BY DEF Schedules
    <3> QED BY <2>3, <3>1 DEF Take
  <2>4. ASSUME NEW w \in Workers, NEW t \in Tasks, TakeOnce(w, t) PROVE DataOK'
    BY <2>4 DEF TakeOnce
  <2> QED BY <2>1, <2>2, <2>3, <2>4
<1>2. UNCHANGED <<job, lock>>
  BY DEF Tick, Once, Take, TakeOnce
<1> QED BY <1>1, <1>2 DEF TypeInv, JobsOK, BootInv, OneInit

LEMMA FinishInv ==
  ASSUME NEW w \in Workers, TypeInv, BootInv, Finish(w)
  PROVE  TypeInv' /\ BootInv'
<1> DEFINE t == run[w][1]
           j == [IdleJob EXCEPT !.pc = "late", !.id = t]
<1>1. t \in Tasks
  BY DEF Finish, TypeInv, DataOK
<1>2. run' \in [Workers -> {None} \cup Tasks \X (Crons \cup {None})]
  BY DEF Finish, TypeInv, DataOK
<1>3. CASE Exists(t)
  <2>1. logs' = logs \cup {t} /\ Begin(w, j)
    BY <1>3 DEF Finish
  <2>2. UNCHANGED <<row, repeat, due, queue, once, lock>>
    BY DEF Finish
  <2>3. j \in Jobs /\ JobOK(j) /\ j.id \in Tasks /\ ~j.boot
    BY <1>1 DEF IdleJob, Jobs, JobOK, Pcs, TaskPcs, SnapPcs, BootPcs
  <2> HIDE DEF j
  <2> QED BY <1>1, <1>2, <2>1, <2>2, <2>3, ArriveJob DEF Handlers, TypeInv, DataOK
<1>4. CASE ~Exists(t)
  BY <1>2, <1>4 DEF Finish, past, TypeInv, DataOK, JobsOK, BootInv, OneInit
<1> QED BY <1>3, <1>4

LEMMA FaultInv ==
  ASSUME TypeInv, BootInv, LockExpires \/ \E h \in Handlers : Abort(h)
  PROVE  TypeInv' /\ BootInv'
<1>1. CASE LockExpires
  BY <1>1 DEF LockExpires, bull, past, TypeInv, DataOK, JobsOK, BootInv, OneInit
<1>2. ASSUME NEW h \in Handlers, Abort(h) PROVE TypeInv' /\ BootInv'
  <2>1. JobsOK' /\ \A g \in Handlers : job'[g].boot => job[g].boot
    BY <1>2, FailJob DEF Abort, TypeInv
  <2> QED BY <1>2, <2>1, BootQuiet DEF Abort, bull, TypeInv, DataOK, Handlers
<1> QED BY <1>1, <1>2

LEMMA NextInv == TypeInv /\ BootInv /\ [Next]_vars => TypeInv' /\ BootInv'
<1> SUFFICES ASSUME TypeInv, BootInv, [Next]_vars PROVE TypeInv' /\ BootInv'
  OBVIOUS
<1>1. ASSUME NEW p \in Procs, ProcStep(p) PROVE TypeInv' /\ BootInv'
  BY <1>1, StopInv, StartInv, BootInvStep, InfoInv DEF ProcStep, Step, Handlers
<1>2. ASSUME NEW w \in Workers, WorkerStep(w) PROVE TypeInv' /\ BootInv'
  BY <1>2, StopInv, StartInv, InfoInv, FinishInv, QueueInv DEF WorkerStep, Step, Handlers
<1>3. CASE UNCHANGED vars
  BY <1>3 DEF vars, bull, past, TypeInv, DataOK, JobsOK, BootInv, OneInit
<1> QED BY <1>1, <1>2, <1>3, ArriveInv, QueueInv, FaultInv DEF Next

-----------------------------------------------------------------------------
\* TypeCorrect: whatever tasks, handlers, workers and calls there are, every
\* variable stays in its type; a handler about to remove or add a schedule has
\* a task of the table to do it for.
THEOREM TypeCorrect == Spec => []TypeOK
<1>1. TypeInv => TypeOK
  BY DEF TypeInv, TypeOK, DataOK, JobsOK
<1> QED BY <1>1, InitInv, NextInv, PTL DEF Spec

\* SingleInit: any number of instances may start at any time and fail at any
\* call, and no two run initTask at once, as long as the key outlives the
\* initTask that set it.
THEOREM SingleInit == Spec => []OneInit
<1>1. BootInv => OneInit
  BY DEF BootInv
<1> QED BY <1>1, InitInv, NextInv, PTL DEF Spec

-----------------------------------------------------------------------------
\* A stopped task stays stopped

\* The handler may go on to add a schedule for its task.
WillStart(j) == j.pc = "info" \/ j.then = "add"

\* What follows stop() fits the call a handler is at.
Linked(j) ==
    /\ j.pc \in SnapPcs => j.id = j.task.id
    /\ j.pc \in {"add", "save"} => j.then = "add"
    /\ j.pc = "drop" => j.then = "drop"
    /\ j.boot /\ j.pc \in TaskPcs => j.pc \in SnapPcs /\ j.then = "add"
    /\ ~j.boot => j.todo = {}
    /\ j.calm => j.pc \in TaskPcs

\* Nobody works on a task that was never created.
UsedBy(j, r) ==
    /\ j.pc \in TaskPcs => r[j.id].status # "unused"
    /\ \A s \in j.todo : r[s.id].status # "unused"

\* A stop that nobody overlaps who might start the task: the configuration it
\* read is the one in the row, until it is no longer repeated.
Held(j, r, rp) ==
    j.calm /\ ~WillStart(j) =>
        /\ j.pc \in {"exist", "remove"} => j.task.opts = r[j.id].opts
        /\ j.pc \in {"mark", "drop"} => <<j.id, r[j.id].opts>> \notin rp
        /\ j.pc = "drop" => r[j.id].status # "activated"

JobsLinked == \A h \in Handlers : /\ Linked(job[h])
                                  /\ UsedBy(job[h], row)
                                  /\ Held(job[h], row, repeat)

\* Beside a calm handler there is no initTask, and no other that may start the task.
Calm == \A h \in Handlers : job[h].calm =>
    \A o \in Handlers \ {h} : /\ ~job[o].boot
                              /\ job[o].id = job[h].id => ~WillStart(job[o])

\* A stopped task is off, and no handler is about to start it.
Off == \A t \in stopped :
    /\ row[t].status # "activated"
    /\ <<t, row[t].opts>> \notin repeat
    /\ \A h \in Handlers : /\ job[h].id = t => ~WillStart(job[h])
                           /\ \A s \in job[h].todo : s.id # t

Stopping == JobsLinked /\ Calm /\ Off

\* A step that does not turn task t on.
Frozen(t) ==
    /\ row'[t].opts = row[t].opts
    /\ row'[t].status = "activated" => row[t].status = "activated"
    /\ \A c \in Crons \cup {None} : <<t, c>> \in repeat' => <<t, c>> \in repeat

\* A task that was created stays so.
UsedKept == \A t \in Tasks : row[t].status # "unused" => row'[t].status # "unused"

-----------------------------------------------------------------------------
\* A handler that is under way goes on, with the record j.

LEMMA StopStepsOn ==
  ASSUME NEW h \in Handlers, NEW j \in Jobs, TypeInv, Stopping, UsedKept, row' \in [Tasks -> Rows],
         job' = [job EXCEPT ![h] = j],
         Linked(j), Held(j, row', repeat'), j.pc \in TaskPcs => job[h].pc \in TaskPcs,
         j.id # job[h].id => j.pc \notin TaskPcs /\ ~WillStart(j) /\ ~j.calm,
         WillStart(j) => WillStart(job[h]),
         j.calm => job[h].calm,
         j.boot => job[h].boot,
         \A s \in j.todo : s.id \in Tasks /\ (s \in job[h].todo \/ row[s.id].status = "activated"),
         \A t \in Tasks : Frozen(t) \/ (t = job[h].id /\ WillStart(job[h])),
         \A t \in stopped' : \/ t \in stopped
                             \/ /\ t = job[h].id /\ job[h].calm
                                /\ ~job[h].boot /\ ~WillStart(job[h])
                                /\ row'[t].status # "activated"
                                /\ <<t, row'[t].opts>> \notin repeat'
  PROVE  Stopping'
<1>1. job'[h] = j /\ \A g \in Handlers \ {h} : job'[g] = job[g]
  BY DEF TypeInv, JobsOK
<1>2. ASSUME NEW g \in Handlers
      PROVE  /\ Linked(job[g]) /\ UsedBy(job[g], row) /\ Held(job[g], row, repeat)
             /\ job[g].pc \in TaskPcs => job[g].id \in Tasks
             /\ job[g].todo \subseteq Snaps
  BY DEF Stopping, JobsLinked, TypeInv, JobsOK, JobOK, Jobs
<1>3. \A s \in Snaps : s.id \in Tasks
  BY DEF Snaps
<1>4. UsedBy(j, row')
  BY <1>2, <1>3 DEF UsedBy, UsedKept
<1>5. ASSUME NEW g \in Handlers \ {h}
      PROVE  UsedBy(job[g], row') /\ Held(job[g], row', repeat')
  <2>1. UsedBy(job[g], row')
    BY <1>2, <1>3 DEF UsedBy, UsedKept
  <2>2. ASSUME job[g].calm, ~WillStart(job[g]) PROVE Held(job[g], row', repeat')
    <3> DEFINE t == job[g].id
    <3>1. t \in Tasks /\ Frozen(t)
      BY <2>2, <1>2 DEF Linked, Stopping, Calm
    <3>2. row[t].opts \in Crons \cup {None}
      BY <3>1 DEF TypeInv, DataOK, Rows
    <3>3. Held(job[g], row, repeat) /\ row'[t].opts = row[t].opts
      BY <1>2, <3>1 DEF Frozen
    <3>4. <<t, row[t].opts>> \notin repeat => <<t, row'[t].opts>> \notin repeat'
      BY <3>1, <3>2, <3>3 DEF Frozen
    <3>5. row[t].status # "activated" => row'[t].status # "activated"
      BY <3>1 DEF Frozen
    <3> HIDE DEF t
    <3>6. t = job[g].id
      BY DEF t
    <3> QED BY <2>2, <3>3, <3>4, <3>5, <3>6 DEF Held
  <2> QED BY <2>1, <2>2 DEF Held
<1>6. JobsLinked'
  BY <1>1, <1>2, <1>4, <1>5 DEF JobsLinked
<1>7. Calm'
  BY <1>1 DEF Stopping, Calm
<1>8. ASSUME NEW t \in stopped'
      PROVE  /\ row'[t].status # "activated"
             /\ <<t, row'[t].opts>> \notin repeat'
             /\ \A g \in Handlers : /\ job'[g].id = t => ~WillStart(job'[g])
                                    /\ \A s \in job'[g].todo : s.id # t
  <2>1. CASE t \in stopped
    <3>1. t \in Tasks /\ row[t].opts \in Crons \cup {None}
      BY <2>1 DEF TypeInv, DataOK, Rows
    <3>2. Frozen(t)
      BY <2>1, <3>1 DEF Stopping, Off
    <3>3. row'[t].status # "activated" /\ <<t, row'[t].opts>> \notin repeat'
      BY <2>1, <3>1, <3>2 DEF Stopping, Off, Frozen
    <3>4. row[t].status # "activated" /\ \A g \in Handlers :
            /\ job[g].id = t => ~WillStart(job[g])
            /\ \A s \in job[g].todo : s.id # t
      BY <2>1 DEF Stopping, Off
    <3>5. (j.id = t => ~WillStart(j)) /\ \A s \in j.todo : s.id # t
      BY <3>4
    <3> QED BY <1>1, <3>3, <3>4, <3>5
  <2>2. CASE t \notin stopped
    <3>1. /\ t = job[h].id /\ job[h].calm /\ ~job[h].boot /\ ~WillStart(job[h])
          /\ row'[t].status # "activated" /\ <<t, row'[t].opts>> \notin repeat'
      BY <2>2
    <3>2. \A g \in Handlers \ {h} : /\ ~job[g].boot /\ job[g].todo = {}
                                    /\ job[g].id = t => ~WillStart(job[g])
      BY <1>2, <3>1 DEF Stopping, Calm, Linked
    <3>3. ~j.boot /\ j.todo = {} /\ ~WillStart(j)
      BY <3>1 DEF Linked
    <3> QED BY <1>1, <3>1, <3>2, <3>3
  <2> QED BY <2>1, <2>2
<1> QED BY <1>6, <1>7, <1>8 DEF Stopping, Off

-----------------------------------------------------------------------------
\* A handler begins to work on a task.

\* The same handler, but for what the properties remember.
Works(j, k) ==
    /\ j.pc = k.pc /\ j.id = k.id /\ j.task = k.task
    /\ j.then = k.then /\ j.boot = k.boot /\ j.todo = k.todo

LEMMA WorksSame ==
  ASSUME NEW j, NEW k, Works(j, k)
  PROVE  /\ WillStart(j) <=> WillStart(k)
         /\ UsedBy(k, row) => UsedBy(j, row)
         /\ (j.calm => k.calm) /\ Linked(k) => Linked(j)
  BY DEF Works, WillStart, UsedBy, Linked

LEMMA BeginWorks ==
  ASSUME NEW h \in Handlers, NEW rec \in Jobs, TypeInv, Begin(h, rec)
  PROVE  /\ Works(job'[h], rec)
         /\ job'[h].calm => \A o \in Handlers \ {h} :
                ~job[o].boot /\ (job[o].id = rec.id => ~MayStart(job[o]))
         /\ \A g \in Handlers \ {h} :
                /\ Works(job'[g], job[g])
                /\ job'[g].calm => /\ job[g].calm
                                   /\ job[g].id = rec.id \/ job[g].boot => ~MayStart(rec)
<1>1. /\ Works(job'[h], rec)
      /\ job'[h].calm => \A o \in Handlers \ {h} :
             ~job[o].boot /\ (job[o].id = rec.id => ~MayStart(job[o]))
  <2> DEFINE a == \A o \in Handlers \ {h} :
                     ~job[o].boot /\ (job[o].id = rec.id => ~MayStart(job[o]))
             b == /\ \A o \in Handlers \ {h} : job[o].id # rec.id /\ ~Purging(o)
                  /\ rec.boot => rec.alone
  <2>1. job'[h] = [rec EXCEPT !.calm = a, !.alone = b]
    BY DEF Begin
  <2> HIDE DEF a, b
  <2>2. Works(job'[h], rec) /\ job'[h].calm = a
    BY <2>1, SMTT(20), ZenonT(60) DEF Jobs, Works
  <2>3. a => \A o \in Handlers \ {h} :
               ~job[o].boot /\ (job[o].id = rec.id => ~MayStart(job[o]))
    BY DEF a
  <2> QED BY <2>2, <2>3
<1>2. ASSUME NEW g \in Handlers \ {h}
      PROVE  /\ Works(job'[g], job[g])
             /\ job'[g].calm => /\ job[g].calm
                                /\ job[g].id = rec.id \/ job[g].boot => ~MayStart(rec)
  <2>1. CASE job[g].id = rec.id \/ job[g].boot
    <3> DEFINE a == job[g].calm /\ ~MayStart(rec)
    <3>1. job'[g] = [job[g] EXCEPT !.calm = a, !.alone = FALSE] /\ job[g] \in Jobs
      BY <2>1 DEF Begin, TypeInv, JobsOK, Jobs
    <3> HIDE DEF a
    <3>2. Works(job'[g], job[g]) /\ job'[g].calm = a
      BY <3>1, SMTT(20), ZenonT(60) DEF Jobs, Works
    <3>3. a => job[g].calm /\ ~MayStart(rec)
      BY DEF a
    <3> QED BY <3>2, <3>3
  <2>2. CASE ~(job[g].id = rec.id \/ job[g].boot)
    BY <2>2 DEF Begin, Works
  <2> QED BY <2>1, <2>2
<1> QED BY <1>1, <1>2

LEMMA BeginStops ==
  ASSUME NEW h \in Handlers, NEW rec \in Jobs, TypeInv, Stopping, UsedKept,
         row' \in [Tasks -> Rows], UNCHANGED repeat, Begin(h, rec), rec.id \in Tasks,
         Linked(rec), rec.pc \in {"info", "exist", "late"},
         rec.pc = "exist" /\ ~WillStart(rec) => rec.task.opts = row'[rec.id].opts,
         row'[rec.id].status # "unused", rec.todo \subseteq job[h].todo,
         rec.boot => job[h].boot /\ \E s \in job[h].todo : s.id = rec.id,
         \A t \in Tasks : \/ Frozen(t)
                          \/ t = rec.id /\ MayStart(rec)
                          \/ /\ t = rec.id /\ row[t].status = "unused"
                             /\ row'[t].status # "activated" /\ row'[t].opts = None
  PROVE  Stopping'
<1>1. ASSUME NEW g \in Handlers
      PROVE  /\ Linked(job[g]) /\ UsedBy(job[g], row) /\ Held(job[g], row, repeat)
             /\ job[g].pc \in TaskPcs => job[g].id \in Tasks
             /\ job[g].todo \subseteq Snaps
  BY DEF Stopping, JobsLinked, TypeInv, JobsOK, JobOK, Jobs
<1>2. \A s \in Snaps : s.id \in Tasks
  BY DEF Snaps
<1>3. JobsLinked'
  <2>1. Linked(job'[h]) /\ UsedBy(job'[h], row') /\ Held(job'[h], row', repeat')
    <3>1. Linked(job'[h])
      BY BeginWorks DEF Works, Linked, TaskPcs
    <3>2. UsedBy(job'[h], row')
      BY BeginWorks, <1>1, <1>2 DEF Works, UsedBy, UsedKept
    <3>3. Held(job'[h], row', repeat')
      BY BeginWorks DEF Works, Held, WillStart
    <3> QED BY <3>1, <3>2, <3>3
  <2>2. ASSUME NEW g \in Handlers \ {h}
        PROVE  Linked(job'[g]) /\ UsedBy(job'[g], row') /\ Held(job'[g], row', repeat')
    <3>1. Works(job'[g], job[g]) /\ (job'[g].calm => job[g].calm)
      BY BeginWorks
    <3>2. Linked(job'[g])
      BY <1>1, <3>1, WorksSame
    <3>3. UsedBy(job'[g], row')
      BY <1>1, <1>2, <3>1 DEF Works, UsedBy, UsedKept
    <3>4. ASSUME job'[g].calm, ~WillStart(job'[g]) PROVE Held(job'[g], row', repeat')
      <4> DEFINE t == job[g].id
      <4>1. job[g].calm /\ ~WillStart(job[g]) /\ t \in Tasks
        BY <1>1, <3>1, <3>4 DEF Linked, Works, WillStart
      <4>2. t = rec.id => ~MayStart(rec)
        BY BeginWorks, <3>4
      <4>3. row[t].status # "unused"
        BY <1>1, <4>1 DEF UsedBy, Linked
      <4>4. row'[t].opts = row[t].opts
            /\ (row'[t].status = "activated" => row[t].status = "activated")
        BY <4>1, <4>2, <4>3 DEF Frozen
      <4> HIDE DEF t
      <4>5. t = job[g].id
        BY DEF t
      <4> QED BY SMTT(60), <1>1, <3>1, <4>1, <4>4, <4>5 DEF Works, Held
    <3>5. Held(job'[g], row', repeat')
      BY <3>4 DEF Held
    <3> QED BY <3>2, <3>3, <3>5
  <2> QED BY <2>1, <2>2 DEF JobsLinked
<1>4. Calm'
  <2>1. ASSUME job'[h].calm, NEW o \in Handlers \ {h}
        PROVE  ~job'[o].boot /\ (job'[o].id = job'[h].id => ~WillStart(job'[o]))
    BY <2>1, BeginWorks DEF Works, MayStart, WillStart
  <2>2. ASSUME NEW g \in Handlers \ {h}, job'[g].calm, NEW o \in Handlers \ {g}
        PROVE  ~job'[o].boot /\ (job'[o].id = job'[g].id => ~WillStart(job'[o]))
    <3>1. job[g].calm /\ (job[g].id = rec.id => ~MayStart(rec)) /\ Works(job'[g], job[g])
      BY <2>2, BeginWorks
    <3>2. ~job[o].boot /\ (job[o].id = job[g].id => ~WillStart(job[o]))
      BY <3>1 DEF Stopping, Calm
    <3>3. CASE o # h
      BY <3>1, <3>2, <3>3, BeginWorks DEF Works, WillStart
    <3>4. CASE o = h
      <4>1. ~rec.boot /\ Works(job'[h], rec)
        BY <3>2, <3>4, BeginWorks
      <4> QED BY <3>1, <3>4, <4>1 DEF Works, WillStart, MayStart
    <3> QED BY <3>3, <3>4
  <2> QED BY <2>1, <2>2 DEF Calm
<1>5. ASSUME NEW t \in stopped'
      PROVE  /\ row'[t].status # "activated"
             /\ <<t, row'[t].opts>> \notin repeat'
             /\ \A g \in Handlers : /\ job'[g].id = t => ~WillStart(job'[g])
                                    /\ \A s \in job'[g].todo : s.id # t
  <2>1. t \in stopped /\ t \in Tasks /\ (MayStart(rec) => t # rec.id)
    BY DEF Begin, TypeInv, DataOK
  <2>2. row[t].status # "activated" /\ <<t, row[t].opts>> \notin repeat /\ \A g \in Handlers :
            /\ job[g].id = t => ~WillStart(job[g])
            /\ \A s \in job[g].todo : s.id # t
    BY <2>1 DEF Stopping, Off
  <2>3. <<t, None>> \notin repeat
    BY TaskAssumption DEF TypeInv, DataOK, Schedules
  <2>4. row'[t].status # "activated" /\ <<t, row'[t].opts>> \notin repeat'
    BY <2>1, <2>2, <2>3 DEF Frozen
  <2>5. rec.id = t => ~WillStart(rec)
    BY <2>1, <2>2 DEF MayStart, WillStart
  <2>6. \A g \in Handlers \ {h} : /\ job'[g].id = t => ~WillStart(job'[g])
                                  /\ \A s \in job'[g].todo : s.id # t
    BY <2>2, BeginWorks DEF Works, WillStart
  <2>7. (job'[h].id = t => ~WillStart(job'[h])) /\ \A s \in job'[h].todo : s.id # t
    BY <2>2, <2>5, BeginWorks DEF Works, WillStart
  <2> QED BY <2>4, <2>6, <2>7
<1> QED BY <1>3, <1>4, <1>5 DEF Stopping, Off

-----------------------------------------------------------------------------
\* A handler goes on to its next call, goes on with initTask, or ends.

LEMMA StopGoto ==
  ASSUME NEW h \in Handlers, NEW l \in Pcs, TypeInv, Stopping, UsedKept, Goto(h, l),
         row' \in [Tasks -> Rows], UNCHANGED stopped, l # "info",
         l \in TaskPcs => job[h].pc \in TaskPcs, job[h].calm => l \in TaskPcs,
         job[h].boot /\ l \in TaskPcs => l \in SnapPcs /\ job[h].then = "add",
         l \in SnapPcs => job[h].id = job[h].task.id,
         l \in {"add", "save"} => job[h].then = "add", l = "drop" => job[h].then = "drop",
         job[h].calm /\ job[h].then # "add" =>
             /\ l \in {"exist", "remove"} => job[h].task.opts = row'[job[h].id].opts
             /\ l \in {"mark", "drop"} => <<job[h].id, row'[job[h].id].opts>> \notin repeat'
             /\ l = "drop" => row'[job[h].id].status # "activated",
         \A t \in Tasks : Frozen(t) \/ (t = job[h].id /\ WillStart(job[h]))
  PROVE  Stopping'
<1> DEFINE j == [job[h] EXCEPT !.pc = l]
<1>1. job[h] \in Jobs /\ Linked(job[h])
  BY DEF Stopping, JobsLinked, TypeInv, JobsOK
<1>2. j \in Jobs /\ job' = [job EXCEPT ![h] = j]
  BY <1>1 DEF Jobs, Goto, TypeInv, JobsOK
<1>3. /\ j.pc = l /\ j.id = job[h].id /\ j.task = job[h].task /\ j.then = job[h].then
      /\ j.boot = job[h].boot /\ j.todo = job[h].todo /\ j.calm = job[h].calm
  BY <1>1 DEF Jobs
<1> HIDE DEF j
<1>4. Linked(j)
  BY <1>1, <1>3 DEF Linked
<1>5. Held(j, row', repeat')
  BY <1>3 DEF Held, WillStart
<1>6. \A s \in j.todo : s.id \in Tasks /\ s \in job[h].todo
  BY <1>1, <1>3 DEF Jobs, Snaps
<1>7. WillStart(j) => WillStart(job[h])
  BY <1>3 DEF WillStart
<1> QED BY <1>2, <1>3, <1>4, <1>5, <1>6, <1>7, StopStepsOn

\* h may have stopped the task for good.
MayStop(h) ==
    \A t \in stopped' : \/ t \in stopped
                       \/ /\ t = job[h].id /\ job[h].calm
                          /\ ~job[h].boot /\ ~WillStart(job[h])
                          /\ row'[t].status # "activated"
                          /\ <<t, row'[t].opts>> \notin repeat'

LEMMA StopFail ==
  ASSUME NEW h \in Handlers, TypeInv, Stopping, UsedKept, Fail(h), row' \in [Tasks -> Rows],
         \A t \in Tasks : Frozen(t) \/ (t = job[h].id /\ WillStart(job[h])), MayStop(h)
  PROVE  Stopping'
<1> DEFINE j == IdleJob
<1>1. j \in Jobs /\ job' = [job EXCEPT ![h] = j]
  BY IdleJobOK DEF Fail
<1>2. /\ j.pc = "idle" /\ j.then = "end" /\ ~j.boot /\ j.todo = {} /\ ~j.calm
  BY DEF IdleJob
<1> HIDE DEF j
<1>3. Linked(j) /\ Held(j, row', repeat') /\ ~WillStart(j)
  BY <1>2 DEF Linked, Held, WillStart, TaskPcs, SnapPcs
<1> QED BY <1>1, <1>2, <1>3, StopStepsOn DEF MayStop, TaskPcs

LEMMA StopReturn ==
  ASSUME NEW h \in Handlers, TypeInv, Stopping, UsedKept, Return(h), row' \in [Tasks -> Rows],
         \A t \in Tasks : Frozen(t) \/ (t = job[h].id /\ WillStart(job[h])), MayStop(h)
  PROVE  Stopping'
<1>1. CASE job[h].boot
  <2> DEFINE j == [IdleJob EXCEPT !.pc = "next", !.boot = TRUE,
                                  !.todo = job[h].todo, !.alone = job[h].alone]
  <2>1. job[h] \in Jobs
    BY DEF TypeInv, JobsOK
  <2>2. j \in Jobs /\ job' = [job EXCEPT ![h] = j]
    BY <1>1, <2>1 DEF Return, IdleJob, Jobs, Pcs
  <2>3. /\ j.pc = "next" /\ j.then = "end" /\ j.boot /\ j.todo = job[h].todo /\ ~j.calm
    BY DEF IdleJob
  <2> HIDE DEF j
  <2>4. Linked(j) /\ Held(j, row', repeat') /\ ~WillStart(j)
    BY <2>3 DEF Linked, Held, WillStart, TaskPcs, SnapPcs
  <2>5. \A s \in j.todo : s.id \in Tasks /\ s \in job[h].todo
    BY <2>1, <2>3 DEF Jobs, Snaps
  <2> QED BY <1>1, <2>2, <2>3, <2>4, <2>5, StopStepsOn DEF MayStop, TaskPcs
<1>2. CASE ~job[h].boot
  BY <1>2, StopFail DEF Return
<1> QED BY <1>1, <1>2

-----------------------------------------------------------------------------
\* The actions

\* A handler that works on a task as it was read.
LEMMA AtSnap ==
  ASSUME NEW h \in Handlers, TypeInv, Stopping, job[h].pc \in SnapPcs
  PROVE  /\ job[h].task \in Snaps /\ job[h].id = job[h].task.id /\ job[h].id \in Tasks
         /\ job[h].boot => job[h].then = "add"
         /\ row[job[h].id].status # "unused" /\ row[job[h].id].opts \in Crons \cup {None}
         /\ Held(job[h], row, repeat)
  BY DEF TypeInv, DataOK, JobsOK, JobOK, Rows, Stopping, JobsLinked, Linked, UsedBy,
         SnapPcs, TaskPcs

LEMMA RowStays == UNCHANGED row => UsedKept
  BY DEF UsedKept

\* Nothing but the log, the queue and the clock changes.
LEMMA StopQuiet ==
  ASSUME Stopping, UNCHANGED <<row, repeat, job, stopped>>
  PROVE  Stopping'
<1>1. JobsLinked'
  BY DEF Stopping, JobsLinked
<1>2. Calm'
  BY DEF Stopping, Calm
<1>3. Off'
  BY DEF Stopping, Off
<1> QED BY <1>1, <1>2, <1>3 DEF Stopping

LEMMA ExistStops ==
  ASSUME NEW h \in Handlers, TypeInv, Stopping, Exist(h)
  PROVE  Stopping'
<1> DEFINE l == IF repeat \cap Of(job[h].task.id) = {} THEN "mark" ELSE "remove"
<1>1. /\ job[h].pc = "exist" /\ Goto(h, l) /\ UNCHANGED <<row, repeat, stopped>>
  BY DEF Exist, At, bull, past
<1>2. \A t \in Tasks : Frozen(t)
  BY <1>1 DEF Frozen
<1>3. <<job[h].id, None>> \notin repeat
  BY TaskAssumption DEF TypeInv, DataOK, Schedules
<1>4. l = "mark" => <<job[h].id, row[job[h].id].opts>> \notin repeat
  BY <1>1, <1>3, AtSnap DEF Of, SnapPcs
<1>5. job[h].calm /\ job[h].then # "add" => job[h].task.opts = row[job[h].id].opts
  BY <1>1, AtSnap DEF Held, WillStart, SnapPcs
<1>6. l \in {"mark", "remove"} /\ l \in Pcs
  BY DEF Pcs
<1> HIDE DEF l
<1>7. row' \in [Tasks -> Rows]
  BY <1>1 DEF TypeInv, DataOK
<1> QED BY <1>1, <1>2, <1>4, <1>5, <1>6, <1>7, AtSnap, RowStays, StopGoto DEF SnapPcs, TaskPcs

LEMMA RemoveStops ==
  ASSUME NEW h \in Handlers, TypeInv, Stopping, Remove(h)
  PROVE  Stopping'
<1>1. /\ job[h].pc = "remove" /\ UNCHANGED <<row, stopped>>
      /\ repeat' = repeat \ {<<job[h].task.id, job[h].task.opts>>}
      /\ Fail(h) \/ Goto(h, "mark")
  BY DEF Remove, At, past
<1>2. \A t \in Tasks : Frozen(t)
  BY <1>1 DEF Frozen
<1>3. row' \in [Tasks -> Rows]
  BY <1>1 DEF TypeInv, DataOK
<1>4. CASE Fail(h)
  BY <1>1, <1>2, <1>3, <1>4, RowStays, StopFail DEF MayStop
<1>5. CASE Goto(h, "mark")
  <2>1. job[h].calm /\ job[h].then # "add" => <<job[h].id, row'[job[h].id].opts>> \notin repeat'
    BY <1>1, AtSnap DEF Held, WillStart, SnapPcs
  <2> QED BY <1>1, <1>2, <1>3, <1>5, <2>1, AtSnap, RowStays, StopGoto DEF SnapPcs, TaskPcs, Pcs
<1> QED BY <1>1, <1>4, <1>5

\* The status becomes Disabled: of a task that is there, and no other is activated.
LEMMA Disabled ==
  ASSUME NEW t \in Tasks, TypeInv, UNCHANGED repeat, NEW s \in {"disabled", "deleted"},
         row' = [row EXCEPT ![t].status = IF Exists(t) THEN s ELSE @]
         \/ row' = [row EXCEPT ![t].status = IF Exists(t) /\ t \notin logs THEN s ELSE @]
  PROVE  /\ UsedKept /\ row' \in [Tasks -> Rows] /\ \A u \in Tasks : Frozen(u)
<1>1. \A u \in Tasks : /\ row'[u].opts = row[u].opts /\ row'[u].cron = row[u].cron
                       /\ row'[u].status \in {row[u].status, s}
                       /\ row[u].status = "unused" => row'[u].status = "unused"
  BY DEF TypeInv, DataOK, Rows, Exists
<1>2. row' \in [Tasks -> Rows]
  BY DEF TypeInv, DataOK, Rows
<1> QED BY <1>1, <1>2 DEF UsedKept, Frozen

LEMMA MarkStops ==
  ASSUME NEW h \in Handlers, TypeInv, Stopping, Mark(h)
  PROVE  Stopping'
<1> DEFINE t == job[h].id
<1>1. /\ job[h].pc = "mark" /\ UNCHANGED repeat
      /\ row' = [row EXCEPT ![job[h].task.id].status =
                   IF Exists(job[h].task.id) THEN "disabled" ELSE @]
  BY DEF Mark, At, bull
<1>2. /\ job[h].task.id = t /\ t \in Tasks /\ row[t].status # "unused"
      /\ job[h].boot => job[h].then = "add"
      /\ Held(job[h], row, repeat)
  BY <1>1, AtSnap DEF SnapPcs
<1>3. UsedKept /\ row' \in [Tasks -> Rows] /\ \A u \in Tasks : Frozen(u)
  BY <1>1, <1>2, Disabled
<1>4. row'[t].status # "activated" /\ row'[t].opts = row[t].opts
  BY <1>1, <1>2 DEF TypeInv, DataOK, Rows, Exists
<1>5. job[h].calm /\ job[h].then # "add" => <<t, row'[t].opts>> \notin repeat'
  BY <1>1, <1>2, <1>4 DEF Held, WillStart
<1>6. CASE job[h].then = "end"
  <2>1. Return(h) /\ stopped' = IF h \in Procs /\ job[h].calm THEN stopped \cup {job[h].task.id}
                                                              ELSE stopped
    BY <1>6 DEF Mark
  <2>2. MayStop(h)
    BY <1>1, <1>2, <1>4, <1>5, <1>6, <2>1 DEF MayStop, WillStart
  <2> QED BY <1>3, <2>1, <2>2, StopReturn
<1>7. CASE job[h].then = "add"
  <2>1. (Return(h) \/ Goto(h, "add")) /\ UNCHANGED stopped
    BY <1>7 DEF Mark
  <2>2. CASE Return(h)
    BY <1>3, <2>1, <2>2, StopReturn DEF MayStop
  <2>3. CASE Goto(h, "add")
    BY <1>1, <1>2, <1>3, <1>7, <2>1, <2>3, StopGoto DEF SnapPcs, TaskPcs, Pcs
  <2> QED BY <2>1, <2>2, <2>3
<1>8. CASE job[h].then = "drop"
  <2>1. Goto(h, "drop") /\ UNCHANGED stopped
    BY <1>8 DEF Mark
  <2> QED BY <1>1, <1>2, <1>3, <1>4, <1>5, <1>8, <2>1, StopGoto DEF SnapPcs, TaskPcs, Pcs
<1> QED BY <1>6, <1>7, <1>8 DEF Mark

LEMMA DropStops ==
  ASSUME NEW h \in Handlers, TypeInv, Stopping, Drop(h)
  PROVE  Stopping'
<1> DEFINE t == job[h].id
<1>1. /\ job[h].pc = "drop" /\ UNCHANGED repeat /\ Fail(h)
      /\ row' = [row EXCEPT ![job[h].task.id].status =
                   IF Exists(job[h].task.id) /\ job[h].task.id \notin logs THEN "deleted" ELSE @]
      /\ stopped' = IF job[h].calm THEN stopped \cup {job[h].task.id} ELSE stopped
  BY DEF Drop, At, bull
<1>2. /\ job[h].task.id = t /\ t \in Tasks
      /\ job[h].boot => job[h].then = "add"
      /\ Held(job[h], row, repeat) /\ job[h].then = "drop"
  BY <1>1, AtSnap DEF SnapPcs, Stopping, JobsLinked, Linked
<1>3. UsedKept /\ row' \in [Tasks -> Rows] /\ \A u \in Tasks : Frozen(u)
  BY <1>1, <1>2, Disabled
<1>4. row'[t].opts = row[t].opts /\ (row[t].status # "activated" => row'[t].status # "activated")
  BY <1>2, <1>3 DEF Frozen
<1>5. MayStop(h)
  BY <1>1, <1>2, <1>4 DEF MayStop, Held, WillStart
<1> QED BY <1>1, <1>3, <1>5, StopFail

LEMMA StartStops ==
  ASSUME NEW h \in Handlers, TypeInv, Stopping, StartStep(h)
  PROVE  Stopping'
<1> DEFINE t == job[h].id
<1>1. job[h].pc \in {"add", "save"} /\ UNCHANGED stopped
  BY DEF StartStep, Add, AddRefused, Save, At, past
<1>2. job[h].task.id = t /\ t \in Tasks /\ job[h].then = "add" /\ job[h].task.cron \in Crons
  BY <1>1, AtSnap DEF SnapPcs, Stopping, JobsLinked, Linked, TypeInv, JobsOK, JobOK
<1>3. WillStart(job[h]) /\ MayStop(h)
  BY <1>1, <1>2 DEF WillStart, MayStop
<1>4. CASE Add(h)
  <2>1. /\ UNCHANGED row /\ Goto(h, "save")
        /\ repeat' = repeat \cup {<<t, job[h].task.cron>>}
    BY <1>2, <1>4 DEF Add
  <2>2. \A u \in Tasks \ {t} : Frozen(u)
    BY <2>1 DEF Frozen
  <2>3. row' \in [Tasks -> Rows]
    BY <2>1 DEF TypeInv, DataOK
  <2> QED BY <1>1, <1>2, <1>3, <2>1, <2>2, <2>3, RowStays, StopGoto DEF SnapPcs, TaskPcs, Pcs
<1>5. CASE AddRefused(h)
  <2>1. UsedKept /\ row' \in [Tasks -> Rows] /\ \A u \in Tasks : Frozen(u)
    BY <1>2, <1>5, Disabled DEF AddRefused, bull
  <2> QED BY <1>3, <1>5, <2>1, StopFail DEF AddRefused
<1>6. CASE Save(h)
  <2> DEFINE r == [status |-> "activated", cron |-> row[t].cron, opts |-> job[h].task.cron]
  <2>1. r \in Rows /\ r.status # "unused"
    BY <1>2 DEF TypeInv, DataOK, Rows
  <2>2. UNCHANGED repeat /\ Return(h) /\ (row' = row \/ row' = [row EXCEPT ![t] = r])
    BY <1>2, <1>6 DEF Save, bull
  <2> HIDE DEF r
  <2>3. UsedKept /\ row' \in [Tasks -> Rows] /\ \A u \in Tasks \ {t} : Frozen(u)
    BY <1>2, <2>1, <2>2 DEF UsedKept, Frozen, TypeInv, DataOK
  <2> QED BY <1>3, <2>2, <2>3, StopReturn
<1> QED BY <1>4, <1>5, <1>6 DEF StartStep

\* The handler reads the task, and goes on with what it read.
LEMMA ReadStops ==
  ASSUME NEW h \in Handlers, TypeInv, Stopping, Info(h) \/ Late(h) \/ Find(h)
  PROVE  Stopping'
<1> DEFINE t == job[h].id
<1>1. job[h].pc \in {"info", "late", "find"} /\ UNCHANGED <<row, repeat, stopped>>
  BY DEF Info, Late, Find, At, bull, past
<1>2. /\ job[h] \in Jobs /\ t \in Tasks /\ ~job[h].boot /\ job[h].todo = {}
  BY <1>1 DEF TypeInv, JobsOK, JobOK, Stopping, JobsLinked, Linked, TaskPcs, SnapPcs
<1>3. /\ row' \in [Tasks -> Rows] /\ MayStop(h) /\ UsedKept /\ \A u \in Tasks : Frozen(u)
  BY <1>1, RowStays DEF TypeInv, DataOK, MayStop, Frozen
<1>4. CASE Fail(h)
  BY <1>3, <1>4, StopFail
<1>5. CASE Goto(h, "find")
  BY <1>1, <1>2, <1>3, <1>5, StopGoto DEF Pcs, TaskPcs, SnapPcs
<1>6. ASSUME NEW then \in {"end", "add", "drop"}, NEW j,
             j = [job[h] EXCEPT !.pc = "exist", !.task = Snap(t), !.then = then],
             job' = [job EXCEPT ![h] = j], then = "add" => WillStart(job[h])
      PROVE  Stopping'
  <2>1. Snap(t) \in Snaps /\ Snap(t).id = t /\ Snap(t).opts = row[t].opts
    BY <1>2, SnapOK DEF TypeInv, Snap
  <2>2. /\ j.pc = "exist" /\ j.id = t /\ j.task = Snap(t) /\ j.then = then
        /\ j.boot = job[h].boot /\ j.todo = job[h].todo /\ j.calm = job[h].calm /\ j \in Jobs
    BY <1>2, <1>6, <2>1 DEF Jobs, Pcs
  <2>3. Linked(j) /\ Held(j, row', repeat')
    BY <1>1, <1>2, <2>1, <2>2 DEF Linked, Held, TaskPcs, SnapPcs
  <2>4. WillStart(j) => WillStart(job[h])
    BY <1>6, <2>2 DEF WillStart
  <2> QED BY <1>1, <1>2, <1>3, <1>6, <2>2, <2>3, <2>4, StopStepsOn DEF TaskPcs, MayStop
<1>7. CASE Info(h) /\ ~Fail(h)
  <2> DEFINE then == IF row[t].status = "activated" THEN "add" ELSE "end"
             j == [job[h] EXCEPT !.pc = "exist", !.task = Snap(t), !.then = then]
  <2>1. job' = [job EXCEPT ![h] = j] /\ then \in {"end", "add", "drop"} /\ WillStart(job[h])
    BY <1>7 DEF Info, At, WillStart, TypeInv, JobsOK
  <2> QED BY <2>1, <1>6
<1>8. CASE Find(h) /\ ~Fail(h)
  <2> DEFINE then == job[h].then
             j == [job[h] EXCEPT !.pc = "exist", !.task = Snap(t), !.then = then]
  <2>1. job' = [job EXCEPT ![h] = j] /\ then \in {"end", "add", "drop"}
    BY <1>2, <1>8 DEF Find, TypeInv, JobsOK, Jobs
  <2> QED BY <2>1, <1>6 DEF WillStart
<1> QED BY <1>4, <1>5, <1>7, <1>8 DEF Late

\* An instance starts: initTask begins, and nobody is calm any more.
LEMMA BootStops ==
  ASSUME NEW p \in Procs, TypeInv, Stopping, Boot(p)
  PROVE  Stopping'
<1> DEFINE a == \A o \in Handlers : Idle(o)
           j == [IdleJob EXCEPT !.pc = "purge", !.boot = TRUE, !.alone = a]
<1>1. \A h \in Handlers :
        job'[h] = IF h = p THEN j ELSE [job[h] EXCEPT !.alone = FALSE, !.calm = FALSE]
  BY DEF Boot
<1>2. UNCHANGED <<row, repeat, stopped>>
  BY DEF Boot, bull
<1>3. /\ j.pc = "purge" /\ j.then = "end" /\ j.boot /\ j.todo = {} /\ ~j.calm
  BY DEF IdleJob
<1> HIDE DEF a, j
<1>4. ASSUME NEW h \in Handlers \ {p}
      PROVE  Works(job'[h], job[h]) /\ ~job'[h].calm
  <2>1. job[h] \in Jobs /\ job'[h] = [job[h] EXCEPT !.alone = FALSE, !.calm = FALSE]
    BY <1>1 DEF TypeInv, JobsOK
  <2> QED BY <2>1 DEF Jobs, Works
<1>5. ASSUME NEW h \in Handlers
      PROVE  /\ Linked(job'[h]) /\ UsedBy(job'[h], row') /\ Held(job'[h], row', repeat')
             /\ ~job'[h].calm
             /\ job'[h].todo \subseteq job[h].todo
             /\ WillStart(job'[h]) => WillStart(job[h]) /\ job'[h].id = job[h].id
  <2>1. CASE h = p
    <3>1. job'[h] = j
      BY <1>1, <2>1
    <3> QED BY <1>3, <3>1 DEF Linked, UsedBy, Held, WillStart, TaskPcs, SnapPcs
  <2>2. CASE h # p
    <3>1. Linked(job[h]) /\ UsedBy(job[h], row)
      BY DEF Stopping, JobsLinked
    <3> QED BY <1>2, <1>4, <2>2, <3>1 DEF Works, Linked, UsedBy, Held, WillStart
  <2> QED BY <2>1, <2>2
<1>6. JobsLinked'
  BY <1>5 DEF JobsLinked
<1>7. Calm'
  BY <1>5 DEF Calm
<1>8. Off'
  BY <1>2, <1>5 DEF Stopping, Off
<1> QED BY <1>6, <1>7, <1>8 DEF Stopping

LEMMA BootStepStops ==
  ASSUME NEW p \in Procs, TypeInv, Stopping, BootStep(p)
  PROVE  Stopping'
<1> USE DEF Handlers
<1>1. /\ job[p].pc \in BootPcs /\ job[p].boot /\ job[p] \in Jobs
      /\ UNCHANGED <<row, repeat>>
      /\ Linked(job[p]) /\ UsedBy(job[p], row)
  BY DEF BootStep, Purge, Load, BootNext, At, BootPcs, bull, TypeInv, JobsOK, JobOK,
         Stopping, JobsLinked
<1>2. ~job[p].calm
  BY <1>1 DEF Linked, BootPcs, TaskPcs
<1>3. row' \in [Tasks -> Rows] /\ UsedKept /\ \A u \in Tasks : Frozen(u)
  BY <1>1, RowStays DEF TypeInv, DataOK, Frozen
<1>4. CASE Purge(p)
  <2>1. Goto(p, "load") /\ UNCHANGED stopped
    BY <1>4 DEF Purge, past
  <2> QED BY <1>2, <1>3, <2>1, StopGoto DEF Pcs, TaskPcs, SnapPcs
<1>5. CASE Load(p)
  <2> DEFINE S == {Snap(t) : t \in {u \in Tasks : row[u].status = "activated"}}
             j == [job[p] EXCEPT !.pc = "next", !.todo = S]
  <2>1. S \in SUBSET Snaps /\ \A s \in S : s.id \in Tasks /\ row[s.id].status = "activated"
    BY SnapOK DEF TypeInv, Snap
  <2>2. job' = [job EXCEPT ![p] = j] /\ UNCHANGED stopped
    BY <1>5 DEF Load, past, TypeInv, JobsOK
  <2> HIDE DEF S
  <2>3. /\ j \in Jobs /\ j.pc = "next" /\ j.id = job[p].id /\ j.then = job[p].then
        /\ j.boot /\ j.todo = S /\ j.calm = job[p].calm
    BY <1>1, <2>1 DEF Jobs, Pcs
  <2> HIDE DEF j
  <2>4. Linked(j) /\ Held(j, row', repeat') /\ (WillStart(j) => WillStart(job[p]))
    BY <1>1, <1>2, <2>3 DEF Linked, Held, WillStart, TaskPcs, SnapPcs
  <2> QED BY <1>1, <1>2, <1>3, <2>1, <2>2, <2>3, <2>4, StopStepsOn DEF TaskPcs
<1>6. CASE BootNext(p) /\ Fail(p) /\ UNCHANGED past
  BY <1>3, <1>6, StopFail DEF past, MayStop
<1>7. ASSUME NEW s \in job[p].todo,
             Begin(p, [job[p] EXCEPT !.pc = "exist", !.id = s.id, !.task = s,
                                     !.then = "add", !.todo = @ \ {s}])
      PROVE  Stopping'
  <2> DEFINE S == job[p].todo \ {s}
             j == [job[p] EXCEPT !.pc = "exist", !.id = s.id, !.task = s,
                                 !.then = "add", !.todo = S]
  <2>1. s \in Snaps /\ s.id \in Tasks /\ S \in SUBSET Snaps
    BY <1>1 DEF Jobs, Snaps
  <2>2. Begin(p, j)
    BY <1>1, <1>7 DEF Jobs
  <2>3. S \subseteq job[p].todo
    OBVIOUS
  <2> HIDE DEF S
  <2>4. /\ j \in Jobs /\ j.pc = "exist" /\ j.id = s.id /\ j.task = s /\ j.then = "add"
        /\ j.boot /\ j.todo = S
    BY <1>1, <2>1 DEF Jobs, Pcs
  <2> HIDE DEF j
  <2>5. Linked(j) /\ WillStart(j)
    BY <2>4 DEF Linked, WillStart, TaskPcs, SnapPcs
  <2>6. row'[s.id].status # "unused"
    BY <1>1 DEF UsedBy
  <2> QED BY <1>1, <1>3, <2>1, <2>2, <2>3, <2>4, <2>5, <2>6, BeginStops
<1> QED BY <1>4, <1>5, <1>6, <1>7 DEF BootStep, BootNext

LEMMA CreateStops ==
  ASSUME NEW p \in Procs, NEW t \in Tasks, NEW c \in Kinds,
         NEW s \in {"activated", "disabled"}, TypeInv, Stopping, Create(p, t, c, s)
  PROVE  Stopping'
<1> DEFINE snap == [id |-> t, cron |-> c, opts |-> None]
           r == [status |-> s, cron |-> c, opts |-> None]
           then == IF s = "activated" THEN "add" ELSE "end"
           j == [IdleJob EXCEPT !.pc = "exist", !.id = t, !.task = snap, !.then = then]
<1>1. /\ row' = [row EXCEPT ![t] = r] /\ Begin(p, j) /\ UNCHANGED repeat
      /\ row[t].status = "unused"
  BY DEF Create, bull
<1>2. /\ snap \in Snaps /\ snap.id = t /\ snap.opts = None
      /\ r \in Rows /\ r.status = s /\ r.opts = None
  BY DEF Snaps, Rows, Kinds
<1>3. then \in {"end", "add", "drop"} /\ (s = "activated" => then = "add")
  OBVIOUS
<1> HIDE DEF snap, r, then
<1>4. /\ j \in Jobs /\ j.pc = "exist" /\ j.id = t /\ j.task = snap /\ j.then = then
      /\ ~j.boot /\ j.todo = {} /\ ~j.calm
  BY <1>2, <1>3 DEF IdleJob, Jobs, Pcs
<1> HIDE DEF j
<1>5. row' \in [Tasks -> Rows] /\ row'[t] = r /\ \A u \in Tasks \ {t} : row'[u] = row[u]
  BY <1>1, <1>2 DEF TypeInv, DataOK
<1>6. UsedKept /\ \A u \in Tasks \ {t} : Frozen(u)
  BY <1>1, <1>5 DEF UsedKept, Frozen
<1>7. Linked(j)
  BY <1>2, <1>4 DEF Linked, TaskPcs, SnapPcs
<1>8. MayStart(j) \/ row'[t].status # "activated"
  BY <1>2, <1>3, <1>4, <1>5 DEF MayStart
<1> QED BY <1>1, <1>2, <1>4, <1>5, <1>6, <1>7, <1>8, BeginStops DEF Handlers

LEMMA UpdateStops ==
  ASSUME NEW p \in Procs, NEW t \in Tasks, NEW c \in Kinds,
         NEW s \in {"activated", "disabled"}, TypeInv, Stopping, Update(p, t, c, s)
  PROVE  Stopping'
<1> DEFINE r == [status |-> s, cron |-> c, opts |-> row[t].opts]
           j == [IdleJob EXCEPT !.pc = "info", !.id = t]
<1>1. row' = [row EXCEPT ![t] = r] /\ Begin(p, j) /\ UNCHANGED repeat
  BY DEF Update, bull
<1>2. r \in Rows /\ r.status # "unused"
  BY DEF Rows, Kinds, TypeInv, DataOK
<1> HIDE DEF r
<1>3. /\ j \in Jobs /\ j.pc = "info" /\ j.id = t /\ ~j.boot /\ j.todo = {} /\ ~j.calm
  BY DEF IdleJob, Jobs, Pcs
<1> HIDE DEF j
<1>4. row' \in [Tasks -> Rows] /\ row'[t] = r /\ \A u \in Tasks \ {t} : row'[u] = row[u]
  BY <1>1, <1>2 DEF TypeInv, DataOK
<1>5. UsedKept /\ \A u \in Tasks \ {t} : Frozen(u)
  BY <1>1, <1>2, <1>4 DEF UsedKept, Frozen
<1>6. Linked(j) /\ MayStart(j)
  BY <1>3 DEF Linked, TaskPcs, SnapPcs, MayStart
<1> QED BY <1>1, <1>2, <1>3, <1>4, <1>5, <1>6, BeginStops DEF Handlers

\* A request that begins while the rows stay as they are.
LEMMA CallStops ==
  ASSUME NEW h \in Handlers, NEW j \in Jobs, TypeInv, Stopping, Begin(h, j),
         UNCHANGED <<row, repeat>>, j.id \in Tasks, row[j.id].status # "unused",
         \/ j.pc = "exist" /\ j.task = Snap(j.id)
         \/ j.pc = "late",
         ~j.boot, j.todo = {}, ~j.calm
  PROVE  Stopping'
<1>1. Snap(j.id).id = j.id /\ Snap(j.id).opts = row[j.id].opts
  BY DEF Snap
<1>2. Linked(j)
  BY <1>1 DEF Linked, TaskPcs, SnapPcs
<1>3. row' \in [Tasks -> Rows] /\ UsedKept /\ \A u \in Tasks : Frozen(u)
  BY RowStays DEF TypeInv, DataOK, Frozen
<1> QED BY <1>1, <1>2, <1>3, BeginStops

LEMMA ArriveStops ==
  ASSUME NEW p \in Procs, TypeInv, Stopping, Arrive(p)
  PROVE  Stopping'
<1>1. ASSUME NEW t \in Tasks, NEW then \in {"add", "end", "drop"}, Call(p, t, then)
      PROVE  Stopping'
  <2> DEFINE j == [IdleJob EXCEPT !.pc = "exist", !.id = t, !.task = Snap(t), !.then = then]
  <2>1. Snap(t) \in Snaps
    BY SnapOK DEF TypeInv
  <2>2. /\ j \in Jobs /\ j.pc = "exist" /\ j.id = t /\ j.task = Snap(t)
        /\ ~j.boot /\ j.todo = {} /\ ~j.calm
    BY <2>1 DEF IdleJob, Jobs, Pcs
  <2>3. Begin(p, j) /\ UNCHANGED <<row, repeat>> /\ row[t].status # "unused"
    BY <1>1 DEF Call, bull, Exists
  <2> HIDE DEF j
  <2> QED BY <2>2, <2>3, CallStops DEF Handlers
<1> QED BY <1>1, CreateStops, UpdateStops, BootStops
       DEF Arrive, StartCall, StopCall, DeleteCall

LEMMA FinishStops ==
  ASSUME NEW w \in Workers, TypeInv, Stopping, Finish(w)
  PROVE  Stopping'
<1> DEFINE t == run[w][1]
           j == [IdleJob EXCEPT !.pc = "late", !.id = t]
<1>1. t \in Tasks /\ UNCHANGED <<row, repeat>>
  BY DEF Finish, TypeInv, DataOK
<1>2. CASE Exists(t)
  <2>1. Begin(w, j) /\ row[t].status # "unused"
    BY <1>2 DEF Finish, Exists
  <2>2. j \in Jobs /\ j.pc = "late" /\ j.id = t /\ ~j.boot /\ j.todo = {} /\ ~j.calm
    BY <1>1 DEF IdleJob, Jobs, Pcs
  <2> HIDE DEF j
  <2> QED BY <1>1, <2>1, <2>2, CallStops DEF Handlers
<1>3. CASE ~Exists(t)
  BY <1>1, <1>3, StopQuiet DEF Finish, past
<1> QED BY <1>2, <1>3

LEMMA OtherStops ==
  ASSUME TypeInv, Stopping,
         \/ \E s \in Schedules : Tick(s)
         \/ \E t \in Tasks : Once(t)
         \/ \E w \in Workers, s \in Schedules : Take(w, s)
         \/ \E w \in Workers, t \in Tasks : TakeOnce(w, t)
         \/ LockExpires
         \/ \E h \in Handlers : Abort(h)
  PROVE  Stopping'
<1>1. ASSUME NEW h \in Handlers, Abort(h) PROVE Stopping'
  <2>1. Fail(h) /\ UNCHANGED <<row, repeat, stopped>>
    BY <1>1 DEF Abort, bull
  <2>2. row' \in [Tasks -> Rows] /\ UsedKept /\ (\A u \in Tasks : Frozen(u)) /\ MayStop(h)
    BY <2>1, RowStays DEF TypeInv, DataOK, Frozen, MayStop
  <2> QED BY <2>1, <2>2, StopFail
<1> QED BY <1>1, StopQuiet DEF Tick, Once, Take, TakeOnce, LockExpires, bull, past

LEMMA NextStops == TypeInv /\ Stopping /\ [Next]_vars => Stopping'
<1> SUFFICES ASSUME TypeInv, Stopping, [Next]_vars PROVE Stopping'
  OBVIOUS
<1>1. ASSUME NEW h \in Handlers, Step(h) PROVE Stopping'
  BY <1>1, ExistStops, RemoveStops, MarkStops, StartStops, DropStops DEF Step, StopStep
<1>2. ASSUME NEW p \in Procs, Arrive(p) \/ ProcStep(p) PROVE Stopping'
  BY <1>1, <1>2, ArriveStops, BootStepStops, ReadStops DEF ProcStep, Handlers
<1>3. ASSUME NEW w \in Workers, WorkerStep(w) PROVE Stopping'
  BY <1>1, <1>3, ReadStops, FinishStops, OtherStops DEF WorkerStep, Handlers
<1>4. CASE UNCHANGED vars
  BY <1>4, StopQuiet DEF vars, bull, past
<1> QED BY <1>2, <1>3, <1>4, OtherStops DEF Next

LEMMA InitStops == Init => Stopping
<1> SUFFICES ASSUME Init PROVE Stopping
  OBVIOUS
<1>1. \A h \in Handlers : /\ job[h].pc = "idle" /\ ~job[h].boot /\ job[h].todo = {}
                          /\ ~job[h].calm
  BY DEF Init, IdleJob
<1> QED BY <1>1 DEF Init, Stopping, JobsLinked, Linked, UsedBy, Held, Calm, Off, TaskPcs, SnapPcs

\* StoppedTasks: whatever tasks, instances and workers there are, a task whose
\* stop no initTask and no request to start it overlapped is not activated and
\* not repeated until the next such request: runs that complete, other stops,
\* instances that start and calls that fail never turn it on again.
THEOREM StoppedTasks == Spec => []StoppedStaysStopped
<1>1. Stopping => StoppedStaysStopped
  BY DEF Stopping, Off, StoppedStaysStopped
<1> QED BY <1>1, InitInv, NextInv, InitStops, NextStops, PTL DEF Spec

-----------------------------------------------------------------------------
\* An activated task is scheduled

OnTask(h, t) == job[h].pc \in TaskPcs /\ job[h].id = t

\* Bull repeats the schedule of the row and the next instance is queued, or the
\* last one of a bounded task is under way, or over and being dealt with.
Queued(t) ==
    LET s == <<t, row[t].cron>>
    IN  /\ s \in repeat
        /\ \/ s \in queue
           \/ /\ t \in Bounded /\ s \in due
              /\ \E w \in Workers : run[w] = s \/ OnTask(w, t)

\* What a handler that no other overlapped knows to be so.
AloneOK(h) ==
    job[h].alone =>
        /\ job[h].pc \in TaskPcs =>
              \A o \in Handlers \ {h} : ~OnTask(o, job[h].id) /\ ~Purging(o)
        /\ job[h].pc \in SnapPcs => job[h].task.cron = row[job[h].id].cron
        /\ \A s \in job[h].todo : s.cron = row[s.id].cron
        /\ job[h].pc = "save" /\ Exists(job[h].id) => Queued(job[h].id)

\* Only the workers deal with a settled task, with its configuration in hand, and
\* while it is activated its next instance is queued or it is about to be marked.
SettledOK(t) ==
    /\ \A h \in Handlers : OnTask(h, t) =>
          /\ h \in Workers
          /\ job[h].pc \in SnapPcs => job[h].task.opts = row[t].opts
    /\ row[t].status = "activated" =>
          /\ row[t].opts = row[t].cron /\ row[t].cron \in Crons
          /\ Queued(t) \/ \E w \in Workers : OnTask(w, t) /\ job[w].pc = "mark"

\* A worker's handler only ever stops its task.
WorkerOK(w) == job[w].then = "end" /\ ~job[w].boot /\ job[w].pc # "info"

SettledInv ==
    /\ \A h \in Handlers : AloneOK(h)
    /\ \A t \in settled : SettledOK(t)
    /\ \A w \in Workers : WorkerOK(w)
    /\ \A h \in Handlers : Purging(h) => settled = {}

LEMMA InitSettled == Init => SettledInv
<1> SUFFICES ASSUME Init PROVE SettledInv
  OBVIOUS
<1>1. \A h \in Handlers : job[h] = IdleJob
  BY DEF Init
<1>2. /\ IdleJob.pc = "idle" /\ IdleJob.then = "end" /\ ~IdleJob.alone /\ ~IdleJob.boot
  BY DEF IdleJob
<1>3. \A h \in Handlers : AloneOK(h) /\ WorkerOK(h) /\ ~Purging(h)
  BY <1>1, <1>2 DEF AloneOK, WorkerOK, Purging
<1>4. settled = {}
  BY DEF Init
<1> QED BY <1>3, <1>4 DEF SettledInv, Handlers

\* Whoever stands at one of these calls is not a worker.
LEMMA NoWorkerStarts ==
  ASSUME NEW w \in Workers, TypeInv, Stopping, WorkerOK(w)
  PROVE  job[w].pc \in {"idle", "late", "find", "exist", "remove", "mark"}
<1>1. job[w] \in Jobs /\ JobOK(job[w]) /\ Linked(job[w])
  BY DEF TypeInv, JobsOK, Stopping, JobsLinked, Handlers
<1> QED BY <1>1 DEF Jobs, Pcs, JobOK, BootPcs, Linked, WorkerOK

\* What is queued for the schedules of a task stays as it is, or grows.
BullKept(t) ==
    \A c \in Kinds : LET s == <<t, c>>
                     IN  /\ s \in repeat => s \in repeat'
                         /\ s \in queue => s \in queue'
                         /\ s \in due => s \in due'

LEMMA QueuedKept ==
  ASSUME NEW t \in Tasks, TypeInv, BullKept(t), Queued(t), row'[t].cron = row[t].cron,
         \A w \in Workers, c \in Kinds : run[w] = <<t, c>> =>
             run'[w] = <<t, c>> \/ \E v \in Workers : OnTask(v, t)',
         \A w \in Workers : OnTask(w, t) => OnTask(w, t)'
  PROVE  Queued(t)'
<1> DEFINE c == row[t].cron
<1>1. c \in Kinds
  BY DEF TypeInv, DataOK, Rows
<1>2. /\ <<t, c>> \in repeat => <<t, c>> \in repeat'
      /\ <<t, c>> \in queue => <<t, c>> \in queue'
      /\ <<t, c>> \in due => <<t, c>> \in due'
  BY <1>1 DEF BullKept
<1>3. row'[t].cron = c
  OBVIOUS
<1>4. <<t, c>> \in repeat /\ (<<t, c>> \in queue \/
         (t \in Bounded /\ <<t, c>> \in due /\ \E w \in Workers : run[w] = <<t, c>> \/ OnTask(w, t)))
  BY DEF Queued
<1>5. (\E w \in Workers : run[w] = <<t, c>> \/ OnTask(w, t))
         => \E w \in Workers : run'[w] = <<t, c>> \/ OnTask(w, t)'
  BY <1>1
<1> HIDE DEF c
<1> QED BY <1>2, <1>3, <1>4, <1>5 DEF Queued

\* What a step of h does to the rows, but for the task that it saves.
RowsKept(h) ==
    \A t \in Tasks :
        /\ row'[t].cron = row[t].cron /\ (Exists(t)' => Exists(t))
        /\ \/ row'[t].opts = row[t].opts
              /\ (row'[t].status = "activated" => row[t].status = "activated")
           \/ t = job[h].id /\ job[h].pc = "save"

\* What a worker's handler h, whose record becomes j, leaves of the settled task
\* it works on.
WorkerKeeps(h, j) ==
    \A t \in settled \cap settled' :
        OnTask(h, t) /\ h \in Workers =>
            /\ j.pc \in SnapPcs => j.task.opts = row[t].opts
            /\ job[h].pc = "mark" => row'[t].status # "activated"
            /\ /\ row[t].status = "activated" /\ row'[t].status = "activated"
               /\ row[t].opts = row[t].cron /\ row[t].cron \in Crons /\ Queued(t)
               => Queued(t)' \/ (j.id = t /\ j.pc = "mark")

\* Nothing is settled but what h saves.
NewlySettled(h) ==
    \A t \in settled' : \/ t \in settled
                        \/ /\ job[h].pc = "save" /\ job[h].alone
                           /\ t = job[h].id /\ SettledOK(t)'

\* One handler goes on to another call, or ends.
LEMMA SettledStep ==
  ASSUME NEW h \in Handlers, NEW j \in Jobs, TypeInv, Stopping, SettledInv,
         job' = [job EXCEPT ![h] = j], UNCHANGED run,
         j.pc \in TaskPcs => job[h].pc \in TaskPcs /\ j.id = job[h].id,
         j.pc # "purge", h \in Workers => j.then = "end" /\ ~j.boot /\ j.pc # "info",
         \A t \in Tasks : BullKept(t) \/ OnTask(h, t),
         RowsKept(h), AloneOK(h)', NewlySettled(h), WorkerKeeps(h, j)
  PROVE  SettledInv'
<1>1. job'[h] = j /\ \A g \in Handlers \ {h} : job'[g] = job[g]
  BY DEF TypeInv, JobsOK
<1>2. \A g \in Handlers \ {h} : \A t : OnTask(g, t)' <=> OnTask(g, t)
  BY <1>1 DEF OnTask
<1>3. \A t : OnTask(h, t)' => OnTask(h, t)
  BY <1>1 DEF OnTask
<1>4. \A g \in Handlers : Purging(g)' => Purging(g)
  BY <1>1 DEF Purging
<1>5. ASSUME NEW t \in Tasks, ~OnTask(h, t), Queued(t)
      PROVE  Queued(t)'
  BY <1>2, <1>5, QueuedKept DEF Handlers, RowsKept
<1>6. ASSUME NEW g \in Handlers \ {h}, job[g].alone
      PROVE  AloneOK(g)'
  <2>1. AloneOK(g) /\ job'[g] = job[g]
    BY <1>1 DEF SettledInv
  <2>2. job[g] \in Jobs /\ (job[g].pc \in TaskPcs => job[g].id \in Tasks)
    BY DEF TypeInv, JobsOK, JobOK
  <2>3. job[g].pc \in TaskPcs =>
          /\ \A o \in Handlers \ {g} : ~OnTask(o, job[g].id)' /\ ~Purging(o)'
          /\ ~OnTask(h, job[g].id)
    BY <1>2, <1>3, <1>4, <1>6, <2>1 DEF AloneOK
  <2>4. job[g].pc \in SnapPcs => job[g].task.cron = row'[job[g].id].cron
    BY <1>6, <2>1, <2>2 DEF AloneOK, RowsKept, SnapPcs, TaskPcs
  <2>5. \A s \in job[g].todo : s.cron = row'[s.id].cron
    BY <1>6, <2>1, <2>2 DEF AloneOK, RowsKept, Jobs, Snaps
  <2>6. job[g].pc = "save" /\ Exists(job[g].id)' => Queued(job[g].id)'
    <3> SUFFICES ASSUME job[g].pc = "save", Exists(job[g].id)' PROVE Queued(job[g].id)'
      OBVIOUS
    <3>1. job[g].id \in Tasks /\ ~OnTask(h, job[g].id)
      BY <2>2, <2>3 DEF TaskPcs
    <3>2. Queued(job[g].id)
      BY <1>6, <2>1, <3>1 DEF AloneOK, RowsKept, Exists
    <3> QED BY <1>5, <3>1, <3>2
  <2> QED BY <2>1, <2>3, <2>4, <2>5, <2>6 DEF AloneOK, OnTask, Purging, Exists, Queued
<1>7. \A g \in Handlers : AloneOK(g)'
  BY <1>1, <1>6 DEF AloneOK
<1>8. \A w \in Workers : WorkerOK(w)'
  BY <1>1 DEF SettledInv, WorkerOK, Handlers
<1>9. ASSUME NEW t \in settled'
      PROVE  SettledOK(t)'
  <2>1. CASE t \in settled
    <3>1. t \in Tasks /\ SettledOK(t)
      BY <2>1 DEF TypeInv, DataOK, SettledInv
    <3>2. OnTask(h, t) => h \in Workers
      BY <3>1 DEF SettledOK
    <3>3. job[h].pc = "save" => h \notin Workers
      BY NoWorkerStarts DEF SettledInv
    <3>4. /\ row'[t].opts = row[t].opts /\ row'[t].cron = row[t].cron
          /\ row'[t].status = "activated" => row[t].status = "activated"
      BY <3>1, <3>2, <3>3 DEF OnTask, RowsKept, TaskPcs
    <3>5. ASSUME NEW g \in Handlers, OnTask(g, t)'
          PROVE  g \in Workers /\ (job'[g].pc \in SnapPcs => job'[g].task.opts = row'[t].opts)
      BY <1>1, <1>2, <1>3, <2>1, <3>1, <3>2, <3>4, <3>5 DEF SettledOK, WorkerKeeps
    <3>6. ASSUME row'[t].status = "activated"
          PROVE  /\ row'[t].opts = row'[t].cron /\ row'[t].cron \in Crons
                 /\ Queued(t)' \/ \E w \in Workers : OnTask(w, t)' /\ job'[w].pc = "mark"
      <4>1. /\ row[t].status = "activated" /\ row[t].opts = row[t].cron /\ row[t].cron \in Crons
            /\ Queued(t) \/ \E w \in Workers : OnTask(w, t) /\ job[w].pc = "mark"
        BY <3>1, <3>4, <3>6 DEF SettledOK
      <4>2. CASE Queued(t) /\ OnTask(h, t)
        <5>1. Queued(t)' \/ (j.id = t /\ j.pc = "mark")
          BY <2>1, <3>2, <3>6, <4>1, <4>2 DEF WorkerKeeps
        <5> QED BY <1>1, <3>2, <3>4, <4>1, <4>2, <5>1 DEF OnTask, TaskPcs
      <4>3. CASE Queued(t) /\ ~OnTask(h, t)
        BY <1>5, <3>1, <3>4, <4>1, <4>3
      <4>4. ASSUME NEW w \in Workers, OnTask(w, t), job[w].pc = "mark"
            PROVE  \E v \in Workers : OnTask(v, t)' /\ job'[v].pc = "mark"
        <5>1. w # h
          BY <2>1, <3>6, <4>4 DEF WorkerKeeps
        <5> QED BY <1>1, <1>2, <4>4, <5>1 DEF Handlers
      <4> QED BY <3>4, <4>1, <4>2, <4>3, <4>4
    <3> QED BY <3>5, <3>6 DEF SettledOK
  <2>2. CASE t \notin settled
    BY <2>2 DEF NewlySettled
  <2> QED BY <2>1, <2>2
<1>10. ASSUME NEW g \in Handlers, Purging(g)'
       PROVE  settled' = {}
  <2>1. Purging(g) /\ settled = {} /\ g # h
    BY <1>1, <1>4, <1>10 DEF SettledInv, Purging
  <2>2. ~(job[h].pc = "save" /\ job[h].alone)
    BY <2>1 DEF SettledInv, AloneOK, TaskPcs
  <2> QED BY <2>1, <2>2 DEF NewlySettled
<1> QED BY <1>7, <1>8, <1>9, <1>10 DEF SettledInv

\* No handler moves, and what is queued stays queued.
LEMMA SettledQuiet ==
  ASSUME TypeInv, SettledInv, UNCHANGED <<row, job, settled>>,
         \A t \in Tasks : Exists(t) /\ Queued(t) => Queued(t)'
  PROVE  SettledInv'
<1>1. \A h \in Handlers : AloneOK(h)'
  <2> SUFFICES ASSUME NEW h \in Handlers, job[h].alone PROVE AloneOK(h)'
    BY DEF AloneOK
  <2>1. AloneOK(h) /\ (job[h].pc = "save" => job[h].id \in Tasks)
    BY DEF SettledInv, TypeInv, JobsOK, JobOK, TaskPcs
  <2> QED BY <2>1 DEF AloneOK, OnTask, Purging, Exists
<1>2. \A t \in settled : SettledOK(t)'
  <2> SUFFICES ASSUME NEW t \in settled PROVE SettledOK(t)'
    OBVIOUS
  <2>1. t \in Tasks /\ SettledOK(t)
    BY DEF SettledInv, TypeInv, DataOK
  <2>2. row[t].status = "activated" => Exists(t)
    BY DEF Exists
  <2> QED BY <2>1, <2>2 DEF SettledOK, OnTask
<1> QED BY <1>1, <1>2 DEF SettledInv, WorkerOK, Purging

LEMMA BeginAlone ==
  ASSUME NEW h \in Handlers, NEW rec \in Jobs, TypeInv, Begin(h, rec)
  PROVE  /\ job'[h].alone => /\ \A o \in Handlers \ {h} : job[o].id # rec.id /\ ~Purging(o)
                             /\ rec.boot => rec.alone
         /\ \A g \in Handlers \ {h} : job'[g].alone =>
                job[g].alone /\ job[g].id # rec.id /\ ~job[g].boot
<1>1. job'[h].alone => /\ \A o \in Handlers \ {h} : job[o].id # rec.id /\ ~Purging(o)
                       /\ rec.boot => rec.alone
  <2> DEFINE a == \A o \in Handlers \ {h} :
                     ~job[o].boot /\ (job[o].id = rec.id => ~MayStart(job[o]))
             b == /\ \A o \in Handlers \ {h} : job[o].id # rec.id /\ ~Purging(o)
                  /\ rec.boot => rec.alone
  <2>1. job'[h] = [rec EXCEPT !.calm = a, !.alone = b]
    BY DEF Begin
  <2> HIDE DEF a, b
  <2>2. job'[h].alone = b
    BY <2>1, SMTT(20), ZenonT(60) DEF Jobs
  <2> QED BY <2>2 DEF b
<1>2. ASSUME NEW g \in Handlers \ {h}, job'[g].alone
      PROVE  job[g].alone /\ job[g].id # rec.id /\ ~job[g].boot
  <2>1. CASE job[g].id = rec.id \/ job[g].boot
    <3> DEFINE a == job[g].calm /\ ~MayStart(rec)
    <3>1. job'[g] = [job[g] EXCEPT !.calm = a, !.alone = FALSE] /\ job[g] \in Jobs
      BY <2>1 DEF Begin, TypeInv, JobsOK, Jobs
    <3> HIDE DEF a
    <3>2. job'[g].alone = FALSE
      BY <3>1, SMTT(20), ZenonT(60) DEF Jobs
    <3> QED BY <1>2, <3>2
  <2>2. CASE ~(job[g].id = rec.id \/ job[g].boot)
    BY <1>2, <2>2 DEF Begin
  <2> QED BY <2>1, <2>2
<1> QED BY <1>1, <1>2

\* A handler that was not at work begins to work on a task.
LEMMA SettledBegin ==
  ASSUME NEW h \in Handlers, NEW rec \in Jobs, TypeInv, Stopping, SettledInv,
         Begin(h, rec), rec.id \in Tasks, job[h].pc \notin TaskPcs,
         rec.pc \in {"info", "exist", "late"},
         h \in Workers => rec.pc = "late" /\ rec.then = "end" /\ ~rec.boot /\ UNCHANGED row,
         rec.pc = "exist" /\ (rec.boot => rec.alone) => rec.task.cron = row'[rec.id].cron,
         rec.boot /\ rec.alone => \A s \in rec.todo : s.cron = row'[s.id].cron,
         ~rec.boot => rec.todo = {},
         \A t \in Tasks \ {rec.id} : row'[t] = row[t], UNCHANGED <<repeat, due, queue>>,
         \A w \in Workers, s \in Schedules :
            run[w] = s => run'[w] = s \/ (w = h /\ s[1] = rec.id)
  PROVE  SettledInv'
<1>1. /\ Works(job'[h], rec)
      /\ \A g \in Handlers \ {h} : Works(job'[g], job[g])
  BY BeginWorks
<1>2. /\ \A g \in Handlers \ {h} : \A t : OnTask(g, t)' <=> OnTask(g, t)
      /\ \A t : OnTask(h, t)' <=> t = rec.id
      /\ \A t : ~OnTask(h, t)
      /\ \A g \in Handlers : Purging(g)' => Purging(g) /\ g # h
  BY <1>1 DEF OnTask, Works, TaskPcs, Purging
<1>3. ASSUME NEW t \in Tasks, row'[t] = row[t], t # rec.id \/ h \in Workers, Queued(t)
      PROVE  Queued(t)'
  <2>1. BullKept(t)
    BY DEF BullKept
  <2>2. ASSUME NEW w \in Workers, NEW c \in Kinds, run[w] = <<t, c>>, c \in Crons
        PROVE  run'[w] = <<t, c>> \/ \E v \in Workers : OnTask(v, t)'
    <3>1. <<t, c>> \in Schedules
      BY <2>2 DEF Schedules
    <3> QED BY <1>2, <1>3, <2>2, <3>1
  <2>3. <<t, row[t].cron>> \in repeat /\ row[t].cron \in Crons
    BY <1>3 DEF Queued, TypeInv, DataOK, Schedules
  <2>4. (\E w \in Workers : run[w] = <<t, row[t].cron>> \/ OnTask(w, t)) =>
           \E w \in Workers : run'[w] = <<t, row[t].cron>> \/ OnTask(w, t)'
    BY <1>2, <2>2, <2>3 DEF Handlers, Kinds
  <2> QED BY <1>3, <2>4 DEF Queued
<1>4. ASSUME NEW g \in Handlers \ {h}, job'[g].alone
      PROVE  AloneOK(g)'
  <2>1. AloneOK(g) /\ job[g].alone /\ job[g].id # rec.id /\ ~job[g].boot
    BY <1>4, BeginAlone DEF SettledInv
  <2>2. /\ job'[g].pc = job[g].pc /\ job'[g].id = job[g].id /\ job'[g].task = job[g].task
        /\ job'[g].todo = {} /\ (job[g].pc \in TaskPcs => job[g].id \in Tasks)
    BY <1>1, <2>1 DEF Works, Stopping, JobsLinked, Linked, TypeInv, JobsOK, JobOK
  <2>3. PICK t : t = job[g].id
    OBVIOUS
  <2>4. t # rec.id /\ (job[g].pc \in TaskPcs => t \in Tasks /\ row'[t] = row[t])
    BY <2>1, <2>2, <2>3
  <2>5. ASSUME job[g].pc \in TaskPcs, NEW o \in Handlers \ {g}
        PROVE  ~OnTask(o, t)' /\ ~Purging(o)'
    <3>1. ~OnTask(o, t) /\ ~Purging(o)
      BY <2>1, <2>3, <2>5 DEF AloneOK
    <3> QED BY <1>2, <2>4, <3>1
  <2>6. ASSUME job[g].pc = "save", Exists(t)'
        PROVE  Queued(t)'
    <3>1. Queued(t) /\ t \in Tasks
      BY <2>1, <2>3, <2>4, <2>6 DEF AloneOK, Exists, TaskPcs
    <3> QED BY <1>3, <2>4, <2>6, <3>1 DEF TaskPcs
  <2>7. job[g].pc \in SnapPcs => job[g].task.cron = row'[t].cron
    BY <2>1, <2>3, <2>4 DEF AloneOK, SnapPcs, TaskPcs
  <2>8. job'[g].id = t
    BY <2>2, <2>3
  <2> QED BY <2>2, <2>5, <2>6, <2>7, <2>8 DEF AloneOK
<1>5. AloneOK(h)'
  <2> SUFFICES ASSUME job'[h].alone PROVE AloneOK(h)'
    BY DEF AloneOK
  <2>1. (\A o \in Handlers \ {h} : job[o].id # rec.id /\ ~Purging(o)) /\ (rec.boot => rec.alone)
    BY BeginAlone
  <2>2. \A o \in Handlers \ {h} : ~OnTask(o, rec.id)' /\ ~Purging(o)'
    BY <1>2, <2>1 DEF OnTask
  <2>3. rec.pc \in SnapPcs => rec.task.cron = row'[rec.id].cron
    BY <2>1 DEF SnapPcs
  <2>4. \A s \in rec.todo : s.cron = row'[s.id].cron
    BY <2>1
  <2> QED BY <1>1, <2>2, <2>3, <2>4 DEF AloneOK, Works, OnTask, Purging
<1>6. \A g \in Handlers : AloneOK(g)'
  BY <1>4, <1>5 DEF AloneOK
<1>7. \A w \in Workers : WorkerOK(w)'
  BY <1>1 DEF SettledInv, WorkerOK, Works, Handlers
<1>8. settled' \subseteq settled /\ (h \notin Workers => rec.id \notin settled')
  BY DEF Begin, Handlers
<1>9. ASSUME NEW t \in settled'
      PROVE  SettledOK(t)'
  <2>1. t \in Tasks /\ SettledOK(t) /\ row'[t] = row[t] /\ (t # rec.id \/ h \in Workers)
    BY <1>8 DEF TypeInv, DataOK, SettledInv
  <2>2. ASSUME NEW g \in Handlers, OnTask(g, t)'
        PROVE  g \in Workers /\ (job'[g].pc \in SnapPcs => job'[g].task.opts = row'[t].opts)
    <3>1. CASE g = h
      BY <1>1, <1>2, <2>1, <2>2, <3>1 DEF Works, SnapPcs
    <3>2. CASE g # h
      BY <1>1, <1>2, <2>1, <2>2, <3>2 DEF SettledOK, Works
    <3> QED BY <3>1, <3>2
  <2>3. ASSUME row[t].status = "activated"
        PROVE  /\ row[t].opts = row[t].cron /\ row[t].cron \in Crons
               /\ Queued(t)' \/ \E w \in Workers : OnTask(w, t)' /\ job'[w].pc = "mark"
    <3>1. /\ row[t].opts = row[t].cron /\ row[t].cron \in Crons
          /\ Queued(t) \/ \E w \in Workers : OnTask(w, t) /\ job[w].pc = "mark"
      BY <2>1, <2>3 DEF SettledOK
    <3>2. ASSUME NEW w \in Workers, OnTask(w, t), job[w].pc = "mark"
          PROVE  OnTask(w, t)' /\ job'[w].pc = "mark"
      BY <1>1, <1>2, <3>2 DEF Handlers, Works
    <3> QED BY <1>3, <2>1, <3>1, <3>2
  <2> QED BY <2>1, <2>2, <2>3 DEF SettledOK
<1>10. ASSUME NEW g \in Handlers, Purging(g)'
       PROVE  settled' = {}
  BY <1>2, <1>8, <1>10 DEF SettledInv
<1> QED BY <1>6, <1>7, <1>9, <1>10 DEF SettledInv

\* h stays with what it has and only goes on to the call l.
LEMMA SettledGoto ==
  ASSUME NEW h \in Handlers, NEW l \in Pcs, NEW t, TypeInv, Stopping, SettledInv,
         Goto(h, l), t = job[h].id, UNCHANGED <<run, settled>>, l \notin {"purge", "info"},
         l \in TaskPcs => job[h].pc \in TaskPcs, l \in SnapPcs => job[h].pc \in SnapPcs,
         \A u \in Tasks : BullKept(u) \/ OnTask(h, u), RowsKept(h), job[h].pc # "save",
         l = "save" /\ Exists(t)' => Queued(t)',
         h \in Workers /\ t \in settled =>
             /\ job[h].pc = "mark" => row'[t].status # "activated"
             /\ row'[t].status = "activated" /\ Queued(t) => Queued(t)' \/ l = "mark"
  PROVE  SettledInv'
<1> DEFINE j == [job[h] EXCEPT !.pc = l]
<1>1. job[h] \in Jobs /\ Linked(job[h]) /\ AloneOK(h) /\ (h \in Workers => WorkerOK(h))
  BY DEF Stopping, JobsLinked, TypeInv, JobsOK, SettledInv
<1>2. j \in Jobs /\ job' = [job EXCEPT ![h] = j]
  BY <1>1 DEF Jobs, Goto, TypeInv, JobsOK
<1>3. /\ j.pc = l /\ j.id = t /\ j.task = job[h].task /\ j.then = job[h].then
      /\ j.boot = job[h].boot /\ j.todo = job[h].todo /\ j.alone = job[h].alone
  BY <1>1 DEF Jobs
<1> HIDE DEF j
<1>4. job'[h] = j /\ \A g \in Handlers \ {h} : job'[g] = job[g]
  BY <1>2 DEF TypeInv, JobsOK
<1>5. AloneOK(h)'
  <2> SUFFICES ASSUME job[h].alone PROVE AloneOK(h)'
    BY <1>3, <1>4 DEF AloneOK
  <2>1. job[h].pc \in TaskPcs => t \in Tasks
    BY DEF TypeInv, JobsOK, JobOK
  <2>2. l \in TaskPcs => \A o \in Handlers \ {h} : ~OnTask(o, t)' /\ ~Purging(o)'
    BY <1>1, <1>4 DEF AloneOK, OnTask, Purging
  <2>3. l \in SnapPcs => job[h].task.cron = row'[t].cron
    BY <1>1, <2>1 DEF AloneOK, RowsKept, SnapPcs, TaskPcs
  <2>4. \A s \in job[h].todo : s.cron = row'[s.id].cron
    BY <1>1 DEF AloneOK, RowsKept, Jobs, Snaps
  <2> QED BY <1>3, <1>4, <2>2, <2>3, <2>4 DEF AloneOK
<1>6. WorkerKeeps(h, j)
  <2> SUFFICES ASSUME NEW u \in settled, OnTask(h, u), h \in Workers
      PROVE  /\ j.pc \in SnapPcs => j.task.opts = row[u].opts
             /\ job[h].pc = "mark" => row'[u].status # "activated"
             /\ row'[u].status = "activated" /\ Queued(u) => Queued(u)' \/ (j.id = u /\ j.pc = "mark")
    BY DEF WorkerKeeps
  <2>1. u = t
    BY DEF OnTask
  <2>2. j.pc \in SnapPcs => j.task.opts = row[u].opts
    BY <1>3, <2>1 DEF SettledInv, SettledOK
  <2> QED BY <1>3, <2>1, <2>2
<1>7. h \in Workers => j.then = "end" /\ ~j.boot /\ j.pc # "info"
  BY <1>1, <1>3 DEF WorkerOK
<1>8. NewlySettled(h)
  BY DEF NewlySettled
<1> QED BY <1>2, <1>3, <1>5, <1>6, <1>7, <1>8, SettledStep

\* h is done with its task, or with everything.
LEMMA EndRecord ==
  ASSUME NEW h \in Handlers, TypeInv, Fail(h) \/ Return(h)
  PROVE  \E j \in Jobs : /\ job' = [job EXCEPT ![h] = j]
                         /\ j.pc \in {"idle", "next"} /\ j.then = "end"
                         /\ j.boot => job[h].boot
                         /\ j.alone => job[h].alone
                         /\ j.todo \subseteq job[h].todo
<1>1. CASE Fail(h)
  <2>1. /\ IdleJob.pc = "idle" /\ IdleJob.then = "end" /\ ~IdleJob.boot /\ ~IdleJob.alone
        /\ IdleJob.todo = {}
    BY DEF IdleJob
  <2> QED BY <1>1, <2>1, IdleJobOK DEF Fail
<1>2. CASE job[h].boot /\ Return(h)
  <2> DEFINE j == [IdleJob EXCEPT !.pc = "next", !.boot = TRUE,
                                  !.todo = job[h].todo, !.alone = job[h].alone]
  <2>1. job[h] \in Jobs
    BY DEF TypeInv, JobsOK
  <2>2. j \in Jobs /\ job' = [job EXCEPT ![h] = j]
    BY <1>2, <2>1 DEF Return, IdleJob, Jobs, Pcs
  <2>3. /\ j.pc = "next" /\ j.then = "end" /\ j.boot /\ j.todo = job[h].todo
        /\ j.alone = job[h].alone
    BY DEF IdleJob
  <2> HIDE DEF j
  <2> QED BY <1>2, <2>2, <2>3
<1>3. CASE ~job[h].boot /\ Return(h)
  BY <1>1, <1>3 DEF Return
<1> QED BY <1>1, <1>2, <1>3

LEMMA SettledEnd ==
  ASSUME NEW h \in Handlers, NEW t, TypeInv, Stopping, SettledInv,
         Fail(h) \/ Return(h), t = job[h].id, UNCHANGED run,
         \A u \in Tasks : BullKept(u) \/ OnTask(h, u), RowsKept(h),
         NewlySettled(h),
         h \in Workers /\ t \in settled /\ t \in settled' =>
             /\ job[h].pc = "mark" => row'[t].status # "activated"
             /\ /\ row[t].status = "activated" /\ row'[t].status = "activated"
                /\ row[t].opts = row[t].cron /\ row[t].cron \in Crons /\ Queued(t)
                => Queued(t)'
  PROVE  SettledInv'
<1>1. PICK j \in Jobs : /\ job' = [job EXCEPT ![h] = j]
                        /\ j.pc \in {"idle", "next"} /\ j.then = "end"
                        /\ j.boot => job[h].boot
                        /\ j.alone => job[h].alone
                        /\ j.todo \subseteq job[h].todo
  BY EndRecord
<1>2. job'[h] = j /\ job[h] \in Jobs /\ AloneOK(h) /\ (h \in Workers => WorkerOK(h))
  BY <1>1 DEF TypeInv, JobsOK, SettledInv
<1>3. AloneOK(h)'
  <2> SUFFICES ASSUME j.alone PROVE AloneOK(h)'
    BY <1>2 DEF AloneOK
  <2>1. \A s \in j.todo : s.cron = row'[s.id].cron
    BY <1>1, <1>2 DEF AloneOK, RowsKept, Jobs, Snaps
  <2> QED BY <1>1, <1>2, <2>1 DEF AloneOK, TaskPcs, SnapPcs
<1>4. h \in Workers => j.then = "end" /\ ~j.boot /\ j.pc # "info"
  BY <1>1, <1>2 DEF WorkerOK
<1>5. j.pc \notin TaskPcs /\ j.pc \notin SnapPcs /\ j.pc # "purge"
  BY <1>1 DEF TaskPcs, SnapPcs
<1>6. WorkerKeeps(h, j)
  BY <1>5 DEF WorkerKeeps, OnTask
<1> QED BY <1>1, <1>3, <1>4, <1>5, <1>6, SettledStep

\* The status of the task t becomes s, or nothing changes.
LEMMA StatusSet ==
  ASSUME NEW t \in Tasks, NEW h \in Handlers, TypeInv, NEW s \in {"disabled", "deleted"},
         \/ row' = [row EXCEPT ![t].status = IF Exists(t) THEN s ELSE @]
         \/ row' = [row EXCEPT ![t].status = IF Exists(t) /\ t \notin logs THEN s ELSE @]
  PROVE  RowsKept(h)
  BY DEF RowsKept, TypeInv, DataOK, Rows, Exists

LEMMA RowsSame == UNCHANGED row => \A h \in Handlers : RowsKept(h)
  BY DEF RowsKept, Exists

\* A worker that stops its task.
LEMMA StopSettled ==
  ASSUME NEW h \in Handlers, TypeInv, Stopping, SettledInv, StopStep(h)
  PROVE  SettledInv'
<1> USE DEF At
<1>1. PICK t : t = job[h].id
  OBVIOUS
<1>2. /\ job[h].pc \in {"exist", "remove", "mark"} /\ UNCHANGED <<run, settled>>
      /\ job[h].task.id = t /\ t \in Tasks /\ OnTask(h, t)
  BY <1>1, AtSnap DEF StopStep, Exist, Remove, Mark, bull, past, SnapPcs, TaskPcs, OnTask
<1>3. CASE Exist(h)
  <2>1. PICK l \in {"mark", "remove"} : Goto(h, l)
    BY <1>3 DEF Exist
  <2>2. UNCHANGED <<row, bull>>
    BY <1>3 DEF Exist
  <2>3. \A u \in Tasks : BullKept(u)
    BY <2>2 DEF BullKept, bull
  <2>4. Queued(t) => Queued(t)'
    <3>1. \A w \in Workers : OnTask(w, t) => OnTask(w, t)'
      BY <1>2, <2>1 DEF Goto, OnTask, TypeInv, JobsOK, Jobs, Handlers, TaskPcs
    <3> QED BY <1>2, <2>2, <2>3, <3>1, QueuedKept
  <2>5. job[h].pc = "exist"
    BY <1>3 DEF Exist
  <2>6. l \in Pcs /\ l \in TaskPcs /\ l \in SnapPcs /\ job[h].pc \in TaskPcs /\ job[h].pc \in SnapPcs
    BY <1>2 DEF Pcs, TaskPcs, SnapPcs
  <2>7. RowsKept(h)
    BY <2>2, RowsSame
  <2> QED BY <1>1, <1>2, <2>1, <2>3, <2>4, <2>5, <2>6, <2>7, SettledGoto
<1>4. CASE Remove(h)
  <2>1. /\ job[h].pc = "remove" /\ UNCHANGED row
        /\ queue' = queue \ Of(t)
        /\ repeat' = repeat \ {<<t, job[h].task.opts>>}
        /\ due' = due \ {<<t, job[h].task.opts>>}
        /\ IF job[h].task.opts = None THEN Fail(h) ELSE Goto(h, "mark")
    BY <1>2, <1>4 DEF Remove
  <2>2. \A u \in Tasks : BullKept(u) \/ OnTask(h, u)
    BY <1>2, <2>1 DEF BullKept, Of
  <2>3. RowsKept(h)
    BY <2>1, RowsSame
  <2>4. CASE job[h].task.opts = None
    <3>1. t \in settled => job[h].task.opts = row[t].opts
      BY <1>2, <2>1 DEF SettledInv, SettledOK, SnapPcs
    <3>2. None \notin Crons
      BY TaskAssumption
    <3>3. NewlySettled(h)
      BY <1>2 DEF NewlySettled
    <3> QED BY <1>1, <1>2, <2>1, <2>2, <2>3, <2>4, <3>1, <3>2, <3>3, SettledEnd
  <2>5. CASE job[h].task.opts # None
    <3>1. job[h].pc \in TaskPcs /\ job[h].pc \in SnapPcs /\ "mark" \in Pcs
      BY <2>1 DEF TaskPcs, SnapPcs, Pcs
    <3> QED BY <1>1, <1>2, <2>1, <2>2, <2>3, <2>5, <3>1, SettledGoto
  <2> QED BY <2>4, <2>5
<1>5. CASE Mark(h)
  <2>1. /\ job[h].pc = "mark" /\ UNCHANGED bull
        /\ row' = [row EXCEPT ![t].status = IF Exists(t) THEN "disabled" ELSE @]
        /\ Return(h) \/ Goto(h, "add") \/ Goto(h, "drop")
    BY <1>2, <1>5 DEF Mark
  <2>2. \A u \in Tasks : BullKept(u)
    BY <2>1 DEF BullKept, bull
  <2>3. RowsKept(h) /\ row'[t].status # "activated"
    BY <1>2, <2>1, StatusSet DEF TypeInv, DataOK, Rows, Exists
  <2>4. NewlySettled(h)
    BY <1>2 DEF NewlySettled
  <2>5. CASE Return(h)
    BY <1>1, <1>2, <2>1, <2>2, <2>3, <2>4, <2>5, SettledEnd
  <2>6. ASSUME NEW l \in {"add", "drop"}, Goto(h, l)
        PROVE  SettledInv'
    <3>1. l \in Pcs /\ job[h].pc \in TaskPcs /\ job[h].pc \in SnapPcs
      BY <2>1 DEF Pcs, TaskPcs, SnapPcs
    <3> QED BY <1>1, <1>2, <2>1, <2>2, <2>3, <2>6, <3>1, SettledGoto
  <2> QED BY <2>1, <2>5, <2>6
<1> QED BY <1>3, <1>4, <1>5 DEF StopStep

\* A start: from the configuration added to Bull to the one saved in the row.
LEMMA StartSettled ==
  ASSUME NEW h \in Handlers, TypeInv, Stopping, SettledInv, StartStep(h) \/ Drop(h)
  PROVE  SettledInv'
<1> USE DEF At
<1>1. PICK t : t = job[h].id
  OBVIOUS
<1>2. /\ job[h].pc \in {"add", "save", "drop"} /\ UNCHANGED run
      /\ job[h].task.id = t /\ t \in Tasks /\ OnTask(h, t) /\ h \notin Workers
      /\ AloneOK(h) /\ job[h].pc \in TaskPcs /\ job[h].pc \in SnapPcs
  BY <1>1, AtSnap, NoWorkerStarts
     DEF StartStep, Add, AddRefused, Save, Drop, bull, SnapPcs, TaskPcs, OnTask, SettledInv
<1>3. CASE Add(h)
  <2>1. PICK c : c = job[h].task.cron
    OBVIOUS
  <2>2. /\ job[h].pc = "add" /\ UNCHANGED <<row, settled>> /\ Goto(h, "save")
        /\ repeat' = repeat \cup {<<t, c>>} /\ queue' = queue \cup {<<t, c>>}
        /\ due' = due \ {<<t, c>>}
    BY <1>2, <1>3, <2>1 DEF Add, past
  <2>3. \A u \in Tasks : BullKept(u) \/ OnTask(h, u)
    BY <1>2, <2>2 DEF BullKept
  <2>4. RowsKept(h) /\ "save" \in Pcs
    BY <2>2, RowsSame DEF Pcs
  <2>5. CASE row[t].cron = c
    <3>1. Queued(t)'
      BY <2>2, <2>5 DEF Queued
    <3> QED BY <1>1, <1>2, <2>2, <2>3, <2>4, <3>1, SettledGoto
  <2>6. CASE row[t].cron # c
    <3> DEFINE j == [job[h] EXCEPT !.pc = "save"]
    <3>1. ~job[h].alone
      BY <1>1, <1>2, <2>1, <2>6 DEF AloneOK
    <3>2. j \in Jobs /\ job' = [job EXCEPT ![h] = j]
      BY <2>2 DEF Goto, TypeInv, JobsOK, Jobs, Pcs
    <3>3. j.pc = "save" /\ j.id = job[h].id /\ j.alone = job[h].alone
      BY DEF TypeInv, JobsOK, Jobs
    <3> HIDE DEF j
    <3>4. AloneOK(h)'
      BY <3>1, <3>2, <3>3 DEF AloneOK, TypeInv, JobsOK
    <3>5. NewlySettled(h) /\ WorkerKeeps(h, j)
      BY <1>2, <2>2 DEF NewlySettled, WorkerKeeps
    <3> QED BY <1>2, <2>2, <2>3, <2>4, <3>2, <3>3, <3>4, <3>5, SettledStep
  <2> QED BY <2>5, <2>6
<1>4. CASE AddRefused(h) \/ Drop(h)
  <2>1. /\ Fail(h) /\ UNCHANGED <<bull, settled>>
        /\ \/ row' = [row EXCEPT ![t].status = IF Exists(t) THEN "disabled" ELSE @]
           \/ row' = [row EXCEPT ![t].status = IF Exists(t) /\ t \notin logs THEN "deleted" ELSE @]
    BY <1>2, <1>4 DEF AddRefused, Drop, past
  <2>2. \A u \in Tasks : BullKept(u)
    BY <2>1 DEF BullKept, bull
  <2>3. RowsKept(h) /\ NewlySettled(h)
    BY <1>2, <2>1, StatusSet DEF NewlySettled
  <2> QED BY <1>1, <1>2, <2>1, <2>2, <2>3, SettledEnd
<1>5. CASE Save(h)
  <2>1. PICK c : c = job[h].task.cron
    OBVIOUS
  <2>2. PICK r : r = [status |-> "activated", cron |-> row[t].cron, opts |-> c]
    OBVIOUS
  <2>3. /\ job[h].pc = "save" /\ UNCHANGED bull /\ Return(h)
        /\ row' = IF Exists(t) THEN [row EXCEPT ![t] = r] ELSE row
        /\ settled' = IF job[h].alone THEN settled \cup {t} ELSE settled
    BY <1>2, <1>5, <2>1, <2>2 DEF Save
  <2>4. (\A u \in Tasks : BullKept(u)) /\ c \in Crons
    BY <2>1, <2>3 DEF BullKept, bull, TypeInv, JobsOK, JobOK
  <2>5. RowsKept(h)
    BY <1>1, <1>2, <2>2, <2>3 DEF RowsKept, TypeInv, DataOK, Rows, Exists
  <2>6. ASSUME job[h].alone
        PROVE  SettledOK(t)'
    <3>1. \A g \in Handlers \ {h} : ~OnTask(g, t) /\ job'[g] = job[g]
      BY <1>1, <1>2, <2>3, <2>6, EndRecord DEF AloneOK, TypeInv, JobsOK
    <3>2. job'[h].pc \notin TaskPcs
      BY <2>3, EndRecord DEF TaskPcs, TypeInv, JobsOK
    <3>3. \A g \in Handlers : ~OnTask(g, t)'
      BY <3>1, <3>2 DEF OnTask
    <3>4. CASE ~Exists(t)
      BY <2>3, <3>3, <3>4 DEF SettledOK, Exists
    <3>5. CASE Exists(t)
      <4>1. row'[t] = r /\ row[t].cron = c /\ Queued(t)
        BY <1>1, <1>2, <2>1, <2>3, <2>6, <3>5 DEF AloneOK, TypeInv, DataOK
      <4>2. row'[t].cron = row[t].cron /\ row'[t].opts = c
        BY <2>2, <4>1
      <4>3. \A w \in Workers : ~OnTask(w, t)
        BY <1>2, <3>1 DEF Handlers
      <4>4. Queued(t)'
        BY <2>3, <4>1, <4>2, <4>3 DEF Queued, bull
      <4> QED BY <2>4, <3>3, <4>1, <4>2, <4>4 DEF SettledOK
    <3> QED BY <3>4, <3>5
  <2>7. NewlySettled(h)
    BY <1>1, <2>3, <2>6 DEF NewlySettled
  <2> QED BY <1>1, <1>2, <2>3, <2>4, <2>5, <2>7, SettledEnd
<1> QED BY <1>3, <1>4, <1>5 DEF StartStep

LEMMA ReadSettled ==
  ASSUME NEW h \in Handlers, TypeInv, Stopping, SettledInv,
         (h \in Procs /\ Info(h)) \/ (h \in Workers /\ (Late(h) \/ Find(h)))
  PROVE  SettledInv'
<1> USE DEF At
<1>1. PICK t : t = job[h].id
  OBVIOUS
<1>2. /\ job[h].pc \in {"info", "late", "find"} /\ UNCHANGED <<row, bull, settled>>
      /\ job[h] \in Jobs /\ t \in Tasks /\ ~job[h].boot /\ job[h].todo = {} /\ OnTask(h, t)
      /\ AloneOK(h) /\ job[h].pc \in TaskPcs
  BY <1>1 DEF Info, Late, Find, bull, past, TypeInv, JobsOK, JobOK, Stopping, JobsLinked, Linked,
              TaskPcs, SnapPcs, OnTask, SettledInv
<1>3. (\A u \in Tasks : BullKept(u)) /\ RowsKept(h) /\ NewlySettled(h)
  BY <1>2, RowsSame DEF BullKept, bull, NewlySettled
<1>4. (\A w \in Workers : OnTask(w, t) => OnTask(w, t)') => (Queued(t) => Queued(t)')
  BY <1>2, <1>3, QueuedKept DEF bull
<1>5. CASE Fail(h)
  <2>1. h \in Workers /\ t \in settled /\ row[t].status = "activated" /\ Queued(t) => Queued(t)'
    <3> SUFFICES ASSUME h \in Workers, row[t].status = "activated", Queued(t)
                 PROVE  Queued(t)'
      OBVIOUS
    <3>1. PICK s : s = <<t, row[t].cron>>
      OBVIOUS
    <3>2. Late(h)
      BY <1>1, <1>5 DEF Find, Info, Exists, Fail, IdleJob, TypeInv, JobsOK, Handlers
    <3>3. ~Goto(h, "find")
      BY <1>2, <1>5 DEF Goto, Fail, IdleJob, TypeInv, JobsOK, Jobs
    <3>4. s \in repeat /\ s \in Of(t)
      BY <3>1 DEF Queued, TypeInv, DataOK, Schedules, Of
    <3>5. s \notin due
      BY <1>1, <3>2, <3>3, <3>4 DEF Late
    <3>6. s \in queue
      BY <3>1, <3>5 DEF Queued
    <3> QED BY <1>2, <3>1, <3>4, <3>6 DEF Queued, bull
  <2> QED BY <1>1, <1>2, <1>3, <1>5, <2>1, SettledEnd DEF bull
<1>6. CASE Goto(h, "find")
  <2>1. \A w \in Workers : OnTask(w, t) => OnTask(w, t)'
    BY <1>2, <1>6 DEF Goto, OnTask, TypeInv, JobsOK, Jobs, Handlers, TaskPcs
  <2>2. "find" \in Pcs /\ "find" \notin SnapPcs /\ "find" \in TaskPcs
    BY DEF Pcs, SnapPcs, TaskPcs
  <2> QED BY <1>1, <1>2, <1>3, <1>4, <1>6, <2>1, <2>2, SettledGoto DEF bull
<1>7. ASSUME NEW then \in {"end", "add", "drop"}, NEW j,
             j = [job[h] EXCEPT !.pc = "exist", !.task = Snap(t), !.then = then],
             job' = [job EXCEPT ![h] = j], h \in Workers => then = job[h].then
      PROVE  SettledInv'
  <2>1. Snap(t) \in Snaps /\ Snap(t).cron = row[t].cron /\ Snap(t).opts = row[t].opts
    BY <1>2, SnapOK DEF TypeInv, Snap
  <2>2. /\ j.pc = "exist" /\ j.id = t /\ j.task = Snap(t) /\ j.then = then
        /\ j.boot = job[h].boot /\ j.todo = job[h].todo /\ j.alone = job[h].alone /\ j \in Jobs
    BY <1>1, <1>2, <1>7, <2>1 DEF Jobs, Pcs
  <2>3. job'[h] = j /\ \A g \in Handlers \ {h} : job'[g] = job[g]
    BY <1>7 DEF TypeInv, JobsOK
  <2>4. AloneOK(h)'
    <3> SUFFICES ASSUME job[h].alone PROVE AloneOK(h)'
      BY <2>2, <2>3 DEF AloneOK
    <3>1. \A o \in Handlers \ {h} : ~OnTask(o, t)' /\ ~Purging(o)'
      BY <1>1, <1>2, <2>3 DEF AloneOK, OnTask, Purging
    <3> QED BY <1>2, <2>1, <2>2, <2>3, <3>1 DEF AloneOK
  <2>5. \A w \in Workers : OnTask(w, t) => OnTask(w, t)'
    BY <2>2, <2>3 DEF OnTask, Handlers, TaskPcs
  <2>6. WorkerKeeps(h, j)
    <3> SUFFICES ASSUME NEW u \in settled, OnTask(h, u)
        PROVE  /\ j.pc \in SnapPcs => j.task.opts = row[u].opts
               /\ job[h].pc # "mark"
               /\ Queued(u) => Queued(u)'
      BY DEF WorkerKeeps
    <3>1. u = t
      BY <1>1 DEF OnTask
    <3> QED BY <1>2, <1>4, <2>1, <2>2, <2>5, <3>1
  <2>7. h \in Workers => j.then = "end" /\ ~j.boot /\ j.pc # "info"
    BY <1>7, <2>2 DEF SettledInv, WorkerOK
  <2> QED BY <1>1, <1>2, <1>3, <1>7, <2>2, <2>4, <2>6, <2>7, SettledStep DEF bull
<1>8. CASE h \in Procs /\ Info(h) /\ ~Fail(h)
  <2> DEFINE then == IF row[t].status = "activated" THEN "add" ELSE "end"
             j == [job[h] EXCEPT !.pc = "exist", !.task = Snap(t), !.then = then]
  <2>1. job' = [job EXCEPT ![h] = j] /\ then \in {"end", "add", "drop"} /\ h \notin Workers
    BY <1>1, <1>8, TaskAssumption DEF Info, TypeInv, JobsOK
  <2> QED BY <2>1, <1>7
<1>9. CASE Find(h) /\ ~Fail(h)
  <2> DEFINE then == job[h].then
             j == [job[h] EXCEPT !.pc = "exist", !.task = Snap(t), !.then = then]
  <2>1. job' = [job EXCEPT ![h] = j] /\ then \in {"end", "add", "drop"}
    BY <1>1, <1>2, <1>9 DEF Find, TypeInv, JobsOK, Jobs
  <2> QED BY <2>1, <1>7
<1> QED BY <1>5, <1>6, <1>8, <1>9 DEF Late

\* initTask between two tasks.
LEMMA BootStepSettled ==
  ASSUME NEW p \in Procs, TypeInv, Stopping, SettledInv, BootStep(p)
  PROVE  SettledInv'
<1> USE DEF Handlers, At
<1>1. /\ job[p].pc \in BootPcs /\ job[p].boot /\ job[p] \in Jobs /\ job[p].pc \notin TaskPcs
      /\ UNCHANGED <<row, repeat, due, run>> /\ p \notin Workers /\ AloneOK(p)
      /\ \A t : ~OnTask(p, t)
  BY TaskAssumption DEF BootStep, Purge, Load, BootNext, BootPcs, TaskPcs, bull, TypeInv, JobsOK,
                        JobOK, SettledInv, OnTask
<1>2. RowsKept(p) /\ (~Purge(p) => \A t \in Tasks : BullKept(t))
  BY <1>1, RowsSame DEF BootStep, Load, BootNext, bull, BullKept
<1>3. CASE Purge(p)
  <2>1. Purging(p) /\ UNCHANGED settled /\ job' = [job EXCEPT ![p].pc = "load"]
    BY <1>1, <1>3 DEF Purge, Purging, Goto, past
  <2>2. settled = {} /\ \A h \in Handlers \ {p} : job[h].alone => job[h].pc \notin TaskPcs
    BY <2>1 DEF SettledInv, AloneOK
  <2>3. /\ job'[p].pc = "load" /\ job'[p].todo = job[p].todo
        /\ \A h \in Handlers \ {p} : job'[h] = job[h]
    BY <1>1, <2>1 DEF TypeInv, JobsOK, Jobs
  <2>4. \A h \in Handlers \ {p} : AloneOK(h)'
    BY <1>1, <2>2, <2>3 DEF SettledInv, AloneOK, TaskPcs, SnapPcs
  <2>5. job'[p].alone = job[p].alone
    BY <1>1, <2>1 DEF TypeInv, JobsOK, Jobs
  <2>6. AloneOK(p)'
    BY <1>1, <2>3, <2>5 DEF AloneOK, TaskPcs, SnapPcs
  <2>7. \A w \in Workers : WorkerOK(w)'
    BY <1>1, <2>3 DEF SettledInv, WorkerOK
  <2> QED BY <2>1, <2>2, <2>4, <2>6, <2>7 DEF SettledInv
<1>4. CASE Load(p)
  <2> DEFINE S == {Snap(t) : t \in {u \in Tasks : row[u].status = "activated"}}
             j == [job[p] EXCEPT !.pc = "next", !.todo = S]
  <2>1. S \in SUBSET Snaps /\ \A s \in S : s.cron = row[s.id].cron
    BY SnapOK DEF TypeInv, Snap
  <2>2. job' = [job EXCEPT ![p] = j] /\ UNCHANGED settled
    BY <1>4 DEF Load, past, TypeInv, JobsOK
  <2> HIDE DEF S
  <2>3. j \in Jobs /\ j.pc = "next" /\ j.todo = S /\ job'[p] = j
    BY <1>1, <2>1, <2>2 DEF Jobs, Pcs, TypeInv, JobsOK
  <2> HIDE DEF j
  <2>4. AloneOK(p)'
    BY <1>1, <2>1, <2>3 DEF AloneOK, TaskPcs, SnapPcs
  <2>5. NewlySettled(p) /\ WorkerKeeps(p, j) /\ ~Purge(p)
    BY <1>1, <1>4, <2>2 DEF NewlySettled, WorkerKeeps, Load, Purge
  <2> QED BY <1>1, <1>2, <2>2, <2>3, <2>4, <2>5, SettledStep DEF TaskPcs
<1>5. CASE BootNext(p) /\ Fail(p) /\ UNCHANGED past
  <2>1. NewlySettled(p) /\ ~Purge(p)
    BY <1>5 DEF NewlySettled, past, BootNext, Purge
  <2> QED BY <1>1, <1>2, <1>5, <2>1, SettledEnd
<1>6. ASSUME NEW s \in job[p].todo, BootNext(p),
             Begin(p, [job[p] EXCEPT !.pc = "exist", !.id = s.id, !.task = s,
                                     !.then = "add", !.todo = @ \ {s}])
      PROVE  SettledInv'
  <2> DEFINE S == job[p].todo \ {s}
             j == [job[p] EXCEPT !.pc = "exist", !.id = s.id, !.task = s,
                                 !.then = "add", !.todo = S]
  <2>1. s \in Snaps /\ s.id \in Tasks /\ S \in SUBSET Snaps
    BY <1>1 DEF Jobs, Snaps
  <2>2. Begin(p, j) /\ UNCHANGED bull
    BY <1>1, <1>6 DEF Jobs, BootNext
  <2>3. S \subseteq job[p].todo
    OBVIOUS
  <2> HIDE DEF S
  <2>4. /\ j \in Jobs /\ j.pc = "exist" /\ j.id = s.id /\ j.task = s /\ j.then = "add"
        /\ j.boot /\ j.todo = S /\ j.alone = job[p].alone
    BY <1>1, <2>1 DEF Jobs, Pcs
  <2> HIDE DEF j
  <2>5. j.alone => j.task.cron = row'[j.id].cron /\ \A x \in j.todo : x.cron = row'[x.id].cron
    BY <1>1, <2>3, <2>4 DEF AloneOK
  <2> QED BY <1>1, <2>1, <2>2, <2>4, <2>5, SettledBegin DEF bull
<1> QED BY <1>3, <1>4, <1>5, <1>6 DEF BootStep, BootNext

\* An instance starts: nothing is settled, and nobody is alone but initTask.
LEMMA BootSettled ==
  ASSUME NEW p \in Procs, TypeInv, Stopping, SettledInv, Boot(p)
  PROVE  SettledInv'
<1> USE DEF Handlers
<1> DEFINE a == \A o \in Handlers : Idle(o)
           j == [IdleJob EXCEPT !.pc = "purge", !.boot = TRUE, !.alone = a]
<1>1. \A h \in Handlers :
        job'[h] = IF h = p THEN j ELSE [job[h] EXCEPT !.alone = FALSE, !.calm = FALSE]
  BY DEF Boot
<1>2. settled' = {} /\ p \notin Workers
  BY TaskAssumption DEF Boot
<1>3. j.pc = "purge" /\ j.todo = {}
  BY DEF IdleJob
<1> HIDE DEF a, j
<1>4. ASSUME NEW h \in Handlers \ {p}
      PROVE  Works(job'[h], job[h]) /\ ~job'[h].alone
  <2>1. job[h] \in Jobs /\ job'[h] = [job[h] EXCEPT !.alone = FALSE, !.calm = FALSE]
    BY <1>1 DEF TypeInv, JobsOK
  <2> QED BY <2>1 DEF Jobs, Works
<1>5. \A h \in Handlers : AloneOK(h)'
  BY <1>1, <1>3, <1>4 DEF AloneOK, TaskPcs, SnapPcs
<1>6. \A w \in Workers : WorkerOK(w)'
  BY <1>2, <1>4 DEF SettledInv, WorkerOK, Works
<1> QED BY <1>2, <1>5, <1>6 DEF SettledInv

LEMMA ArriveSettled ==
  ASSUME NEW p \in Procs, TypeInv, Stopping, SettledInv, Arrive(p)
  PROVE  SettledInv'
<1> USE DEF Handlers
<1>0. p \notin Workers
  BY TaskAssumption
<1>1. ASSUME NEW t \in Tasks, NEW then \in {"add", "end", "drop"}, Call(p, t, then)
      PROVE  SettledInv'
  <2> DEFINE j == [IdleJob EXCEPT !.pc = "exist", !.id = t, !.task = Snap(t), !.then = then]
  <2>1. Snap(t) \in Snaps /\ Snap(t).cron = row[t].cron
    BY SnapOK DEF TypeInv, Snap
  <2>2. /\ j \in Jobs /\ j.pc = "exist" /\ j.id = t /\ j.task = Snap(t)
        /\ ~j.boot /\ j.todo = {}
    BY <2>1 DEF IdleJob, Jobs, Pcs
  <2>3. Begin(p, j) /\ UNCHANGED <<row, bull>> /\ job[p].pc \notin TaskPcs
    BY <1>1 DEF Call, Idle, At, TaskPcs
  <2> HIDE DEF j
  <2> QED BY <1>0, <2>1, <2>2, <2>3, SettledBegin DEF bull
<1>2. ASSUME NEW t \in Tasks, NEW c \in Kinds, NEW s \in {"activated", "disabled"},
             Create(p, t, c, s)
      PROVE  SettledInv'
  <2> DEFINE snap == [id |-> t, cron |-> c, opts |-> None]
             r == [status |-> s, cron |-> c, opts |-> None]
             then == IF s = "activated" THEN "add" ELSE "end"
             j == [IdleJob EXCEPT !.pc = "exist", !.id = t, !.task = snap, !.then = then]
  <2>1. /\ row' = [row EXCEPT ![t] = r] /\ Begin(p, j) /\ UNCHANGED bull
        /\ job[p].pc \notin TaskPcs
    BY <1>2 DEF Create, Idle, At, TaskPcs
  <2>2. snap \in Snaps /\ snap.cron = c /\ r.cron = c /\ then \in {"end", "add", "drop"}
    BY DEF Snaps, Kinds
  <2> HIDE DEF snap, r, then
  <2>3. /\ j \in Jobs /\ j.pc = "exist" /\ j.id = t /\ j.task = snap
        /\ ~j.boot /\ j.todo = {}
    BY <2>2 DEF IdleJob, Jobs, Pcs
  <2> HIDE DEF j
  <2>4. row'[t] = r /\ \A u \in Tasks \ {t} : row'[u] = row[u]
    BY <2>1 DEF TypeInv, DataOK
  <2> QED BY <1>0, <2>1, <2>2, <2>3, <2>4, SettledBegin DEF bull
<1>3. ASSUME NEW t \in Tasks, NEW c \in Kinds, NEW s \in {"activated", "disabled"},
             Update(p, t, c, s)
      PROVE  SettledInv'
  <2> DEFINE j == [IdleJob EXCEPT !.pc = "info", !.id = t]
  <2>1. /\ \A u \in Tasks \ {t} : row'[u] = row[u]
        /\ Begin(p, j) /\ UNCHANGED bull /\ job[p].pc \notin TaskPcs
    BY <1>3 DEF Update, Idle, At, TaskPcs, TypeInv, DataOK
  <2>2. j \in Jobs /\ j.pc = "info" /\ j.id = t /\ ~j.boot /\ j.todo = {}
    BY DEF IdleJob, Jobs, Pcs
  <2> HIDE DEF j
  <2> QED BY <1>0, <2>1, <2>2, SettledBegin DEF bull
<1> QED BY <1>1, <1>2, <1>3, BootSettled DEF Arrive, StartCall, StopCall, DeleteCall

\* Time and the queue.
LEMMA QueueSettled ==
  ASSUME TypeInv, Stopping, SettledInv,
         \/ \E s \in Schedules : Tick(s)
         \/ \E t \in Tasks : Once(t)
         \/ \E w \in Workers, s \in Schedules : Take(w, s)
         \/ \E w \in Workers, t \in Tasks : TakeOnce(w, t)
         \/ LockExpires
  PROVE  SettledInv'
<1>1. UNCHANGED <<row, job, settled, repeat>>
  BY DEF Tick, Once, Take, TakeOnce, LockExpires, bull, past
<1>2. ASSUME NEW t \in Tasks, Queued(t)
      PROVE  Queued(t)'
  <2>1. PICK s : s = <<t, row[t].cron>>
    OBVIOUS
  <2>2. \A w \in Workers : OnTask(w, t) => OnTask(w, t)'
    BY <1>1 DEF OnTask
  <2>3. /\ s \in repeat /\ s[1] = t
        /\ \/ s \in queue
           \/ t \in Bounded /\ s \in due /\ \E w \in Workers : run[w] = s \/ OnTask(w, t)
    BY <1>2, <2>1 DEF Queued
  <2> SUFFICES \/ s \in queue'
               \/ t \in Bounded /\ s \in due' /\ \E w \in Workers : run'[w] = s \/ OnTask(w, t)
    BY <1>1, <2>1, <2>2, <2>3 DEF Queued
  <2>4. CASE \E x \in Schedules : Tick(x)
    BY <2>3, <2>4 DEF Tick
  <2>5. CASE (\E u \in Tasks : Once(u)) \/ LockExpires
    BY <2>3, <2>5 DEF Once, LockExpires, bull
  <2>6. ASSUME NEW w \in Workers, NEW x \in Schedules, Take(w, x)
        PROVE  \/ s \in queue'
               \/ t \in Bounded /\ s \in due' /\ \E v \in Workers : run'[v] = s \/ OnTask(v, t)
    <3>1. /\ run[w] = None /\ x \in queue \cap due /\ run'[w] = x
          /\ \A v \in Workers \ {w} : run'[v] = run[v]
      BY <2>6 DEF Take, TypeInv, DataOK
    <3>2. (due' = due \ {x} /\ UNCHANGED queue)
          \/ ((x \in repeat => x[1] \in Bounded) /\ queue' = queue \ {x} /\ UNCHANGED due)
      BY <2>6 DEF Take
    <3>3. s # None
      BY <2>3, TaskAssumption DEF TypeInv, DataOK, Schedules
    <3>4. CASE s = x
      BY <2>3, <3>1, <3>2, <3>4
    <3>5. CASE s # x
      <4>1. (s \in queue => s \in queue') /\ (s \in due => s \in due')
        BY <3>2, <3>5
      <4>2. \A v \in Workers : run[v] = s => run'[v] = s
        BY <3>1, <3>3
      <4> QED BY <2>3, <4>1, <4>2
    <3> QED BY <3>4, <3>5
  <2>7. ASSUME NEW w \in Workers, NEW u \in Tasks, TakeOnce(w, u)
        PROVE  \/ s \in queue'
               \/ t \in Bounded /\ s \in due' /\ \E v \in Workers : run'[v] = s \/ OnTask(v, t)
    <3>1. /\ run[w] = None /\ UNCHANGED <<queue, due>>
          /\ \A v \in Workers \ {w} : run'[v] = run[v]
      BY <2>7 DEF TakeOnce, TypeInv, DataOK
    <3>2. s # None
      BY <2>3, TaskAssumption DEF TypeInv, DataOK, Schedules
    <3>3. \A v \in Workers : run[v] = s => run'[v] = s
      BY <3>1, <3>2
    <3> QED BY <2>3, <3>1, <3>3
  <2> QED BY <2>4, <2>5, <2>6, <2>7
<1> QED BY <1>1, <1>2, SettledQuiet

LEMMA FinishSettled ==
  ASSUME NEW w \in Workers, TypeInv, Stopping, SettledInv, Finish(w)
  PROVE  SettledInv'
<1> DEFINE t == run[w][1]
           j == [IdleJob EXCEPT !.pc = "late", !.id = t]
<1>1. t \in Tasks /\ UNCHANGED <<row, repeat, due, queue>> /\ job[w].pc = "idle"
  BY DEF Finish, Idle, At, TypeInv, DataOK
<1>2. \A v \in Workers \ {w} : run'[v] = run[v]
  BY DEF Finish, TypeInv, DataOK
<1>3. \A s : run[w] = s => s[1] = t
  OBVIOUS
<1> HIDE DEF t
<1>4. CASE Exists(t)
  <2>1. Begin(w, j)
    BY <1>4 DEF Finish, t
  <2>2. j \in Jobs /\ j.pc = "late" /\ j.id = t /\ j.then = "end" /\ ~j.boot /\ j.todo = {}
    BY <1>1 DEF IdleJob, Jobs, Pcs
  <2> HIDE DEF j
  <2> QED BY <1>1, <1>2, <1>3, <2>1, <2>2, SettledBegin DEF Handlers, TaskPcs
<1>5. CASE ~Exists(t)
  <2>1. UNCHANGED <<row, job, settled, repeat, due, queue>>
    BY <1>1, <1>5 DEF Finish, past, t
  <2>2. ASSUME NEW u \in Tasks, Exists(u), Queued(u)
        PROVE  Queued(u)'
    <3>1. \A v \in Workers : run[v] = <<u, row[u].cron>> => run'[v] = run[v]
      BY <1>2, <1>3, <1>5, <2>2
    <3>2. (\E v \in Workers : run[v] = <<u, row[u].cron>> \/ OnTask(v, u)) =>
             \E v \in Workers : run'[v] = <<u, row[u].cron>> \/ OnTask(v, u)'
      BY <2>1, <3>1 DEF OnTask
    <3> QED BY <2>1, <2>2, <3>2 DEF Queued
  <2> QED BY <2>1, <2>2, SettledQuiet
<1> QED BY <1>4, <1>5

LEMMA AbortSettled ==
  ASSUME NEW h \in Handlers, TypeInv, Stopping, SettledInv, Abort(h)
  PROVE  SettledInv'
<1>1. /\ Fail(h) /\ UNCHANGED <<row, bull>> /\ settled' = settled \ {job[h].id}
  BY DEF Abort
<1>2. (\A t \in Tasks : BullKept(t)) /\ RowsKept(h) /\ NewlySettled(h)
  BY <1>1, RowsSame DEF BullKept, bull, NewlySettled
<1> QED BY <1>1, <1>2, SettledEnd DEF bull

LEMMA NextSettled == TypeInv /\ Stopping /\ SettledInv /\ [Next]_vars => SettledInv'
<1> SUFFICES ASSUME TypeInv, Stopping, SettledInv, [Next]_vars PROVE SettledInv'
  OBVIOUS
<1>1. ASSUME NEW p \in Procs, ProcStep(p) PROVE SettledInv'
  BY <1>1, StopSettled, StartSettled, BootStepSettled, ReadSettled DEF ProcStep, Step, Handlers
<1>2. ASSUME NEW w \in Workers, WorkerStep(w) PROVE SettledInv'
  BY <1>2, StopSettled, StartSettled, ReadSettled, FinishSettled, QueueSettled
     DEF WorkerStep, Step, Handlers
<1>3. CASE UNCHANGED vars
  <2>1. \A t \in Tasks : Queued(t) => Queued(t)'
    BY <1>3 DEF vars, bull, Queued, OnTask
  <2> QED BY <1>3, <2>1, SettledQuiet DEF vars, past
<1> QED BY <1>1, <1>2, <1>3, ArriveSettled, QueueSettled, AbortSettled DEF Next

\* ActivatedTasks: for any number of tasks, workers and handlers, an activated
\* task whose start no other handler overlapped is repeated by Bull with the
\* configuration in its row, and its next instance is queued.
THEOREM ActivatedTasks == Spec => []ActivatedIsScheduled
<1>1. SettledInv => ActivatedIsScheduled
  <2> SUFFICES ASSUME SettledInv, NEW t \in settled, ~Busy(t), row[t].status = "activated"
      PROVE  LET s == <<t, row[t].cron>>
             IN  /\ s \in repeat
                 /\ \/ s \in queue
                    \/ t \in Bounded /\ \E w \in Workers : run[w] = s
    BY DEF ActivatedIsScheduled
  <2>1. \A w \in Workers : ~OnTask(w, t)
    BY DEF Busy, OnTask, Handlers
  <2>2. Queued(t)
    BY <2>1 DEF SettledInv, SettledOK
  <2> QED BY <2>1, <2>2 DEF Queued
<1> QED BY <1>1, InitInv, NextInv, InitStops, NextStops, InitSettled, NextSettled, PTL DEF Spec

-----------------------------------------------------------------------------
\* Requests one at a time, none of which is cut off.  The workers go on beside them.
OneAtATime == (\A p, q \in Procs : p = q) /\ "crash" \notin Calls

\* What the handler of a request, with the record j, knows of its task and of those
\* that it has still to start: their configuration, and that they are there; and
\* from mark to save, which configurations of its task are left.
Holding(j, r, rp) ==
    /\ j.pc \in SnapPcs => j.task.opts = r[j.id].opts
    /\ j.pc \in SnapPcs /\ j.then = "add" => r[j.id].status \in {"activated", "disabled"}
    /\ j.pc \in {"mark", "add"} => \A c \in Crons : <<j.id, c>> \notin rp
    /\ j.pc = "save" => \A c \in Crons : <<j.id, c>> \in rp => c = j.task.cron
    /\ \A s \in j.todo : /\ s.opts = r[s.id].opts
                         /\ r[s.id].status \in {"activated", "disabled"}
                         /\ j.pc \in SnapPcs => s.id # j.id
    /\ \A s, x \in j.todo : s.id = x.id => s = x

\* A configuration that Bull repeats is the one in the row, or is about to be saved.
KnownInv ==
    /\ \A p \in Procs : Holding(job[p], row, repeat)
    /\ \A t \in Tasks : row[t].status = "unused" => row[t].opts = None
    /\ \A t \in Tasks, c \in Crons : <<t, c>> \in repeat =>
          row[t].opts = c \/ \E p \in Procs : job[p].id = t /\ job[p].pc = "save"

LEMMA InitKnown == Init => KnownInv
<1> SUFFICES ASSUME Init PROVE KnownInv
  OBVIOUS
<1>1. IdleJob.pc = "idle" /\ IdleJob.todo = {}
  BY DEF IdleJob
<1>2. \A p \in Procs : Holding(job[p], row, repeat)
  BY <1>1 DEF Init, Handlers, Holding, SnapPcs
<1>3. repeat = {} /\ \A t \in Tasks : row[t].opts = None
  BY DEF Init
<1> QED BY <1>2, <1>3 DEF KnownInv

\* Steps of workers and of the queue.
LEMMA KnownKept ==
  ASSUME TypeInv, KnownInv, repeat' \subseteq repeat,
         \A t \in Tasks : /\ row'[t].opts = row[t].opts
                          /\ Exists(t) => Exists(t)'
                          /\ row'[t].status = "unused" => row[t].status = "unused",
         \A p \in Procs : Works(job'[p], job[p])
  PROVE  KnownInv'
<1>1. ASSUME NEW p \in Procs PROVE Holding(job'[p], row', repeat')
  <2>1. Works(job'[p], job[p]) /\ Holding(job[p], row, repeat)
    BY DEF KnownInv
  <2>2. /\ job[p].pc \in SnapPcs => job[p].id \in Tasks
        /\ \A s \in job[p].todo : s.id \in Tasks
    BY DEF TypeInv, JobsOK, JobOK, SnapPcs, TaskPcs, Jobs, Snaps, Handlers
  <2>3. \A t \in Tasks : row[t].status \in {"activated", "disabled"} =>
                            row'[t].status \in {"activated", "disabled"}
    BY DEF Exists
  <2> QED BY <2>1, <2>2, <2>3 DEF Works, Holding, SnapPcs
<1>2. ASSUME NEW t \in Tasks, NEW c \in Crons, <<t, c>> \in repeat'
      PROVE  row'[t].opts = c \/ \E p \in Procs : job'[p].id = t /\ job'[p].pc = "save"
  BY <1>2 DEF KnownInv, Works
<1>3. ASSUME NEW t \in Tasks, row'[t].status = "unused" PROVE row'[t].opts = None
  BY <1>3 DEF KnownInv
<1> QED BY <1>1, <1>2, <1>3 DEF KnownInv

\* A step of the one request.
LEMMA KnownStep ==
  ASSUME OneAtATime, NEW p \in Procs, KnownInv, Holding(job'[p], row', repeat'),
         \A t \in Tasks : row'[t].status = "unused" => row'[t].opts = None,
         \A t \in Tasks, c \in Crons : <<t, c>> \in repeat' =>
             row'[t].opts = c \/ (job'[p].id = t /\ job'[p].pc = "save")
  PROVE  KnownInv'
  BY DEF OneAtATime, KnownInv

\* Where the request is not about to save, every configuration is the row's.
LEMMA AllKnown ==
  ASSUME OneAtATime, NEW p \in Procs, KnownInv, job[p].pc # "save",
         NEW t \in Tasks, NEW c \in Crons, <<t, c>> \in repeat
  PROVE  row[t].opts = c
  BY DEF OneAtATime, KnownInv

\* The tasks it has still to start are there, and rows not yet used know nothing.
LEMMA TodoKnown ==
  ASSUME NEW p \in Procs, TypeInv, KnownInv
  PROVE  /\ \A s \in job[p].todo : s.id \in Tasks /\ row[s.id].status \in {"activated", "disabled"}
         /\ \A t \in Tasks : row[t].status = "unused" => row[t].opts = None
<1>1. job[p] \in Jobs /\ Holding(job[p], row, repeat)
  BY DEF TypeInv, JobsOK, KnownInv, Handlers
<1>2. \A s \in job[p].todo : s.id \in Tasks
  BY <1>1 DEF Jobs, Snaps
<1> QED BY <1>1, <1>2 DEF Holding, KnownInv

\* It goes on to another call, and nothing but the status of its task changes.
LEMMA GotoKnown ==
  ASSUME OneAtATime, NEW p \in Procs, NEW l \in Pcs, TypeInv, Stopping, KnownInv,
         job[p].pc \in SnapPcs, l \in SnapPcs, Goto(p, l), repeat' \subseteq repeat,
         \/ UNCHANGED row
         \/ row' = [row EXCEPT ![job[p].id].status = IF Exists(job[p].id) THEN "disabled" ELSE @],
         job[p].pc # "save", l # "save",
         l \in {"mark", "add"} => \A c \in Crons : <<job[p].id, c>> \notin repeat'
  PROVE  KnownInv'
<1> USE DEF Handlers
<1>1. /\ job[p] \in Jobs /\ Holding(job[p], row, repeat) /\ job[p].id \in Tasks
      /\ \A s \in job[p].todo : s.id \in Tasks
  BY AtSnap DEF TypeInv, JobsOK, KnownInv, Jobs, Snaps
<1>2. /\ job'[p].pc = l /\ job'[p].id = job[p].id /\ job'[p].task = job[p].task
      /\ job'[p].then = job[p].then /\ job'[p].todo = job[p].todo
  BY <1>1 DEF Goto, TypeInv, JobsOK, Jobs
<1>3. \A t \in Tasks : /\ row'[t].opts = row[t].opts
                       /\ row'[t].status = "unused" => row[t].status = "unused"
                       /\ row[t].status \in {"activated", "disabled"} =>
                             row'[t].status \in {"activated", "disabled"}
  BY <1>1 DEF TypeInv, DataOK, Rows, Exists
<1>4. Holding(job'[p], row', repeat')
  BY SMTT(60), <1>1, <1>2, <1>3 DEF Holding
<1>5. \A t \in Tasks, c \in Crons : <<t, c>> \in repeat' => row'[t].opts = c
  BY <1>3, AllKnown
<1>6. \A t \in Tasks : row'[t].status = "unused" => row'[t].opts = None
  BY <1>3 DEF KnownInv
<1> QED BY <1>4, <1>5, <1>6, KnownStep

\* It ends, or goes back to the list of initTask.
LEMMA EndKnown ==
  ASSUME OneAtATime, NEW p \in Procs, TypeInv, Stopping, KnownInv, Fail(p) \/ Return(p),
         UNCHANGED repeat,
         \A s \in job[p].todo : row'[s.id].opts = row[s.id].opts
                                /\ row'[s.id].status \in {"activated", "disabled"},
         \A t \in Tasks : row'[t].status = "unused" => row'[t].opts = None,
         \A t \in Tasks, c \in Crons : <<t, c>> \in repeat => row'[t].opts = c
  PROVE  KnownInv'
<1>1. PICK j \in Jobs : job' = [job EXCEPT ![p] = j] /\ j.pc \in {"idle", "next"} /\ j.todo \subseteq job[p].todo
  BY EndRecord DEF Handlers
<1>2. job'[p] = j
  BY <1>1 DEF TypeInv, JobsOK, Handlers
<1>3. Holding(j, row', repeat')
  BY <1>1 DEF KnownInv, Holding, SnapPcs
<1> QED BY <1>2, <1>3, KnownStep

LEMMA StopKnown ==
  ASSUME OneAtATime, NEW p \in Procs, TypeInv, Stopping, KnownInv, StopStep(p) PROVE KnownInv'
<1> USE DEF At
<1>1. PICK t : t = job[p].id
  OBVIOUS
<1>2. /\ job[p].pc \in {"exist", "remove", "mark"} /\ job[p].pc \in SnapPcs
      /\ job[p].task.id = t /\ t \in Tasks /\ Holding(job[p], row, repeat)
      /\ \A s \in job[p].todo : s.id \in Tasks
  <2>1. job[p].pc \in {"exist", "remove", "mark"} /\ job[p].pc \in SnapPcs
    BY DEF StopStep, Exist, Remove, Mark, SnapPcs
  <2>2. p \in Handlers /\ job[p] \in Jobs /\ Holding(job[p], row, repeat)
    BY DEF Handlers, TypeInv, JobsOK, KnownInv
  <2>3. job[p].task.id = t /\ t \in Tasks
    BY <1>1, <2>1, <2>2, AtSnap
  <2>4. \A s \in job[p].todo : s.id \in Tasks
    BY <2>2 DEF Jobs, Snaps
  <2> QED BY <2>1, <2>2, <2>3, <2>4
<1>3. CASE Exist(p)
  <2>1. UNCHANGED <<row, repeat>>
    BY <1>3 DEF Exist, bull
  <2>2. CASE repeat \cap Of(t) = {}
    <3>1. Goto(p, "mark") /\ "mark" \in Pcs /\ "mark" \in SnapPcs
      BY <1>2, <1>3, <2>2 DEF Exist, Pcs, SnapPcs
    <3>2. \A c \in Crons : <<t, c>> \notin repeat
      BY <2>2 DEF Of
    <3> QED BY <1>1, <1>2, <2>1, <3>1, <3>2, GotoKnown
  <2>3. CASE repeat \cap Of(t) # {}
    <3>1. Goto(p, "remove") /\ "remove" \in Pcs /\ "remove" \in SnapPcs
      BY <1>2, <1>3, <2>3 DEF Exist, Pcs, SnapPcs
    <3> QED BY <1>1, <1>2, <2>1, <3>1, GotoKnown
  <2> QED BY <2>2, <2>3
<1>4. CASE Remove(p)
  <2>1. /\ job[p].pc = "remove" /\ UNCHANGED row
        /\ repeat' = repeat \ {<<t, job[p].task.opts>>}
        /\ IF job[p].task.opts = None THEN Fail(p) ELSE Goto(p, "mark")
    BY <1>2, <1>4 DEF Remove
  <2>2. job[p].task.opts = row[t].opts
    BY <1>1, <1>2 DEF Holding
  <2>3. \A c \in Crons : <<t, c>> \notin repeat'
    BY <1>2, <2>1, <2>2, AllKnown
  <2>4. CASE job[p].task.opts = None
    <3>1. repeat' = repeat
      BY <2>1, <2>4, TaskAssumption DEF TypeInv, DataOK, Schedules
    <3>2. \A s \in job[p].todo : row[s.id].status \in {"activated", "disabled"}
      BY TodoKnown
    <3>3. \A u \in Tasks : row[u].status = "unused" => row[u].opts = None
      BY TodoKnown
    <3>4. \A u \in Tasks, c \in Crons : <<u, c>> \in repeat => row[u].opts = c
      BY <3>1, <2>1, AllKnown
    <3> QED BY <2>1, <2>4, <3>1, <3>2, <3>3, <3>4, EndKnown
  <2>5. CASE job[p].task.opts # None
    BY <1>1, <1>2, <2>1, <2>3, <2>5, GotoKnown DEF Pcs, SnapPcs
  <2> QED BY <2>4, <2>5
<1>5. CASE Mark(p)
  <2>1. /\ job[p].pc = "mark" /\ UNCHANGED repeat
        /\ row' = [row EXCEPT ![t].status = IF Exists(t) THEN "disabled" ELSE @]
        /\ Return(p) \/ Goto(p, "add") \/ Goto(p, "drop")
    BY <1>2, <1>5 DEF Mark, bull
  <2>2. \A c \in Crons : <<t, c>> \notin repeat
    BY <1>1, <1>2, <2>1 DEF Holding
  <2>3. \A u \in Tasks : /\ row'[u].opts = row[u].opts
                         /\ row'[u].status = "unused" => row[u].status = "unused"
                         /\ row[u].status \in {"activated", "disabled"} =>
                               row'[u].status \in {"activated", "disabled"}
    BY <1>2, <2>1 DEF TypeInv, DataOK, Rows, Exists
  <2>4. CASE Return(p)
    <3>1. \A s \in job[p].todo : /\ row'[s.id].opts = row[s.id].opts
                                 /\ row'[s.id].status \in {"activated", "disabled"}
      BY <2>3, TodoKnown
    <3>2. \A u \in Tasks : row'[u].status = "unused" => row'[u].opts = None
      BY <2>3, TodoKnown
    <3>3. \A u \in Tasks, c \in Crons : <<u, c>> \in repeat => row'[u].opts = c
      BY <2>1, <2>3, AllKnown
    <3> QED BY <2>1, <2>4, <3>1, <3>2, <3>3, EndKnown
  <2>5. ASSUME NEW l \in {"add", "drop"}, Goto(p, l) PROVE KnownInv'
    BY <1>1, <1>2, <2>1, <2>2, <2>5, GotoKnown DEF Pcs, SnapPcs
  <2> QED BY <2>1, <2>4, <2>5
<1> QED BY <1>3, <1>4, <1>5 DEF StopStep

LEMMA StartKnown ==
  ASSUME OneAtATime, NEW p \in Procs, TypeInv, Stopping, KnownInv, StartStep(p) \/ Drop(p)
  PROVE  KnownInv'
<1> USE DEF At
<1>1. PICK t : t = job[p].id
  OBVIOUS
<1>2. /\ job[p].pc \in {"add", "save", "drop"} /\ job[p].pc \in SnapPcs
      /\ job[p].task.id = t /\ t \in Tasks /\ Holding(job[p], row, repeat) /\ job[p] \in Jobs
      /\ \A s \in job[p].todo : s.id \in Tasks
      /\ job[p].pc \in {"add", "save"} => job[p].then = "add" /\ Exists(t) /\ job[p].task.cron \in Crons
      /\ job[p].pc = "drop" => job[p].todo = {}
  <2>1. job[p].pc \in {"add", "save", "drop"} /\ job[p].pc \in SnapPcs
    BY DEF StartStep, Add, AddRefused, Save, Drop, SnapPcs
  <2>2. p \in Handlers /\ job[p] \in Jobs /\ JobOK(job[p]) /\ Linked(job[p]) /\ Holding(job[p], row, repeat)
    BY DEF Handlers, TypeInv, JobsOK, Stopping, JobsLinked, KnownInv
  <2>3. job[p].task \in Snaps /\ job[p].task.id = t /\ t \in Tasks
    BY <1>1, <2>1, <2>2, AtSnap
  <2>4. \A s \in job[p].todo : s.id \in Tasks
    BY <2>2 DEF Jobs, Snaps
  <2>5. /\ job[p].pc \in {"add", "save"} => job[p].then = "add"
        /\ job[p].pc = "drop" => job[p].todo = {}
    <3>1. job[p].pc \in TaskPcs
      BY <2>1 DEF SnapPcs, TaskPcs
    <3>2. job[p].pc = "drop" => ~job[p].boot
      BY <2>2, <3>1 DEF Linked
    <3> QED BY <2>2, <3>2 DEF Linked
  <2>6. job[p].pc \in {"add", "save"} => job[p].task.cron \in Crons
    BY <2>2 DEF JobOK
  <2>7. job[p].pc \in {"add", "save"} => Exists(t)
    BY <1>1, <2>1, <2>2, <2>3, <2>5 DEF Holding, Exists
  <2> QED BY <2>1, <2>2, <2>3, <2>4, <2>5, <2>6, <2>7
<1>3. CASE Add(p)
  <2>1. PICK c : c = job[p].task.cron
    OBVIOUS
  <2>2. job[p].pc = "add" /\ UNCHANGED row /\ Goto(p, "save") /\ repeat' = repeat \cup {<<t, c>>}
    BY <1>2, <1>3, <2>1 DEF Add
  <2>3. /\ job'[p].pc = "save" /\ job'[p].id = t /\ job'[p].task = job[p].task
        /\ job'[p].then = job[p].then /\ job'[p].todo = job[p].todo
    BY <1>1, <1>2, <2>2 DEF Goto, TypeInv, JobsOK, Jobs, Handlers
  <2>4. \A x \in Crons : <<t, x>> \notin repeat
    BY <1>1, <1>2, <2>2 DEF Holding
  <2>5. Holding(job'[p], row', repeat')
    <3>1. \A x \in Crons : <<t, x>> \in repeat' => x = c
      BY <2>2, <2>4
    <3> QED BY <1>1, <1>2, <2>1, <2>2, <2>3, <3>1 DEF Holding
  <2>6. \A u \in Tasks, x \in Crons : <<u, x>> \in repeat' => row'[u].opts = x \/ u = t
    BY <2>2, AllKnown
  <2> QED BY <2>2, <2>3, <2>5, <2>6, KnownStep DEF KnownInv
<1>4. CASE AddRefused(p) \/ Drop(p)
  <2>1. /\ Fail(p) /\ UNCHANGED repeat /\ job[p].pc # "save"
        /\ \/ job[p].pc = "add" /\ row' = [row EXCEPT ![t].status = IF Exists(t) THEN "disabled" ELSE @]
           \/ job[p].pc = "drop"
              /\ row' = [row EXCEPT ![t].status = IF Exists(t) /\ t \notin logs THEN "deleted" ELSE @]
    BY <1>2, <1>4 DEF AddRefused, Drop, bull
  <2>2. \A u \in Tasks : /\ row'[u].opts = row[u].opts
                         /\ row'[u].status = "unused" => row[u].status = "unused"
                         /\ u # t => row'[u] = row[u]
    BY <1>2, <2>1 DEF TypeInv, DataOK, Rows, Exists
  <2>3. \A s \in job[p].todo : s.id # t
    BY <1>1, <1>2 DEF Holding
  <2>4. \A s \in job[p].todo : /\ row'[s.id].opts = row[s.id].opts
                               /\ row'[s.id].status \in {"activated", "disabled"}
    BY <2>2, <2>3, TodoKnown
  <2>5. \A u \in Tasks : row'[u].status = "unused" => row'[u].opts = None
    BY <2>2, TodoKnown
  <2>6. \A u \in Tasks, c \in Crons : <<u, c>> \in repeat => row'[u].opts = c
    BY <2>1, <2>2, AllKnown
  <2> QED BY <2>1, <2>4, <2>5, <2>6, EndKnown
<1>5. CASE Save(p)
  <2>1. PICK c : c = job[p].task.cron
    OBVIOUS
  <2>2. PICK r : r = [status |-> "activated", cron |-> row[t].cron, opts |-> c]
    OBVIOUS
  <2>3. job[p].pc = "save" /\ UNCHANGED repeat /\ Return(p) /\ row' = [row EXCEPT ![t] = r]
    BY <1>2, <1>5, <2>1, <2>2 DEF Save, bull
  <2>4. /\ row'[t] = r /\ r.opts = c /\ r.status = "activated"
        /\ \A u \in Tasks \ {t} : row'[u] = row[u]
    BY <1>2, <2>2, <2>3 DEF TypeInv, DataOK
  <2>5. \A s \in job[p].todo : s.id # t
    BY <1>1, <1>2 DEF Holding
  <2>6. \A u \in Tasks, x \in Crons : <<u, x>> \in repeat => row'[u].opts = x
    <3> SUFFICES ASSUME NEW u \in Tasks, NEW x \in Crons, <<u, x>> \in repeat PROVE row'[u].opts = x
      OBVIOUS
    <3>1. CASE u = t
      BY <1>1, <1>2, <2>1, <2>3, <2>4, <3>1 DEF Holding
    <3>2. CASE u # t
      BY <1>1, <2>4, <3>2 DEF OneAtATime, KnownInv
    <3> QED BY <3>1, <3>2
  <2>7. \A s \in job[p].todo : /\ row'[s.id].opts = row[s.id].opts
                               /\ row'[s.id].status \in {"activated", "disabled"}
    BY <2>4, <2>5, TodoKnown
  <2>8. \A u \in Tasks : row'[u].status = "unused" => row'[u].opts = None
    BY <2>4, TodoKnown
  <2> QED BY <2>3, <2>6, <2>7, <2>8, EndKnown
<1> QED BY <1>3, <1>4, <1>5 DEF StartStep

\* The row is read again, and initTask between two tasks.
LEMMA ReadKnown ==
  ASSUME OneAtATime, NEW p \in Procs, TypeInv, Stopping, KnownInv, Info(p) \/ BootStep(p)
  PROVE  KnownInv'
<1> USE DEF At
<1>1. /\ job[p].pc \in {"info", "purge", "load", "next"} /\ UNCHANGED <<row, repeat>>
      /\ job[p] \in Jobs /\ Holding(job[p], row, repeat)
      /\ job[p].pc = "info" => job[p].todo = {} /\ job[p].id \in Tasks
      /\ \A s \in job[p].todo : s \in Snaps /\ s.id \in Tasks
  <2>1. job[p] \in Jobs /\ JobOK(job[p]) /\ Linked(job[p]) /\ Holding(job[p], row, repeat)
    BY DEF TypeInv, JobsOK, Handlers, KnownInv, Stopping, JobsLinked
  <2>2. job[p].pc \in {"info", "purge", "load", "next"} /\ UNCHANGED <<row, repeat>>
    BY DEF Info, BootStep, Purge, Load, BootNext, bull
  <2>3. job[p].pc = "info" => job[p].todo = {} /\ job[p].id \in Tasks
    BY <2>1 DEF JobOK, Linked, TaskPcs, SnapPcs
  <2>4. \A s \in job[p].todo : s \in Snaps /\ s.id \in Tasks
    BY <2>1 DEF Jobs, Snaps
  <2> QED BY <2>1, <2>2, <2>3, <2>4
<1>2. \A t \in Tasks, c \in Crons : <<t, c>> \in repeat => row[t].opts = c
  BY <1>1, AllKnown
<1>3. CASE Fail(p)
  <2>1. \A s \in job[p].todo : row[s.id].status \in {"activated", "disabled"}
    BY TodoKnown
  <2>2. \A u \in Tasks : row[u].status = "unused" => row[u].opts = None
    BY TodoKnown
  <2> QED BY <1>1, <1>2, <1>3, <2>1, <2>2, EndKnown
<1>4. ASSUME NEW j \in Jobs, job'[p] = j, Holding(j, row, repeat) PROVE KnownInv'
  BY <1>1, <1>2, <1>4, KnownStep DEF KnownInv
<1>5. CASE Info(p) /\ ~Fail(p)
  <2> DEFINE t == job[p].id
             then == IF row[t].status = "activated" THEN "add" ELSE "end"
             j == [job[p] EXCEPT !.pc = "exist", !.task = Snap(t), !.then = then]
  <2>1. Snap(t) \in Snaps /\ Snap(t).opts = row[t].opts /\ t \in Tasks /\ Exists(t)
    BY <1>1, <1>5, SnapOK DEF TypeInv, Snap, Info
  <2>2. /\ j \in Jobs /\ j.pc = "exist" /\ j.id = t /\ j.task = Snap(t) /\ j.todo = {}
    BY <1>1, <1>5, <2>1 DEF Jobs, Pcs, Info
  <2>3. job' = [job EXCEPT ![p] = j]
    BY <1>5 DEF Info, TypeInv, JobsOK, Handlers
  <2> HIDE DEF j
  <2>4. job'[p] = j /\ Holding(j, row, repeat)
    BY <2>1, <2>2, <2>3 DEF Holding, Exists, TypeInv, JobsOK, Handlers
  <2> QED BY <1>4, <2>2, <2>4
<1>6. CASE Purge(p)
  <2> DEFINE j == [job[p] EXCEPT !.pc = "load"]
  <2>1. j \in Jobs /\ j.pc = "load" /\ j.todo = job[p].todo /\ job' = [job EXCEPT ![p] = j]
    BY <1>1, <1>6 DEF Purge, Goto, Jobs, Pcs, TypeInv, JobsOK, Handlers
  <2> HIDE DEF j
  <2>2. job'[p] = j /\ Holding(j, row, repeat)
    BY <1>1, <2>1 DEF Holding, SnapPcs, TypeInv, JobsOK, Handlers
  <2> QED BY <1>4, <2>1, <2>2
<1>7. CASE Load(p)
  <2> DEFINE S == {Snap(t) : t \in {u \in Tasks : row[u].status = "activated"}}
             j == [job[p] EXCEPT !.pc = "next", !.todo = S]
  <2>1. /\ S \in SUBSET Snaps /\ \A s \in S : s.opts = row[s.id].opts /\ row[s.id].status = "activated"
        /\ \A s, x \in S : s.id = x.id => s = x
    BY SnapOK DEF TypeInv, Snap
  <2>2. job' = [job EXCEPT ![p] = j]
    BY <1>7 DEF Load, TypeInv, JobsOK, Handlers
  <2> HIDE DEF S
  <2>3. j \in Jobs /\ j.pc = "next" /\ j.todo = S /\ job'[p] = j
    BY <1>1, <2>1, <2>2 DEF Jobs, Pcs, TypeInv, JobsOK, Handlers
  <2> HIDE DEF j
  <2>4. Holding(j, row, repeat)
    BY <2>1, <2>3 DEF Holding, SnapPcs
  <2> QED BY <1>4, <2>3, <2>4
<1>8. ASSUME NEW s \in job[p].todo, BootNext(p),
             Begin(p, [job[p] EXCEPT !.pc = "exist", !.id = s.id, !.task = s,
                                     !.then = "add", !.todo = @ \ {s}])
      PROVE  KnownInv'
  <2> DEFINE S == job[p].todo \ {s}
             j == [job[p] EXCEPT !.pc = "exist", !.id = s.id, !.task = s,
                                 !.then = "add", !.todo = S]
  <2>1. s \in Snaps /\ s.id \in Tasks /\ S \in SUBSET Snaps
    BY <1>1
  <2>2. Begin(p, j)
    BY <1>1, <1>8 DEF Jobs
  <2>3. S \subseteq job[p].todo /\ \A x \in S : x.id # s.id
    BY <1>1 DEF Holding
  <2> HIDE DEF S
  <2>4. /\ j \in Jobs /\ j.pc = "exist" /\ j.id = s.id /\ j.task = s /\ j.todo = S
    BY <1>1, <2>1 DEF Jobs, Pcs
  <2> HIDE DEF j
  <2>5. Holding(j, row, repeat)
    BY <1>1, <2>3, <2>4 DEF Holding
  <2>6. Works(job'[p], j)
    BY <2>2, <2>4, BeginWorks DEF Handlers
  <2>7. Holding(job'[p], row, repeat)
    BY <2>5, <2>6 DEF Holding, Works
  <2> QED BY <1>1, <1>2, <2>7, KnownStep DEF KnownInv
<1> QED BY <1>3, <1>5, <1>6, <1>7, <1>8 DEF BootStep, BootNext

LEMMA ArriveKnown ==
  ASSUME OneAtATime, NEW p \in Procs, TypeInv, Stopping, KnownInv, Arrive(p)
  PROVE  KnownInv'
<1>1. job[p].pc = "idle" /\ UNCHANGED repeat
  BY DEF Arrive, Create, Update, StartCall, StopCall, DeleteCall, Call, Boot, Idle, At, bull
<1>2. \A t \in Tasks, c \in Crons : <<t, c>> \in repeat => row[t].opts = c
  BY <1>1, AllKnown
\* The handler begins with the record j.
<1>3. ASSUME NEW j \in Jobs, Begin(p, j), Holding(j, row', repeat),
             \A t \in Tasks : /\ row'[t].status = "unused" => row'[t].opts = None
                              /\ \A c \in Crons : <<t, c>> \in repeat => row'[t].opts = row[t].opts
      PROVE  KnownInv'
  <2>1. Works(job'[p], j)
    BY <1>3, BeginWorks DEF Handlers
  <2>2. Holding(job'[p], row', repeat')
    BY <1>1, <1>3, <2>1 DEF Holding, Works
  <2> QED BY <1>1, <1>2, <1>3, <2>2, KnownStep
<1>4. ASSUME NEW t \in Tasks, NEW then \in {"add", "end", "drop"}, Call(p, t, then)
      PROVE  KnownInv'
  <2> DEFINE j == [IdleJob EXCEPT !.pc = "exist", !.id = t, !.task = Snap(t), !.then = then]
  <2>1. Snap(t) \in Snaps /\ Snap(t).opts = row[t].opts
    BY SnapOK DEF TypeInv, Snap
  <2>2. j \in Jobs /\ j.pc = "exist" /\ j.id = t /\ j.task = Snap(t) /\ j.todo = {}
    BY <2>1 DEF IdleJob, Jobs, Pcs
  <2>3. Begin(p, j) /\ UNCHANGED row /\ Exists(t)
    BY <1>4 DEF Call
  <2> HIDE DEF j
  <2>4. Holding(j, row, repeat)
    BY <2>1, <2>2, <2>3 DEF Holding, Exists
  <2> QED BY <1>3, <2>2, <2>3, <2>4 DEF KnownInv
<1>5. ASSUME NEW t \in Tasks, NEW c \in Kinds, NEW s \in {"activated", "disabled"}, Create(p, t, c, s)
      PROVE  KnownInv'
  <2> DEFINE snap == [id |-> t, cron |-> c, opts |-> None]
             r == [status |-> s, cron |-> c, opts |-> None]
             then == IF s = "activated" THEN "add" ELSE "end"
             j == [IdleJob EXCEPT !.pc = "exist", !.id = t, !.task = snap, !.then = then]
  <2>1. row' = [row EXCEPT ![t] = r] /\ Begin(p, j) /\ row[t].status = "unused"
    BY <1>5 DEF Create
  <2>2. snap \in Snaps /\ snap.opts = None /\ r.opts = None /\ r.status = s /\ then \in {"end", "add", "drop"}
    BY DEF Snaps, Kinds
  <2> HIDE DEF snap, r, then
  <2>3. j \in Jobs /\ j.pc = "exist" /\ j.id = t /\ j.task = snap /\ j.todo = {}
    BY <2>2 DEF IdleJob, Jobs, Pcs
  <2> HIDE DEF j
  <2>4. row'[t] = r /\ \A u \in Tasks \ {t} : row'[u] = row[u]
    BY <2>1 DEF TypeInv, DataOK
  <2>5. Holding(j, row', repeat)
    BY <2>2, <2>3, <2>4 DEF Holding
  <2>6. row[t].opts = None
    BY <2>1 DEF KnownInv
  <2>7. ASSUME NEW u \in Tasks
        PROVE  row'[u].opts = row[u].opts /\ (row'[u].status = "unused" => row'[u].opts = None)
    BY <2>2, <2>4, <2>6 DEF KnownInv
  <2> QED BY <1>3, <2>1, <2>3, <2>5, <2>7
<1>6. ASSUME NEW t \in Tasks, NEW c \in Kinds, NEW s \in {"activated", "disabled"}, Update(p, t, c, s)
      PROVE  KnownInv'
  <2> DEFINE r == [status |-> s, cron |-> c, opts |-> row[t].opts]
             j == [IdleJob EXCEPT !.pc = "info", !.id = t]
  <2>1. row' = [row EXCEPT ![t] = r] /\ Begin(p, j)
    BY <1>6 DEF Update
  <2>2. r.opts = row[t].opts /\ r.status = s
    OBVIOUS
  <2> HIDE DEF r
  <2>3. j \in Jobs /\ j.pc = "info" /\ j.id = t /\ j.todo = {}
    BY DEF IdleJob, Jobs, Pcs
  <2> HIDE DEF j
  <2>4. row'[t] = r /\ \A u \in Tasks \ {t} : row'[u] = row[u]
    BY <2>1 DEF TypeInv, DataOK
  <2>5. Holding(j, row', repeat)
    BY <2>3 DEF Holding, SnapPcs
  <2>6. ASSUME NEW u \in Tasks
        PROVE  row'[u].opts = row[u].opts /\ (row'[u].status = "unused" => row'[u].opts = None)
    BY <2>2, <2>4 DEF KnownInv
  <2> QED BY <1>3, <2>1, <2>3, <2>5, <2>6
<1>7. CASE Boot(p)
  <2>1. job'[p].pc = "purge" /\ job'[p].todo = {} /\ UNCHANGED row
    BY <1>7 DEF Boot, IdleJob, Handlers
  <2>2. Holding(job'[p], row', repeat')
    BY <2>1 DEF Holding, SnapPcs
  <2> QED BY <1>1, <1>2, <2>1, <2>2, KnownStep DEF KnownInv
<1> QED BY <1>4, <1>5, <1>6, <1>7 DEF Arrive, StartCall, StopCall, DeleteCall

\* A worker never adds a configuration and never changes the one in a row.
LEMMA WorkerKnown ==
  ASSUME NEW w \in Workers, TypeInv, Stopping, SettledInv, KnownInv, WorkerStep(w)
  PROVE  KnownInv'
<1> USE DEF At, Handlers
<1>1. w \notin Procs /\ job[w].pc \notin {"add", "save", "drop"}
  BY NoWorkerStarts, TaskAssumption DEF SettledInv
<1>2. \A p \in Procs : job'[p] = job[p] => Works(job'[p], job[p])
  BY DEF Works
<1>3. ASSUME NEW j, job' = [job EXCEPT ![w] = j] PROVE \A p \in Procs : Works(job'[p], job[p])
  BY <1>1, <1>2, <1>3 DEF TypeInv, JobsOK
<1>4. CASE StopStep(w)
  <2>1. PICK t : t = job[w].id /\ t = job[w].task.id /\ t \in Tasks
    BY <1>4, AtSnap DEF StopStep, Exist, Remove, Mark, SnapPcs
  <2>2. repeat' \subseteq repeat
    BY <1>4 DEF StopStep, Exist, Remove, Mark, bull
  <2>3. UNCHANGED row \/ row' = [row EXCEPT ![t].status = IF Exists(t) THEN "disabled" ELSE @]
    BY <1>4, <2>1 DEF StopStep, Exist, Remove, Mark
  <2>4. \A u \in Tasks : /\ row'[u].opts = row[u].opts
                         /\ Exists(u) => Exists(u)'
                         /\ row'[u].status = "unused" => row[u].status = "unused"
    BY <2>1, <2>3 DEF TypeInv, DataOK, Rows, Exists
  <2>5. (\E l \in Pcs : Goto(w, l)) \/ Fail(w) \/ Return(w)
    BY <1>4 DEF StopStep, Exist, Remove, Mark, Pcs
  <2>6. \A p \in Procs : Works(job'[p], job[p])
    BY <1>3, <2>5, EndRecord DEF Goto
  <2> QED BY <2>2, <2>4, <2>6, KnownKept
<1>5. CASE Late(w) \/ Find(w)
  <2>1. \A p \in Procs : Works(job'[p], job[p])
    BY <1>3, <1>5 DEF Late, Find, Goto, Fail
  <2> QED BY <1>5, <2>1, KnownKept DEF Late, Find, bull, Exists
<1>6. CASE Finish(w)
  <2>1. UNCHANGED <<row, repeat>>
    BY <1>6 DEF Finish
  <2>2. \A p \in Procs : Works(job'[p], job[p])
    <3> DEFINE t == run[w][1]
               j == [IdleJob EXCEPT !.pc = "late", !.id = t]
    <3>1. t \in Tasks
      BY <1>6 DEF Finish, TypeInv, DataOK
    <3>2. j \in Jobs
      BY <3>1 DEF IdleJob, Jobs, Pcs
    <3>3. Begin(w, j) \/ UNCHANGED job
      BY <1>6 DEF Finish
    <3> HIDE DEF j, t
    <3> QED BY <1>1, <1>2, <3>2, <3>3, BeginWorks
  <2> QED BY <2>1, <2>2, KnownKept DEF Exists
<1>7. CASE (\E s \in Schedules : Take(w, s)) \/ (\E t \in Tasks : TakeOnce(w, t))
  BY <1>2, <1>7, KnownKept DEF Take, TakeOnce, Exists
<1>8. ~(StartStep(w) \/ Drop(w))
  BY <1>1 DEF StartStep, Drop, Add, AddRefused, Save
<1> QED BY <1>4, <1>5, <1>6, <1>7, <1>8 DEF WorkerStep, Step

LEMMA NextKnown ==
  ASSUME OneAtATime, TypeInv, Stopping, SettledInv, KnownInv, [Next]_vars PROVE KnownInv'
<1>1. ASSUME NEW p \in Procs, Arrive(p) \/ ProcStep(p) PROVE KnownInv'
  BY <1>1, ArriveKnown, StopKnown, StartKnown, ReadKnown DEF ProcStep, Step
<1>2. ASSUME NEW w \in Workers, WorkerStep(w) PROVE KnownInv'
  BY <1>2, WorkerKnown
<1>3. CASE \/ \E s \in Schedules : Tick(s)
           \/ \E t \in Tasks : Once(t)
           \/ LockExpires
           \/ UNCHANGED vars
  <2>1. UNCHANGED <<row, repeat, job>>
    BY <1>3 DEF Tick, Once, LockExpires, vars, bull
  <2> QED BY <2>1, KnownKept DEF Works, Exists
<1> QED BY <1>1, <1>2, <1>3 DEF Next, OneAtATime

\* KnownWhileQuiet: for any number of tasks, expressions and workers, when requests
\* come one at a time and none is cut off, the configurations that Bull repeats
\* while no handler runs are those in the rows.
THEOREM KnownWhileQuiet == ASSUME OneAtATime PROVE Spec => []KnownSchedules
<1>1. TypeInv /\ KnownInv => KnownSchedules
  <2> SUFFICES ASSUME TypeInv, KnownInv, Quiet, NEW s \in repeat PROVE row[s[1]].opts = s[2]
    BY DEF KnownSchedules
  <2>1. s[1] \in Tasks /\ s[2] \in Crons /\ s = <<s[1], s[2]>>
    BY DEF TypeInv, DataOK, Schedules
  <2>2. \A p \in Procs : job[p].pc = "idle"
    BY DEF Quiet, Idle, At, Handlers
  <2> QED BY <2>1, <2>2 DEF KnownInv
<1> QED BY <1>1, InitInv, NextInv, InitStops, NextStops, InitSettled, NextSettled, InitKnown, NextKnown,
           PTL DEF Spec
=============================================================================
