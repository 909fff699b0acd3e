--------------------------- MODULE TaskScheduler ---------------------------
(***************************************************************************)
(* Scheduled tasks: TaskService, TaskController and TaskConsumer over the  *)
(* sys_task table and the Bull queue in Redis.                             *)
(*                                                                         *)
(* A task has a row and, while it is scheduled, a repeat configuration in  *)
(* Bull, keyed by the task's id and its cron expression.  Bull holds one   *)
(* delayed instance of each configuration; the worker that takes it adds   *)
(* the next.  Every await of a handler is a step of its own.               *)
(***************************************************************************)
EXTENDS Naturals, FiniteSets

CONSTANTS
    Tasks,      \* task ids
    Crons,      \* cron expressions
    Interval,   \* stands for type Interval: the task has `every`, no cron
    None,       \* jobOpts of a task that was never started; no run; no task
    Bounded,    \* tasks with an end time or a limit
    Procs,      \* bound: how many handlers run at the same time
    Workers,    \* instances that process the queue, one job at a time
    Calls       \* which handlers are called

AllCalls == {"create", "update", "start", "stop", "delete", "once", "boot",
             "interval",   \* interval tasks are created, too
             "crash"}

ASSUME TaskAssumption ==
    /\ Interval \notin Crons /\ None \notin Crons \cup Tasks \X Crons /\ None # Interval
    /\ Bounded \subseteq Tasks
    /\ Procs \cap Workers = {}
    /\ Calls \subseteq AllCalls

VARIABLES
    row,      \* sys_task
    logs,     \* tasks with rows in sys_task_log
    repeat,   \* Bull's repeat configurations
    due,      \* those whose next time has come
    queue,    \* those whose next instance is in the queue
    once,     \* tasks with a job added by hand in the queue
    run,      \* what each worker is executing
    lock,     \* is there a task:init key?
    job,      \* the handlers in flight
    \* What the properties remember of the past; no action reads these.
    stopped,  \* tasks whose stop was the last word
    settled   \* tasks whose last start no other handler overlapped

bull == <<repeat, due, queue, once, run>>
past == <<stopped, settled>>
vars == <<row, logs, bull, lock, job, past>>

Schedules == Tasks \X Crons
Kinds == Crons \cup {Interval}
Rows == [status : {"unused", "activated", "disabled", "deleted"},
         cron : Kinds, opts : Crons \cup {None}]

Exists(t) == row[t].status \in {"activated", "disabled"}
Of(t) == {t} \X Crons

\* The TaskEntity a handler works with, as it was when it was read.
Snaps == [id : Tasks, cron : Kinds, opts : Crons \cup {None}]
Snap(t) == [id |-> t, cron |-> row[t].cron, opts |-> row[t].opts]

-----------------------------------------------------------------------------
\* Handlers in flight.  A worker's own handler is updateTaskCompleteStatus.

Handlers == Procs \cup Workers
Pcs == {"idle", "info", "exist", "remove", "mark", "add", "save", "drop",
        "purge", "load", "next", "late", "find"}

Jobs == [pc : Pcs,
         id : Tasks \cup {None},
         task : Snaps \cup {None},
         then : {"end", "add", "drop"},   \* what follows stop()
         boot : BOOLEAN,                  \* is it initTask?
         todo : SUBSET Snaps,             \* the tasks initTask still has to start
         \* for the properties
         calm : BOOLEAN,    \* no initTask, and no request that may start the task,
                            \* since it began
         alone : BOOLEAN]   \* no other handler of the task (for initTask: none at
                            \* all) since it began

IdleJob == [pc |-> "idle", id |-> None, task |-> None, then |-> "end",
            boot |-> FALSE, todo |-> {}, calm |-> FALSE, alone |-> FALSE]

At(h, pc) == job[h].pc = pc
Idle(h) == At(h, "idle")
Goto(h, pc) == job' = [job EXCEPT ![h].pc = pc]
Fail(h) == job' = [job EXCEPT ![h] = IdleJob]

\* initTask goes on with the next task; any other handler is at its end.
Return(h) ==
    IF job[h].boot
    THEN job' = [job EXCEPT ![h] = [IdleJob EXCEPT !.pc = "next", !.boot = TRUE,
                                      !.todo = job[h].todo, !.alone = job[h].alone]]
    ELSE Fail(h)

MayStart(rec) == ~rec.boot /\ (rec.pc = "info" \/ rec.then = "add")
Purging(h) == job[h].boot /\ job[h].pc = "purge"

\* Handler h begins to work on a task.
Begin(h, rec) ==
    LET t == rec.id
        others == Handlers \ {h}
    IN  /\ job' = [g \in Handlers |->
             IF g = h
             THEN [rec EXCEPT !.calm = \A o \in others :
                                          ~job[o].boot /\ (job[o].id = t => ~MayStart(job[o])),
                              !.alone = /\ \A o \in others : job[o].id # t /\ ~Purging(o)
                                        /\ rec.boot => rec.alone]
             ELSE IF job[g].id = t \/ job[g].boot
             THEN [job[g] EXCEPT !.calm = @ /\ ~MayStart(rec), !.alone = FALSE]
             ELSE job[g]]
        /\ stopped' = IF MayStart(rec) THEN stopped \ {t} ELSE stopped
        /\ settled' = IF h \in Procs THEN settled \ {t} ELSE settled

Init ==
    /\ row = [t \in Tasks |-> [status |-> "unused", cron |-> Interval, opts |-> None]]
    /\ logs = {}
    /\ repeat = {} /\ due = {} /\ queue = {} /\ once = {}
    /\ run = [w \in Workers |-> None]
    /\ lock = FALSE
    /\ job = [h \in Handlers |-> IdleJob]
    /\ stopped = {}
    /\ settled = {}

-----------------------------------------------------------------------------
\* TaskController

\* save(), then start() or stop() by the status asked for.
Create(p, t, c, status) ==
    /\ Idle(p)
    /\ row[t].status = "unused"
    /\ row' = [row EXCEPT ![t] = [status |-> status, cron |-> c, opts |-> None]]
    /\ Begin(p, [IdleJob EXCEPT !.pc = "exist", !.id = t,
                   !.task = [id |-> t, cron |-> c, opts |-> None],
                   !.then = IF status = "activated" THEN "add" ELSE "end"])
    /\ UNCHANGED <<logs, bull, lock>>

\* The UPDATE writes cron and status; the task is read again afterwards.
Update_NoRestart(p, t, c, status) ==
    /\ Idle(p)
    /\ Exists(t)
    /\ row' = [row EXCEPT ![t] = [status |-> status, cron |-> c, opts |-> row[t].opts]]
    /\ UNCHANGED <<logs, bull, lock, job, past>>

Update(p, t, c, status) ==
    /\ Idle(p)
    /\ Exists(t)
    /\ row' = [row EXCEPT ![t] = [status |-> status, cron |-> c, opts |-> row[t].opts]]
    /\ Begin(p, [IdleJob EXCEPT !.pc = "info", !.id = t])
    /\ UNCHANGED <<logs, bull, lock>>

Info(p) ==
    LET t == job[p].id
    IN  /\ At(p, "info")
        /\ IF Exists(t)
           THEN job' = [job EXCEPT ![p] = [@ EXCEPT !.pc = "exist", !.task = Snap(t),
                          !.then = IF row[t].status = "activated" THEN "add" ELSE "end"]]
           ELSE Fail(p)
        /\ UNCHANGED <<row, logs, bull, lock, past>>

Call(p, t, then) ==
    /\ Idle(p)
    /\ Exists(t)
    /\ Begin(p, [IdleJob EXCEPT !.pc = "exist", !.id = t, !.task = Snap(t), !.then = then])
    /\ UNCHANGED <<row, logs, bull, lock>>

StartCall(p, t) == Call(p, t, "add")
StopCall(p, t) == Call(p, t, "end")
DeleteCall(p, t) == Call(p, t, "drop")

\* A job with the id of the task; Bull ignores the second of the same id.
Once(t) ==
    /\ Exists(t)
    /\ \A w \in Workers : run[w] # <<t, None>>
    /\ once' = once \cup {t}
    /\ UNCHANGED <<row, logs, repeat, due, queue, run, lock, job, past>>

-----------------------------------------------------------------------------
\* TaskService.stop

Exist(h) ==
    /\ At(h, "exist")
    /\ Goto(h, IF repeat \cap Of(job[h].task.id) = {} THEN "mark" ELSE "remove")
    /\ UNCHANGED <<row, logs, bull, lock, past>>

Remove_LeavesRepeat(h) ==
    LET t == job[h].task.id
    IN  /\ At(h, "remove")
        /\ queue' = queue \ Of(t)
        /\ once' = once \ {t}
        /\ Goto(h, "mark")
        /\ UNCHANGED <<row, logs, repeat, due, run, lock, past>>

\* The instances go (the removal of one that is running fails and is not
\* awaited), then the configuration of jobOpts; without jobOpts,
\* removeRepeatable(null) throws.
Remove(h) ==
    LET t == job[h].task.id
        old == <<t, job[h].task.opts>>
    IN  /\ At(h, "remove")
        /\ queue' = queue \ Of(t)
        /\ once' = once \ {t}
        /\ repeat' = repeat \ {old}
        /\ due' = due \ {old}
        /\ IF job[h].task.opts = None THEN Fail(h) ELSE Goto(h, "mark")
        /\ UNCHANGED <<row, logs, run, lock, past>>

\* status Disabled, with the configuration or without; then whatever stop()
\* was called for.  start() of an interval task adds nothing.
Mark(h) ==
    LET t == job[h].task.id
    IN  /\ At(h, "mark")
        /\ row' = [row EXCEPT ![t].status = IF Exists(t) THEN "disabled" ELSE @]
        /\ \/ /\ job[h].then = "end"
              /\ Return(h)
              /\ stopped' = IF h \in Procs /\ job[h].calm THEN stopped \cup {t} ELSE stopped
           \/ /\ job[h].then = "add"
              /\ IF job[h].task.cron = Interval THEN Return(h) ELSE Goto(h, "add")
              /\ UNCHANGED stopped
           \/ /\ job[h].then = "drop"
              /\ Goto(h, "drop")
              /\ UNCHANGED stopped
        /\ UNCHANGED <<logs, bull, lock, settled>>

-----------------------------------------------------------------------------
\* TaskService.start, after stop()

Add_WithoutRepeat(h) ==
    LET s == <<job[h].task.id, job[h].task.cron>>
    IN  /\ At(h, "add")
        /\ queue' = queue \cup {s}
        /\ Goto(h, "save")
        /\ UNCHANGED <<row, logs, repeat, due, once, run, lock, past>>

Add(h) ==
    LET s == <<job[h].task.id, job[h].task.cron>>
    IN  /\ At(h, "add")
        /\ repeat' = repeat \cup {s}
        /\ due' = due \ {s}
        /\ queue' = queue \cup {s}
        /\ Goto(h, "save")
        /\ UNCHANGED <<row, logs, once, run, lock, past>>

\* Past its end time or limit, Bull adds no job and start() throws.
AddRefused(h) ==
    LET t == job[h].task.id
    IN  /\ At(h, "add")
        /\ t \in Bounded
        /\ row' = [row EXCEPT ![t].status = IF Exists(t) THEN "disabled" ELSE @]
        /\ Fail(h)
        /\ UNCHANGED <<logs, bull, lock, past>>

Save_StatusOnly(h) ==
    LET t == job[h].task.id
    IN  /\ At(h, "save")
        /\ row' = [row EXCEPT ![t].status = IF Exists(t) THEN "activated" ELSE @]
        /\ Return(h)
        /\ settled' = IF job[h].alone THEN settled \cup {t} ELSE settled
        /\ UNCHANGED <<logs, bull, lock, stopped>>

Save_Unserialized(h) ==
    LET t == job[h].task.id
    IN  /\ At(h, "save")
        /\ row' = IF Exists(t)
                  THEN [row EXCEPT ![t] = [status |-> "activated", cron |-> row[t].cron,
                                           opts |-> "[object Object]"]]
                  ELSE row
        /\ Return(h)
        /\ settled' = IF job[h].alone THEN settled \cup {t} ELSE settled
        /\ UNCHANGED <<logs, bull, lock, stopped>>

Save(h) ==
    LET t == job[h].task.id
    IN  /\ At(h, "save")
        /\ row' = IF Exists(t)
                  THEN [row EXCEPT ![t] = [status |-> "activated", cron |-> row[t].cron,
                                           opts |-> job[h].task.cron]]
                  ELSE row
        /\ Return(h)
        /\ settled' = IF job[h].alone THEN settled \cup {t} ELSE settled
        /\ UNCHANGED <<logs, bull, lock, stopped>>

\* TaskService.delete, after stop(): the rows of sys_task_log refer to the task,
\* and the foreign key refuses the DELETE while there are any.  Nothing in the
\* code removes them: LogClearJob has no clearTaskLog.
Drop(h) ==
    LET t == job[h].task.id
    IN  /\ At(h, "drop")
        /\ row' = [row EXCEPT ![t].status = IF Exists(t) /\ t \notin logs THEN "deleted" ELSE @]
        /\ stopped' = IF job[h].calm THEN stopped \cup {t} ELSE stopped
        /\ Fail(h)
        /\ UNCHANGED <<logs, bull, lock, settled>>

-----------------------------------------------------------------------------
\* initTask, when an instance starts

Boot_LockIgnored(p) ==
    /\ Idle(p)
    /\ lock' = TRUE
    /\ job' = [h \in Handlers |->
                 IF h = p THEN [IdleJob EXCEPT !.pc = "purge", !.boot = TRUE,
                                           !.alone = \A o \in Handlers : Idle(o)]
                 ELSE [job[h] EXCEPT !.alone = FALSE, !.calm = FALSE]]
    /\ settled' = {}
    /\ UNCHANGED <<row, logs, bull, stopped>>

\* An instance that finds the key there does nothing.
Boot(p) ==
    /\ ~lock
    /\ Idle(p)
    /\ lock' = TRUE
    /\ job' = [h \in Handlers |->
                 IF h = p THEN [IdleJob EXCEPT !.pc = "purge", !.boot = TRUE,
                                           !.alone = \A o \in Handlers : Idle(o)]
                 ELSE [job[h] EXCEPT !.alone = FALSE, !.calm = FALSE]]
    /\ settled' = {}
    /\ UNCHANGED <<row, logs, bull, stopped>>

\* Every job goes, of every task, except the running ones.
Purge(p) ==
    /\ At(p, "purge")
    /\ queue' = {}
    /\ once' = {}
    /\ Goto(p, "load")
    /\ UNCHANGED <<row, logs, repeat, due, run, lock, past>>

Load(p) ==
    /\ At(p, "load")
    /\ job' = [job EXCEPT ![p] = [@ EXCEPT !.pc = "next",
                 !.todo = {Snap(t) : t \in {u \in Tasks : row[u].status = "activated"}}]]
    /\ UNCHANGED <<row, logs, bull, lock, past>>

\* start() of the next task, as it was when it was loaded; del(initKey) at the end.
BootNext(p) ==
    /\ At(p, "next")
    /\ \/ /\ job[p].todo = {}
          /\ lock' = FALSE
          /\ Fail(p)
          /\ UNCHANGED past
       \/ /\ \E s \in job[p].todo :
                Begin(p, [job[p] EXCEPT !.pc = "exist", !.id = s.id, !.task = s,
                                        !.then = "add", !.todo = @ \ {s}])
          /\ UNCHANGED lock
    /\ UNCHANGED <<row, logs, bull>>

\* The key was set for 30 minutes; an initTask in flight takes seconds.
LockExpires ==
    /\ lock
    /\ \A p \in Procs : ~job[p].boot
    /\ lock' = FALSE
    /\ UNCHANGED <<row, logs, bull, job, past>>

-----------------------------------------------------------------------------
\* The queue: time, Bull's workers, TaskConsumer

Tick(s) ==
    /\ s \in repeat \ due
    /\ due' = due \cup {s}
    /\ UNCHANGED <<row, logs, repeat, queue, once, run, lock, job, past>>

\* A worker takes the instance; Bull adds the next one if the configuration is
\* still there and has a next time.
Take(w, s) ==
    /\ run[w] = None
    /\ s \in queue \cap due
    /\ run' = [run EXCEPT ![w] = s]
    /\ \/ /\ s \in repeat
          /\ due' = due \ {s}
          /\ UNCHANGED queue
       \/ /\ s \in repeat => s[1] \in Bounded
          /\ queue' = queue \ {s}
          /\ UNCHANGED due
    /\ UNCHANGED <<row, logs, repeat, once, lock, job, past>>

TakeOnce(w, t) ==
    /\ run[w] = None
    /\ t \in once
    /\ run' = [run EXCEPT ![w] = <<t, None>>]
    /\ once' = once \ {t}
    /\ UNCHANGED <<row, logs, repeat, due, queue, lock, job, past>>

\* TaskConsumer.handle logs the outcome, then onCompleted starts
\* updateTaskCompleteStatus and does not wait for it.  Without the task's row
\* the log cannot be written and the job fails instead.
Finish(w) ==
    /\ run[w] # None
    /\ Idle(w)
    /\ run' = [run EXCEPT ![w] = None]
    /\ IF Exists(run[w][1])
       THEN /\ logs' = logs \cup {run[w][1]}
            /\ Begin(w, [IdleJob EXCEPT !.pc = "late", !.id = run[w][1]])
       ELSE UNCHANGED <<logs, job, past>>
    /\ UNCHANGED <<row, repeat, due, queue, once, lock>>

\* updateTaskCompleteStatus: a next time in the past counts as "completed".
Late(w) ==
    /\ At(w, "late")
    /\ IF repeat \cap due \cap Of(job[w].id) # {} THEN Goto(w, "find") ELSE Fail(w)
    /\ UNCHANGED <<row, logs, bull, lock, past>>

Find(w) ==
    LET t == job[w].id
    IN  /\ At(w, "find")
        /\ IF Exists(t)
           THEN job' = [job EXCEPT ![w] = [@ EXCEPT !.pc = "exist", !.task = Snap(t)]]
           ELSE Fail(w)
        /\ UNCHANGED <<row, logs, bull, lock, past>>

\* The instance dies, or MySQL or Redis fails a call; what was written stays.
Abort(h) ==
    /\ ~Idle(h)
    /\ Fail(h)
    /\ settled' = settled \ {job[h].id}
    /\ UNCHANGED <<row, logs, bull, lock, stopped>>

-----------------------------------------------------------------------------
StopStep(h) == Exist(h) \/ Remove(h) \/ Mark(h)
StartStep(h) == Add(h) \/ AddRefused(h) \/ Save(h)
BootStep(p) == Purge(p) \/ Load(p) \/ BootNext(p)
Step(h) == StopStep(h) \/ StartStep(h) \/ Drop(h)

Arrive(p) ==
    \/ \E t \in Tasks, c \in Kinds, s \in {"activated", "disabled"} :
          /\ c \in Crons \/ "interval" \in Calls
          /\ \/ "create" \in Calls /\ Create(p, t, c, s)
             \/ "update" \in Calls /\ Update(p, t, c, s)
    \/ \E t \in Tasks :
          \/ "start" \in Calls /\ StartCall(p, t)
          \/ "stop" \in Calls /\ StopCall(p, t)
          \/ "delete" \in Calls /\ DeleteCall(p, t)
    \/ "boot" \in Calls /\ Boot(p)

ProcStep(p) == Step(p) \/ Info(p) \/ BootStep(p)
WorkerStep(w) ==
    \/ Step(w) \/ Late(w) \/ Find(w) \/ Finish(w)
    \/ \E s \in Schedules : Take(w, s)
    \/ \E t \in Tasks : TakeOnce(w, t)

Next ==
    \/ \E p \in Procs : Arrive(p) \/ ProcStep(p)
    \/ \E w \in Workers : WorkerStep(w)
    \/ \E s \in Schedules : Tick(s)
    \/ \E t \in Tasks : "once" \in Calls /\ Once(t)
    \/ LockExpires
    \/ "crash" \in Calls /\ \E h \in Handlers : Abort(h)

Spec == Init /\ [][Next]_vars

\* The event loop runs every handler to its end, time passes, and Bull's
\* workers take what is due and finish it.
Fairness ==
    /\ \A p \in Procs : WF_vars(ProcStep(p))
    /\ \A w \in Workers : WF_vars(WorkerStep(w))
    /\ \A s \in Schedules : WF_vars(Tick(s))

-----------------------------------------------------------------------------
\* Properties

\* TypeOK: every variable stays in its type.
TypeOK ==
    /\ row \in [Tasks -> Rows]
    /\ logs \in SUBSET Tasks
    /\ repeat \in SUBSET Schedules /\ due \in SUBSET Schedules /\ queue \in SUBSET Schedules
    /\ once \in SUBSET Tasks
    /\ run \in [Workers -> {None} \cup Tasks \X (Crons \cup {None})]
    /\ lock \in BOOLEAN
    /\ job \in [Handlers -> Jobs]
    /\ stopped \in SUBSET Tasks
    /\ settled \in SUBSET Tasks

Quiet == \A h \in Handlers : Idle(h)

\* StoppedStaysStopped: after a stop that neither an initTask nor a request to
\* start the task overlapped, and until the next such request, the task is not
\* activated and Bull does not repeat the configuration in its row, whatever runs,
\* completions, other stops and restarts of instances go on meanwhile (stop,
\* updateTaskCompleteStatus, initTask).
StoppedStaysStopped ==
    \A t \in stopped : row[t].status # "activated" /\ <<t, row[t].opts>> \notin repeat

\* ActivatedIsScheduled: after a start that no other handler of the task
\* overlapped, and until the next, as long as the task is activated its
\* configuration is in Bull with the next instance queued, whatever handlers of
\* the task did before (start, initTask); only a bounded task whose last run is
\* still under way has none.
Busy(t) == \E h \in Handlers : job[h].id = t \/ Purging(h)

ActivatedIsScheduled ==
    \A t \in settled : ~Busy(t) /\ row[t].status = "activated" =>
        LET s == <<t, row[t].cron>>
        IN  /\ s \in repeat
            /\ \/ s \in queue
               \/ t \in Bounded /\ \E w \in Workers : run[w] = s

\* KnownSchedules: while no handler runs, a configuration that Bull repeats is
\* the one in the row of its task, the only one stop() can remove.
KnownSchedules == Quiet => \A s \in repeat : row[s[1]].opts = s[2]

\* ActivatedRuns: an activated cron task, whose start no other handler of the
\* task overlapped, is executed again, unless it is disabled or some other
\* handler is called for it.
ActivatedRuns ==
    \A t \in Tasks :
        t \in settled /\ row[t].status = "activated" ~>
            \/ t \notin settled \/ row[t].status # "activated"
            \/ \E w \in Workers, c \in Crons : run[w] = <<t, c>>

\* OneInit: no two instances run initTask at the same time.
OneInit == \A p, q \in Procs : job[p].boot /\ job[q].boot => p = q

\* CompletedIsOver: updateTaskCompleteStatus stops a task only when it has no
\* next instance, which is what its comment says; the run shows where the code
\* departs from it.
CompletedIsOver == [][\A w \in Workers : Remove(w) => queue \cap Of(job[w].id) = {}]_vars
=============================================================================
