-------------------------------- MODULE Jobs --------------------------------
(***************************************************************************)
(* What is inside a run of a task: TaskConsumer.handle, the look-up of the *)
(* service the task names, the check that it is a mission, the three       *)
(* missions there are, and the row of sys_task_log.  When a job is queued, *)
(* repeated and removed is in TaskScheduler.  One task is enough: the jobs *)
(* of different tasks share nothing.                                       *)
(***************************************************************************)
EXTENDS Naturals, FiniteSets

CONSTANTS
    Runs,    \* bound: the jobs there ever are
    None     \* no task

JobsAssumption == None \notin Runs

\* What the column 'service' may name: a method of a mission, one of a provider
\* without the mark, or what is not there: no such provider, a method the mission
\* does not have (LogClearJob.clearTaskLog of the SQL file), no method at all.
Missions == {"EmailJob.send", "HttpRequestJob.handle", "LogClearJob.clearLoginLog"}
Services == Missions \cup {"no mission", "nothing"}

\* What the method's first parameter is: without data it is called with none,
\* with JSON of an array with the elements, with other JSON with its value, and
\* with any other text with that.
Args == {"falsy", "truthy"}

VARIABLES
    task,   \* the row of sys_task, None once it is deleted
    run,    \* the jobs
    log,    \* the rows of sys_task_log
    login,  \* sys_login_log has rows
    called  \* remembered: services a method of which was called, by what run

vars == <<task, run, log, login, called>>

Stages == {"none", "waiting", "method", "success", "failure", "completed", "failed"}
Task == [service : Services, data : Args]
Run == [at : Stages, data : Task \cup {None}, tried : 0..1]
Log == [run : Runs, status : 0..1]

Init ==
    /\ task \in Task
    /\ run = [r \in Runs |-> [at |-> "none", data |-> None, tried |-> 0]]
    /\ log = {} /\ called = {}
    /\ login = TRUE

Put(r, at, data, tried) == run' = [run EXCEPT ![r] = [at |-> at, data |-> data, tried |-> tried]]
Go(r, at) == Put(r, at, run[r].data, run[r].tried)

\* removeOnComplete, removeOnFail
End(r, at) == Put(r, at, None, run[r].tried)

-----------------------------------------------------------------------------
\* The task

\* checkHasMissionMeta: provided under that name, with that method, and marked.
HasMissionMeta(service) == service \in Missions

\* POST and PUT check the service they are given; the rows of the SQL file are
\* not checked.
Save(service, data) ==
    /\ task # None
    /\ HasMissionMeta(service)
    /\ task' = [service |-> service, data |-> data]
    /\ UNCHANGED <<run, log, login, called>>

\* The foreign key of the log keeps a task that has a row there; what stop() does
\* before is in TaskScheduler.
Delete ==
    /\ task # None /\ log = {}
    /\ task' = None
    /\ UNCHANGED <<run, log, login, called>>

\* A job has the service and the arguments the task has when it is queued.
Queue(r) ==
    /\ run[r].at = "none" /\ task # None
    /\ Put(r, "waiting", task, 0)
    /\ UNCHANGED <<task, log, login, called>>

-----------------------------------------------------------------------------
\* A worker takes the job, and handle calls callService.

\* The try of handle goes on after the call, or its catch does.
Ends(r, result) == Go(r, IF result = "returned" THEN "success" ELSE "failure")

\* No dot in the name, nothing provided under it, no such method or no mark.
Refuse(r) ==
    /\ run[r].at = "waiting"
    /\ ~HasMissionMeta(run[r].data.service)
    /\ Ends(r, "threw")
    /\ UNCHANGED <<task, log, login, called>>

Call(r) ==
    /\ run[r].at = "waiting"
    /\ HasMissionMeta(run[r].data.service)
    /\ Go(r, "method")
    /\ called' = called \cup {<<run[r].data.service, r>>}
    /\ UNCHANGED <<task, log, login>>

\* safeParse and the spread.
Config(r) == run[r].data.data = "truthy"

Method(r, service) == run[r].at = "method" /\ run[r].data.service = service

\* Without a configuration it throws; the mailer may.
EmailJob(r) ==
    /\ Method(r, "EmailJob.send")
    /\ \E result \in IF Config(r) THEN {"returned", "threw"} ELSE {"threw"} : Ends(r, result)
    /\ UNCHANGED <<task, log, login, called>>

\* request() makes an Observable, to which nobody subscribes: nothing is sent.
HttpRequestJob(r) ==
    /\ Method(r, "HttpRequestJob.handle")
    /\ Ends(r, IF Config(r) THEN "returned" ELSE "threw")
    /\ UNCHANGED <<task, log, login, called>>

LogClearJob(r) ==
    /\ Method(r, "LogClearJob.clearLoginLog")
    /\ \/ login' = FALSE /\ Ends(r, "returned")
       \/ Ends(r, "threw") /\ UNCHANGED login
    /\ UNCHANGED <<task, log, called>>

-----------------------------------------------------------------------------
\* The log of handle.  The row refers to the task, which may be gone.

Row(r, status) == log' = log \cup {[run |-> r, status |-> status]}

LogSuccess(r) ==
    /\ run[r].at = "success" /\ task # None
    /\ Row(r, 1)
    /\ End(r, "completed")
    /\ UNCHANGED <<task, login, called>>

\* The INSERT of the success is refused, or its answer is lost: the catch that
\* is meant for the service logs a failure.
SuccessUnlogged(r) ==
    /\ run[r].at = "success"
    /\ \/ UNCHANGED log
       \/ task # None /\ Row(r, 1)
    /\ Go(r, "failure")
    /\ UNCHANGED <<task, login, called>>

LogFailure(r) ==
    /\ run[r].at = "failure" /\ task # None
    /\ Row(r, 0)
    /\ End(r, "completed")
    /\ UNCHANGED <<task, login, called>>

FailureUnlogged_Swallowed(r) ==
    /\ run[r].at = "failure"
    /\ End(r, "completed")
    /\ UNCHANGED <<task, log, login, called>>

\* Nobody catches that: the job fails, and onCompleted is not called.
FailureUnlogged(r) ==
    /\ run[r].at = "failure"
    /\ \/ UNCHANGED log
       \/ task # None /\ Row(r, 0)
    /\ End(r, "failed")
    /\ UNCHANGED <<task, login, called>>

\* The instance ends: Bull gives a stalled job to a worker once more.
Stalled(r) ==
    /\ run[r].at \in {"method", "success", "failure"}
    /\ IF run[r].tried = 0
       THEN Put(r, "waiting", run[r].data, 1)
       ELSE End(r, "failed")
    /\ UNCHANGED <<task, log, login, called>>

-----------------------------------------------------------------------------
Next ==
    \/ \E service \in Services, data \in Args : Save(service, data)
    \/ Delete
    \/ \E r \in Runs :
         \/ Queue(r) \/ Refuse(r) \/ Call(r)
         \/ EmailJob(r) \/ HttpRequestJob(r) \/ LogClearJob(r)
         \/ LogSuccess(r) \/ SuccessUnlogged(r) \/ LogFailure(r) \/ FailureUnlogged(r) \/ Stalled(r)

Spec == Init /\ [][Next]_vars

-----------------------------------------------------------------------------
\* Properties

\* TypeOK: every variable stays in its type.
TypeOK ==
    /\ task \in Task \cup {None}
    /\ run \in [Runs -> Run]
    /\ log \in SUBSET Log
    /\ login \in BOOLEAN
    /\ called \in SUBSET (Services \X Runs)

\* RunsAreLogged: a job that Bull calls completed has left a row, whatever the
\* service did and whichever INSERT failed; a row that says success, and the
\* deletion of the login log, stand for a run that called a mission, even if
\* the task names another service since or was queued from a row nobody checked;
\* and no method of anything else was ever called (handle, callService).
RunsAreLogged ==
    /\ \A r \in Runs : run[r].at = "completed" => \E l \in log : l.run = r
    /\ \A l \in log : l.status = 1 => \E s \in Missions : <<s, l.run>> \in called
    /\ ~login => \E r \in Runs : <<"LogClearJob.clearLoginLog", r>> \in called
    /\ \A c \in called : c[1] \in Missions
=============================================================================
