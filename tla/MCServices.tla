----------------------------- MODULE MCServices -----------------------------
(* Requests on a small instance, and the services that only answer them:     *)
(* the pages of the lists, uploads, the listing of the network disk and its *)
(* overview; and the tasks under one handler at a time, with what must       *)
(* happen to them in the end, and the runs of a task.  They share no state,  *)
(* so a behaviour is one of theirs, and the others do not move.              *)
EXTENDS Requests

CONSTANTS MaxRow, DefaultSize, MaxSize, Uploads, Deletes, Names, Exts, Moments, Days, MaxOpen,
          a, b, d, e, Keys, Searches, Limit, MaxWrite, Callers, Ttl, TimeLimit, Month, MaxTime,
          Runs, Tasks, Crons, Interval, Bounded, Procs, Workers, Calls

VARIABLES part, list, rows, some, count, page,
          upload, writing, row, disk, dirs, open, delete, hurt,
          bucket, writes, walk, clock, cache, call,
          task, run, log, login, called,
          job, taskRow, logs, repeat, due, queue, once, running, lock, stopped, settled

\* Objects at the root and two directories deep, and the marker of a directory.
SomeKeys == << <<a>>, <<b>>, <<d, e>>, <<d, a>>, <<d, b, a>>, <<d, d, a>> >>
SomeSearches == {{a}, {a, d}, {b}}

Pages == INSTANCE Paging WITH given <- count, walk <- page
Files == INSTANCE Storage
Disk == INSTANCE NetDisk WITH EmptyName <- e
Ov == INSTANCE Overview WITH Requests <- Callers, now <- clock, req <- call
Missions == INSTANCE Jobs
Scheduler == INSTANCE TaskScheduler WITH row <- taskRow, run <- running

ASSUME PartsAssumption ==
    /\ RequestsAssumption
    /\ Pages!PagingAssumption /\ Files!StorageAssumption
    /\ Disk!NetDiskAssumption /\ Ov!OverviewAssumption
    /\ Missions!JobsAssumption /\ Scheduler!TaskAssumption

pageVars == <<list, rows, some, count, page>>
fileVars == <<upload, writing, row, disk, dirs, open, delete, hurt>>
diskVars == <<bucket, writes, walk>>
ovVars == <<clock, cache, call>>
jobVars == <<task, run, log, login, called>>
taskVars == <<job, taskRow, logs, repeat, due, queue, once, running, lock, stopped, settled>>
partsVars == <<part, vars, pageVars, fileVars, diskVars, ovVars, jobVars, taskVars>>

PartsInit ==
    /\ part \in {"requests", "pages", "files", "disk", "overview", "jobs", "tasks"}
    /\ Init /\ Pages!Init /\ Files!Init /\ Disk!Init /\ Ov!Init
    /\ Missions!Init /\ Scheduler!Init
    /\ part # "requests" => todo = << >>
    /\ part # "pages" => list = Pages!UserList
    /\ part # "disk" => bucket = {}
    /\ part # "jobs" => task = [service |-> "nothing", data |-> "falsy"]

PartsNext ==
    \/ part = "requests" /\ Next /\ UNCHANGED <<part, pageVars, fileVars, diskVars, ovVars, jobVars, taskVars>>
    \/ part = "pages" /\ Pages!Next /\ UNCHANGED <<part, vars, fileVars, diskVars, ovVars, jobVars, taskVars>>
    \/ part = "files" /\ Files!Next /\ UNCHANGED <<part, vars, pageVars, diskVars, ovVars, jobVars, taskVars>>
    \/ part = "disk" /\ Disk!Next /\ UNCHANGED <<part, vars, pageVars, fileVars, ovVars, jobVars, taskVars>>
    \/ part = "overview" /\ Ov!Next /\ UNCHANGED <<part, vars, pageVars, fileVars, diskVars, jobVars, taskVars>>
    \/ part = "jobs" /\ Missions!Next /\ UNCHANGED <<part, vars, pageVars, fileVars, diskVars, ovVars, taskVars>>
    \/ part = "tasks" /\ Scheduler!Next /\ UNCHANGED <<part, vars, pageVars, fileVars, diskVars, ovVars, jobVars>>

\* Of the tasks no fair action is enabled while another part runs.
PartsSpec ==
    /\ PartsInit
    /\ [][PartsNext]_partsVars
    /\ Scheduler!Fairness

-----------------------------------------------------------------------------
\* Each of these is the property of the component's module, with its types.

\* PagesCover, NothingSkipped: those of Paging.
PagesCover == part = "pages" => Pages!TypeOK /\ Pages!PagesCover
NothingSkipped == part = "pages" => Pages!NothingSkipped

\* RowsHaveFiles: that of Storage.
RowsHaveFiles == part = "files" => Files!TypeOK /\ Files!RowsHaveFiles

\* WalkIsComplete: that of NetDisk.
WalkIsComplete == part = "disk" => Disk!TypeOK /\ Disk!WalkIsComplete

\* OverviewIsRecent: that of Overview.
OverviewIsRecent == part = "overview" => Ov!TypeOK /\ Ov!OverviewIsRecent

\* RunsAreLogged: that of Jobs.
RunsAreLogged == part = "jobs" => Missions!TypeOK /\ Missions!RunsAreLogged

\* KnownSchedules, ActivatedRuns: those of TaskScheduler.
KnownSchedules == part = "tasks" => Scheduler!TypeOK /\ Scheduler!KnownSchedules
ActivatedRuns == Scheduler!ActivatedRuns
=============================================================================
