--------------------------- MODULE PermCacheProofs --------------------------
(***************************************************************************)
(* Proofs about PermCache for every set of users, roles, menus and         *)
(* handlers, and whichever of the handlers are called.                     *)
(***************************************************************************)
EXTENDS PermCache, TLAPS

\* A handler that updates a role knows which.
IdOK(j) == j.pc \in {"roleFind", "roleLoad"} => j.id \in Roles

TypeInv == TypeOK /\ \A p \in Procs : IdOK(job[p])

-----------------------------------------------------------------------------
\* What a step does to the handlers.

\* Two jobs that differ in where they are, and in what a role update carries.
Same(j, k) ==
    /\ k.usr = j.usr /\ k.view = j.view
    /\ k.alone = j.alone /\ k.there = j.there /\ k.calm = j.calm

\* The handlers other than p do not notice.
Others(p) == \A q \in Procs \ {p} : job'[q] = job[q]

JobsOK == job' \in [Procs -> Jobs] /\ \A p \in Procs : IdOK(job'[p])

LEMMA NoViewOK == NoView \in Views
  BY DEF NoView, Views

LEMMA ViewOK ==
  ASSUME NEW at \in {"no", "roles", "menus", "online", "set"},
         NEW roles \in SUBSET Roles, NEW perms \in SUBSET Menus
  PROVE  [at |-> at, roles |-> roles, perms |-> perms] \in Views
  BY DEF Views

LEMMA RolesViewOK ==
  [NoView EXCEPT !.at = "roles"] \in Views /\ [NoView EXCEPT !.at = "roles"].at = "roles"
  BY DEF NoView, Views

LEMMA IdleJobOK ==
  /\ IdleJob \in Jobs /\ IdOK(IdleJob)
  /\ IdleJob.pc = "idle" /\ ~IdleJob.alone /\ IdleJob.there = {} /\ IdleJob.usr = {}
  /\ IdleJob.calm = {}
  BY NoViewOK DEF IdleJob, Jobs, Pcs, IdOK

LEMMA JobOK ==
  ASSUME TypeInv, NEW p \in Procs
  PROVE  /\ job[p] \in Jobs /\ IdOK(job[p])
         /\ job[p].pc \in Pcs /\ job[p].usr \in SUBSET Users /\ job[p].id \in Roles \cup Menus \cup {0}
         /\ job[p].want \in SUBSET Menus /\ job[p].seen \in SUBSET Menus /\ job[p].anew \in BOOLEAN
         /\ job[p].view \in [Users -> Views] /\ job[p].alone \in BOOLEAN
         /\ job[p].there \in SUBSET Users /\ job[p].calm \in SUBSET Users
  BY DEF TypeInv, TypeOK, Jobs

LEMMA GotoFacts ==
  ASSUME TypeInv, NEW p \in Procs, NEW pc \in Pcs, Goto(p, pc),
         pc = "roleLoad" => job[p].pc = "roleFind", pc # "roleFind"
  PROVE  JobsOK /\ Others(p) /\ job'[p].pc = pc /\ Same(job[p], job'[p])
<1> DEFINE j == job[p]
           k == [j EXCEPT !.pc = pc]
<1>1. j \in Jobs /\ IdOK(j)
  BY JobOK
<1>2. k \in Jobs /\ k.pc = pc /\ k.id = j.id /\ Same(j, k)
  BY <1>1 DEF Jobs, Same
<1>3. job' = [job EXCEPT ![p] = k]
  BY DEF Goto
<1>4. IdOK(k)
  BY <1>1, <1>2 DEF IdOK
<1> HIDE DEF k
<1> QED BY <1>2, <1>3, <1>4, JobOK DEF TypeInv, TypeOK, Others, JobsOK

LEMMA EndFacts ==
  ASSUME TypeInv, NEW p \in Procs, End(p)
  PROVE  JobsOK /\ Others(p) /\ job'[p] = IdleJob
  BY IdleJobOK, JobOK DEF End, TypeInv, TypeOK, Others, JobsOK

\* A handler begins: p with the record rec, and whoever was alone is not.
LEMMA StartFacts ==
  ASSUME TypeInv, NEW p \in Procs, NEW rec \in Jobs, IdOK(rec), Start(p, rec)
  PROVE  /\ JobsOK /\ Idle(p) /\ fresh' = {} /\ apart' = apart
         /\ job'[p].pc = rec.pc /\ job'[p].usr = rec.usr /\ job'[p].view = rec.view
         /\ job'[p].alone => \A q \in Procs : Idle(q)
         /\ job'[p].there = {u \in Users : online[u]} /\ job'[p].calm = Users
         /\ \A q \in Procs \ {p} :
              /\ job'[q].pc = job[q].pc /\ job'[q].usr = job[q].usr /\ job'[q].view = job[q].view
              /\ ~job'[q].alone
              /\ job'[q].there = job[q].there /\ job'[q].calm = job[q].calm
<1> DEFINE a == \A q \in Procs : Idle(q)
           o == {u \in Users : online[u]}
           k == [rec EXCEPT !.alone = a, !.there = o, !.calm = Users]
<1>1. /\ k \in Jobs /\ IdOK(k)
      /\ k.pc = rec.pc /\ k.usr = rec.usr /\ k.view = rec.view
      /\ k.alone = a /\ k.there = o /\ k.calm = Users
  <2>1. a \in BOOLEAN /\ o \in SUBSET Users
    OBVIOUS
  <2> HIDE DEF a, o
  <2>2. /\ k \in Jobs /\ k.id = rec.id
        /\ k.pc = rec.pc /\ k.usr = rec.usr /\ k.view = rec.view
        /\ k.alone = a /\ k.there = o /\ k.calm = Users
    BY <2>1 DEF Jobs
  <2> QED BY <2>2 DEF IdOK
<1>2. ASSUME NEW q \in Procs
      PROVE  /\ [job[q] EXCEPT !.alone = FALSE] \in Jobs
             /\ IdOK([job[q] EXCEPT !.alone = FALSE])
             /\ [job[q] EXCEPT !.alone = FALSE].pc = job[q].pc
             /\ [job[q] EXCEPT !.alone = FALSE].usr = job[q].usr
             /\ [job[q] EXCEPT !.alone = FALSE].view = job[q].view
             /\ [job[q] EXCEPT !.alone = FALSE].alone = FALSE
             /\ [job[q] EXCEPT !.alone = FALSE].there = job[q].there
             /\ [job[q] EXCEPT !.alone = FALSE].calm = job[q].calm
  <2>1. job[q] \in Jobs /\ IdOK(job[q])
    BY JobOK
  <2> QED BY <2>1 DEF Jobs, IdOK
<1>3. job' = [q \in Procs |-> IF q = p THEN k ELSE [job[q] EXCEPT !.alone = FALSE]]
  BY DEF Start, Disturbed
<1>4. Idle(p) /\ fresh' = {} /\ apart' = apart
  BY DEF Start
<1> HIDE DEF k
<1>5. JobsOK
  BY <1>1, <1>2, <1>3 DEF JobsOK
<1>6. job'[p] = k /\ \A q \in Procs \ {p} : job'[q] = [job[q] EXCEPT !.alone = FALSE]
  BY <1>3
<1>7. \A q \in Procs \ {p} :
              /\ job'[q].pc = job[q].pc /\ job'[q].usr = job[q].usr /\ job'[q].view = job[q].view
              /\ ~job'[q].alone
              /\ job'[q].there = job[q].there /\ job'[q].calm = job[q].calm
  <2> SUFFICES ASSUME NEW q \in Procs \ {p}
               PROVE  /\ job'[q].pc = job[q].pc /\ job'[q].usr = job[q].usr /\ job'[q].view = job[q].view
                      /\ ~job'[q].alone
                      /\ job'[q].there = job[q].there /\ job'[q].calm = job[q].calm
    OBVIOUS
  <2>1. PICK j : j = [job[q] EXCEPT !.alone = FALSE]
    OBVIOUS
  <2>2. job'[q] = j
    BY <1>6, <2>1
  <2> QED BY <1>2, <2>1, <2>2
<1>8. /\ job'[p].pc = rec.pc /\ job'[p].usr = rec.usr /\ job'[p].view = rec.view
      /\ job'[p].alone => a
      /\ job'[p].there = o /\ job'[p].calm = Users
  BY <1>1, <1>6
<1> QED BY <1>4, <1>5, <1>7, <1>8

\* Somebody asked for a menu update that leads to no refresh.
LEMMA DisturbedFacts ==
  ASSUME TypeInv, job' = Disturbed
  PROVE  /\ JobsOK
         /\ \A q \in Procs :
              /\ job'[q].pc = job[q].pc /\ job'[q].usr = job[q].usr /\ job'[q].view = job[q].view
              /\ ~job'[q].alone
              /\ job'[q].there = job[q].there /\ job'[q].calm = job[q].calm
<1>1. ASSUME NEW q \in Procs
      PROVE  /\ job'[q] \in Jobs /\ IdOK(job'[q])
             /\ job'[q].pc = job[q].pc /\ job'[q].usr = job[q].usr /\ job'[q].view = job[q].view
             /\ ~job'[q].alone
             /\ job'[q].there = job[q].there /\ job'[q].calm = job[q].calm
  <2>1. job[q] \in Jobs /\ IdOK(job[q])
    BY JobOK
  <2>2. job'[q] = [job[q] EXCEPT !.alone = FALSE]
    BY DEF Disturbed
  <2> QED BY <2>1, <2>2 DEF Jobs, IdOK
<1>2. job' = [q \in Procs |-> job'[q]]
  BY DEF Disturbed
<1>3. JobsOK
  BY <1>1, <1>2 DEF JobsOK
<1> QED BY <1>1, <1>3

\* A login of u, or the end of the sessions of the users U.
LEMMA LoginFacts ==
  ASSUME TypeInv, NEW u \in Users, Login(u)
  PROVE  /\ JobsOK
         /\ \A q \in Procs :
              /\ job'[q].pc = job[q].pc /\ job'[q].usr = job[q].usr /\ job'[q].view = job[q].view
              /\ job'[q].alone = job[q].alone
              /\ job'[q].there = job[q].there /\ job'[q].calm = job[q].calm \ {u}
<1>1. ASSUME NEW q \in Procs
      PROVE  /\ job'[q] \in Jobs /\ IdOK(job'[q])
             /\ job'[q].pc = job[q].pc /\ job'[q].usr = job[q].usr /\ job'[q].view = job[q].view
             /\ job'[q].alone = job[q].alone
             /\ job'[q].there = job[q].there /\ job'[q].calm = job[q].calm \ {u}
  <2>1. job[q] \in Jobs /\ IdOK(job[q]) /\ job[q].calm \in SUBSET Users
    BY JobOK
  <2>2. job'[q] = [job[q] EXCEPT !.calm = job[q].calm \ {u}]
    BY DEF Login
  <2> QED BY <2>1, <2>2 DEF Jobs, IdOK
<1>2. job' = [q \in Procs |-> job'[q]]
  BY DEF Login
<1>3. JobsOK
  BY <1>1, <1>2 DEF JobsOK
<1> QED BY <1>1, <1>3

LEMMA ExpireFacts ==
  ASSUME TypeInv, NEW u \in Users, Expire(u)
  PROVE  /\ JobsOK
         /\ \A q \in Procs :
              /\ job'[q].pc = job[q].pc /\ job'[q].usr = job[q].usr /\ job'[q].view = job[q].view
              /\ job'[q].alone = job[q].alone
              /\ job'[q].there = job[q].there \ {u} /\ job'[q].calm = job[q].calm
<1>1. ASSUME NEW q \in Procs
      PROVE  /\ job'[q] \in Jobs /\ IdOK(job'[q])
             /\ job'[q].pc = job[q].pc /\ job'[q].usr = job[q].usr /\ job'[q].view = job[q].view
             /\ job'[q].alone = job[q].alone
             /\ job'[q].there = job[q].there \ {u} /\ job'[q].calm = job[q].calm
  <2>1. job[q] \in Jobs /\ IdOK(job[q]) /\ job[q].there \in SUBSET Users
    BY JobOK
  <2>2. job'[q] = [job[q] EXCEPT !.there = job[q].there \ {u}]
    BY DEF Expire
  <2> QED BY <2>1, <2>2 DEF Jobs, IdOK
<1>2. job' = [q \in Procs |-> job'[q]]
  BY DEF Expire
<1>3. JobsOK
  BY <1>1, <1>2 DEF JobsOK
<1> QED BY <1>1, <1>3

LEMMA DelTokFacts ==
  ASSUME TypeInv, NEW p \in Procs, DelTok(p)
  PROVE  /\ JobsOK
         /\ job'[p].pc = "delPerm"
         /\ \A q \in Procs \ {p} : job'[q].pc = job[q].pc
         /\ \A q \in Procs :
              /\ job'[q].usr = job[q].usr /\ job'[q].view = job[q].view
              /\ job'[q].alone = job[q].alone
              /\ job'[q].there = job[q].there \ job[p].usr /\ job'[q].calm = job[q].calm
<1>1. ASSUME NEW q \in Procs
      PROVE  /\ job'[q] \in Jobs /\ IdOK(job'[q])
             /\ job'[q].pc = IF q = p THEN "delPerm" ELSE job[q].pc
             /\ job'[q].usr = job[q].usr /\ job'[q].view = job[q].view
             /\ job'[q].alone = job[q].alone
             /\ job'[q].there = job[q].there \ job[p].usr /\ job'[q].calm = job[q].calm
  <2> DEFINE pc == IF q = p THEN "delPerm" ELSE job[q].pc
             th == job[q].there \ job[p].usr
             k == [job[q] EXCEPT !.pc = pc, !.there = th]
  <2>1. job[q] \in Jobs /\ IdOK(job[q]) /\ th \in SUBSET Users /\ pc \in Pcs
    BY JobOK DEF Pcs
  <2>2. job'[q] = k
    BY DEF DelTok
  <2>3. pc \in {"roleFind", "roleLoad"} => pc = job[q].pc
    OBVIOUS
  <2> HIDE DEF pc, th
  <2>4. /\ k \in Jobs /\ k.pc = pc /\ k.id = job[q].id
        /\ k.usr = job[q].usr /\ k.view = job[q].view
        /\ k.alone = job[q].alone /\ k.there = th /\ k.calm = job[q].calm
    BY <2>1 DEF Jobs
  <2>5. IdOK(k)
    BY <2>1, <2>3, <2>4 DEF IdOK
  <2> QED BY <2>2, <2>4, <2>5 DEF pc, th
<1>2. job' = [q \in Procs |-> job'[q]]
  BY DEF DelTok
<1>3. JobsOK
  BY <1>1, <1>2 DEF JobsOK
<1> QED BY <1>1, <1>3

\* A handler comes to the refresh of the users it looked up.
LEMMA ToRefresh ==
  ASSUME TypeInv, NEW p \in Procs, NEW pc \in {"refresh", "refreshOne"},
         NEW v \in [Users -> Views],
         job' = [job EXCEPT ![p] = [job[p] EXCEPT !.pc = pc, !.view = v]]
  PROVE  /\ JobsOK /\ Others(p)
         /\ job'[p].pc = pc /\ job'[p].view = v /\ job'[p].usr = job[p].usr
         /\ job'[p].alone = job[p].alone /\ job'[p].there = job[p].there
         /\ job'[p].calm = job[p].calm
<1> DEFINE j == job[p]
           k == [j EXCEPT !.pc = pc, !.view = v]
<1>1. j \in Jobs /\ pc \in Pcs
  BY JobOK DEF Pcs
<1>2. /\ k \in Jobs /\ k.pc = pc /\ k.view = v /\ k.usr = j.usr
      /\ k.alone = j.alone /\ k.there = j.there /\ k.calm = j.calm
  BY <1>1 DEF Jobs
<1>3. IdOK(k)
  BY <1>2 DEF IdOK
<1> HIDE DEF k
<1>4. job' = [job EXCEPT ![p] = k]
  BY DEF k
<1> QED BY <1>2, <1>3, <1>4, JobOK DEF TypeInv, TypeOK, Others, JobsOK

LEMMA ViewFacts ==
  ASSUME TypeInv, NEW p \in Procs, NEW u \in Users, NEW v \in Views, View(p, u, v)
  PROVE  /\ JobsOK /\ Others(p)
         /\ job'[p].pc = job[p].pc /\ job'[p].usr = job[p].usr
         /\ job'[p].alone = job[p].alone /\ job'[p].there = job[p].there
         /\ job'[p].calm = job[p].calm
         /\ job'[p].view[u] = v
         /\ \A w \in Users \ {u} : job'[p].view[w] = job[p].view[w]
<1> DEFINE j == job[p]
           vs == [j.view EXCEPT ![u] = v]
           k == [j EXCEPT !.view = vs]
<1>1. j \in Jobs /\ IdOK(j) /\ vs \in [Users -> Views]
  BY JobOK
<1>2. vs[u] = v /\ \A w \in Users \ {u} : vs[w] = j.view[w]
  BY JobOK
<1>3. job' = [job EXCEPT ![p] = k]
  BY DEF View
<1> HIDE DEF vs
<1>4. /\ k \in Jobs /\ k.pc = j.pc /\ k.id = j.id /\ k.view = vs /\ k.usr = j.usr
      /\ k.alone = j.alone /\ k.there = j.there /\ k.calm = j.calm
  BY <1>1 DEF Jobs
<1>5. IdOK(k)
  BY <1>1, <1>4 DEF IdOK
<1> HIDE DEF k
<1> QED BY <1>2, <1>3, <1>4, <1>5, JobOK DEF TypeInv, TypeOK, Others, JobsOK

LEMMA RoleLoadFacts ==
  ASSUME TypeInv, NEW p \in Procs, RoleLoad(p)
  PROVE  JobsOK /\ Others(p) /\ job'[p].pc = "roleWrite" /\ Same(job[p], job'[p])
<1> DEFINE j == job[p]
           want == j.want \cap Existing
           seen == roleMenus[j.id]
           anew == j.id \notin Live
           k == [j EXCEPT !.pc = "roleWrite", !.want = want, !.seen = seen, !.anew = anew]
<1>1. j \in Jobs /\ IdOK(j) /\ j.pc = "roleLoad"
  BY JobOK DEF RoleLoad, At
<1>2. j.id \in Roles
  BY <1>1 DEF IdOK
<1>3. want \in SUBSET Menus /\ seen \in SUBSET Menus /\ anew \in BOOLEAN
  BY <1>2, JobOK DEF TypeInv, TypeOK
<1>4. job' = [job EXCEPT ![p] = k]
  BY DEF RoleLoad
<1> HIDE DEF want, seen, anew
<1>5. k \in Jobs /\ k.pc = "roleWrite" /\ Same(j, k)
  BY <1>1, <1>3 DEF Jobs, Same, Pcs
<1>6. IdOK(k)
  BY <1>5 DEF IdOK
<1> HIDE DEF k
<1> QED BY <1>4, <1>5, <1>6, JobOK DEF TypeInv, TypeOK, Others, JobsOK

\* The records the handlers begin with.
LEMMA Records ==
  /\ \A u \in Users :
       LET k == [IdleJob EXCEPT !.pc = "refreshOne", !.usr = {u}, !.view[u].at = "roles"]
       IN  /\ k \in Jobs /\ IdOK(k) /\ k.pc = "refreshOne" /\ k.usr = {u}
           /\ k.view = [w \in Users |-> IF w = u THEN [NoView EXCEPT !.at = "roles"] ELSE NoView]
  /\ \A u \in Users :
       LET k == [IdleJob EXCEPT !.pc = "delTok", !.usr = {u}]
       IN  k \in Jobs /\ IdOK(k) /\ k.pc = "delTok"
  /\ \A r \in Roles, ms \in SUBSET Menus :
       LET k == [IdleJob EXCEPT !.pc = "roleFind", !.id = r, !.want = ms]
       IN  k \in Jobs /\ IdOK(k) /\ k.pc = "roleFind"
  /\ \A r \in Roles :
       LET k == [IdleJob EXCEPT !.pc = "roleDrop", !.id = r]
       IN  k \in Jobs /\ IdOK(k) /\ k.pc = "roleDrop"
  /\ LET k == [IdleJob EXCEPT !.pc = "keys"]
     IN  k \in Jobs /\ IdOK(k) /\ k.pc = "keys"
  /\ \A m \in Menus :
       LET k == [IdleJob EXCEPT !.pc = "menuDrop", !.id = m]
       IN  k \in Jobs /\ IdOK(k) /\ k.pc = "menuDrop"
<1>1. ASSUME NEW u \in Users
      PROVE  LET k == [IdleJob EXCEPT !.pc = "refreshOne", !.usr = {u}, !.view[u].at = "roles"]
             IN  /\ k \in Jobs /\ IdOK(k) /\ k.pc = "refreshOne" /\ k.usr = {u}
                 /\ k.view = [w \in Users |-> IF w = u THEN [NoView EXCEPT !.at = "roles"]
                                               ELSE NoView]
  <2> DEFINE v == [w \in Users |-> IF w = u THEN [NoView EXCEPT !.at = "roles"] ELSE NoView]
             k == [IdleJob EXCEPT !.pc = "refreshOne", !.usr = {u}, !.view[u].at = "roles"]
             l == [IdleJob EXCEPT !.pc = "refreshOne", !.usr = {u}, !.view = v]
  <2>1. v \in [Users -> Views]
    BY NoViewOK, RolesViewOK
  <2>2. IdleJob.view = [w \in Users |-> NoView]
    BY DEF IdleJob
  <2>3. [IdleJob.view EXCEPT ![u].at = "roles"] = v
    BY <2>2
  <2>4. k = l
    BY <2>3
  <2> HIDE DEF v, k
  <2>5. l \in Jobs /\ l.pc = "refreshOne" /\ l.usr = {u} /\ l.view = v
    BY <2>1, IdleJobOK DEF Jobs, Pcs
  <2> QED BY <2>4, <2>5 DEF v, k, IdOK
<1> QED BY ZenonT(60), SMTT(60), <1>1, IdleJobOK DEF Jobs, Pcs, IdOK

-----------------------------------------------------------------------------
\* The types

\* The tables have their types after the step, and so has Redis.
DbOK ==
    /\ userRoles' \in [Users -> SUBSET Roles]
    /\ role' \in [Roles -> {"live", "deleted"}]
    /\ roleMenus' \in [Roles -> SUBSET Menus]
    /\ menu' \in [Menus -> {"unused", "plain", "perm", "deleted"}]
RedisOK ==
    /\ online' \in [Users -> BOOLEAN]
    /\ cache' \in [Users -> {Absent} \cup SUBSET Menus]
PastOK ==
    /\ fresh' \in SUBSET Users
    /\ apart' \in BOOLEAN
    /\ shut' \in SUBSET Users

LEMMA DbSame == TypeInv /\ UNCHANGED db => DbOK
  BY DEF TypeInv, TypeOK, DbOK, db
LEMMA RedisSame == TypeInv /\ UNCHANGED redis => RedisOK
  BY DEF TypeInv, TypeOK, RedisOK, redis
LEMMA PastSame == TypeInv /\ UNCHANGED past => PastOK
  BY DEF TypeInv, TypeOK, PastOK, past
LEMMA TypeParts == DbOK /\ RedisOK /\ PastOK /\ JobsOK => TypeInv'
  BY DEF TypeInv, TypeOK, DbOK, RedisOK, PastOK, JobsOK

\* A handler that begins without a change of roles or menus.
LEMMA BeginType ==
  ASSUME TypeInv, NEW p \in Procs, NEW rec \in Jobs, IdOK(rec), Start(p, rec), UNCHANGED shut
  PROVE  JobsOK /\ PastOK
<1>1. JobsOK /\ fresh' = {} /\ apart' = apart
  BY StartFacts
<1> QED BY <1>1 DEF PastOK, TypeInv, TypeOK

LEMMA ArriveType ==
  ASSUME TypeInv, NEW p \in Procs, Arrive(p)
  PROVE  TypeInv'
<1>1. ASSUME NEW u \in Users, NEW rs \in SUBSET Roles, Assign(p, u, rs)
      PROVE  TypeInv'
  <2>1. JobsOK /\ PastOK
    BY <1>1, Records, BeginType DEF Assign
  <2>2. DbOK /\ RedisOK
    BY <1>1, RedisSame DEF Assign, DbOK, TypeInv, TypeOK
  <2> QED BY <2>1, <2>2, TypeParts
<1>2. ASSUME NEW u \in Users, Disable(p, u)
      PROVE  TypeInv'
  BY <1>2, Records, BeginType, DbSame, RedisSame, TypeParts DEF Disable
<1>3. ASSUME NEW r \in Roles, NEW ms \in SUBSET Menus, RoleUpdate(p, r, ms)
      PROVE  TypeInv'
  BY <1>3, Records, BeginType, DbSame, RedisSame, TypeParts DEF RoleUpdate
<1>4. ASSUME NEW r \in Roles, RoleDelete(p, r)
      PROVE  TypeInv'
  BY <1>4, Records, BeginType, DbSame, RedisSame, TypeParts DEF RoleDelete
<1>5. ASSUME NEW m \in Menus, MenuCreate(p, m)
      PROVE  TypeInv'
  <2>1. JobsOK /\ PastOK
    BY <1>5, Records, BeginType DEF MenuCreate
  <2>2. DbOK /\ RedisOK
    BY <1>5, RedisSame DEF MenuCreate, DbOK, TypeInv, TypeOK
  <2> QED BY <2>1, <2>2, TypeParts
<1>6. ASSUME NEW m \in Menus, NEW to \in {"plain", "perm"}, NEW typed \in BOOLEAN,
             MenuUpdate(p, m, to, typed)
      PROVE  TypeInv'
  <2>1. JobsOK /\ PastOK
    <3>1. CASE typed
      BY <1>6, <3>1, Records, BeginType DEF MenuUpdate
    <3>2. CASE ~typed
      BY <1>6, <3>2, DisturbedFacts DEF MenuUpdate, PastOK, TypeInv, TypeOK
    <3> QED BY <3>1, <3>2
  <2>2. DbOK /\ RedisOK
    BY <1>6, RedisSame DEF MenuUpdate, DbOK, TypeInv, TypeOK
  <2> QED BY <2>1, <2>2, TypeParts
<1>7. ASSUME NEW m \in Menus, MenuDelete(p, m)
      PROVE  TypeInv'
  BY <1>7, Records, BeginType, DbSame, RedisSame, TypeParts DEF MenuDelete
<1> QED BY <1>1, <1>2, <1>3, <1>4, <1>5, <1>6, <1>7 DEF Arrive

LEMMA UpdateType ==
  ASSUME TypeInv, NEW p \in Procs, Update(p)
  PROVE  TypeInv'
<1> USE DEF Pcs, At
<1>1. CASE DelTok(p)
  <2>1. RedisOK
    BY <1>1 DEF DelTok, RedisOK, TypeInv, TypeOK
  <2> QED BY <1>1, <2>1, DelTokFacts, DbSame, PastSame, TypeParts DEF DelTok
<1>2. CASE DelPerm(p)
  <2>1. RedisOK
    BY <1>2 DEF DelPerm, RedisOK, TypeInv, TypeOK
  <2>2. JobsOK
    BY <1>2, GotoFacts DEF DelPerm
  <2> QED BY <1>2, <2>1, <2>2, DbSame, PastSame, TypeParts DEF DelPerm
<1>3. CASE Commit(p)
  <2> DEFINE v == [u \in Users |->
                     IF u \in job[p].usr THEN [NoView EXCEPT !.at = "roles"] ELSE NoView]
  <2>1. v \in [Users -> Views]
    BY NoViewOK, RolesViewOK
  <2>2. job' = [job EXCEPT ![p] = [job[p] EXCEPT !.pc = "refreshOne", !.view = v]]
    BY <1>3 DEF Commit
  <2> HIDE DEF v
  <2>3. JobsOK
    BY <2>1, <2>2, ToRefresh
  <2>4. PastOK
    BY <1>3, JobOK DEF Commit, PastOK, TypeInv, TypeOK
  <2> QED BY <1>3, <2>3, <2>4, DbSame, RedisSame, TypeParts DEF Commit
<1>4. CASE RoleFind(p)
  <2>1. JobsOK
    BY <1>4, GotoFacts, EndFacts DEF RoleFind
  <2> QED BY <1>4, <2>1, DbSame, RedisSame, PastSame, TypeParts DEF RoleFind
<1>5. CASE RoleLoad(p)
  BY <1>5, RoleLoadFacts, DbSame, RedisSame, PastSame, TypeParts DEF RoleLoad
<1>6. CASE RoleWrite(p)
  <2>1. JobsOK
    BY <1>6, GotoFacts, EndFacts DEF RoleWrite
  <2>2. DbOK
    BY <1>6, JobOK DEF RoleWrite, DbOK, TypeInv, TypeOK
  <2> QED BY <1>6, <2>1, <2>2, RedisSame, PastSame, TypeParts DEF RoleWrite
<1>7. CASE RoleDrop(p)
  <2>1. JobsOK
    BY <1>7, GotoFacts, EndFacts DEF RoleDrop
  <2>2. DbOK
    BY <1>7 DEF RoleDrop, DbOK, TypeInv, TypeOK
  <2> QED BY <1>7, <2>1, <2>2, RedisSame, PastSame, TypeParts DEF RoleDrop
<1>8. CASE MenuDrop(p)
  <2>1. JobsOK
    BY <1>8, GotoFacts DEF MenuDrop
  <2>2. DbOK
    BY <1>8 DEF MenuDrop, DbOK, TypeInv, TypeOK
  <2> QED BY <1>8, <2>1, <2>2, RedisSame, PastSame, TypeParts DEF MenuDrop
<1> QED BY <1>1, <1>2, <1>3, <1>4, <1>5, <1>6, <1>7, <1>8 DEF Update

\* The view a handler has of a user, and the permissions it read.
LEMMA ViewIs ==
  ASSUME TypeInv, NEW p \in Procs, NEW u \in Users
  PROVE  /\ job[p].view[u] \in Views
         /\ job[p].view[u].roles \in SUBSET Roles /\ job[p].view[u].perms \in SUBSET Menus
  BY JobOK DEF Views

LEMMA PermsOfOK == \A rs : PermsOf(rs) \in SUBSET Menus
  BY DEF PermsOf

LEMMA DoneType ==
  ASSUME TypeInv, NEW p \in Procs, NEW u \in Users, Done(p, u), UNCHANGED shut
  PROVE  JobsOK /\ PastOK
<1>1. CASE \A w \in Users \ {u} : job[p].view[w] = NoView
  BY <1>1, EndFacts, JobOK DEF Done, PastOK, TypeInv, TypeOK
<1>2. CASE ~\A w \in Users \ {u} : job[p].view[w] = NoView
  BY <1>2, ViewFacts, NoViewOK DEF Done, PastOK, TypeInv, TypeOK
<1> QED BY <1>1, <1>2

LEMMA RefreshType ==
  ASSUME TypeInv, NEW p \in Procs, Refresh(p)
  PROVE  TypeInv'
<1>1. CASE Keys(p)
  <2>1. JobsOK
    <3>1. CASE \E u \in Users : online[u]
      <4> DEFINE v == [u \in Users |-> IF online[u] THEN [NoView EXCEPT !.at = "roles"] ELSE NoView]
      <4>1. v \in [Users -> Views]
        BY NoViewOK, RolesViewOK
      <4>2. job' = [job EXCEPT ![p] = [job[p] EXCEPT !.pc = "refresh", !.view = v]]
        BY <1>1, <3>1 DEF Keys
      <4> HIDE DEF v
      <4> QED BY <4>1, <4>2, ToRefresh
    <3>2. CASE ~\E u \in Users : online[u]
      BY <1>1, <3>2, EndFacts DEF Keys
    <3> QED BY <3>1, <3>2
  <2> QED BY <1>1, <2>1, DbSame, RedisSame, PastSame, TypeParts DEF Keys
<1>2. ASSUME NEW u \in Users, ReadRoles(p, u)
      PROVE  TypeInv'
  <2> DEFINE v == [NoView EXCEPT !.at = "menus", !.roles = userRoles[u]]
  <2>1. v \in Views
    <3>1. userRoles[u] \in SUBSET Roles
      BY DEF TypeInv, TypeOK
    <3> QED BY <3>1 DEF NoView, Views
  <2>2. View(p, u, v)
    BY <1>2 DEF ReadRoles
  <2> HIDE DEF v
  <2>3. JobsOK
    BY <2>1, <2>2, ViewFacts
  <2> QED BY <1>2, <2>3, DbSame, RedisSame, PastSame, TypeParts DEF ReadRoles
<1>3. ASSUME NEW u \in Users, ReadMenus(p, u)
      PROVE  TypeInv'
  <2> DEFINE at == IF At(p, "refreshOne") THEN "online" ELSE "set"
             v == [at |-> at, roles |-> {}, perms |-> PermsOf(job[p].view[u].roles)]
  <2>1. at \in {"no", "roles", "menus", "online", "set"}
    OBVIOUS
  <2>2. View(p, u, v)
    BY <1>3 DEF ReadMenus
  <2> HIDE DEF at
  <2>3. v \in Views
    BY <2>1, PermsOfOK, ViewOK
  <2> HIDE DEF v
  <2>4. JobsOK
    BY <2>2, <2>3, ViewFacts
  <2> QED BY <1>3, <2>4, DbSame, RedisSame, PastSame, TypeParts DEF ReadMenus
<1>4. ASSUME NEW u \in Users, CheckOnline(p, u)
      PROVE  TypeInv'
  <2>1. JobsOK /\ PastOK
    <3>1. CASE online[u]
      <4> DEFINE v == [job[p].view[u] EXCEPT !.at = "set"]
      <4>1. v \in Views
        BY ViewIs DEF Views
      <4>2. View(p, u, v)
        BY <1>4, <3>1 DEF CheckOnline
      <4> HIDE DEF v
      <4>3. JobsOK
        BY <4>1, <4>2, ViewFacts
      <4> QED BY <1>4, <3>1, <4>3 DEF CheckOnline, PastOK, TypeInv, TypeOK
    <3>2. CASE ~online[u]
      BY <1>4, <3>2, DoneType DEF CheckOnline
    <3> QED BY <3>1, <3>2
  <2> QED BY <1>4, <2>1, DbSame, RedisSame, TypeParts DEF CheckOnline
<1>5. ASSUME NEW u \in Users, SetCache(p, u)
      PROVE  TypeInv'
  <2>1. JobsOK /\ PastOK
    BY <1>5, DoneType DEF SetCache
  <2>2. RedisOK
    BY <1>5, ViewIs DEF SetCache, RedisOK, TypeInv, TypeOK
  <2> QED BY <1>5, <2>1, <2>2, DbSame, TypeParts DEF SetCache
<1> QED BY <1>1, <1>2, <1>3, <1>4, <1>5 DEF Refresh

LEMMA SessionType ==
  ASSUME TypeInv, NEW u \in Users, Login(u) \/ Expire(u)
  PROVE  TypeInv'
<1>1. CASE Login(u)
  <2>1. RedisOK /\ PastOK
    BY <1>1 DEF Login, RedisOK, PastOK, TypeInv, TypeOK
  <2> QED BY <1>1, <2>1, LoginFacts, DbSame, TypeParts DEF Login
<1>2. CASE Expire(u)
  <2>1. RedisOK
    BY <1>2 DEF Expire, RedisOK, TypeInv, TypeOK
  <2> QED BY <1>2, <2>1, ExpireFacts, DbSame, PastSame, TypeParts DEF Expire
<1> QED BY <1>1, <1>2

LEMMA InitTypeInv == Init => TypeInv
<1> SUFFICES ASSUME Init PROVE TypeInv
  OBVIOUS
<1>1. job \in [Procs -> Jobs] /\ \A p \in Procs : IdOK(job[p])
  <2>1. job = [p \in Procs |-> IdleJob]
    BY DEF Init
  <2> QED BY <2>1, IdleJobOK
<1>2. role \in [Roles -> {"live", "deleted"}] /\ menu \in [Menus -> {"unused", "plain", "perm", "deleted"}]
  BY DEF Init
<1>3. /\ online \in [Users -> BOOLEAN] /\ cache \in [Users -> {Absent} \cup SUBSET Menus]
      /\ fresh \in SUBSET Users /\ apart \in BOOLEAN /\ shut \in SUBSET Users
  BY DEF Init
<1>4. userRoles \in [Users -> SUBSET Roles] /\ roleMenus \in [Roles -> SUBSET Menus]
  BY DEF Init
<1> QED BY <1>1, <1>2, <1>3, <1>4 DEF TypeInv, TypeOK

LEMMA NextTypeInv == TypeInv /\ [Next]_vars => TypeInv'
<1> SUFFICES ASSUME TypeInv, [Next]_vars PROVE TypeInv'
  OBVIOUS
<1>1. ASSUME NEW p \in Procs, Abort(p) PROVE TypeInv'
  BY <1>1, EndFacts, DbSame, RedisSame, PastSame, TypeParts DEF Abort
<1>2. CASE UNCHANGED vars
  BY <1>2 DEF vars, db, redis, past, TypeInv, TypeOK
<1> QED BY <1>1, <1>2, SessionType, ArriveType, UpdateType, RefreshType DEF Next

\* TypeCorrect: whatever users, roles, menus and handlers there are, every
\* variable stays in its type, and a role update works on a role id.
THEOREM TypeCorrect == Spec => []TypeOK
<1>1. TypeInv => TypeOK
  BY DEF TypeInv
<1> QED BY <1>1, InitTypeInv, NextTypeInv, PTL DEF Spec

-----------------------------------------------------------------------------
\* Nothing refers to what is gone.

LEMMA DbQuiet == NoOrphans /\ UNCHANGED db => NoOrphans'
  BY DEF NoOrphans, Live, Existing, db

LEMMA ArriveOrphans ==
  ASSUME TypeInv, NoOrphans, NEW p \in Procs, Arrive(p)
  PROVE  NoOrphans'
<1>1. ASSUME NEW u \in Users, NEW rs \in SUBSET Roles, Assign(p, u, rs)
      PROVE  NoOrphans'
  <2>1. rs \subseteq Live /\ UNCHANGED <<role, roleMenus, menu>>
    BY <1>1 DEF Assign
  <2>2. \A w \in Users : userRoles'[w] = IF w = u THEN rs ELSE userRoles[w]
    BY <1>1 DEF Assign, TypeInv, TypeOK
  <2> QED BY <2>1, <2>2 DEF NoOrphans, Live, Existing
<1>2. ASSUME NEW m \in Menus,
             \/ MenuCreate(p, m)
             \/ \E to \in {"plain", "perm"}, typed \in BOOLEAN : MenuUpdate(p, m, to, typed)
      PROVE  NoOrphans'
  <2>1. UNCHANGED <<userRoles, role, roleMenus>>
    BY <1>2 DEF MenuCreate, MenuUpdate
  <2>2. \A n \in Menus : menu'[n] = menu[n] \/ menu'[n] \in {"plain", "perm"}
    BY <1>2 DEF MenuCreate, MenuUpdate, TypeInv, TypeOK
  <2> QED BY <2>1, <2>2 DEF NoOrphans, Live, Existing
<1>3. CASE UNCHANGED db
  BY <1>3, DbQuiet
<1> QED BY <1>1, <1>2, <1>3 DEF Arrive, Disable, RoleUpdate, RoleDelete, MenuDelete

\* save(): the rows it inserts have their menus and their role, and a role that
\* is gone has no rows it could keep.
LEMMA RoleWriteOrphans ==
  ASSUME TypeInv, NoOrphans, NEW p \in Procs, RoleWrite(p)
  PROVE  NoOrphans'
<1> DEFINE r == job[p].id
           inserted == job[p].want \ job[p].seen
           removed == job[p].seen \ job[p].want
<1>1. UNCHANGED <<userRoles, menu>>
  BY DEF RoleWrite
<1>2. CASE UNCHANGED <<role, roleMenus>>
  BY <1>1, <1>2, DbQuiet DEF db
<1>3. CASE /\ job[p].anew => r \notin Live
           /\ inserted \subseteq Existing \ roleMenus[r]
           /\ inserted # {} => r \in Live \/ job[p].anew
           /\ roleMenus' = [roleMenus EXCEPT ![r] = (@ \ removed) \cup inserted]
           /\ role' = [role EXCEPT ![r] = IF job[p].anew THEN "live" ELSE @]
  <2> HIDE DEF inserted, removed
  <2>1. \A s \in Roles \ {r} : role'[s] = role[s] /\ roleMenus'[s] = roleMenus[s]
    BY <1>3 DEF TypeInv, TypeOK
  <2>2. CASE r \in Roles
    <3>1. /\ roleMenus'[r] = (roleMenus[r] \ removed) \cup inserted
          /\ role'[r] = IF job[p].anew THEN "live" ELSE role[r]
      BY <1>3, <2>2 DEF TypeInv, TypeOK
    <3>2. Live \subseteq Live' /\ Existing' = Existing
      BY <1>1, <2>1, <3>1 DEF Live, Existing
    <3>3. roleMenus'[r] \subseteq IF r \in Live' THEN Existing ELSE {}
      BY <1>3, <2>2, <3>1, <3>2 DEF NoOrphans, Live
    <3>4. \A s \in Roles \ {r} : s \in Live' <=> s \in Live
      BY <2>1 DEF Live
    <3> QED BY <1>1, <2>1, <3>2, <3>3, <3>4 DEF NoOrphans
  <2>3. CASE r \notin Roles
    <3>1. UNCHANGED <<role, roleMenus>>
      BY <1>3, <2>3 DEF TypeInv, TypeOK
    <3> QED BY <1>1, <3>1, DbQuiet DEF db
  <2> QED BY <2>2, <2>3
<1> QED BY <1>2, <1>3 DEF RoleWrite

LEMMA UpdateOrphans ==
  ASSUME TypeInv, NoOrphans, NEW p \in Procs, Update(p)
  PROVE  NoOrphans'
<1>1. CASE RoleDrop(p)
  <2> DEFINE r == job[p].id
  <2>1. UNCHANGED <<userRoles, menu>>
    BY <1>1 DEF RoleDrop
  <2>2. CASE \E u \in Users : r \in userRoles[u]
    BY <1>1, <2>1, <2>2, DbQuiet DEF RoleDrop, db
  <2>3. CASE ~\E u \in Users : r \in userRoles[u]
    <3>1. \A s \in Roles : IF s = r THEN role'[s] = "deleted" /\ roleMenus'[s] = {}
                           ELSE role'[s] = role[s] /\ roleMenus'[s] = roleMenus[s]
      BY <1>1, <2>3 DEF RoleDrop, TypeInv, TypeOK
    <3> QED BY <2>1, <2>3, <3>1 DEF NoOrphans, Live, Existing
  <2> QED BY <2>2, <2>3
<1>2. CASE MenuDrop(p)
  <2> DEFINE gone == ({job[p].id} \cup Below[job[p].id]) \cap Existing
  <2>1. UNCHANGED <<userRoles, role>>
    BY <1>2 DEF MenuDrop
  <2>2. /\ \A m \in Menus : menu'[m] = IF m \in gone THEN "deleted" ELSE menu[m]
        /\ \A r \in Roles : roleMenus'[r] = roleMenus[r] \ gone
    BY <1>2 DEF MenuDrop
  <2> HIDE DEF gone
  <2>3. Live' = Live /\ Existing' = Existing \ gone
    BY <2>1, <2>2 DEF Live, Existing
  <2> QED BY <2>1, <2>2, <2>3 DEF NoOrphans
<1>3. CASE UNCHANGED db
  BY <1>3, DbQuiet
<1> QED BY <1>1, <1>2, <1>3, RoleWriteOrphans
        DEF Update, DelTok, DelPerm, Commit, RoleFind, RoleLoad

LEMMA NextOrphans == TypeInv /\ NoOrphans /\ [Next]_vars => NoOrphans'
<1> SUFFICES ASSUME TypeInv, NoOrphans, [Next]_vars PROVE NoOrphans'
  OBVIOUS
<1>1. ASSUME NEW u \in Users, Login(u) \/ Expire(u) PROVE NoOrphans'
  BY <1>1, DbQuiet DEF Login, Expire
<1>2. ASSUME NEW p \in Procs, Refresh(p) \/ Abort(p) PROVE NoOrphans'
  BY <1>2, DbQuiet DEF Refresh, Keys, ReadRoles, ReadMenus, CheckOnline, SetCache, Abort
<1>3. CASE UNCHANGED vars
  BY <1>3, DbQuiet DEF vars
<1> QED BY <1>1, <1>2, <1>3, ArriveOrphans, UpdateOrphans DEF Next

LEMMA InitOrphans == Init => NoOrphans
  BY DEF Init, NoOrphans, Live, Existing

\* NothingOrphaned: whatever admin handlers run at the same time, and wherever
\* they stop, no user has a role that is gone and no role a menu that is: the
\* check before a deletion may be out of date, the one in the database is not.
THEOREM NothingOrphaned == Spec => []NoOrphans
  BY InitTypeInv, NextTypeInv, InitOrphans, NextOrphans, PTL DEF Spec

-----------------------------------------------------------------------------
\* A handler that is alone

\* While a handler is alone no other runs.
AloneInv == \A p, q \in Procs : p # q /\ job[p].alone => Idle(q)

\* The step is one of p, or of nobody's: the others stay where they are.
StaysBut(q) ==
    /\ job'[q].pc = job[q].pc /\ job'[q].usr = job[q].usr /\ job'[q].view = job[q].view
    /\ job'[q].alone => job[q].alone
    /\ job'[q].there \subseteq job[q].there /\ job'[q].calm \subseteq job[q].calm

LEMMA OthersStay ==
  ASSUME NEW p \in Procs, Others(p)
  PROVE  \A q \in Procs \ {p} : StaysBut(q)
  BY DEF Others, StaysBut

\* A handler that runs goes on, or ends.
LEMMA MoveFacts ==
  ASSUME TypeInv, NEW p \in Procs, Update(p) \/ Refresh(p) \/ Abort(p)
  PROVE  /\ ~Idle(p)
         /\ \A q \in Procs \ {p} : StaysBut(q)
         /\ job'[p].alone => job[p].alone
         /\ job'[p].there \subseteq job[p].there
<1> USE DEF Pcs, At, Idle
<1>1. CASE DelTok(p)
  <2>1. ~Idle(p)
    BY <1>1 DEF DelTok
  <2> QED BY <1>1, <2>1, DelTokFacts DEF StaysBut
<1>2. CASE Commit(p)
  <2> DEFINE v == [u \in Users |->
                     IF u \in job[p].usr THEN [NoView EXCEPT !.at = "roles"] ELSE NoView]
  <2>1. v \in [Users -> Views]
    BY NoViewOK, RolesViewOK
  <2>2. job' = [job EXCEPT ![p] = [job[p] EXCEPT !.pc = "refreshOne", !.view = v]]
    BY <1>2 DEF Commit
  <2> HIDE DEF v
  <2>3. ~Idle(p)
    BY <1>2 DEF Commit
  <2> QED BY <2>1, <2>2, <2>3, ToRefresh, OthersStay
<1>3. CASE RoleLoad(p)
  <2>1. ~Idle(p)
    BY <1>3 DEF RoleLoad
  <2> QED BY <1>3, <2>1, RoleLoadFacts, OthersStay DEF Same
<1>4. ASSUME NEW pc \in {"commit", "roleLoad", "keys"}, Goto(p, pc),
             pc = "roleLoad" => job[p].pc = "roleFind"
      PROVE  /\ \A q \in Procs \ {p} : StaysBut(q)
             /\ job'[p].alone => job[p].alone
             /\ job'[p].there \subseteq job[p].there
  BY <1>4, GotoFacts, OthersStay DEF Same
<1>5. ASSUME End(p)
      PROVE  /\ \A q \in Procs \ {p} : StaysBut(q)
             /\ job'[p].alone => job[p].alone
             /\ job'[p].there \subseteq job[p].there
  BY <1>5, EndFacts, IdleJobOK, OthersStay
<1>6. CASE DelPerm(p) \/ RoleFind(p) \/ RoleWrite(p) \/ RoleDrop(p) \/ MenuDrop(p) \/ Abort(p)
  <2>1. ~Idle(p)
    BY <1>6 DEF DelPerm, RoleFind, RoleWrite, RoleDrop, MenuDrop, Abort
  <2>2. End(p) \/ \E pc \in {"commit", "roleLoad", "keys"} :
                    Goto(p, pc) /\ (pc = "roleLoad" => job[p].pc = "roleFind")
    BY <1>6 DEF DelPerm, RoleFind, RoleWrite, RoleDrop, MenuDrop, Abort
  <2> QED BY <1>4, <1>5, <2>1, <2>2
<1>7. CASE Keys(p)
  <2>1. CASE \E u \in Users : online[u]
    <3> DEFINE v == [u \in Users |-> IF online[u] THEN [NoView EXCEPT !.at = "roles"] ELSE NoView]
    <3>1. v \in [Users -> Views]
      BY NoViewOK, RolesViewOK
    <3>2. job' = [job EXCEPT ![p] = [job[p] EXCEPT !.pc = "refresh", !.view = v]]
      BY <1>7, <2>1 DEF Keys
    <3> HIDE DEF v
    <3>3. ~Idle(p)
      BY <1>7 DEF Keys
    <3> QED BY <3>1, <3>2, <3>3, ToRefresh, OthersStay
  <2>2. CASE ~\E u \in Users : online[u]
    BY <1>5, <1>7, <2>2 DEF Keys
  <2> QED BY <2>1, <2>2
<1>8. ASSUME NEW u \in Users,
             ReadRoles(p, u) \/ ReadMenus(p, u) \/ CheckOnline(p, u) \/ SetCache(p, u)
      PROVE  /\ ~Idle(p)
             /\ \A q \in Procs \ {p} : StaysBut(q)
             /\ job'[p].alone => job[p].alone
             /\ job'[p].there \subseteq job[p].there
  <2>1. ~Idle(p)
    BY <1>8 DEF ReadRoles, ReadMenus, CheckOnline, SetCache, ViewAt
  <2>2. End(p) \/ \E v \in Views : View(p, u, v)
    <3>1. CASE ReadRoles(p, u)
      <4>1. [NoView EXCEPT !.at = "menus", !.roles = userRoles[u]] \in Views
        BY DEF TypeInv, TypeOK, NoView, Views
      <4> QED BY <3>1, <4>1 DEF ReadRoles
    <3>2. CASE ReadMenus(p, u)
      <4> DEFINE at == IF At(p, "refreshOne") THEN "online" ELSE "set"
      <4>1. at \in {"no", "roles", "menus", "online", "set"}
        OBVIOUS
      <4> HIDE DEF at
      <4>2. [at |-> at, roles |-> {}, perms |-> PermsOf(job[p].view[u].roles)] \in Views
        BY <4>1, PermsOfOK, ViewOK
      <4> QED BY <3>2, <4>2 DEF ReadMenus, at
    <3>3. CASE CheckOnline(p, u)
      <4>1. [job[p].view[u] EXCEPT !.at = "set"] \in Views
        BY ViewIs DEF Views
      <4> QED BY <3>3, <4>1, NoViewOK DEF CheckOnline, Done
    <3>4. CASE SetCache(p, u)
      BY <3>4, NoViewOK DEF SetCache, Done
    <3> QED BY <1>8, <3>1, <3>2, <3>3, <3>4
  <2> QED BY <1>5, <2>1, <2>2, ViewFacts, OthersStay
<1> QED BY <1>1, <1>2, <1>3, <1>6, <1>7, <1>8 DEF Update, Refresh

\* A handler that arrives starts, or leaves it at one write of a menu.
LEMMA ArriveFacts ==
  ASSUME TypeInv, NEW p \in Procs, Arrive(p)
  PROVE  /\ fresh' = {} /\ apart' = apart /\ UNCHANGED <<redis, shut>>
         /\ \A q \in Procs \ {p} : StaysBut(q) /\ ~job'[q].alone
         /\ job'[p].alone => \A q \in Procs : Idle(q)
         /\ job'[p].there = {u \in Users : online[u]} \/ (Idle(p)' /\ job'[p].there \subseteq job[p].there)
         /\ \/ job'[p].pc \in {"idle", "delTok", "roleFind", "roleDrop", "menuDrop", "keys"}
            \/ \E u \in Users : /\ job'[p].pc = "refreshOne" /\ job'[p].usr = {u}
                                /\ job'[p].view = [w \in Users |-> IF w = u
                                      THEN [NoView EXCEPT !.at = "roles"] ELSE NoView]
<1>1. ASSUME NEW rec \in Jobs, IdOK(rec), Start(p, rec)
      PROVE  /\ fresh' = {} /\ apart' = apart
             /\ \A q \in Procs \ {p} : StaysBut(q) /\ ~job'[q].alone
             /\ job'[p].alone => \A q \in Procs : Idle(q)
             /\ job'[p].there = {u \in Users : online[u]}
             /\ job'[p].pc = rec.pc /\ job'[p].usr = rec.usr /\ job'[p].view = rec.view
  BY <1>1, StartFacts DEF StaysBut
<1>2. ASSUME NEW u \in Users, NEW rs \in SUBSET Roles, Assign(p, u, rs)
      PROVE  /\ UNCHANGED <<redis, shut>>
             /\ \E rec \in Jobs : /\ IdOK(rec) /\ Start(p, rec) /\ rec.pc = "refreshOne" /\ rec.usr = {u}
                                  /\ rec.view = [w \in Users |-> IF w = u
                                      THEN [NoView EXCEPT !.at = "roles"] ELSE NoView]
  <2> DEFINE k == [IdleJob EXCEPT !.pc = "refreshOne", !.usr = {u}, !.view[u].at = "roles"]
  <2>1. Start(p, k) /\ UNCHANGED <<redis, shut>>
    BY <1>2 DEF Assign
  <2>2. k \in Jobs /\ IdOK(k) /\ k.pc = "refreshOne" /\ k.usr = {u}
        /\ k.view = [w \in Users |-> IF w = u THEN [NoView EXCEPT !.at = "roles"] ELSE NoView]
    BY Records
  <2> HIDE DEF k
  <2> QED BY <2>1, <2>2
<1>3. ASSUME \/ \E u \in Users : Disable(p, u)
             \/ \E r \in Roles, ms \in SUBSET Menus : RoleUpdate(p, r, ms)
             \/ \E r \in Roles : RoleDelete(p, r)
             \/ \E m \in Menus : MenuCreate(p, m) \/ MenuDelete(p, m)
             \/ \E m \in Menus, to \in {"plain", "perm"} : MenuUpdate(p, m, to, TRUE)
      PROVE  /\ UNCHANGED <<redis, shut>>
             /\ \E rec \in Jobs : /\ IdOK(rec) /\ Start(p, rec)
                                  /\ rec.pc \in {"delTok", "roleFind", "roleDrop", "menuDrop", "keys"}
  <2>1. ASSUME NEW u \in Users, Disable(p, u)
        PROVE  Start(p, [IdleJob EXCEPT !.pc = "delTok", !.usr = {u}]) /\ UNCHANGED <<redis, shut>>
    BY <2>1 DEF Disable
  <2>2. ASSUME NEW r \in Roles, NEW ms \in SUBSET Menus, RoleUpdate(p, r, ms)
        PROVE  Start(p, [IdleJob EXCEPT !.pc = "roleFind", !.id = r, !.want = ms])
               /\ UNCHANGED <<redis, shut>>
    BY <2>2 DEF RoleUpdate
  <2>3. ASSUME NEW r \in Roles, RoleDelete(p, r)
        PROVE  Start(p, [IdleJob EXCEPT !.pc = "roleDrop", !.id = r]) /\ UNCHANGED <<redis, shut>>
    BY <2>3 DEF RoleDelete
  <2>4. ASSUME NEW m \in Menus,
               MenuCreate(p, m) \/ \E to \in {"plain", "perm"} : MenuUpdate(p, m, to, TRUE)
        PROVE  Start(p, [IdleJob EXCEPT !.pc = "keys"]) /\ UNCHANGED <<redis, shut>>
    BY <2>4 DEF MenuCreate, MenuUpdate
  <2>5. ASSUME NEW m \in Menus, MenuDelete(p, m)
        PROVE  Start(p, [IdleJob EXCEPT !.pc = "menuDrop", !.id = m]) /\ UNCHANGED <<redis, shut>>
    BY <2>5 DEF MenuDelete
  <2> DEFINE Begun == /\ UNCHANGED <<redis, shut>>
                      /\ \E rec \in Jobs : /\ IdOK(rec) /\ Start(p, rec)
                           /\ rec.pc \in {"delTok", "roleFind", "roleDrop", "menuDrop", "keys"}
  <2>6. ASSUME NEW u \in Users, Disable(p, u) PROVE Begun
    <3> DEFINE k == [IdleJob EXCEPT !.pc = "delTok", !.usr = {u}]
    <3>1. Start(p, k) /\ UNCHANGED <<redis, shut>>
      BY <2>1, <2>6
    <3>2. k \in Jobs /\ IdOK(k) /\ k.pc = "delTok"
      BY Records
    <3> HIDE DEF k
    <3> QED BY <3>1, <3>2
  <2>7. ASSUME NEW r \in Roles, NEW ms \in SUBSET Menus, RoleUpdate(p, r, ms) PROVE Begun
    <3> DEFINE k == [IdleJob EXCEPT !.pc = "roleFind", !.id = r, !.want = ms]
    <3>1. Start(p, k) /\ UNCHANGED <<redis, shut>>
      BY <2>2, <2>7
    <3>2. k \in Jobs /\ IdOK(k) /\ k.pc = "roleFind"
      BY Records
    <3> HIDE DEF k
    <3> QED BY <3>1, <3>2
  <2>8. ASSUME NEW r \in Roles, RoleDelete(p, r) PROVE Begun
    <3> DEFINE k == [IdleJob EXCEPT !.pc = "roleDrop", !.id = r]
    <3>1. Start(p, k) /\ UNCHANGED <<redis, shut>>
      BY <2>3, <2>8
    <3>2. k \in Jobs /\ IdOK(k) /\ k.pc = "roleDrop"
      BY Records
    <3> HIDE DEF k
    <3> QED BY <3>1, <3>2
  <2>9. ASSUME NEW m \in Menus,
               MenuCreate(p, m) \/ \E to \in {"plain", "perm"} : MenuUpdate(p, m, to, TRUE)
        PROVE  Begun
    <3> DEFINE k == [IdleJob EXCEPT !.pc = "keys"]
    <3>1. Start(p, k) /\ UNCHANGED <<redis, shut>>
      BY <2>4, <2>9
    <3>2. k \in Jobs /\ IdOK(k) /\ k.pc = "keys"
      BY Records
    <3> HIDE DEF k
    <3> QED BY <3>1, <3>2
  <2>10. ASSUME NEW m \in Menus, MenuDelete(p, m) PROVE Begun
    <3> DEFINE k == [IdleJob EXCEPT !.pc = "menuDrop", !.id = m]
    <3>1. Start(p, k) /\ UNCHANGED <<redis, shut>>
      BY <2>5, <2>10
    <3>2. k \in Jobs /\ IdOK(k) /\ k.pc = "menuDrop"
      BY Records
    <3> HIDE DEF k
    <3> QED BY <3>1, <3>2
  <2> QED BY <1>3, <2>6, <2>7, <2>8, <2>9, <2>10
<1>4. ASSUME NEW m \in Menus, NEW to \in {"plain", "perm"}, MenuUpdate(p, m, to, FALSE)
      PROVE  /\ fresh' = {} /\ apart' = apart /\ UNCHANGED <<redis, shut>>
             /\ \A q \in Procs : StaysBut(q) /\ ~job'[q].alone
             /\ Idle(p)
  BY <1>4, DisturbedFacts DEF MenuUpdate, StaysBut
<1>5. CASE \E u \in Users, rs \in SUBSET Roles : Assign(p, u, rs)
  BY <1>1, <1>2, <1>5
<1>6. CASE \E m \in Menus, to \in {"plain", "perm"} : MenuUpdate(p, m, to, FALSE)
  BY <1>4, <1>6 DEF Idle, At, StaysBut
<1>7. CASE \/ \E u \in Users : Disable(p, u)
           \/ \E r \in Roles, ms \in SUBSET Menus : RoleUpdate(p, r, ms)
           \/ \E r \in Roles : RoleDelete(p, r)
           \/ \E m \in Menus : MenuCreate(p, m) \/ MenuDelete(p, m)
           \/ \E m \in Menus, to \in {"plain", "perm"} : MenuUpdate(p, m, to, TRUE)
  BY <1>1, <1>3, <1>7
<1> QED BY <1>5, <1>6, <1>7 DEF Arrive

LEMMA InitAloneInv == Init => AloneInv
  BY IdleJobOK DEF Init, AloneInv

LEMMA NextAloneInv == TypeInv /\ AloneInv /\ [Next]_vars => AloneInv'
<1> SUFFICES ASSUME TypeInv, AloneInv, [Next]_vars PROVE AloneInv'
  OBVIOUS
<1> USE DEF AloneInv, Idle, At
<1>1. ASSUME NEW u \in Users, Login(u) \/ Expire(u) PROVE AloneInv'
  BY <1>1, LoginFacts, ExpireFacts
<1>2. ASSUME NEW p \in Procs, Arrive(p) PROVE AloneInv'
  BY <1>2, ArriveFacts DEF StaysBut
<1>3. ASSUME NEW p \in Procs, Update(p) \/ Refresh(p) \/ Abort(p) PROVE AloneInv'
  BY <1>3, MoveFacts DEF StaysBut
<1>4. CASE UNCHANGED vars
  BY <1>4 DEF vars
<1> QED BY <1>1, <1>2, <1>3, <1>4 DEF Next

-----------------------------------------------------------------------------
\* A disabled user holds nothing.

\* The user is offline without a cache, and no refresh under way will write one:
\* that of all users online left it out, that of the user looks for its session.
Barred(u) ==
    /\ ~online[u] /\ cache[u] = Absent
    /\ \A p \in Procs : /\ At(p, "refresh") => job[p].view[u].at = "no"
                        /\ At(p, "refreshOne") => job[p].view[u].at # "set"

\* How far a handler that disables has come with a user that does not log in.
Disabling(p) ==
    \A u \in job[p].usr \cap job[p].calm :
        /\ At(p, "delPerm") \/ At(p, "commit") => ~online[u]
        /\ At(p, "commit") /\ job[p].alone => cache[u] = Absent

ShutInv == (\A u \in shut : Barred(u)) /\ \A p \in Procs : Disabling(p)

\* The handler is not, or is where it was, as far as ShutInv is concerned.
Harmless(q) ==
    \/ job'[q].pc \notin {"delPerm", "commit", "refresh", "refreshOne"}
    \/ /\ job'[q].pc = job[q].pc /\ job'[q].usr = job[q].usr /\ job'[q].view = job[q].view
       /\ job'[q].alone => job[q].alone
       /\ job'[q].calm \subseteq job[q].calm

LEMMA InitShutInv == Init => ShutInv
  BY IdleJobOK DEF Init, ShutInv, Disabling

\* A step that logs nobody in and writes no cache.
LEMMA ShutQuiet ==
  ASSUME TypeInv, ShutInv, UNCHANGED <<cache, shut>>,
         \A u \in Users : online'[u] => online[u],
         \A q \in Procs : Harmless(q)
  PROVE  ShutInv'
<1>1. ASSUME NEW u \in shut PROVE Barred(u)'
  BY DEF ShutInv, Barred, Harmless, TypeInv, TypeOK, At
<1>2. ASSUME NEW q \in Procs PROVE Disabling(q)'
  <2>1. job[q].usr \subseteq Users
    BY JobOK
  <2>2. Harmless(q) /\ Disabling(q)
    BY DEF ShutInv
  <2> QED BY <2>1, <2>2 DEF Disabling, Harmless, TypeInv, TypeOK, At
<1> QED BY <1>1, <1>2 DEF ShutInv

LEMMA StaysHarmless == \A q \in Procs : StaysBut(q) => Harmless(q)
  BY DEF StaysBut, Harmless

LEMMA ArriveShut ==
  ASSUME TypeInv, ShutInv, NEW p \in Procs, Arrive(p)
  PROVE  ShutInv'
<1>1. UNCHANGED <<online, cache, shut>> /\ \A q \in Procs \ {p} : Harmless(q)
  BY ArriveFacts, StaysHarmless DEF redis
<1>2. CASE job'[p].pc \in {"idle", "delTok", "roleFind", "roleDrop", "menuDrop", "keys"}
  <2>1. Harmless(p)
    BY <1>2 DEF Harmless
  <2> QED BY <1>1, <2>1, ShutQuiet
<1>3. CASE \E u \in Users : /\ job'[p].pc = "refreshOne" /\ job'[p].usr = {u}
                            /\ job'[p].view = [w \in Users |-> IF w = u
                                  THEN [NoView EXCEPT !.at = "roles"] ELSE NoView]
  <2>1. \A w \in Users : job'[p].view[w].at # "set"
    BY <1>3, RolesViewOK DEF NoView
  <2>2. ASSUME NEW u \in shut PROVE Barred(u)'
    <3>1. u \in Users /\ Barred(u) /\ job'[p].pc = "refreshOne" /\ job'[p].view[u].at # "set"
      BY <1>3, <2>1 DEF ShutInv, TypeInv, TypeOK
    <3>2. ASSUME NEW q \in Procs
          PROVE  /\ job'[q].pc = "refresh" => job'[q].view[u].at = "no"
                 /\ job'[q].pc = "refreshOne" => job'[q].view[u].at # "set"
      <4>1. CASE q = p
        BY <3>1, <4>1
      <4>2. CASE q # p
        BY <1>1, <3>1, <4>2 DEF Barred, Harmless, At
      <4> QED BY <4>1, <4>2
    <3> QED BY <1>1, <3>1, <3>2 DEF Barred, At
  <2>3. Disabling(p)'
    BY <1>3 DEF Disabling, At
  <2>4. ASSUME NEW q \in Procs \ {p} PROVE Disabling(q)'
    BY <1>1 DEF ShutInv, Disabling, Harmless, TypeInv, TypeOK, At
  <2> QED BY <1>1, <2>2, <2>3, <2>4 DEF ShutInv
<1> QED BY <1>2, <1>3, ArriveFacts

LEMMA SessionShut ==
  ASSUME TypeInv, ShutInv, NEW u \in Users, Login(u) \/ Expire(u)
  PROVE  ShutInv'
<1>1. CASE Login(u)
  <2>1. UNCHANGED cache /\ shut' = shut \ {u} /\ \A w \in Users \ {u} : online'[w] = online[w]
    BY <1>1 DEF Login, TypeInv, TypeOK
  <2>2. \A q \in Procs :
              /\ job'[q].pc = job[q].pc /\ job'[q].usr = job[q].usr /\ job'[q].view = job[q].view
              /\ job'[q].alone = job[q].alone /\ job'[q].calm = job[q].calm \ {u}
    BY <1>1, LoginFacts
  <2>3. ASSUME NEW w \in shut' PROVE Barred(w)'
    <3>1. w \in Users \ {u} /\ Barred(w)
      BY <2>1 DEF ShutInv, TypeInv, TypeOK
    <3> QED BY <2>1, <2>2, <3>1 DEF Barred, At
  <2>4. ASSUME NEW q \in Procs PROVE Disabling(q)'
    <3>1. job[q].usr \subseteq Users /\ Disabling(q)
      BY JobOK DEF ShutInv
    <3> QED BY <2>1, <2>2, <3>1 DEF Disabling, At
  <2> QED BY <2>3, <2>4 DEF ShutInv
<1>2. CASE Expire(u)
  <2>1. UNCHANGED <<cache, shut>> /\ \A w \in Users : online'[w] => online[w]
    BY <1>2 DEF Expire, past, TypeInv, TypeOK
  <2>2. \A q \in Procs : Harmless(q)
    BY <1>2, ExpireFacts DEF Harmless
  <2> QED BY <2>1, <2>2, ShutQuiet
<1> QED BY <1>1, <1>2

LEMMA DisableShut ==
  ASSUME TypeInv, AloneInv, ShutInv, NEW p \in Procs, DelTok(p) \/ DelPerm(p) \/ Commit(p)
  PROVE  ShutInv'
<1>0. \A q \in Procs : job[q].usr \subseteq Users /\ Disabling(q)
  BY JobOK DEF ShutInv
<1>1. CASE DelTok(p)
  <2>1. UNCHANGED <<cache, shut>> /\ \A u \in Users : online'[u] <=> online[u] /\ u \notin job[p].usr
    BY <1>1 DEF DelTok, past
  <2>2. /\ job'[p].pc = "delPerm"
        /\ \A q \in Procs \ {p} : job'[q].pc = job[q].pc
        /\ \A q \in Procs : /\ job'[q].usr = job[q].usr /\ job'[q].view = job[q].view
                            /\ job'[q].alone = job[q].alone /\ job'[q].calm = job[q].calm
    BY <1>1, DelTokFacts
  <2>3. ASSUME NEW u \in shut PROVE Barred(u)'
    BY <2>1, <2>2 DEF ShutInv, Barred, At, TypeInv, TypeOK
  <2>4. ASSUME NEW q \in Procs PROVE Disabling(q)'
    BY <1>0, <2>1, <2>2 DEF Disabling, At
  <2> QED BY <2>1, <2>3, <2>4 DEF ShutInv
<1>2. CASE DelPerm(p)
  <2>1. UNCHANGED <<online, shut>>
        /\ \A u \in Users : cache'[u] = IF u \in job[p].usr THEN Absent ELSE cache[u]
    BY <1>2 DEF DelPerm, past
  <2>2. Others(p) /\ job'[p].pc = "commit" /\ Same(job[p], job'[p]) /\ job[p].pc = "delPerm"
    BY <1>2, GotoFacts DEF DelPerm, At, Pcs
  <2>3. ASSUME NEW u \in shut PROVE Barred(u)'
    BY <2>1, <2>2 DEF ShutInv, Barred, At, Others, TypeInv, TypeOK
  <2>4. Disabling(p)'
    BY <1>0, <2>1, <2>2 DEF Disabling, At, Same
  <2>5. ASSUME NEW q \in Procs \ {p} PROVE Disabling(q)'
    BY <1>0, <2>1, <2>2 DEF Disabling, At, Others
  <2> QED BY <2>1, <2>3, <2>4, <2>5 DEF ShutInv
<1>3. CASE Commit(p)
  <2> DEFINE v == [u \in Users |->
                     IF u \in job[p].usr THEN [NoView EXCEPT !.at = "roles"] ELSE NoView]
  <2>1. v \in [Users -> Views] /\ \A u \in Users : v[u].at # "set"
    BY NoViewOK, RolesViewOK DEF NoView
  <2>2. job' = [job EXCEPT ![p] = [job[p] EXCEPT !.pc = "refreshOne", !.view = v]]
        /\ job[p].pc = "commit"
    BY <1>3 DEF Commit, At
  <2> HIDE DEF v
  <2>3. Others(p) /\ job'[p].pc = "refreshOne" /\ job'[p].view = v
    BY <2>1, <2>2, ToRefresh
  <2>4. UNCHANGED <<online, cache>>
        /\ shut' = IF job[p].alone THEN shut \cup (job[p].usr \cap job[p].calm) ELSE shut
    BY <1>3 DEF Commit, redis
  <2>5. ASSUME NEW u \in shut PROVE Barred(u)'
    BY <2>1, <2>3, <2>4 DEF ShutInv, Barred, At, Others, TypeInv, TypeOK
  <2>6. ASSUME NEW u \in job[p].usr \cap job[p].calm, job[p].alone PROVE Barred(u)'
    <3>1. ~online[u] /\ cache[u] = Absent /\ u \in Users
      BY <1>0, <2>2, <2>6 DEF Disabling, At
    <3>2. \A q \in Procs \ {p} : job[q].pc = "idle"
      BY <2>6 DEF AloneInv, Idle, At
    <3> QED BY <2>1, <2>3, <2>4, <3>1, <3>2 DEF Barred, At, Others
  <2>7. Disabling(p)'
    BY <2>3 DEF Disabling, At
  <2>8. ASSUME NEW q \in Procs \ {p} PROVE Disabling(q)'
    BY <1>0, <2>3, <2>4 DEF Disabling, At, Others
  <2> QED BY <2>4, <2>5, <2>6, <2>7, <2>8 DEF ShutInv
<1> QED BY <1>1, <1>2, <1>3

LEMMA UpdateShut ==
  ASSUME TypeInv, AloneInv, ShutInv, NEW p \in Procs, Update(p) \/ Abort(p)
  PROVE  ShutInv'
<1>1. CASE RoleFind(p) \/ RoleLoad(p) \/ RoleWrite(p) \/ RoleDrop(p) \/ MenuDrop(p) \/ Abort(p)
  <2>1. UNCHANGED <<online, cache, shut>>
    BY <1>1 DEF RoleFind, RoleLoad, RoleWrite, RoleDrop, MenuDrop, Abort, redis, past
  <2>2. job'[p].pc \in {"idle", "roleLoad", "roleWrite", "keys"}
    BY <1>1, GotoFacts, EndFacts, IdleJobOK, RoleLoadFacts
       DEF RoleFind, RoleWrite, RoleDrop, MenuDrop, Abort, Pcs, At
  <2>3. \A q \in Procs : Harmless(q)
    BY <1>1, <2>2, MoveFacts, StaysHarmless DEF Update, Harmless
  <2> QED BY <2>1, <2>3, ShutQuiet
<1> QED BY <1>1, DisableShut DEF Update

\* One user's part of a refresh gets on, or ends.
LEMMA ViewShut ==
  ASSUME TypeInv, AloneInv, ShutInv, NEW p \in Procs, NEW u \in Users,
         At(p, "refresh") \/ At(p, "refreshOne"), UNCHANGED <<online, shut>>,
         \A w \in Users \ {u} : cache'[w] = cache[w],
         u \notin shut \/ cache'[u] = cache[u],
         \/ End(p)
         \/ \E v \in Views : View(p, u, v) /\ (u \in shut => v.at = "no" \/ (At(p, "refreshOne") /\ v.at # "set"))
  PROVE  ShutInv'
<1>1. Others(p)
  BY EndFacts, ViewFacts
<1>2. job'[p].pc \in {"idle", "refresh", "refreshOne"}
  BY EndFacts, ViewFacts, IdleJobOK DEF At
<1>3. ASSUME NEW w \in shut PROVE Barred(w)'
  <2>1. w \in Users /\ Barred(w) /\ cache'[w] = cache[w]
    BY DEF ShutInv, TypeInv, TypeOK
  <2>2. CASE End(p)
    BY <1>1, <2>1, <2>2, EndFacts, IdleJobOK DEF Barred, At, Others
  <2>3. ASSUME NEW v \in Views, View(p, u, v),
               u \in shut => v.at = "no" \/ (At(p, "refreshOne") /\ v.at # "set")
        PROVE  Barred(w)'
    <3>1. /\ job'[p].pc = job[p].pc /\ job'[p].view[u] = v
          /\ \A x \in Users \ {u} : job'[p].view[x] = job[p].view[x]
      BY <2>3, ViewFacts
    <3> QED BY <1>1, <2>1, <2>3, <3>1 DEF Barred, At, Others
  <2> QED BY <2>2, <2>3
<1>4. Disabling(p)'
  BY <1>2 DEF Disabling, At
<1>5. ASSUME NEW q \in Procs \ {p} PROVE Disabling(q)'
  <2>1. Disabling(q) /\ ~job[q].alone
    BY DEF ShutInv, AloneInv, Idle, At
  <2> QED BY <1>1, <2>1 DEF Disabling, Others, At
<1> QED BY <1>3, <1>4, <1>5 DEF ShutInv

LEMMA RefreshShut ==
  ASSUME TypeInv, AloneInv, ShutInv, NEW p \in Procs, Refresh(p)
  PROVE  ShutInv'
<1>1. CASE Keys(p)
  <2>1. UNCHANGED <<online, cache, shut>> /\ job[p].pc = "keys"
    BY <1>1 DEF Keys, redis, past, At
  <2>2. CASE \E u \in Users : online[u]
    <3> DEFINE v == [u \in Users |-> IF online[u] THEN [NoView EXCEPT !.at = "roles"] ELSE NoView]
    <3>1. v \in [Users -> Views] /\ \A u \in Users : ~online[u] => v[u].at = "no"
      BY NoViewOK, RolesViewOK DEF NoView
    <3>2. job' = [job EXCEPT ![p] = [job[p] EXCEPT !.pc = "refresh", !.view = v]]
      BY <1>1, <2>2 DEF Keys
    <3> HIDE DEF v
    <3>3. Others(p) /\ job'[p].pc = "refresh" /\ job'[p].view = v
      BY <3>1, <3>2, ToRefresh
    <3>4. ASSUME NEW u \in shut PROVE Barred(u)'
      BY <2>1, <3>1, <3>3 DEF ShutInv, Barred, At, Others, TypeInv, TypeOK
    <3>5. Disabling(p)'
      BY <3>3 DEF Disabling, At
    <3>6. ASSUME NEW q \in Procs \ {p} PROVE Disabling(q)'
      BY <2>1, <3>3 DEF ShutInv, Disabling, At, Others
    <3> QED BY <2>1, <3>4, <3>5, <3>6 DEF ShutInv
  <2>3. CASE ~\E u \in Users : online[u]
    <3>1. End(p)
      BY <1>1, <2>3 DEF Keys
    <3>2. \A q \in Procs : Harmless(q)
      BY <3>1, EndFacts, IdleJobOK DEF Harmless, Others
    <3> QED BY <2>1, <3>2, ShutQuiet
  <2> QED BY <2>2, <2>3
<1>2. ASSUME NEW u \in Users, ReadRoles(p, u) PROVE ShutInv'
  <2> DEFINE v == [NoView EXCEPT !.at = "menus", !.roles = userRoles[u]]
  <2>1. v \in Views /\ v.at = "menus"
    BY DEF TypeInv, TypeOK, NoView, Views
  <2>2. View(p, u, v) /\ ViewAt(p, u, "roles") /\ UNCHANGED <<online, cache, shut>>
    BY <1>2 DEF ReadRoles, redis, past
  <2> HIDE DEF v
  <2>3. u \in shut => At(p, "refreshOne")
    BY <2>2 DEF ShutInv, Barred, ViewAt, At
  <2> QED BY <2>1, <2>2, <2>3, ViewShut DEF ViewAt, At
<1>3. ASSUME NEW u \in Users, ReadMenus(p, u) PROVE ShutInv'
  <2> DEFINE at == IF At(p, "refreshOne") THEN "online" ELSE "set"
             v == [at |-> at, roles |-> {}, perms |-> PermsOf(job[p].view[u].roles)]
  <2>1. v.at = at /\ at \in {"no", "roles", "menus", "online", "set"}
    OBVIOUS
  <2>2. View(p, u, v) /\ ViewAt(p, u, "menus") /\ UNCHANGED <<online, cache, shut>>
    BY <1>3 DEF ReadMenus, redis, past
  <2>3. u \in shut => At(p, "refreshOne") /\ v.at # "set"
    BY <2>2 DEF ShutInv, Barred, ViewAt, At
  <2> HIDE DEF at
  <2>4. v \in Views
    BY <2>1, PermsOfOK, ViewOK
  <2> HIDE DEF v
  <2> QED BY <2>2, <2>3, <2>4, ViewShut DEF ViewAt, At
<1>4. ASSUME NEW u \in Users, CheckOnline(p, u) PROVE ShutInv'
  <2>1. ViewAt(p, u, "online") /\ UNCHANGED <<online, cache, shut>>
    BY <1>4 DEF CheckOnline, redis
  <2>2. CASE online[u]
    <3> DEFINE v == [job[p].view[u] EXCEPT !.at = "set"]
    <3>1. View(p, u, v) /\ v \in Views
      BY <1>4, <2>2, ViewIs DEF CheckOnline, Views
    <3> HIDE DEF v
    <3>2. u \notin shut
      BY <2>2 DEF ShutInv, Barred
    <3> QED BY <2>1, <3>1, <3>2, ViewShut DEF ViewAt, At
  <2>3. CASE ~online[u]
    <3>1. End(p) \/ View(p, u, NoView)
      BY <1>4, <2>3 DEF CheckOnline, Done
    <3>2. NoView.at = "no"
      BY DEF NoView
    <3> QED BY <2>1, <3>1, <3>2, NoViewOK, ViewShut DEF ViewAt, At
  <2> QED BY <2>2, <2>3
<1>5. ASSUME NEW u \in Users, SetCache(p, u) PROVE ShutInv'
  <2>1. /\ ViewAt(p, u, "set") /\ UNCHANGED <<online, shut>>
        /\ \A w \in Users \ {u} : cache'[w] = cache[w]
    BY <1>5 DEF SetCache, TypeInv, TypeOK
  <2>2. u \notin shut
    BY <2>1 DEF ShutInv, Barred, ViewAt, At
  <2>3. End(p) \/ View(p, u, NoView)
    BY <1>5 DEF SetCache, Done
  <2>4. NoView.at = "no"
    BY DEF NoView
  <2> QED BY <2>1, <2>2, <2>3, <2>4, NoViewOK, ViewShut DEF ViewAt, At
<1> QED BY <1>1, <1>2, <1>3, <1>4, <1>5 DEF Refresh

LEMMA NextShutInv == TypeInv /\ AloneInv /\ ShutInv /\ [Next]_vars => ShutInv'
<1> SUFFICES ASSUME TypeInv, AloneInv, ShutInv, [Next]_vars PROVE ShutInv'
  OBVIOUS
<1>1. CASE UNCHANGED vars
  BY <1>1, ShutQuiet DEF vars, redis, past, Harmless
<1> QED BY <1>1, SessionShut, ArriveShut, UpdateShut, RefreshShut DEF Next

\* DisabledForGood: a user that was disabled by a handler no other overlapped,
\* and that did not log in meanwhile, has no cached permissions until its next
\* login, however many refreshes read them before and write afterwards.
THEOREM DisabledForGood == Spec => []DisabledHoldsNothing
<1>1. ShutInv => DisabledHoldsNothing
  BY DEF ShutInv, Barred, DisabledHoldsNothing
<1> QED BY <1>1, InitTypeInv, NextTypeInv, InitAloneInv, NextAloneInv, InitShutInv, NextShutInv,
           PTL DEF Spec

-----------------------------------------------------------------------------
\* A change made alone reaches everybody online.

\* While anybody counts as refreshed no handler runs.
Settled == fresh # {} => \A p \in Procs : Idle(p)

\* Who was online since a handler began is.
Witnessed(p) == \A u \in job[p].there : online[u]

\* A refresh that is alone has read, or has written, what the database says.
Abreast(p, u) ==
    At(p, "refresh") \/ (At(p, "refreshOne") /\ u \in job[p].usr) =>
      LET v == job[p].view[u]
      IN  /\ v.at = "no" => cache[u] = Granted(u)
          /\ v.at = "menus" => v.roles = userRoles[u]
          /\ v.at \in {"online", "set"} => v.perms = Granted(u)

FreshInv ==
    /\ Settled
    /\ RefreshedAlone
    /\ \A p \in Procs : Witnessed(p)
    /\ \A p \in Procs : job[p].alone => \A u \in job[p].there : Abreast(p, u)

LEMMA InitFreshInv == Init => FreshInv
  BY IdleJobOK DEF Init, FreshInv, Settled, RefreshedAlone, Witnessed

LEMMA GrantedSame ==
  ASSUME UNCHANGED db
  PROVE  \A u : Granted(u)' = Granted(u)
  BY DEF Granted, PermsOf, db

\* A step of a handler that refreshes nobody, and leaves the others online.
LEMMA FreshMove ==
  ASSUME TypeInv, AloneInv, FreshInv, NEW p \in Procs, Update(p) \/ Refresh(p) \/ Abort(p),
         \A u \in Users : online'[u] = online[u] \/ (\A q \in Procs : u \notin job'[q].there),
         fresh' = {},
         job'[p].alone => \A u \in job'[p].there : Abreast(p, u)'
  PROVE  FreshInv'
<1>1. /\ ~Idle(p)
      /\ \A q \in Procs \ {p} : StaysBut(q)
      /\ job'[p].there \subseteq job[p].there
  BY MoveFacts
<1>2. \A q \in Procs \ {p} : ~job'[q].alone
  BY <1>1 DEF AloneInv, StaysBut
<1>3. ASSUME NEW q \in Procs PROVE Witnessed(q)'
  <2>1. job'[q].there \subseteq job[q].there /\ job[q].there \subseteq Users /\ Witnessed(q)
    BY <1>1, JobOK DEF StaysBut, FreshInv
  <2> QED BY <2>1 DEF Witnessed
<1>4. Settled' /\ RefreshedAlone'
  BY DEF Settled, RefreshedAlone
<1> QED BY <1>2, <1>3, <1>4 DEF FreshInv

LEMMA NobodyFresh ==
  ASSUME FreshInv, NEW p \in Procs, ~Idle(p)
  PROVE  fresh = {}
  BY DEF FreshInv, Settled

LEMMA SessionFresh ==
  ASSUME TypeInv, FreshInv, NEW u \in Users, Login(u) \/ Expire(u)
  PROVE  FreshInv'
<1>1. UNCHANGED <<db, cache, fresh, apart>>
  BY DEF Login, Expire, past
<1>2. \A q \in Procs :
         /\ job'[q].pc = job[q].pc /\ job'[q].usr = job[q].usr /\ job'[q].view = job[q].view
         /\ job'[q].alone = job[q].alone
         /\ job'[q].there \subseteq job[q].there
  BY LoginFacts, ExpireFacts
<1>3. ASSUME NEW q \in Procs PROVE Witnessed(q)'
  <2>1. Witnessed(q) /\ job[q].there \subseteq Users
    BY JobOK DEF FreshInv
  <2>2. CASE Login(u)
    BY <1>2, <2>1, <2>2 DEF Login, Witnessed, TypeInv, TypeOK
  <2>3. CASE Expire(u)
    <3>1. job'[q].there = job[q].there \ {u} /\ \A w \in Users \ {u} : online'[w] = online[w]
      BY <2>3, ExpireFacts DEF Expire, TypeInv, TypeOK
    <3> QED BY <2>1, <3>1 DEF Witnessed
  <2> QED BY <2>2, <2>3
<1>4. Settled' /\ RefreshedAlone'
  BY <1>1, <1>2, GrantedSame DEF FreshInv, Settled, RefreshedAlone, Idle, At
<1>5. UNCHANGED <<userRoles, cache>>
  BY <1>1 DEF db
<1>6. ASSUME NEW q \in Procs, job'[q].alone, NEW w \in job'[q].there PROVE Abreast(q, w)'
  <2>1. Abreast(q, w)
    BY <1>2, <1>6 DEF FreshInv
  <2>2. Granted(w)' = Granted(w)
    BY <1>1, GrantedSame
  <2> QED BY <1>2, <1>5, <2>1, <2>2 DEF Abreast, At
<1> QED BY <1>3, <1>4, <1>6 DEF FreshInv

LEMMA ArriveFresh ==
  ASSUME TypeInv, FreshInv, NEW p \in Procs, Arrive(p)
  PROVE  FreshInv'
<1>1. /\ fresh' = {} /\ UNCHANGED online
      /\ \A q \in Procs \ {p} : StaysBut(q) /\ ~job'[q].alone
      /\ job'[p].there = {u \in Users : online[u]} \/ job'[p].there \subseteq job[p].there
  BY ArriveFacts DEF redis
<1>2. ASSUME NEW q \in Procs PROVE Witnessed(q)'
  <2>1. Witnessed(q)
    BY DEF FreshInv
  <2>2. CASE q = p
    BY <1>1, <2>1, <2>2 DEF Witnessed
  <2>3. CASE q # p
    BY <1>1, <2>1, <2>3 DEF Witnessed, StaysBut
  <2> QED BY <2>2, <2>3
<1>3. ASSUME NEW u \in Users PROVE Abreast(p, u)'
  <2>1. CASE job'[p].pc \in {"idle", "delTok", "roleFind", "roleDrop", "menuDrop", "keys"}
    BY <2>1 DEF Abreast, At
  <2>2. ASSUME NEW w \in Users, job'[p].pc = "refreshOne", job'[p].usr = {w},
               job'[p].view = [x \in Users |-> IF x = w THEN [NoView EXCEPT !.at = "roles"] ELSE NoView]
        PROVE  Abreast(p, u)'
    <3>1. u = w => job'[p].view[u].at = "roles"
      BY <2>2, RolesViewOK
    <3> QED BY <2>2, <3>1 DEF Abreast, At
  <2> QED BY <2>1, <2>2, ArriveFacts
<1>4. job'[p].there \subseteq Users
  BY <1>1, JobOK
<1>5. Settled' /\ RefreshedAlone'
  BY <1>1 DEF Settled, RefreshedAlone
<1> QED BY <1>1, <1>2, <1>3, <1>4, <1>5 DEF FreshInv

LEMMA UpdateFresh ==
  ASSUME TypeInv, AloneInv, FreshInv, NEW p \in Procs, Update(p) \/ Abort(p)
  PROVE  FreshInv'
<1>1. fresh' = {}
  <2>1. fresh = {}
    BY MoveFacts, NobodyFresh
  <2> QED BY <2>1 DEF Update, DelTok, DelPerm, Commit, RoleFind, RoleLoad, RoleWrite, RoleDrop,
                      MenuDrop, Abort, past
<1>2. CASE DelTok(p)
  <2>1. /\ job'[p].pc = "delPerm"
        /\ \A q \in Procs : job'[q].there = job[q].there \ job[p].usr
    BY <1>2, DelTokFacts
  <2>2. \A u \in Users : online'[u] = online[u] \/ u \in job[p].usr
    BY <1>2 DEF DelTok, TypeInv, TypeOK
  <2>3. \A u \in job'[p].there : Abreast(p, u)'
    BY <2>1 DEF Abreast, At
  <2> QED BY <1>1, <1>2, <2>1, <2>2, <2>3, FreshMove
<1>3. CASE Commit(p)
  <2> DEFINE v == [u \in Users |->
                     IF u \in job[p].usr THEN [NoView EXCEPT !.at = "roles"] ELSE NoView]
  <2>1. v \in [Users -> Views] /\ \A u \in Users : u \in job[p].usr => v[u].at = "roles"
    BY NoViewOK, RolesViewOK
  <2>2. job' = [job EXCEPT ![p] = [job[p] EXCEPT !.pc = "refreshOne", !.view = v]]
    BY <1>3 DEF Commit
  <2> HIDE DEF v
  <2>3. /\ job'[p].pc = "refreshOne" /\ job'[p].view = v /\ job'[p].usr = job[p].usr
        /\ job'[p].there \subseteq Users
    BY <2>1, <2>2, ToRefresh, JobOK
  <2>4. \A u \in job'[p].there : Abreast(p, u)'
    BY <2>1, <2>3 DEF Abreast, At
  <2>5. UNCHANGED online
    BY <1>3 DEF Commit, redis
  <2> QED BY <1>1, <1>3, <2>4, <2>5, FreshMove
<1>4. CASE \/ DelPerm(p) \/ RoleFind(p) \/ RoleLoad(p) \/ RoleWrite(p) \/ RoleDrop(p)
           \/ MenuDrop(p) \/ Abort(p)
  <2>1. job'[p].pc \in {"idle", "commit", "roleLoad", "roleWrite", "keys"}
    BY <1>4, GotoFacts, EndFacts, IdleJobOK, RoleLoadFacts
       DEF DelPerm, RoleFind, RoleWrite, RoleDrop, MenuDrop, Abort, Pcs, At
  <2>2. \A u \in job'[p].there : Abreast(p, u)'
    BY <2>1 DEF Abreast, At
  <2>3. UNCHANGED online
    BY <1>4 DEF DelPerm, RoleFind, RoleLoad, RoleWrite, RoleDrop, MenuDrop, Abort, redis
  <2> QED BY <1>1, <1>4, <2>2, <2>3, FreshMove
<1> QED BY <1>2, <1>3, <1>4 DEF Update

\* One user's part of a refresh gets on.
LEMMA ViewFresh ==
  ASSUME TypeInv, AloneInv, FreshInv, NEW p \in Procs, NEW u \in Users, NEW v \in Views,
         Refresh(p), View(p, u, v), UNCHANGED <<db, online, fresh>>,
         \A w \in Users \ {u} : cache'[w] = cache[w],
         /\ job[p].alone /\ u \in job[p].there
         /\ At(p, "refresh") \/ (At(p, "refreshOne") /\ u \in job[p].usr)
         => /\ v.at = "no" => cache'[u] = Granted(u)
            /\ v.at = "menus" => v.roles = userRoles[u]
            /\ v.at \in {"online", "set"} => v.perms = Granted(u)
  PROVE  FreshInv'
<1>1. /\ job'[p].pc = job[p].pc /\ job'[p].usr = job[p].usr
      /\ job'[p].alone = job[p].alone /\ job'[p].there = job[p].there
      /\ job'[p].view[u] = v
      /\ \A w \in Users \ {u} : job'[p].view[w] = job[p].view[w]
  BY ViewFacts
<1>2. fresh' = {}
  BY MoveFacts, NobodyFresh
<1>3. UNCHANGED userRoles
  BY DEF db
<1>4. ASSUME job'[p].alone, NEW w \in job'[p].there PROVE Abreast(p, w)'
  <2>1. w \in Users /\ Abreast(p, w) /\ Granted(w)' = Granted(w)
    BY <1>1, <1>4, JobOK, GrantedSame DEF FreshInv
  <2>2. CASE w = u
    BY <1>1, <1>3, <1>4, <2>1, <2>2 DEF Abreast, At
  <2>3. CASE w # u
    BY <1>1, <1>3, <2>1, <2>3 DEF Abreast, At
  <2> QED BY <2>2, <2>3
<1> QED BY <1>2, <1>4, FreshMove

\* The last user's part of a refresh ends, and the handler with it.
LEMMA EndFresh ==
  ASSUME TypeInv, AloneInv, FreshInv, NEW p \in Procs, NEW u \in Users,
         Refresh(p), At(p, "refresh") \/ At(p, "refreshOne"),
         Done(p, u), End(p), UNCHANGED <<db, online>>,
         \A w \in Users \ {u} : cache'[w] = cache[w] /\ job[p].view[w] = NoView,
         /\ job[p].alone /\ u \in job[p].there
         /\ At(p, "refresh") \/ (At(p, "refreshOne") /\ u \in job[p].usr)
         => cache'[u] = Granted(u)
  PROVE  FreshInv'
<1>1. /\ fresh' = IF \E q \in Procs \ {p} : ~Idle(q) THEN {}
                  ELSE IF At(p, "refreshOne") THEN job[p].there \cap job[p].usr
                  ELSE job[p].there
      /\ apart' = job[p].alone
  BY DEF Done
<1>2. Others(p) /\ job'[p] = IdleJob
  BY EndFacts
<1>3. ~Idle(p)
  BY DEF Idle, At
<1>4. Settled'
  BY <1>1, <1>2, IdleJobOK DEF Settled, Others, Idle, At
<1>5. ASSUME apart', NEW w \in fresh' PROVE cache'[w] = Granted(w)'
  <2>1. /\ job[p].alone /\ w \in job[p].there /\ w \in Users
        /\ At(p, "refresh") \/ (At(p, "refreshOne") /\ w \in job[p].usr)
    BY <1>1, <1>5, JobOK
  <2>2. Abreast(p, w) /\ Granted(w)' = Granted(w) /\ NoView.at = "no"
    BY <2>1, GrantedSame DEF FreshInv, NoView
  <2> QED BY <2>1, <2>2 DEF Abreast
<1>6. RefreshedAlone'
  BY <1>5 DEF RefreshedAlone
<1>7. ASSUME NEW q \in Procs PROVE Witnessed(q)' /\ ~job'[q].alone
  <2>1. CASE q = p
    BY <1>2, <2>1, IdleJobOK DEF Witnessed
  <2>2. CASE q # p
    BY <1>2, <1>3, <2>2 DEF FreshInv, AloneInv, Witnessed, Others
  <2> QED BY <2>1, <2>2
<1> QED BY <1>4, <1>6, <1>7 DEF FreshInv

\* Either, by Done.
LEMMA DoneFresh ==
  ASSUME TypeInv, AloneInv, FreshInv, NEW p \in Procs, NEW u \in Users,
         Refresh(p), At(p, "refresh") \/ At(p, "refreshOne"),
         Done(p, u), UNCHANGED <<db, online>>,
         \A w \in Users \ {u} : cache'[w] = cache[w],
         job[p].alone /\ u \in job[p].there => cache'[u] = Granted(u)
  PROVE  FreshInv'
<1>1. CASE \A w \in Users \ {u} : job[p].view[w] = NoView
  <2>1. End(p)
    BY <1>1 DEF Done
  <2> QED BY <1>1, <2>1, EndFresh
<1>2. CASE ~\A w \in Users \ {u} : job[p].view[w] = NoView
  <2>1. View(p, u, NoView) /\ UNCHANGED fresh
    BY <1>2 DEF Done
  <2>2. NoView.at = "no"
    BY DEF NoView
  <2> QED BY <2>1, <2>2, NoViewOK, ViewFresh
<1> QED BY <1>1, <1>2

LEMMA KeysFresh ==
  ASSUME TypeInv, AloneInv, FreshInv, NEW p \in Procs, Keys(p)
  PROVE  FreshInv'
<1>1. UNCHANGED online /\ fresh' = {}
  <2>1. fresh = {}
    BY NobodyFresh DEF Keys, Idle, At
  <2> QED BY <2>1 DEF Keys, redis, past
<1>2. ASSUME NEW u \in job'[p].there PROVE Abreast(p, u)'
  <2>1. CASE \E w \in Users : online[w]
    <3> DEFINE v == [w \in Users |-> IF online[w] THEN [NoView EXCEPT !.at = "roles"] ELSE NoView]
    <3>1. v \in [Users -> Views] /\ \A w \in Users : online[w] => v[w].at = "roles"
      BY NoViewOK, RolesViewOK
    <3>2. job' = [job EXCEPT ![p] = [job[p] EXCEPT !.pc = "refresh", !.view = v]]
      BY <2>1 DEF Keys
    <3> HIDE DEF v
    <3>3. job'[p].pc = "refresh" /\ job'[p].view = v /\ job'[p].there = job[p].there
      BY <3>1, <3>2, ToRefresh
    <3>4. u \in Users /\ online[u]
      BY <1>2, <3>3, JobOK DEF FreshInv, Witnessed
    <3> QED BY <3>1, <3>3, <3>4 DEF Abreast, At
  <2>2. CASE ~\E w \in Users : online[w]
    <3>1. job'[p] = IdleJob
      BY <2>2, EndFacts DEF Keys
    <3> QED BY <3>1, IdleJobOK DEF Abreast, At
  <2> QED BY <2>1, <2>2
<1> QED BY <1>1, <1>2, FreshMove DEF Refresh

LEMMA RefreshFresh ==
  ASSUME TypeInv, AloneInv, FreshInv, NEW p \in Procs, Refresh(p)
  PROVE  FreshInv'
<1>1. ASSUME NEW u \in Users, ReadRoles(p, u) PROVE FreshInv'
  <2> DEFINE v == [NoView EXCEPT !.at = "menus", !.roles = userRoles[u]]
  <2>1. v \in Views /\ v.at = "menus" /\ v.roles = userRoles[u]
    BY DEF TypeInv, TypeOK, NoView, Views
  <2>2. View(p, u, v) /\ UNCHANGED <<db, online, cache, fresh>>
    BY <1>1 DEF ReadRoles, redis, past
  <2> HIDE DEF v
  <2> QED BY <2>1, <2>2, ViewFresh
<1>2. ASSUME NEW u \in Users, ReadMenus(p, u) PROVE FreshInv'
  <2> DEFINE at == IF At(p, "refreshOne") THEN "online" ELSE "set"
             v == [at |-> at, roles |-> {}, perms |-> PermsOf(job[p].view[u].roles)]
  <2>1. v.at = at /\ at \in {"online", "set"} /\ v.perms = PermsOf(job[p].view[u].roles)
    OBVIOUS
  <2>2. View(p, u, v) /\ ViewAt(p, u, "menus") /\ UNCHANGED <<db, online, cache, fresh>>
    BY <1>2 DEF ReadMenus, redis, past
  <2> HIDE DEF at
  <2>3. v \in Views
    BY <2>1, PermsOfOK, ViewOK
  <2> HIDE DEF v
  <2>4. /\ job[p].alone /\ u \in job[p].there
        /\ At(p, "refresh") \/ (At(p, "refreshOne") /\ u \in job[p].usr)
        => v.perms = Granted(u)
    BY <2>1, <2>2 DEF FreshInv, Abreast, ViewAt, Granted
  <2> QED BY <2>1, <2>2, <2>3, <2>4, ViewFresh
<1>3. ASSUME NEW u \in Users, CheckOnline(p, u) PROVE FreshInv'
  <2>1. ViewAt(p, u, "online") /\ UNCHANGED <<db, online, cache>>
    BY <1>3 DEF CheckOnline, redis
  <2>2. CASE online[u]
    <3> DEFINE v == [job[p].view[u] EXCEPT !.at = "set"]
    <3>1. v \in Views /\ v.at = "set" /\ v.perms = job[p].view[u].perms
      BY ViewIs DEF Views
    <3>2. View(p, u, v) /\ UNCHANGED fresh
      BY <1>3, <2>2 DEF CheckOnline
    <3> HIDE DEF v
    <3>3. /\ job[p].alone /\ u \in job[p].there
          /\ At(p, "refresh") \/ (At(p, "refreshOne") /\ u \in job[p].usr)
          => v.perms = Granted(u)
      BY <2>1, <3>1 DEF FreshInv, Abreast, ViewAt
    <3> QED BY <2>1, <3>1, <3>2, <3>3, ViewFresh
  <2>3. CASE ~online[u]
    <3>1. Done(p, u) /\ u \notin job[p].there
      BY <1>3, <2>3 DEF CheckOnline, FreshInv, Witnessed
    <3> QED BY <2>1, <3>1, DoneFresh DEF ViewAt, At
  <2> QED BY <2>2, <2>3
<1>4. ASSUME NEW u \in Users, SetCache(p, u) PROVE FreshInv'
  <2>1. /\ ViewAt(p, u, "set") /\ UNCHANGED <<db, online>> /\ Done(p, u)
        /\ cache'[u] = job[p].view[u].perms
        /\ \A w \in Users \ {u} : cache'[w] = cache[w]
    BY <1>4 DEF SetCache, TypeInv, TypeOK
  <2>2. /\ job[p].alone /\ u \in job[p].there
        /\ At(p, "refresh") \/ (At(p, "refreshOne") /\ u \in job[p].usr)
        => cache'[u] = Granted(u)
    BY <2>1 DEF FreshInv, Abreast, ViewAt
  <2>3. CASE \A w \in Users \ {u} : job[p].view[w] = NoView
    <3>1. End(p)
      BY <2>1, <2>3 DEF Done
    <3> QED BY <2>1, <2>2, <2>3, <3>1, EndFresh DEF ViewAt, At
  <2>4. CASE ~\A w \in Users \ {u} : job[p].view[w] = NoView
    <3>1. View(p, u, NoView) /\ UNCHANGED fresh
      BY <2>1, <2>4 DEF Done
    <3>2. NoView.at = "no"
      BY DEF NoView
    <3> QED BY <2>1, <2>2, <3>1, <3>2, NoViewOK, ViewFresh
  <2> QED BY <2>3, <2>4
<1> QED BY <1>1, <1>2, <1>3, <1>4, KeysFresh DEF Refresh

LEMMA NextFreshInv == TypeInv /\ AloneInv /\ FreshInv /\ [Next]_vars => FreshInv'
<1> SUFFICES ASSUME TypeInv, AloneInv, FreshInv, [Next]_vars PROVE FreshInv'
  OBVIOUS
<1>1. CASE UNCHANGED vars
  <2>1. UNCHANGED <<db, userRoles, cache, online, job, fresh, apart>>
    BY <1>1 DEF vars, db, redis, past
  <2>2. \A u : Granted(u)' = Granted(u)
    BY <2>1, GrantedSame
  <2>3. \A p \in Procs, u \in Users : Abreast(p, u)' <=> Abreast(p, u)
    BY <2>1, <2>2 DEF Abreast, At
  <2> QED BY <2>1, <2>2, <2>3, JobOK
          DEF FreshInv, Settled, RefreshedAlone, Witnessed, Idle, At
<1> QED BY <1>1, SessionFresh, ArriveFresh, UpdateFresh, RefreshFresh DEF Next

\* AloneReachesAll: when a handler no other overlapped has ended, every user
\* that was online all the while has exactly the permissions of the user's roles
\* in the cache, for any users, roles, menus and handlers, and whatever earlier
\* races and crashes had left there.
THEOREM AloneReachesAll == Spec => []RefreshedAlone
<1>1. FreshInv => RefreshedAlone
  BY DEF FreshInv
<1> QED BY <1>1, InitTypeInv, NextTypeInv, InitAloneInv, NextAloneInv, InitFreshInv, NextFreshInv,
           PTL DEF Spec
=============================================================================
