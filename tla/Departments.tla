---------------------------- MODULE Departments ----------------------------
(***************************************************************************)
(* Departments and the users in them.  A department has its parent twice:  *)
(* in the column parentId, with a foreign key ON DELETE SET NULL, and in   *)
(* mpath, the materialized path TypeORM keeps by which DeptService counts  *)
(* and searches the descendants.  A user's department is a foreign key     *)
(* without a clause, a user's name a unique index.                         *)
(*                                                                         *)
(* One action is one awaited call, a transaction of save() one action; the *)
(* handlers of several administrators interleave.                          *)
(***************************************************************************)
EXTENDS Naturals, Sequences, FiniteSets, SequencesExt, FiniteSetsExt

CONSTANTS
    MaxDept,  \* bound: departments ever inserted
    MaxUser,  \* bound: users ever inserted
    Names,    \* usernames
    Handlers, \* bound: requests under way at once
    Crowd,    \* bound: no two are once more departments than this were inserted
    MaxPath,  \* what fits into mpath, varchar(255): a longer one is refused
    None

DeptIds == 1..MaxDept
Uids == 1..MaxUser

VARIABLES
    dept, \* sys_dept: parent and mpath of an id, None if there is no row
    user, \* sys_user: name and department of an id, None if there is no row
    used, \* the ids AUTO_INCREMENT has given, of departments and of users
    job,  \* the handlers
    calm  \* no write came between another handler's calls, and no department was
          \* put below itself; no action reads it

vars == <<dept, user, used, job, calm>>

Depts == {i \in DeptIds : dept[i] # None}
Users == {u \in Uids : user[u] # None}

Paths == SeqOf(DeptIds, MaxPath)
DeptRow == [parent : DeptIds \cup {None}, path : Paths]
UserRow == [name : Names, dept : DeptIds \cup {None}]

DepartmentsAssumption ==
    /\ {MaxDept, MaxUser, MaxPath} \subseteq Nat \ {0} /\ Crowd \in Nat
    /\ None \notin Nat \cup Names \cup [parent : DeptIds \cup {None}, path : Seq(DeptIds)]

\* What a request asks for, and where it is.
Stages == {"new",
           "parent", "insert",                      \* DeptService.create
           "item", "itemParent", "save",            \* DeptService.update
           "countUsers", "countChildren", "delete", \* DeptController.delete
           "exists", "userDept", "insertUser"}      \* UserService.create and register
Job == [at : Stages, id : DeptIds \cup {None}, parent : DeptIds \cup {None}, name : Names \cup {None}]
NewJob == [at |-> "new", id |-> None, parent |-> None, name |-> None]

Init ==
    /\ dept = [i \in DeptIds |-> None]
    /\ user = [u \in Uids |-> None]
    /\ used = [dept |-> 0, user |-> 0]
    /\ job = [h \in Handlers |-> NewJob]
    /\ calm = TRUE

Begin(h, j) ==
    /\ job[h].at = "new"
    /\ used.dept <= Crowd \/ \A g \in Handlers : job[g].at = "new"
    /\ job' = [job EXCEPT ![h] = j]
    /\ UNCHANGED <<dept, user, used, calm>>

\* A call that reads, and where the handler goes with what it has read.
Read(h, j) ==
    /\ job' = [job EXCEPT ![h] = j]
    /\ UNCHANGED <<dept, user, used, calm>>

\* The last call of a handler; all others are idle if the system stays calm.
End(h, still) ==
    /\ job' = [job EXCEPT ![h] = NewJob]
    /\ calm' = (calm /\ still /\ \A g \in Handlers \ {h} : job[g].at = "new")

-----------------------------------------------------------------------------
\* The tree as TypeORM keeps it

PathOf(p) == IF p = None THEN <<>> ELSE dept[p].path
Known(p) == IF p \in Depts THEN p ELSE None
Descendants(i) == {k \in Depts : i \in Depts /\ IsPrefix(dept[i].path, dept[k].path)}

InsertDept(i, p) == dept' = [dept EXCEPT ![i] = [parent |-> p, path |-> Append(PathOf(p), i)]]

MoveDept_Alone(i, p) ==
    dept' = [dept EXCEPT ![i] = [parent |-> p, path |-> Append(PathOf(p), i)]]

\* The paths are rewritten where they begin with the old parent's and the id,
\* where the old parent is the one the row has now.
MoveDept(i, p) ==
    LET old == Append(PathOf(dept[i].parent), i)
        new == Append(PathOf(p), i)
        Path(k) == IF p # dept[i].parent /\ IsPrefix(old, dept[k].path)
                   THEN new \o SubSeq(dept[k].path, Len(old) + 1, Len(dept[k].path))
                   ELSE dept[k].path
    IN  dept' = [k \in DeptIds |->
                   IF k \notin Depts THEN None
                   ELSE [parent |-> IF k = i THEN p ELSE dept[k].parent, path |-> Path(k)]]

Fits == \A k \in DeptIds : dept'[k] # None => Len(dept'[k].path) <= MaxPath

-----------------------------------------------------------------------------
\* DeptService

\* create: a parent that is not found is no parent.
CreateDept(h, p) == Begin(h, [NewJob EXCEPT !.at = "parent", !.parent = p])
FindParent(h) ==
    /\ job[h].at = "parent"
    /\ Read(h, [job[h] EXCEPT !.at = "insert", !.parent = Known(@)])

SaveNew(h, p) ==
    /\ p \in Depts \cup {None}
    /\ used.dept < MaxDept
    /\ InsertDept(used.dept + 1, p)
    /\ Fits
    /\ used' = [used EXCEPT !.dept = @ + 1]
    /\ End(h, TRUE)
    /\ UNCHANGED user

Insert(h) == job[h].at = "insert" /\ SaveNew(h, job[h].parent)

\* update: with no item found there is no id to save under, and a new row is
\* inserted; an item deleted since it was found is inserted again.
UpdateDept(h, i, p) == Begin(h, [NewJob EXCEPT !.at = "item", !.id = i, !.parent = p])
FindItem(h) ==
    /\ job[h].at = "item"
    /\ Read(h, [job[h] EXCEPT !.at = "itemParent", !.id = Known(@)])
FindItemParent(h) ==
    /\ job[h].at = "itemParent"
    /\ Read(h, [job[h] EXCEPT !.at = "save", !.parent = Known(@)])

Save(h) ==
    LET i == job[h].id
        p == job[h].parent
    IN  /\ job[h].at = "save"
        /\ \/ i = None /\ SaveNew(h, p)
           \/ /\ i # None /\ p \in Depts \cup {None}
              /\ IF i \in Depts THEN MoveDept(i, p) ELSE InsertDept(i, p)
              /\ Fits
              /\ End(h, i \in Depts /\ (p = None \/ p \notin Descendants(i)))
              /\ UNCHANGED <<user, used>>

\* DeptController.delete: two counts, then the DELETE.
DeleteDept(h, i) == Begin(h, [NewJob EXCEPT !.at = "countUsers", !.id = i])
CountUserByDeptId(h) ==
    /\ job[h].at = "countUsers"
    /\ Read(h, IF \E u \in Users : user[u].dept = job[h].id THEN NewJob
               ELSE [job[h] EXCEPT !.at = "countChildren"])

CountChildDept(h) ==
    /\ job[h].at = "countChildren"
    /\ Read(h, IF Cardinality(Descendants(job[h].id)) > 1 THEN NewJob
               ELSE [job[h] EXCEPT !.at = "delete"])

DeleteRow_SetsNull(h) ==
    LET i == job[h].id
    IN  /\ job[h].at = "delete"
        /\ dept' = [k \in DeptIds |->
                      IF k = i \/ k \notin Depts THEN None
                      ELSE IF dept[k].parent = i THEN [dept[k] EXCEPT !.parent = None]
                      ELSE dept[k]]
        /\ End(h, TRUE)
        /\ UNCHANGED <<user, used>>

\* Users keep the row (RESTRICT), children lose their parent (SET NULL) and keep
\* their paths.
DeleteRow(h) ==
    LET i == job[h].id
    IN  /\ job[h].at = "delete"
        /\ \A u \in Users : user[u].dept # i
        /\ dept' = [k \in DeptIds |->
                      IF k = i \/ k \notin Depts THEN None
                      ELSE IF dept[k].parent = i THEN [dept[k] EXCEPT !.parent = None]
                      ELSE dept[k]]
        /\ End(h, TRUE)
        /\ UNCHANGED <<user, used>>

-----------------------------------------------------------------------------
\* UserService

\* create, and register, which asks for no department.
CreateUser(h, n, d) == Begin(h, [NewJob EXCEPT !.at = "exists", !.name = n, !.id = d])
FindByName(h) ==
    /\ job[h].at = "exists"
    /\ Read(h, IF \E u \in Users : user[u].name = job[h].name THEN NewJob
               ELSE [job[h] EXCEPT !.at = "userDept"])

\* findOneBy({ id: undefined }) asks for any row: a user created without a
\* department gets the first there is, a registered one does not ask.
FindUserDept(h) ==
    LET d == job[h].id
        first == IF Depts = {} THEN None ELSE Min(Depts)
    IN  /\ job[h].at = "userDept"
        /\ \E got \in IF d = None THEN {None, first} ELSE {Known(d)} :
             Read(h, [job[h] EXCEPT !.at = "insertUser", !.id = got])

\* The transaction: the unique index of the name and the foreign key decide.
InsertUser(h) ==
    LET d == job[h].id
    IN  /\ job[h].at = "insertUser"
        /\ used.user < MaxUser
        /\ d \in Depts \cup {None}
        /\ \A u \in Users : user[u].name # job[h].name
        /\ user' = [user EXCEPT ![used.user + 1] = [name |-> job[h].name, dept |-> d]]
        /\ used' = [used EXCEPT !.user = @ + 1]
        /\ End(h, TRUE)
        /\ UNCHANGED dept

\* The relation 'dept' of update, set in its transaction, and delete: single
\* statements.
SetUserDept(u, d) ==
    /\ u \in Users /\ d \in Depts
    /\ user' = [user EXCEPT ![u].dept = d]
    /\ calm' = (calm /\ \A g \in Handlers : job[g].at = "new")
    /\ UNCHANGED <<dept, used, job>>

DeleteUser(u) ==
    /\ u \in Users
    /\ user' = [user EXCEPT ![u] = None]
    /\ UNCHANGED <<dept, used, job, calm>>

\* MySQL refuses a call, a constraint above among the reasons, or the instance
\* ends; what save() had written is rolled back.
Fail(h) ==
    /\ job[h].at # "new"
    /\ job' = [job EXCEPT ![h] = NewJob]
    /\ UNCHANGED <<dept, user, used, calm>>

-----------------------------------------------------------------------------
Next ==
    \/ \E h \in Handlers :
         \/ \E p \in DeptIds \cup {None} : CreateDept(h, p) \/ \E i \in DeptIds : UpdateDept(h, i, p)
         \/ \E i \in DeptIds : DeleteDept(h, i)
         \/ \E n \in Names, d \in DeptIds \cup {None} : CreateUser(h, n, d)
         \/ FindParent(h) \/ Insert(h) \/ FindItem(h) \/ FindItemParent(h) \/ Save(h)
         \/ CountUserByDeptId(h) \/ CountChildDept(h) \/ DeleteRow(h)
         \/ FindByName(h) \/ FindUserDept(h) \/ InsertUser(h) \/ Fail(h)
    \/ \E u \in Uids : DeleteUser(u) \/ \E d \in DeptIds : SetUserDept(u, d)

Spec == Init /\ [][Next]_vars

-----------------------------------------------------------------------------
\* Properties

\* TypeOK: every variable stays in its type.
TypeOK ==
    /\ dept \in [DeptIds -> DeptRow \cup {None}]
    /\ user \in [Uids -> UserRow \cup {None}]
    /\ used \in [dept : 0..MaxDept, user : 0..MaxUser]
    /\ job \in [Handlers -> Job]
    /\ calm \in BOOLEAN

\* PathsFollowParents: as long as no two edits overlapped and no department was
\* put below itself, every path is its parent's path and the id, so that what is
\* counted and searched by paths is what the parents say (create, update,
\* delete, countChildDept, getDeptTree).
PathsFollowParents ==
    calm => \A i \in Depts : /\ dept[i].parent \in Depts \cup {None}
                             /\ dept[i].path = Append(PathOf(dept[i].parent), i)

\* UsersAreSound: no user is in a department that was deleted and no two users
\* have one name, however their creations, registrations and reassignments
\* overlapped with each other and with deletions; between its look-ups and its
\* INSERT each relies on the foreign key and the unique index alone (delete,
\* create, register).
UsersAreSound ==
    /\ \A u \in Users : user[u].dept \in Depts \cup {None}
    /\ \A u, v \in Users : user[u].name = user[v].name => u = v
=============================================================================
