------------------------------ MODULE Accounts ------------------------------
(***************************************************************************)
(* The row of a user and its roles under overlapping edits: PUT            *)
(* /account/update by the user, PUT /user/:id by administrators, whose     *)
(* transaction begins with a statement outside of it, the password, and    *)
(* reads on another connection.  Tokens and cached permissions are in      *)
(* Session and PermCache, names and departments in Departments; one user   *)
(* is enough, as edits of two share no row.                                *)
(***************************************************************************)
EXTENDS FiniteSets

CONSTANTS
    Handlers, \* bound: the requests there ever are
    Roles,    \* role ids
    None      \* no user, no role ids, no handler

AccountsAssumption == None \notin Handlers /\ \A R \in SUBSET Roles : R # None

\* What a column holds is named by the request that wrote it.  The status, which
\* only administrators set, goes with the profile.
Columns == {"profile", "password"}
Profile == {"profile"}

VARIABLES
    user, \* the row and sys_user_roles as committed, None once it is deleted
    lock, \* the transaction that has the row
    job,  \* the handlers
    last  \* remembered: what the last request that was to set a thing set it to

vars == <<user, lock, job, last>>

Row == [Columns -> Handlers \cup {None}]
User == [row : Row, roles : SUBSET Roles]

Stages == {"new",
           "find", "write",                               \* updateAccountInfo
           "password", "setPassword",                     \* forceUpdatePassword
           "update", "read", "commit", "end"}   \* UserService.update
Job == [at : Stages, sent : SUBSET Columns, roleIds : (SUBSET Roles) \cup {None}, had : SUBSET Roles]

Init ==
    /\ \E roles \in SUBSET Roles : user = [row |-> [c \in Columns |-> None], roles |-> roles]
    /\ lock = None
    /\ job = [h \in Handlers |-> [at |-> "new", sent |-> {}, roleIds |-> None, had |-> {}]]
    /\ last = user

Free == lock = None

Go(h, at) == job' = [job EXCEPT ![h].at = at]
Begin(h, at, sent, roleIds) ==
    job' = [job EXCEPT ![h] = [at |-> at, sent |-> sent, roleIds |-> roleIds, had |-> {}]]

\* The user u once request h has set the columns, and the roles if there are any.
Set(u, h, columns, roles) ==
    [row |-> [c \in Columns |-> IF c \in columns THEN h ELSE u.row[c]],
     roles |-> IF roles = None THEN u.roles ELSE roles]

\* A statement that is its own transaction, and waits for the row.
Write(h, columns, at) ==
    /\ Free
    /\ IF user = None THEN UNCHANGED <<user, last>>
       ELSE user' = Set(user, h, columns, None) /\ last' = Set(last, h, columns, None)
    /\ Go(h, at)
    /\ UNCHANGED lock

-----------------------------------------------------------------------------
\* updateAccountInfo: a value that is falsy is left out.

PutAccount(h, sent) ==
    /\ job[h].at = "new"
    /\ Begin(h, "find", sent, None)
    /\ UNCHANGED <<user, lock, last>>

FindAccount(h) ==
    /\ job[h].at = "find"
    /\ Go(h, IF user = None THEN "end" ELSE "write")
    /\ UNCHANGED <<user, lock, last>>

WriteAccount(h) == job[h].at = "write" /\ Write(h, job[h].sent, "end")

-----------------------------------------------------------------------------
\* UserService.update.  What the DTO lets through is any part of the row, and
\* role ids, one at least, or none sent.

PutUser(h, sent, roleIds) ==
    /\ job[h].at = "new"
    /\ roleIds # {}
    /\ Begin(h, IF "password" \in sent THEN "password" ELSE "update", sent, roleIds)
    /\ UNCHANGED <<user, lock, last>>

\* forceUpdatePassword, on a connection of its own.
FindUser(h) ==
    /\ job[h].at = "password"
    /\ Go(h, IF user = None THEN "end" ELSE "setPassword")
    /\ UNCHANGED <<user, lock, last>>

SetPassword(h) == job[h].at = "setPassword" /\ Write(h, {"password"}, "update")

\* On the repository, as forceUpdatePassword does it: no lock is kept.
UpdateRow_Outside(h) == job[h].at = "update" /\ Write(h, job[h].sent \ {"password"}, "read")

\* The UPDATE of the transaction takes the row and keeps it.
UpdateRow(h) ==
    /\ job[h].at = "update"
    /\ Free
    /\ lock' = IF user = None THEN None ELSE h
    /\ Go(h, "read")
    /\ UNCHANGED <<user, last>>

\* On another connection: what is committed.  Without a user it throws where
\* its roles are used.
ReadRoles(h) ==
    /\ job[h].at = "read"
    /\ IF user = None THEN Go(h, IF job[h].roleIds = None THEN "commit" ELSE "end")
       ELSE job' = [job EXCEPT ![h] = [at |-> "commit", sent |-> job[h].sent,
                                       roleIds |-> job[h].roleIds, had |-> user.roles]]
    /\ UNCHANGED <<user, lock, last>>

\* addAndRemove: what was read goes, what was sent comes; a pair that is there
\* is refused by the key, and so is the request.
NewRoles(h) ==
    IF job[h].roleIds = None THEN None
    ELSE (user.roles \ job[h].had) \cup job[h].roleIds

Commit(h) ==
    LET columns == job[h].sent \ {"password"}
    IN  /\ job[h].at = "commit"
        /\ IF user = None THEN UNCHANGED <<user, last>>
           ELSE /\ job[h].roleIds # None => job[h].roleIds \cap (user.roles \ job[h].had) = {}
                /\ user' = Set(user, h, columns, NewRoles(h))
                /\ last' = Set(last, h, columns, job[h].roleIds)
        /\ lock' = IF lock = h THEN None ELSE lock
        /\ Go(h, "end")

-----------------------------------------------------------------------------
\* UserService.delete: the roles go with the row.
Delete ==
    /\ Free /\ user # None
    /\ user' = None
    /\ UNCHANGED <<lock, job, last>>

\* MySQL or Redis refuses a call, the name's unique index or a role that is gone
\* among the reasons, or the instance ends: the transaction is rolled back, and
\* a password that was set before stays.
Fail(h) ==
    /\ job[h].at \notin {"new", "end"}
    /\ lock' = IF lock = h THEN None ELSE lock
    /\ Go(h, "end")
    /\ UNCHANGED <<user, last>>

Next ==
    \/ \E h \in Handlers :
         \/ \E sent \in SUBSET Profile : PutAccount(h, sent)
         \/ \E sent \in SUBSET Columns, roleIds \in (SUBSET Roles) \cup {None} : PutUser(h, sent, roleIds)
         \/ FindAccount(h) \/ WriteAccount(h)
         \/ FindUser(h) \/ SetPassword(h) \/ UpdateRow(h) \/ ReadRoles(h) \/ Commit(h) \/ Fail(h)
    \/ Delete

Spec == Init /\ [][Next]_vars

-----------------------------------------------------------------------------
\* Properties

\* TypeOK: every variable stays in its type.
TypeOK ==
    /\ user \in User \cup {None}
    /\ lock \in Handlers \cup {None}
    /\ job \in [Handlers -> Job]
    /\ last \in User

\* EditsAreWhole: however edits of a user overlap, the roles are those that one
\* of them asked for, the last, and no mixture of several, and every column
\* holds what was written to it last: no edit puts back what it had read, or
\* takes along what it did not send (update, updateAccountInfo,
\* forceUpdatePassword).
EditsAreWhole == user # None => user = last
=============================================================================
