----------------------------- MODULE PermCache -----------------------------
(***************************************************************************)
(* Roles, menus and the cached permissions the RBAC guard reads:           *)
(* RoleService, MenuService, the part of UserService.update that assigns   *)
(* roles and disables, and RbacGuard.                                      *)
(*                                                                         *)
(* A permission is the menu that carries its string.  The guard looks only *)
(* at auth:permission:<uid>, which refreshOnlineUserPerms and refreshPerms *)
(* write after each change, from several reads of MySQL, while other       *)
(* handlers, on this or another instance, do the same.                     *)
(***************************************************************************)
EXTENDS Naturals, FiniteSets

CONSTANTS
    Users,      \* accounts whose JWT does not say they are administrators
    Roles,      \* role ids
    Root,       \* ROOT_ROLE_ID
    Menus,      \* menu ids; the same numbers as role ids may occur
    Below,      \* the menus under a menu, which are deleted with it
    Absent,     \* what GET replies for a key that does not exist
    Procs,      \* bound: how many admin handlers run at the same time
    Calls       \* which handlers are called

AllCalls == {"assign", "disable", "roleUpdate", "roleDelete", "menuCreate",
             "menuUpdate", "menuDelete", "expire", "crash"}

ASSUME PermAssumption ==
    /\ Roles \subseteq Nat /\ Menus \subseteq Nat
    /\ \A ms \in SUBSET Menus : ms # Absent
    /\ Below \in [Menus -> SUBSET Menus]
    /\ Calls \subseteq AllCalls

VARIABLES
    userRoles,  \* sys_user_roles
    role,       \* sys_role
    roleMenus,  \* sys_role_menus
    menu,       \* sys_menu: "perm" while its permission string is set
    online,     \* is there an auth:token:<uid>?
    cache,      \* auth:permission:<uid>
    job,        \* the handlers in flight
    \* What the properties remember of the past; no action reads these.
    fresh,      \* users online while the last handler to end refreshed them
    apart,      \* that handler had overlapped no other
    shut        \* users disabled by a handler that had them to itself

db    == <<userRoles, role, roleMenus, menu>>
redis == <<online, cache>>
past  == <<fresh, apart, shut>>
vars  == <<db, redis, job, past>>

Live == {r \in Roles : role[r] = "live"}
Existing == {m \in Menus : menu[m] \in {"plain", "perm"}}

\* The permissions that come with a set of roles (getPermissions).
PermsOf(rs) ==
    {m \in Menus : menu[m] = "perm" /\ (Root \in rs \/ \E r \in rs : m \in roleMenus[r])}

\* RbacGuard: an absent cache reads as the empty list, so the fallback to
\* getPermissions behind ?? is never taken.
Allowed(u) == IF cache[u] = Absent THEN {} ELSE cache[u]

-----------------------------------------------------------------------------
\* Handlers in flight

Pcs == {"idle", "delTok", "delPerm", "commit", "roleFind", "roleLoad", "roleWrite",
        "roleDrop", "menuDrop", "keys", "refresh", "refreshOne"}

\* How far the refresh of one user is, and what it has read so far.
Views == [at : {"no", "roles", "menus", "online", "set"},
          roles : SUBSET Roles, perms : SUBSET Menus]
NoView == [at |-> "no", roles |-> {}, perms |-> {}]

Jobs == [pc : Pcs,
         usr : SUBSET Users,       \* the user it is about, if any
         id : Roles \cup Menus \cup {0},
         want : SUBSET Menus,      \* menuIds of a role update
         seen : SUBSET Menus,      \* what save() loaded of sys_role_menus
         anew : BOOLEAN,           \* it found no row of the role
         view : [Users -> Views],
         \* for the properties
         alone : BOOLEAN,          \* no other handler since it began
         there : SUBSET Users,     \* users online since it began
         calm : SUBSET Users]      \* users that did not log in since it began

IdleJob == [pc |-> "idle", usr |-> {}, id |-> 0, want |-> {}, seen |-> {}, anew |-> FALSE,
            view |-> [u \in Users |-> NoView],
            alone |-> FALSE, there |-> {}, calm |-> {}]

At(p, pc) == job[p].pc = pc
Idle(p) == At(p, "idle")
Goto(p, pc) == job' = [job EXCEPT ![p].pc = pc]
End(p) == job' = [job EXCEPT ![p] = IdleJob]

\* Another handler came in: whoever was alone is no longer.
Disturbed == [q \in Procs |-> [job[q] EXCEPT !.alone = FALSE]]

Start(p, rec) ==
    /\ Idle(p)
    /\ job' = [Disturbed EXCEPT ![p] = [rec EXCEPT !.alone = \A q \in Procs : Idle(q),
                                                  !.there = {u \in Users : online[u]},
                                                  !.calm = Users]]
    /\ fresh' = {}
    /\ UNCHANGED apart

Init ==
    /\ userRoles \in [Users -> SUBSET Roles]
    /\ role = [r \in Roles |-> "live"]
    /\ roleMenus \in [Roles -> SUBSET Menus]
    /\ menu \in [Menus -> {"unused", "perm"}]
    /\ \A r \in Roles : roleMenus[r] \subseteq Existing
    /\ online = [u \in Users |-> FALSE]
    /\ cache = [u \in Users |-> Absent]
    /\ job = [p \in Procs |-> IdleJob]
    /\ fresh = {}
    /\ apart = FALSE
    /\ shut = {}

-----------------------------------------------------------------------------
\* Sessions, as far as permissions depend on them: a login writes auth:token
\* and leaves auth:permission alone.

Login(u) ==
    /\ online' = [online EXCEPT ![u] = TRUE]
    /\ job' = [p \in Procs |-> [job[p] EXCEPT !.calm = @ \ {u}]]
    /\ shut' = shut \ {u}
    /\ UNCHANGED <<db, cache, fresh, apart>>

\* The day auth:token was set for is over; auth:permission has no TTL.
Expire(u) ==
    /\ online[u]
    /\ online' = [online EXCEPT ![u] = FALSE]
    /\ job' = [p \in Procs |-> [job[p] EXCEPT !.there = @ \ {u}]]
    /\ UNCHANGED <<db, cache, past>>

-----------------------------------------------------------------------------
\* UserService.update, then refreshPerms.  Its UPDATE of sys_user holds the row
\* lock until the COMMIT, so two updates of a user's roles do not interleave.

\* addAndRemove; a role that does not exist fails the foreign key.
Assign(p, u, rs) ==
    /\ rs \subseteq Live
    /\ \A q \in Procs : job[q].pc \in {"delTok", "delPerm", "commit"} => u \notin job[q].usr
    /\ userRoles' = [userRoles EXCEPT ![u] = rs]
    /\ Start(p, [IdleJob EXCEPT !.pc = "refreshOne", !.usr = {u},
                                !.view[u].at = "roles"])
    /\ UNCHANGED <<role, roleMenus, menu, redis, shut>>

\* status 0: forbidden(id) inside the transaction.
Disable(p, u) ==
    /\ \A q \in Procs : job[q].pc \in {"delTok", "delPerm", "commit"} => u \notin job[q].usr
    /\ Start(p, [IdleJob EXCEPT !.pc = "delTok", !.usr = {u}])
    /\ UNCHANGED <<db, redis, shut>>

DelTok(p) ==
    /\ At(p, "delTok")
    /\ online' = [u \in Users |-> online[u] /\ u \notin job[p].usr]
    /\ job' = [q \in Procs |->
                 [job[q] EXCEPT !.pc = IF q = p THEN "delPerm" ELSE @,
                                !.there = @ \ job[p].usr]]
    /\ UNCHANGED <<db, cache, past>>

DelPerm(p) ==
    /\ At(p, "delPerm")
    /\ cache' = [u \in Users |-> IF u \in job[p].usr THEN Absent ELSE cache[u]]
    /\ Goto(p, "commit")
    /\ UNCHANGED <<db, online, past>>

Commit(p) ==
    /\ At(p, "commit")
    /\ job' = [job EXCEPT ![p].pc = "refreshOne",
                          ![p].view = [u \in Users |->
                             IF u \in job[p].usr THEN [NoView EXCEPT !.at = "roles"] ELSE NoView]]
    /\ shut' = IF job[p].alone THEN shut \cup (job[p].usr \cap job[p].calm) ELSE shut
    /\ UNCHANGED <<db, redis, fresh, apart>>

-----------------------------------------------------------------------------
\* RoleService.update: find the role, find the menus, save().  save() loads the
\* join rows again and writes the difference, without a lock in between.

RoleUpdate(p, r, ms) ==
    /\ Start(p, [IdleJob EXCEPT !.pc = "roleFind", !.id = r, !.want = ms])
    /\ UNCHANGED <<db, redis, shut>>

RoleFind(p) ==
    /\ At(p, "roleFind")
    /\ IF job[p].id \in Live THEN Goto(p, "roleLoad") ELSE End(p)
    /\ UNCHANGED <<db, redis, past>>

RoleLoad(p) ==
    LET r == job[p].id
    IN  /\ At(p, "roleLoad")
        /\ job' = [job EXCEPT ![p] = [@ EXCEPT !.pc = "roleWrite", !.want = job[p].want \cap Existing,
                                              !.seen = roleMenus[r], !.anew = r \notin Live]]
        /\ UNCHANGED <<db, redis, past>>

\* The rows to insert must be new, their menus and the role must exist.  A role
\* that was deleted since it was found is inserted again, under its old id.
RoleWrite(p) ==
    LET r == job[p].id
        inserted == job[p].want \ job[p].seen
        removed == job[p].seen \ job[p].want
        accepted == /\ job[p].anew => r \notin Live
                    /\ inserted \subseteq Existing \ roleMenus[r]
                    /\ inserted # {} => r \in Live \/ job[p].anew
    IN  /\ At(p, "roleWrite")
        /\ IF accepted
           THEN /\ roleMenus' = [roleMenus EXCEPT ![r] = (@ \ removed) \cup inserted]
                /\ role' = [role EXCEPT ![r] = IF job[p].anew THEN "live" ELSE @]
                /\ Goto(p, "keys")
           ELSE End(p) /\ UNCHANGED <<role, roleMenus>>
        /\ UNCHANGED <<userRoles, menu, redis, past>>

\* RoleController.delete: the check, then the DELETE, which the foreign key of
\* sys_user_roles refuses while a user has the role.
RoleDelete(p, r) ==
    /\ r # Root
    /\ \A u \in Users : r \notin userRoles[u]
    /\ Start(p, [IdleJob EXCEPT !.pc = "roleDrop", !.id = r])
    /\ UNCHANGED <<db, redis, shut>>

RoleDrop_TrustsTheCheck(p) ==
    /\ At(p, "roleDrop")
    /\ role' = [role EXCEPT ![job[p].id] = "deleted"]
    /\ roleMenus' = [roleMenus EXCEPT ![job[p].id] = {}]
    /\ Goto(p, "keys")
    /\ UNCHANGED <<userRoles, menu, redis, past>>

RoleDrop(p) ==
    LET r == job[p].id
    IN  /\ At(p, "roleDrop")
        /\ IF \E u \in Users : r \in userRoles[u]
           THEN End(p) /\ UNCHANGED <<role, roleMenus>>
           ELSE /\ role' = [role EXCEPT ![r] = "deleted"]
                /\ roleMenus' = [roleMenus EXCEPT ![r] = {}]
                /\ Goto(p, "keys")
        /\ UNCHANGED <<userRoles, menu, redis, past>>

-----------------------------------------------------------------------------
\* MenuController: only a dto whose type says PERMISSION leads to a refresh.

MenuCreate(p, m) ==
    /\ menu[m] = "unused"
    /\ menu' = [menu EXCEPT ![m] = "perm"]
    /\ Start(p, [IdleJob EXCEPT !.pc = "keys"])
    /\ UNCHANGED <<userRoles, role, roleMenus, redis, shut>>

\* The type may be left out of an update: then nothing is refreshed.
MenuUpdate(p, m, to, typed) ==
    /\ m \in Existing
    /\ menu' = [menu EXCEPT ![m] = to]
    /\ IF typed THEN Start(p, [IdleJob EXCEPT !.pc = "keys"])
                ELSE Idle(p) /\ job' = Disturbed /\ fresh' = {} /\ UNCHANGED apart
    /\ UNCHANGED <<userRoles, role, roleMenus, redis, shut>>

\* checkRoleByMenuId looks for any menu of the role whose id is that of the menu.
RoleByMenuId(m) == m \in Roles /\ roleMenus[m] # {}

MenuDelete(p, m) ==
    /\ m \in Existing
    /\ ~RoleByMenuId(m)
    /\ Start(p, [IdleJob EXCEPT !.pc = "menuDrop", !.id = m])
    /\ UNCHANGED <<db, redis, shut>>

\* findChildMenus and the DELETE, which cascades to sys_role_menus
MenuDrop(p) ==
    LET gone == ({job[p].id} \cup Below[job[p].id]) \cap Existing
    IN  /\ At(p, "menuDrop")
        /\ menu' = [m \in Menus |-> IF m \in gone THEN "deleted" ELSE menu[m]]
        /\ roleMenus' = [r \in Roles |-> roleMenus[r] \ gone]
        /\ Goto(p, "keys")
        /\ UNCHANGED <<userRoles, role, redis, past>>

-----------------------------------------------------------------------------
\* refreshOnlineUserPerms: KEYS auth:token:*, then for each of them, side by
\* side, the two reads of getPermissions and the SET.

Keys(p) ==
    /\ At(p, "keys")
    /\ IF \E u \in Users : online[u]
       THEN job' = [job EXCEPT ![p] = [@ EXCEPT !.pc = "refresh",
              !.view = [u \in Users |-> IF online[u] THEN [NoView EXCEPT !.at = "roles"]
                                       ELSE NoView]]]
       ELSE End(p)
    /\ UNCHANGED <<db, redis, past>>

ViewAt(p, u, at) == job[p].pc \in {"refresh", "refreshOne"} /\ job[p].view[u].at = at
View(p, u, v) == job' = [job EXCEPT ![p].view[u] = v]

\* getRoleIdsByUser
ReadRoles(p, u) ==
    /\ ViewAt(p, u, "roles")
    /\ View(p, u, [NoView EXCEPT !.at = "menus", !.roles = userRoles[u]])
    /\ UNCHANGED <<db, redis, past>>

ReadMenus_KeepsWhenEmpty(p, u) ==
    /\ ViewAt(p, u, "menus")
    /\ View(p, u, [at |-> IF At(p, "refreshOne") THEN "online" ELSE "set", roles |-> {},
                   perms |-> LET ps == PermsOf(job[p].view[u].roles)
                             IN  IF ps = {} THEN Allowed(u) ELSE ps])
    /\ UNCHANGED <<db, redis, past>>

\* The menus of those roles; refreshPerms looks for auth:token next.
ReadMenus(p, u) ==
    /\ ViewAt(p, u, "menus")
    /\ View(p, u, [at |-> IF At(p, "refreshOne") THEN "online" ELSE "set",
                   roles |-> {}, perms |-> PermsOf(job[p].view[u].roles)])
    /\ UNCHANGED <<db, redis, past>>

\* The refresh of one user is done; with the last one the handler ends.
Done(p, u) ==
    IF \A w \in Users \ {u} : job[p].view[w] = NoView
    THEN /\ End(p)
         /\ fresh' = IF \E q \in Procs \ {p} : ~Idle(q) THEN {}
                     ELSE IF At(p, "refreshOne") THEN job[p].there \cap job[p].usr
                     ELSE job[p].there
         /\ apart' = job[p].alone
    ELSE /\ View(p, u, NoView)
         /\ UNCHANGED <<fresh, apart>>

CheckOnline_Skipped(p, u) ==
    /\ ViewAt(p, u, "online")
    /\ View(p, u, [job[p].view[u] EXCEPT !.at = "set"])
    /\ UNCHANGED <<db, redis, past>>

CheckOnline(p, u) ==
    /\ ViewAt(p, u, "online")
    /\ IF online[u]
       THEN View(p, u, [job[p].view[u] EXCEPT !.at = "set"]) /\ UNCHANGED <<fresh, apart>>
       ELSE Done(p, u)
    /\ UNCHANGED <<db, redis, shut>>

SetCache(p, u) ==
    /\ ViewAt(p, u, "set")
    /\ cache' = [cache EXCEPT ![u] = job[p].view[u].perms]
    /\ Done(p, u)
    /\ UNCHANGED <<db, online, shut>>

\* The instance dies, or MySQL or Redis fails a call; what was written stays.
Abort(p) ==
    /\ ~Idle(p)
    /\ End(p)
    /\ UNCHANGED <<db, redis, past>>

-----------------------------------------------------------------------------
Update(p) ==
    \/ DelTok(p) \/ DelPerm(p) \/ Commit(p)
    \/ RoleFind(p) \/ RoleLoad(p) \/ RoleWrite(p) \/ RoleDrop(p) \/ MenuDrop(p)

Refresh(p) ==
    \/ Keys(p)
    \/ \E u \in Users : ReadRoles(p, u) \/ ReadMenus(p, u) \/ CheckOnline(p, u) \/ SetCache(p, u)

Arrive(p) ==
    \/ "assign" \in Calls /\ \E u \in Users, rs \in SUBSET Roles : Assign(p, u, rs)
    \/ "disable" \in Calls /\ \E u \in Users : Disable(p, u)
    \/ "roleUpdate" \in Calls /\ \E r \in Roles, ms \in SUBSET Menus : RoleUpdate(p, r, ms)
    \/ "roleDelete" \in Calls /\ \E r \in Roles : RoleDelete(p, r)
    \/ "menuCreate" \in Calls /\ \E m \in Menus : MenuCreate(p, m)
    \/ "menuUpdate" \in Calls /\ \E m \in Menus, to \in {"plain", "perm"}, typed \in BOOLEAN :
           MenuUpdate(p, m, to, typed)
    \/ "menuDelete" \in Calls /\ \E m \in Menus : MenuDelete(p, m)

Next ==
    \/ \E u \in Users : Login(u) \/ ("expire" \in Calls /\ Expire(u))
    \/ \E p \in Procs : Arrive(p) \/ Update(p) \/ Refresh(p)
                        \/ ("crash" \in Calls /\ Abort(p))

Spec == Init /\ [][Next]_vars

-----------------------------------------------------------------------------
\* Properties

Granted(u) == PermsOf(userRoles[u])

\* TypeOK: every variable stays in its type.
TypeOK ==
    /\ userRoles \in [Users -> SUBSET Roles]
    /\ role \in [Roles -> {"live", "deleted"}]
    /\ roleMenus \in [Roles -> SUBSET Menus]
    /\ menu \in [Menus -> {"unused", "plain", "perm", "deleted"}]
    /\ online \in [Users -> BOOLEAN]
    /\ cache \in [Users -> {Absent} \cup SUBSET Menus]
    /\ job \in [Procs -> Jobs]
    /\ fresh \in SUBSET Users
    /\ apart \in BOOLEAN
    /\ shut \in SUBSET Users

\* RefreshedAlone: when a handler that overlapped no other has changed roles or
\* menus and ended, the cache of every user that was online all the while holds
\* exactly the permissions of the user's roles (refreshOnlineUserPerms,
\* refreshPerms), whatever earlier crashes and races had left there.
RefreshedAlone == apart => \A u \in fresh : cache[u] = Granted(u)

\* DisabledHoldsNothing: a user that was disabled by a handler that overlapped
\* no other, and no login of the user, has no cached permissions until the next
\* login, whichever refreshes run in the meantime (forbidden, refreshPerms).
DisabledHoldsNothing == \A u \in shut : cache[u] = Absent

\* NoOrphans: a user's roles and a role's menus exist.  The check that no user
\* has a role and the DELETE of it are two calls, and so are reading the menus
\* and saving them; what comes in between never leaves a user without the role
\* it was given (RoleController.delete, RoleService.update).
NoOrphans ==
    /\ \A u \in Users : userRoles[u] \subseteq Live
    /\ \A r \in Roles : roleMenus[r] \subseteq IF r \in Live THEN Existing ELSE {}

Quiet == \A p \in Procs : Idle(p)

\* GrantedIsAllowed: while no handler runs, the guard lets a logged-in user do
\* what the user's roles permit, which is what the comment in RbacGuard says; the
\* run shows where the code departs from it.
GrantedIsAllowed == Quiet => \A u \in Users : online[u] => Granted(u) \subseteq Allowed(u)
=============================================================================
