------------------------------ MODULE Session ------------------------------
(***************************************************************************)
(* The life of a login: AuthService, TokenService, JwtAuthGuard, the parts *)
(* of UserService and OnlineService that end sessions, and the nightly     *)
(* sweep of CronService.                                                   *)
(*                                                                         *)
(* Every handler awaits MySQL or Redis several times, and several          *)
(* instances of the program run over the same two stores, so each awaited  *)
(* call that another handler can observe is a step of its own.  A handler  *)
(* in flight is a job; job[p].pc names the call it is about to make.       *)
(***************************************************************************)
EXTENDS Naturals, FiniteSets

CONSTANTS
    Users,        \* accounts other than the root account
    Nobody,       \* the owner of a token that was never issued
    MaxTok,       \* bound: how many access tokens are ever issued
    Procs,        \* bound: how many handlers run at the same time
    MultiDevice,  \* MULTI_DEVICE_LOGIN
    Ops           \* which operations, besides logins and requests, are called

AllOps == {"logout", "kick", "password", "update", "delete", "crash"}

ASSUME SessionAssumption ==
    /\ Nobody \notin Users
    /\ MaxTok \in Nat
    /\ MultiDevice \in BOOLEAN
    /\ Ops \subseteq AllOps

VARIABLES
    account,      \* sys_user.status; "deleted" when the row is gone
    owner,        \* whom a token was signed for
    age,          \* how much of its life a token has used up
    rows,         \* user_access_tokens
    refreshRows,  \* user_refresh_tokens, by the access token they belong to
    black,        \* token:blacklist:<token>, by how its TTL was rounded
    pv,           \* auth:passwordVersion:<uid>
    authTok,      \* auth:token:<uid>
    job,          \* the handlers in flight
    held,         \* tokens a login replied with: what clients can present
    \* What the properties remember of the past; no action reads these.
    out,          \* tokens whose logout (or kick) ran to its end
    closed,       \* users whose sessions were ended and who have not tried to
                  \* log in since; see Close
    superseded    \* tokens of earlier devices; see LoginCache

db     == <<account, owner, rows, refreshRows>>
redis  == <<black, pv, authTok>>
past   == <<out, closed, superseded>>
vars   == <<account, owner, age, rows, refreshRows, black, pv, authTok, job,
            held, out, closed, superseded>>

Tokens == 1..MaxTok
NoTok  == 0

\* The ages of a token.  Closing is the last half second of the JWT: there
\* (exp - now).toFixed(0) is "0", and a blacklist entry whose TTL was rounded
\* down is already gone.  Expired: only the refresh token is still good.
\* Dead: neither is.
Fresh   == 0
Closing == 1
Expired == 2
Dead    == 3

Labels == {"out", "closed", "gone", "disabled", "superseded"}

Pcs == {"idle",
        "loginInsert", "loginRefresh", "loginCache", "loginPv", "loginReply",
        "recheck", "verify", "lookup", "reissue", "reissueRefresh",
        "dropOld", "checkPv", "checkDevice", "admitted",
        "blacklist", "removeRow", "logoutPv", "logoutTok",
        "pwUpdate", "pvGet", "pvSet",
        "lockRow", "disablePv", "disableTok", "disableCommit",
        "deletePv", "deleteTok"}

Jobs == [pc    : Pcs,
         usr   : Users \cup {Nobody},      \* on whose account it works
         tok   : Tokens \cup {NoTok},      \* the token presented or issued
         new   : Tokens \cup {NoTok},      \* the token a refresh issued
         route : {"account", "other"},     \* account routes run the guard twice
         pass  : {1, 2},
         how   : {"direct", "refresh"},    \* how the guard let it through
         then  : {"keep", "enable", "disable"},
         calm  : BOOLEAN,                  \* no login of usr since it started
         begun : SUBSET Labels,            \* what held when the request came in
         olds  : SUBSET Tokens]            \* tokens held when the login began

IdleJob == [pc |-> "idle", usr |-> Nobody, tok |-> NoTok, new |-> NoTok,
            route |-> "other", pass |-> 1, how |-> "direct", then |-> "keep",
            calm |-> FALSE, begun |-> {}, olds |-> {}]

Init ==
    /\ account = [u \in Users |-> "enabled"]
    /\ owner = [t \in Tokens |-> Nobody]
    /\ age = [t \in Tokens |-> Fresh]
    /\ rows = {}
    /\ refreshRows = {}
    /\ black = [t \in Tokens |-> "none"]
    /\ pv = [u \in Users |-> "none"]
    /\ authTok = [u \in Users |-> NoTok]
    /\ job = [p \in Procs |-> IdleJob]
    /\ held = {}
    /\ out = {}
    /\ closed = {}
    /\ superseded = {}

-----------------------------------------------------------------------------
Idle(p)    == job[p].pc = "idle"
At(p, l)   == job[p].pc = l
Put(p, j)  == job' = [job EXCEPT ![p] = j]
Goto(p, l) == Put(p, [job[p] EXCEPT !.pc = l])
End(p)     == Put(p, IdleJob)

Issued(t)  == owner[t] # Nobody
OwnedBy(u) == {t \in Tokens : owner[t] = u}

\* The sign calls hand out tokens in order: t is the next one.
IsNext(t) == ~Issued(t) /\ \A s \in Tokens : s < t => Issued(s)

\* The bound MaxTok is reached: a handler that needs a token is dropped.
NoneLeft == \A t \in Tokens : Issued(t)

\* A JWT that was signed is saved with its owner (accessToken.save()).
Insert(t, u) ==
    /\ IsNext(t)
    /\ owner' = [owner EXCEPT ![t] = u]
    /\ rows' = rows \cup {t}

\* Removing an access token removes its refresh token (ON DELETE CASCADE).
RemoveRows(T) ==
    /\ rows' = rows \ T
    /\ refreshRows' = refreshRows \ T

\* InnoDB keeps the sys_user row locked from the UPDATE of a transaction to
\* its COMMIT; another UPDATE, the DELETE and the foreign-key check of an
\* insert into user_access_tokens wait for it.
RowLocked_FromTheStart(u) ==
    \E q \in Procs : /\ job[q].usr = u
                     /\ \/ job[q].pc \in {"disablePv", "disableTok", "disableCommit"}
                        \/ job[q].pc = "pwUpdate" /\ job[q].then = "disable"

RowLocked(u) ==
    \E q \in Procs : /\ job[q].usr = u
                     /\ job[q].pc \in {"disablePv", "disableTok", "disableCommit"}

LoginPcs == {"loginInsert", "loginRefresh", "loginCache", "loginPv", "loginReply"}
NoLogin(u) == \A q \in Procs : job[q].usr = u => job[q].pc \notin LoginPcs

\* An operation that ends the sessions of u has run to its end.  Only one that
\* no login of u overlapped promises anything: u stays closed until a login of
\* u starts.
Close(p) ==
    closed' = IF job[p].calm THEN closed \cup {job[p].usr} ELSE closed

-----------------------------------------------------------------------------
\* AuthService.login

\* findUserByUserName finds the enabled account and the password matches.
LoginStart(p, u) ==
    /\ Idle(p)
    /\ account[u] = "enabled"
    /\ closed' = closed \ {u}
    /\ job' = [q \in Procs |->
                 IF q = p
                 THEN [IdleJob EXCEPT !.pc = "loginInsert", !.usr = u,
                                      !.olds = IF MultiDevice THEN {}
                                                 ELSE held \cap OwnedBy(u)]
                 ELSE IF job[q].usr = u
                 THEN [job[q] EXCEPT !.calm = FALSE, !.begun = @ \ {"closed"}]
                 ELSE job[q]]
    /\ UNCHANGED <<db, age, redis, held, out, superseded>>

\* generateAccessToken: save() fails on the foreign key if the user is gone.
LoginInsert(p) ==
    /\ At(p, "loginInsert")
    /\ ~RowLocked(job[p].usr)
    /\ \/ /\ account[job[p].usr] = "deleted" \/ NoneLeft
          /\ End(p)
          /\ UNCHANGED db
       \/ /\ account[job[p].usr] # "deleted"
          /\ \E t \in Tokens :
                /\ Insert(t, job[p].usr)
                /\ Put(p, [job[p] EXCEPT !.pc = "loginRefresh", !.tok = t])
          /\ UNCHANGED <<account, refreshRows>>
    /\ UNCHANGED <<age, redis, held, past>>

\* generateRefreshToken: fails on the foreign key if the row was cascaded away.
LoginRefresh(p) ==
    /\ At(p, "loginRefresh")
    /\ IF job[p].tok \in rows
       THEN /\ refreshRows' = refreshRows \cup {job[p].tok}
            /\ Goto(p, "loginCache")
       ELSE End(p) /\ UNCHANGED refreshRows
    /\ UNCHANGED <<account, owner, rows, age, redis, held, past>>

\* auth:token:<uid> names the newest login; with a single device, the tokens
\* that clients of u held when this login began are superseded.
LoginCache(p) ==
    /\ At(p, "loginCache")
    /\ authTok' = [authTok EXCEPT ![job[p].usr] = job[p].tok]
    /\ superseded' = superseded \cup job[p].olds
    /\ Goto(p, "loginPv")
    /\ UNCHANGED <<db, age, black, pv, held, out, closed>>

LoginPv(p) ==
    /\ At(p, "loginPv")
    /\ pv' = [pv EXCEPT ![job[p].usr] = "one"]
    /\ Goto(p, "loginReply")
    /\ UNCHANGED <<db, age, black, authTok, held, past>>

LoginReply(p) ==
    /\ At(p, "loginReply")
    /\ held' = held \cup {job[p].tok}
    /\ End(p)
    /\ UNCHANGED <<db, age, redis, past>>

-----------------------------------------------------------------------------
\* JwtAuthGuard.canActivate.  Every token carries pv = 1.

\* What is known of token t when a request presents it.
Known(t) ==
    {l \in Labels :
       \/ l = "out" /\ t \in out /\ age[t] # Closing
       \/ l = "closed" /\ owner[t] \in closed
       \/ l = "gone" /\ owner[t] \in closed /\ account[owner[t]] = "deleted"
       \/ l = "disabled" /\ owner[t] \in closed /\ account[owner[t]] = "disabled"
       \/ l = "superseded" /\ t \in superseded}

\* A blacklisted token is refused on the spot.
RequestStart(p, t, route) ==
    /\ Idle(p)
    /\ t \in held
    /\ black[t] = "none"
    /\ Put(p, [IdleJob EXCEPT !.pc = "verify", !.usr = owner[t], !.tok = t,
                               !.route = route, !.begun = Known(t)])
    /\ UNCHANGED <<db, age, redis, held, past>>

\* The blacklist check of the second pass.
Recheck(p) ==
    /\ At(p, "recheck")
    /\ IF black[job[p].tok] = "none" THEN Goto(p, "verify") ELSE End(p)
    /\ UNCHANGED <<db, age, redis, held, past>>

\* super.canActivate: an expired JWT is turned away as 'Unauthorized'.
Verify(p) ==
    /\ At(p, "verify")
    /\ Goto(p, IF age[job[p].tok] < Expired THEN "checkPv" ELSE "lookup")
    /\ UNCHANGED <<db, age, redis, held, past>>

\* The row with its refresh token; refreshToken() gives null without one or
\* when it has expired.
Lookup(p) ==
    /\ At(p, "lookup")
    /\ IF /\ job[p].tok \in rows \cap refreshRows
          /\ age[job[p].tok] # Dead
       THEN Goto(p, "reissue")
       ELSE End(p)
    /\ UNCHANGED <<db, age, redis, held, past>>

Reissue(p) ==
    /\ At(p, "reissue")
    /\ ~RowLocked(job[p].usr)
    /\ \/ /\ account[job[p].usr] = "deleted" \/ NoneLeft
          /\ End(p)
          /\ UNCHANGED db
       \/ /\ account[job[p].usr] # "deleted"
          /\ \E t \in Tokens :
                /\ Insert(t, job[p].usr)
                /\ Put(p, [job[p] EXCEPT !.pc = "reissueRefresh", !.new = t])
          /\ UNCHANGED <<account, refreshRows>>
    /\ UNCHANGED <<age, redis, held, past>>

ReissueRefresh(p) ==
    /\ At(p, "reissueRefresh")
    /\ IF job[p].new \in rows
       THEN /\ refreshRows' = refreshRows \cup {job[p].new}
            /\ Goto(p, "dropOld")
       ELSE End(p) /\ UNCHANGED refreshRows
    /\ UNCHANGED <<account, owner, rows, age, redis, held, past>>

\* A guard pass let token t through.  AccountController names JwtAuthGuard
\* again, so its routes run the global guard and then the same guard once more.
Passed(p, t, how) ==
    IF job[p].route = "account" /\ job[p].pass = 1
    THEN Put(p, [job[p] EXCEPT !.pc = "recheck", !.pass = 2, !.tok = t, !.new = NoTok])
    ELSE Put(p, [job[p] EXCEPT !.pc = "admitted", !.how = how])

\* The old row goes, the request's header now carries the new token, and the
\* guard returns true at once.
DropOld(p) ==
    /\ At(p, "dropOld")
    /\ RemoveRows({job[p].tok})
    /\ Passed(p, job[p].new, "refresh")
    /\ UNCHANGED <<account, owner, age, redis, held, past>>

CheckPv(p) ==
    /\ At(p, "checkPv")
    /\ IF pv[job[p].usr] # "one" THEN End(p)
       ELSE IF MultiDevice THEN Passed(p, job[p].tok, "direct")
       ELSE Goto(p, "checkDevice")
    /\ UNCHANGED <<db, age, redis, held, past>>

CheckDevice_Any(p) ==
    /\ At(p, "checkDevice")
    /\ Passed(p, job[p].tok, "direct")
    /\ UNCHANGED <<db, age, redis, held, past>>

CheckDevice(p) ==
    /\ At(p, "checkDevice")
    /\ IF authTok[job[p].usr] = job[p].tok
       THEN Passed(p, job[p].tok, "direct")
       ELSE End(p)
    /\ UNCHANGED <<db, age, redis, held, past>>

\* The handler of a route that leaves the session alone.
Reply(p) ==
    /\ At(p, "admitted")
    /\ End(p)
    /\ UNCHANGED <<db, age, redis, held, past>>

-----------------------------------------------------------------------------
\* AuthService.clearLoginStatus, from the logout route and from kickUser

Logout(p) ==
    /\ At(p, "admitted")
    /\ job[p].route = "account"
    /\ Put(p, [job[p] EXCEPT !.pc = "blacklist", !.calm = NoLogin(job[p].usr)])
    /\ UNCHANGED <<db, age, redis, held, past>>

\* OnlineService.kickUser: the row exists and its JWT still verifies.
Kick(p, t) ==
    /\ Idle(p)
    /\ t \in rows
    /\ age[t] < Expired
    /\ Put(p, [IdleJob EXCEPT !.pc = "blacklist", !.usr = owner[t], !.tok = t,
                               !.calm = NoLogin(owner[t])])
    /\ UNCHANGED <<db, age, redis, held, past>>

\* The JWT whose claims the handler was given: after a refresh, the new one's.
Claims(p) == IF job[p].how = "refresh" THEN job[p].new ELSE job[p].tok

Blacklist_ForbidsAlways(p) ==
    /\ At(p, "blacklist")
    /\ age[Claims(p)] = Fresh
    /\ \E ttl \in {"short", "long"} : black' = [black EXCEPT ![job[p].tok] = ttl]
    /\ Goto(p, "logoutPv")
    /\ UNCHANGED <<db, age, pv, authTok, held, past>>

\* SET EX: Redis refuses a TTL of "0" or below, and the handler fails there.
\* When the second pass of the guard refreshed, the TTL is that of the new JWT,
\* the entry that of the old one, which is refused without it as well.
Blacklist(p) ==
    /\ At(p, "blacklist")
    /\ \/ /\ age[Claims(p)] = Fresh
          /\ \E ttl \in {"short", "long"} :
                black' = [black EXCEPT ![job[p].tok] = ttl]
          /\ Goto(p, IF MultiDevice THEN "removeRow" ELSE "logoutPv")
       \/ /\ age[Claims(p)] # Fresh
          /\ End(p)
          /\ UNCHANGED black
    /\ UNCHANGED <<db, age, pv, authTok, held, past>>

RemoveRow_KeepsRow(p) ==
    /\ At(p, "removeRow")
    /\ out' = out \cup {job[p].tok}
    /\ End(p)
    /\ UNCHANGED <<db, age, redis, held, closed, superseded>>

\* removeAccessToken; a row that is already gone is not an error.
RemoveRow(p) ==
    /\ At(p, "removeRow")
    /\ RemoveRows({job[p].tok})
    /\ out' = out \cup {job[p].tok}
    /\ End(p)
    /\ UNCHANGED <<account, owner, age, redis, held, closed, superseded>>

\* forbidden(uid, accessToken)
LogoutPv(p) ==
    /\ At(p, "logoutPv")
    /\ pv' = [pv EXCEPT ![job[p].usr] = "none"]
    /\ Goto(p, "logoutTok")
    /\ UNCHANGED <<db, age, black, authTok, held, past>>

\* With the row gone, token.id throws: the reply is an error.
LogoutTok(p) ==
    /\ At(p, "logoutTok")
    /\ authTok' = [authTok EXCEPT ![job[p].usr] = NoTok]
    /\ out' = IF job[p].tok \in rows THEN out \cup {job[p].tok} ELSE out
    /\ Close(p)
    /\ End(p)
    /\ UNCHANGED <<db, age, black, pv, held, superseded>>

-----------------------------------------------------------------------------
\* UserService.updatePassword and forceUpdatePassword.  Which password is
\* stored is not tracked: a login that gives a wrong one changes nothing.

ChangePassword(p) ==
    /\ At(p, "admitted")
    /\ job[p].route = "account"
    /\ account[job[p].usr] # "deleted"
    /\ Put(p, [job[p] EXCEPT !.pc = "pwUpdate", !.calm = NoLogin(job[p].usr)])
    /\ UNCHANGED <<db, age, redis, held, past>>

\* UserController.password and UserService.update: `then` is the status the
\* update asks for, "keep" when only the password changes.
AdminUpdate(p, u, withPassword, then) ==
    /\ Idle(p)
    /\ account[u] # "deleted"
    /\ withPassword \/ then # "keep"
    /\ Put(p, [IdleJob EXCEPT !.pc = IF withPassword THEN "pwUpdate" ELSE "lockRow",
                               !.usr = u, !.then = then, !.calm = NoLogin(u)])
    /\ UNCHANGED <<db, age, redis, held, past>>

\* UPDATE sys_user SET password, outside the transaction of update()
PwUpdate(p) ==
    /\ At(p, "pwUpdate")
    /\ ~RowLocked(job[p].usr)
    /\ Goto(p, "pvGet")
    /\ UNCHANGED <<db, age, redis, held, past>>

AfterPassword(p) ==
    /\ IF job[p].then = "keep" THEN End(p) ELSE Goto(p, "lockRow")
    /\ Close(p)

\* upgradePasswordV: nothing to raise when the key is absent
PvGet(p) ==
    /\ At(p, "pvGet")
    /\ IF pv[job[p].usr] = "none"
       THEN AfterPassword(p)
       ELSE Goto(p, "pvSet") /\ UNCHANGED closed
    /\ UNCHANGED <<db, age, redis, held, out, superseded>>

PvSet_SameVersion(p) ==
    /\ At(p, "pvSet")
    /\ pv' = [pv EXCEPT ![job[p].usr] = "one"]
    /\ AfterPassword(p)
    /\ UNCHANGED <<db, age, black, authTok, held, out, superseded>>

PvSet_NaN(p) ==
    /\ At(p, "pvSet")
    /\ pv' = [pv EXCEPT ![job[p].usr] = "NaN"]
    /\ AfterPassword(p)
    /\ UNCHANGED <<db, age, black, authTok, held, out, superseded>>

\* The version read was at least 1, so the one written is above 1.
PvSet(p) ==
    /\ At(p, "pvSet")
    /\ pv' = [pv EXCEPT ![job[p].usr] = "more"]
    /\ AfterPassword(p)
    /\ UNCHANGED <<db, age, black, authTok, held, out, superseded>>

\* The transaction of update(): the UPDATE takes the row lock ...
LockRow(p) ==
    /\ At(p, "lockRow")
    /\ ~RowLocked(job[p].usr)
    /\ \/ /\ job[p].then = "enable"
          /\ account' = [account EXCEPT ![job[p].usr] =
                           IF @ = "deleted" THEN @ ELSE "enabled"]
          /\ End(p)
       \/ /\ job[p].then = "disable"
          /\ Goto(p, "disablePv")
          /\ UNCHANGED account
    /\ UNCHANGED <<owner, rows, refreshRows, age, redis, held, past>>

\* ... forbidden(id) runs before the COMMIT ...
DisablePv(p) ==
    /\ At(p, "disablePv")
    /\ pv' = [pv EXCEPT ![job[p].usr] = "none"]
    /\ Goto(p, "disableTok")
    /\ UNCHANGED <<db, age, black, authTok, held, past>>

DisableTok(p) ==
    /\ At(p, "disableTok")
    /\ authTok' = [authTok EXCEPT ![job[p].usr] = NoTok]
    /\ Goto(p, "disableCommit")
    /\ UNCHANGED <<db, age, black, pv, held, past>>

\* ... and only then do other connections see the new status.
DisableCommit(p) ==
    /\ At(p, "disableCommit")
    /\ account' = [account EXCEPT ![job[p].usr] =
                     IF @ = "deleted" THEN @ ELSE "disabled"]
    /\ Close(p)
    /\ End(p)
    /\ UNCHANGED <<owner, rows, refreshRows, age, redis, held, out, superseded>>

\* UserController.delete: the DELETE cascades to the tokens, then multiForbidden
Delete(p, u) ==
    /\ Idle(p)
    /\ account[u] # "deleted"
    /\ ~RowLocked(u)
    /\ account' = [account EXCEPT ![u] = "deleted"]
    /\ RemoveRows(OwnedBy(u))
    /\ Put(p, [IdleJob EXCEPT !.pc = "deletePv", !.usr = u, !.calm = NoLogin(u)])
    /\ UNCHANGED <<owner, age, redis, held, past>>

DeletePv_Skipped(p) ==
    /\ At(p, "deletePv")
    /\ Goto(p, "deleteTok")
    /\ UNCHANGED <<db, age, redis, held, past>>

DeletePv(p) ==
    /\ At(p, "deletePv")
    /\ pv' = [pv EXCEPT ![job[p].usr] = "none"]
    /\ Goto(p, "deleteTok")
    /\ UNCHANGED <<db, age, black, authTok, held, past>>

DeleteTok(p) ==
    /\ At(p, "deleteTok")
    /\ authTok' = [authTok EXCEPT ![job[p].usr] = NoTok]
    /\ Close(p)
    /\ End(p)
    /\ UNCHANGED <<db, age, black, pv, held, out, superseded>>

-----------------------------------------------------------------------------
\* Time, the nightly sweep, and crashes

\* Tokens live for hours and a handler for seconds, so a token does not age
\* while the handler that issues it runs, and older tokens age first.
BeingIssued(t) ==
    \E p \in Procs : \/ job[p].pc \in LoginPcs /\ job[p].tok = t
                     \/ job[p].new = t

Age(t) ==
    /\ Issued(t)
    /\ age[t] # Dead
    /\ ~BeingIssued(t)
    /\ \A s \in Tokens : s < t => age[s] > age[t]
    /\ age' = [age EXCEPT ![t] = @ + 1]
    /\ UNCHANGED <<db, redis, job, held, past>>

BlacklistExpires_AnyTime(t) ==
    /\ black[t] # "none"
    /\ black' = [black EXCEPT ![t] = "none"]
    /\ UNCHANGED <<db, age, pv, authTok, job, held, past>>

BlacklistExpires(t) ==
    /\ \/ black[t] = "short" /\ age[t] >= Closing
       \/ black[t] = "long" /\ age[t] >= Expired
    /\ black' = [black EXCEPT ![t] = "none"]
    /\ UNCHANGED <<db, age, pv, authTok, job, held, past>>

AuthTokExpires(u) ==
    /\ authTok[u] # NoTok
    /\ age[authTok[u]] >= Expired
    /\ authTok' = [authTok EXCEPT ![u] = NoTok]
    /\ UNCHANGED <<db, age, black, pv, job, held, past>>

\* deleteExpiredJWT selects by expired_at of the access token
CronRemove(t) ==
    /\ t \in rows
    /\ age[t] >= Expired
    /\ RemoveRows({t})
    /\ UNCHANGED <<account, owner, age, redis, job, held, past>>

\* The instance dies, or MySQL or Redis fails the call the handler awaits;
\* what it wrote stays, and a transaction is rolled back.
Abort(p) ==
    /\ ~Idle(p)
    /\ End(p)
    /\ UNCHANGED <<db, age, redis, held, past>>

-----------------------------------------------------------------------------
LoginStep(p) ==
    \/ LoginInsert(p) \/ LoginRefresh(p) \/ LoginCache(p) \/ LoginPv(p)
    \/ LoginReply(p)

GuardStep(p) ==
    \/ Recheck(p) \/ Verify(p) \/ Lookup(p) \/ Reissue(p)
    \/ ReissueRefresh(p) \/ DropOld(p) \/ CheckPv(p) \/ CheckDevice(p)

HandlerStep(p) ==
    \/ Reply(p)
    \/ "logout" \in Ops /\ Logout(p)
    \/ "password" \in Ops /\ ChangePassword(p)

ClearStep(p) ==
    \/ Blacklist(p) \/ RemoveRow(p) \/ LogoutPv(p) \/ LogoutTok(p)

UpdateStep(p) ==
    \/ PwUpdate(p) \/ PvGet(p) \/ PvSet(p)
    \/ LockRow(p) \/ DisablePv(p) \/ DisableTok(p) \/ DisableCommit(p)
    \/ DeletePv(p) \/ DeleteTok(p)

\* The steps a handler in flight takes by itself.
Step(p) == LoginStep(p) \/ GuardStep(p) \/ HandlerStep(p) \/ ClearStep(p) \/ UpdateStep(p)

Arrive(p) ==
    \/ \E u \in Users : LoginStart(p, u)
    \/ \E t \in Tokens, r \in {"account", "other"} : RequestStart(p, t, r)
    \/ "kick" \in Ops /\ \E t \in Tokens : Kick(p, t)
    \/ "delete" \in Ops /\ \E u \in Users : Delete(p, u)
    \/ "update" \in Ops /\ \E u \in Users, w \in BOOLEAN, s \in {"keep", "enable", "disable"} :
          AdminUpdate(p, u, w, s)

Clock ==
    \/ \E t \in Tokens : Age(t) \/ BlacklistExpires(t) \/ CronRemove(t)
    \/ \E u \in Users : AuthTokExpires(u)

Next ==
    \/ \E p \in Procs : Arrive(p) \/ Step(p) \/ ("crash" \in Ops /\ Abort(p))
    \/ Clock

Spec == Init /\ [][Next]_vars

\* Node runs every handler to its next await, MySQL and Redis answer, and
\* InnoDB grants a row lock in the order it was asked for, so a handler that
\* waits for one is not passed over forever.
Fairness == \A p \in Procs : SF_vars(Step(p))

-----------------------------------------------------------------------------
\* Properties

\* TypeOK: every variable stays in its type.
TypeOK ==
    /\ account \in [Users -> {"enabled", "disabled", "deleted"}]
    /\ owner \in [Tokens -> Users \cup {Nobody}]
    /\ age \in [Tokens -> {Fresh, Closing, Expired, Dead}]
    /\ rows \in SUBSET Tokens
    /\ refreshRows \in SUBSET Tokens
    /\ black \in [Tokens -> {"none", "short", "long"}]
    /\ pv \in [Users -> {"none", "one", "more"}]
    /\ authTok \in [Users -> Tokens \cup {NoTok}]
    /\ job \in [Procs -> Jobs]
    /\ held \in SUBSET Tokens
    /\ out \in SUBSET Tokens
    /\ closed \in SUBSET Users
    /\ superseded \in SUBSET Tokens

Admitted(p) == job[p].pc = "admitted"

\* LoggedOutRefused: a request that presents a token whose logout or kick has
\* already been answered is not let through, directly or by a refresh, except
\* in the last half second of the JWT, where the rounded TTL of the blacklist
\* entry is already over (clearLoginStatus, canActivate).
LoggedOutRefused == \A p \in Procs : Admitted(p) => "out" \notin job[p].begun

\* EndedSessionsRefused: after a password change, a disabling or a deletion that
\* no login of the user overlapped, and until the next login of that user
\* starts, no request is let through on its own JWT.  A refresh does not look
\* at the password version, so it may still be let through that way.
EndedSessionsRefused ==
    \A p \in Procs : Admitted(p) /\ "closed" \in job[p].begun => job[p].how = "refresh"

\* DeletedRefused: after the deletion of a user that no login of the user
\* overlapped, no request with a token of that user is ever let through, not
\* even by a refresh, because the tokens went with the user.
DeletedRefused == \A p \in Procs : Admitted(p) => "gone" \notin job[p].begun

\* NewestDeviceOnly: with a single device, once a login has replaced the devices
\* that were logged in before it began, their tokens are not let through on
\* their own JWT again (ACCOUNT_LOGGED_IN_ELSEWHERE).
NewestDeviceOnly ==
    ~MultiDevice => \A p \in Procs : Admitted(p) /\ "superseded" \in job[p].begun
                                        => job[p].how = "refresh"

\* SessionsEndForACause: a token that was let through until now is refused from
\* now on only because the day is over, because it is being logged out, or
\* because its user changed the password, was disabled or was deleted; with a
\* single device also because the user logged out or was kicked.  Logging one
\* device out leaves the other devices alone.
Usable(t) ==
    Issued(t) /\ age[t] < Expired /\ black[t] = "none" /\ pv[owner[t]] = "one"

SessionsEndForACause ==
    [][\A t \in Tokens :
         Usable(t) /\ ~Usable(t)' =>
            \/ age'[t] = Expired
            \/ \E p \in Procs :
                  \/ job[p].pc = "blacklist" /\ job[p].tok = t
                  \/ /\ job[p].usr = owner[t]
                     /\ \/ job[p].pc \in {"pvSet", "disablePv", "deletePv"}
                        \/ job[p].pc = "logoutPv" /\ ~MultiDevice]_vars

\* DisabledRefused: once a user is disabled, and no login of the user was under
\* way, no request with one of the user's tokens is let through.  This is what
\* the comments on forbidden() say; the run shows where the code departs from it.
DisabledRefused == \A p \in Procs : Admitted(p) => "disabled" \notin job[p].begun

\* EveryHandlerEnds: a handler that has started comes to an end; in particular
\* the row lock of update() is never awaited by the handler that holds it.
EveryHandlerEnds == \A p \in Procs : ~Idle(p) ~> Idle(p)

-----------------------------------------------------------------------------
\* The refinement: what the handlers do to the gate and to the tokens.

StageOf(t) ==
    IF ~Issued(t) THEN "unissued"
    ELSE IF age[t] >= Expired
    THEN IF age[t] = Expired /\ t \in rows \cap refreshRows
         THEN "refreshable" ELSE "over"
    ELSE IF black[t] # "none" THEN "revoked"
    ELSE IF age[t] = Fresh THEN "usable" ELSE "lastMoments"

Abs == INSTANCE SessionAbs WITH
         gate   <- [u \in Users |-> IF pv[u] = "one" THEN "open" ELSE "shut"],
         stage  <- [t \in Tokens |-> StageOf(t)],
         alive  <- {u \in Users : account[u] # "deleted"},
         logins <- {u \in Users : ~NoLogin(u)}

\* ImplementsSessionAbs: every step of the handlers, the clock and the sweep is
\* a step SessionAbs allows, or changes nothing it speaks of.
ImplementsSessionAbs == Abs!Spec
=============================================================================
