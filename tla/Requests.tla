------------------------------ MODULE Requests ------------------------------
(***************************************************************************)
(* The way of a request: the hook of the Fastify adapter, JwtAuthGuard,    *)
(* RbacGuard, ResourceGuard, TimeoutInterceptor, the pipes, the handler    *)
(* and what is sent back.  The handlers are those of todos, the only       *)
(* controller with an owner to check.  How a token is judged is in         *)
(* Session, which permissions a user has in PermCache.                     *)
(***************************************************************************)
EXTENDS Naturals, FiniteSets

CONSTANTS
    Requests, \* bound: the requests there ever are
    MaxTodo,  \* bound: todos ever inserted
    None      \* nobody, no reply yet

TodoIds == 1..MaxTodo

RequestsAssumption == MaxTodo \in Nat \ {0} /\ None \notin Nat

\* Who asks: a user with Roles.ADMIN, one with the permissions of todos, one
\* without, or nobody a token proves.
Users == {"admin", "user", "guest"}

\* What the decorators of a route say: Public, AllowAnon, Perm, and Resource.
Route(public, anon, perm, entity) ==
    [public |-> public, anon |-> anon, perm |-> perm, entity |-> entity]

Routes ==
    [login |-> Route(TRUE, FALSE, FALSE, FALSE), profile |-> Route(FALSE, TRUE, FALSE, FALSE),
     list |-> Route(FALSE, FALSE, TRUE, FALSE), info |-> Route(FALSE, FALSE, TRUE, FALSE),
     create |-> Route(FALSE, FALSE, TRUE, FALSE), update |-> Route(FALSE, FALSE, TRUE, TRUE),
     delete |-> Route(FALSE, FALSE, TRUE, TRUE)]

\* What a handler takes is as IdParam and its DTO want it, or is not.
HasId == {"info", "update", "delete"}
HasBody == {"list", "create", "update"}
Inputs == {"valid", "bad body", "bad id"}

VARIABLES
    todo,   \* the rows: their owner, None if there is none; user_id is set by no code
    given,  \* AUTO_INCREMENT
    gone,   \* remembered: the rows that were deleted
    req     \* the requests

vars == <<todo, given, gone, req>>

\* Where the request is; whose it is; the reply; remembered: it made a row,
\* changed one of its user's, or changed another.
Request == [at : {"new", "jwt", "rbac", "resource", "pipe", "handler", "remove", "end"},
            route : DOMAIN Routes, who : Users \cup {None}, id : TodoIds, input : Inputs,
            reply : {None, "ok", "204", "401", "404", "406", "408", "418", "422", "500", "1017", "1102", "1107"},
            wrote : {"nothing", "new row", "own row", "row"}]

Init ==
    /\ \E rows \in SUBSET {1} : todo = [i \in rows |-> None]
    /\ given = 1
    /\ gone = {}
    /\ req = [r \in Requests |-> [at |-> "new", route |-> "login", who |-> None, id |-> 1,
                                  input |-> "valid", reply |-> None, wrote |-> "nothing"]]

Move(r, at) == req' = [req EXCEPT ![r].at = at]

\* AllExceptionFilter: the code of a BusinessException, the status of another,
\* in one reply.  After a timeout nobody is left to tell.
Replied(r, code) == IF req[r].reply = None THEN code ELSE req[r].reply
Throw(r, code) == req' = [req EXCEPT ![r] = [@ EXCEPT !.at = "end", !.reply = Replied(r, code)]]

\* TransformInterceptor wraps what the handler returns.
Return(r, wrote) ==
    req' = [req EXCEPT ![r] = [@ EXCEPT !.at = "end", !.wrote = wrote, !.reply = Replied(r, "ok")]]

-----------------------------------------------------------------------------
\* onRequest answers for .php, favicon.ico and manifest.json itself.
Answered418(r) ==
    /\ req[r].at = "new"
    /\ \E code \in {"418", "204"} : Throw(r, code)
    /\ UNCHANGED <<todo, given, gone>>

Arrive(r, route, who, id, input) ==
    /\ req[r].at = "new"
    /\ id # 1 => route \in HasId
    /\ input = "bad id" => route \in HasId
    /\ input = "bad body" => route \in HasBody
    /\ req' = [req EXCEPT ![r] = [@ EXCEPT !.at = "jwt", !.route = route, !.who = who,
                                           !.id = id, !.input = input]]
    /\ UNCHANGED <<todo, given, gone>>

R(r) == Routes[req[r].route]

JwtAuthGuard(r) ==
    /\ req[r].at = "jwt"
    /\ IF req[r].who = None /\ ~R(r).public THEN Throw(r, "401") ELSE Move(r, "rbac")
    /\ UNCHANGED <<todo, given, gone>>

Permitted(who) == who = "user"

RbacGuard(r) ==
    /\ req[r].at = "rbac"
    /\ IF R(r).public THEN Move(r, "resource")
       ELSE IF req[r].who = None THEN Throw(r, "401")
       ELSE IF R(r).anon \/ ~R(r).perm \/ req[r].who = "admin" \/ Permitted(req[r].who)
       THEN Move(r, "resource")
       ELSE Throw(r, "1102")
    /\ UNCHANGED <<todo, given, gone>>

\* The rows of the request that belong to the user; the id is the path's.
Owned(r) ==
    {i \in DOMAIN todo : i = req[r].id /\ req[r].input # "bad id" /\ todo[i] = req[r].who}

ResourceGuard_Existing(r) ==
    /\ req[r].at = "resource"
    /\ IF R(r).entity /\ req[r].who # "admin" /\ req[r].id \notin DOMAIN todo
       THEN Throw(r, "1107") ELSE Move(r, "pipe")
    /\ UNCHANGED <<todo, given, gone>>

ResourceGuard(r) ==
    /\ req[r].at = "resource"
    /\ IF ~R(r).public /\ R(r).entity /\ req[r].who # "admin" /\ Owned(r) = {}
       THEN Throw(r, "1107")
       ELSE Move(r, "pipe")
    /\ UNCHANGED <<todo, given, gone>>

\* ValidationPipe takes from a body what its DTO names and no more; ParseIntPipe.
Pipes(r) ==
    /\ req[r].at = "pipe"
    /\ CASE req[r].input = "bad id" -> Throw(r, "406")
         [] req[r].input = "bad body" -> Throw(r, "422")
         [] req[r].input = "valid" -> Move(r, "handler")
    /\ UNCHANGED <<todo, given, gone>>

-----------------------------------------------------------------------------
\* TodoController, TodoService

Row(r) ==
    IF req[r].id \notin DOMAIN todo THEN "nothing"
    ELSE IF todo[req[r].id] = req[r].who THEN "own row" ELSE "row"

Handle(r, route) == req[r].at = "handler" /\ req[r].route = route

List(r) ==
    /\ \E route \in {"login", "list"} : Handle(r, route)
    /\ Return(r, "nothing")
    /\ UNCHANGED <<todo, given, gone>>

\* getAccountInfo: the user may have been deleted since the guard.
Profile(r) ==
    /\ Handle(r, "profile")
    /\ Return(r, "nothing") \/ Throw(r, "1017")
    /\ UNCHANGED <<todo, given, gone>>

Info(r) ==
    /\ Handle(r, "info")
    /\ IF req[r].id \in DOMAIN todo THEN Return(r, "nothing") ELSE Throw(r, "404")
    /\ UNCHANGED <<todo, given, gone>>

\* The DTO has no id: save() inserts, and sets no user.
Create(r) ==
    /\ Handle(r, "create") /\ given < MaxTodo
    /\ given' = given + 1
    /\ todo' = [i \in DOMAIN todo \cup {given + 1} |-> IF i \in DOMAIN todo THEN todo[i] ELSE None]
    /\ Return(r, "new row")
    /\ UNCHANGED gone

Update_Saves(r) ==
    /\ Handle(r, "update")
    /\ todo' = [i \in DOMAIN todo \cup {req[r].id} |-> IF i \in DOMAIN todo THEN todo[i] ELSE None]
    /\ Return(r, "row")
    /\ UNCHANGED <<given, gone>>

\* An UPDATE of no row is no error.
Update(r) ==
    /\ Handle(r, "update")
    /\ Return(r, Row(r))
    /\ UNCHANGED <<todo, given, gone>>

Detail(r) ==
    /\ Handle(r, "delete")
    /\ IF req[r].id \in DOMAIN todo THEN Move(r, "remove") ELSE Throw(r, "404")
    /\ UNCHANGED <<todo, given, gone>>

Remove(r) ==
    /\ req[r].at = "remove"
    /\ todo' = [i \in DOMAIN todo \ {req[r].id} |-> todo[i]]
    /\ gone' = gone \cup {req[r].id}
    /\ Return(r, Row(r))
    /\ UNCHANGED given

Running == {"pipe", "handler", "remove"}

\* MySQL or Redis fails.
Fail(r) ==
    /\ req[r].at \in Running \cup {"jwt", "rbac", "resource"}
    /\ Throw(r, "500")
    /\ UNCHANGED <<todo, given, gone>>

\* The handler goes on, and may still write.
Timeout(r) ==
    /\ req[r].at \in Running /\ req[r].reply = None
    /\ req' = [req EXCEPT ![r].reply = "408"]
    /\ UNCHANGED <<todo, given, gone>>

-----------------------------------------------------------------------------
Next ==
    \E r \in Requests :
        \/ Answered418(r)
        \/ \E route \in DOMAIN Routes, who \in Users \cup {None}, id \in TodoIds, input \in Inputs :
             Arrive(r, route, who, id, input)
        \/ JwtAuthGuard(r) \/ RbacGuard(r) \/ ResourceGuard(r) \/ Pipes(r)
        \/ List(r) \/ Profile(r) \/ Info(r) \/ Create(r) \/ Update(r) \/ Detail(r) \/ Remove(r)
        \/ Fail(r) \/ Timeout(r)

Spec == Init /\ [][Next]_vars

-----------------------------------------------------------------------------
\* Properties

\* TypeOK: every variable stays in its type.
TypeOK ==
    /\ DOMAIN todo \in SUBSET TodoIds /\ \A i \in DOMAIN todo : todo[i] \in Users \cup {None}
    /\ given \in 0..MaxTodo
    /\ gone \in SUBSET TodoIds
    /\ req \in [Requests -> Request]

\* WritesAreAllowed: a row is inserted only for a user with the permission, and
\* changed or deleted only for an administrator or its owner, whatever is
\* created and deleted between the guards and the handler; a request that is
\* answered with anything but success or a timeout wrote nothing, and a body or
\* an id that is refused reached no row (RbacGuard, ResourceGuard, ValidationPipe).
WritesAreAllowed ==
    \A r \in Requests :
        LET q == req[r]
        IN  /\ q.wrote = "new row" => q.input # "bad body" /\ (q.who = "admin" \/ Permitted(q.who))
            /\ q.wrote \in {"own row", "row"} => q.input # "bad id"
            /\ q.wrote = "row" => q.who = "admin"
            /\ q.wrote # "nothing" => q.reply \in {"ok", "408"}

\* DeletedStaysDeleted: no update and no creation, however late its statement
\* comes, brings a deleted todo back (create, update).
DeletedStaysDeleted == gone \cap DOMAIN todo = {}
=============================================================================
