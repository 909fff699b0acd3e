--------------------------- MODULE ServicesProofs ---------------------------
(***************************************************************************)
(* Proofs about Requests, and about Jobs, Overview, Storage, NetDisk,      *)
(* Paging and the tasks as MCServices puts them together, for every value  *)
(* of the constants: the way of a request, the runs of a task, the replies *)
(* of the overview and their cache, the files of uploads, a client's walks *)
(* through the bucket and through the pages of a list, and the schedules   *)
(* of tasks under one request at a time, from the proofs about             *)
(* TaskScheduler.                                                          *)
(***************************************************************************)
EXTENDS MCServices, Sequences, SequenceTheorems, FunctionTheorems, FiniteSetTheorems,
        WellFoundedInduction, TLAPS

Tasked == INSTANCE TaskProofs WITH row <- taskRow, run <- running

-----------------------------------------------------------------------------
(* Requests *)

\* The ids are those that were given, and a deleted one is not given again.
IdsInv ==
    /\ DOMAIN todo \subseteq 1..given
    /\ gone \subseteq 1..given
    /\ gone \cap DOMAIN todo = {}

Entities == {"update", "delete"}

\* What holds of a request at every stage because of the stages before.
Passed(q) ==
    /\ q.at # "end" => q.wrote = "nothing" /\ q.reply \in {None, "408"}
    /\ q.at \in {"handler", "remove"} => q.input = "valid"
    /\ q.at \in {"resource", "pipe", "handler"} /\ q.route = "create" => q.who = "admin" \/ Permitted(q.who)
    /\ q.at \in {"pipe", "handler", "remove"} /\ q.route \in Entities /\ q.who # "admin" =>
         /\ q.id <= given
         /\ q.id \in DOMAIN todo => todo[q.id] = q.who
    /\ q.at = "remove" => q.route = "delete" /\ q.id <= given

Allowed(q) ==
    /\ q.wrote = "new row" => q.input # "bad body" /\ (q.who = "admin" \/ Permitted(q.who))
    /\ q.wrote \in {"own row", "row"} => q.input # "bad id"
    /\ q.wrote = "row" => q.who = "admin"
    /\ q.wrote # "nothing" => q.reply \in {"ok", "408"}

RequestInv ==
    /\ TypeOK /\ IdsInv
    /\ \A r \in Requests : Passed(req[r]) /\ Allowed(req[r])

-----------------------------------------------------------------------------
LEMMA InitInv == ASSUME RequestsAssumption, Init PROVE RequestInv
<1> DEFINE q == [at |-> "new", route |-> "login", who |-> None, id |-> 1,
                 input |-> "valid", reply |-> None, wrote |-> "nothing"]
<1>1. q \in Request
  BY DEF RequestsAssumption, Request, Routes, Inputs, TodoIds
<1>2. Passed(q) /\ Allowed(q)
  BY DEF Passed, Allowed
<1>3. req = [r \in Requests |-> q] /\ given = 1 /\ gone = {}
  BY DEF Init
<1> HIDE DEF q
<1>4. DOMAIN todo \in SUBSET {1} /\ \A i \in DOMAIN todo : todo[i] = None
  BY DEF Init
<1>5. TypeOK
  BY <1>1, <1>3, <1>4 DEF TypeOK, RequestsAssumption, TodoIds
<1>6. IdsInv
  BY <1>3, <1>4 DEF IdsInv
<1> QED BY <1>2, <1>3, <1>5, <1>6 DEF RequestInv

-----------------------------------------------------------------------------
\* Steps of a request r, whose record becomes q.
LEMMA PutOK ==
  ASSUME NEW r \in Requests, NEW q \in Request, TypeOK, req' = [req EXCEPT ![r] = q]
  PROVE  /\ req' \in [Requests -> Request]
         /\ req'[r] = q
         /\ \A s \in Requests \ {r} : req'[s] = req[s]
  BY DEF TypeOK

\* One that reaches no row.
LEMMA QuietStep ==
  ASSUME NEW r \in Requests, NEW q \in Request, RequestInv, req' = [req EXCEPT ![r] = q],
         UNCHANGED <<todo, given, gone>>, Passed(q), Allowed(q)
  PROVE  RequestInv'
<1>1. /\ TypeOK /\ req' \in [Requests -> Request] /\ req'[r] = q
      /\ \A s \in Requests \ {r} : req'[s] = req[s]
  BY PutOK DEF RequestInv
<1>2. TypeOK' /\ IdsInv'
  BY <1>1 DEF RequestInv, TypeOK, IdsInv
<1>3. \A s \in Requests : Passed(req'[s]) /\ Allowed(req'[s])
  BY <1>1 DEF RequestInv
<1>4. ASSUME NEW s \in Requests PROVE Passed(req[s])' /\ Allowed(req[s])'
  BY <1>3 DEF Passed, Allowed
<1> QED BY <1>2, <1>4 DEF RequestInv

LEMMA ThrowInv ==
  ASSUME NEW r \in Requests, RequestInv, UNCHANGED <<todo, given, gone>>,
         NEW code \in {"418", "204", "401", "404", "406", "422", "500", "1017", "1102", "1107"},
         req[r].at # "end", Throw(r, code)
  PROVE  RequestInv'
<1> DEFINE q == [req[r] EXCEPT !.at = "end", !.reply = Replied(r, code)]
<1>1. req[r] \in Request /\ Passed(req[r])
  BY DEF RequestInv, TypeOK
<1>2. q \in Request /\ q.at = "end" /\ q.wrote = "nothing"
  BY ZenonT(60), SMTT(60), <1>1 DEF Request, Replied, Passed
<1>3. req' = [req EXCEPT ![r] = q]
  BY DEF Throw
<1> HIDE DEF q
<1>4. Passed(q) /\ Allowed(q)
  BY <1>2 DEF Passed, Allowed
<1> QED BY <1>2, <1>3, <1>4, QuietStep

\* It goes on to at, and the rest of its record stays.
Moved(q, p, at) ==
    /\ q.at = at /\ q.route = p.route /\ q.who = p.who /\ q.id = p.id /\ q.input = p.input
    /\ q.reply = p.reply /\ q.wrote = p.wrote

LEMMA MoveOK ==
  ASSUME NEW r \in Requests, RequestInv,
         NEW at \in {"rbac", "resource", "pipe", "handler", "remove"}, Move(r, at)
  PROVE  \E q \in Request : req' = [req EXCEPT ![r] = q] /\ Moved(q, req[r], at)
<1> DEFINE q == [req[r] EXCEPT !.at = at]
<1>1. req[r] \in Request
  BY DEF RequestInv, TypeOK
<1>2. q \in Request /\ Moved(q, req[r], at)
  BY <1>1 DEF Request, Moved
<1>3. req' = [req EXCEPT ![r] = q]
  BY DEF Move
<1> QED BY <1>2, <1>3

\* Ids and counters are numbers.
LEMMA NatOK == ASSUME NEW n \in (0..MaxTodo) \cup TodoIds PROVE n \in Nat
  BY DEF TodoIds

LEMMA AtMostOK == ASSUME NEW i \in Nat, NEW m \in Nat, NEW n \in Nat, m <= n, i <= m PROVE i <= n
  OBVIOUS

LEMMA AfterOK ==
  ASSUME NEW m \in Nat, NEW n \in 0..m, n < m
  PROVE  n \in Nat /\ n + 1 \in 1..m /\ n + 1 \in 0..m /\ n <= n + 1 /\ ~(n + 1 <= n)
  OBVIOUS

\* What each stage finds out is kept by the next.
LEMMA MoveInv ==
  ASSUME NEW r \in Requests, RequestInv, UNCHANGED <<todo, given, gone>>,
         NEW at \in {"rbac", "resource", "pipe", "handler", "remove"}, Move(r, at),
         req[r].at # "end",
         at \in {"handler", "remove"} => req[r].input = "valid",
         at \in {"resource", "pipe", "handler"} /\ req[r].route = "create" =>
            req[r].who = "admin" \/ Permitted(req[r].who),
         at \in {"pipe", "handler", "remove"} /\ req[r].route \in Entities /\ req[r].who # "admin" =>
            /\ req[r].id <= given
            /\ req[r].id \in DOMAIN todo => todo[req[r].id] = req[r].who,
         at = "remove" => req[r].route = "delete" /\ req[r].id <= given
  PROVE  RequestInv'
<1>1. PICK q \in Request : req' = [req EXCEPT ![r] = q] /\ Moved(q, req[r], at)
  BY MoveOK
<1>2. Passed(req[r])
  BY DEF RequestInv
<1>3. Passed(q)
  BY <1>1, <1>2 DEF Passed, Moved
<1>4. Allowed(q)
  BY <1>1, <1>2 DEF Passed, Allowed, Moved
<1> QED BY <1>1, <1>3, <1>4, QuietStep

LEMMA ArriveInv ==
  ASSUME NEW r \in Requests, RequestInv,
         NEW route \in DOMAIN Routes, NEW who \in Users \cup {None},
         NEW id \in TodoIds, NEW input \in Inputs, Arrive(r, route, who, id, input)
  PROVE  RequestInv'
<1> DEFINE q == [req[r] EXCEPT !.at = "jwt", !.route = route, !.who = who, !.id = id, !.input = input]
<1>1. req[r] \in Request /\ Passed(req[r]) /\ req[r].at = "new"
  BY DEF RequestInv, TypeOK, Arrive
<1>2. /\ q \in Request /\ q.at = "jwt" /\ q.wrote = req[r].wrote /\ q.reply = req[r].reply
  BY <1>1 DEF Request
<1>3. req' = [req EXCEPT ![r] = q] /\ UNCHANGED <<todo, given, gone>>
  BY DEF Arrive
<1> HIDE DEF q
<1>4. Passed(q) /\ Allowed(q)
  BY <1>1, <1>2 DEF Passed, Allowed
<1> QED BY <1>2, <1>3, <1>4, QuietStep

LEMMA TimeoutInv == ASSUME NEW r \in Requests, RequestInv, Timeout(r) PROVE RequestInv'
<1> DEFINE q == [req[r] EXCEPT !.reply = "408"]
<1>1. req[r] \in Request /\ Passed(req[r]) /\ req[r].at # "end"
  BY DEF RequestInv, TypeOK, Timeout, Running
<1>2. /\ q \in Request /\ q.reply = "408"
      /\ q.at = req[r].at /\ q.route = req[r].route /\ q.who = req[r].who /\ q.id = req[r].id
      /\ q.input = req[r].input /\ q.wrote = req[r].wrote
  BY <1>1 DEF Request
<1>3. req' = [req EXCEPT ![r] = q] /\ UNCHANGED <<todo, given, gone>>
  BY DEF Timeout
<1> HIDE DEF q
<1>4. Passed(q) /\ Allowed(q)
  BY <1>1, <1>2 DEF Passed, Allowed
<1> QED BY <1>2, <1>3, <1>4, QuietStep

-----------------------------------------------------------------------------
\* The stages before the handler

LEMMA GuardInv ==
  ASSUME NEW r \in Requests, RequestInv, JwtAuthGuard(r) \/ RbacGuard(r) \/ ResourceGuard(r) \/ Pipes(r)
  PROVE  RequestInv'
<1>1. req[r] \in Request /\ Passed(req[r]) /\ IdsInv /\ UNCHANGED <<todo, given, gone>>
  BY DEF RequestInv, TypeOK, JwtAuthGuard, RbacGuard, ResourceGuard, Pipes
<1>2. CASE JwtAuthGuard(r)
  <2>1. req[r].at = "jwt" /\ (Throw(r, "401") \/ Move(r, "rbac"))
    BY <1>2 DEF JwtAuthGuard
  <2> QED BY <1>1, <2>1, ThrowInv, MoveInv
<1>3. CASE RbacGuard(r)
  <2>1. /\ req[r].at = "rbac"
        /\ \/ Throw(r, "401") \/ Throw(r, "1102")
           \/ Move(r, "resource") /\ (req[r].route = "create" => req[r].who = "admin" \/ Permitted(req[r].who))
    BY <1>3 DEF RbacGuard, R, Routes, Route
  <2> QED BY <1>1, <2>1, ThrowInv, MoveInv
<1>4. CASE ResourceGuard(r)
  <2>1. req[r].at = "resource"
    BY <1>4 DEF ResourceGuard
  <2>2. CASE Throw(r, "1107")
    BY <1>1, <2>1, <2>2, ThrowInv
  <2>3. CASE Move(r, "pipe") /\ (R(r).public \/ ~R(r).entity \/ req[r].who = "admin" \/ Owned(r) # {})
    <3>1. req[r].route \in Entities /\ req[r].who # "admin" => Owned(r) # {}
      BY <2>3 DEF R, Routes, Route, Entities
    <3>2. Owned(r) # {} =>
            req[r].id \in DOMAIN todo /\ req[r].id \in 1..given /\ todo[req[r].id] = req[r].who
      BY <1>1 DEF Owned, IdsInv
    <3>3. req[r].id \in 1..given => req[r].id <= given
      OBVIOUS
    <3>4. req[r].route = "create" => req[r].who = "admin" \/ Permitted(req[r].who)
      BY <1>1, <2>1 DEF Passed
    <3> QED BY <1>1, <2>1, <2>3, <3>1, <3>2, <3>3, <3>4, MoveInv
  <2> QED BY <1>4, <2>2, <2>3 DEF ResourceGuard
<1>5. CASE Pipes(r)
  <2>1. /\ req[r].at = "pipe"
        /\ Throw(r, "406") \/ Throw(r, "422") \/ (Move(r, "handler") /\ req[r].input = "valid")
    BY <1>1, <1>5 DEF Pipes, Request, Inputs
  <2>2. CASE Throw(r, "406") \/ Throw(r, "422")
    BY <1>1, <2>1, <2>2, ThrowInv
  <2>3. CASE Move(r, "handler") /\ req[r].input = "valid"
    BY <1>1, <2>1, <2>3, MoveInv DEF Passed
  <2> QED BY <2>1, <2>2, <2>3
<1> QED BY <1>2, <1>3, <1>4, <1>5

-----------------------------------------------------------------------------
\* The handlers

\* Nothing that was there before gets another owner, and nothing comes back.
Kept ==
    /\ given <= given'
    /\ \A i \in DOMAIN todo' : i <= given => i \in DOMAIN todo /\ todo'[i] = todo[i]

TableOK ==
    /\ DOMAIN todo \in SUBSET TodoIds /\ \A i \in DOMAIN todo : todo[i] \in Users \cup {None}
    /\ given \in 0..MaxTodo
    /\ gone \in SUBSET TodoIds
    /\ IdsInv

\* A handler is over, having written what it may.
LEMMA ReturnInv ==
  ASSUME NEW r \in Requests, RequestInv, req[r].at \in {"handler", "remove"},
         NEW wrote \in {"nothing", "new row", "own row", "row"}, Return(r, wrote),
         wrote = "new row" => req[r].who = "admin" \/ Permitted(req[r].who),
         wrote = "row" => req[r].who = "admin",
         TableOK', Kept
  PROVE  RequestInv'
<1> DEFINE q == [req[r] EXCEPT !.at = "end", !.wrote = wrote, !.reply = Replied(r, "ok")]
<1>1. req[r] \in Request /\ Passed(req[r]) /\ TypeOK
  BY DEF RequestInv, TypeOK
<1>2. req[r].input = "valid" /\ req[r].reply \in {None, "408"}
  BY <1>1 DEF Passed
<1>3. Replied(r, "ok") \in {"ok", "408"}
  BY <1>2 DEF Replied
<1>4. /\ q \in Request /\ q.at = "end" /\ q.wrote = wrote /\ q.reply \in {"ok", "408"}
      /\ q.who = req[r].who /\ q.input = "valid"
  BY <1>1, <1>2, <1>3 DEF Request
<1>5. req' = [req EXCEPT ![r] = q]
  BY DEF Return
<1> HIDE DEF q
<1>6. /\ req' \in [Requests -> Request] /\ req'[r] = q
      /\ \A s \in Requests \ {r} : req'[s] = req[s]
  BY <1>1, <1>4, <1>5, PutOK
<1>7. TypeOK' /\ IdsInv'
  BY <1>6 DEF TableOK, TypeOK
<1>8. ASSUME NEW s \in Requests PROVE Passed(req[s])' /\ Allowed(req[s])'
  <2>1. CASE s = r
    BY <1>4, <1>6, <2>1 DEF Passed, Allowed
  <2>2. CASE s # r
    <3>1. req'[s] = req[s] /\ Passed(req[s]) /\ Allowed(req[s])
      BY <1>6, <2>2 DEF RequestInv
    <3>2. req[s].id \in Nat /\ given \in Nat /\ given' \in Nat
      <4>1. req[s] \in Request
        BY <1>1 DEF TypeOK
      <4>2. req[s].id \in TodoIds /\ given \in 0..MaxTodo /\ given' \in 0..MaxTodo
        BY <1>1, <4>1 DEF TypeOK, TableOK, Request
      <4> QED BY <4>2, NatOK
    <3>3. req[s].id <= given => req[s].id <= given'
      BY <3>2, AtMostOK DEF Kept
    <3>4. Allowed(req[s])'
      BY <3>1 DEF Allowed
    <3>5. Passed(req[s])'
      BY <3>1, <3>3 DEF Passed, Kept
    <3> QED BY <3>4, <3>5
  <2> QED BY <2>1, <2>2
<1> QED BY <1>7, <1>8 DEF RequestInv

LEMMA ReadInv ==
  ASSUME NEW r \in Requests, RequestInv, List(r) \/ Profile(r) \/ Info(r) \/ Update(r)
  PROVE  RequestInv'
<1>1. /\ req[r].at = "handler" /\ UNCHANGED <<todo, given, gone>>
      /\ req[r] \in Request /\ Passed(req[r]) /\ TypeOK /\ IdsInv
  BY DEF RequestInv, TypeOK, List, Profile, Info, Update, Handle
<1>2. TableOK' /\ Kept
  BY <1>1 DEF TableOK, TypeOK, IdsInv, Kept
<1>3. \/ Throw(r, "1017") \/ Throw(r, "404") \/ Return(r, "nothing")
      \/ req[r].route = "update" /\ Return(r, Row(r))
  <2>1. CASE List(r)
    BY <2>1 DEF List
  <2>2. CASE Profile(r)
    BY <2>2 DEF Profile
  <2>3. CASE Info(r)
    BY <2>3 DEF Info
  <2>4. CASE Update(r)
    BY <2>4 DEF Update, Handle
  <2> QED BY <2>1, <2>2, <2>3, <2>4
<1>4. CASE Throw(r, "1017") \/ Throw(r, "404")
  BY <1>1, <1>4, ThrowInv
<1>5. CASE Return(r, "nothing")
  BY <1>1, <1>2, <1>5, ReturnInv
<1>6. CASE req[r].route = "update" /\ Return(r, Row(r))
  <2>1. Row(r) \in {"nothing", "own row", "row"} /\ (Row(r) = "row" => req[r].who = "admin")
    BY <1>1, <1>6 DEF Row, Passed, Entities
  <2> QED BY <1>1, <1>2, <1>6, <2>1, ReturnInv
<1> QED BY <1>3, <1>4, <1>5, <1>6

LEMMA CreateInv ==
  ASSUME NEW r \in Requests, RequestsAssumption, RequestInv, Create(r)
  PROVE  RequestInv'
<1>1. /\ req[r].at = "handler" /\ req[r].route = "create" /\ Return(r, "new row")
      /\ given < MaxTodo /\ given' = given + 1 /\ gone' = gone
  BY DEF Create, Handle
<1>2. TypeOK /\ IdsInv /\ Passed(req[r])
  BY DEF RequestInv
<1>3. given \in Nat /\ given + 1 \in 1..MaxTodo /\ given + 1 \in 0..MaxTodo
      /\ given <= given + 1 /\ ~(given + 1 <= given)
  <2>1. given \in 0..MaxTodo /\ MaxTodo \in Nat
    BY <1>2 DEF TypeOK, RequestsAssumption
  <2> QED BY <1>1, <2>1, AfterOK
<1>4. given + 1 \notin DOMAIN todo /\ given + 1 \notin gone
  BY <1>2, <1>3 DEF IdsInv
<1>5. /\ DOMAIN todo' = DOMAIN todo \cup {given + 1}
      /\ \A i \in DOMAIN todo' : todo'[i] = IF i \in DOMAIN todo THEN todo[i] ELSE None
  BY DEF Create
<1>6. DOMAIN todo \in SUBSET TodoIds /\ \A i \in DOMAIN todo : todo[i] \in Users \cup {None}
  BY <1>2 DEF TypeOK
<1>7. IdsInv'
  <2>1. DOMAIN todo \subseteq 1..given /\ gone \subseteq 1..given /\ gone \cap DOMAIN todo = {}
    BY <1>2 DEF IdsInv
  <2>2. 1..given \subseteq 1..(given + 1) /\ given + 1 \in 1..(given + 1)
    BY <1>3
  <2>3. /\ DOMAIN todo' \subseteq 1..(given + 1) /\ gone \subseteq 1..(given + 1)
        /\ gone \cap DOMAIN todo' = {}
    BY <1>4, <1>5, <2>1, <2>2
  <2> QED BY <1>1, <2>3 DEF IdsInv
<1>8. TableOK'
  <2>1. DOMAIN todo' \in SUBSET TodoIds /\ \A i \in DOMAIN todo' : todo'[i] \in Users \cup {None}
    BY <1>3, <1>5, <1>6 DEF TodoIds
  <2>2. given' \in 0..MaxTodo /\ gone' \in SUBSET TodoIds
    BY <1>1, <1>2, <1>3 DEF TypeOK
  <2> QED BY <1>7, <2>1, <2>2 DEF TableOK
<1>9. Kept
  <2>1. given <= given'
    BY <1>1, <1>3
  <2> QED BY <1>3, <1>5, <2>1 DEF Kept
<1>10. req[r].who = "admin" \/ Permitted(req[r].who)
  BY <1>1, <1>2 DEF Passed
<1> QED BY <1>1, <1>8, <1>9, <1>10, ReturnInv

LEMMA DeleteInv ==
  ASSUME NEW r \in Requests, RequestInv, Detail(r) \/ Remove(r)
  PROVE  RequestInv'
<1>1. req[r] \in Request /\ Passed(req[r]) /\ TypeOK /\ IdsInv
  BY DEF RequestInv, TypeOK
<1>2. CASE Detail(r)
  <2>1. /\ req[r].at = "handler" /\ req[r].route = "delete" /\ UNCHANGED <<todo, given, gone>>
        /\ Throw(r, "404") \/ (Move(r, "remove") /\ req[r].id \in DOMAIN todo)
    BY <1>2 DEF Detail, Handle
  <2>2. CASE Throw(r, "404")
    BY <2>1, <2>2, ThrowInv
  <2>3. CASE Move(r, "remove") /\ req[r].id \in DOMAIN todo
    <3>1. req[r].id <= given
      BY <1>1, <2>3 DEF IdsInv
    <3>2. req[r].input = "valid"
      BY <1>1, <2>1 DEF Passed
    <3>3. req[r].who # "admin" /\ req[r].id \in DOMAIN todo => todo[req[r].id] = req[r].who
      BY <1>1, <2>1 DEF Passed, Entities
    <3> QED BY <2>1, <2>3, <3>1, <3>2, <3>3, MoveInv
  <2> QED BY <2>1, <2>2, <2>3
<1>3. CASE Remove(r)
  <2>1. req[r].at = "remove" /\ Return(r, Row(r)) /\ given' = given /\ gone' = gone \cup {req[r].id}
    BY <1>3 DEF Remove
  <2>2. req[r].id \in TodoIds /\ req[r].id <= given /\ given \in 0..MaxTodo
    BY <1>1, <2>1 DEF Passed, Request, TypeOK
  <2>3. DOMAIN todo' = DOMAIN todo \ {req[r].id} /\ \A i \in DOMAIN todo' : todo'[i] = todo[i]
    BY <1>3 DEF Remove
  <2>4. IdsInv'
    <3>1. req[r].id \in 1..given
      BY <2>2 DEF TodoIds
    <3>2. DOMAIN todo \subseteq 1..given /\ gone \subseteq 1..given /\ gone \cap DOMAIN todo = {}
      BY <1>1 DEF IdsInv
    <3>3. DOMAIN todo' \subseteq 1..given /\ gone' \subseteq 1..given /\ gone' \cap DOMAIN todo' = {}
      BY <2>1, <2>3, <3>1, <3>2
    <3> QED BY <2>1, <3>3 DEF IdsInv
  <2>5. TableOK'
    <3>1. /\ DOMAIN todo \in SUBSET TodoIds /\ gone \in SUBSET TodoIds
          /\ \A i \in DOMAIN todo : todo[i] \in Users \cup {None}
      BY <1>1 DEF TypeOK
    <3>2. DOMAIN todo' \in SUBSET TodoIds /\ \A i \in DOMAIN todo' : todo'[i] \in Users \cup {None}
      BY <2>3, <3>1
    <3>3. gone' \in SUBSET TodoIds
      BY <2>1, <2>2, <3>1
    <3> QED BY <2>1, <2>2, <2>4, <3>2, <3>3 DEF TableOK
  <2>6. Kept
    BY <2>1, <2>2, <2>3 DEF Kept
  <2>7. Row(r) \in {"nothing", "own row", "row"} /\ (Row(r) = "row" => req[r].who = "admin")
    BY <1>1, <2>1 DEF Row, Passed, Entities
  <2> QED BY <2>1, <2>5, <2>6, <2>7, ReturnInv
<1> QED BY <1>2, <1>3

LEMMA NextInv == ASSUME RequestsAssumption, RequestInv, [Next]_vars PROVE RequestInv'
<1>1. CASE UNCHANGED vars
  BY <1>1 DEF vars, RequestInv, TypeOK, IdsInv, Passed, Allowed
<1>2. ASSUME NEW r \in Requests, Answered418(r) \/ Fail(r) PROVE RequestInv'
  BY <1>2, ThrowInv DEF Answered418, Fail, Running
<1>3. ASSUME NEW r \in Requests, NEW route \in DOMAIN Routes, NEW who \in Users \cup {None},
             NEW id \in TodoIds, NEW input \in Inputs, Arrive(r, route, who, id, input)
      PROVE  RequestInv'
  BY <1>3, ArriveInv
<1>4. ASSUME NEW r \in Requests, JwtAuthGuard(r) \/ RbacGuard(r) \/ ResourceGuard(r) \/ Pipes(r)
      PROVE  RequestInv'
  BY <1>4, GuardInv
<1>5. ASSUME NEW r \in Requests,
             \/ List(r) \/ Profile(r) \/ Info(r) \/ Update(r)
             \/ Create(r) \/ Detail(r) \/ Remove(r) \/ Timeout(r)
      PROVE  RequestInv'
  BY <1>5, ReadInv, CreateInv, DeleteInv, TimeoutInv
<1> QED BY <1>1, <1>2, <1>3, <1>4, <1>5 DEF Next

-----------------------------------------------------------------------------
\* TypeCorrect: every variable of Requests stays in its type.
THEOREM TypeCorrect == ASSUME RequestsAssumption PROVE Spec => []TypeOK
<1>1. Init => RequestInv
  BY InitInv
<1>2. RequestInv /\ [Next]_vars => RequestInv'
  BY NextInv
<1>3. RequestInv => TypeOK
  BY DEF RequestInv
<1> QED BY <1>1, <1>2, <1>3, PTL DEF Spec

\* AllowedWrites: for any number of requests and todos, who writes a row is
\* permitted to, and is its owner or an administrator, at the time of the write
\* and not of the guard; a refused request wrote nothing (RbacGuard,
\* ResourceGuard, ValidationPipe, TodoController).
THEOREM AllowedWrites == ASSUME RequestsAssumption PROVE Spec => []WritesAreAllowed
<1>1. Init => RequestInv
  BY InitInv
<1>2. RequestInv /\ [Next]_vars => RequestInv'
  BY NextInv
<1>3. RequestInv => WritesAreAllowed
  BY DEF RequestInv, Allowed, WritesAreAllowed
<1> QED BY <1>1, <1>2, <1>3, PTL DEF Spec

\* DeletedForGood: for any number of requests and todos, no update and no
\* creation brings a deleted todo back (create, update).
THEOREM DeletedForGood == ASSUME RequestsAssumption PROVE Spec => []DeletedStaysDeleted
<1>1. Init => RequestInv
  BY InitInv
<1>2. RequestInv /\ [Next]_vars => RequestInv'
  BY NextInv
<1>3. RequestInv => DeletedStaysDeleted
  BY DEF RequestInv, IdsInv, DeletedStaysDeleted
<1> QED BY <1>1, <1>2, <1>3, PTL DEF Spec

-----------------------------------------------------------------------------
(* Jobs *)

\* A run inside a method, or about to log a success, has called a mission.
CalledFirst ==
    \A r \in Runs : run[r].at \in {"method", "success"} =>
        /\ run[r].data.service \in Missions!Missions
        /\ <<run[r].data.service, r>> \in called

JobInv == Missions!TypeOK /\ CalledFirst /\ Missions!RunsAreLogged

-----------------------------------------------------------------------------
LEMMA JobInit == Missions!Init => JobInv
  BY DEF Missions!Init, JobInv, Missions!TypeOK, CalledFirst, Missions!RunsAreLogged,
     Missions!Task, Missions!Run, Missions!Stages, Missions!Log

\* The record of a job is replaced, those of the others stay.
LEMMA JobPut ==
  ASSUME NEW r \in Runs, NEW at \in Missions!Stages, NEW data \in Missions!Task \cup {None}, NEW tried \in 0..1,
         Missions!TypeOK, Missions!Put(r, at, data, tried)
  PROVE  /\ run' \in [Runs -> Missions!Run]
         /\ run'[r].at = at /\ run'[r].data = data
         /\ \A s \in Runs \ {r} : run'[s] = run[s]
<1> DEFINE j == [at |-> at, data |-> data, tried |-> tried]
<1>1. j \in Missions!Run /\ j.at = at /\ j.data = data
  BY DEF Missions!Run
<1>2. run' = [run EXCEPT ![r] = j]
  BY DEF Missions!Put
<1> HIDE DEF j
<1> QED BY <1>1, <1>2 DEF Missions!TypeOK

LEMMA GoOK ==
  ASSUME NEW r \in Runs, NEW at \in Missions!Stages, Missions!TypeOK, Missions!Go(r, at)
  PROVE  /\ run' \in [Runs -> Missions!Run]
         /\ run'[r].at = at /\ run'[r].data = run[r].data
         /\ \A s \in Runs \ {r} : run'[s] = run[s]
<1>1. run[r].data \in Missions!Task \cup {None} /\ run[r].tried \in 0..1
  BY DEF Missions!TypeOK, Missions!Run
<1> QED BY <1>1, JobPut DEF Missions!Go

LEMMA EndOK ==
  ASSUME NEW r \in Runs, NEW at \in Missions!Stages, Missions!TypeOK, Missions!End(r, at)
  PROVE  /\ run' \in [Runs -> Missions!Run]
         /\ run'[r].at = at
         /\ \A s \in Runs \ {r} : run'[s] = run[s]
<1>1. run[r].tried \in 0..1
  BY DEF Missions!TypeOK, Missions!Run
<1> QED BY <1>1, JobPut DEF Missions!End

\* Steps that call nothing and log nothing.
LEMMA JobQuiet ==
  ASSUME NEW r \in Runs, JobInv, UNCHANGED <<log, login, called>>,
         run' \in [Runs -> Missions!Run], task' \in Missions!Task \cup {None},
         \A s \in Runs \ {r} : run'[s] = run[s],
         run'[r].at # "completed",
         run'[r].at \in {"method", "success"} =>
            run[r].at \in {"method", "success"} /\ run'[r].data = run[r].data
  PROVE  JobInv'
<1>1. Missions!TypeOK'
  BY DEF JobInv, Missions!TypeOK
<1>2. CalledFirst'
  BY DEF JobInv, CalledFirst
<1>3. Missions!RunsAreLogged'
  BY DEF JobInv, Missions!RunsAreLogged
<1> QED BY <1>1, <1>2, <1>3 DEF JobInv

LEMMA QueueInv == ASSUME NEW r \in Runs, JobInv, Missions!Queue(r) PROVE JobInv'
<1>1. task \in Missions!Task
  BY DEF JobInv, Missions!TypeOK, Missions!Queue
<1>2. "waiting" \in Missions!Stages /\ 0 \in 0..1
  BY DEF Missions!Stages
<1>3. run' \in [Runs -> Missions!Run] /\ run'[r].at = "waiting" /\ \A s \in Runs \ {r} : run'[s] = run[s]
  BY <1>1, <1>2, JobPut DEF Missions!Queue, JobInv
<1> QED BY <1>1, <1>3, JobQuiet DEF Missions!Queue

\* The method or the look-up comes to its end.
LEMMA EndsInv ==
  ASSUME NEW r \in Runs, NEW result \in {"returned", "threw"}, JobInv, Missions!Ends(r, result),
         result = "returned" => run[r].at = "method",
         UNCHANGED <<task, log, called>>,
         login' = login \/ (login' = FALSE /\ run[r].at = "method"
                              /\ run[r].data.service = "LogClearJob.clearLoginLog")
  PROVE  JobInv'
<1> DEFINE to == IF result = "returned" THEN "success" ELSE "failure"
<1>1. to \in Missions!Stages /\ Missions!Go(r, to)
  BY DEF Missions!Stages, Missions!Ends
<1>2. /\ run' \in [Runs -> Missions!Run] /\ run'[r].at = to /\ run'[r].data = run[r].data
      /\ \A s \in Runs \ {r} : run'[s] = run[s]
  BY <1>1, GoOK DEF JobInv
<1>3. Missions!TypeOK'
  BY <1>2 DEF JobInv, Missions!TypeOK
<1>4. CalledFirst'
  BY <1>2 DEF JobInv, CalledFirst
<1>5. Missions!RunsAreLogged'
  <2>1. ~login' => \E s \in Runs : <<"LogClearJob.clearLoginLog", s>> \in called
    BY DEF JobInv, CalledFirst, Missions!RunsAreLogged
  <2> QED BY <2>1, <1>2 DEF JobInv, Missions!RunsAreLogged
<1> QED BY <1>3, <1>4, <1>5 DEF JobInv

LEMMA CallInv == ASSUME NEW r \in Runs, JobInv, Missions!Call(r) PROVE JobInv'
<1>1. "method" \in Missions!Stages
  BY DEF Missions!Stages
<1>2. /\ run' \in [Runs -> Missions!Run] /\ run'[r].at = "method" /\ run'[r].data = run[r].data
      /\ \A s \in Runs \ {r} : run'[s] = run[s]
  BY <1>1, GoOK DEF Missions!Call, JobInv
<1>3. run[r].data.service \in Missions!Missions /\ Missions!Missions \subseteq Missions!Services
  BY DEF Missions!Call, Missions!HasMissionMeta, Missions!Services
<1>4. called' = called \cup {<<run[r].data.service, r>>} /\ UNCHANGED <<task, log, login>>
  BY DEF Missions!Call
<1>5. Missions!TypeOK'
  BY <1>2, <1>3, <1>4 DEF JobInv, Missions!TypeOK
<1>6. CalledFirst'
  BY <1>2, <1>3, <1>4 DEF JobInv, CalledFirst
<1>7. Missions!RunsAreLogged'
  BY <1>2, <1>3, <1>4 DEF JobInv, Missions!RunsAreLogged
<1> QED BY <1>5, <1>6, <1>7 DEF JobInv

\* The job is over with a row, or goes on to its failure.
LEMMA LogInv ==
  ASSUME NEW r \in Runs, JobInv,
         Missions!LogSuccess(r) \/ Missions!SuccessUnlogged(r) \/ Missions!LogFailure(r) \/ Missions!FailureUnlogged(r)
  PROVE  JobInv'
<1>1. {"completed", "failure", "failed"} \subseteq Missions!Stages /\ 0 \in 0..1 /\ 1 \in 0..1
  BY DEF Missions!Stages
<1>2. PICK at \in {"completed", "failure", "failed"} : Missions!Go(r, at) \/ Missions!End(r, at)
  BY DEF Missions!LogSuccess, Missions!SuccessUnlogged, Missions!LogFailure,
     Missions!FailureUnlogged
<1>3. /\ run' \in [Runs -> Missions!Run] /\ run'[r].at = at
      /\ \A s \in Runs \ {r} : run'[s] = run[s]
  BY <1>1, <1>2, GoOK, EndOK DEF JobInv
<1>4. UNCHANGED <<task, login, called>>
  BY DEF Missions!LogSuccess, Missions!SuccessUnlogged, Missions!LogFailure,
     Missions!FailureUnlogged
<1>5. \/ log' = log
      \/ log' = log \cup {[run |-> r, status |-> 0]}
      \/ run[r].at = "success" /\ log' = log \cup {[run |-> r, status |-> 1]}
  BY DEF Missions!LogSuccess, Missions!SuccessUnlogged, Missions!LogFailure,
     Missions!FailureUnlogged, Missions!Row
<1>6. \A status \in 0..1 : LET l == [run |-> r, status |-> status]
                          IN  l \in Missions!Log /\ l.run = r /\ l.status = status
  BY DEF Missions!Log
<1>7. log' \in SUBSET Missions!Log /\ \A l \in log : l \in log'
  BY <1>1, <1>5, <1>6 DEF JobInv, Missions!TypeOK
<1>8. Missions!TypeOK'
  BY <1>3, <1>4, <1>7 DEF JobInv, Missions!TypeOK
<1>9. CalledFirst'
  BY <1>3, <1>4 DEF JobInv, CalledFirst
<1>10. \A l \in log' : l.status = 1 => \E s \in Missions!Missions : <<s, l.run>> \in called
  <2>1. \A l \in log : l.status = 1 => \E s \in Missions!Missions : <<s, l.run>> \in called
    BY DEF JobInv, Missions!RunsAreLogged
  <2>2. run[r].at = "success" => \E s \in Missions!Missions : <<s, r>> \in called
    BY DEF JobInv, CalledFirst
  <2>3. [run |-> r, status |-> 0].status = 0
    OBVIOUS
  <2>4. [run |-> r, status |-> 1].run = r
    OBVIOUS
  <2>5. 0 # 1
    OBVIOUS
  <2> QED BY <1>5, <2>1, <2>2, <2>3, <2>4, <2>5, Zenon
<1>11. run'[r].at = "completed" => \E l \in log' : l.run = r
  <2> SUFFICES ASSUME run'[r].at = "completed" PROVE \E l \in log' : l.run = r
    OBVIOUS
  <2>1. at = "completed"
    BY <1>3
  <2>2. CASE Missions!LogSuccess(r)
    <3>1. [run |-> r, status |-> 1] \in log'
      BY <2>2 DEF Missions!LogSuccess, Missions!Row
    <3> QED BY <3>1, <1>6
  <2>3. CASE Missions!LogFailure(r)
    <3>1. [run |-> r, status |-> 0] \in log'
      BY <2>3 DEF Missions!LogFailure, Missions!Row
    <3> QED BY <3>1, <1>6
  <2>4. CASE Missions!SuccessUnlogged(r)
    <3>1. "failure" \in Missions!Stages /\ Missions!Go(r, "failure")
      BY <2>4 DEF Missions!SuccessUnlogged, Missions!Stages
    <3>2. run'[r].at = "failure"
      BY <3>1, GoOK DEF JobInv
    <3> QED BY <3>2
  <2>5. CASE Missions!FailureUnlogged(r)
    <3>1. "failed" \in Missions!Stages /\ Missions!End(r, "failed")
      BY <2>5 DEF Missions!FailureUnlogged, Missions!Stages
    <3>2. run'[r].at = "failed"
      BY <3>1, EndOK DEF JobInv
    <3> QED BY <3>2
  <2> QED BY <2>2, <2>3, <2>4, <2>5
<1>12. \A s \in Runs : run'[s].at = "completed" => \E l \in log' : l.run = s
  BY <1>3, <1>7, <1>11 DEF JobInv, Missions!RunsAreLogged
<1>13. Missions!RunsAreLogged'
  BY <1>4, <1>10, <1>12 DEF JobInv, Missions!RunsAreLogged
<1> QED BY <1>8, <1>9, <1>13 DEF JobInv

LEMMA StalledInv == ASSUME NEW r \in Runs, JobInv, Missions!Stalled(r) PROVE JobInv'
<1>1. {"waiting", "failed"} \subseteq Missions!Stages /\ 1 \in 0..1
  BY DEF Missions!Stages
<1>2. run[r].data \in Missions!Task \cup {None}
  BY DEF JobInv, Missions!TypeOK, Missions!Run
<1>3. /\ run' \in [Runs -> Missions!Run] /\ run'[r].at \in {"waiting", "failed"}
      /\ \A s \in Runs \ {r} : run'[s] = run[s]
  <2>1. CASE run[r].tried = 0
    BY <1>1, <1>2, <2>1, JobPut DEF Missions!Stalled, JobInv
  <2>2. CASE run[r].tried # 0
    BY <1>1, <2>2, EndOK DEF Missions!Stalled, JobInv
  <2> QED BY <2>1, <2>2
<1>4. task' \in Missions!Task \cup {None} /\ UNCHANGED <<log, login, called>>
  BY DEF Missions!Stalled, JobInv, Missions!TypeOK
<1> QED BY <1>3, <1>4, JobQuiet

LEMMA RunInv ==
  ASSUME NEW r \in Runs, JobInv, Missions!Refuse(r) \/ Missions!EmailJob(r) \/ Missions!HttpRequestJob(r) \/ Missions!LogClearJob(r)
  PROVE  JobInv'
<1>1. CASE Missions!Refuse(r)
  BY <1>1, EndsInv DEF Missions!Refuse
<1>2. CASE Missions!EmailJob(r)
  BY <1>2, EndsInv DEF Missions!EmailJob, Missions!Method
<1>3. CASE Missions!HttpRequestJob(r)
  BY <1>3, EndsInv DEF Missions!HttpRequestJob, Missions!Method
<1>4. CASE Missions!LogClearJob(r)
  BY <1>4, EndsInv DEF Missions!LogClearJob, Missions!Method
<1> QED BY <1>1, <1>2, <1>3, <1>4

\* The task changes, or nothing does.
LEMMA TaskInv ==
  ASSUME JobInv, task' \in Missions!Task \cup {None}, UNCHANGED <<run, log, login, called>>
  PROVE  JobInv'
<1>1. Missions!TypeOK'
  BY DEF JobInv, Missions!TypeOK
<1>2. CalledFirst'
  BY DEF JobInv, CalledFirst
<1>3. Missions!RunsAreLogged'
  BY DEF JobInv, Missions!RunsAreLogged
<1> QED BY <1>1, <1>2, <1>3 DEF JobInv

LEMMA JobNext == ASSUME JobInv, [Missions!Next]_Missions!vars PROVE JobInv'
<1>1. CASE UNCHANGED Missions!vars
  BY <1>1, TaskInv DEF Missions!vars, JobInv, Missions!TypeOK
<1>2. ASSUME NEW service \in Missions!Services, NEW data \in Missions!Args, Missions!Save(service, data)
      PROVE  JobInv'
  BY <1>2, TaskInv DEF Missions!Save, Missions!Task
<1>3. CASE Missions!Delete
  BY <1>3, TaskInv DEF Missions!Delete
<1>4. ASSUME NEW r \in Runs,
             \/ Missions!Queue(r) \/ Missions!Call(r) \/ Missions!Stalled(r)
             \/ Missions!Refuse(r) \/ Missions!EmailJob(r) \/ Missions!HttpRequestJob(r) \/ Missions!LogClearJob(r)
             \/ Missions!LogSuccess(r) \/ Missions!SuccessUnlogged(r) \/ Missions!LogFailure(r) \/ Missions!FailureUnlogged(r)
      PROVE  JobInv'
  BY <1>4, QueueInv, CallInv, StalledInv, RunInv, LogInv
<1> QED BY <1>1, <1>2, <1>3, <1>4 DEF Missions!Next

-----------------------------------------------------------------------------
(* Overview *)

\* Statistics of the same day, one after the other, none before since.
Taken(p, since) ==
    /\ p \in Seq(Ov!Statistic)
    /\ \A i \in DOMAIN p : since <= p[i].end
    /\ \A i, j \in DOMAIN p : p[i].begin = p[j].begin /\ (i < j => p[i].end <= p[j].end)

\* A request has not been there for longer than its limit, and what it has read is
\* not older than it and of the day it has looked at.
Reading(q) ==
    /\ q.since <= clock
    /\ q.at \in {"cache", "call"} => clock <= q.since + TimeLimit
    /\ q.at = "cache" => q.parts = <<>>
    /\ q.at = "call" =>
         /\ q.date \in Nat
         /\ Len(q.parts) <= Len(Ov!Parts)
         /\ Taken(q.parts, q.since)
         /\ \A i \in DOMAIN q.parts : q.parts[i].begin = q.date /\ q.parts[i].end <= clock

\* Nothing of the reply is older than the two limits.
Recent(q) ==
    q.at = "reply" => \E t \in Nat : clock <= t + Ttl + TimeLimit /\ Taken(q.parts, t)

CacheOK ==
    cache.value # None =>
        /\ Len(cache.value) = Len(Ov!Parts)
        /\ cache.expires \in Nat
        /\ \E t \in Nat : cache.expires <= t + Ttl + TimeLimit /\ Taken(cache.value, t)

OvInv ==
    /\ Ov!TypeOK
    /\ CacheOK
    /\ \A r \in Callers : Reading(call[r]) /\ Recent(call[r])

LEMMA OvInit == ASSUME Ov!OverviewAssumption, Ov!Init PROVE OvInv
<1>1. Ov!NewRequest \in Ov!Request /\ Ov!NewRequest.at = "idle" /\ Ov!NewRequest.since = 0
  BY DEF Ov!NewRequest, Ov!Request
<1>2. call \in [Callers -> Ov!Request] /\ \A r \in Callers : call[r] = Ov!NewRequest
  BY <1>1 DEF Ov!Init
<1>3. clock = 0 /\ cache.value = None
  BY DEF Ov!Init, Ov!Empty
<1>4. clock \in 0..MaxTime
  BY <1>3 DEF Ov!OverviewAssumption
<1> QED BY <1>1, <1>2, <1>3, <1>4 DEF OvInv, Ov!TypeOK, CacheOK, Reading, Recent

LEMMA OvPut ==
  ASSUME NEW r \in Callers, NEW q \in Ov!Request, Ov!TypeOK, call' = [call EXCEPT ![r] = q]
  PROVE  /\ call' \in [Callers -> Ov!Request]
         /\ call'[r] = q
         /\ \A s \in Callers \ {r} : call'[s] = call[s]
  BY DEF Ov!TypeOK

\* A step of a request that leaves the cache.
LEMMA OvStep ==
  ASSUME NEW r \in Callers, NEW q \in Ov!Request, OvInv, call' = [call EXCEPT ![r] = q],
         UNCHANGED <<clock, cache>>, Reading(q), Recent(q)
  PROVE  OvInv'
<1>1. /\ call' \in [Callers -> Ov!Request]
      /\ call'[r] = q
      /\ \A s \in Callers \ {r} : call'[s] = call[s]
  BY OvPut DEF OvInv
<1>2. Ov!TypeOK' /\ CacheOK'
  BY <1>1 DEF OvInv, Ov!TypeOK, CacheOK, Taken
<1>3. ASSUME NEW s \in Callers PROVE Reading(call'[s]) /\ Recent(call'[s])
  BY <1>1 DEF OvInv
<1>4. ASSUME NEW s \in Callers PROVE Reading(call[s])' /\ Recent(call[s])'
  <2>1. Reading(call[s])'
    BY <1>3 DEF Reading
  <2>2. Recent(call[s])'
    BY <1>3 DEF Recent, Taken
  <2> QED BY <2>1, <2>2
<1> QED BY <1>2, <1>4 DEF OvInv

LEMMA NowNat ==
  ASSUME Ov!OverviewAssumption, Ov!TypeOK
  PROVE  clock \in Nat /\ Ttl \in Nat /\ TimeLimit \in Nat /\ MaxTime \in Nat
  BY DEF Ov!OverviewAssumption, Ov!TypeOK

LEMMA ArriveOv == ASSUME NEW r \in Callers, Ov!OverviewAssumption, OvInv, Ov!Arrive(r) PROVE OvInv'
<1> DEFINE q == [Ov!NewRequest EXCEPT !.at = "cache", !.since = clock]
<1>1. clock \in Nat /\ TimeLimit \in Nat
  BY NowNat DEF OvInv
<1>2. q \in Ov!Request /\ q.at = "cache" /\ q.since = clock /\ q.parts = <<>>
  <2>1. Ov!NewRequest \in Ov!Request /\ Ov!NewRequest.parts = <<>>
    BY DEF Ov!NewRequest, Ov!Request
  <2> QED BY <1>1, <2>1 DEF Ov!Request
<1>3. call' = [call EXCEPT ![r] = q] /\ UNCHANGED <<clock, cache>>
  BY DEF Ov!Arrive
<1> HIDE DEF q
<1>4. clock <= clock + TimeLimit /\ clock <= clock
  BY <1>1
<1>5. Reading(q) /\ Recent(q)
  BY <1>2, <1>4 DEF Reading, Recent
<1> QED BY <1>2, <1>3, <1>5, OvStep

LEMMA OverOv ==
  ASSUME NEW r \in Callers, Ov!OverviewAssumption, OvInv, Ov!Reply(r) \/ Ov!Fail(r) PROVE OvInv'
<1>1. Ov!NewRequest \in Ov!Request /\ Ov!NewRequest.at = "idle" /\ Ov!NewRequest.since = 0
  BY DEF Ov!NewRequest, Ov!Request
<1>2. 0 <= clock
  BY NowNat DEF OvInv
<1>3. Reading(Ov!NewRequest) /\ Recent(Ov!NewRequest)
  BY <1>1, <1>2 DEF Reading, Recent
<1>4. call' = [call EXCEPT ![r] = Ov!NewRequest] /\ UNCHANGED <<clock, cache>>
  BY DEF Ov!Reply, Ov!Fail
<1> QED BY <1>1, <1>3, <1>4, OvStep

LEMMA DayNat == ASSUME Ov!OverviewAssumption, NEW t \in Nat PROVE Ov!GetZeroHourAnd1Day(t) \in Nat
<1>1. Month \in Nat /\ Month > 0
  BY DEF Ov!OverviewAssumption
<1>2. t \div Month \in Nat
  BY <1>1, SMT
<1>3. \A m, n \in Nat : m * n \in Nat
  BY SMT
<1> QED BY <1>1, <1>2, <1>3 DEF Ov!GetZeroHourAnd1Day

LEMMA LookUpOv == ASSUME NEW r \in Callers, Ov!OverviewAssumption, OvInv, Ov!LookUp(r) PROVE OvInv'
<1>1. call[r] \in Ov!Request /\ call[r].at = "cache" /\ Reading(call[r]) /\ UNCHANGED <<clock, cache>>
  BY DEF Ov!LookUp, OvInv, Ov!TypeOK
<1>2. CASE Ov!Hit
  <2> DEFINE q == [call[r] EXCEPT !.at = "reply", !.parts = cache.value]
  <2>1. PICK t \in Nat : cache.expires <= t + Ttl + TimeLimit /\ Taken(cache.value, t)
    BY <1>2 DEF OvInv, CacheOK, Ov!Hit
  <2>2. q \in Ov!Request /\ q.at = "reply" /\ q.parts = cache.value /\ q.since = call[r].since
    BY <1>1, <2>1 DEF Ov!Request, Taken
  <2>3. call' = [call EXCEPT ![r] = q]
    BY <1>2 DEF Ov!LookUp
  <2> HIDE DEF q
  <2>4. clock <= t + Ttl + TimeLimit
    <3>1. cache.expires \in Nat /\ clock < cache.expires
      BY <1>2 DEF Ov!Hit, OvInv, CacheOK
    <3> QED BY <2>1, <3>1, NowNat DEF OvInv
  <2>5. Reading(q) /\ Recent(q)
    BY <1>1, <2>1, <2>2, <2>4 DEF Reading, Recent
  <2> QED BY <1>1, <2>2, <2>3, <2>5, OvStep
<1>3. CASE ~Ov!Hit
  <2> DEFINE day == Ov!GetZeroHourAnd1Day(clock)
             q == [call[r] EXCEPT !.at = "call", !.date = day]
  <2>1. day \in Nat
    BY DayNat, NowNat DEF OvInv
  <2> HIDE DEF day
  <2>2. q \in Ov!Request /\ q.at = "call" /\ q.parts = <<>> /\ q.since = call[r].since /\ q.date = day
    BY <1>1, <2>1 DEF Ov!Request, Reading
  <2>3. call' = [call EXCEPT ![r] = q]
    BY <1>3 DEF Ov!LookUp, day
  <2> HIDE DEF q
  <2>4. Len(<<>>) <= Len(Ov!Parts) /\ DOMAIN <<>> = {} /\ << >> \in Seq(Ov!Statistic)
    BY DEF Ov!Parts
  <2>5. Reading(q) /\ Recent(q)
    BY <1>1, <2>1, <2>2, <2>4 DEF Reading, Recent, Taken
  <2> QED BY <1>1, <2>2, <2>3, <2>5, OvStep
<1> QED BY <1>2, <1>3

LEMMA CallOv == ASSUME NEW r \in Callers, Ov!OverviewAssumption, OvInv, Ov!Call(r) PROVE OvInv'
<1> DEFINE p == call[r].parts
           s == [begin |-> call[r].date, end |-> clock]
           n == Append(p, s)
           q == [call[r] EXCEPT !.parts = n]
<1>1. call[r] \in Ov!Request /\ call[r].at = "call" /\ Reading(call[r]) /\ UNCHANGED <<clock, cache>> /\ clock \in Nat
  BY NowNat DEF Ov!Call, OvInv, Ov!TypeOK
<1>2. /\ call[r].date \in Nat /\ Taken(p, call[r].since) /\ call[r].since <= clock
      /\ clock <= call[r].since + TimeLimit
      /\ \A i \in DOMAIN p : p[i].begin = call[r].date /\ p[i].end <= clock
      /\ call[r].since \in Nat
  BY <1>1 DEF Reading, Ov!Request
<1>3. s \in Ov!Statistic /\ s.begin = call[r].date /\ s.end = clock
  BY <1>1, <1>2 DEF Ov!Statistic
<1>4. Len(p) < Len(Ov!Parts) /\ Len(Ov!Parts) = 4
  BY DEF Ov!Call, Ov!Parts
<1>5. p \in Seq(Ov!Statistic)
  BY <1>2 DEF Taken
<1>6. call' = [call EXCEPT ![r] = q]
  BY DEF Ov!Call, Ov!GetStatistic
<1> HIDE DEF s
<1>7. /\ n \in Seq(Ov!Statistic) /\ Len(n) = Len(p) + 1 /\ DOMAIN n = 1..(Len(p) + 1)
      /\ n[Len(p) + 1] = s /\ \A i \in DOMAIN p : n[i] = p[i]
      /\ DOMAIN p = 1..Len(p) /\ Len(p) \in Nat
  BY <1>3, <1>5
<1>8. /\ q \in Ov!Request /\ q.at = "call" /\ q.parts = n /\ q.since = call[r].since /\ q.date = call[r].date
  BY <1>1, <1>7 DEF Ov!Request
<1> HIDE DEF n, q
<1>9. \A i \in DOMAIN n : n[i].begin = call[r].date /\ n[i].end <= clock /\ call[r].since <= n[i].end
  <2> SUFFICES ASSUME NEW i \in DOMAIN n
               PROVE  n[i].begin = call[r].date /\ n[i].end <= clock /\ call[r].since <= n[i].end
    OBVIOUS
  <2>1. CASE i \in DOMAIN p
    BY <1>2, <1>7, <2>1 DEF Taken
  <2>2. CASE i = Len(p) + 1
    BY <1>1, <1>2, <1>3, <1>7, <2>2
  <2> QED BY <1>7, <2>1, <2>2
<1>10. ASSUME NEW i \in DOMAIN n, NEW j \in DOMAIN n, i < j PROVE n[i].end <= n[j].end
  <2>1. i \in DOMAIN p
    BY <1>7, <1>10
  <2>2. CASE j \in DOMAIN p
    BY <1>2, <1>7, <1>10, <2>1, <2>2 DEF Taken
  <2>3. CASE j = Len(p) + 1
    BY <1>2, <1>3, <1>7, <2>1, <2>3
  <2> QED BY SMTT(60), <1>7, <2>2, <2>3
<1>11. Taken(n, call[r].since)
  BY <1>7, <1>9, <1>10 DEF Taken
<1>12. Len(n) <= Len(Ov!Parts)
  BY <1>4, <1>7
<1>13. Reading(q) /\ Recent(q)
  BY <1>1, <1>2, <1>8, <1>9, <1>11, <1>12 DEF Reading, Recent
<1> QED BY <1>1, <1>6, <1>8, <1>13, OvStep

LEMMA StoreOv == ASSUME NEW r \in Callers, Ov!OverviewAssumption, OvInv, Ov!Store(r) PROVE OvInv'
<1> DEFINE p == call[r].parts
           since == call[r].since
           q == [call[r] EXCEPT !.at = "reply"]
           c == [value |-> p, expires |-> clock + Ttl]
<1>1. /\ call[r] \in Ov!Request /\ call[r].at = "call" /\ Reading(call[r]) /\ clock' = clock
      /\ Len(p) = Len(Ov!Parts) /\ Ov!TypeOK
  BY DEF Ov!Store, OvInv, Ov!TypeOK
<1>2. clock \in Nat /\ Ttl \in Nat /\ TimeLimit \in Nat
  BY <1>1, NowNat
<1>3. since \in Nat /\ Taken(p, since) /\ clock <= since + TimeLimit
  BY <1>1 DEF Reading, Ov!Request
<1>4. q \in Ov!Request /\ q.at = "reply" /\ q.parts = p /\ q.since = since
  BY <1>1 DEF Ov!Request
<1>5. call' = [call EXCEPT ![r] = q] /\ cache' = c
  BY DEF Ov!Store
<1>6. c.value = p /\ c.expires = clock + Ttl
  OBVIOUS
<1> HIDE DEF c, q
<1>7. /\ call' \in [Callers -> Ov!Request]
      /\ call'[r] = q
      /\ \A s \in Callers \ {r} : call'[s] = call[s]
  BY <1>1, <1>4, <1>5, OvPut
<1>8. clock + Ttl <= since + Ttl + TimeLimit /\ clock + Ttl \in Nat /\ clock <= since + Ttl + TimeLimit
  BY <1>2, <1>3
<1>9. CacheOK'
  <2>1. c.expires <= since + Ttl + TimeLimit /\ Taken(c.value, since)
    BY <1>3, <1>6, <1>8
  <2> QED BY <1>1, <1>3, <1>5, <1>6, <1>8, <2>1 DEF CacheOK, Taken
<1>10. Ov!TypeOK'
  BY <1>1, <1>3, <1>5, <1>6, <1>7 DEF Ov!TypeOK, Taken
<1>11. Reading(q) /\ Recent(q)
  BY <1>1, <1>3, <1>4, <1>8 DEF Reading, Recent
<1>12. ASSUME NEW s \in Callers PROVE Reading(call'[s]) /\ Recent(call'[s])
  BY <1>7, <1>11 DEF OvInv
<1>13. ASSUME NEW s \in Callers PROVE Reading(call[s])' /\ Recent(call[s])'
  BY <1>1, <1>12 DEF Reading, Recent, Taken
<1> QED BY <1>9, <1>10, <1>13 DEF OvInv

LEMMA TickOv == ASSUME Ov!OverviewAssumption, OvInv, Ov!Tick PROVE OvInv'
<1>1. clock \in Nat /\ MaxTime \in Nat /\ TimeLimit \in Nat /\ Ov!TypeOK /\ clock' = clock + 1 /\ call' = call
  BY NowNat DEF OvInv, Ov!Tick
<1>2. clock' \in 0..MaxTime
  BY <1>1 DEF Ov!Tick
<1>3. cache' = cache \/ (cache' = Ov!Empty /\ Ov!Empty.value = None)
  BY DEF Ov!Tick, Ov!Empty
<1>4. Ov!TypeOK'
  BY <1>1, <1>2, <1>3 DEF Ov!TypeOK
<1>5. CacheOK'
  BY <1>3 DEF OvInv, CacheOK, Taken
<1>6. ASSUME NEW s \in Callers PROVE Reading(call[s])' /\ Recent(call[s])'
  <2>1. /\ call[s] \in Ov!Request /\ Reading(call[s]) /\ call[s].at # "reply"
        /\ call[s].at \in {"cache", "call"} => clock < call[s].since + TimeLimit
    BY <1>1 DEF OvInv, Ov!TypeOK, Ov!Tick
  <2>2. call[s].since \in Nat
    BY <2>1 DEF Ov!Request
  <2>3. call[s].since <= clock' /\ (call[s].at \in {"cache", "call"} => clock' <= call[s].since + TimeLimit)
    BY <1>1, <2>1, <2>2 DEF Reading
  <2>4. call[s].at = "call" => \A i \in DOMAIN call[s].parts : call[s].parts[i].end <= clock'
    <3> SUFFICES ASSUME call[s].at = "call", NEW i \in DOMAIN call[s].parts PROVE call[s].parts[i].end <= clock'
      OBVIOUS
    <3>1. call[s].parts \in Seq(Ov!Statistic) /\ call[s].parts[i].end <= clock
      BY <2>1 DEF Reading, Taken
    <3>2. call[s].parts[i] \in Ov!Statistic
      BY <3>1
    <3> QED BY <1>1, <3>1, <3>2 DEF Ov!Statistic
  <2> QED BY <1>1, <2>1, <2>3, <2>4 DEF Reading, Recent, Taken
<1> QED BY <1>4, <1>5, <1>6 DEF OvInv

LEMMA RestartOv == ASSUME Ov!OverviewAssumption, OvInv, Ov!Restart PROVE OvInv'
<1>1. Ov!NewRequest \in Ov!Request /\ Ov!NewRequest.at = "idle" /\ Ov!NewRequest.since = 0
  BY DEF Ov!NewRequest, Ov!Request
<1>2. call' \in [Callers -> Ov!Request] /\ \A r \in Callers : call'[r] = Ov!NewRequest
  BY <1>1 DEF Ov!Restart
<1>3. clock' = clock /\ cache'.value = None /\ Ov!TypeOK /\ 0 <= clock
  BY NowNat DEF Ov!Restart, Ov!Empty, OvInv
<1>4. Ov!TypeOK' /\ CacheOK'
  BY <1>2, <1>3 DEF Ov!TypeOK, CacheOK
<1>5. ASSUME NEW s \in Callers PROVE Reading(call[s])' /\ Recent(call[s])'
  BY <1>1, <1>2, <1>3 DEF Reading, Recent
<1> QED BY <1>4, <1>5 DEF OvInv

LEMMA OvNext == ASSUME Ov!OverviewAssumption, OvInv, [Ov!Next]_Ov!vars PROVE OvInv'
<1>1. CASE UNCHANGED Ov!vars
  <2> USE <1>1 DEF Ov!vars
  <2>1. Ov!TypeOK' /\ CacheOK'
    BY DEF OvInv, Ov!TypeOK, CacheOK, Taken
  <2>2. ASSUME NEW s \in Callers PROVE Reading(call[s])'
    BY DEF OvInv, Reading
  <2>3. ASSUME NEW s \in Callers PROVE Recent(call[s])'
    BY DEF OvInv, Recent, Taken
  <2> QED BY <2>1, <2>2, <2>3 DEF OvInv
<1>2. ASSUME NEW r \in Callers,
             Ov!Arrive(r) \/ Ov!LookUp(r) \/ Ov!Call(r) \/ Ov!Store(r) \/ Ov!Reply(r) \/ Ov!Fail(r)
      PROVE  OvInv'
  BY <1>2, ArriveOv, LookUpOv, CallOv, StoreOv, OverOv
<1>3. CASE Ov!Tick
  BY <1>3, TickOv
<1>4. CASE Ov!Restart
  BY <1>4, RestartOv
<1> QED BY <1>1, <1>2, <1>3, <1>4 DEF Ov!Next

LEMMA OvRecent == ASSUME Ov!OverviewAssumption, OvInv PROVE Ov!TypeOK /\ Ov!OverviewIsRecent
<1> SUFFICES ASSUME NEW r \in Callers, call[r].at = "reply"
             PROVE  LET p == call[r].parts
                    IN  /\ \A i \in DOMAIN p : clock <= p[i].end + Ttl + TimeLimit
                        /\ \A i, j \in DOMAIN p : p[i].begin = p[j].begin /\ (i < j => p[i].end <= p[j].end)
  BY DEF OvInv, Ov!OverviewIsRecent
<1> DEFINE p == call[r].parts
<1>1. PICK t \in Nat : clock <= t + Ttl + TimeLimit /\ Taken(p, t)
  BY DEF OvInv, Recent
<1>2. clock \in Nat /\ Ttl \in Nat /\ TimeLimit \in Nat
  BY NowNat DEF OvInv
<1>3. ASSUME NEW i \in DOMAIN p PROVE clock <= p[i].end + Ttl + TimeLimit
  <2>1. p[i] \in Ov!Statistic /\ t <= p[i].end
    BY <1>1 DEF Taken
  <2> QED BY <1>1, <1>2, <2>1 DEF Ov!Statistic
<1> QED BY <1>1, <1>3 DEF Taken

-----------------------------------------------------------------------------
(* Storage *)

WriteStages == {"none", "stat", "mkdir", "open", "write", "over"}

\* A write starts when the upload has its name, and opens a file in a directory
\* that is there; rows and files to unlink are of uploads that have one.
StagesOK ==
    /\ \A u \in Uploads :
         /\ upload[u].at \in {"new", "buffer"} => writing[u] = "none"
         /\ upload[u].at = "new" => u \notin row
         /\ writing[u] = "open" => Files!Dir(Files!Path(u)) \in dirs
    /\ \A c \in Deletes :
         /\ delete[c].at = "new" => delete[c].ids = {}
         /\ \A u \in delete[c].files : u \in delete[c].ids /\ upload[u].at # "new"

\* No other upload has its name, and no delete has named it.
Alone(u) == \A v \in Uploads \ {u} : upload[v].at # "new" => ~Files!Alike(upload[u], upload[v])
Unnamed(u) == \A c \in Deletes : u \notin delete[c].ids

\* Such an upload has its file from the moment it was opened on.
Holds(u) ==
    Alone(u) /\ Unnamed(u) /\ u \notin hurt =>
        /\ writing[u] = "write" => Files!Path(u) \in DOMAIN disk /\ disk[Files!Path(u)] = {}
        /\ writing[u] = "over" => Files!Path(u) \in DOMAIN disk /\ disk[Files!Path(u)] = {u}

FileInv == Files!TypeOK /\ StagesOK /\ \A u \in Uploads : Holds(u)

LEMMA FileInit == ASSUME Files!StorageAssumption, Files!Init PROVE FileInv
<1> DEFINE n == CHOOSE x \in Names : TRUE
           x == CHOOSE y \in Exts : TRUE
           m == CHOOSE y \in Moments : TRUE
           y == CHOOSE z \in Days : TRUE
           f == [at |-> "new", name |-> n, ext |-> x, moment |-> m, day |-> y]
<1>1. n \in Names /\ x \in Exts /\ m \in Moments /\ y \in Days
  BY DEF Files!StorageAssumption
<1>2. \A u \in Uploads : Files!Fresh(u) = f
  BY DEF Files!Fresh
<1> HIDE DEF n, x, m, y
<1>3. f \in Files!Upload /\ f.at = "new"
  BY <1>1 DEF Files!Upload
<1> HIDE DEF f
<1>4. upload = [u \in Uploads |-> f]
  BY <1>2 DEF Files!Init
<1>5. Files!NewDelete \in Files!Delete /\ Files!NewDelete.files = {} /\ Files!NewDelete.ids = {}
  BY DEF Files!NewDelete, Files!Delete
<1>6. DOMAIN << >> = {} /\ 0 \in 0..MaxOpen
  BY DEF Files!StorageAssumption
<1>7. Files!TypeOK
  BY <1>3, <1>4, <1>5, <1>6 DEF Files!Init, Files!TypeOK
<1>8. StagesOK
  BY <1>3, <1>4, <1>5 DEF Files!Init, StagesOK
<1>9. \A u \in Uploads : Holds(u)
  BY DEF Files!Init, Holds
<1> QED BY <1>7, <1>8, <1>9 DEF FileInv

\* Uploads that nothing tells apart have one path, others have their own.
LEMMA PathsDiffer ==
  ASSUME NEW u, NEW v, ~Files!Alike(upload[u], upload[v])
  PROVE  Files!Path(u) # Files!Path(v)
<1> DEFINE x == upload[u]
           y == upload[v]
           fx == <<x.name, x.moment, x.ext>>
           fy == <<y.name, y.moment, y.ext>>
           px == [day |-> x.day, type |-> Files!FileType(x.ext), name |-> fx]
           py == [day |-> y.day, type |-> Files!FileType(y.ext), name |-> fy]
<1>1. Files!Path(u) = px /\ Files!Path(v) = py
  BY DEF Files!Path, Files!FilePath, Files!FileRename
<1>2. px.day = x.day /\ px.name = fx /\ py.day = y.day /\ py.name = fy
  OBVIOUS
<1> SUFFICES ASSUME px = py PROVE FALSE
  BY <1>1
<1>3. x.day = y.day /\ fx = fy
  BY <1>2
<1>4. x.name = y.name /\ x.moment = y.moment /\ x.ext = y.ext
  BY <1>3
<1> QED BY <1>3, <1>4 DEF Files!Alike

\* A step that keeps names and files: who is in the way of nobody later was not before.
NamesKept ==
    /\ \A u \in Uploads : upload[u].at # "new" =>
         /\ upload'[u].at # "new"
         /\ upload'[u].name = upload[u].name /\ upload'[u].ext = upload[u].ext
         /\ upload'[u].moment = upload[u].moment /\ upload'[u].day = upload[u].day
    /\ \A c \in Deletes : delete[c].ids \subseteq delete'[c].ids

LEMMA NotBefore ==
  ASSUME NamesKept, NEW u \in Uploads, upload[u].at # "new"
  PROVE  /\ Alone(u)' => Alone(u)
         /\ Unnamed(u)' => Unnamed(u)
         /\ Files!Path(u)' = Files!Path(u)
<1>1. Alone(u)' => Alone(u)
  BY DEF Alone, Files!Alike, NamesKept
<1>2. Unnamed(u)' => Unnamed(u)
  BY DEF Unnamed, NamesKept
<1>3. Files!Path(u)' = Files!Path(u)
  BY DEF Files!Path, Files!FilePath, NamesKept
<1> QED BY <1>1, <1>2, <1>3

\* Alone keeps a path to itself.
LEMMA OwnPath ==
  ASSUME NEW u \in Uploads, NEW v \in Uploads \ {u}, upload[v].at # "new", Alone(u)
  PROVE  Files!Path(u) # Files!Path(v)
  BY PathsDiffer DEF Alone

\* Steps that change neither a file nor what a write has come to.
LEMMA FilesSame ==
  ASSUME FileInv, NamesKept, disk' = disk, hurt \subseteq hurt',
         \A u \in Uploads : writing'[u] \in {"write", "over"} =>
            u \in hurt' \/ (writing'[u] = writing[u])
  PROVE  \A u \in Uploads : Holds(u)'
<1> SUFFICES ASSUME NEW u \in Uploads, Alone(u)', Unnamed(u)', u \notin hurt', writing'[u] \in {"write", "over"}
             PROVE  /\ writing'[u] = "write" => Files!Path(u)' \in DOMAIN disk' /\ disk'[Files!Path(u)'] = {}
                    /\ writing'[u] = "over" => Files!Path(u)' \in DOMAIN disk' /\ disk'[Files!Path(u)'] = {u}
  BY DEF Holds
<1>1. writing'[u] = writing[u] /\ u \notin hurt
  OBVIOUS
<1>2. upload[u].at # "new"
  BY <1>1 DEF FileInv, StagesOK
<1>3. Alone(u) /\ Unnamed(u) /\ Files!Path(u)' = Files!Path(u)
  BY <1>2, NotBefore
<1>4. Holds(u)
  BY DEF FileInv
<1> QED BY <1>1, <1>3, <1>4 DEF Holds

-----------------------------------------------------------------------------
LEMMA UploadPut ==
  ASSUME NEW u \in Uploads, Files!TypeOK, NEW x \in Files!Upload, upload' = [upload EXCEPT ![u] = x]
  PROVE  /\ upload' \in [Uploads -> Files!Upload]
         /\ upload'[u] = x
         /\ \A v \in Uploads \ {u} : upload'[v] = upload[v]
  BY DEF Files!TypeOK

\* An upload is refused, or goes on to at.
LEMMA UploadAt ==
  ASSUME NEW u \in Uploads, Files!TypeOK, NEW at \in {"new", "buffer", "save", "saved", "refused"},
         upload' = [upload EXCEPT ![u].at = at]
  PROVE  /\ upload' \in [Uploads -> Files!Upload]
         /\ upload'[u].at = at
         /\ upload'[u].name = upload[u].name /\ upload'[u].ext = upload[u].ext
         /\ upload'[u].moment = upload[u].moment /\ upload'[u].day = upload[u].day
         /\ \A v \in Uploads \ {u} : upload'[v] = upload[v]
<1> DEFINE x == [upload[u] EXCEPT !.at = at]
<1>1. upload[u] \in Files!Upload
  BY DEF Files!TypeOK
<1>2. x \in Files!Upload /\ x.at = at /\ x.name = upload[u].name /\ x.ext = upload[u].ext
      /\ x.moment = upload[u].moment /\ x.day = upload[u].day
  BY <1>1 DEF Files!Upload
<1>3. upload' = [upload EXCEPT ![u] = x]
  OBVIOUS
<1> HIDE DEF x
<1> QED BY <1>2, <1>3, UploadPut

\* Steps of an upload that has no name yet, or is not the writer of its file.
LEMMA UploadInv ==
  ASSUME NEW u \in Uploads, FileInv, Files!NoFile(u) \/ Files!SaveRow(u) \/ Files!Refuse(u)
  PROVE  FileInv'
<1>1. PICK at \in {"saved", "refused"} :
        /\ upload' = [upload EXCEPT ![u].at = at]
        /\ row' \in {row, row \cup {u}} /\ UNCHANGED <<writing, disk, dirs, open, delete, hurt>>
  BY DEF Files!NoFile, Files!SaveRow, Files!Refuse
<1>2. /\ upload' \in [Uploads -> Files!Upload]
      /\ upload'[u].at = at
      /\ upload'[u].name = upload[u].name /\ upload'[u].ext = upload[u].ext
      /\ upload'[u].moment = upload[u].moment /\ upload'[u].day = upload[u].day
      /\ \A v \in Uploads \ {u} : upload'[v] = upload[v]
  BY <1>1, UploadAt DEF FileInv
<1>3. NamesKept
  BY <1>1, <1>2 DEF NamesKept
<1>4. Files!TypeOK'
  BY <1>1, <1>2 DEF FileInv, Files!TypeOK
<1>5. \A v \in Uploads : Files!Path(v)' = Files!Path(v)
  BY <1>2 DEF Files!Path, Files!FilePath
<1>6. StagesOK'
  BY <1>1, <1>2, <1>5 DEF FileInv, StagesOK
<1>7. \A v \in Uploads : Holds(v)'
  BY <1>1, <1>3, FilesSame
<1> QED BY <1>4, <1>6, <1>7 DEF FileInv

LEMMA SaveFileInv ==
  ASSUME NEW u \in Uploads, NEW name \in Names, NEW ext \in Exts, NEW moment \in Moments,
         NEW day \in Days, FileInv, Files!SaveFile(u, name, ext, moment, day)
  PROVE  FileInv'
<1> DEFINE x == [at |-> "buffer", name |-> name, ext |-> ext, moment |-> moment, day |-> day]
<1>1. x \in Files!Upload /\ x.at = "buffer"
  BY DEF Files!Upload
<1>2. upload' = [upload EXCEPT ![u] = x] /\ upload[u].at = "new"
      /\ UNCHANGED <<writing, row, disk, dirs, open, delete, hurt>>
  BY DEF Files!SaveFile
<1> HIDE DEF x
<1>3. /\ upload' \in [Uploads -> Files!Upload] /\ upload'[u] = x
      /\ \A v \in Uploads \ {u} : upload'[v] = upload[v]
  BY <1>1, <1>2, UploadPut DEF FileInv
<1>4. NamesKept
  BY <1>2, <1>3 DEF NamesKept
<1>5. Files!TypeOK'
  BY <1>2, <1>3 DEF FileInv, Files!TypeOK
<1>6. writing[u] = "none" /\ \A v \in Uploads \ {u} : Files!Path(v)' = Files!Path(v)
  BY <1>2, <1>3 DEF FileInv, StagesOK, Files!Path
<1>7. StagesOK'
  BY <1>1, <1>2, <1>3, <1>6 DEF FileInv, StagesOK
<1>8. \A v \in Uploads : Holds(v)'
  BY <1>2, <1>4, FilesSame
<1> QED BY <1>5, <1>7, <1>8 DEF FileInv

\* The stage of a write becomes to.
LEMMA WritingPut ==
  ASSUME NEW u \in Uploads, Files!TypeOK, NEW to \in WriteStages, writing' = [writing EXCEPT ![u] = to]
  PROVE  /\ writing' \in [Uploads -> WriteStages] /\ writing'[u] = to
         /\ \A v \in Uploads \ {u} : writing'[v] = writing[v]
  BY DEF Files!TypeOK, WriteStages

LEMMA ToBufferInv == ASSUME NEW u \in Uploads, FileInv, Files!ToBuffer(u) PROVE FileInv'
<1>1. /\ upload' = [upload EXCEPT ![u].at = "save"] /\ writing' = [writing EXCEPT ![u] = "stat"]
      /\ UNCHANGED <<row, disk, dirs, open, delete, hurt>> /\ Files!TypeOK /\ "stat" \in WriteStages
      /\ upload[u].at = "buffer"
  BY DEF Files!ToBuffer, FileInv, WriteStages
<1>2. /\ upload' \in [Uploads -> Files!Upload]
      /\ upload'[u].at = "save"
      /\ upload'[u].name = upload[u].name /\ upload'[u].ext = upload[u].ext
      /\ upload'[u].moment = upload[u].moment /\ upload'[u].day = upload[u].day
      /\ \A v \in Uploads \ {u} : upload'[v] = upload[v]
  BY <1>1, UploadAt
<1>3. /\ writing' \in [Uploads -> WriteStages] /\ writing'[u] = "stat"
      /\ \A v \in Uploads \ {u} : writing'[v] = writing[v]
  BY <1>1, WritingPut
<1>4. NamesKept
  BY <1>1, <1>2 DEF NamesKept
<1>5. Files!TypeOK'
  BY <1>1, <1>2, <1>3 DEF Files!TypeOK, WriteStages
<1>6. \A v \in Uploads : Files!Path(v)' = Files!Path(v)
  BY <1>2 DEF Files!Path, Files!FilePath
<1>7. StagesOK'
  BY <1>1, <1>2, <1>3, <1>6 DEF FileInv, StagesOK
<1>8. \A v \in Uploads : Holds(v)'
  BY <1>1, <1>3, <1>4, FilesSame
<1> QED BY <1>5, <1>7, <1>8 DEF FileInv

\* What a step of saveLocalFile leaves alone.
WriterOnly == UNCHANGED <<upload, row, delete>>

LEMMA PathKept ==
  ASSUME WriterOnly
  PROVE  NamesKept /\ \A v \in Uploads : Files!Path(v)' = Files!Path(v)
  BY DEF WriterOnly, NamesKept, Files!Path

\* Up to the open, and where the write fails.
LEMMA StatInv ==
  ASSUME NEW u \in Uploads, FileInv, Files!Stat(u) \/ Files!Mkdir(u) \/ Files!WriteFails(u)
  PROVE  FileInv'
<1>1. PICK to \in {"open", "mkdir", "over"} :
        /\ writing' = [writing EXCEPT ![u] = to]
        /\ UNCHANGED <<upload, row, disk, open, delete>> /\ dirs \subseteq dirs'
        /\ to = "open" => Files!Dir(Files!Path(u)) \in dirs'
        /\ IF to = "over" THEN hurt' = hurt \cup {u} ELSE hurt' = hurt
        /\ writing[u] \in {"stat", "mkdir", "open", "write"}
  BY DEF Files!Stat, Files!Mkdir, Files!WriteFails
<1>2. /\ writing' \in [Uploads -> WriteStages] /\ writing'[u] = to
      /\ \A v \in Uploads \ {u} : writing'[v] = writing[v]
  BY <1>1, WritingPut DEF FileInv, WriteStages
<1>3. NamesKept /\ \A v \in Uploads : Files!Path(v)' = Files!Path(v)
  BY <1>1, PathKept DEF WriterOnly
<1>4. Files!TypeOK'
  BY <1>1, <1>2 DEF FileInv, Files!TypeOK, WriteStages
<1>5. StagesOK'
  BY <1>1, <1>2, <1>3 DEF FileInv, StagesOK
<1>6. \A v \in Uploads : Holds(v)'
  BY <1>1, <1>2, <1>3, FilesSame
<1> QED BY <1>4, <1>5, <1>6 DEF FileInv

\* The others keep their files when u opens or writes its own.
LEMMA OthersHold ==
  ASSUME NEW u \in Uploads, upload[u].at # "new", FileInv, WriterOnly, hurt \subseteq hurt',
         \A v \in Uploads \ {u} : writing'[v] = writing[v],
         \A p \in DOMAIN disk : p # Files!Path(u) => p \in DOMAIN disk' /\ disk'[p] = disk[p]
  PROVE  \A v \in Uploads \ {u} : Holds(v)'
<1> SUFFICES ASSUME NEW v \in Uploads \ {u}, Alone(v)', Unnamed(v)', v \notin hurt',
                    writing[v] \in {"write", "over"}
             PROVE  /\ writing[v] = "write" => Files!Path(v)' \in DOMAIN disk' /\ disk'[Files!Path(v)'] = {}
                    /\ writing[v] = "over" => Files!Path(v)' \in DOMAIN disk' /\ disk'[Files!Path(v)'] = {v}
  BY DEF Holds
<1>1. upload[v].at # "new" /\ Holds(v) /\ v \notin hurt
  BY DEF FileInv, StagesOK
<1>2. Alone(v) /\ Unnamed(v) /\ Files!Path(v)' = Files!Path(v)
  BY <1>1, PathKept, NotBefore
<1>3. Files!Path(v) # Files!Path(u)
  BY <1>2, OwnPath
<1> QED BY <1>1, <1>2, <1>3 DEF Holds

LEMMA OpenInv ==
  ASSUME NEW u \in Uploads, Files!StorageAssumption, FileInv, Files!Open(u)
  PROVE  FileInv'
<1>1. writing[u] = "open" /\ upload[u].at # "new" /\ Files!Dir(Files!Path(u)) \in dirs /\ WriterOnly /\ dirs' = dirs
  BY DEF Files!Open, FileInv, StagesOK, WriterOnly
<1>2. NamesKept /\ \A v \in Uploads : Files!Path(v)' = Files!Path(v)
  BY <1>1, PathKept
<1>3. CASE ~(open < MaxOpen)
  <2>1. /\ writing' = [writing EXCEPT ![u] = "over"] /\ hurt' = hurt \cup {u}
        /\ UNCHANGED <<disk, open>> /\ "over" \in WriteStages
    BY <1>3 DEF Files!Open, WriteStages
  <2>2. /\ writing' \in [Uploads -> WriteStages] /\ writing'[u] = "over"
        /\ \A v \in Uploads \ {u} : writing'[v] = writing[v]
    BY <2>1, WritingPut DEF FileInv
  <2>3. Files!TypeOK'
    BY <1>1, <2>1, <2>2 DEF FileInv, Files!TypeOK, WriteStages, WriterOnly
  <2>4. StagesOK'
    BY <1>1, <1>2, <2>1, <2>2 DEF FileInv, StagesOK, WriterOnly
  <2>5. \A v \in Uploads : Holds(v)'
    BY <1>2, <2>1, <2>2, FilesSame
  <2> QED BY <2>3, <2>4, <2>5 DEF FileInv
<1>4. CASE open < MaxOpen
  <2>1. /\ writing' = [writing EXCEPT ![u] = "write"] /\ hurt' = hurt
        /\ disk' = [p \in DOMAIN disk \cup {Files!Path(u)} |-> IF p = Files!Path(u) THEN {} ELSE disk[p]]
        /\ open' = open + 1 /\ "write" \in WriteStages
    BY <1>1, <1>4 DEF Files!Open, WriteStages
  <2>2. /\ writing' \in [Uploads -> WriteStages] /\ writing'[u] = "write"
        /\ \A v \in Uploads \ {u} : writing'[v] = writing[v]
    BY <2>1, WritingPut DEF FileInv
  <2>3. /\ DOMAIN disk' = DOMAIN disk \cup {Files!Path(u)} /\ disk'[Files!Path(u)] = {}
        /\ \A p \in DOMAIN disk : p # Files!Path(u) => disk'[p] = disk[p]
    BY <2>1
  <2>4. open' \in 0..MaxOpen
    BY <1>4, <2>1 DEF FileInv, Files!TypeOK, Files!StorageAssumption
  <2>5. Files!TypeOK'
    <3>1. \A p \in DOMAIN disk' : Files!Dir(p) \in dirs' /\ disk'[p] \in SUBSET Uploads
      BY <1>1, <2>3 DEF FileInv, Files!TypeOK
    <3> QED BY <1>1, <2>1, <2>2, <2>4, <3>1 DEF FileInv, Files!TypeOK, WriteStages, WriterOnly
  <2>6. StagesOK'
    BY <1>1, <1>2, <2>1, <2>2 DEF FileInv, StagesOK, WriterOnly
  <2>7. ASSUME NEW v \in Uploads \ {u} PROVE Holds(v)'
    BY <1>1, <2>1, <2>2, <2>3, OthersHold
  <2>8. Holds(u)'
    BY <1>2, <2>2, <2>3 DEF Holds
  <2> QED BY <2>5, <2>6, <2>7, <2>8 DEF FileInv
<1> QED BY <1>3, <1>4

LEMMA WriteInv == ASSUME NEW u \in Uploads, FileInv, Files!Write(u) PROVE FileInv'
<1>1. /\ writing[u] = "write" /\ writing' = [writing EXCEPT ![u] = "over"] /\ "over" \in WriteStages
      /\ DOMAIN disk' = DOMAIN disk
      /\ \A p \in DOMAIN disk : disk'[p] = IF p = Files!Path(u) THEN disk[p] \cup {u} ELSE disk[p]
      /\ WriterOnly /\ UNCHANGED <<dirs, open, hurt>>
  BY DEF Files!Write, WriterOnly, WriteStages
<1>2. upload[u].at # "new" /\ Holds(u)
  BY <1>1 DEF FileInv, StagesOK
<1>3. /\ writing' \in [Uploads -> WriteStages] /\ writing'[u] = "over"
      /\ \A v \in Uploads \ {u} : writing'[v] = writing[v]
  BY <1>1, WritingPut DEF FileInv
<1>4. NamesKept /\ \A v \in Uploads : Files!Path(v)' = Files!Path(v)
  BY <1>1, PathKept
<1>5. Files!TypeOK'
  <2>1. \A p \in DOMAIN disk' : Files!Dir(p) \in dirs' /\ disk'[p] \in SUBSET Uploads
    BY <1>1 DEF FileInv, Files!TypeOK
  <2> QED BY <1>1, <1>3, <2>1 DEF FileInv, Files!TypeOK, WriteStages, WriterOnly
<1>6. StagesOK'
  BY <1>1, <1>3, <1>4 DEF FileInv, StagesOK, WriterOnly
<1>7. ASSUME NEW v \in Uploads \ {u} PROVE Holds(v)'
  BY <1>1, <1>2, <1>3, OthersHold
<1>8. Holds(u)'
  <2> SUFFICES ASSUME Alone(u)', Unnamed(u)', u \notin hurt'
               PROVE  Files!Path(u)' \in DOMAIN disk' /\ disk'[Files!Path(u)'] = {u}
    BY <1>3 DEF Holds
  <2>1. Alone(u) /\ Unnamed(u) /\ u \notin hurt
    BY <1>1, <1>2, <1>4, NotBefore
  <2>2. Files!Path(u) \in DOMAIN disk /\ disk[Files!Path(u)] = {}
    BY <1>1, <1>2, <2>1 DEF Holds
  <2> QED BY <1>1, <1>4, <2>2
<1> QED BY <1>5, <1>6, <1>7, <1>8 DEF FileInv

-----------------------------------------------------------------------------
LEMMA DeletePut ==
  ASSUME NEW c \in Deletes, Files!TypeOK, NEW x \in Files!Delete, delete' = [delete EXCEPT ![c] = x]
  PROVE  /\ delete' \in [Deletes -> Files!Delete]
         /\ delete'[c] = x
         /\ \A k \in Deletes \ {c} : delete'[k] = delete[k]
  BY DEF Files!TypeOK

LEMMA DeleteRowsInv ==
  ASSUME NEW c \in Deletes, NEW ids \in SUBSET Uploads, FileInv, Files!DeleteRows(c, ids)
  PROVE  FileInv'
<1> DEFINE whole == {u \in ids \cap row : writing[u] = "over" /\ u \notin hurt}
           x == [at |-> "find", ids |-> ids, files |-> {}, whole |-> whole]
<1>1. whole \in SUBSET Uploads
  OBVIOUS
<1>2. /\ delete[c] \in Files!Delete /\ delete[c].at = "new" /\ row' = row \ ids
      /\ delete' = [delete EXCEPT ![c] = x] /\ UNCHANGED <<upload, writing, disk, dirs, open, hurt>>
  BY DEF Files!DeleteRows, FileInv, Files!TypeOK
<1> HIDE DEF whole
<1>3. x \in Files!Delete /\ x.files = {} /\ x.ids = ids /\ x.at = "find"
  BY <1>1 DEF Files!Delete
<1> HIDE DEF x
<1>4. /\ delete' \in [Deletes -> Files!Delete] /\ delete'[c] = x
      /\ \A k \in Deletes \ {c} : delete'[k] = delete[k]
  BY <1>2, <1>3, DeletePut DEF FileInv
<1>5. NamesKept /\ \A v \in Uploads : Files!Path(v)' = Files!Path(v)
  BY <1>2, <1>3, <1>4 DEF NamesKept, Files!Path, FileInv, StagesOK
<1>6. Files!TypeOK'
  BY <1>2, <1>4 DEF FileInv, Files!TypeOK
<1>7. StagesOK'
  BY <1>2, <1>3, <1>4, <1>5 DEF FileInv, StagesOK
<1>8. \A v \in Uploads : Holds(v)'
  BY <1>2, <1>5, FilesSame
<1> QED BY <1>6, <1>7, <1>8 DEF FileInv

LEMMA FindInv == ASSUME NEW c \in Deletes, FileInv, Files!FindByIds(c) PROVE FileInv'
<1> DEFINE files == delete[c].ids \cap row
           x == [delete[c] EXCEPT !.at = "unlink", !.files = files]
<1>1. /\ delete[c] \in Files!Delete /\ delete' = [delete EXCEPT ![c] = x]
      /\ UNCHANGED <<upload, writing, row, disk, dirs, open, hurt>>
  BY DEF Files!FindByIds, FileInv, Files!TypeOK
<1>2. files \subseteq delete[c].ids /\ \A u \in files : u \in Uploads /\ upload[u].at # "new"
  BY DEF FileInv, StagesOK, Files!TypeOK
<1> HIDE DEF files
<1>3. x \in Files!Delete /\ x.files = files /\ x.ids = delete[c].ids /\ x.at = "unlink"
  BY <1>1, <1>2 DEF Files!Delete
<1> HIDE DEF x
<1>4. /\ delete' \in [Deletes -> Files!Delete] /\ delete'[c] = x
      /\ \A k \in Deletes \ {c} : delete'[k] = delete[k]
  BY <1>1, <1>3, DeletePut DEF FileInv
<1>5. NamesKept /\ \A v \in Uploads : Files!Path(v)' = Files!Path(v)
  BY <1>1, <1>3, <1>4 DEF NamesKept, Files!Path
<1>6. Files!TypeOK'
  BY <1>1, <1>4 DEF FileInv, Files!TypeOK
<1>7. StagesOK'
  BY <1>1, <1>2, <1>3, <1>4, <1>5 DEF FileInv, StagesOK
<1>8. \A v \in Uploads : Holds(v)'
  BY <1>1, <1>5, FilesSame
<1> QED BY <1>6, <1>7, <1>8 DEF FileInv

\* A file that is unlinked is the one of an upload the delete has named.
LEMMA DeleteFileInv ==
  ASSUME NEW c \in Deletes, NEW u \in Uploads, FileInv, Files!DeleteFile(c, u) PROVE FileInv'
<1> DEFINE x == [delete[c] EXCEPT !.files = @ \ {u}]
<1>1. /\ delete[c] \in Files!Delete /\ delete' = [delete EXCEPT ![c] = x] /\ u \in delete[c].files
      /\ DOMAIN disk' = DOMAIN disk \ {Files!Path(u)} /\ \A p \in DOMAIN disk' : disk'[p] = disk[p]
      /\ UNCHANGED <<upload, writing, row, dirs, open, hurt>>
  BY DEF Files!DeleteFile, FileInv, Files!TypeOK
<1>2. /\ x \in Files!Delete /\ x.files = delete[c].files \ {u} /\ x.ids = delete[c].ids
      /\ x.at = delete[c].at
  BY <1>1 DEF Files!Delete
<1> HIDE DEF x
<1>3. /\ delete' \in [Deletes -> Files!Delete] /\ delete'[c] = x
      /\ \A k \in Deletes \ {c} : delete'[k] = delete[k]
  BY <1>1, <1>2, DeletePut DEF FileInv
<1>4. NamesKept /\ \A v \in Uploads : Files!Path(v)' = Files!Path(v)
  BY <1>1, <1>2, <1>3 DEF NamesKept, Files!Path
<1>5. u \in delete[c].ids /\ upload[u].at # "new"
  BY <1>1 DEF FileInv, StagesOK
<1>6. Files!TypeOK'
  <2>1. \A p \in DOMAIN disk' : Files!Dir(p) \in dirs' /\ disk'[p] \in SUBSET Uploads
    BY <1>1 DEF FileInv, Files!TypeOK
  <2> QED BY <1>1, <1>3, <2>1 DEF FileInv, Files!TypeOK
<1>7. StagesOK'
  BY <1>1, <1>2, <1>3, <1>4 DEF FileInv, StagesOK
<1>8. ASSUME NEW v \in Uploads PROVE Holds(v)'
  <2> SUFFICES ASSUME Alone(v)', Unnamed(v)', v \notin hurt', writing[v] \in {"write", "over"}
               PROVE  /\ writing[v] = "write" => Files!Path(v)' \in DOMAIN disk' /\ disk'[Files!Path(v)'] = {}
                      /\ writing[v] = "over" => Files!Path(v)' \in DOMAIN disk' /\ disk'[Files!Path(v)'] = {v}
    BY <1>1 DEF Holds
  <2>1. upload[v].at # "new" /\ Holds(v) /\ v \notin hurt
    BY <1>1 DEF FileInv, StagesOK
  <2>2. Alone(v) /\ Unnamed(v) /\ Files!Path(v)' = Files!Path(v)
    BY <1>4, <2>1, NotBefore
  <2>3. v # u
    BY <1>5, <2>2 DEF Unnamed
  <2>4. Files!Path(v) # Files!Path(u)
    BY <1>5, <2>2, <2>3, OwnPath
  <2> QED BY <1>1, <2>1, <2>2, <2>4 DEF Holds
<1> QED BY <1>6, <1>7, <1>8 DEF FileInv

-----------------------------------------------------------------------------
\* A crash ends the writes under way and keeps names, rows and files.
LEMMA CrashInv == ASSUME Files!StorageAssumption, FileInv, Files!Crash PROVE FileInv'
<1> DEFINE cut == {u \in Uploads : writing[u] \notin {"none", "over"}}
           Ended(u) == IF upload[u].at \in {"buffer", "save"}
                       THEN [upload[u] EXCEPT !.at = "refused"] ELSE upload[u]
           Left(c) == IF delete[c].at = "new" THEN delete[c]
                      ELSE [delete[c] EXCEPT !.at = "unlink", !.files = {}, !.whole = {}]
<1>1. /\ upload' = [u \in Uploads |-> Ended(u)]
      /\ writing' = [u \in Uploads |-> IF u \in cut THEN "over" ELSE writing[u]]
      /\ hurt' = hurt \cup cut
      /\ delete' = [c \in Deletes |-> Left(c)]
      /\ open' = 0 /\ UNCHANGED <<row, disk, dirs>> /\ Files!TypeOK
  BY DEF Files!Crash, FileInv
<1>2. ASSUME NEW u \in Uploads
      PROVE  /\ Ended(u) \in Files!Upload
             /\ upload[u].at # "new" => Ended(u).at # "new"
             /\ Ended(u).at \in {"new", "buffer"} => upload[u].at \in {"new", "buffer"}
             /\ Ended(u).at = "new" => upload[u].at = "new"
             /\ Ended(u).name = upload[u].name /\ Ended(u).ext = upload[u].ext
             /\ Ended(u).moment = upload[u].moment /\ Ended(u).day = upload[u].day
  <2>1. upload[u] \in Files!Upload
    BY <1>1 DEF Files!TypeOK
  <2> QED BY <2>1 DEF Files!Upload
<1>3. ASSUME NEW c \in Deletes
      PROVE  /\ Left(c) \in Files!Delete
             /\ Left(c).ids = delete[c].ids
             /\ Left(c).at = "new" => delete[c].at = "new"
             /\ Left(c).files \subseteq delete[c].files
  <2>1. delete[c] \in Files!Delete
    BY <1>1 DEF Files!TypeOK
  <2> QED BY <2>1 DEF Files!Delete
<1> HIDE DEF Ended, Left
<1>4. NamesKept
  BY <1>1, <1>2, <1>3 DEF NamesKept
<1>5. \A v \in Uploads : Files!Path(v)' = Files!Path(v)
  BY <1>1, <1>2 DEF Files!Path, Files!FilePath
<1>6. cut \in SUBSET Uploads /\ \A u \in Uploads : u \notin cut => writing[u] \in {"none", "over"}
  OBVIOUS
<1>7. \A u \in Uploads : writing[u] = "none" => u \notin cut
  OBVIOUS
<1> HIDE DEF cut
<1>8. Files!TypeOK'
  <2>1. writing' \in [Uploads -> WriteStages] /\ upload' \in [Uploads -> Files!Upload] /\ delete' \in [Deletes -> Files!Delete]
    BY <1>1, <1>2, <1>3 DEF Files!TypeOK, WriteStages
  <2>2. open' \in 0..MaxOpen /\ hurt' \in SUBSET Uploads
    BY <1>1, <1>6 DEF Files!TypeOK, Files!StorageAssumption
  <2> QED BY <1>1, <2>1, <2>2 DEF Files!TypeOK, WriteStages
<1>9. StagesOK'
  <2>1. ASSUME NEW u \in Uploads
        PROVE  /\ upload'[u].at \in {"new", "buffer"} => writing'[u] = "none"
               /\ upload'[u].at = "new" => u \notin row
               /\ writing'[u] # "open"
    BY <1>1, <1>2, <1>6, <1>7 DEF FileInv, StagesOK
  <2>2. ASSUME NEW c \in Deletes
        PROVE  /\ delete'[c].at = "new" => delete'[c].ids = {}
               /\ \A u \in delete'[c].files : u \in delete'[c].ids /\ upload'[u].at # "new"
    <3>1. \A u \in delete'[c].files : u \in Uploads /\ u \in delete[c].ids /\ upload[u].at # "new"
      <4>1. delete[c].files \subseteq Uploads
        BY <1>1 DEF Files!TypeOK, Files!Delete
      <4> QED BY <1>1, <1>3, <4>1 DEF FileInv, StagesOK
    <3> QED BY <1>1, <1>2, <1>3, <3>1 DEF FileInv, StagesOK
  <2> QED BY <1>1, <2>1, <2>2 DEF StagesOK
<1>10. \A v \in Uploads : Holds(v)'
  <2>1. \A u \in Uploads : writing'[u] \in {"write", "over"} => u \in hurt' \/ writing'[u] = writing[u]
    BY <1>1, <1>6
  <2> QED BY <1>1, <1>4, <2>1, FilesSame
<1> QED BY <1>8, <1>9, <1>10 DEF FileInv

LEMMA FileNext == ASSUME Files!StorageAssumption, FileInv, [Files!Next]_Files!vars PROVE FileInv'
<1>1. CASE UNCHANGED Files!vars
  <2>1. UNCHANGED <<upload, writing, row, disk, dirs, open, delete, hurt>>
    BY <1>1 DEF Files!vars
  <2>2. Files!TypeOK' /\ StagesOK'
    BY <2>1 DEF FileInv, Files!TypeOK, StagesOK, Files!Path
  <2>3. \A u \in Uploads : Holds(u)'
    BY <2>1, FilesSame DEF NamesKept
  <2> QED BY <2>2, <2>3 DEF FileInv
<1>2. ASSUME NEW u \in Uploads, Files!NoFile(u) \/ Files!ToBuffer(u) \/ Files!SaveRow(u) \/ Files!Refuse(u)
      PROVE  FileInv'
  BY <1>2, UploadInv, ToBufferInv
<1>3. ASSUME NEW u \in Uploads, NEW name \in Names, NEW ext \in Exts, NEW moment \in Moments,
             NEW day \in Days, Files!SaveFile(u, name, ext, moment, day)
      PROVE  FileInv'
  BY <1>3, SaveFileInv
<1>4. ASSUME NEW u \in Uploads, Files!Stat(u) \/ Files!Mkdir(u) \/ Files!Open(u) \/ Files!Write(u) \/ Files!WriteFails(u)
      PROVE  FileInv'
  BY <1>4, StatInv, OpenInv, WriteInv
<1>5. ASSUME NEW c \in Deletes, NEW ids \in SUBSET Uploads, Files!DeleteRows(c, ids) PROVE FileInv'
  BY <1>5, DeleteRowsInv
<1>6. ASSUME NEW c \in Deletes, Files!FindByIds(c) PROVE FileInv'
  BY <1>6, FindInv
<1>7. ASSUME NEW c \in Deletes, NEW u \in Uploads, Files!DeleteFile(c, u) PROVE FileInv'
  BY <1>7, DeleteFileInv
<1>8. CASE Files!Crash
  BY <1>8, CrashInv
<1> QED BY <1>1, <1>2, <1>3, <1>4, <1>5, <1>6, <1>7, <1>8 DEF Files!Next

LEMMA FileHolds == FileInv => Files!TypeOK /\ Files!RowsHaveFiles
<1> SUFFICES ASSUME FileInv, NEW u \in row, writing[u] = "over", u \notin hurt, Alone(u), Unnamed(u)
             PROVE  Files!Path(u) \in DOMAIN disk /\ disk[Files!Path(u)] = {u}
  BY DEF FileInv, Files!RowsHaveFiles, Alone, Unnamed
<1>1. u \in Uploads
  BY DEF FileInv, Files!TypeOK
<1> QED BY <1>1 DEF FileInv, Holds

-----------------------------------------------------------------------------
(* NetDisk *)

\* The library here and in NetDisk.
LEMMA DiskLibrary ==
  /\ \A S : Disk!Cardinality(S) = Cardinality(S)
  /\ \A S : Disk!Max(S) = CHOOSE x \in S : \A y \in S : x >= y
  /\ \A s : Disk!Last(s) = s[Len(s)] /\ Disk!Front(s) = SubSeq(s, 1, Len(s) - 1)
  /\ \A s, t : Disk!IsStrictPrefix(s, t) <=>
                 Len(s) <= Len(t) /\ SubSeq(s, 1, Len(s)) = SubSeq(t, 1, Len(s)) /\ s # t
<1>1. \A S : Disk!Cardinality(S) = Cardinality(S)
  BY DEF Disk!Cardinality, Cardinality
<1>2. \A S : Disk!Max(S) = CHOOSE x \in S : \A y \in S : x >= y
  BY DEF Disk!Max
<1>3. \A s : Disk!Last(s) = s[Len(s)] /\ Disk!Front(s) = SubSeq(s, 1, Len(s) - 1)
  BY DEF Disk!Last, Disk!Front
<1>4. \A s, t : Disk!IsStrictPrefix(s, t) <=>
                  Len(s) <= Len(t) /\ SubSeq(s, 1, Len(s)) = SubSeq(t, 1, Len(s)) /\ s # t
  BY DEF Disk!IsStrictPrefix, Disk!IsPrefix
<1> QED BY <1>1, <1>2, <1>3, <1>4

\* The first n of a sequence, element by element.
LEMMA FirstIs ==
  ASSUME NEW S, NEW t \in Seq(S), NEW n \in Nat, n <= Len(t)
  PROVE  /\ SubSeq(t, 1, n) \in Seq(S) /\ Len(SubSeq(t, 1, n)) = n
         /\ \A i \in 1..n : SubSeq(t, 1, n)[i] = t[i]
<1>1. Len(t) \in Nat /\ \A i \in 1..n : t[i] \in S
  OBVIOUS
<1>2. /\ SubSeq(t, 1, n) \in Seq(S)
      /\ Len(SubSeq(t, 1, n)) = IF 1 <= n THEN n - 1 + 1 ELSE 0
      /\ \A i \in 1..(n - 1 + 1) : SubSeq(t, 1, n)[i] = t[1 + i - 1]
  BY <1>1, SubSeqProperties
<1> QED BY <1>2

\* Two sequences that agree.
LEMMA Agree ==
  ASSUME NEW S, NEW s \in Seq(S), NEW t \in Seq(S), Len(s) = Len(t), \A i \in 1..Len(s) : s[i] = t[i]
  PROVE  s = t
  BY SeqEqual

LEMMA StrictPrefixIs ==
  ASSUME NEW S, NEW s \in Seq(S), NEW t \in Seq(S)
  PROVE  Disk!IsStrictPrefix(s, t) <=> Len(s) < Len(t) /\ \A i \in 1..Len(s) : t[i] = s[i]
<1>1. /\ Len(s) \in Nat /\ Len(t) \in Nat
      /\ Disk!IsStrictPrefix(s, t) <=>
           Len(s) <= Len(t) /\ SubSeq(s, 1, Len(s)) = SubSeq(t, 1, Len(s)) /\ s # t
  <2>1. Len(s) \in Nat /\ Len(t) \in Nat
    OBVIOUS
  <2>2. Disk!IsStrictPrefix(s, t) <=>
          Len(s) <= Len(t) /\ SubSeq(s, 1, Len(s)) = SubSeq(t, 1, Len(s)) /\ s # t
    BY ZenonT(60), DiskLibrary
  <2> QED BY <2>1, <2>2
<1>2. SubSeq(s, 1, Len(s)) \in Seq(S) /\ Len(SubSeq(s, 1, Len(s))) = Len(s)
      /\ \A i \in 1..Len(s) : SubSeq(s, 1, Len(s))[i] = s[i]
  BY <1>1, FirstIs
<1>3. SubSeq(s, 1, Len(s)) = s
  BY <1>2, Agree
<1>4. ASSUME Len(s) <= Len(t)
      PROVE  /\ SubSeq(t, 1, Len(s)) \in Seq(S) /\ Len(SubSeq(t, 1, Len(s))) = Len(s)
             /\ \A i \in 1..Len(s) : SubSeq(t, 1, Len(s))[i] = t[i]
  BY <1>1, <1>4, FirstIs
<1>5. ASSUME Len(s) <= Len(t), SubSeq(t, 1, Len(s)) = s PROVE \A i \in 1..Len(s) : t[i] = s[i]
  BY <1>4, <1>5
<1>6. ASSUME Len(s) <= Len(t), \A i \in 1..Len(s) : t[i] = s[i] PROVE SubSeq(t, 1, Len(s)) = s
  <2>1. PICK u : u = SubSeq(t, 1, Len(s))
    OBVIOUS
  <2>2. u \in Seq(S) /\ Len(u) = Len(s) /\ \A i \in 1..Len(s) : u[i] = s[i]
    BY <1>4, <1>6, <2>1
  <2>3. u = s
    BY <2>2, Agree
  <2> QED BY <2>1, <2>3
<1>7. ASSUME Len(s) = Len(t), \A i \in 1..Len(s) : t[i] = s[i] PROVE s = t
  BY <1>7, Agree
<1> QED BY <1>1, <1>3, <1>5, <1>6, <1>7

\* What the assumption on the keys says.
LEMMA KeysAre ==
  ASSUME Disk!NetDiskAssumption
  PROVE  /\ Disk!KeyIds = 1..Len(Keys) /\ Len(Keys) \in Nat \ {0}
         /\ \A k \in Disk!KeyIds : /\ Keys[k] \in Seq(Disk!KeyNames)
                                   /\ Len(Keys[k]) \in Nat \ {0}
                                   /\ Keys[k] # <<e>>
         /\ \A k, m \in Disk!KeyIds : Keys[k] = Keys[m] => k = m
<1> USE DEF Disk!NetDiskAssumption
<1>1. Keys \in Seq(Seq(Disk!KeyNames) \ {<<>>, <<e>>}) /\ Keys # <<>>
  OBVIOUS
<1>2. Len(Keys) \in Nat /\ DOMAIN Keys = 1..Len(Keys)
  BY <1>1
<1>3. Len(Keys) # 0
  BY <1>1, EmptySeq
<1>4. ASSUME NEW k \in Disk!KeyIds PROVE Keys[k] \in Seq(Disk!KeyNames) \ {<<>>, <<e>>}
  BY <1>1, <1>2 DEF Disk!KeyIds
<1>5. ASSUME NEW k \in Disk!KeyIds PROVE Len(Keys[k]) \in Nat \ {0}
  BY <1>4, EmptySeq
<1> QED BY <1>2, <1>3, <1>4, <1>5 DEF Disk!KeyIds

\* A directory is a sequence of names, and the root is one.
LEMMA DirectoryIs ==
  ASSUME Disk!NetDiskAssumption
  PROVE  /\ \A p \in Disk!Directories : p \in Seq(Disk!KeyNames) /\ Len(p) \in Nat
         /\ \A k \in Disk!KeyIds, n \in Nat : n < Len(Keys[k]) => SubSeq(Keys[k], 1, n) \in Disk!Directories
         /\ <<>> \in Disk!Directories
<1>1. ASSUME NEW k \in Disk!KeyIds, NEW n \in Nat, n < Len(Keys[k])
      PROVE  /\ SubSeq(Keys[k], 1, n) \in Seq(Disk!KeyNames)
             /\ SubSeq(Keys[k], 1, n) \in Disk!Directories
  <2>1. Keys[k] \in Seq(Disk!KeyNames) /\ Len(Keys[k]) \in Nat \ {0}
    BY KeysAre
  <2>2. SubSeq(Keys[k], 1, n) \in Seq(Disk!KeyNames)
    BY <1>1, <2>1, FirstIs
  <2>3. n \in 0..Len(Keys[k]) - 1
    BY <1>1, <2>1
  <2> QED BY <2>2, <2>3 DEF Disk!Directories
<1>2. ASSUME NEW p \in Disk!Directories PROVE p \in Seq(Disk!KeyNames)
  <2>1. PICK k \in Disk!KeyIds : p \in {SubSeq(Keys[k], 1, n) : n \in 0..Len(Keys[k]) - 1}
    BY DEF Disk!Directories
  <2>2. PICK n \in 0..Len(Keys[k]) - 1 : p = SubSeq(Keys[k], 1, n)
    BY <2>1
  <2>3. n \in Nat /\ n < Len(Keys[k])
    BY KeysAre
  <2> QED BY <1>1, <2>2, <2>3
<1>3. <<>> \in Disk!Directories
  <2>1. 1 \in Disk!KeyIds /\ 0 < Len(Keys[1])
    BY KeysAre
  <2>2. SubSeq(Keys[1], 1, 0) = <<>>
    BY SubSeqEmpty
  <2> QED BY <1>1, <2>1, <2>2
<1> QED BY <1>1, <1>2, <1>3

LEMMA UnderIs ==
  ASSUME Disk!NetDiskAssumption, NEW k \in Disk!KeyIds, NEW p \in Seq(Disk!KeyNames)
  PROVE  Disk!Under(k, p) <=> Len(p) < Len(Keys[k]) /\ \A i \in 1..Len(p) : Keys[k][i] = p[i]
<1>1. Keys[k] \in Seq(Disk!KeyNames)
  BY KeysAre
<1>2. Disk!Under(k, p) <=> Disk!IsStrictPrefix(p, Keys[k])
  BY DEF Disk!Under
<1> QED BY <1>1, <1>2, StrictPrefixIs

\* The last of some keys.
LEMMA MaxIs ==
  ASSUME Disk!NetDiskAssumption, NEW S \in SUBSET Disk!KeyIds, S # {}
  PROVE  Disk!Max(S) \in S /\ \A k \in S : k <= Disk!Max(S)
<1> DEFINE n == Len(Keys)
           T == {n - k : k \in S}
           less == {ss \in Nat \X Nat : ss[1] < ss[2]}
<1>1. n \in Nat /\ \A k \in S : k \in 1..n
  BY KeysAre
<1>2. T \subseteq Nat /\ T # {}
  BY <1>1
<1>3. IsWellFoundedOn(less, Nat)
  BY NatLessThanWellFounded DEF OpToRel
<1>4. PICK x \in T : \A y \in T : ~ (<<y, x>> \in less)
  <2> HIDE DEF less, T
  <2> QED BY <1>2, <1>3, WFMin
<1>5. ASSUME NEW y \in T PROVE x <= y
  <2>1. x \in Nat /\ y \in Nat /\ <<y, x>> \notin less
    BY <1>2, <1>4
  <2>2. <<y, x>> \in Nat \X Nat /\ <<y, x>>[1] = y /\ <<y, x>>[2] = x
    BY <2>1
  <2>3. ~ (y < x)
    BY <2>1, <2>2
  <2> QED BY <2>1, <2>3
<1>6. PICK m \in S : x = n - m
  BY <1>4
<1>7. \A k \in S : m >= k /\ k \in Nat
  <2> SUFFICES ASSUME NEW k \in S PROVE m >= k /\ k \in Nat
    OBVIOUS
  <2>1. x <= n - k
    BY <1>5
  <2> HIDE DEF n
  <2> QED BY <1>1, <1>6, <2>1
<1>8. PICK z : z = Disk!Max(S)
  OBVIOUS
<1>9. z \in S /\ \A y \in S : z >= y
  BY <1>7, <1>8, DiskLibrary
<1> QED BY <1>7, <1>8, <1>9

\* The directory just below p that a key is in.
LEMMA CommonIs ==
  ASSUME Disk!NetDiskAssumption, NEW p \in Disk!Directories, NEW k \in Disk!KeyIds, Disk!Under(k, p),
         Len(Keys[k]) > Len(p) + 1
  PROVE  LET x == SubSeq(Keys[k], 1, Len(p) + 1)
         IN  /\ x \in Disk!Directories /\ Disk!Under(k, x)
             /\ \A j \in Disk!KeyIds : Disk!Under(j, x) =>
                  /\ Disk!Under(j, p) /\ Len(Keys[j]) > Len(p) + 1
                  /\ SubSeq(Keys[j], 1, Len(p) + 1) = x
<1>1. PICK x : x = SubSeq(Keys[k], 1, Len(p) + 1)
  OBVIOUS
<1>2. /\ Keys[k] \in Seq(Disk!KeyNames) /\ p \in Seq(Disk!KeyNames) /\ Len(p) \in Nat
      /\ Len(Keys[k]) \in Nat /\ Len(p) + 1 \in Nat /\ Len(p) + 1 < Len(Keys[k])
  BY KeysAre, DirectoryIs
<1>3. /\ x \in Seq(Disk!KeyNames) /\ Len(x) = Len(p) + 1 /\ \A i \in 1..Len(p) + 1 : x[i] = Keys[k][i]
  BY <1>1, <1>2, FirstIs
<1>4. x \in Disk!Directories
  BY <1>1, <1>2, DirectoryIs
<1>5. Disk!Under(k, x)
  BY <1>2, <1>3, UnderIs
<1>6. \A i \in 1..Len(p) : x[i] = p[i]
  <2>1. \A i \in 1..Len(p) : Keys[k][i] = p[i]
    BY <1>2, UnderIs
  <2>2. \A i \in 1..Len(p) : i \in 1..Len(p) + 1
    BY <1>2
  <2> QED BY <1>3, <2>1, <2>2
<1>7. ASSUME NEW j \in Disk!KeyIds, Disk!Under(j, x)
      PROVE  /\ Disk!Under(j, p) /\ Len(Keys[j]) > Len(p) + 1
             /\ SubSeq(Keys[j], 1, Len(p) + 1) = x
  <2>1. Keys[j] \in Seq(Disk!KeyNames) /\ Len(Keys[j]) \in Nat
    BY KeysAre
  <2>2. Len(x) < Len(Keys[j]) /\ \A i \in 1..Len(x) : Keys[j][i] = x[i]
    BY <1>3, <1>7, UnderIs
  <2>3. Len(Keys[j]) > Len(p) + 1 /\ Len(p) < Len(Keys[j])
    BY <1>2, <1>3, <2>1, <2>2
  <2>4. \A i \in 1..Len(p) : Keys[j][i] = p[i]
    <3>1. \A i \in 1..Len(p) : i \in 1..Len(x)
      BY <1>2, <1>3
    <3> QED BY <1>6, <2>2, <3>1
  <2>5. Disk!Under(j, p)
    BY <1>2, <2>3, <2>4, UnderIs
  <2>6. PICK y : y = SubSeq(Keys[j], 1, Len(p) + 1)
    OBVIOUS
  <2>7. y \in Seq(Disk!KeyNames) /\ Len(y) = Len(p) + 1 /\ \A i \in 1..Len(p) + 1 : y[i] = Keys[j][i]
    BY <1>2, <2>1, <2>3, <2>6, FirstIs
  <2>8. y = x
    BY <1>3, <2>2, <2>7, Agree
  <2> QED BY <2>3, <2>5, <2>6, <2>8
<1> QED BY <1>1, <1>4, <1>5, <1>7

\* An entry stands for a run of keys, up to its last.
LEMMA LastKeyIs ==
  ASSUME Disk!NetDiskAssumption, NEW p \in Disk!Directories, NEW dl \in BOOLEAN, NEW k \in Disk!KeyIds,
         Disk!Under(k, p)
  PROVE  LET x == Disk!Listed(k, p, dl)
         IN  /\ Disk!LastKey(x) \in Disk!KeyIds /\ k <= Disk!LastKey(x)
             /\ \A j \in Disk!KeyIds : k <= j /\ j <= Disk!LastKey(x) =>
                  Disk!Under(j, p) /\ Disk!Listed(j, p, dl) = x
<1>1. PICK x : x = Disk!Listed(k, p, dl)
  OBVIOUS
<1>2. Disk!KeyIds = 1..Len(Keys) /\ Len(Keys) \in Nat
  BY KeysAre
<1>3. CASE dl /\ Len(Keys[k]) > Len(p) + 1
  <2>1. PICK y : y = SubSeq(Keys[k], 1, Len(p) + 1)
    OBVIOUS
  <2>2. x = [type |-> "prefix", key |-> y]
    BY <1>1, <1>3, <2>1 DEF Disk!Listed, Disk!Common
  <2>3. /\ y \in Disk!Directories /\ Disk!Under(k, y)
        /\ \A j \in Disk!KeyIds : Disk!Under(j, y) =>
             /\ Disk!Under(j, p) /\ Len(Keys[j]) > Len(p) + 1
             /\ SubSeq(Keys[j], 1, Len(p) + 1) = y
    BY <1>3, <2>1, CommonIs
  <2>4. PICK S \in SUBSET Disk!KeyIds : S = {j \in Disk!KeyIds : Disk!Under(j, y)}
    OBVIOUS
  <2>5. Disk!LastKey(x) = Disk!Max(S)
    BY <2>2, <2>4 DEF Disk!LastKey, Disk!Under
  <2>6. Disk!LastKey(x) \in S /\ k <= Disk!LastKey(x)
    BY <2>3, <2>4, <2>5, MaxIs
  <2>7. ASSUME NEW j \in Disk!KeyIds, k <= j, j <= Disk!LastKey(x)
        PROVE  Disk!Under(j, p) /\ Disk!Listed(j, p, dl) = x
    <3>1. PICK m \in Disk!KeyIds : m = Disk!LastKey(x) /\ Disk!Under(m, y)
      BY <2>4, <2>6
    <3>2. j \in k..m
      BY <1>2, <2>7, <3>1
    <3>3. Disk!Under(j, y)
      BY <2>3, <3>1, <3>2 DEF Disk!NetDiskAssumption
    <3> QED BY <1>3, <2>2, <2>3, <3>3 DEF Disk!Listed, Disk!Common
  <2> QED BY <1>1, <2>4, <2>6, <2>7
<1>4. CASE ~ (dl /\ Len(Keys[k]) > Len(p) + 1)
  <2>1. x = [type |-> "item", key |-> Keys[k]]
    BY <1>1, <1>4 DEF Disk!Listed, Disk!Item
  <2>2. PICK S \in SUBSET Disk!KeyIds : S = {j \in Disk!KeyIds : Keys[j] = Keys[k]}
    OBVIOUS
  <2>3. S = {k}
    BY <2>2, KeysAre
  <2>4. Disk!LastKey(x) = Disk!Max(S)
    BY <2>1, <2>2 DEF Disk!LastKey
  <2>5. Disk!LastKey(x) = k
    BY <2>3, <2>4, MaxIs
  <2>6. \A j \in Disk!KeyIds : k <= j /\ j <= k => j = k
    BY <1>2
  <2> QED BY <1>1, <1>2, <2>5, <2>6
<1> QED BY <1>3, <1>4

\* Two entries with the same last key are the same.
LEMMA LastKeyApart ==
  ASSUME Disk!NetDiskAssumption, NEW p \in Disk!Directories, NEW dl \in BOOLEAN,
         NEW j \in Disk!KeyIds, NEW k \in Disk!KeyIds, Disk!Under(j, p), Disk!Under(k, p),
         Disk!LastKey(Disk!Listed(j, p, dl)) = Disk!LastKey(Disk!Listed(k, p, dl))
  PROVE  Disk!Listed(j, p, dl) = Disk!Listed(k, p, dl)
<1>1. PICK m \in Disk!KeyIds : m = Disk!LastKey(Disk!Listed(j, p, dl)) /\ j <= m /\ k <= m /\ m <= m
  BY LastKeyIs, KeysAre
<1>2. Disk!Listed(m, p, dl) = Disk!Listed(j, p, dl) /\ Disk!Listed(m, p, dl) = Disk!Listed(k, p, dl)
  BY <1>1, LastKeyIs
<1> QED BY <1>2

-----------------------------------------------------------------------------
\* A reply of listPrefix has the first entries after the marker: when it has a
\* marker, all that begin no later than where it points.
LEMMA ListPrefixIs ==
  ASSUME Disk!NetDiskAssumption, Disk!TypeOK, NEW p \in Disk!Directories, NEW dl \in BOOLEAN,
         NEW marker \in Disk!KeyIds \cup {None}
  PROVE  LET r == Disk!ListPrefix(p, dl, Limit, marker)
             K == {k \in bucket : k > (IF marker = None THEN 0 ELSE marker) /\ Disk!Under(k, p)}
         IN  /\ \A x \in r.entries : \E k \in K : x = Disk!Listed(k, p, dl)
             /\ r.marker = None => \A k \in K : Disk!Listed(k, p, dl) \in r.entries
             /\ r.marker # None =>
                  /\ r.marker \in Disk!KeyIds
                  /\ r.marker > (IF marker = None THEN 0 ELSE marker)
                  /\ \A x \in r.entries : Disk!LastKey(x) <= r.marker
                  /\ \A k \in K : k <= r.marker => Disk!Listed(k, p, dl) \in r.entries
<1> DEFINE from == IF marker = None THEN 0 ELSE marker
<1>1. PICK K \in SUBSET Disk!KeyIds : K = {k \in bucket : k > from /\ Disk!Under(k, p)}
  BY DEF Disk!TypeOK
<1>2. PICK listed : listed = {Disk!Listed(k, p, dl) : k \in K}
  OBVIOUS
<1> DEFINE upTo(x) == {y \in listed : Disk!LastKey(y) <= Disk!LastKey(x)}
<1>3. PICK page1 \in SUBSET listed : page1 = {x \in listed : Cardinality(upTo(x)) <= Limit}
  OBVIOUS
<1>4. PICK r : r = Disk!ListPrefix(p, dl, Limit, marker)
  OBVIOUS
<1>5. r = [entries |-> page1,
           marker |-> IF page1 = listed THEN None ELSE Disk!Max({Disk!LastKey(x) : x \in page1})]
  <2>1. {Disk!Listed(k, p, dl) : k \in {j \in bucket : j > from /\ Disk!Under(j, p)}} = listed
    BY <1>1, <1>2
  <2>2. \A x : Disk!Cardinality(upTo(x)) = Cardinality(upTo(x))
    BY DiskLibrary
  <2>3. {x \in listed : Disk!Cardinality(upTo(x)) <= Limit} = page1
    BY <1>3, <2>2
  <2> QED BY <1>4, <2>1, <2>3 DEF Disk!ListPrefix
<1> HIDE DEF from
<1>6. \A k \in K : Disk!Under(k, p)
  BY <1>1
<1>7. /\ \A x \in listed : Disk!LastKey(x) \in Disk!KeyIds
      /\ \A x, y \in listed : Disk!LastKey(x) = Disk!LastKey(y) => x = y
  BY <1>2, <1>6, LastKeyIs, LastKeyApart
<1>8. Disk!KeyIds = 1..Len(Keys) /\ Len(Keys) \in Nat /\ Limit \in Nat \ {0} /\ None \notin Nat
  BY KeysAre DEF Disk!NetDiskAssumption
<1>9. IsFiniteSet(listed)
  <2>1. IsFiniteSet(Disk!KeyIds)
    BY <1>8, FS_Interval
  <2>2. IsFiniteSet(K)
    BY <2>1, FS_Subset
  <2>3. [k \in K |-> Disk!Listed(k, p, dl)] \in Surjection(K, listed)
    BY <1>2 DEF Surjection
  <2> QED BY <2>2, <2>3, FS_Surjection
<1>10. ASSUME NEW x \in listed PROVE IsFiniteSet(upTo(x)) /\ upTo(x) \subseteq listed
  BY <1>9, FS_Subset
<1>11. ASSUME NEW x \in page1, NEW y \in listed, Disk!LastKey(y) <= Disk!LastKey(x) PROVE y \in page1
  <2>1. upTo(y) \subseteq upTo(x)
    <3> SUFFICES ASSUME NEW z \in upTo(y) PROVE z \in upTo(x)
      OBVIOUS
    <3>1. Disk!LastKey(z) \in Nat /\ Disk!LastKey(y) \in Nat /\ Disk!LastKey(x) \in Nat
      BY <1>7, <1>8
    <3> QED BY <1>11, <3>1
  <2>2. PICK U, V : U = upTo(y) /\ V = upTo(x)
    OBVIOUS
  <2>3. IsFiniteSet(U) /\ IsFiniteSet(V) /\ U \subseteq V
    BY <1>10, <2>1, <2>2
  <2>4. Cardinality(U) <= Cardinality(V) /\ Cardinality(U) \in Nat /\ Cardinality(V) \in Nat
    BY <2>3, FS_Subset, FS_CardinalityType
  <2>5. Cardinality(V) <= Limit
    BY <1>3, <2>2
  <2>6. Cardinality(U) <= Limit
    BY <1>8, <2>4, <2>5
  <2> QED BY <1>3, <2>2, <2>6
<1>12. ASSUME listed # {} PROVE page1 # {}
  <2>1. PICK x \in listed : \A y \in listed : Disk!LastKey(x) <= Disk!LastKey(y)
    <3> DEFINE T == {Disk!LastKey(y) : y \in listed}
               less == {ss \in Nat \X Nat : ss[1] < ss[2]}
    <3>1. T \subseteq Nat /\ T # {}
      BY <1>7, <1>8, <1>12
    <3>2. IsWellFoundedOn(less, Nat)
      BY NatLessThanWellFounded DEF OpToRel
    <3>3. PICK n \in T : \A m \in T : ~ (<<m, n>> \in less)
      <4> HIDE DEF less, T
      <4> QED BY <3>1, <3>2, WFMin
    <3>4. ASSUME NEW m \in T PROVE n <= m
      <4>1. n \in Nat /\ m \in Nat /\ <<m, n>> \notin less
        BY <3>1, <3>3
      <4>2. <<m, n>> \in Nat \X Nat /\ <<m, n>>[1] = m /\ <<m, n>>[2] = n
        BY <4>1
      <4>3. ~ (m < n)
        BY <4>1, <4>2
      <4> QED BY <4>1, <4>3
    <3>5. PICK x \in listed : n = Disk!LastKey(x)
      BY <3>3
    <3>6. \A y \in listed : Disk!LastKey(y) \in T
      OBVIOUS
    <3> HIDE DEF T
    <3> QED BY <3>4, <3>5, <3>6
  <2>2. upTo(x) = {x}
    <3>1. ASSUME NEW y \in listed, Disk!LastKey(y) <= Disk!LastKey(x) PROVE y = x
      <4>1. Disk!LastKey(x) \in Nat /\ Disk!LastKey(y) \in Nat /\ Disk!LastKey(x) <= Disk!LastKey(y)
        BY <1>7, <1>8, <2>1
      <4>2. Disk!LastKey(x) = Disk!LastKey(y)
        BY <3>1, <4>1
      <4> QED BY <1>7, <4>2
    <3>2. Disk!LastKey(x) <= Disk!LastKey(x)
      BY <1>7, <1>8
    <3> QED BY <3>1, <3>2
  <2>3. Cardinality(upTo(x)) = 1
    BY <2>2, FS_Singleton
  <2> HIDE DEF upTo
  <2> QED BY <1>3, <1>8, <2>3
<1> HIDE DEF upTo
<1>13. \A x \in r.entries : \E k \in K : x = Disk!Listed(k, p, dl)
  BY <1>2, <1>3, <1>5
<1>14. CASE page1 = listed
  <2>1. r.marker = None /\ r.entries = listed
    BY <1>5, <1>14
  <2> QED BY <1>1, <1>2, <1>4, <1>13, <2>1 DEF from
<1>15. CASE page1 # listed
  <2>1. PICK M \in SUBSET Disk!KeyIds : M = {Disk!LastKey(x) : x \in page1} /\ M # {}
    <3>1. page1 # {}
      BY <1>3, <1>12, <1>15
    <3> DEFINE N == {Disk!LastKey(x) : x \in page1}
    <3>2. N \in SUBSET Disk!KeyIds
      BY <1>3, <1>7
    <3>3. N # {}
      BY <3>1
    <3> WITNESS N \in SUBSET Disk!KeyIds
    <3> QED BY <3>3
  <2>2. r.marker = Disk!Max(M) /\ r.entries = page1
    BY <1>5, <1>15, <2>1
  <2>3. r.marker \in M /\ \A m \in M : m <= r.marker
    BY <2>1, <2>2, MaxIs
  <2>4. r.marker \in Disk!KeyIds /\ r.marker # None
    BY <1>8, <2>1, <2>3
  <2>5. \A x \in r.entries : Disk!LastKey(x) <= r.marker
    BY <2>1, <2>2, <2>3
  <2>6. ASSUME NEW k \in K, k <= r.marker PROVE Disk!Listed(k, p, dl) \in r.entries
    <3>1. PICK x \in page1 : r.marker = Disk!LastKey(x)
      BY <2>1, <2>3
    <3>2. PICK y \in listed : y = Disk!Listed(k, p, dl)
      BY <1>2
    <3>3. CASE Disk!LastKey(y) <= r.marker
      BY <1>11, <2>2, <3>1, <3>2, <3>3
    <3>4. CASE ~ (Disk!LastKey(y) <= r.marker)
      <4>1. r.marker <= Disk!LastKey(y)
        BY <1>7, <1>8, <2>4, <3>4
      <4>2. Disk!Listed(r.marker, p, dl) = y
        BY <1>6, <2>4, <2>6, <3>2, <4>1, LastKeyIs
      <4>3. PICK j \in K : x = Disk!Listed(j, p, dl)
        BY <1>2, <1>3
      <4>4. j <= r.marker /\ r.marker <= Disk!LastKey(x)
        BY <1>6, <1>8, <2>4, <3>1, <4>3, LastKeyIs
      <4>5. Disk!Listed(r.marker, p, dl) = x
        BY <1>6, <2>4, <4>3, <4>4, LastKeyIs
      <4> QED BY <2>2, <3>2, <4>2, <4>5
    <3> QED BY <3>3, <3>4
  <2>7. r.marker > from
    <3>1. PICK x \in page1 : r.marker = Disk!LastKey(x)
      BY <2>1, <2>3
    <3>2. PICK k \in K : x = Disk!Listed(k, p, dl)
      BY <1>2, <1>3
    <3>3. k > from /\ k <= r.marker
      BY <1>1, <1>6, <3>1, <3>2, LastKeyIs
    <3>4. from \in Nat /\ k \in Nat /\ r.marker \in Nat
      BY <1>8, <2>4 DEF from
    <3> QED BY <3>3, <3>4
  <2> QED BY <1>1, <1>4, <1>13, <2>4, <2>5, <2>6, <2>7 DEF from
<1> QED BY <1>14, <1>15

-----------------------------------------------------------------------------
\* What a client walks through: the prefix it asks for, the keys below it, and what
\* it is shown of the entry a key is in.
From(path, skey) == IF Disk!Searching(skey) THEN <<>> ELSE path
Below(k, path, skey) == Disk!Under(k, From(path, skey))
EntryOf(k, path, skey) == Disk!Listed(k, From(path, skey), ~ Disk!Searching(skey))
View(x, path, skey) == IF Disk!Searching(skey) THEN Disk!Found(x, skey) ELSE Disk!Shown(x, path)

\* A sequence is its last element after the others.
LEMMA FrontLast ==
  ASSUME NEW S, NEW s \in Seq(S), NEW t \in Seq(S), Len(s) # 0, Len(t) # 0,
         Disk!Front(s) = Disk!Front(t), Disk!Last(s) = Disk!Last(t)
  PROVE  s = t
<1>1. /\ Len(s) \in Nat /\ Len(t) \in Nat
      /\ SubSeq(s, 1, Len(s) - 1) = SubSeq(t, 1, Len(t) - 1) /\ s[Len(s)] = t[Len(t)]
  <2>1. Disk!Front(s) = SubSeq(s, 1, Len(s) - 1) /\ Disk!Last(s) = s[Len(s)]
    BY ZenonT(60), DiskLibrary
  <2>2. Disk!Front(t) = SubSeq(t, 1, Len(t) - 1) /\ Disk!Last(t) = t[Len(t)]
    BY ZenonT(60), DiskLibrary
  <2>3. Len(s) \in Nat /\ Len(t) \in Nat
    OBVIOUS
  <2> QED BY ZenonT(60), <2>1, <2>2, <2>3
<1>2. PICK u, v : u = SubSeq(s, 1, Len(s) - 1) /\ v = SubSeq(t, 1, Len(t) - 1)
  OBVIOUS
<1>3. Len(s) - 1 \in Nat /\ Len(s) - 1 <= Len(s) /\ Len(t) - 1 \in Nat /\ Len(t) - 1 <= Len(t)
  BY <1>1
<1>4. /\ Len(u) = Len(s) - 1 /\ \A i \in 1..(Len(s) - 1) : u[i] = s[i]
      /\ Len(v) = Len(t) - 1 /\ \A i \in 1..(Len(t) - 1) : v[i] = t[i]
  BY <1>2, <1>3, FirstIs
<1>5. Len(s) = Len(t) /\ \A i \in 1..(Len(s) - 1) : s[i] = t[i]
  BY <1>1, <1>2, <1>4
<1>6. \A i \in 1..Len(s) : i \in 1..(Len(s) - 1) \/ i = Len(s)
  BY <1>1
<1>7. \A i \in 1..Len(s) : s[i] = t[i]
  BY <1>1, <1>5, <1>6
<1> QED BY <1>5, <1>7, Agree

\* Two entries of a directory are not shown as one, nor two that a search finds.
LEMMA ShownApart ==
  ASSUME Disk!NetDiskAssumption, NEW p \in Disk!Directories, NEW j \in Disk!KeyIds, NEW k \in Disk!KeyIds,
         Disk!Under(j, p), Disk!Under(k, p),
         Disk!Shown(Disk!Listed(j, p, TRUE), p) \cap Disk!Shown(Disk!Listed(k, p, TRUE), p) # {}
  PROVE  Disk!Listed(j, p, TRUE) = Disk!Listed(k, p, TRUE)
<1> DEFINE part1(i) == IF Len(Keys[i]) > Len(p) + 1 THEN SubSeq(Keys[i], 1, Len(p) + 1) ELSE Keys[i]
           kind(i) == IF Len(Keys[i]) > Len(p) + 1 THEN "prefix" ELSE "item"
<1>1. \A i \in {j, k} : Disk!Listed(i, p, TRUE) = [type |-> kind(i), key |-> part1(i)]
  BY DEF Disk!Listed, Disk!Common, Disk!Item
<1>2. ASSUME NEW i \in {j, k}
      PROVE  /\ part1(i) \in Seq(Disk!KeyNames) /\ Len(part1(i)) = Len(p) + 1
             /\ \A n \in 1..Len(p) : part1(i)[n] = p[n]
  <2>1. /\ p \in Seq(Disk!KeyNames) /\ Len(p) \in Nat
        /\ Keys[i] \in Seq(Disk!KeyNames) /\ Len(Keys[i]) \in Nat
    BY DirectoryIs, KeysAre
  <2>2. Len(p) < Len(Keys[i]) /\ \A n \in 1..Len(p) : Keys[i][n] = p[n]
    BY <2>1, UnderIs
  <2>3. CASE Len(Keys[i]) > Len(p) + 1
    <3>1. PICK x : x = SubSeq(Keys[i], 1, Len(p) + 1)
      OBVIOUS
    <3>2. Len(p) + 1 \in Nat /\ Len(p) + 1 <= Len(Keys[i])
      BY <2>1, <2>3
    <3>3. x \in Seq(Disk!KeyNames) /\ Len(x) = Len(p) + 1 /\ \A n \in 1..Len(p) + 1 : x[n] = Keys[i][n]
      BY <2>1, <3>1, <3>2, FirstIs
    <3>4. \A n \in 1..Len(p) : n \in 1..Len(p) + 1
      BY <2>1
    <3> QED BY <2>2, <2>3, <3>1, <3>3, <3>4
  <2>4. CASE ~ (Len(Keys[i]) > Len(p) + 1)
    <3>1. Len(Keys[i]) = Len(p) + 1
      BY <2>1, <2>2, <2>4
    <3> QED BY <2>1, <2>2, <2>4, <3>1
  <2> QED BY <2>3, <2>4
<1> HIDE DEF part1, kind
<1>3. PICK x, y : /\ x = [type |-> kind(j), key |-> part1(j)] /\ y = [type |-> kind(k), key |-> part1(k)]
                  /\ Disk!Shown(x, p) \cap Disk!Shown(y, p) # {}
  BY <1>1
<1>4. kind(j) = kind(k) /\ Disk!Last(part1(j)) = Disk!Last(part1(k))
  <2>1. kind(j) \in {"prefix", "item"} /\ kind(k) \in {"prefix", "item"}
    BY DEF kind
  <2> DEFINE shown(t, z) == [type |-> IF t = "prefix" THEN "dir" ELSE "file", name |-> z, belongTo |-> p]
  <2>2. /\ Disk!Shown(x, p) \subseteq {shown(kind(j), Disk!Last(part1(j)))}
        /\ Disk!Shown(y, p) \subseteq {shown(kind(k), Disk!Last(part1(k)))}
    BY <1>3, <2>1 DEF Disk!Shown, Disk!Entry, Disk!Base
  <2>3. shown(kind(j), Disk!Last(part1(j))) = shown(kind(k), Disk!Last(part1(k)))
    <3> HIDE DEF shown
    <3> QED BY <1>3, <2>2
  <2> QED BY <2>1, <2>3
<1>5. part1(j) = part1(k)
  <2>1. Len(p) \in Nat /\ part1(j)[Len(p) + 1] = part1(k)[Len(p) + 1]
    BY <1>2, <1>4, DirectoryIs, DiskLibrary
  <2>2. \A n \in 1..(Len(p) + 1) : n \in 1..Len(p) \/ n = Len(p) + 1
    BY <2>1
  <2>3. \A n \in 1..(Len(p) + 1) : part1(j)[n] = part1(k)[n]
    BY <1>2, <2>1, <2>2
  <2> QED BY <1>2, <2>3, Agree
<1> QED BY <1>1, <1>4, <1>5

LEMMA FoundApart ==
  ASSUME Disk!NetDiskAssumption, NEW j \in Disk!KeyIds, NEW k \in Disk!KeyIds, NEW skey,
         Disk!Found(Disk!Item(j), skey) \cap Disk!Found(Disk!Item(k), skey) # {}
  PROVE  Keys[j] = Keys[k]
<1> DEFINE s == Keys[j]
           t == Keys[k]
           dir(u) == [type |-> "dir", name |-> Disk!Last(Disk!Front(u)), belongTo |-> Disk!Front(Disk!Front(u))]
           file(u) == [type |-> "file", name |-> Disk!Last(u), belongTo |-> Disk!Front(u)]
<1>1. \A i \in {j, k} : \/ Disk!Found(Disk!Item(i), skey) = {dir(Keys[i])} /\ Disk!Last(Keys[i]) = e
                        \/ Disk!Found(Disk!Item(i), skey) \subseteq {file(Keys[i])}
  BY DEF Disk!Found, Disk!Item, Disk!Entry, Disk!Base, Disk!Parent
<1>2. /\ s \in Seq(Disk!KeyNames) /\ Len(s) \in Nat \ {0} /\ s # <<e>>
      /\ t \in Seq(Disk!KeyNames) /\ Len(t) \in Nat \ {0} /\ t # <<e>>
  BY KeysAre
<1> HIDE DEF s, t
<1>3. CASE file(s) = file(t)
  <2>1. Disk!Front(s) = Disk!Front(t) /\ Disk!Last(s) = Disk!Last(t)
    BY <1>3
  <2> QED BY <1>2, <2>1, FrontLast DEF s, t
<1>4. CASE dir(s) = dir(t) /\ Disk!Last(s) = e /\ Disk!Last(t) = e
  <2>1. ASSUME NEW u \in Seq(Disk!KeyNames), Len(u) \in Nat \ {0}, u # <<e>>, Disk!Last(u) = e
        PROVE  Disk!Front(u) \in Seq(Disk!KeyNames) /\ Len(Disk!Front(u)) # 0
    <3>1. u[Len(u)] = e /\ Disk!Front(u) = SubSeq(u, 1, Len(u) - 1)
      BY <2>1, DiskLibrary
    <3>2. Len(u) # 1
      BY <2>1, <3>1
    <3>3. Len(u) - 1 \in Nat /\ Len(u) - 1 <= Len(u) /\ Len(u) - 1 # 0
      BY <2>1, <3>2
    <3> QED BY <3>1, <3>3, FirstIs
  <2>2. /\ Disk!Last(Disk!Front(s)) = Disk!Last(Disk!Front(t))
        /\ Disk!Front(Disk!Front(s)) = Disk!Front(Disk!Front(t))
    BY <1>4
  <2>3. Disk!Front(s) = Disk!Front(t)
    BY <1>2, <1>4, <2>1, <2>2, FrontLast
  <2> QED BY <1>2, <1>4, <2>3, FrontLast DEF s, t
<1>5. dir(s) # file(t) /\ file(s) # dir(t)
  OBVIOUS
<1> HIDE DEF dir, file
<1> QED BY <1>1, <1>3, <1>4, <1>5 DEF s, t

LEMMA FromIs ==
  ASSUME Disk!NetDiskAssumption, NEW path \in Disk!Directories, NEW skey
  PROVE  From(path, skey) \in Disk!Directories /\ (~ Disk!Searching(skey)) \in BOOLEAN
  BY DirectoryIs DEF From, Disk!Searching

\* Two entries of a walk are not shown as one.
LEMMA ViewApart ==
  ASSUME Disk!NetDiskAssumption, NEW path \in Disk!Directories, NEW skey,
         NEW j \in Disk!KeyIds, NEW k \in Disk!KeyIds, Below(j, path, skey), Below(k, path, skey),
         View(EntryOf(j, path, skey), path, skey) \cap View(EntryOf(k, path, skey), path, skey) # {}
  PROVE  EntryOf(j, path, skey) = EntryOf(k, path, skey)
<1>1. CASE Disk!Searching(skey)
  <2>1. \A i \in {j, k} : EntryOf(i, path, skey) = Disk!Item(i)
    BY <1>1 DEF EntryOf, Disk!Listed
  <2>2. Keys[j] = Keys[k]
    BY <1>1, <2>1, FoundApart DEF View
  <2> QED BY <2>1, <2>2 DEF Disk!Item
<1>2. CASE ~ Disk!Searching(skey)
  <2>1. /\ Disk!Under(j, path) /\ Disk!Under(k, path)
        /\ EntryOf(j, path, skey) = Disk!Listed(j, path, TRUE)
        /\ EntryOf(k, path, skey) = Disk!Listed(k, path, TRUE)
    BY <1>2 DEF EntryOf, Below, From
  <2>2. Disk!Shown(EntryOf(j, path, skey), path) \cap Disk!Shown(EntryOf(k, path, skey), path) # {}
    BY <1>2 DEF View
  <2> QED BY <2>1, <2>2, ShownApart
<1> QED BY <1>1, <1>2

\* All there is of some keys is what is shown of them.
LEMMA ContentIs ==
  ASSUME Disk!NetDiskAssumption, NEW path \in Disk!Directories, NEW skey, NEW S \in SUBSET Disk!KeyIds
  PROVE  \A x : x \in Disk!Content(S, path, skey) <=>
                  \E k \in S : Below(k, path, skey) /\ x \in View(EntryOf(k, path, skey), path, skey)
<1>1. CASE Disk!Searching(skey)
  <2>1. ASSUME NEW k \in S PROVE Below(k, path, skey)
    <3>1. PICK p : p = <<>>
      OBVIOUS
    <3>2. p \in Seq(Disk!KeyNames) /\ Len(p) = 0
      BY <3>1
    <3>3. Len(p) < Len(Keys[k]) /\ 1..Len(p) = {}
      BY <3>2, KeysAre
    <3>4. Disk!Under(k, p)
      BY <3>2, <3>3, UnderIs
    <3> QED BY <1>1, <3>1, <3>4 DEF Below, From
  <2>2. \A k \in S : View(EntryOf(k, path, skey), path, skey) = Disk!Found(Disk!Item(k), skey)
    BY <1>1 DEF EntryOf, View, Disk!Listed
  <2>3. Disk!Content(S, path, skey) = UNION {Disk!Found(Disk!Item(k), skey) : k \in S}
    BY <1>1 DEF Disk!Content
  <2> QED BY <2>1, <2>2, <2>3
<1>2. CASE ~ Disk!Searching(skey)
  <2>1. \A k \in S : /\ Below(k, path, skey) <=> Disk!Under(k, path)
                     /\ View(EntryOf(k, path, skey), path, skey) =
                          Disk!Shown(Disk!Listed(k, path, TRUE), path)
    BY <1>2 DEF EntryOf, View, Below, From
  <2>2. Disk!Content(S, path, skey) =
          UNION {Disk!Shown(Disk!Listed(k, path, TRUE), path) : k \in {j \in S : Disk!Under(j, path)}}
    BY <1>2 DEF Disk!Content
  <2> QED BY <2>1, <2>2
<1> QED BY <1>1, <1>2

\* How far a marker says the walk has come.
Upto(marker) == IF marker = None THEN 0 ELSE marker

LEMMA GetFileListIs ==
  ASSUME Disk!NetDiskAssumption, Disk!TypeOK, NEW path \in Disk!Directories, NEW skey,
         NEW marker \in Disk!KeyIds \cup {None}
  PROVE  LET r == Disk!GetFileList(path, marker, skey)
             K == {k \in bucket : k > Upto(marker) /\ Below(k, path, skey)}
         IN  /\ r.marker \in Disk!KeyIds \cup {None}
             /\ r.marker # None => r.marker > Upto(marker)
             /\ \A x \in r.list : \E k \in K :
                  /\ x \in View(EntryOf(k, path, skey), path, skey)
                  /\ r.marker # None => Disk!LastKey(EntryOf(k, path, skey)) <= r.marker
             /\ \A k \in K : r.marker = None \/ k <= r.marker =>
                  View(EntryOf(k, path, skey), path, skey) \subseteq r.list
<1>1. PICK r, body : /\ r = Disk!GetFileList(path, marker, skey)
                     /\ body = Disk!ListPrefix(From(path, skey), ~ Disk!Searching(skey), Limit, marker)
  OBVIOUS
<1>2. r.marker = body.marker /\ r.list = UNION {View(x, path, skey) : x \in body.entries}
  <2>1. r = [list |-> UNION {IF Disk!Searching(skey) THEN Disk!Found(x, skey) ELSE Disk!Shown(x, path)
                              : x \in body.entries},
             marker |-> body.marker]
    BY <1>1 DEF Disk!GetFileList, From
  <2> QED BY <2>1 DEF View
<1>3. PICK K \in SUBSET bucket : K = {k \in bucket : k > Upto(marker) /\ Below(k, path, skey)}
  OBVIOUS
<1>4. /\ \A x \in body.entries : \E k \in K : x = EntryOf(k, path, skey)
      /\ body.marker = None => \A k \in K : EntryOf(k, path, skey) \in body.entries
      /\ body.marker # None =>
           /\ body.marker \in Disk!KeyIds /\ body.marker > Upto(marker)
           /\ \A x \in body.entries : Disk!LastKey(x) <= body.marker
           /\ \A k \in K : k <= body.marker => EntryOf(k, path, skey) \in body.entries
  <2>1. PICK p, dl : p = From(path, skey) /\ dl = ~ Disk!Searching(skey)
    OBVIOUS
  <2>2. p \in Disk!Directories /\ dl \in BOOLEAN
    BY <2>1, FromIs
  <2>3. K = {k \in bucket : k > (IF marker = None THEN 0 ELSE marker) /\ Disk!Under(k, p)}
    BY <1>3, <2>1 DEF Upto, Below
  <2>4. /\ \A x \in body.entries : \E k \in K : x = Disk!Listed(k, p, dl)
        /\ body.marker = None => \A k \in K : Disk!Listed(k, p, dl) \in body.entries
        /\ body.marker # None =>
             /\ body.marker \in Disk!KeyIds
             /\ body.marker > (IF marker = None THEN 0 ELSE marker)
             /\ \A x \in body.entries : Disk!LastKey(x) <= body.marker
             /\ \A k \in K : k <= body.marker => Disk!Listed(k, p, dl) \in body.entries
    BY <1>1, <2>1, <2>2, <2>3, ListPrefixIs
  <2>5. \A k : EntryOf(k, path, skey) = Disk!Listed(k, p, dl)
    BY <2>1 DEF EntryOf
  <2> QED BY <2>4, <2>5 DEF Upto
<1>5. ASSUME NEW x \in r.list
      PROVE  \E k \in K : /\ x \in View(EntryOf(k, path, skey), path, skey)
                          /\ r.marker # None => Disk!LastKey(EntryOf(k, path, skey)) <= r.marker
  <2>1. PICK y \in body.entries : x \in View(y, path, skey)
    BY <1>2
  <2> QED BY <1>2, <1>4, <2>1
<1>6. ASSUME NEW k \in K, r.marker = None \/ k <= r.marker
      PROVE  View(EntryOf(k, path, skey), path, skey) \subseteq r.list
  <2>1. EntryOf(k, path, skey) \in body.entries
    BY <1>2, <1>4, <1>6
  <2> QED BY <1>2, <2>1
<1> QED BY <1>1, <1>2, <1>3, <1>4, <1>5, <1>6

-----------------------------------------------------------------------------
\* A walk under way has shown what stayed and begins up to its marker, and nothing
\* but what ends there and was there.
Walking(q) ==
    /\ q.stayed \subseteq bucket /\ bucket \subseteq q.ever
    /\ \A k \in q.stayed : Below(k, q.path, q.skey) /\ k <= Upto(q.marker) =>
         View(EntryOf(k, q.path, q.skey), q.path, q.skey) \subseteq q.shown
    /\ \A x \in q.shown : \E k \in q.ever :
         /\ Below(k, q.path, q.skey) /\ Disk!LastKey(EntryOf(k, q.path, q.skey)) <= Upto(q.marker)
         /\ x \in View(EntryOf(k, q.path, q.skey), q.path, q.skey)
    /\ q.twice = FALSE

Complete(q) ==
    q.at = "done" =>
        /\ Disk!Content(q.stayed, q.path, q.skey) \subseteq q.shown
        /\ q.shown \subseteq Disk!Content(q.ever, q.path, q.skey)
        /\ ~ q.twice

IsWalk(q) ==
    /\ q = [at |-> q.at, path |-> q.path, skey |-> q.skey, marker |-> q.marker, shown |-> q.shown,
            twice |-> q.twice, stayed |-> q.stayed, ever |-> q.ever]
    /\ q.at \in {"idle", "walking", "done"} /\ q.path \in Disk!Directories
    /\ q.skey \in Searches \cup {None} /\ q.marker \in Disk!KeyIds \cup {None}
    /\ q.stayed \subseteq q.ever /\ q.ever \subseteq Disk!KeyIds

DiskInv ==
    /\ bucket \in SUBSET Disk!KeyIds /\ writes \in 0..MaxWrite
    /\ IsWalk(walk) /\ Complete(walk)
    /\ walk.at = "walking" => Walking(walk)

LEMMA DiskIdle ==
  ASSUME Disk!NetDiskAssumption
  PROVE  IsWalk(Disk!Idle) /\ Complete(Disk!Idle) /\ Disk!Idle.at = "idle"
<1>1. PICK q : q = Disk!Idle
  OBVIOUS
<1>2. /\ q = [at |-> "idle", path |-> <<>>, skey |-> None, marker |-> None, shown |-> {},
              twice |-> FALSE, stayed |-> {}, ever |-> {}]
      /\ <<>> \in Disk!Directories
  BY <1>1, DirectoryIs DEF Disk!Idle
<1>3. IsWalk(q) /\ Complete(q) /\ q.at = "idle"
  BY <1>2 DEF IsWalk, Complete
<1> QED BY <1>1, <1>3

LEMMA DiskInit == ASSUME Disk!NetDiskAssumption, Disk!Init PROVE DiskInv
  BY DiskIdle DEF Disk!NetDiskAssumption, Disk!Init, DiskInv

\* The record of a walk with some of its fields changed, one after the other.
LEMMA OpenedIs ==
  ASSUME NEW w, NEW p, NEW s, NEW S,
         w = [at |-> w.at, path |-> w.path, skey |-> w.skey, marker |-> w.marker,
              shown |-> w.shown, twice |-> w.twice, stayed |-> w.stayed, ever |-> w.ever],
         NEW v, v = [w EXCEPT !.at = "walking", !.path = p, !.skey = s, !.stayed = S, !.ever = S]
  PROVE  v = [at |-> "walking", path |-> p, skey |-> s, marker |-> w.marker,
              shown |-> w.shown, twice |-> w.twice, stayed |-> S, ever |-> S]
<1>1. PICK w1 : w1 = [w EXCEPT !.at = "walking"]
  OBVIOUS
<1>2. w1 = [at |-> "walking", path |-> w.path, skey |-> w.skey, marker |-> w.marker,
            shown |-> w.shown, twice |-> w.twice, stayed |-> w.stayed, ever |-> w.ever]
  BY <1>1
<1>3. PICK w2 : w2 = [w1 EXCEPT !.path = p]
  OBVIOUS
<1>4. w2 = [at |-> "walking", path |-> p, skey |-> w.skey, marker |-> w.marker,
            shown |-> w.shown, twice |-> w.twice, stayed |-> w.stayed, ever |-> w.ever]
  BY <1>3, <1>2
<1>5. PICK w3 : w3 = [w2 EXCEPT !.skey = s]
  OBVIOUS
<1>6. w3 = [at |-> "walking", path |-> p, skey |-> s, marker |-> w.marker,
            shown |-> w.shown, twice |-> w.twice, stayed |-> w.stayed, ever |-> w.ever]
  BY <1>5, <1>4
<1>7. PICK w4 : w4 = [w3 EXCEPT !.stayed = S]
  OBVIOUS
<1>8. w4 = [at |-> "walking", path |-> p, skey |-> s, marker |-> w.marker,
            shown |-> w.shown, twice |-> w.twice, stayed |-> S, ever |-> w.ever]
  BY <1>7, <1>6
<1>9. PICK w5 : w5 = [w4 EXCEPT !.ever = S]
  OBVIOUS
<1>10. w5 = [at |-> "walking", path |-> p, skey |-> s, marker |-> w.marker,
             shown |-> w.shown, twice |-> w.twice, stayed |-> S, ever |-> S]
  BY <1>9, <1>8
<1>11. w5 = v
  BY <1>1, <1>3, <1>5, <1>7, <1>9
<1> QED BY <1>10, <1>11

LEMMA ListedIs ==
  ASSUME NEW w, NEW S, NEW m, NEW l,
         w = [at |-> w.at, path |-> w.path, skey |-> w.skey, marker |-> w.marker,
              shown |-> w.shown, twice |-> w.twice, stayed |-> w.stayed, ever |-> w.ever],
         NEW v, v = [w EXCEPT !.shown = S, !.twice = FALSE, !.marker = m, !.at = l]
  PROVE  v = [at |-> l, path |-> w.path, skey |-> w.skey, marker |-> m,
              shown |-> S, twice |-> FALSE, stayed |-> w.stayed, ever |-> w.ever]
<1>1. PICK w1 : w1 = [w EXCEPT !.shown = S]
  OBVIOUS
<1>2. w1 = [at |-> w.at, path |-> w.path, skey |-> w.skey, marker |-> w.marker,
            shown |-> S, twice |-> w.twice, stayed |-> w.stayed, ever |-> w.ever]
  BY <1>1
<1>3. PICK w2 : w2 = [w1 EXCEPT !.twice = FALSE]
  OBVIOUS
<1>4. w2 = [at |-> w.at, path |-> w.path, skey |-> w.skey, marker |-> w.marker,
            shown |-> S, twice |-> FALSE, stayed |-> w.stayed, ever |-> w.ever]
  BY <1>3, <1>2
<1>5. PICK w3 : w3 = [w2 EXCEPT !.marker = m]
  OBVIOUS
<1>6. w3 = [at |-> w.at, path |-> w.path, skey |-> w.skey, marker |-> m,
            shown |-> S, twice |-> FALSE, stayed |-> w.stayed, ever |-> w.ever]
  BY <1>5, <1>4
<1>7. PICK w4 : w4 = [w3 EXCEPT !.at = l]
  OBVIOUS
<1>8. w4 = [at |-> l, path |-> w.path, skey |-> w.skey, marker |-> m,
            shown |-> S, twice |-> FALSE, stayed |-> w.stayed, ever |-> w.ever]
  BY <1>7, <1>6
<1>9. w4 = v
  BY <1>1, <1>3, <1>5, <1>7
<1> QED BY <1>8, <1>9

LEMMA OpenDisk ==
  ASSUME Disk!NetDiskAssumption, DiskInv, NEW p \in Disk!Directories, NEW s \in Searches \cup {None},
         Disk!Open(p, s)
  PROVE  DiskInv'
<1>1. PICK q : q = [at |-> "walking", path |-> p, skey |-> s, marker |-> None, shown |-> {},
                    twice |-> FALSE, stayed |-> bucket, ever |-> bucket]
  OBVIOUS
<1>2. walk' = q /\ bucket' = bucket /\ writes' = writes
  <2>1. PICK w : w = Disk!Idle
    OBVIOUS
  <2>2. w = [at |-> "idle", path |-> <<>>, skey |-> None, marker |-> None, shown |-> {},
             twice |-> FALSE, stayed |-> {}, ever |-> {}]
    BY <2>1 DEF Disk!Idle
  <2>3. /\ w = [at |-> w.at, path |-> w.path, skey |-> w.skey, marker |-> w.marker,
                shown |-> w.shown, twice |-> w.twice, stayed |-> w.stayed, ever |-> w.ever]
        /\ w.marker = None /\ w.shown = {} /\ w.twice = FALSE
    BY <2>2
  <2>4. walk' = [w EXCEPT !.at = "walking", !.path = p, !.skey = s, !.stayed = bucket, !.ever = bucket]
    BY <2>1 DEF Disk!Open
  <2>5. walk' = [at |-> "walking", path |-> p, skey |-> s, marker |-> w.marker,
                 shown |-> w.shown, twice |-> w.twice, stayed |-> bucket, ever |-> bucket]
    BY <2>3, <2>4, OpenedIs
  <2> QED BY <1>1, <2>3, <2>5 DEF Disk!Open
<1>3. IsWalk(q) /\ Complete(q)
  BY <1>1 DEF IsWalk, Complete, DiskInv
<1>4. Walking(q)'
  <2>1. \A k \in bucket : ~ (k <= 0)
    BY KeysAre DEF DiskInv
  <2> QED BY <1>1, <1>2, <2>1 DEF Walking, Upto
<1> QED BY <1>2, <1>3, <1>4 DEF DiskInv, IsWalk, Complete, Walking

LEMMA CloseDisk == ASSUME Disk!NetDiskAssumption, DiskInv, Disk!Close PROVE DiskInv'
<1>1. walk' = Disk!Idle /\ bucket' = bucket /\ writes' = writes
  BY DEF Disk!Close
<1>2. PICK q : q = Disk!Idle
  OBVIOUS
<1>3. IsWalk(q) /\ Complete(q) /\ q.at = "idle"
  BY <1>2, DiskIdle
<1>4. walk' = q
  BY <1>1, <1>2
<1> QED BY <1>1, <1>3, <1>4 DEF DiskInv, IsWalk, Complete

\* Another client writes the bucket.
LEMMA WriteDisk ==
  ASSUME Disk!NetDiskAssumption, DiskInv, NEW k \in Disk!KeyIds, Disk!PutKey(k) \/ Disk!DeleteKey(k)
  PROVE  DiskInv'
<1>1. bucket' \in SUBSET Disk!KeyIds /\ writes' \in 0..MaxWrite
  BY DEF Disk!PutKey, Disk!DeleteKey, DiskInv, Disk!NetDiskAssumption
<1>2. CASE walk.at # "walking"
  <2>1. walk' = walk
    BY <1>2 DEF Disk!PutKey, Disk!DeleteKey
  <2> QED BY <1>1, <1>2, <2>1 DEF DiskInv, IsWalk, Complete
<1>3. CASE walk.at = "walking"
  <2>1. PICK w : w = walk
    OBVIOUS
  <2>2. IsWalk(w) /\ Walking(w) /\ w.at = "walking"
    BY <1>3, <2>1 DEF DiskInv
  <2>3. PICK q : /\ q = [at |-> w.at, path |-> w.path, skey |-> w.skey, marker |-> w.marker,
                         shown |-> w.shown, twice |-> w.twice,
                         stayed |-> w.stayed \cap bucket', ever |-> w.ever \cup bucket']
    OBVIOUS
  <2>4. walk' = q
    <3>1. CASE Disk!PutKey(k)
      <4>1. w.stayed \cap bucket' = w.stayed /\ w.ever \cup bucket' = w.ever \cup {k}
        BY <2>2, <3>1 DEF Disk!PutKey, Walking
      <4>2. walk' = [w EXCEPT !.ever = w.ever \cup {k}]
        BY <1>3, <2>1, <3>1 DEF Disk!PutKey
      <4> QED BY <2>2, <2>3, <4>1, <4>2 DEF IsWalk
    <3>2. CASE Disk!DeleteKey(k)
      <4>1. w.stayed \cap bucket' = w.stayed \ {k} /\ w.ever \cup bucket' = w.ever
        BY <2>2, <3>2 DEF Disk!DeleteKey, Walking
      <4>2. walk' = [w EXCEPT !.stayed = w.stayed \ {k}]
        BY <1>3, <2>1, <3>2 DEF Disk!DeleteKey
      <4> QED BY <2>2, <2>3, <4>1, <4>2 DEF IsWalk
    <3> QED BY <3>1, <3>2
  <2>5. IsWalk(q) /\ q.at = "walking"
    BY <1>1, <2>2, <2>3 DEF IsWalk
  <2>6. q.stayed \subseteq bucket' /\ bucket' \subseteq q.ever /\ q.twice = FALSE
    BY <2>2, <2>3 DEF Walking
  <2>7. \A j \in q.stayed : Below(j, q.path, q.skey) /\ j <= Upto(q.marker) =>
          View(EntryOf(j, q.path, q.skey), q.path, q.skey) \subseteq q.shown
    BY <2>2, <2>3 DEF Walking
  <2>8. \A x \in q.shown : \E j \in q.ever :
          /\ Below(j, q.path, q.skey) /\ Disk!LastKey(EntryOf(j, q.path, q.skey)) <= Upto(q.marker)
          /\ x \in View(EntryOf(j, q.path, q.skey), q.path, q.skey)
    BY <2>2, <2>3 DEF Walking
  <2>9. Walking(q)'
    BY <2>6, <2>7, <2>8 DEF Walking
  <2>10. Complete(q)
    BY <2>5 DEF Complete
  <2> QED BY <1>1, <2>4, <2>5, <2>9, <2>10 DEF DiskInv, IsWalk, Complete, Walking
<1> QED BY <1>2, <1>3

LEMMA ListDisk == ASSUME Disk!NetDiskAssumption, DiskInv, Disk!List PROVE DiskInv'
<1>1. PICK w : w = walk
  OBVIOUS
<1>2. IsWalk(w) /\ Walking(w) /\ w.at = "walking" /\ w.stayed \subseteq w.ever /\ w.ever \subseteq Disk!KeyIds
  BY <1>1 DEF DiskInv, Disk!List, IsWalk
<1>3. PICK r : r = Disk!GetFileList(w.path, w.marker, w.skey)
  OBVIOUS
<1> DEFINE seen(k) == View(EntryOf(k, w.path, w.skey), w.path, w.skey)
           below(k) == Below(k, w.path, w.skey)
           last(k) == Disk!LastKey(EntryOf(k, w.path, w.skey))
<1>4. /\ r.marker \in Disk!KeyIds \cup {None}
      /\ r.marker # None => r.marker > Upto(w.marker)
      /\ \A x \in r.list : \E k \in bucket :
           /\ k > Upto(w.marker) /\ below(k) /\ x \in seen(k)
           /\ r.marker # None => last(k) <= r.marker
      /\ \A k \in bucket : k > Upto(w.marker) /\ below(k) /\ (r.marker = None \/ k <= r.marker) =>
           seen(k) \subseteq r.list
  <2>1. Disk!TypeOK /\ w.path \in Disk!Directories /\ w.marker \in Disk!KeyIds \cup {None}
    BY <1>1, <1>2 DEF DiskInv, IsWalk, Disk!TypeOK
  <2>2. PICK K : K = {k \in bucket : k > Upto(w.marker) /\ below(k)}
    OBVIOUS
  <2>3. /\ r.marker \in Disk!KeyIds \cup {None}
        /\ r.marker # None => r.marker > Upto(w.marker)
        /\ \A x \in r.list : \E k \in K : x \in seen(k) /\ (r.marker # None => last(k) <= r.marker)
        /\ \A k \in K : r.marker = None \/ k <= r.marker => seen(k) \subseteq r.list
    BY <1>3, <2>1, <2>2, GetFileListIs
  <2>4. \A k \in K : k \in bucket /\ k > Upto(w.marker) /\ below(k)
    BY <2>2
  <2>5. \A k \in bucket : k > Upto(w.marker) /\ below(k) => k \in K
    BY <2>2
  <2> HIDE DEF seen, below, last
  <2>6. ASSUME NEW x \in r.list
        PROVE  \E k \in bucket : /\ k > Upto(w.marker) /\ below(k) /\ x \in seen(k)
                                 /\ r.marker # None => last(k) <= r.marker
    <3>1. PICK k \in K : x \in seen(k) /\ (r.marker # None => last(k) <= r.marker)
      BY <2>3
    <3> QED BY <2>4, <3>1
  <2>7. ASSUME NEW k \in bucket, k > Upto(w.marker), below(k), r.marker = None \/ k <= r.marker
        PROVE  seen(k) \subseteq r.list
    BY <2>3, <2>5, <2>7
  <2> QED BY <2>3, <2>6, <2>7
<1>5. /\ bucket \subseteq Disk!KeyIds /\ w.stayed \subseteq bucket /\ bucket \subseteq w.ever
      /\ \A k \in w.stayed : below(k) /\ k <= Upto(w.marker) => seen(k) \subseteq w.shown
      /\ \A x \in w.shown : \E k \in w.ever : below(k) /\ last(k) <= Upto(w.marker) /\ x \in seen(k)
  BY <1>2 DEF Walking, DiskInv
<1>6. \A k \in Disk!KeyIds : below(k) => last(k) \in Disk!KeyIds /\ k <= last(k)
  <2>1. From(w.path, w.skey) \in Disk!Directories /\ (~ Disk!Searching(w.skey)) \in BOOLEAN
    BY <1>2, FromIs DEF IsWalk
  <2> QED BY <2>1, LastKeyIs DEF Below, EntryOf
<1>7. \A k \in Disk!KeyIds : k \in Nat /\ k > 0
  BY KeysAre
<1>8. Upto(w.marker) \in Nat /\ (r.marker # None => r.marker \in Nat /\ Upto(r.marker) = r.marker)
  BY <1>2, <1>4, <1>7 DEF Upto, IsWalk
<1>9. r.list \cap w.shown = {}
  <2> SUFFICES ASSUME NEW x \in r.list, x \in w.shown PROVE FALSE
    OBVIOUS
  <2>1. PICK k \in bucket : k > Upto(w.marker) /\ below(k) /\ x \in seen(k)
    BY <1>4
  <2>2. PICK j \in w.ever : below(j) /\ last(j) <= Upto(w.marker) /\ x \in seen(j)
    BY <1>5
  <2>3. EntryOf(j, w.path, w.skey) = EntryOf(k, w.path, w.skey)
    BY <1>2, <1>5, <2>1, <2>2, ViewApart DEF IsWalk
  <2>4. last(k) = last(j) /\ k \in Nat /\ last(k) \in Nat /\ k <= last(k)
    BY <1>5, <1>6, <1>7, <2>1, <2>3
  <2> HIDE DEF last
  <2> QED BY <1>8, <2>1, <2>2, <2>4
<1>10. PICK q : q = [at |-> IF r.marker = None THEN "done" ELSE "walking", path |-> w.path, skey |-> w.skey,
                     marker |-> r.marker, shown |-> w.shown \cup r.list, twice |-> FALSE,
                     stayed |-> w.stayed, ever |-> w.ever]
  OBVIOUS
<1>11. walk' = q /\ bucket' = bucket /\ writes' = writes
  <2>1. walk' = [w EXCEPT !.shown = w.shown \cup r.list,
                          !.twice = w.twice \/ r.list \cap w.shown # {},
                          !.marker = r.marker,
                          !.at = IF r.marker = None THEN "done" ELSE "walking"]
    BY <1>1, <1>3 DEF Disk!List
  <2>2. w.twice = FALSE /\ (w.twice \/ r.list \cap w.shown # {}) = FALSE
    BY <1>2, <1>9 DEF Walking
  <2>3. walk' = [w EXCEPT !.shown = w.shown \cup r.list, !.twice = FALSE, !.marker = r.marker,
                          !.at = IF r.marker = None THEN "done" ELSE "walking"]
    BY <2>1, <2>2
  <2>4. walk' = q
    <3>1. PICK S, l : S = w.shown \cup r.list /\ l = IF r.marker = None THEN "done" ELSE "walking"
      OBVIOUS
    <3>2. walk' = [w EXCEPT !.shown = S, !.twice = FALSE, !.marker = r.marker, !.at = l]
      BY <2>3, <3>1
    <3>3. w = [at |-> w.at, path |-> w.path, skey |-> w.skey, marker |-> w.marker,
               shown |-> w.shown, twice |-> w.twice, stayed |-> w.stayed, ever |-> w.ever]
      BY <1>2 DEF IsWalk
    <3>4. walk' = [at |-> l, path |-> w.path, skey |-> w.skey, marker |-> r.marker,
                   shown |-> S, twice |-> FALSE, stayed |-> w.stayed, ever |-> w.ever]
      BY <3>2, <3>3, ListedIs
    <3> QED BY <1>10, <3>1, <3>4
  <2>5. bucket' = bucket /\ writes' = writes
    BY DEF Disk!List
  <2> QED BY <2>4, <2>5
<1>12. IsWalk(q)
  BY <1>2, <1>4, <1>10 DEF IsWalk
<1> HIDE DEF seen, below, last
<1>13. ASSUME NEW k \in w.stayed, below(k), r.marker = None \/ k <= r.marker PROVE seen(k) \subseteq q.shown
  <2>1. k \in Nat /\ k \in bucket /\ q.shown = w.shown \cup r.list
    BY <1>5, <1>7, <1>10
  <2>2. CASE k <= Upto(w.marker)
    <3>1. seen(k) \subseteq w.shown
      BY <1>5, <1>13, <2>2
    <3> QED BY <2>1, <3>1
  <2>3. CASE k > Upto(w.marker)
    <3>1. seen(k) \subseteq r.list
      BY <1>4, <1>13, <2>1, <2>3
    <3> QED BY <2>1, <3>1
  <2> QED BY <1>8, <2>1, <2>2, <2>3
<1>14. ASSUME NEW x \in q.shown
       PROVE  \E k \in w.ever : below(k) /\ x \in seen(k) /\ (r.marker # None => last(k) <= r.marker)
  <2>1. CASE x \in r.list
    BY <1>4, <1>5, <2>1
  <2>2. CASE x \in w.shown
    <3>1. PICK k \in w.ever : below(k) /\ last(k) <= Upto(w.marker) /\ x \in seen(k)
      BY <1>5, <2>2
    <3>2. last(k) \in Nat
      BY <1>2, <1>6, <1>7, <3>1
    <3>3. r.marker # None => last(k) <= r.marker
      BY <1>4, <1>8, <3>1, <3>2
    <3> QED BY <3>1, <3>3
  <2>3. q.shown = w.shown \cup r.list
    BY <1>10
  <2> QED BY <2>1, <2>2, <2>3
<1>15. /\ q.path = w.path /\ q.skey = w.skey /\ q.marker = r.marker /\ q.stayed = w.stayed
       /\ q.ever = w.ever /\ q.twice = FALSE
       /\ q.at = IF r.marker = None THEN "done" ELSE "walking"
  BY <1>10
<1>16. Complete(q)
  <2> SUFFICES ASSUME q.at = "done" PROVE Complete(q)
    BY DEF Complete
  <2>1. r.marker = None
    BY <1>15
  <2>2. w.path \in Disk!Directories /\ w.stayed \in SUBSET Disk!KeyIds /\ w.ever \in SUBSET Disk!KeyIds
    BY <1>2 DEF IsWalk
  <2>3. ASSUME NEW S \in SUBSET Disk!KeyIds
        PROVE  \A x : x \in Disk!Content(S, w.path, w.skey) <=> \E k \in S : below(k) /\ x \in seen(k)
    BY <2>2, ContentIs DEF below, seen
  <2>4. Disk!Content(w.stayed, w.path, w.skey) \subseteq q.shown
    <3> SUFFICES ASSUME NEW x \in Disk!Content(w.stayed, w.path, w.skey) PROVE x \in q.shown
      OBVIOUS
    <3>1. PICK k \in w.stayed : below(k) /\ x \in seen(k)
      BY <2>2, <2>3
    <3> QED BY <1>13, <2>1, <3>1
  <2>5. q.shown \subseteq Disk!Content(w.ever, w.path, w.skey)
    <3> SUFFICES ASSUME NEW x \in q.shown PROVE x \in Disk!Content(w.ever, w.path, w.skey)
      OBVIOUS
    <3>1. PICK k \in w.ever : below(k) /\ x \in seen(k)
      BY <1>14
    <3> QED BY <2>2, <2>3, <3>1
  <2> QED BY <1>15, <2>4, <2>5 DEF Complete
<1>17. CASE r.marker = None
  <2>1. q.at = "done"
    BY <1>15, <1>17
  <2>2. bucket' \in SUBSET Disk!KeyIds /\ writes' \in 0..MaxWrite
    BY <1>11 DEF DiskInv
  <2> QED BY <1>11, <1>12, <1>16, <2>1, <2>2 DEF DiskInv, IsWalk, Complete
<1>18. CASE r.marker # None
  <2>1. Upto(q.marker) = r.marker
    BY <1>8, <1>15, <1>18
  <2>2. q.stayed \subseteq bucket' /\ bucket' \subseteq q.ever /\ q.twice = FALSE
    BY <1>5, <1>11, <1>15
  <2>3. \A k \in q.stayed : Below(k, q.path, q.skey) /\ k <= Upto(q.marker) =>
          View(EntryOf(k, q.path, q.skey), q.path, q.skey) \subseteq q.shown
    BY <1>13, <1>15, <2>1 DEF below, seen
  <2>4. \A x \in q.shown : \E k \in q.ever :
          /\ Below(k, q.path, q.skey) /\ Disk!LastKey(EntryOf(k, q.path, q.skey)) <= Upto(q.marker)
          /\ x \in View(EntryOf(k, q.path, q.skey), q.path, q.skey)
    <3> SUFFICES ASSUME NEW x \in q.shown
                 PROVE  \E k \in w.ever : below(k) /\ last(k) <= r.marker /\ x \in seen(k)
      BY <1>15, <2>1 DEF below, seen, last
    <3> QED BY <1>14, <1>18
  <2>5. Walking(q)'
    BY <2>2, <2>3, <2>4 DEF Walking
  <2>6. bucket' \in SUBSET Disk!KeyIds /\ writes' \in 0..MaxWrite
    BY <1>11 DEF DiskInv
  <2> QED BY <1>11, <1>12, <1>16, <2>5, <2>6 DEF DiskInv, IsWalk, Complete, Walking
<1> QED BY <1>17, <1>18

LEMMA DiskNext ==
  ASSUME Disk!NetDiskAssumption, DiskInv, Disk!Next \/ UNCHANGED Disk!vars
  PROVE  DiskInv'
<1>1. CASE UNCHANGED Disk!vars
  BY <1>1 DEF Disk!vars, DiskInv, IsWalk, Complete, Walking
<1>2. ASSUME NEW p \in Disk!Directories, NEW s \in Searches \cup {None}, Disk!Open(p, s) PROVE DiskInv'
  BY <1>2, OpenDisk
<1>3. CASE Disk!List
  BY <1>3, ListDisk
<1>4. CASE Disk!Close
  BY <1>4, CloseDisk
<1>5. ASSUME NEW k \in Disk!KeyIds, Disk!PutKey(k) \/ Disk!DeleteKey(k) PROVE DiskInv'
  BY <1>5, WriteDisk
<1> QED BY <1>1, <1>2, <1>3, <1>4, <1>5 DEF Disk!Next

LEMMA DiskHolds == DiskInv => Disk!TypeOK /\ Disk!WalkIsComplete
  BY DEF DiskInv, IsWalk, Complete, Disk!TypeOK, Disk!WalkIsComplete

-----------------------------------------------------------------------------
(* Paging *)

\* The library here and in Paging.
LEMMA PageLibrary ==
  /\ \A S : Pages!Cardinality(S) = Cardinality(S)
  /\ \A s : Pages!ToSet(s) = {s[k] : k \in DOMAIN s}
  /\ \A s : Pages!IsInjective(s) <=> \A j, k \in DOMAIN s : s[j] = s[k] => j = k
  /\ \A s, k, x : Pages!InsertAt(s, k, x) = SubSeq(s, 1, k - 1) \o <<x>> \o SubSeq(s, k, Len(s))
  /\ \A s, k : Pages!RemoveAt(s, k) = SubSeq(s, 1, k - 1) \o SubSeq(s, k + 1, Len(s))
<1>1. \A S : Pages!Cardinality(S) = Cardinality(S)
  BY DEF Pages!Cardinality, Cardinality
<1>2. \A s : Pages!ToSet(s) = {s[k] : k \in DOMAIN s}
  BY DEF Pages!ToSet
<1>3. \A s : Pages!IsInjective(s) <=> \A j, k \in DOMAIN s : s[j] = s[k] => j = k
  BY DEF Pages!IsInjective
<1>4. \A s, k, x : Pages!InsertAt(s, k, x) = SubSeq(s, 1, k - 1) \o <<x>> \o SubSeq(s, k, Len(s))
  BY DEF Pages!InsertAt
<1>5. \A s, k : Pages!RemoveAt(s, k) = SubSeq(s, 1, k - 1) \o SubSeq(s, k + 1, Len(s))
  BY DEF Pages!RemoveAt
<1> QED BY <1>1, <1>2, <1>3, <1>4, <1>5

\* Where in s the elements of W are, and how many of them there are up to the kth.
Hits(s, W) == {k \in DOMAIN s : s[k] \in W}
Upwards(s, W, k) == {j \in Hits(s, W) : j <= k}
RankOf(s, W, k) == Cardinality(Upwards(s, W, k))

LEMMA HitsAre ==
  ASSUME NEW S, NEW s \in Seq(S), NEW W
  PROVE  /\ Len(s) \in Nat /\ Hits(s, W) \subseteq 1..Len(s)
         /\ IsFiniteSet(Hits(s, W)) /\ Cardinality(Hits(s, W)) \in Nat
         /\ \A k \in Hits(s, W) : /\ IsFiniteSet(Upwards(s, W, k)) /\ Upwards(s, W, k) \subseteq Hits(s, W)
                                  /\ RankOf(s, W, k) \in 1..Cardinality(Hits(s, W))
<1>1. Len(s) \in Nat /\ DOMAIN s = 1..Len(s) /\ Hits(s, W) \subseteq 1..Len(s)
  BY DEF Hits
<1>2. IsFiniteSet(1..Len(s))
  BY <1>1, FS_Interval
<1>3. IsFiniteSet(Hits(s, W)) /\ Cardinality(Hits(s, W)) \in Nat
  BY <1>1, <1>2, FS_Subset, FS_CardinalityType
<1>4. ASSUME NEW k \in Hits(s, W)
      PROVE  /\ IsFiniteSet(Upwards(s, W, k)) /\ Upwards(s, W, k) \subseteq Hits(s, W)
             /\ RankOf(s, W, k) \in 1..Cardinality(Hits(s, W))
  <2>1. PICK U \in SUBSET Hits(s, W) : U = Upwards(s, W, k)
    BY DEF Upwards
  <2>2. IsFiniteSet(U) /\ Cardinality(U) <= Cardinality(Hits(s, W)) /\ Cardinality(U) \in Nat
    BY <1>3, FS_Subset, FS_CardinalityType
  <2>3. k \in U
    BY <1>1, <2>1 DEF Upwards
  <2>4. Cardinality(U) # 0
    BY <2>2, <2>3, FS_EmptySet
  <2>5. Cardinality(U) \in 1..Cardinality(Hits(s, W))
    BY <1>3, <2>2, <2>4
  <2> QED BY <2>1, <2>2, <2>5 DEF RankOf
<1> QED BY <1>1, <1>3, <1>4

\* Ranks go up by one from the first to the last.
LEMMA RanksAre ==
  ASSUME NEW S, NEW s \in Seq(S), NEW W
  PROVE  /\ \A j, k \in Hits(s, W) : RankOf(s, W, j) = RankOf(s, W, k) => j = k
         /\ \A n \in 1..Cardinality(Hits(s, W)) : \E k \in Hits(s, W) : RankOf(s, W, k) = n
<1> DEFINE H == Hits(s, W)
           N == Cardinality(H)
<1>1. /\ Len(s) \in Nat /\ H \subseteq 1..Len(s) /\ IsFiniteSet(H) /\ N \in Nat
      /\ \A k \in H : IsFiniteSet(Upwards(s, W, k)) /\ RankOf(s, W, k) \in 1..N
  BY HitsAre
<1>2. ASSUME NEW j \in H, NEW k \in H, RankOf(s, W, j) = RankOf(s, W, k), j <= k PROVE j = k
  <2>1. PICK U, V : U = Upwards(s, W, j) /\ V = Upwards(s, W, k)
    OBVIOUS
  <2>2. U \subseteq V /\ k \in V
    BY <1>1, <1>2, <2>1 DEF Upwards
  <2>3. IsFiniteSet(V) /\ Cardinality(V) = Cardinality(U)
    BY <1>1, <1>2, <2>1 DEF RankOf
  <2>4. V = U
    BY <2>2, <2>3, FS_Subset
  <2>5. k <= j
    BY <2>1, <2>2, <2>4 DEF Upwards
  <2> QED BY <1>1, <1>2, <2>5
<1>3. \A j, k \in H : RankOf(s, W, j) = RankOf(s, W, k) => j = k
  <2> SUFFICES ASSUME NEW j \in H, NEW k \in H, RankOf(s, W, j) = RankOf(s, W, k) PROVE j = k
    OBVIOUS
  <2>1. j <= k \/ k <= j
    BY <1>1
  <2> QED BY <1>2, <2>1
<1>4. PICK f : f = [k \in H |-> RankOf(s, W, k)]
  OBVIOUS
<1> HIDE DEF N, H
<1>5. f \in Injection(H, 1..N)
  BY <1>1, <1>3, <1>4, Fun_IsInj
<1>6. IsFiniteSet(1..N) /\ Cardinality(1..N) = N
  <2>1. Cardinality(1..N) = IF 1 > N THEN 0 ELSE N - 1 + 1
    BY <1>1, FS_Interval
  <2> QED BY <1>1, <2>1, FS_Interval
<1>7. f \in Surjection(H, 1..N)
  <2>1. Cardinality(H) = Cardinality(1..N)
    BY <1>6 DEF N
  <2> QED BY <1>5, <1>6, <2>1, FS_Injection
<1>8. \A n \in 1..N : \E k \in H : RankOf(s, W, k) = n
  BY <1>4, <1>7 DEF Surjection
<1> QED BY <1>3, <1>8 DEF N, H

\* The page of n elements after the first m; one that is short of n, but not empty,
\* is the last.
Part(s, W, m, n) == {k \in Hits(s, W) : m < RankOf(s, W, k) /\ RankOf(s, W, k) <= m + n}

LEMMA ShortIsLast ==
  ASSUME NEW S, NEW s \in Seq(S), NEW W, NEW m \in Nat, NEW n \in Nat,
         Part(s, W, m, n) # {}, Cardinality(Part(s, W, m, n)) < n
  PROVE  m + Cardinality(Part(s, W, m, n)) = Cardinality(Hits(s, W))
<1> DEFINE H == Hits(s, W)
           N == Cardinality(H)
           P == Part(s, W, m, n)
           last == IF m + n <= N THEN m + n ELSE N
<1>1. /\ IsFiniteSet(H) /\ N \in Nat /\ \A k \in H : RankOf(s, W, k) \in 1..N
      /\ \A j, k \in H : RankOf(s, W, j) = RankOf(s, W, k) => j = k
      /\ \A r \in 1..N : \E k \in H : RankOf(s, W, k) = r
  <2>1. IsFiniteSet(H) /\ N \in Nat /\ \A k \in H : RankOf(s, W, k) \in 1..N
    BY HitsAre
  <2>2. \A j, k \in H : RankOf(s, W, j) = RankOf(s, W, k) => j = k
    BY RanksAre
  <2>3. \A r \in 1..N : \E k \in H : RankOf(s, W, k) = r
    BY RanksAre
  <2> QED BY <2>1, <2>2, <2>3
<1>2. P = {k \in H : m < RankOf(s, W, k) /\ RankOf(s, W, k) <= m + n} /\ P # {} /\ Cardinality(P) < n
  BY DEF Part
<1> HIDE DEF H, P
<1> HIDE DEF N
<1>3. PICK f : f = [k \in P |-> RankOf(s, W, k)]
  OBVIOUS
<1>4. last \in Nat /\ m < last
  BY <1>1, <1>2
<1>5. f \in [P -> (m + 1)..last] /\ \A j, k \in P : f[j] = f[k] => j = k
  BY <1>1, <1>2, <1>3
<1>6. \A r \in (m + 1)..last : \E k \in P : f[k] = r
  <2> SUFFICES ASSUME NEW r \in (m + 1)..last PROVE \E k \in P : f[k] = r
    OBVIOUS
  <2>1. r \in 1..N /\ m < r /\ r <= m + n
    BY <1>1, <1>4
  <2>2. PICK k \in H : RankOf(s, W, k) = r
    BY <1>1, <2>1
  <2> QED BY <1>2, <1>3, <2>1, <2>2
<1> HIDE DEF last
<1>7. f \in Injection(P, (m + 1)..last) /\ f \in Surjection(P, (m + 1)..last)
  BY <1>5, <1>6, Fun_IsInj, Fun_IsSurj
<1>8. IsFiniteSet(P)
  BY <1>1, <1>2, FS_Subset
<1>9. Cardinality((m + 1)..last) = Cardinality(P)
  BY <1>7, <1>8, FS_Surjection
<1>10. Cardinality((m + 1)..last) = IF m + 1 > last THEN 0 ELSE last - (m + 1) + 1
  BY <1>4, FS_Interval
<1>11. Cardinality(P) = last - m
  BY <1>4, <1>9, <1>10
<1>12. last = N
  BY <1>1, <1>2, <1>4, <1>11 DEF last
<1> QED BY <1>1, <1>4, <1>11, <1>12 DEF N, H, P

\* As many rows as places.
LEMMA RowsCount ==
  ASSUME NEW S, NEW s \in Seq(S), NEW K, IsFiniteSet(K), K \subseteq DOMAIN s,
         \A j, k \in K : s[j] = s[k] => j = k
  PROVE  Cardinality({s[k] : k \in K}) = Cardinality(K)
<1>1. PICK T : T = {s[k] : k \in K}
  OBVIOUS
<1>2. PICK f : f = [k \in K |-> s[k]]
  OBVIOUS
<1>3. f \in [K -> T] /\ (\A j, k \in K : f[j] = f[k] => j = k) /\ \A x \in T : \E k \in K : f[k] = x
  BY <1>1, <1>2
<1>4. f \in Injection(K, T) /\ f \in Surjection(K, T)
  BY <1>3, Fun_IsInj, Fun_IsSurj
<1> QED BY <1>1, <1>4, FS_Surjection

\* A row put in at a place, and one taken out.
\* t is s with x at k, or without what was there.
Inserted(S, s, k, x, t) ==
    /\ t \in Seq(S) /\ Len(t) = Len(s) + 1
    /\ \A j \in 1..Len(s) + 1 : t[j] = IF j < k THEN s[j] ELSE IF j = k THEN x ELSE s[j - 1]

Removed(S, s, k, t) ==
    /\ t \in Seq(S) /\ Len(t) = Len(s) - 1
    /\ \A j \in 1..Len(s) - 1 : t[j] = IF j < k THEN s[j] ELSE s[j + 1]

LEMMA InsertAtIs ==
  ASSUME NEW S, NEW s \in Seq(S), NEW x \in S, NEW k \in 1..Len(s) + 1
  PROVE  Inserted(S, s, k, x, Pages!InsertAt(s, k, x))
<1>1. Len(s) \in Nat /\ \A j \in 1..Len(s) : s[j] \in S
  OBVIOUS
<1>2. PICK u, m, v : /\ u = SubSeq(s, 1, k - 1) /\ m = <<x>> /\ v = SubSeq(s, k, Len(s))
  OBVIOUS
<1>3. u \in Seq(S) /\ Len(u) = k - 1 /\ \A j \in 1..k - 1 : u[j] = s[j]
  BY <1>1, <1>2, FirstIs
<1>4. v \in Seq(S) /\ Len(v) = Len(s) - k + 1 /\ \A j \in 1..Len(s) - k + 1 : v[j] = s[k + j - 1]
  <2>1. /\ v \in Seq(S) /\ Len(v) = IF k <= Len(s) THEN Len(s) - k + 1 ELSE 0
        /\ \A j \in 1..Len(s) - k + 1 : v[j] = s[k + j - 1]
    <3>1. k \in Int /\ Len(s) \in Int /\ \A j \in k..Len(s) : s[j] \in S
      BY <1>1
    <3> QED BY <1>2, <3>1, SubSeqProperties
  <2> QED BY <1>1, <2>1
<1>5. m \in Seq(S) /\ Len(m) = 1 /\ m[1] = x
  BY <1>2
<1>6. PICK w : w = u \o m
  OBVIOUS
<1>7. w \in Seq(S) /\ Len(w) = k /\ \A j \in 1..k : w[j] = IF j < k THEN s[j] ELSE x
  <2>1. /\ w \in Seq(S) /\ Len(w) = Len(u) + Len(m)
        /\ \A j \in 1..Len(u) + Len(m) : w[j] = IF j <= Len(u) THEN u[j] ELSE m[j - Len(u)]
    BY <1>3, <1>5, <1>6, ConcatProperties
  <2>2. Len(u) + Len(m) = k /\ k \in Nat
    BY <1>1, <1>3, <1>5
  <2>3. \A j \in 1..k : w[j] = IF j <= k - 1 THEN u[j] ELSE m[j - (k - 1)]
    BY <1>3, <2>1, <2>2
  <2>4. ASSUME NEW j \in 1..k PROVE w[j] = IF j < k THEN s[j] ELSE x
    <3>1. CASE j < k
      BY <1>3, <2>2, <2>3, <3>1
    <3>2. CASE j = k
      BY <1>5, <2>2, <2>3, <3>2
    <3> QED BY <2>2, <3>1, <3>2
  <2> QED BY <2>1, <2>2, <2>4
<1>8. PICK t : t = w \o v
  OBVIOUS
<1>9. t \in Seq(S) /\ Len(t) = Len(s) + 1
      /\ \A j \in 1..Len(s) + 1 : t[j] = IF j <= k THEN w[j] ELSE v[j - k]
  <2>1. /\ t \in Seq(S) /\ Len(t) = Len(w) + Len(v)
        /\ \A j \in 1..Len(w) + Len(v) : t[j] = IF j <= Len(w) THEN w[j] ELSE v[j - Len(w)]
    BY <1>4, <1>7, <1>8, ConcatProperties
  <2>2. Len(w) + Len(v) = Len(s) + 1
    BY <1>1, <1>4, <1>7
  <2> QED BY <1>7, <2>1, <2>2
<1>10. ASSUME NEW j \in 1..Len(s) + 1 PROVE t[j] = IF j < k THEN s[j] ELSE IF j = k THEN x ELSE s[j - 1]
  <2>1. CASE j <= k
    BY <1>1, <1>7, <1>9, <2>1
  <2>2. CASE ~ (j <= k)
    <3>1. j - k \in 1..Len(s) - k + 1 /\ k + (j - k) - 1 = j - 1
      BY <1>1, <2>2
    <3> QED BY <1>1, <1>4, <1>9, <2>2, <3>1
  <2> QED BY <2>1, <2>2
<1>11. t = Pages!InsertAt(s, k, x)
  <2>1. Pages!InsertAt(s, k, x) = SubSeq(s, 1, k - 1) \o <<x>> \o SubSeq(s, k, Len(s))
    BY ZenonT(60), PageLibrary
  <2> QED BY <1>2, <1>6, <1>8, <2>1
<1>12. Inserted(S, s, k, x, t)
  BY <1>9, <1>10 DEF Inserted
<1> QED BY <1>11, <1>12

LEMMA RemoveAtIs ==
  ASSUME NEW S, NEW s \in Seq(S), NEW k \in 1..Len(s)
  PROVE  Removed(S, s, k, Pages!RemoveAt(s, k))
<1>1. Len(s) \in Nat /\ \A j \in 1..Len(s) : s[j] \in S
  OBVIOUS
<1>2. PICK u, v : u = SubSeq(s, 1, k - 1) /\ v = SubSeq(s, k + 1, Len(s))
  OBVIOUS
<1>3. u \in Seq(S) /\ Len(u) = k - 1 /\ \A j \in 1..k - 1 : u[j] = s[j]
  <2>1. k - 1 \in Nat /\ k - 1 <= Len(s)
    BY <1>1
  <2> QED BY <1>2, <2>1, FirstIs
<1>4. v \in Seq(S) /\ Len(v) = Len(s) - k /\ \A j \in 1..Len(s) - k : v[j] = s[k + j]
  <2>1. /\ v \in Seq(S) /\ Len(v) = IF k + 1 <= Len(s) THEN Len(s) - (k + 1) + 1 ELSE 0
        /\ \A j \in 1..Len(s) - (k + 1) + 1 : v[j] = s[k + 1 + j - 1]
    <3>1. k + 1 \in Int /\ Len(s) \in Int /\ \A j \in k + 1..Len(s) : s[j] \in S
      BY <1>1
    <3> QED BY <1>2, <3>1, SubSeqProperties
  <2> QED BY <1>1, <2>1
<1>5. PICK t : t = u \o v
  OBVIOUS
<1>6. t \in Seq(S) /\ Len(t) = Len(s) - 1
      /\ \A j \in 1..Len(s) - 1 : t[j] = IF j <= k - 1 THEN u[j] ELSE v[j - (k - 1)]
  <2>1. /\ t \in Seq(S) /\ Len(t) = Len(u) + Len(v)
        /\ \A j \in 1..Len(u) + Len(v) : t[j] = IF j <= Len(u) THEN u[j] ELSE v[j - Len(u)]
    BY <1>3, <1>4, <1>5, ConcatProperties
  <2>2. Len(u) + Len(v) = Len(s) - 1
    BY <1>1, <1>3, <1>4
  <2> QED BY <1>3, <2>1, <2>2
<1>7. ASSUME NEW j \in 1..Len(s) - 1 PROVE t[j] = IF j < k THEN s[j] ELSE s[j + 1]
  <2>1. CASE j < k
    BY <1>1, <1>3, <1>6, <2>1
  <2>2. CASE ~ (j < k)
    <3>1. j - (k - 1) \in 1..Len(s) - k /\ k + (j - (k - 1)) = j + 1
      BY <1>1, <2>2
    <3> QED BY <1>1, <1>4, <1>6, <2>2, <3>1
  <2> QED BY <2>1, <2>2
<1>8. t = Pages!RemoveAt(s, k)
  <2>1. Pages!RemoveAt(s, k) = SubSeq(s, 1, k - 1) \o SubSeq(s, k + 1, Len(s))
    BY ZenonT(60), PageLibrary
  <2> QED BY <1>2, <1>5, <2>1
<1>9. Removed(S, s, k, t)
  BY <1>6, <1>7 DEF Removed
<1> QED BY <1>8, <1>9

\* A row at the end leaves the ranks as they are, one at the head does not lower them.
Longer(s, t, W, V) ==
    Len(t) = Len(s) + 1 /\ \A j \in 1..Len(s) : t[j] = s[j] /\ (s[j] \in V <=> s[j] \in W)

LEMMA RankKept ==
  ASSUME NEW S, NEW s \in Seq(S), NEW t \in Seq(S), NEW W, NEW V, Longer(s, t, W, V), NEW k \in Hits(s, W)
  PROVE  k \in Hits(t, V) /\ t[k] = s[k] /\ RankOf(t, V, k) = RankOf(s, W, k)
<1>1. Len(s) \in Nat /\ DOMAIN s = 1..Len(s) /\ DOMAIN t = 1..Len(s) + 1 /\ k \in 1..Len(s)
  BY DEF Hits, Longer
<1>2. \A j : j <= k => (j \in Hits(t, V) <=> j \in Hits(s, W))
  <2> SUFFICES ASSUME NEW j, j <= k PROVE j \in Hits(t, V) <=> j \in Hits(s, W)
    OBVIOUS
  <2>1. j \in 1..Len(s) + 1 => j \in 1..Len(s)
    BY <1>1
  <2> QED BY <1>1, <2>1 DEF Hits, Longer
<1>3. Upwards(t, V, k) = Upwards(s, W, k)
  BY <1>2 DEF Upwards
<1>4. k <= k
  BY <1>1
<1> QED BY <1>1, <1>2, <1>3, <1>4 DEF RankOf, Longer

LEMMA RankGrows ==
  ASSUME NEW S, NEW s \in Seq(S), NEW t \in Seq(S), NEW W, NEW V, Len(t) = Len(s) + 1,
         \A j \in 1..Len(s) : t[j + 1] = s[j] /\ (s[j] \in V <=> s[j] \in W), NEW k \in Hits(s, W)
  PROVE  k + 1 \in Hits(t, V) /\ t[k + 1] = s[k] /\ RankOf(t, V, k + 1) >= RankOf(s, W, k)
<1>1. Len(s) \in Nat /\ DOMAIN s = 1..Len(s) /\ DOMAIN t = 1..Len(s) + 1 /\ k \in 1..Len(s)
  BY DEF Hits
<1>2. \A j \in Hits(s, W) : j \in 1..Len(s) /\ j + 1 \in Hits(t, V)
  BY <1>1 DEF Hits
<1>3. PICK A, B : A = Upwards(s, W, k) /\ B = Upwards(t, V, k + 1)
  OBVIOUS
<1>4. PICK f : f = [j \in A |-> j + 1]
  OBVIOUS
<1>5. f \in [A -> B] /\ \A i, j \in A : f[i] = f[j] => i = j
  <2>1. ASSUME NEW j \in A PROVE j \in 1..Len(s) /\ j + 1 \in B
    <3>1. j \in Hits(s, W) /\ j <= k
      BY <1>3, <2>1 DEF Upwards
    <3>2. j \in 1..Len(s) /\ j + 1 \in Hits(t, V)
      BY <1>2, <3>1
    <3>3. j + 1 <= k + 1
      BY <1>1, <3>1, <3>2
    <3> QED BY <1>3, <3>2, <3>3 DEF Upwards
  <2>2. f \in [A -> B]
    BY <1>4, <2>1
  <2>3. ASSUME NEW i \in A, NEW j \in A, f[i] = f[j] PROVE i = j
    <3>1. i + 1 = j + 1 /\ i \in Nat /\ j \in Nat
      BY <1>1, <1>4, <2>1, <2>3
    <3> QED BY <3>1
  <2> QED BY <2>2, <2>3
<1>6. IsFiniteSet(A) /\ IsFiniteSet(B)
  BY <1>2, <1>3, HitsAre
<1>7. Cardinality(A) <= Cardinality(B) /\ Cardinality(A) \in Nat /\ Cardinality(B) \in Nat
  <2>1. f \in Injection(A, B)
    BY <1>5, Fun_IsInj
  <2> QED BY <1>6, <2>1, FS_Injection, FS_CardinalityType
<1> QED BY <1>1, <1>2, <1>3, <1>7 DEF RankOf

\* The record of a walk through a list with some of its fields changed.
LEMMA OpenedPage ==
  ASSUME NEW w, NEW f, NEW B, NEW z,
         w = [at |-> w.at, filter |-> w.filter, page |-> w.page, size |-> w.size, items |-> w.items,
              total |-> w.total, seen |-> w.seen, before |-> w.before, writes |-> w.writes],
         NEW v, v = [w EXCEPT !.at = "reading", !.filter = f, !.before = B, !.size = z]
  PROVE  v = [at |-> "reading", filter |-> f, page |-> w.page, size |-> z, items |-> w.items,
              total |-> w.total, seen |-> w.seen, before |-> B, writes |-> w.writes]
<1>1. PICK w1 : w1 = [w EXCEPT !.at = "reading"]
  OBVIOUS
<1>2. w1 = [at |-> "reading", filter |-> w.filter, page |-> w.page, size |-> w.size, items |-> w.items,
            total |-> w.total, seen |-> w.seen, before |-> w.before, writes |-> w.writes]
  BY <1>1
<1>3. PICK w2 : w2 = [w1 EXCEPT !.filter = f]
  OBVIOUS
<1>4. w2 = [at |-> "reading", filter |-> f, page |-> w.page, size |-> w.size, items |-> w.items,
            total |-> w.total, seen |-> w.seen, before |-> w.before, writes |-> w.writes]
  BY <1>3, <1>2
<1>5. PICK w3 : w3 = [w2 EXCEPT !.before = B]
  OBVIOUS
<1>6. w3 = [at |-> "reading", filter |-> f, page |-> w.page, size |-> w.size, items |-> w.items,
            total |-> w.total, seen |-> w.seen, before |-> B, writes |-> w.writes]
  BY <1>5, <1>4
<1>7. PICK w4 : w4 = [w3 EXCEPT !.size = z]
  OBVIOUS
<1>8. w4 = [at |-> "reading", filter |-> f, page |-> w.page, size |-> z, items |-> w.items,
            total |-> w.total, seen |-> w.seen, before |-> B, writes |-> w.writes]
  BY <1>7, <1>6
<1>9. w4 = v
  BY <1>1, <1>3, <1>5, <1>7
<1> QED BY <1>8, <1>9

LEMMA ReadPage ==
  ASSUME NEW w, NEW I, NEW n,
         w = [at |-> w.at, filter |-> w.filter, page |-> w.page, size |-> w.size, items |-> w.items,
              total |-> w.total, seen |-> w.seen, before |-> w.before, writes |-> w.writes],
         NEW v, v = [w EXCEPT !.items = I, !.total = n]
  PROVE  v = [at |-> w.at, filter |-> w.filter, page |-> w.page, size |-> w.size, items |-> I,
              total |-> n, seen |-> w.seen, before |-> w.before, writes |-> w.writes]
<1>1. PICK w1 : w1 = [w EXCEPT !.items = I]
  OBVIOUS
<1>2. w1 = [at |-> w.at, filter |-> w.filter, page |-> w.page, size |-> w.size, items |-> I,
            total |-> w.total, seen |-> w.seen, before |-> w.before, writes |-> w.writes]
  BY <1>1
<1>3. PICK w2 : w2 = [w1 EXCEPT !.total = n]
  OBVIOUS
<1>4. w2 = [at |-> w.at, filter |-> w.filter, page |-> w.page, size |-> w.size, items |-> I,
            total |-> n, seen |-> w.seen, before |-> w.before, writes |-> w.writes]
  BY <1>3, <1>2
<1>5. w2 = v
  BY <1>1, <1>3
<1> QED BY <1>4, <1>5

LEMMA CountedPage ==
  ASSUME NEW w, NEW n,
         w = [at |-> w.at, filter |-> w.filter, page |-> w.page, size |-> w.size, items |-> w.items,
              total |-> w.total, seen |-> w.seen, before |-> w.before, writes |-> w.writes],
         NEW v, v = [w EXCEPT !.total = n]
  PROVE  v = [at |-> w.at, filter |-> w.filter, page |-> w.page, size |-> w.size, items |-> w.items,
              total |-> n, seen |-> w.seen, before |-> w.before, writes |-> w.writes]
  OBVIOUS

LEMMA WrittenPage ==
  ASSUME NEW w, NEW K,
         w = [at |-> w.at, filter |-> w.filter, page |-> w.page, size |-> w.size, items |-> w.items,
              total |-> w.total, seen |-> w.seen, before |-> w.before, writes |-> w.writes],
         NEW v, v = [w EXCEPT !.writes = K]
  PROVE  v = [at |-> w.at, filter |-> w.filter, page |-> w.page, size |-> w.size, items |-> w.items,
              total |-> w.total, seen |-> w.seen, before |-> w.before, writes |-> K]
  OBVIOUS

LEMMA RepliedPage ==
  ASSUME NEW w, NEW g, NEW l, NEW m, NEW I, NEW n,
         w = [at |-> w.at, filter |-> w.filter, page |-> w.page, size |-> w.size, items |-> w.items,
              total |-> w.total, seen |-> w.seen, before |-> w.before, writes |-> w.writes],
         NEW v, v = [w EXCEPT !.seen = g, !.at = l, !.page = m, !.items = I, !.total = n]
  PROVE  v = [at |-> l, filter |-> w.filter, page |-> m, size |-> w.size, items |-> I,
              total |-> n, seen |-> g, before |-> w.before, writes |-> w.writes]
<1>1. PICK w1 : w1 = [w EXCEPT !.seen = g]
  OBVIOUS
<1>2. w1 = [at |-> w.at, filter |-> w.filter, page |-> w.page, size |-> w.size, items |-> w.items,
            total |-> w.total, seen |-> g, before |-> w.before, writes |-> w.writes]
  BY <1>1
<1>3. PICK w2 : w2 = [w1 EXCEPT !.at = l]
  OBVIOUS
<1>4. w2 = [at |-> l, filter |-> w.filter, page |-> w.page, size |-> w.size, items |-> w.items,
            total |-> w.total, seen |-> g, before |-> w.before, writes |-> w.writes]
  BY <1>3, <1>2
<1>5. PICK w3 : w3 = [w2 EXCEPT !.page = m]
  OBVIOUS
<1>6. w3 = [at |-> l, filter |-> w.filter, page |-> m, size |-> w.size, items |-> w.items,
            total |-> w.total, seen |-> g, before |-> w.before, writes |-> w.writes]
  BY <1>5, <1>4
<1>7. PICK w4 : w4 = [w3 EXCEPT !.items = I]
  OBVIOUS
<1>8. w4 = [at |-> l, filter |-> w.filter, page |-> m, size |-> w.size, items |-> I,
            total |-> w.total, seen |-> g, before |-> w.before, writes |-> w.writes]
  BY <1>7, <1>6
<1>9. PICK w5 : w5 = [w4 EXCEPT !.total = n]
  OBVIOUS
<1>10. w5 = [at |-> l, filter |-> w.filter, page |-> m, size |-> w.size, items |-> I,
             total |-> n, seen |-> g, before |-> w.before, writes |-> w.writes]
  BY <1>9, <1>8
<1>11. w5 = v
  BY <1>1, <1>3, <1>5, <1>7, <1>9
<1> QED BY <1>10, <1>11

-----------------------------------------------------------------------------
\* How many rows come before the page a walk is at.
SkipOf(w) == (w.page - 1) * w.size

Exact(l, filter) == l.cut # "nothing" /\ l.order # "tied" /\ ~ (l = Pages!StorageList /\ filter = "nobody")
Growing(l) == l.cut = "pages" /\ l.order = "oldest"
Logging(l) == l.cut = "pages" /\ l.order = "newest" /\ l.count = "after"

\* While nobody writes, the rows up to the page were shown once.
Still(l, s, W, w) ==
    w.at = "reading" /\ w.writes = {} /\ Exact(l, w.filter) =>
        /\ w.before = {s[k] : k \in Hits(s, W)}
        /\ \A i \in Pages!Ids \ w.before : w.seen[i] = 0
        /\ \A k \in Hits(s, W) : w.seen[s[k]] = IF RankOf(s, W, k) <= SkipOf(w) THEN 1 ELSE 0
        /\ w.items # None => w.items = {s[k] : k \in Part(s, W, SkipOf(w), w.size)}
        /\ w.total # None => w.total = Cardinality(Hits(s, W))

\* Where rows come last, those there were at the start keep their ranks.
Placed(l, s, W, w) ==
    w.at = "reading" /\ w.writes \subseteq {"insert"} /\ Growing(l) =>
        \A i \in w.before : \E k \in Hits(s, W) :
            /\ s[k] = i
            /\ w.seen[i] = IF RankOf(s, W, k) <= SkipOf(w) THEN 1 ELSE 0
            /\ w.items # None =>
                 (i \in w.items <=> SkipOf(w) < RankOf(s, W, k) /\ RankOf(s, W, k) <= SkipOf(w) + w.size)
            /\ w.total # None => RankOf(s, W, k) <= w.total

\* Where they come first, one that was not shown is still ahead, and the total says so.
Ahead(l, s, W, w) ==
    w.at = "reading" /\ w.writes \subseteq {"insert"} /\ Logging(l) =>
        /\ w.items = None => w.total = None
        /\ \A i \in w.before : \E k \in Hits(s, W) :
             /\ s[k] = i
             /\ \/ w.seen[i] >= 1
                \/ w.items = None /\ SkipOf(w) < RankOf(s, W, k)
                \/ w.items # None /\ i \in w.items
                \/ w.items # None /\ SkipOf(w) + w.size < RankOf(s, W, k)
                     /\ (w.total # None => SkipOf(w) + w.size < w.total)

Covered(l, w) ==
    w.at = "done" /\ w.writes = {} /\ Exact(l, w.filter) =>
        /\ \A i \in Pages!Ids : w.seen[i] = IF i \in w.before THEN 1 ELSE 0
        /\ w.total = Cardinality(w.before)

Unskipped(l, w) ==
    w.at = "done" /\ w.writes = {"insert"} =>
        /\ Growing(l) => \A i \in w.before : w.seen[i] = 1
        /\ Logging(l) => \A i \in w.before : w.seen[i] >= 1

IsPage(w) ==
    /\ w = [at |-> w.at, filter |-> w.filter, page |-> w.page, size |-> w.size, items |-> w.items,
            total |-> w.total, seen |-> w.seen, before |-> w.before, writes |-> w.writes]
    /\ w.at \in {"idle", "reading", "done"} /\ w.filter \in Pages!Filters
    /\ w.page \in Nat \ {0} /\ w.size \in Nat \ {0}
    /\ w.items \in (SUBSET Pages!Ids) \cup {None} /\ w.total \in Nat \cup {None}
    /\ w.seen \in [Pages!Ids -> Nat] /\ w.before \in SUBSET Pages!Ids
    /\ w.writes \in SUBSET {"insert", "delete"}

RowsOK ==
    /\ list \in Pages!AllLists /\ rows \in Seq(Pages!Ids)
    /\ \A j, k \in DOMAIN rows : rows[j] = rows[k] => j = k
    /\ some \subseteq {rows[k] : k \in DOMAIN rows}
    /\ count \in 0..MaxRow /\ \A k \in DOMAIN rows : rows[k] <= count

Walked(l, s, W, w) ==
    /\ Still(l, s, W, w) /\ Placed(l, s, W, w) /\ Ahead(l, s, W, w)
    /\ Covered(l, w) /\ Unskipped(l, w)

PageInv == RowsOK /\ IsPage(page) /\ Walked(list, rows, Pages!Where(page.filter), page)

\* What the WHERE of a list leaves of its rows.
LEMMA WhereIs ==
  ASSUME RowsOK, NEW f \in Pages!Filters
  PROVE  /\ Pages!Matches(f) \in SUBSET Pages!Ids
         /\ Exact(list, f) \/ Growing(list) \/ Logging(list) =>
              Pages!Matches(f) = {rows[k] : k \in Hits(rows, Pages!Where(f))}
<1>1. PICK T : T = {rows[k] : k \in DOMAIN rows} /\ Pages!ToSet(rows) = T
  BY PageLibrary
<1>2. T \subseteq Pages!Ids
  <2>1. DOMAIN rows = 1..Len(rows) /\ \A k \in 1..Len(rows) : rows[k] \in Pages!Ids
    BY DEF RowsOK
  <2> QED BY <1>1, <2>1
<1>3. Pages!Matches(f) \subseteq T
  BY <1>1 DEF Pages!Matches, Pages!Filters
<1>4. ASSUME Exact(list, f) \/ Growing(list) \/ Logging(list) PROVE Pages!Where(f) = Pages!Matches(f)
  <2>1. list = Pages!StorageList => ~ Growing(list) /\ ~ Logging(list)
    BY DEF Growing, Logging, Pages!StorageList, Pages!List
  <2> QED BY <1>4, <2>1 DEF Exact, Pages!Where
<1>5. ASSUME NEW M, M \subseteq T PROVE M = {rows[k] : k \in Hits(rows, M)}
  BY <1>1, <1>5 DEF Hits
<1> QED BY <1>2, <1>3, <1>4, <1>5

LEMMA SelectedIs ==
  ASSUME NEW w, w = page, IsPage(w), NEW W, W = Pages!Where(w.filter)
  PROVE  /\ Pages!Selected = Hits(rows, W)
         /\ Pages!Cardinality(Pages!Selected) = Cardinality(Hits(rows, W))
         /\ Pages!CutAt(w.page, w.size) = {rows[k] : k \in Part(rows, W, SkipOf(w), w.size)}
<1>1. Pages!Selected = Hits(rows, W)
  BY DEF Pages!Selected, Hits
<1>2. \A k : Pages!Rank(k) = RankOf(rows, W, k)
  <2> SUFFICES ASSUME NEW k PROVE Pages!Rank(k) = RankOf(rows, W, k)
    OBVIOUS
  <2>1. PICK U : U = {j \in Pages!Selected : j <= k}
    OBVIOUS
  <2>2. U = Upwards(rows, W, k)
    BY <1>1, <2>1 DEF Upwards
  <2>3. Pages!Rank(k) = Cardinality(U)
    BY <2>1, PageLibrary DEF Pages!Rank
  <2> QED BY <2>2, <2>3 DEF RankOf
<1>3. Pages!Skip(w.page, w.size) = SkipOf(w)
  BY DEF Pages!Skip, SkipOf
<1>4. {k \in Pages!Selected : Pages!Skip(w.page, w.size) < Pages!Rank(k)
                              /\ Pages!Rank(k) <= Pages!Skip(w.page, w.size) + w.size} =
      Part(rows, W, SkipOf(w), w.size)
  BY <1>1, <1>2, <1>3 DEF Part
<1>5. Pages!CutAt(w.page, w.size) = {rows[k] : k \in Part(rows, W, SkipOf(w), w.size)}
  BY <1>4 DEF Pages!CutAt, Pages!RowsAt
<1>6. Pages!Cardinality(Pages!Selected) = Cardinality(Hits(rows, W))
  BY <1>1, PageLibrary
<1> QED BY <1>1, <1>5, <1>6

\* The numbers of a walk.
LEMMA SkipIs ==
  ASSUME NEW w, IsPage(w)
  PROVE  /\ SkipOf(w) \in Nat /\ SkipOf(w) + w.size = w.page * w.size
         /\ \A n \in Nat : ~ (w.page < Pages!TotalPages(n, w.size)) => n <= SkipOf(w) + w.size
<1>1. PICK m, z \in Nat \ {0} : m = w.page /\ z = w.size
  BY DEF IsPage
<1>2. (m - 1) * z \in Nat /\ (m - 1) * z + z = m * z
  <2>1. PICK k \in Nat : k = m - 1 /\ m = k + 1
    BY <1>1
  <2>2. k * z \in Nat /\ (k + 1) * z = k * z + z
    BY <1>1, <2>1
  <2> QED BY <2>1, <2>2
<1>3. ASSUME NEW n \in Nat, ~ (m < (n + z - 1) \div z) PROVE n <= m * z
  <2>1. PICK a1 \in Nat : a1 = n + z - 1
    BY <1>1
  <2>2. PICK r \in Int : r = a1 \div z /\ a1 < z * (r + 1)
    BY <1>1, <2>1
  <2>3. r <= m
    BY <1>1, <1>3, <2>1, <2>2
  <2>4. z * (r + 1) <= z * (m + 1)
    BY <1>1, <2>2, <2>3
  <2>5. z * (m + 1) = m * z + z /\ m * z \in Nat
    BY <1>1
  <2>6. z * (r + 1) \in Int /\ z * (m + 1) \in Int
    BY <1>1, <2>2
  <2> QED BY <1>1, <2>1, <2>2, <2>4, <2>5, <2>6
<1> QED BY <1>1, <1>2, <1>3 DEF SkipOf, Pages!TotalPages

LEMMA IdlePage == IsPage(Pages!Idle) /\ Pages!Idle.at = "idle"
<1>1. PICK q : q = Pages!Idle
  OBVIOUS
<1>2. q = [at |-> "idle", filter |-> "none", page |-> 1, size |-> 1, items |-> None, total |-> None,
           seen |-> [i \in Pages!Ids |-> 0], before |-> {}, writes |-> {}]
  BY <1>1 DEF Pages!Idle
<1>3. /\ q.at = "idle" /\ q.filter = "none" /\ q.page = 1 /\ q.size = 1 /\ q.items = None /\ q.total = None
      /\ q.seen = [i \in Pages!Ids |-> 0] /\ q.before = {} /\ q.writes = {}
  BY <1>2
<1>4. q.seen \in [Pages!Ids -> Nat] /\ q.filter \in Pages!Filters
  BY <1>3 DEF Pages!Filters
<1>5. IsPage(q)
  <2>1. q = [at |-> q.at, filter |-> q.filter, page |-> q.page, size |-> q.size, items |-> q.items,
           total |-> q.total, seen |-> q.seen, before |-> q.before, writes |-> q.writes]
    BY <1>2, <1>3
  <2>2. /\ q.at \in {"idle", "reading", "done"} /\ q.page \in Nat \ {0} /\ q.size \in Nat \ {0}
        /\ q.items \in (SUBSET Pages!Ids) \cup {None} /\ q.total \in Nat \cup {None}
        /\ q.before \in SUBSET Pages!Ids /\ q.writes \in SUBSET {"insert", "delete"}
    BY <1>3
  <2> QED BY <1>4, <2>1, <2>2 DEF IsPage
<1> QED BY <1>1, <1>3, <1>5

LEMMA NotReading ==
  ASSUME NEW w, w.at = "idle", NEW l, NEW s, NEW W
  PROVE  Walked(l, s, W, w)
  BY DEF Walked, Still, Placed, Ahead, Covered, Unskipped

LEMMA PageInit == ASSUME Pages!PagingAssumption, Pages!Init PROVE PageInv
<1>1. /\ list \in Pages!AllLists /\ rows = <<>> /\ some = {} /\ count = 0 /\ page = Pages!Idle
  BY DEF Pages!Init
<1>2. RowsOK
  <2>1. rows \in Seq(Pages!Ids) /\ DOMAIN rows = {}
    BY <1>1
  <2>2. 0 \in 0..MaxRow
    BY DEF Pages!PagingAssumption
  <2> QED BY <1>1, <2>1, <2>2 DEF RowsOK
<1> QED BY <1>1, <1>2, IdlePage, NotReading DEF PageInv

LEMMA ClosePage == ASSUME PageInv, Pages!Close PROVE PageInv'
<1>1. page' = Pages!Idle /\ UNCHANGED <<list, rows, some, count>>
  BY DEF Pages!Close
<1>2. PICK q : q = Pages!Idle
  OBVIOUS
<1>3. IsPage(q) /\ q.at = "idle" /\ page' = q
  BY <1>1, <1>2, IdlePage
<1>4. \A l, s, W : Walked(l, s, W, q)
  BY <1>3, NotReading
<1>5. RowsOK'
  BY <1>1 DEF PageInv, RowsOK
<1> QED BY <1>3, <1>4, <1>5 DEF PageInv

LEMMA OpenPage ==
  ASSUME Pages!PagingAssumption, PageInv, NEW f \in Pages!Filters, NEW n, Pages!Open(f, n)
  PROVE  PageInv'
<1>1. PICK z \in Nat \ {0} : z = Pages!Resolved(n, DefaultSize)
  BY DEF Pages!Open, Pages!PagingAssumption
<1>2. PICK q : q = [at |-> "reading", filter |-> f, page |-> 1, size |-> z, items |-> None, total |-> None,
                    seen |-> [i \in Pages!Ids |-> 0], before |-> Pages!Matches(f), writes |-> {}]
  OBVIOUS
<1>3. page' = q /\ UNCHANGED <<list, rows, some, count>>
  <2>1. PICK w : w = Pages!Idle
    OBVIOUS
  <2>2. w = [at |-> "idle", filter |-> "none", page |-> 1, size |-> 1, items |-> None, total |-> None,
             seen |-> [i \in Pages!Ids |-> 0], before |-> {}, writes |-> {}]
    BY <2>1 DEF Pages!Idle
  <2>3. /\ w = [at |-> w.at, filter |-> w.filter, page |-> w.page, size |-> w.size, items |-> w.items,
                total |-> w.total, seen |-> w.seen, before |-> w.before, writes |-> w.writes]
        /\ w.page = 1 /\ w.items = None /\ w.total = None /\ w.seen = [i \in Pages!Ids |-> 0] /\ w.writes = {}
    BY <2>2
  <2>4. PICK B : B = Pages!Matches(f)
    OBVIOUS
  <2>5. page' = [w EXCEPT !.at = "reading", !.filter = f, !.before = B, !.size = z]
    BY <1>1, <2>1, <2>4 DEF Pages!Open
  <2>6. page' = [at |-> "reading", filter |-> f, page |-> w.page, size |-> z, items |-> w.items,
                 total |-> w.total, seen |-> w.seen, before |-> B, writes |-> w.writes]
    BY <2>3, <2>5, OpenedPage
  <2> QED BY <1>2, <2>3, <2>4, <2>6 DEF Pages!Open
<1>4. RowsOK /\ RowsOK'
  BY <1>3 DEF PageInv, RowsOK
<1>5. IsPage(q)
  <2>1. Pages!Matches(f) \in SUBSET Pages!Ids
    BY <1>4, WhereIs
  <2>2. /\ q.at = "reading" /\ q.filter = f /\ q.page = 1 /\ q.size = z /\ q.items = None /\ q.total = None
        /\ q.seen = [i \in Pages!Ids |-> 0] /\ q.before = Pages!Matches(f) /\ q.writes = {}
    BY <1>2
  <2>3. q.seen \in [Pages!Ids -> Nat]
    BY <2>2
  <2>4. q = [at |-> q.at, filter |-> q.filter, page |-> q.page, size |-> q.size, items |-> q.items,
           total |-> q.total, seen |-> q.seen, before |-> q.before, writes |-> q.writes]
    BY <1>2, <2>2
  <2>5. /\ q.at \in {"idle", "reading", "done"} /\ q.page \in Nat \ {0} /\ q.size \in Nat \ {0}
        /\ q.items \in (SUBSET Pages!Ids) \cup {None} /\ q.total \in Nat \cup {None}
        /\ q.before \in SUBSET Pages!Ids /\ q.writes \in SUBSET {"insert", "delete"}
        /\ q.filter \in Pages!Filters
    BY <2>1, <2>2
  <2> QED BY <2>3, <2>4, <2>5 DEF IsPage
<1>6. /\ q.at = "reading" /\ q.filter = f /\ q.items = None /\ q.total = None /\ q.before = Pages!Matches(f)
      /\ \A i \in Pages!Ids : q.seen[i] = 0
      /\ SkipOf(q) = 0
  BY <1>1, <1>2 DEF SkipOf
<1>7. PICK W : W = Pages!Where(f)
  OBVIOUS
<1>8. rows \in Seq(Pages!Ids) /\ \A k \in Hits(rows, W) : rows[k] \in Pages!Ids
  BY <1>4 DEF RowsOK, Hits
<1>9. \A k \in Hits(rows, W) : ~ (RankOf(rows, W, k) <= 0) /\ 0 < RankOf(rows, W, k)
  BY <1>8, HitsAre
<1>10. Still(list, rows, W, q)
  BY <1>4, <1>6, <1>7, <1>8, <1>9, WhereIs DEF Still
<1>11. ASSUME Growing(list) \/ Logging(list)
       PROVE  \A i \in q.before : \E k \in Hits(rows, W) : rows[k] = i /\ i \in Pages!Ids
  BY <1>4, <1>6, <1>7, <1>8, <1>11, WhereIs
<1>12. Placed(list, rows, W, q)
  BY <1>6, <1>9, <1>11 DEF Placed
<1>13. Ahead(list, rows, W, q)
  BY <1>6, <1>9, <1>11 DEF Ahead
<1>14. Walked(list, rows, W, q)
  BY <1>6, <1>10, <1>12, <1>13 DEF Walked, Covered, Unskipped
<1>15. Pages!Where(f)' = W
  BY <1>3, <1>7 DEF Pages!Where, Pages!Matches, Pages!StorageList, Pages!List
<1>16. Pages!Where(page.filter)' = W
  BY <1>3, <1>6, <1>15 DEF Pages!Where, Pages!Matches
<1> QED BY <1>3, <1>4, <1>5, <1>14, <1>16 DEF PageInv

\* The steps of a request leave the rows, and with them what the WHERE leaves.
LEMMA SameRows ==
  ASSUME RowsOK, UNCHANGED <<list, rows, some, count>>, NEW w, w.filter = page'.filter,
         NEW W, W = Pages!Where(w.filter)
  PROVE  RowsOK' /\ Pages!Where(page.filter)' = W
<1>1. RowsOK'
  BY DEF RowsOK
<1>2. PICK f : f = w.filter
  OBVIOUS
<1>3. Pages!Where(f)' = W
  BY <1>2 DEF Pages!Where, Pages!Matches, Pages!StorageList, Pages!List
<1>4. Pages!Where(page.filter)' = W
  BY <1>2, <1>3 DEF Pages!Where, Pages!Matches
<1> QED BY <1>1, <1>4

LEMMA IdsFinite == ASSUME Pages!PagingAssumption PROVE IsFiniteSet(Pages!Ids)
<1>1. MaxRow \in Int
  BY DEF Pages!PagingAssumption
<1> QED BY <1>1, FS_Interval DEF Pages!Ids

\* Of the rows of a page.
LEMMA PartIs ==
  ASSUME Pages!PagingAssumption, RowsOK, NEW W, NEW m \in Nat, NEW n \in Nat
  PROVE  LET P == Part(rows, W, m, n)
             S == {rows[k] : k \in P}
         IN  /\ S \in SUBSET Pages!Ids /\ IsFiniteSet(S) /\ Cardinality(S) \in Nat
             /\ S # {} /\ Cardinality(S) < n => m + Cardinality(S) = Cardinality(Hits(rows, W))
             /\ \A k \in Hits(rows, W) : rows[k] \in Pages!Ids
             /\ \A k \in Hits(rows, W) :
                  rows[k] \in S <=> m < RankOf(rows, W, k) /\ RankOf(rows, W, k) <= m + n
<1>1. PICK P, S : P = Part(rows, W, m, n) /\ S = {rows[k] : k \in P}
  OBVIOUS
<1>2. /\ rows \in Seq(Pages!Ids) /\ DOMAIN rows = 1..Len(rows) /\ Hits(rows, W) \subseteq DOMAIN rows
      /\ \A j, k \in DOMAIN rows : rows[j] = rows[k] => j = k
  BY DEF RowsOK, Hits
<1>3. P \subseteq Hits(rows, W) /\ IsFiniteSet(P)
  <2>1. P \subseteq Hits(rows, W)
    BY <1>1 DEF Part
  <2>2. IsFiniteSet(Hits(rows, W))
    BY <1>2, HitsAre
  <2> QED BY <2>1, <2>2, FS_Subset
<1>4. \A k \in Hits(rows, W) : rows[k] \in Pages!Ids
  BY <1>2
<1>5. Cardinality(S) = Cardinality(P) /\ Cardinality(S) \in Nat
  BY <1>1, <1>2, <1>3, RowsCount, FS_CardinalityType
<1>6. S \in SUBSET Pages!Ids
  BY <1>1, <1>3, <1>4
<1>7. IsFiniteSet(S)
  <2>1. IsFiniteSet(Pages!Ids)
    BY IdsFinite
  <2> QED BY <1>6, <2>1, FS_Subset
<1>8. ASSUME S # {}, Cardinality(S) < n PROVE m + Cardinality(S) = Cardinality(Hits(rows, W))
  <2>1. P # {} /\ Cardinality(P) < n
    BY <1>1, <1>5, <1>8
  <2> QED BY <1>1, <1>2, <1>5, <2>1, ShortIsLast
<1>9. ASSUME NEW k \in Hits(rows, W)
      PROVE  rows[k] \in S <=> m < RankOf(rows, W, k) /\ RankOf(rows, W, k) <= m + n
  <2>1. rows[k] \in S <=> k \in P
    BY <1>1, <1>2, <1>3
  <2> QED BY <1>1, <2>1 DEF Part
<1> QED BY <1>1, <1>4, <1>5, <1>6, <1>7, <1>8, <1>9

LEMMA ReadItemsPage == ASSUME Pages!PagingAssumption, PageInv, Pages!ReadItems PROVE PageInv'
<1>1. PICK w : w = page
  OBVIOUS
<1>2. PICK W : W = Pages!Where(w.filter)
  OBVIOUS
<1>3. /\ RowsOK /\ IsPage(w) /\ Walked(list, rows, W, w) /\ w.at = "reading" /\ w.items = None
      /\ UNCHANGED <<list, rows, some, count>>
  BY <1>1, <1>2 DEF PageInv, Pages!ReadItems
<1>4. PICK m, n \in Nat : m = SkipOf(w) /\ n = w.size
  BY <1>3, SkipIs DEF IsPage
<1>5. PICK H : H = Hits(rows, W)
  OBVIOUS
<1>6. PICK C : C = {rows[k] : k \in Part(rows, W, m, n)}
  OBVIOUS
<1>7. /\ C \in SUBSET Pages!Ids /\ IsFiniteSet(C) /\ Cardinality(C) \in Nat
      /\ C # {} /\ Cardinality(C) < n => m + Cardinality(C) = Cardinality(H)
      /\ \A k \in H : rows[k] \in Pages!Ids
      /\ \A k \in H : rows[k] \in C <=> m < RankOf(rows, W, k) /\ RankOf(rows, W, k) <= m + n
  BY <1>3, <1>5, <1>6, PartIs
<1>8. /\ Cardinality(H) \in Nat /\ \A k \in H : RankOf(rows, W, k) \in 1..Cardinality(H)
  BY <1>3, <1>5, HitsAre DEF RowsOK
<1>9. /\ Pages!CutAt(w.page, w.size) = C /\ Pages!Cardinality(Pages!Selected) = Cardinality(H)
      /\ Pages!RowsAt(Pages!Selected) = {rows[k] : k \in H}
  <2>1. /\ Pages!Selected = Hits(rows, W)
        /\ Pages!Cardinality(Pages!Selected) = Cardinality(Hits(rows, W))
        /\ Pages!CutAt(w.page, w.size) = {rows[k] : k \in Part(rows, W, SkipOf(w), w.size)}
    BY <1>1, <1>2, <1>3, SelectedIs
  <2> QED BY <1>4, <1>5, <1>6, <2>1 DEF Pages!RowsAt
<1>10. PICK I \in Pages!Cuts :
         page' = [w EXCEPT !.items = I,
                           !.total = IF ~ (\/ list.count = "same"
                                           \/ list.count = "after" /\ I # {} /\ Pages!Cardinality(I) < w.size)
                                     THEN w.total
                                     ELSE IF list.count = "same" THEN Pages!Cardinality(Pages!Selected)
                                     ELSE Pages!Skip(w.page, w.size) + Pages!Cardinality(I)]
  BY <1>1 DEF Pages!ReadItems
<1>11. I \in SUBSET Pages!Ids /\ IsFiniteSet(I) /\ Cardinality(I) \in Nat
       /\ (list.cut # "nothing" /\ list.order # "tied" => I = C)
  <2>1. {rows[k] : k \in H} \in SUBSET Pages!Ids
    BY <1>7
  <2>2. I \in SUBSET Pages!Ids /\ (list.cut # "nothing" /\ list.order # "tied" => I = C)
    BY <1>1, <1>7, <1>9, <1>10, <2>1 DEF Pages!Cuts
  <2>3. IsFiniteSet(I)
    BY <2>2, IdsFinite, FS_Subset
  <2> QED BY <2>2, <2>3, FS_CardinalityType
<1>12. PICK tot : tot = IF ~ (list.count = "same" \/ (list.count = "after" /\ I # {} /\ Cardinality(I) < n))
                        THEN w.total
                        ELSE IF list.count = "same" THEN Cardinality(H) ELSE m + Cardinality(I)
  OBVIOUS
<1>13. page' = [w EXCEPT !.items = I, !.total = tot]
  <2>1. Pages!Cardinality(I) = Cardinality(I) /\ Pages!Skip(w.page, w.size) = m
    BY <1>4, PageLibrary DEF Pages!Skip, SkipOf
  <2> QED BY <1>4, <1>9, <1>10, <1>12, <2>1
<1>14. PICK q : q = [at |-> w.at, filter |-> w.filter, page |-> w.page, size |-> w.size, items |-> I,
                     total |-> tot, seen |-> w.seen, before |-> w.before, writes |-> w.writes]
  OBVIOUS
<1>15. page' = q
  <2>1. w = [at |-> w.at, filter |-> w.filter, page |-> w.page, size |-> w.size, items |-> w.items,
             total |-> w.total, seen |-> w.seen, before |-> w.before, writes |-> w.writes]
    BY <1>3 DEF IsPage
  <2>2. PICK v : v = page'
    OBVIOUS
  <2>3. v = [w EXCEPT !.items = I, !.total = tot]
    BY <1>13, <2>2
  <2>4. v = [at |-> w.at, filter |-> w.filter, page |-> w.page, size |-> w.size, items |-> I,
             total |-> tot, seen |-> w.seen, before |-> w.before, writes |-> w.writes]
    BY ONLY <2>1, <2>3, ReadPage
  <2> QED BY <1>14, <2>2, <2>4
<1>16. /\ q.at = w.at /\ q.filter = w.filter /\ q.page = w.page /\ q.size = w.size /\ q.items = I
       /\ q.total = tot /\ q.seen = w.seen /\ q.before = w.before /\ q.writes = w.writes
       /\ SkipOf(q) = m
  BY <1>4, <1>14 DEF SkipOf
<1>17. tot \in Nat \cup {None}
  BY <1>3, <1>4, <1>8, <1>11, <1>12 DEF IsPage
<1>18. IsPage(q)
  <2>1. q = [at |-> q.at, filter |-> q.filter, page |-> q.page, size |-> q.size, items |-> q.items,
             total |-> q.total, seen |-> q.seen, before |-> q.before, writes |-> q.writes]
    BY <1>14, <1>16
  <2>2. q.items \in (SUBSET Pages!Ids) \cup {None} /\ q.total \in Nat \cup {None}
    BY <1>11, <1>16, <1>17
  <2> QED BY <1>3, <1>16, <2>1, <2>2 DEF IsPage
<1>19. I # None
  BY <1>11 DEF Pages!PagingAssumption
<1>20. ASSUME list.cut # "nothing", list.order # "tied" PROVE I = C /\ (tot = w.total \/ tot = Cardinality(H))
  BY <1>7, <1>11, <1>12, <1>20
<1>21. Still(list, rows, W, q)
  <2> SUFFICES ASSUME q.at = "reading", q.writes = {}, Exact(list, q.filter)
               PROVE  /\ q.before = {rows[k] : k \in H}
                      /\ \A i \in Pages!Ids \ q.before : q.seen[i] = 0
                      /\ \A k \in H : q.seen[rows[k]] = IF RankOf(rows, W, k) <= m THEN 1 ELSE 0
                      /\ q.items # None => q.items = C
                      /\ q.total # None => q.total = Cardinality(H)
    BY <1>4, <1>5, <1>6, <1>16 DEF Still
  <2>1. I = C /\ (tot = w.total \/ tot = Cardinality(H))
    BY <1>20 DEF Exact
  <2>2. /\ w.before = {rows[k] : k \in H}
        /\ \A i \in Pages!Ids \ w.before : w.seen[i] = 0
        /\ \A k \in H : w.seen[rows[k]] = IF RankOf(rows, W, k) <= m THEN 1 ELSE 0
        /\ w.total # None => w.total = Cardinality(H)
    BY <1>3, <1>4, <1>5, <1>16 DEF Walked, Still
  <2> QED BY <1>16, <2>1, <2>2
<1>22. Placed(list, rows, W, q)
  <2> SUFFICES ASSUME q.at = "reading", q.writes \subseteq {"insert"}, Growing(list), NEW i \in w.before
               PROVE  \E k \in H :
                        /\ rows[k] = i
                        /\ w.seen[i] = IF RankOf(rows, W, k) <= m THEN 1 ELSE 0
                        /\ i \in I <=> m < RankOf(rows, W, k) /\ RankOf(rows, W, k) <= m + n
                        /\ tot # None => RankOf(rows, W, k) <= tot
    BY <1>4, <1>5, <1>16 DEF Placed
  <2>1. I = C /\ (tot = w.total \/ tot = Cardinality(H))
    BY <1>20 DEF Growing
  <2>2. PICK k \in H : /\ rows[k] = i
                       /\ w.seen[i] = IF RankOf(rows, W, k) <= m THEN 1 ELSE 0
                       /\ w.total # None => RankOf(rows, W, k) <= w.total
    BY <1>3, <1>4, <1>5, <1>16 DEF Walked, Placed
  <2>3. tot # None => RankOf(rows, W, k) <= tot
    BY <1>8, <2>1, <2>2
  <2>4. i \in I <=> m < RankOf(rows, W, k) /\ RankOf(rows, W, k) <= m + n
    BY <1>7, <2>1, <2>2
  <2> QED BY <2>2, <2>3, <2>4
<1>23. Ahead(list, rows, W, q)
  <2> SUFFICES ASSUME q.at = "reading", q.writes \subseteq {"insert"}, Logging(list), NEW i \in w.before
               PROVE  \E k \in H : /\ rows[k] = i
                                   /\ \/ w.seen[i] >= 1
                                      \/ i \in I
                                      \/ m + n < RankOf(rows, W, k) /\ (tot # None => m + n < tot)
    BY <1>4, <1>5, <1>16, <1>19 DEF Ahead
  <2>1. I = C /\ (tot = w.total \/ tot = Cardinality(H)) /\ w.total = None
    BY <1>3, <1>16, <1>20 DEF Logging, Walked, Ahead
  <2>2. PICK k \in H : rows[k] = i /\ (w.seen[i] >= 1 \/ m < RankOf(rows, W, k))
    BY <1>3, <1>4, <1>5, <1>16 DEF Walked, Ahead
  <2>3. CASE m < RankOf(rows, W, k) /\ RankOf(rows, W, k) <= m + n
    BY <1>7, <2>1, <2>2, <2>3
  <2>4. CASE m + n < RankOf(rows, W, k)
    <3>1. m + n < Cardinality(H)
      BY <1>8, <2>4
    <3> QED BY <2>1, <2>2, <2>4, <3>1
  <2>5. CASE w.seen[i] >= 1
    BY <2>2, <2>5
  <2> QED BY <1>8, <2>2, <2>3, <2>4, <2>5
<1>24. Walked(list, rows, W, q)
  BY <1>3, <1>16, <1>21, <1>22, <1>23 DEF Walked, Covered, Unskipped
<1>25. RowsOK' /\ Pages!Where(page.filter)' = W
  BY <1>2, <1>3, <1>15, <1>16, SameRows
<1> QED BY <1>3, <1>15, <1>18, <1>24, <1>25 DEF PageInv

LEMMA CountPage == ASSUME Pages!PagingAssumption, PageInv, Pages!Count PROVE PageInv'
<1>1. PICK w : w = page
  OBVIOUS
<1>2. PICK W : W = Pages!Where(w.filter)
  OBVIOUS
<1>3. /\ RowsOK /\ IsPage(w) /\ Walked(list, rows, W, w) /\ w.at = "reading"
      /\ list.count = "after" => w.items # None
      /\ UNCHANGED <<list, rows, some, count>>
  BY <1>1, <1>2 DEF PageInv, Pages!Count
<1>4. PICK H : H = Hits(rows, W)
  OBVIOUS
<1>5. /\ Cardinality(H) \in Nat /\ \A k \in H : RankOf(rows, W, k) \in 1..Cardinality(H)
  BY <1>3, <1>4, HitsAre DEF RowsOK
<1>6. PICK tot \in Nat : tot = Cardinality(H) /\ tot # None
  BY <1>5 DEF Pages!PagingAssumption
<1>7. page' = [w EXCEPT !.total = tot]
  <2>1. Pages!Cardinality(Pages!Selected) = tot
    BY <1>1, <1>2, <1>3, <1>4, <1>6, SelectedIs
  <2> QED BY <1>1, <2>1 DEF Pages!Count
<1>8. PICK q : q = [at |-> w.at, filter |-> w.filter, page |-> w.page, size |-> w.size, items |-> w.items,
                    total |-> tot, seen |-> w.seen, before |-> w.before, writes |-> w.writes]
  OBVIOUS
<1>9. page' = q
  <2>1. w = [at |-> w.at, filter |-> w.filter, page |-> w.page, size |-> w.size, items |-> w.items,
             total |-> w.total, seen |-> w.seen, before |-> w.before, writes |-> w.writes]
    BY <1>3 DEF IsPage
  <2> QED BY <1>7, <1>8, <2>1, CountedPage
<1>10. /\ q.at = w.at /\ q.filter = w.filter /\ q.page = w.page /\ q.size = w.size /\ q.items = w.items
       /\ q.total = tot /\ q.seen = w.seen /\ q.before = w.before /\ q.writes = w.writes
       /\ SkipOf(q) = SkipOf(w)
  BY <1>8 DEF SkipOf
<1>11. IsPage(q)
  <2>1. q = [at |-> q.at, filter |-> q.filter, page |-> q.page, size |-> q.size, items |-> q.items,
             total |-> q.total, seen |-> q.seen, before |-> q.before, writes |-> q.writes]
    BY <1>8, <1>10
  <2> QED BY <1>3, <1>10, <2>1 DEF IsPage
<1>12. Still(list, rows, W, q)
  BY <1>3, <1>4, <1>6, <1>10 DEF Walked, Still
<1>13. Placed(list, rows, W, q)
  <2> SUFFICES ASSUME q.at = "reading", q.writes \subseteq {"insert"}, Growing(list), NEW i \in w.before
               PROVE  \E k \in Hits(rows, W) :
                        /\ rows[k] = i
                        /\ w.seen[i] = IF RankOf(rows, W, k) <= SkipOf(w) THEN 1 ELSE 0
                        /\ w.items # None =>
                             (i \in w.items <=> SkipOf(w) < RankOf(rows, W, k)
                                                /\ RankOf(rows, W, k) <= SkipOf(w) + w.size)
                        /\ RankOf(rows, W, k) <= tot
    BY <1>10 DEF Placed
  <2>1. PICK k \in Hits(rows, W) :
                        /\ rows[k] = i
                        /\ w.seen[i] = IF RankOf(rows, W, k) <= SkipOf(w) THEN 1 ELSE 0
                        /\ w.items # None =>
                             (i \in w.items <=> SkipOf(w) < RankOf(rows, W, k)
                                                /\ RankOf(rows, W, k) <= SkipOf(w) + w.size)
    BY <1>3, <1>10 DEF Walked, Placed
  <2>2. RankOf(rows, W, k) <= tot
    BY <1>4, <1>5, <1>6
  <2> QED BY <2>1, <2>2
<1>14. Ahead(list, rows, W, q)
  <2> SUFFICES ASSUME q.at = "reading", q.writes \subseteq {"insert"}, Logging(list)
               PROVE  /\ w.items # None
                      /\ \A i \in w.before : \E k \in Hits(rows, W) :
                           /\ rows[k] = i
                           /\ \/ w.seen[i] >= 1
                              \/ i \in w.items
                              \/ SkipOf(w) + w.size < RankOf(rows, W, k) /\ SkipOf(w) + w.size < tot
    BY <1>10 DEF Ahead
  <2>1. w.items # None
    BY <1>3 DEF Logging
  <2>2. ASSUME NEW i \in w.before
        PROVE  \E k \in Hits(rows, W) :
                 /\ rows[k] = i
                 /\ \/ w.seen[i] >= 1
                    \/ i \in w.items
                    \/ SkipOf(w) + w.size < RankOf(rows, W, k) /\ SkipOf(w) + w.size < tot
    <3>1. PICK k \in Hits(rows, W) : /\ rows[k] = i
                                     /\ \/ w.seen[i] >= 1
                                        \/ i \in w.items
                                        \/ SkipOf(w) + w.size < RankOf(rows, W, k)
      BY <1>3, <1>10, <2>1 DEF Walked, Ahead
    <3>2. PICK m, n \in Nat : m = SkipOf(w) /\ n = w.size
      BY <1>3, SkipIs DEF IsPage
    <3>3. m + n < RankOf(rows, W, k) => m + n < tot
      BY <1>4, <1>5, <1>6
    <3> QED BY <3>1, <3>2, <3>3
  <2> QED BY <2>1, <2>2
<1>15. Walked(list, rows, W, q)
  BY <1>3, <1>10, <1>12, <1>13, <1>14 DEF Walked, Covered, Unskipped
<1>16. RowsOK' /\ Pages!Where(page.filter)' = W
  BY <1>2, <1>3, <1>9, <1>10, SameRows
<1> QED BY <1>3, <1>9, <1>11, <1>15, <1>16 DEF PageInv

LEMMA ReplyPage == ASSUME Pages!PagingAssumption, PageInv, Pages!Reply PROVE PageInv'
<1>1. PICK w : w = page
  OBVIOUS
<1>2. PICK W : W = Pages!Where(w.filter)
  OBVIOUS
<1>3. /\ RowsOK /\ IsPage(w) /\ Walked(list, rows, W, w) /\ w.at = "reading"
      /\ w.items # None /\ w.total # None /\ UNCHANGED <<list, rows, some, count>>
  BY <1>1, <1>2 DEF PageInv, Pages!Reply
<1>4. w.total \in Nat /\ w.items \in SUBSET Pages!Ids /\ w.seen \in [Pages!Ids -> Nat] /\ w.before \in SUBSET Pages!Ids
  BY <1>3 DEF IsPage
<1>5. PICK m, n \in Nat : m = SkipOf(w) /\ n = w.size /\ m + n = w.page * w.size
  BY <1>3, SkipIs DEF IsPage
<1>6. PICK more \in BOOLEAN : more = (w.page < Pages!TotalPages(w.total, w.size))
  <2>1. PICK x : x = Pages!TotalPages(w.total, w.size)
    OBVIOUS
  <2>2. (w.page < x) \in BOOLEAN
    OBVIOUS
  <2> QED BY <2>1, <2>2
<1>7. ~ more => w.total <= m + n
  BY <1>3, <1>4, <1>5, <1>6, SkipIs
<1>8. PICK H : H = Hits(rows, W)
  OBVIOUS
<1>9. /\ Cardinality(H) \in Nat /\ \A k \in H : RankOf(rows, W, k) \in 1..Cardinality(H) /\ rows[k] \in Pages!Ids
      /\ IsFiniteSet(H) /\ H \subseteq DOMAIN rows
  <2>1. rows \in Seq(Pages!Ids) /\ H \subseteq DOMAIN rows
    BY <1>3, <1>8 DEF RowsOK, Hits
  <2>2. \A k \in H : rows[k] \in Pages!Ids
    BY <2>1
  <2> QED BY <1>8, <2>1, <2>2, HitsAre
<1>10. PICK g : g = [i \in Pages!Ids |-> IF i \in w.items THEN w.seen[i] + 1 ELSE w.seen[i]]
  OBVIOUS
<1>11. g \in [Pages!Ids -> Nat]
  BY <1>4, <1>10
<1>12. PICK q : q = [at |-> IF more THEN "reading" ELSE "done", filter |-> w.filter,
                     page |-> IF more THEN w.page + 1 ELSE w.page, size |-> w.size,
                     items |-> IF more THEN None ELSE w.items,
                     total |-> IF more THEN None ELSE w.total, seen |-> g, before |-> w.before,
                     writes |-> w.writes]
  OBVIOUS
<1>13. page' = q
  <2>1. PICK l, p, I, x : /\ l = (IF more THEN "reading" ELSE "done") /\ p = (IF more THEN w.page + 1 ELSE w.page)
                          /\ I = (IF more THEN None ELSE w.items) /\ x = (IF more THEN None ELSE w.total)
    OBVIOUS
  <2>2. page' = [w EXCEPT !.seen = g, !.at = l, !.page = p, !.items = I, !.total = x]
    BY <1>1, <1>6, <1>10, <2>1 DEF Pages!Reply
  <2>3. w = [at |-> w.at, filter |-> w.filter, page |-> w.page, size |-> w.size, items |-> w.items,
             total |-> w.total, seen |-> w.seen, before |-> w.before, writes |-> w.writes]
    BY <1>3 DEF IsPage
  <2>4. page' = [at |-> l, filter |-> w.filter, page |-> p, size |-> w.size, items |-> I,
                 total |-> x, seen |-> g, before |-> w.before, writes |-> w.writes]
    BY <2>2, <2>3, RepliedPage
  <2> QED BY <1>12, <2>1, <2>4
<1>14. /\ q.at = (IF more THEN "reading" ELSE "done") /\ q.page = (IF more THEN w.page + 1 ELSE w.page)
       /\ q.items = (IF more THEN None ELSE w.items) /\ q.total = (IF more THEN None ELSE w.total)
       /\ q.filter = w.filter /\ q.size = w.size /\ q.seen = g /\ q.before = w.before /\ q.writes = w.writes
  BY <1>12
<1>15. IsPage(q)
  <2>1. q = [at |-> q.at, filter |-> q.filter, page |-> q.page, size |-> q.size, items |-> q.items,
             total |-> q.total, seen |-> q.seen, before |-> q.before, writes |-> q.writes]
    BY <1>12, <1>14
  <2>2. q.page \in Nat \ {0} /\ q.at \in {"idle", "reading", "done"}
    BY <1>3, <1>14 DEF IsPage
  <2>3. q.items \in (SUBSET Pages!Ids) \cup {None} /\ q.total \in Nat \cup {None}
    BY <1>4, <1>14
  <2> QED BY <1>3, <1>11, <1>14, <2>1, <2>2, <2>3 DEF IsPage
<1>16. more => SkipOf(q) = m + n
  <2>1. PICK p \in Nat : p = w.page
    BY <1>3 DEF IsPage
  <2>2. more => SkipOf(q) = (p + 1 - 1) * n
    BY <1>5, <1>14, <2>1 DEF SkipOf
  <2>3. (p + 1 - 1) * n = p * n
    BY <2>1
  <2> QED BY <1>5, <2>1, <2>2, <2>3
\* What a page adds to a row in it, and to one outside.
<1>17. \A i \in Pages!Ids : g[i] = IF i \in w.items THEN w.seen[i] + 1 ELSE w.seen[i]
  BY <1>10
<1>18. ASSUME w.writes = {}, Exact(list, w.filter)
       PROVE  /\ w.before = {rows[k] : k \in H} /\ w.total = Cardinality(H)
              /\ \A i \in Pages!Ids \ w.before : g[i] = 0
              /\ \A k \in H : g[rows[k]] = IF RankOf(rows, W, k) <= m + n THEN 1 ELSE 0
  <2>1. /\ w.before = {rows[k] : k \in H}
        /\ \A i \in Pages!Ids \ w.before : w.seen[i] = 0
        /\ \A k \in H : w.seen[rows[k]] = IF RankOf(rows, W, k) <= m THEN 1 ELSE 0
        /\ w.items = {rows[k] : k \in Part(rows, W, m, n)}
        /\ w.total = Cardinality(H)
    BY <1>3, <1>5, <1>8, <1>18 DEF Walked, Still
  <2>2. \A k \in H : rows[k] \in w.items <=> m < RankOf(rows, W, k) /\ RankOf(rows, W, k) <= m + n
    BY <1>3, <1>8, <2>1, PartIs
  <2>3. w.items \subseteq w.before
    BY <1>8, <2>1 DEF Part
  <2>4. \A i \in Pages!Ids \ w.before : g[i] = 0
    BY <1>17, <2>1, <2>3
  <2>5. ASSUME NEW k \in H PROVE g[rows[k]] = IF RankOf(rows, W, k) <= m + n THEN 1 ELSE 0
    <3>1. PICK r \in Nat : r = RankOf(rows, W, k)
      BY <1>9
    <3>2. w.seen[rows[k]] = (IF r <= m THEN 1 ELSE 0) /\ (rows[k] \in w.items <=> m < r /\ r <= m + n)
      BY <2>1, <2>2, <3>1
    <3>3. g[rows[k]] = IF rows[k] \in w.items THEN w.seen[rows[k]] + 1 ELSE w.seen[rows[k]]
      BY <1>9, <1>17
    <3>4. CASE r <= m
      BY <3>1, <3>2, <3>3, <3>4
    <3>5. CASE m < r
      BY <3>1, <3>2, <3>3, <3>5
    <3> QED BY <3>1, <3>4, <3>5
  <2> QED BY <2>1, <2>4, <2>5
<1>19. ASSUME w.writes \subseteq {"insert"}, Growing(list), NEW i \in w.before
       PROVE  \E k \in H : /\ rows[k] = i /\ RankOf(rows, W, k) <= w.total
                           /\ g[i] = IF RankOf(rows, W, k) <= m + n THEN 1 ELSE 0
  <2>1. PICK k \in H : /\ rows[k] = i
                       /\ w.seen[i] = IF RankOf(rows, W, k) <= m THEN 1 ELSE 0
                       /\ i \in w.items <=> m < RankOf(rows, W, k) /\ RankOf(rows, W, k) <= m + n
                       /\ RankOf(rows, W, k) <= w.total
    BY <1>3, <1>5, <1>8, <1>19 DEF Walked, Placed
  <2>2. PICK r \in Nat : r = RankOf(rows, W, k)
    BY <1>9
  <2>3. g[i] = IF i \in w.items THEN w.seen[i] + 1 ELSE w.seen[i]
    BY <1>4, <1>17
  <2>4. g[i] = IF r <= m + n THEN 1 ELSE 0
    <3>1. CASE r <= m
      BY <2>1, <2>2, <2>3, <3>1
    <3>2. CASE m < r
      BY <2>1, <2>2, <2>3, <3>2
    <3> QED BY <3>1, <3>2
  <2> QED BY <2>1, <2>2, <2>4
<1>20. ASSUME w.writes \subseteq {"insert"}, Logging(list), NEW i \in w.before
       PROVE  \E k \in H : /\ rows[k] = i
                           /\ \/ g[i] >= 1
                              \/ m + n < RankOf(rows, W, k) /\ m + n < w.total
  <2>1. PICK k \in H : /\ rows[k] = i
                       /\ \/ w.seen[i] >= 1
                          \/ i \in w.items
                          \/ m + n < RankOf(rows, W, k) /\ m + n < w.total
    BY <1>3, <1>5, <1>8, <1>20 DEF Walked, Ahead
  <2>2. w.seen[i] \in Nat /\ g[i] = IF i \in w.items THEN w.seen[i] + 1 ELSE w.seen[i]
    BY <1>4, <1>17
  <2>3. w.seen[i] >= 1 \/ i \in w.items => g[i] >= 1
    BY <2>2
  <2> QED BY <2>1, <2>3
<1>21. CASE more
  <2>1. q.at = "reading" /\ q.items = None /\ q.total = None /\ SkipOf(q) = m + n
    BY <1>14, <1>16, <1>21
  <2>2. Still(list, rows, W, q)
    BY <1>8, <1>14, <1>18, <2>1 DEF Still
  <2>3. Placed(list, rows, W, q)
    BY <1>8, <1>14, <1>19, <2>1 DEF Placed
  <2>4. Ahead(list, rows, W, q)
    BY <1>8, <1>14, <1>20, <2>1 DEF Ahead
  <2>5. Walked(list, rows, W, q)
    BY <2>1, <2>2, <2>3, <2>4 DEF Walked, Covered, Unskipped
  <2>6. RowsOK' /\ Pages!Where(page.filter)' = W
    BY <1>2, <1>3, <1>13, <1>14, SameRows
  <2> QED BY <1>3, <1>13, <1>15, <2>5, <2>6 DEF PageInv
<1>22. CASE ~ more
  <2>1. q.at = "done" /\ q.total = w.total /\ w.total <= m + n
    BY <1>7, <1>14, <1>22
  <2>2. Covered(list, q)
    <3> SUFFICES ASSUME w.writes = {}, Exact(list, w.filter)
                 PROVE  /\ \A i \in Pages!Ids : g[i] = IF i \in w.before THEN 1 ELSE 0
                        /\ w.total = Cardinality(w.before)
      BY <1>14, <2>1 DEF Covered
    <3>1. \A k \in H : RankOf(rows, W, k) <= m + n
      BY <1>4, <1>9, <1>18, <2>1
    <3>2. \A i \in w.before : g[i] = 1
      BY <1>18, <3>1
    <3>3. Cardinality({rows[k] : k \in H}) = Cardinality(H)
      <4>1. rows \in Seq(Pages!Ids) /\ \A j, k \in H : rows[j] = rows[k] => j = k
        BY <1>3, <1>9 DEF RowsOK
      <4> QED BY <1>9, <4>1, RowsCount
    <3> QED BY <1>18, <3>2, <3>3
  <2>3. Unskipped(list, q)
    <3>1. ASSUME w.writes = {"insert"}, Growing(list), NEW i \in w.before PROVE g[i] = 1
      <4>1. PICK k \in H : /\ RankOf(rows, W, k) <= w.total
                           /\ g[i] = IF RankOf(rows, W, k) <= m + n THEN 1 ELSE 0
        BY <1>19, <3>1
      <4>2. RankOf(rows, W, k) <= m + n
        BY <1>4, <1>9, <2>1, <4>1
      <4> QED BY <4>1, <4>2
    <3>2. ASSUME w.writes = {"insert"}, Logging(list), NEW i \in w.before PROVE g[i] >= 1
      <4>1. g[i] >= 1 \/ m + n < w.total
        BY <1>20, <3>2
      <4> QED BY <1>4, <2>1, <4>1
    <3> QED BY <1>14, <3>1, <3>2 DEF Unskipped
  <2>4. Walked(list, rows, W, q)
    BY <2>1, <2>2, <2>3 DEF Walked, Still, Placed, Ahead
  <2>5. RowsOK' /\ Pages!Where(page.filter)' = W
    BY <1>2, <1>3, <1>13, <1>14, SameRows
  <2> QED BY <1>3, <1>13, <1>15, <2>4, <2>5 DEF PageInv
<1> QED BY <1>21, <1>22

-----------------------------------------------------------------------------
\* What a write leaves of a walk.
LEMMA Written ==
  ASSUME IsPage(page), NEW kind \in {"insert", "delete"}, Pages!Wrote(kind)
  PROVE  /\ IsPage(page)' /\ page'.filter = page.filter
         /\ page'.writes = IF page.at = "reading" THEN page.writes \cup {kind} ELSE page.writes
         /\ page'.at = page.at /\ page'.page = page.page /\ page'.size = page.size /\ page'.items = page.items
         /\ page'.total = page.total /\ page'.seen = page.seen /\ page'.before = page.before
<1>1. PICK w : w = page
  OBVIOUS
<1>2. PICK K : K = IF w.at = "reading" THEN w.writes \cup {kind} ELSE w.writes
  OBVIOUS
<1>3. PICK q : q = [at |-> w.at, filter |-> w.filter, page |-> w.page, size |-> w.size, items |-> w.items,
                    total |-> w.total, seen |-> w.seen, before |-> w.before, writes |-> K]
  OBVIOUS
<1>4. w = [at |-> w.at, filter |-> w.filter, page |-> w.page, size |-> w.size, items |-> w.items,
           total |-> w.total, seen |-> w.seen, before |-> w.before, writes |-> w.writes]
  BY <1>1 DEF IsPage
<1>5. page' = q
  <2>1. CASE w.at = "reading"
    <3>1. page' = [w EXCEPT !.writes = K]
      BY <1>1, <1>2, <2>1 DEF Pages!Wrote
    <3> QED BY <1>3, <1>4, <3>1, WrittenPage
  <2>2. CASE w.at # "reading"
    BY <1>1, <1>2, <1>3, <1>4, <2>2 DEF Pages!Wrote
  <2> QED BY <2>1, <2>2
<1>6. /\ q.at = w.at /\ q.filter = w.filter /\ q.page = w.page /\ q.size = w.size /\ q.items = w.items
      /\ q.total = w.total /\ q.seen = w.seen /\ q.before = w.before /\ q.writes = K
  BY <1>3
<1>7. IsPage(q)
  <2>1. q = [at |-> q.at, filter |-> q.filter, page |-> q.page, size |-> q.size, items |-> q.items,
             total |-> q.total, seen |-> q.seen, before |-> q.before, writes |-> q.writes]
    BY <1>3, <1>6
  <2>2. q.writes \in SUBSET {"insert", "delete"}
    BY <1>1, <1>2, <1>6 DEF IsPage
  <2> QED BY <1>1, <1>6, <2>1, <2>2 DEF IsPage
<1>8. IsPage(page)'
  BY <1>5, <1>7 DEF IsPage
<1> QED BY <1>1, <1>2, <1>5, <1>6, <1>8

\* A walk that is over is what it was.
LEMMA WrittenOver ==
  ASSUME NEW l, NEW s, NEW W, NEW w, Walked(l, s, W, w), NEW t, NEW V, NEW q,
         q.filter = w.filter, q.at = w.at, q.seen = w.seen, q.before = w.before, q.total = w.total,
         q.writes = w.writes, w.at # "reading"
  PROVE  Walked(l, t, V, q)
  BY DEF Walked, Still, Placed, Ahead, Covered, Unskipped

LEMMA DeletePage ==
  ASSUME Pages!PagingAssumption, PageInv, NEW i \in Pages!Ids, Pages!Delete(i)
  PROVE  PageInv'
<1>1. PICK w, q : w = page /\ q = page'
  OBVIOUS
<1>2. PICK s, t : s = rows /\ t = rows'
  OBVIOUS
<1>3. PICK V : V = Pages!Where(page.filter)'
  OBVIOUS
<1>4. /\ RowsOK /\ IsPage(w) /\ Walked(list, s, Pages!Where(w.filter), w) /\ list' = list /\ count' = count
      /\ some' = some \ {i} /\ Pages!Wrote("delete")
  BY <1>1, <1>2 DEF PageInv, Pages!Delete
<1>5. PICK k \in DOMAIN s : s[k] = i /\ t = Pages!RemoveAt(s, k)
  BY <1>2 DEF Pages!Delete
<1>6. /\ s \in Seq(Pages!Ids) /\ Len(s) \in Nat /\ DOMAIN s = 1..Len(s)
      /\ \A j, m \in DOMAIN s : s[j] = s[m] => j = m
      /\ \A j \in DOMAIN s : s[j] <= count
  BY <1>2, <1>4 DEF RowsOK
<1>7. /\ t \in Seq(Pages!Ids) /\ Len(t) = Len(s) - 1
      /\ \A j \in 1..Len(s) - 1 : t[j] = IF j < k THEN s[j] ELSE s[j + 1]
  <2>1. s \in Seq(Pages!Ids) /\ k \in 1..Len(s)
    BY <1>5, <1>6
  <2>2. Removed(Pages!Ids, s, k, t)
    BY <1>5, <2>1, RemoveAtIs
  <2> QED BY <2>2 DEF Removed
<1>8. DOMAIN t = 1..Len(s) - 1
  BY <1>7
<1>9. RowsOK'
  <2>1. \A j, m \in DOMAIN t : t[j] = t[m] => j = m
    <3> SUFFICES ASSUME NEW j \in DOMAIN t, NEW m \in DOMAIN t, t[j] = t[m] PROVE j = m
      OBVIOUS
    <3>1. PICK a1 \in DOMAIN s : a1 = (IF j < k THEN j ELSE j + 1) /\ t[j] = s[a1]
      BY <1>6, <1>7, <1>8
    <3>2. PICK a2 \in DOMAIN s : a2 = (IF m < k THEN m ELSE m + 1) /\ t[m] = s[a2]
      BY <1>6, <1>7, <1>8
    <3>3. a1 = a2
      BY <1>6, <3>1, <3>2
    <3> QED BY <1>5, <1>6, <1>8, <3>1, <3>2, <3>3
  <2>2. \A j \in DOMAIN t : t[j] <= count
    BY <1>6, <1>7, <1>8
  <2>3. ASSUME NEW x \in some, x # i PROVE \E j \in DOMAIN t : x = t[j]
    <3>1. PICK m \in DOMAIN s : x = s[m]
      BY <1>2, <1>4 DEF RowsOK
    <3>2. m # k
      BY <1>5, <2>3, <3>1
    <3>3. CASE m < k
      <4>1. m \in 1..Len(s) - 1
        BY <1>5, <1>6, <3>3
      <4> QED BY <1>7, <1>8, <3>1, <3>3, <4>1
    <3>4. CASE k < m
      <4>1. m - 1 \in 1..Len(s) - 1 /\ ~ (m - 1 < k) /\ m - 1 + 1 = m
        BY <1>5, <1>6, <3>4
      <4>2. t[m - 1] = s[m]
        BY <1>7, <4>1
      <4> QED BY <1>8, <3>1, <4>1, <4>2
    <3> QED BY <1>5, <1>6, <3>2, <3>3, <3>4
  <2>4. some' \subseteq {t[j] : j \in DOMAIN t}
    BY <1>4, <2>3
  <2> QED BY <1>2, <1>4, <1>7, <2>1, <2>2, <2>4 DEF RowsOK
<1>10. /\ IsPage(page)' /\ q.filter = w.filter /\ q.at = w.at /\ q.seen = w.seen /\ q.before = w.before
       /\ q.total = w.total
       /\ q.writes = IF w.at = "reading" THEN w.writes \cup {"delete"} ELSE w.writes
  BY <1>1, <1>4, Written
<1>11. CASE w.at = "reading"
  <2>1. "delete" \in q.writes /\ q.at = "reading"
    BY <1>10, <1>11
  <2>2. Walked(list, t, V, q)
    BY <2>1 DEF Walked, Still, Placed, Ahead, Covered, Unskipped
  <2> QED BY <1>1, <1>2, <1>3, <1>4, <1>9, <1>10, <2>2 DEF PageInv
<1>12. CASE w.at # "reading"
  <2>1. Walked(list, t, V, q)
    BY <1>4, <1>10, <1>12, WrittenOver
  <2> QED BY <1>1, <1>2, <1>3, <1>4, <1>9, <1>10, <2>1 DEF PageInv
<1> QED BY <1>11, <1>12

LEMMA InsertPage == ASSUME Pages!PagingAssumption, PageInv, Pages!Insert PROVE PageInv'
<1>1. PICK w, q : w = page /\ q = page'
  OBVIOUS
<1>2. PICK s, t : s = rows /\ t = rows'
  OBVIOUS
<1>3. PICK W, V : W = Pages!Where(w.filter) /\ V = Pages!Where(page.filter)'
  OBVIOUS
<1>4. PICK x : x = count + 1
  OBVIOUS
<1>5. /\ RowsOK /\ IsPage(w) /\ Walked(list, s, W, w) /\ list' = list /\ count' = x
      /\ count < MaxRow /\ (some' = some \/ some' = some \cup {x}) /\ Pages!Wrote("insert")
  BY <1>1, <1>2, <1>3, <1>4 DEF PageInv, Pages!Insert
<1>6. PICK k \in Pages!Places : t = Pages!InsertAt(s, k, x)
  BY <1>2, <1>4 DEF Pages!Insert
<1>7. /\ s \in Seq(Pages!Ids) /\ Len(s) \in Nat /\ DOMAIN s = 1..Len(s)
      /\ \A j, m \in DOMAIN s : s[j] = s[m] => j = m
      /\ \A j \in DOMAIN s : s[j] <= count /\ s[j] \in Nat
  <2>1. s \in Seq(Pages!Ids) /\ Len(s) \in Nat /\ DOMAIN s = 1..Len(s) /\ \A j \in 1..Len(s) : s[j] \in Pages!Ids
    BY <1>2, <1>5 DEF RowsOK
  <2>2. /\ \A j, m \in DOMAIN s : s[j] = s[m] => j = m
        /\ \A j \in DOMAIN s : s[j] <= count
    BY <1>2, <1>5 DEF RowsOK
  <2>3. \A y \in Pages!Ids : y \in Nat
    BY DEF Pages!PagingAssumption, Pages!Ids
  <2> QED BY <2>1, <2>2, <2>3
<1>8. /\ x \in Pages!Ids /\ x \in 0..MaxRow /\ count \in Nat /\ count <= x
      /\ \A j \in DOMAIN s : s[j] # x /\ s[j] <= x
  <2>1. count \in 0..MaxRow /\ MaxRow \in Nat
    BY <1>5 DEF RowsOK, Pages!PagingAssumption
  <2> QED BY <1>4, <1>5, <1>7, <2>1 DEF Pages!Ids
<1>9. /\ k \in 1..Len(s) + 1
      /\ list.order = "oldest" => k = Len(s) + 1
      /\ list.order = "newest" => k = 1
  <2>1. list.order \in {"newest", "oldest", "tied", "placed"}
    BY <1>5 DEF RowsOK, Pages!AllLists, Pages!LoginLogList, Pages!CaptchaLogList, Pages!TaskLogList,
                Pages!StorageList, Pages!TaskList, Pages!UserList, Pages!RoleList, Pages!DictTypeList,
                Pages!TodoList, Pages!DictItemList, Pages!MenuList, Pages!List
  <2>2. CASE list.order = "newest"
    <3>1. k = 1
      BY <1>6, <2>2 DEF Pages!Places
    <3> QED BY <1>7, <2>2, <3>1
  <2>3. CASE list.order \in {"oldest", "tied"}
    <3>1. k = Len(s) + 1
      BY <1>2, <1>6, <2>3 DEF Pages!Places
    <3> QED BY <1>7, <2>3, <3>1
  <2>4. CASE list.order = "placed"
    BY <1>2, <1>6, <2>4 DEF Pages!Places
  <2> QED BY <2>1, <2>2, <2>3, <2>4
<1>10. /\ t \in Seq(Pages!Ids) /\ Len(t) = Len(s) + 1
       /\ \A j \in 1..Len(s) + 1 : t[j] = IF j < k THEN s[j] ELSE IF j = k THEN x ELSE s[j - 1]
  <2>1. s \in Seq(Pages!Ids) /\ x \in Pages!Ids /\ k \in 1..Len(s) + 1
    BY <1>7, <1>8, <1>9
  <2>2. Inserted(Pages!Ids, s, k, x, t)
    BY <1>6, <2>1, InsertAtIs
  <2> QED BY <2>2 DEF Inserted
<1>11. /\ DOMAIN t = 1..Len(s) + 1 /\ t[k] = x
       /\ \A j \in DOMAIN s : t[IF j < k THEN j ELSE j + 1] = s[j] /\ (IF j < k THEN j ELSE j + 1) \in DOMAIN t
  <2>1. DOMAIN t = 1..Len(s) + 1 /\ t[k] = x
    BY <1>9, <1>10
  <2>2. ASSUME NEW j \in DOMAIN s
        PROVE  t[IF j < k THEN j ELSE j + 1] = s[j] /\ (IF j < k THEN j ELSE j + 1) \in DOMAIN t
    <3>1. CASE j < k
      <4>1. j \in 1..Len(s) + 1
        BY <1>7
      <4> QED BY <1>10, <2>1, <3>1, <4>1
    <3>2. CASE ~ (j < k)
      <4>1. j + 1 \in 1..Len(s) + 1 /\ ~ (j + 1 < k) /\ j + 1 # k /\ j + 1 - 1 = j
        BY <1>7, <1>9, <3>2
      <4>2. PICK m : m = j + 1
        OBVIOUS
      <4>3. m \in 1..Len(s) + 1 /\ ~ (m < k) /\ m # k /\ m - 1 = j
        BY <4>1, <4>2
      <4>4. t[m] = s[m - 1]
        BY <1>10, <4>3
      <4>5. t[j + 1] = s[j]
        BY <4>2, <4>3, <4>4
      <4> QED BY <2>1, <3>2, <4>1, <4>5
    <3> QED BY <3>1, <3>2
  <2> QED BY <2>1, <2>2
<1>12. {t[j] : j \in DOMAIN t} = {s[j] : j \in DOMAIN s} \cup {x}
  <2>1. ASSUME NEW j \in DOMAIN t PROVE t[j] \in {s[m] : m \in DOMAIN s} \cup {x}
    <3>1. CASE j < k
      <4>1. j \in DOMAIN s /\ t[j] = s[j]
        BY <1>7, <1>9, <1>10, <1>11, <3>1
      <4> QED BY <4>1
    <3>2. CASE j = k
      BY <1>11, <3>2
    <3>3. CASE k < j
      <4>1. j - 1 \in DOMAIN s /\ t[j] = s[j - 1]
        BY <1>7, <1>9, <1>10, <1>11, <3>3
      <4> QED BY <4>1
    <3> QED BY <1>7, <1>9, <1>11, <3>1, <3>2, <3>3
  <2>2. x \in {t[j] : j \in DOMAIN t}
    BY <1>7, <1>9, <1>11
  <2>3. ASSUME NEW j \in DOMAIN s PROVE s[j] \in {t[m] : m \in DOMAIN t}
    BY <1>11
  <2> QED BY <2>1, <2>2, <2>3
<1>13. RowsOK'
  <2>1. \A j, m \in DOMAIN t : t[j] = t[m] => j = m
    <3> SUFFICES ASSUME NEW j \in DOMAIN t, NEW m \in DOMAIN t, t[j] = t[m] PROVE j = m
      OBVIOUS
    <3>1. ASSUME NEW i \in DOMAIN t, i # k
          PROVE  \E a1 \in DOMAIN s : t[i] = s[a1] /\ i = IF a1 < k THEN a1 ELSE a1 + 1
      <4>1. CASE i < k
        <5>1. i \in DOMAIN s /\ t[i] = s[i]
          BY <1>7, <1>9, <1>10, <1>11, <4>1
        <5> QED BY <4>1, <5>1
      <4>2. CASE k < i
        <5>1. i - 1 \in DOMAIN s /\ t[i] = s[i - 1] /\ ~ (i - 1 < k) /\ i - 1 + 1 = i
          BY <1>7, <1>9, <1>10, <1>11, <4>2
        <5> QED BY <5>1
      <4> QED BY <1>7, <1>9, <1>11, <3>1, <4>1, <4>2
    <3>2. CASE j = k \/ m = k
      <4>1. j = k /\ m = k
        BY <1>8, <1>11, <3>1, <3>2
      <4> QED BY <4>1
    <3>3. CASE j # k /\ m # k
      <4>1. PICK a1 \in DOMAIN s : t[j] = s[a1] /\ j = IF a1 < k THEN a1 ELSE a1 + 1
        BY <3>1, <3>3
      <4>2. PICK a2 \in DOMAIN s : t[m] = s[a2] /\ m = IF a2 < k THEN a2 ELSE a2 + 1
        BY <3>1, <3>3
      <4>3. a1 = a2
        BY <1>7, <4>1, <4>2
      <4> QED BY <4>1, <4>2, <4>3
    <3> QED BY <3>2, <3>3
  <2>2. \A j \in DOMAIN t : t[j] <= x
    <3>1. \A y \in {s[j] : j \in DOMAIN s} \cup {x} : y <= x
      BY <1>8
    <3> QED BY <1>12, <3>1
  <2>3. some' \subseteq {t[j] : j \in DOMAIN t}
    BY <1>2, <1>5, <1>12 DEF RowsOK
  <2> QED BY <1>2, <1>5, <1>8, <1>10, <2>1, <2>2, <2>3 DEF RowsOK
<1>14. /\ IsPage(page)' /\ q.filter = w.filter /\ q.at = w.at /\ q.seen = w.seen /\ q.before = w.before
       /\ q.total = w.total /\ q.page = w.page /\ q.size = w.size /\ q.items = w.items
       /\ q.writes = IF w.at = "reading" THEN w.writes \cup {"insert"} ELSE w.writes
  BY <1>1, <1>5, Written
<1>15. SkipOf(q) = SkipOf(w)
  BY <1>14 DEF SkipOf
<1>16. CASE w.at # "reading"
  <2>1. Walked(list, t, V, q)
    BY <1>5, <1>14, <1>16, WrittenOver
  <2> QED BY <1>1, <1>2, <1>3, <1>5, <1>13, <1>14, <2>1 DEF PageInv
<1>17. CASE w.at = "reading"
  <2>1. q.writes = w.writes \cup {"insert"} /\ q.at = "reading"
    BY <1>14, <1>17
  <2>2. \A j \in DOMAIN s : s[j] \in V <=> s[j] \in W
    <3>1. PICK f \in Pages!Filters : f = w.filter /\ f = q.filter
      BY <1>5, <1>14 DEF IsPage
    <3>2. PICK T, U : T = {s[j] : j \in DOMAIN s} /\ U = {t[j] : j \in DOMAIN t} /\ U = T \cup {x}
      BY <1>12
    <3>3. Pages!ToSet(rows) = T /\ Pages!ToSet(rows') = U
      BY <1>2, <3>2, PageLibrary
    <3>4. \A y \in T : y # x
      BY <1>8, <3>2
    <3>5. \A y \in T : y \in some' <=> y \in some
      BY <1>5, <3>4
    <3>6. \A g \in Pages!Filters : \A y \in T : y \in Pages!Matches(g)' <=> y \in Pages!Matches(g)
      BY <3>2, <3>3, <3>5 DEF Pages!Matches, Pages!Filters
    <3>7. Pages!StorageList' = Pages!StorageList
      BY DEF Pages!StorageList, Pages!List
    <3>8. \A g \in Pages!Filters : \A y \in T : y \in Pages!Where(g)' <=> y \in Pages!Where(g)
      BY <1>5, <3>6, <3>7 DEF Pages!Where, Pages!Filters
    <3>9. W = Pages!Where(f) /\ V = Pages!Where(f)'
      BY <1>1, <1>3, <3>1 DEF Pages!Where, Pages!Matches
    <3> QED BY <3>2, <3>8, <3>9
  <2>3. Still(list, t, V, q)
    BY <2>1 DEF Still
  <2>4. Placed(list, t, V, q)
    <3> SUFFICES ASSUME w.writes \subseteq {"insert"}, Growing(list), NEW i \in w.before
                 PROVE  \E j \in Hits(t, V) :
                   /\ t[j] = i
                   /\ w.seen[i] = IF RankOf(t, V, j) <= SkipOf(w) THEN 1 ELSE 0
                   /\ w.items # None =>
                        (i \in w.items <=> SkipOf(w) < RankOf(t, V, j) /\ RankOf(t, V, j) <= SkipOf(w) + w.size)
                   /\ w.total # None => RankOf(t, V, j) <= w.total
      BY <1>14, <1>15, <2>1 DEF Placed
    <3>1. PICK j \in Hits(s, W) :
                   /\ s[j] = i
                   /\ w.seen[i] = IF RankOf(s, W, j) <= SkipOf(w) THEN 1 ELSE 0
                   /\ w.items # None =>
                        (i \in w.items <=> SkipOf(w) < RankOf(s, W, j) /\ RankOf(s, W, j) <= SkipOf(w) + w.size)
                   /\ w.total # None => RankOf(s, W, j) <= w.total
      BY <1>5, <1>17 DEF Walked, Placed
    <3>2. \A m \in 1..Len(s) : t[m] = s[m] /\ (s[m] \in V <=> s[m] \in W)
      <4>1. k = Len(s) + 1
        BY <1>9 DEF Growing
      <4>2. \A m \in 1..Len(s) : m < k /\ m \in 1..Len(s) + 1
        BY <1>7, <4>1
      <4> QED BY <1>7, <1>10, <2>2, <4>2
    <3>3. j \in Hits(t, V) /\ t[j] = s[j] /\ RankOf(t, V, j) = RankOf(s, W, j)
      <4>1. s \in Seq(Pages!Ids) /\ t \in Seq(Pages!Ids) /\ Longer(s, t, W, V)
        BY <1>7, <1>10, <3>2 DEF Longer
      <4>2. j \in Hits(t, V) /\ t[j] = s[j] /\ RankOf(t, V, j) = RankOf(s, W, j)
        BY <4>1, RankKept
      <4> QED BY <4>2
    <3> QED BY <3>1, <3>3
  <2>5. Ahead(list, t, V, q)
    <3> SUFFICES ASSUME w.writes \subseteq {"insert"}, Logging(list)
                 PROVE  /\ w.items = None => w.total = None
                        /\ \A i \in w.before : \E j \in Hits(t, V) :
                             /\ t[j] = i
                             /\ \/ w.seen[i] >= 1
                                \/ w.items = None /\ SkipOf(w) < RankOf(t, V, j)
                                \/ w.items # None /\ i \in w.items
                                \/ w.items # None /\ SkipOf(w) + w.size < RankOf(t, V, j)
                                     /\ (w.total # None => SkipOf(w) + w.size < w.total)
      BY <1>14, <1>15, <2>1 DEF Ahead
    <3>1. w.items = None => w.total = None
      BY <1>5, <1>17 DEF Walked, Ahead
    <3>2. \A m \in 1..Len(s) : t[m + 1] = s[m] /\ (s[m] \in V <=> s[m] \in W)
      <4>1. k = 1
        BY <1>9 DEF Logging
      <4>2. \A m \in 1..Len(s) : m + 1 \in 1..Len(s) + 1 /\ ~ (m + 1 < k) /\ m + 1 # k /\ m + 1 - 1 = m
        BY <1>7, <4>1
      <4>3. \A m \in 1..Len(s) : t[m + 1] = s[m]
        BY <1>10, <4>2
      <4> QED BY <1>7, <2>2, <4>3
    <3>3. ASSUME NEW i \in w.before
          PROVE  \E j \in Hits(t, V) :
                             /\ t[j] = i
                             /\ \/ w.seen[i] >= 1
                                \/ w.items = None /\ SkipOf(w) < RankOf(t, V, j)
                                \/ w.items # None /\ i \in w.items
                                \/ w.items # None /\ SkipOf(w) + w.size < RankOf(t, V, j)
                                     /\ (w.total # None => SkipOf(w) + w.size < w.total)
      <4>1. PICK j \in Hits(s, W) :
                             /\ s[j] = i
                             /\ \/ w.seen[i] >= 1
                                \/ w.items = None /\ SkipOf(w) < RankOf(s, W, j)
                                \/ w.items # None /\ i \in w.items
                                \/ w.items # None /\ SkipOf(w) + w.size < RankOf(s, W, j)
                                     /\ (w.total # None => SkipOf(w) + w.size < w.total)
        BY <1>5, <1>17 DEF Walked, Ahead
      <4>2. j + 1 \in Hits(t, V) /\ t[j + 1] = s[j] /\ RankOf(t, V, j + 1) >= RankOf(s, W, j)
        <5>1. /\ s \in Seq(Pages!Ids) /\ t \in Seq(Pages!Ids) /\ Len(t) = Len(s) + 1
              /\ \A m \in 1..Len(s) : t[m + 1] = s[m] /\ (s[m] \in V <=> s[m] \in W)
          BY <1>7, <1>10, <3>2
        <5> QED BY <5>1, RankGrows
      <4>3. RankOf(t, V, j + 1) \in Nat /\ RankOf(s, W, j) \in Nat
        BY <1>7, <1>10, <4>2, HitsAre
      <4>4. PICK m, n \in Nat : m = SkipOf(w) /\ n = w.size
        BY <1>5, SkipIs DEF IsPage
      <4>5. /\ m < RankOf(s, W, j) => m < RankOf(t, V, j + 1)
            /\ m + n < RankOf(s, W, j) => m + n < RankOf(t, V, j + 1)
        BY <4>2, <4>3
      <4> QED BY <4>1, <4>2, <4>4, <4>5
    <3> QED BY <3>1, <3>3
  <2>6. Walked(list, t, V, q)
    BY <2>1, <2>3, <2>4, <2>5 DEF Walked, Covered, Unskipped
  <2> QED BY <1>1, <1>2, <1>3, <1>5, <1>13, <1>14, <2>6 DEF PageInv
<1> QED BY <1>16, <1>17

LEMMA PageNext ==
  ASSUME Pages!PagingAssumption, PageInv, Pages!Next \/ UNCHANGED Pages!vars PROVE PageInv'
<1>1. CASE UNCHANGED Pages!vars
  <2>1. list' = list /\ rows' = rows /\ some' = some /\ count' = count /\ page' = page
    BY <1>1 DEF Pages!vars
  <2>2. Pages!Where(page.filter)' = Pages!Where(page.filter)
    BY <2>1 DEF Pages!Where, Pages!Matches, Pages!StorageList
  <2>3. RowsOK'
    BY <2>1 DEF PageInv, RowsOK
  <2> QED BY <2>1, <2>2, <2>3 DEF PageInv
<1>2. CASE Pages!Next
  <2>1. CASE \E f \in Pages!Filters, n \in (0..MaxSize + 1) \cup {None} : Pages!Open(f, n)
    BY <2>1, OpenPage
  <2>2. CASE Pages!ReadItems
    BY <2>2, ReadItemsPage
  <2>3. CASE Pages!Count
    BY <2>3, CountPage
  <2>4. CASE Pages!Reply
    BY <2>4, ReplyPage
  <2>5. CASE Pages!Close
    BY <2>5, ClosePage
  <2>6. CASE Pages!Insert
    BY <2>6, InsertPage
  <2>7. CASE \E i \in Pages!Ids : Pages!Delete(i)
    BY <2>7, DeletePage
  <2> QED BY <1>2, <2>1, <2>2, <2>3, <2>4, <2>5, <2>6, <2>7 DEF Pages!Next
<1> QED BY <1>1, <1>2

LEMMA PageHolds ==
  ASSUME PageInv PROVE Pages!TypeOK /\ Pages!PagesCover /\ Pages!NothingSkipped
<1>1. /\ RowsOK /\ IsPage(page) /\ Covered(list, page) /\ Unskipped(list, page)
  BY DEF PageInv, Walked
<1>2. Pages!TypeOK
  <2>1. page \in Pages!Walk
    <3>1. page.page \in Nat /\ page.size \in Nat
      BY <1>1 DEF IsPage
    <3> QED BY <1>1, <3>1 DEF IsPage, Pages!Walk
  <2>2. Pages!IsInjective(rows) /\ some \subseteq Pages!ToSet(rows)
    BY <1>1, PageLibrary DEF RowsOK
  <2> QED BY <1>1, <2>1, <2>2 DEF RowsOK, Pages!TypeOK
<1>3. Pages!PagesCover
  BY <1>1, PageLibrary DEF Covered, Exact, Pages!PagesCover
<1>4. Pages!NothingSkipped
  <2> SUFFICES ASSUME page.at = "done", page.writes = {"insert"}, list.cut = "pages",
                      list.order = "oldest" \/ (list.order = "newest" /\ list.count = "after"),
                      NEW i \in page.before
               PROVE  page.seen[i] >= 1 /\ (list.order = "oldest" => page.seen[i] = 1)
    BY DEF Pages!NothingSkipped
  <2>1. CASE list.order = "oldest"
    BY <1>1, <2>1 DEF Unskipped, Growing
  <2>2. CASE list.order = "newest" /\ list.count = "after"
    BY <1>1, <2>2 DEF Unskipped, Logging
  <2> QED BY <2>1, <2>2
<1> QED BY <1>2, <1>3, <1>4

-----------------------------------------------------------------------------
(* The parts together.  A step of PartsNext is a step of one of them, and the *)
(* others do not move.                                                        *)

LEMMA Steps ==
  ASSUME [PartsNext]_partsVars
  PROVE  /\ Pages!Next \/ UNCHANGED pageVars
         /\ Files!Next \/ UNCHANGED fileVars
         /\ Disk!Next \/ UNCHANGED diskVars
         /\ Ov!Next \/ UNCHANGED ovVars
         /\ Missions!Next \/ UNCHANGED jobVars
         /\ Scheduler!Next \/ UNCHANGED taskVars
         /\ Next \/ UNCHANGED vars
  BY DEF PartsNext, partsVars

\* FilesKept: for any uploads, names, extensions, moments and days, a file whose
\* write ended well holds the bytes of its upload and of no other, as long as no
\* upload has the same name at the same moment and no delete has named it
\* (saveLocalFile, deleteFile, fileRename, getFilePath).
THEOREM FilesKept == PartsSpec => []RowsHaveFiles
<1>1. PartsInit => FileInv
  BY FileInit, PartsAssumption DEF PartsInit
<1>2. FileInv /\ [PartsNext]_partsVars => FileInv'
  BY Steps, FileNext, PartsAssumption DEF fileVars, Files!vars
<1>3. FileInv => RowsHaveFiles
  BY FileHolds DEF RowsHaveFiles
<1> QED BY <1>1, <1>2, <1>3, PTL DEF PartsSpec

\* WalksComplete: for any keys, limit and searches, a client that follows the markers
\* of the replies to the end has been shown all that was there all the time, nothing
\* that never was, and nothing twice, whatever was put and deleted between its pages
\* (getFileList).
THEOREM WalksComplete == PartsSpec => []WalkIsComplete
<1>1. PartsInit => DiskInv
  BY DiskInit, PartsAssumption DEF PartsInit
<1>2. DiskInv /\ [PartsNext]_partsVars => DiskInv'
  BY Steps, DiskNext, PartsAssumption DEF diskVars, Disk!vars
<1>3. DiskInv => WalkIsComplete
  BY DiskHolds DEF WalkIsComplete
<1> QED BY <1>1, <1>2, <1>3, PTL DEF PartsSpec

\* PagesCovered: for any number of rows and any size of page, a client that walks
\* through a list nobody writes meanwhile gets every row that matches exactly once and
\* stops with the right total (paginateQueryBuilder, createPaginationObject).
THEOREM PagesCovered == PartsSpec => []PagesCover
<1>1. PartsInit => PageInv
  BY PageInit, PartsAssumption DEF PartsInit
<1>2. PageInv /\ [PartsNext]_partsVars => PageInv'
  BY Steps, PageNext, PartsAssumption DEF pageVars, Pages!vars
<1>3. PageInv => PagesCover
  BY PageHolds DEF PagesCover
<1> QED BY <1>1, <1>2, <1>3, PTL DEF PartsSpec

\* NoneSkipped: for any number of rows and any size of page, rows inserted during a walk
\* push none that was there out of it, in the logs and where new rows come last, where
\* none is shown twice either (getManyAndCount, the order of the lists).
THEOREM NoneSkipped == PartsSpec => []NothingSkipped
<1>1. PartsInit => PageInv
  BY PageInit, PartsAssumption DEF PartsInit
<1>2. PageInv /\ [PartsNext]_partsVars => PageInv'
  BY Steps, PageNext, PartsAssumption DEF pageVars, Pages!vars
<1>3. PageInv => NothingSkipped
  BY PageHolds DEF NothingSkipped
<1> QED BY <1>1, <1>2, <1>3, PTL DEF PartsSpec

\* OverviewFresh: for any time to live, time limit and number of requests, no
\* figure of a reply is older than the two limits together, and the four are of one
\* month and in order (space, CacheInterceptor, TimeoutInterceptor).
THEOREM OverviewFresh == PartsSpec => []OverviewIsRecent
<1>1. PartsInit => OvInv
  BY OvInit, PartsAssumption DEF PartsInit
<1>2. OvInv /\ [PartsNext]_partsVars => OvInv'
  BY Steps, OvNext, PartsAssumption DEF ovVars, Ov!vars
<1>3. OvInv => OverviewIsRecent
  BY OvRecent, PartsAssumption DEF OverviewIsRecent
<1> QED BY <1>1, <1>2, <1>3, PTL DEF PartsSpec

\* LoggedRuns: for any number of runs, completed jobs have rows, successes and
\* deletions of the login log stand for calls of missions, and nothing but a
\* mission is ever called (handle, callService).
THEOREM LoggedRuns == PartsSpec => []RunsAreLogged
<1>1. PartsInit => JobInv
  BY JobInit DEF PartsInit
<1>2. JobInv /\ [PartsNext]_partsVars => JobInv'
  BY Steps, JobNext DEF jobVars, Missions!vars
<1>3. JobInv => RunsAreLogged
  BY DEF JobInv, RunsAreLogged
<1> QED BY <1>1, <1>2, <1>3, PTL DEF PartsSpec

-----------------------------------------------------------------------------
\* The scheduler here and the one proved about are the same.
LEMMA SameInit == Scheduler!Init <=> Tasked!Init
  BY DEF Scheduler!Init, Tasked!Init, Scheduler!IdleJob, Tasked!IdleJob, Scheduler!Handlers,
         Tasked!Handlers

LEMMA SameNext == Scheduler!Next <=> Tasked!Next
  BY ZenonT(240) DEF Scheduler!AllCalls, Tasked!AllCalls, Scheduler!bull, Tasked!bull, Scheduler!past,
         Tasked!past, Scheduler!vars, Tasked!vars, Scheduler!Schedules, Tasked!Schedules,
         Scheduler!Kinds, Tasked!Kinds, Scheduler!Rows, Tasked!Rows, Scheduler!Exists,
         Tasked!Exists, Scheduler!Of, Tasked!Of, Scheduler!Snaps, Tasked!Snaps, Scheduler!Snap,
         Tasked!Snap, Scheduler!Handlers, Tasked!Handlers, Scheduler!Pcs, Tasked!Pcs,
         Scheduler!Jobs, Tasked!Jobs, Scheduler!IdleJob, Tasked!IdleJob, Scheduler!At,
         Tasked!At, Scheduler!Idle, Tasked!Idle, Scheduler!Goto, Tasked!Goto, Scheduler!Fail,
         Tasked!Fail, Scheduler!Return, Tasked!Return, Scheduler!MayStart, Tasked!MayStart,
         Scheduler!Purging, Tasked!Purging, Scheduler!Begin, Tasked!Begin, Scheduler!Init,
         Tasked!Init, Scheduler!Create, Tasked!Create, Scheduler!Update, Tasked!Update,
         Scheduler!Info, Tasked!Info, Scheduler!Call, Tasked!Call, Scheduler!StartCall,
         Tasked!StartCall, Scheduler!StopCall, Tasked!StopCall, Scheduler!DeleteCall,
         Tasked!DeleteCall, Scheduler!Once, Tasked!Once, Scheduler!Exist, Tasked!Exist,
         Scheduler!Remove, Tasked!Remove, Scheduler!Mark, Tasked!Mark, Scheduler!Add,
         Tasked!Add, Scheduler!AddRefused, Tasked!AddRefused, Scheduler!Save, Tasked!Save,
         Scheduler!Drop, Tasked!Drop, Scheduler!Boot, Tasked!Boot, Scheduler!Purge,
         Tasked!Purge, Scheduler!Load, Tasked!Load, Scheduler!BootNext, Tasked!BootNext,
         Scheduler!LockExpires, Tasked!LockExpires, Scheduler!Tick, Tasked!Tick,
         Scheduler!Take, Tasked!Take, Scheduler!TakeOnce, Tasked!TakeOnce, Scheduler!Finish,
         Tasked!Finish, Scheduler!Late, Tasked!Late, Scheduler!Find, Tasked!Find,
         Scheduler!Abort, Tasked!Abort, Scheduler!StopStep, Tasked!StopStep,
         Scheduler!StartStep, Tasked!StartStep, Scheduler!BootStep, Tasked!BootStep,
         Scheduler!Step, Tasked!Step, Scheduler!Arrive, Tasked!Arrive, Scheduler!ProcStep,
         Tasked!ProcStep, Scheduler!WorkerStep, Tasked!WorkerStep, Scheduler!Next, Tasked!Next

LEMMA SameTypes == Tasked!TypeOK => Scheduler!TypeOK
  BY DEF Scheduler!TypeOK, Tasked!TypeOK, Scheduler!Schedules, Tasked!Schedules,
         Scheduler!Kinds, Tasked!Kinds, Scheduler!Rows, Tasked!Rows, Scheduler!Snaps,
         Tasked!Snaps, Scheduler!Handlers, Tasked!Handlers, Scheduler!Pcs, Tasked!Pcs,
         Scheduler!Jobs, Tasked!Jobs

LEMMA SameSchedules == Tasked!KnownSchedules => Scheduler!KnownSchedules
  BY DEF Scheduler!KnownSchedules, Tasked!KnownSchedules, Scheduler!Quiet, Tasked!Quiet,
         Scheduler!Idle, Tasked!Idle,
         Scheduler!At, Tasked!At, Scheduler!Handlers, Tasked!Handlers

\* SchedulesKnown: for any tasks, cron expressions and workers, when requests come
\* one at a time and no process is killed, whatever Bull repeats once a handler is
\* over is the configuration in the row of its task, the only one stop() can remove,
\* also where a call of Bull or an UPDATE failed half-way (start, stop, update).
THEOREM SchedulesKnown ==
  ASSUME \A p, q \in Procs : p = q, "crash" \notin Calls
  PROVE  PartsSpec => []KnownSchedules
<1>1. Tasked!OneAtATime
  BY DEF Tasked!OneAtATime
<1>2. Tasked!TaskAssumption
  BY PartsAssumption DEF Scheduler!TaskAssumption, Tasked!TaskAssumption, Scheduler!AllCalls,
     Tasked!AllCalls
<1>3. Tasked!Spec => []Tasked!KnownSchedules
  BY <1>1, <1>2, Tasked!KnownWhileQuiet
<1>4. Tasked!Spec => []Tasked!TypeOK
  BY <1>2, Tasked!TypeCorrect
<1>5. PartsInit => Tasked!Init
  BY SameInit DEF PartsInit
<1>6. [PartsNext]_partsVars
        => [Tasked!Next]_Tasked!vars
  BY Steps, SameNext DEF taskVars, Tasked!vars, Tasked!bull, Tasked!past
<1>7. Tasked!TypeOK /\ Tasked!KnownSchedules => KnownSchedules
  BY SameTypes, SameSchedules DEF KnownSchedules
<1> QED BY <1>3, <1>4, <1>5, <1>6, <1>7, PTL DEF PartsSpec, Tasked!Spec
=============================================================================
