---------------------------- MODULE Dictionaries ----------------------------
(***************************************************************************)
(* Dictionary types and their items, and the constraint IsUnique that the  *)
(* body of a request has to pass before its handler runs: UniqueConstraint *)
(* asks MySQL whether another row has the value, and the handler inserts   *)
(* or updates in a later call.  The code of a type also has a unique       *)
(* index, its name has none.  Roles, tasks and system parameters use the   *)
(* same constraint in the same way.                                        *)
(***************************************************************************)
EXTENDS Naturals, FiniteSets

CONSTANTS
    MaxType,  \* bound: types ever inserted
    MaxItem,  \* bound: items ever inserted
    Values,   \* what a name or a code may be
    Clients,  \* bound: requests under way at once
    None

TypeIds == 1..MaxType
ItemIds == 1..MaxItem

DictionariesAssumption ==
    {MaxType, MaxItem} \subseteq Nat /\ None \notin Nat \cup Values

VARIABLES
    type,  \* sys_dict_type by id, None if there is no row
    item,  \* sys_dict_item by id: the id of its type, None if there is no row
    given, \* the ids AUTO_INCREMENT has given, of types and of items
    req,   \* the requests
    \* What the properties remember of the past; no action reads these.
    raced, \* types written while another request that writes types was under way
    unjust \* a row was refused its own values with no other request under way

vars == <<type, item, given, req, raced, unjust>>

Types == {i \in TypeIds : type[i] # None}
Items == {k \in ItemIds : item[k] # None}
Fields == {"name", "code"}
TypeRow == [Fields -> Values]

\* operateId is the id in the path of the route, which a POST without one has not.
Req == [at : {"new", "pipe", "handler"}, operateId : TypeIds \cup {None},
        dto : TypeRow \cup {None}, checked : SUBSET Fields, alone : BOOLEAN]
NewReq == [at |-> "new", operateId |-> None, dto |-> None, checked |-> {}, alone |-> TRUE]

Init ==
    /\ type = [i \in TypeIds |-> None]
    /\ item = [k \in ItemIds |-> None]
    /\ given = [type |-> 0, item |-> 0]
    /\ req = [c \in Clients |-> NewReq]
    /\ raced = {}
    /\ unjust = FALSE

UnderWay == {c \in Clients : req[c].at # "new"}

Arrive(c, r) ==
    /\ req[c].at = "new"
    /\ req' = [d \in Clients |-> IF d = c THEN [r EXCEPT !.alone = UnderWay = {}]
                                 ELSE [req[d] EXCEPT !.alone = FALSE]]
    /\ UNCHANGED <<type, item, given, raced, unjust>>

End(c) == req' = [req EXCEPT ![c] = NewReq]

\* POST dict-type and POST dict-type/:id
PostType(c, dto) == Arrive(c, [NewReq EXCEPT !.at = "pipe", !.dto = dto])
PostTypeId(c, i, dto) == Arrive(c, [NewReq EXCEPT !.at = "pipe", !.operateId = i, !.dto = dto])

-----------------------------------------------------------------------------
\* UniqueConstraint

Taken_Itself(i, f, v) == \E k \in Types : type[k][f] = v

Taken_ByCode(i, f, v) == \E k \in Types : type[k]["code"] = v /\ k # i

\* The row that is edited may keep its values.
Taken(i, f, v) == \E k \in Types : type[k][f] = v /\ k # i

Unchanged(r) == r.operateId \in Types /\ type[r.operateId] = r.dto

\* The fields are looked up one call each, in no order; the first that fails
\* ends the request with 422.
Validate(c, f) ==
    /\ req[c].at = "pipe"
    /\ f \notin req[c].checked
    /\ IF Taken(req[c].operateId, f, req[c].dto[f])
       THEN End(c) /\ unjust' = (unjust \/ (raced = {} /\ req[c].alone /\ Unchanged(req[c])))
       ELSE /\ req' = [req EXCEPT ![c].checked = @ \cup {f},
                                  ![c].at = IF req[c].checked \cup {f} = Fields
                                            THEN "handler" ELSE "pipe"]
            /\ UNCHANGED unjust
    /\ UNCHANGED <<type, item, given, raced>>

-----------------------------------------------------------------------------
\* DictTypeService

\* The unique index of sys_dict_type.code.
CodeFree(i, dto) == \A k \in Types \ {i} : type[k]["code"] # dto["code"]

Write(c, i) ==
    /\ CodeFree(i, req[c].dto)
    /\ type' = [type EXCEPT ![i] = req[c].dto]
    /\ raced' = IF req[c].alone THEN raced \ {i} ELSE raced \cup {i}
    /\ End(c)

Create(c) ==
    /\ req[c].at = "handler" /\ req[c].operateId = None
    /\ given.type < MaxType
    /\ given' = [given EXCEPT !.type = @ + 1]
    /\ Write(c, given.type + 1)
    /\ UNCHANGED <<item, unjust>>

\* No row of that id: nothing is updated.
Update(c) ==
    LET i == req[c].operateId
    IN  /\ req[c].at = "handler" /\ i # None
        /\ IF i \in Types THEN Write(c, i) ELSE End(c) /\ UNCHANGED <<type, raced>>
        /\ UNCHANGED <<item, given, unjust>>

\* The items go with their type (CASCADE).
DeleteType(i) ==
    /\ i \in Types
    /\ type' = [type EXCEPT ![i] = None]
    /\ item' = [k \in ItemIds |-> IF item[k] = i THEN None ELSE item[k]]
    /\ raced' = raced \ {i}
    /\ UNCHANGED <<given, req, unjust>>

-----------------------------------------------------------------------------
\* DictItemService: single statements, which the foreign key refuses when there
\* is no such type.

CreateItem(i) ==
    /\ given.item < MaxItem /\ i \in Types
    /\ item' = [item EXCEPT ![given.item + 1] = i]
    /\ given' = [given EXCEPT !.item = @ + 1]
    /\ UNCHANGED <<type, req, raced, unjust>>

UpdateItem(k, i) ==
    /\ k \in Items /\ i \in Types
    /\ item' = [item EXCEPT ![k] = i]
    /\ UNCHANGED <<type, given, req, raced, unjust>>

DeleteItem(k) ==
    /\ k \in Items
    /\ item' = [item EXCEPT ![k] = None]
    /\ UNCHANGED <<type, given, req, raced, unjust>>

\* MySQL refuses or fails: validate catches the error and refuses the field, the
\* handler does not.  Or the instance ends.
Fail(c) ==
    /\ req[c].at # "new"
    /\ End(c)
    /\ UNCHANGED <<type, item, given, raced, unjust>>

-----------------------------------------------------------------------------
Next ==
    \/ \E c \in Clients :
         \/ \E dto \in TypeRow : PostType(c, dto) \/ \E i \in TypeIds : PostTypeId(c, i, dto)
         \/ \E f \in Fields : Validate(c, f)
         \/ Create(c) \/ Update(c) \/ Fail(c)
    \/ \E i \in TypeIds : DeleteType(i) \/ CreateItem(i)
    \/ \E k \in ItemIds : DeleteItem(k) \/ \E i \in TypeIds : UpdateItem(k, i)

Spec == Init /\ [][Next]_vars

-----------------------------------------------------------------------------
\* Properties

\* TypeOK: every variable stays in its type.
TypeOK ==
    /\ type \in [TypeIds -> TypeRow \cup {None}]
    /\ item \in [ItemIds -> TypeIds \cup {None}]
    /\ given \in [type : 0..MaxType, item : 0..MaxItem]
    /\ req \in [Clients -> Req]
    /\ raced \in SUBSET TypeIds
    /\ unjust \in BOOLEAN

\* NamesDiffer: two types have one name only if one of them was written by a
\* request that overlapped another: the constraint lets no name through that a
\* row already has, whatever was created, renamed and deleted before
\* (IsUnique, validate).
NamesDiffer ==
    \A i, k \in Types : type[i]["name"] = type[k]["name"] => i = k \/ {i, k} \cap raced # {}

\* OwnValuesPass: as long as no two types were written at once, a type can be
\* saved with the values it has: neither it nor another row is in the way
\* (operateId).
OwnValuesPass == ~unjust
=============================================================================
