------------------------------ MODULE MenuTree ------------------------------
(***************************************************************************)
(* The menu table as a tree: MenuController and MenuService edit the rows  *)
(* by their parentId, which no foreign key guards, and permission.util     *)
(* turns the rows back into the tree of the administration page and the    *)
(* routes of a user.  What the edits do to the cached permissions is in    *)
(* PermCache.                                                              *)
(*                                                                         *)
(* One action is one awaited call; handlers of several administrators      *)
(* interleave.                                                             *)
(***************************************************************************)
EXTENDS Naturals, Sequences, FiniteSets, SequencesExt

CONSTANTS
    MaxId,    \* bound: how many rows are ever inserted
    Handlers, \* bound: how many edits are under way at once
    Crowd,    \* bound: no two are once this many rows have been inserted
    Edits,    \* the bodies of PUT requests
    None      \* no parent, no row, a field the request leaves out

MENU_GROUP == 0
MENU == 1
PERMISSION == 2
Types == {MENU_GROUP, MENU, PERMISSION}
Ids == 1..MaxId

\* MenuUpdateDto: any field may be missing; MenuDto: only parentId may.
Dto == [type : Types \cup {None}, parentId : Ids \cup {None}, status : {0, 1, None}]
CompleteDto == {d \in Dto : d.type # None /\ d.status # None}

ASSUME MenuTreeAssumption ==
    /\ MaxId \in Nat \ {0} /\ Crowd \in Nat
    /\ None \notin Nat
    /\ Edits \subseteq Dto

VARIABLES
    menus,  \* sys_menu: the row of an id, None before its insertion and after its deletion
    nextId, \* AUTO_INCREMENT
    job     \* the handlers

vars == <<menus, nextId, job>>

\* orderNo is the id's.  The columns that are only shown are left out.
Row == [type : Types, parentId : Ids \cup {None}, status : {0, 1}]

Rows == {i \in Ids : menus[i] # None}

-----------------------------------------------------------------------------
\* permission.util and list2tree.util.  A tree is a sequence of nodes in the
\* order of the rows; a node has its id and its children.  The functions below
\* go no deeper than there are rows: rows in a circle are below no root.

Node(i, children) == [id |-> i, children |-> children]

\* The rows of a query, ordered by orderNo.
Query(S) == SelectSeq([i \in Ids |-> i], LAMBDA i : i \in S)

FilterMenuToTable_AnyRoot(list) ==
    LET table[n \in 0..Len(list), parent \in Ids \cup {None}] ==
          LET here(i) ==
                \/ menus[i].parentId = parent
                \/ parent = None /\ menus[i].parentId # None /\ ~Contains(list, menus[i].parentId)
              kids == SelectSeq(list, here)
              below(i) == IF menus[i].type = PERMISSION THEN <<>> ELSE table[n - 1, i]
          IN  IF n = 0 THEN <<>> ELSE [k \in DOMAIN kids |-> Node(kids[k], below(kids[k]))]
    IN  table[Len(list), None]

\* A permission is listed under its parent only, and nothing under it is.
FilterMenuToTable(list) ==
    LET table[n \in 0..Len(list), parent \in Ids \cup {None}] ==
          LET here(i) == /\ menus[i].parentId = parent
                         /\ parent = None => menus[i].type # PERMISSION
              kids == SelectSeq(list, here)
              below(i) == IF menus[i].type = PERMISSION THEN <<>> ELSE table[n - 1, i]
          IN  IF n = 0 THEN <<>> ELSE [k \in DOMAIN kids |-> Node(kids[k], below(kids[k]))]
    IN  table[Len(list), None]

\* MenuService.listNoPage and list before its slice; an empty list of children
\* and none are the same here, as deleteEmptyChildren makes them.
GenerateMenu(S) == FilterMenuToTable(Query(S))

\* createRoute: a directory leads on to its first child, under its own path or
\* the child's; the rest is copied from the row.
CreateRoute(i, children) ==
    [id |-> i, children |-> children,
     redirect |-> IF children = <<>> THEN None ELSE children[1].id]

FilterAsyncRoutes_BelowMenus(list) ==
    LET routes[n \in 0..Len(list), parent \in Ids \cup {None}] ==
          LET here(i) == menus[i].type # PERMISSION /\ menus[i].status = 1 /\ menus[i].parentId = parent
              kids == SelectSeq(list, here)
          IN  IF n = 0 THEN <<>> ELSE [k \in DOMAIN kids |-> CreateRoute(kids[k], routes[n - 1, kids[k]])]
    IN  routes[Len(list), None]

\* Permissions and disabled rows are skipped with all that is below them, and
\* only a directory gets children.
FilterAsyncRoutes(list) ==
    LET routes[n \in 0..Len(list), parent \in Ids \cup {None}] ==
          LET here(i) == menus[i].type # PERMISSION /\ menus[i].status = 1 /\ menus[i].parentId = parent
              kids == SelectSeq(list, here)
              below(i) == IF menus[i].type = MENU_GROUP THEN routes[n - 1, i] ELSE <<>>
          IN  IF n = 0 THEN <<>> ELSE [k \in DOMAIN kids |-> CreateRoute(kids[k], below(kids[k]))]
    IN  routes[Len(list), None]

\* MenuService.getMenus: the routes of somebody whose roles have the menus S.
GeneratorRouters(S) == FilterAsyncRoutes(Query(S))

\* The ids of a tree, level by level.
Flat(tree) ==
    LET level[n \in 0..MaxId] ==
          LET above == level[n - 1]
          IN  IF n = 0 THEN tree ELSE FlattenSeq([k \in DOMAIN above |-> above[k].children])
        ids == FlattenSeq([n \in 1..MaxId |-> level[n - 1]])
    IN  [k \in DOMAIN ids |-> ids[k].id]

-----------------------------------------------------------------------------
\* The handlers

Stages == {"new", "save", "update", "find", "drop"}
Job == [at : Stages, id : Ids \cup {None}, dto : Dto \cup {None},
        todo : SUBSET Ids, found : SUBSET Ids, alone : BOOLEAN]
NewJob == [at |-> "new", id |-> None, dto |-> None, todo |-> {}, found |-> {}, alone |-> TRUE]

Init ==
    /\ menus = [i \in Ids |-> None]
    /\ nextId = 1
    /\ job = [h \in Handlers |-> NewJob]

\* MenuService.check
Check(d) ==
    /\ ~(d.type = PERMISSION /\ d.parentId = None)
    /\ d.type = MENU /\ d.parentId # None
         => d.parentId \in Rows /\ menus[d.parentId].type = MENU_GROUP

Begin(h, j) ==
    /\ job[h].at = "new"
    /\ nextId <= Crowd \/ \A g \in Handlers : job[g].at = "new"
    /\ job' = [job EXCEPT ![h] = j]
    /\ UNCHANGED <<menus, nextId>>

\* Every statement that writes the table, the last of its handler; the others
\* in flight are not alone any more, which no action reads.
Write(h, table) ==
    /\ menus' = table
    /\ job' = [g \in Handlers |-> IF g = h \/ job[g].at = "new" THEN NewJob
                                  ELSE [job[g] EXCEPT !.alone = FALSE]]

\* MenuController.create, as far as check, and its INSERT; a refused request
\* changes nothing and is left out.
Create(h, d) ==
    Check(d) /\ Begin(h, [NewJob EXCEPT !.at = "save", !.dto = d])

Save(h) ==
    /\ job[h].at = "save"
    /\ nextId <= MaxId
    /\ Write(h, [menus EXCEPT ![nextId] = job[h].dto])
    /\ nextId' = nextId + 1

\* MenuController.update.  A parentId of -1, or none, means the root, and check
\* has seen the -1: toRoot says that it was one.
Update(h, i, d, toRoot) ==
    /\ IF toRoot THEN d.parentId = None /\ d.type # MENU ELSE Check(d)
    /\ Begin(h, [NewJob EXCEPT !.at = "update", !.id = i, !.dto = d])

\* The fields of the request that are there, and the parent always.
UpdateRow(h) ==
    LET j == job[h]
        old == menus[j.id]
        new == [type |-> IF j.dto.type = None THEN old.type ELSE j.dto.type,
                parentId |-> j.dto.parentId,
                status |-> IF j.dto.status = None THEN old.status ELSE j.dto.status]
    IN  /\ j.at = "update"
        /\ Write(h, IF old = None THEN menus ELSE [menus EXCEPT ![j.id] = new])
        /\ UNCHANGED nextId

\* MenuController.delete, unless checkRoleByMenuId refuses, which is up to the
\* rows of PermCache.
Delete(h, i) ==
    Begin(h, [NewJob EXCEPT !.at = "find", !.id = i, !.todo = {i}, !.found = {i}])

Children(i) == {k \in Rows : menus[k].parentId = i}

FindChildMenus_OneLevel(h, i) ==
    LET j == job[h]
    IN  /\ j.at = "find" /\ i \in j.todo
        /\ job' = [job EXCEPT ![h].todo = {}, ![h].found = @ \cup Children(i), ![h].at = "drop"]
        /\ UNCHANGED <<menus, nextId>>

\* findChildMenus, one query after the other; below a circle it never ends.
FindChildMenus(h, i) ==
    LET j == job[h]
        todo == (j.todo \ {i}) \cup {k \in Children(i) : menus[k].type # PERMISSION}
    IN  /\ j.at = "find" /\ i \in j.todo
        /\ job' = [job EXCEPT ![h].todo = todo, ![h].found = @ \cup Children(i),
                              ![h].at = IF todo = {} THEN "drop" ELSE "find"]
        /\ UNCHANGED <<menus, nextId>>

DeleteMenuItem(h) ==
    /\ job[h].at = "drop"
    /\ Write(h, [i \in Ids |-> IF i \in job[h].found THEN None ELSE menus[i]])
    /\ UNCHANGED nextId

\* MySQL refuses, or the instance ends.
Fail(h) ==
    /\ job[h].at # "new"
    /\ job' = [job EXCEPT ![h] = NewJob]
    /\ UNCHANGED <<menus, nextId>>

-----------------------------------------------------------------------------
Next ==
    \E h \in Handlers :
        \/ \E d \in CompleteDto : Create(h, d)
        \/ \E i \in Rows, d \in Edits, toRoot \in BOOLEAN : Update(h, i, d, toRoot)
        \/ \E i \in Rows : Delete(h, i)
        \/ \E i \in Ids : FindChildMenus(h, i)
        \/ Save(h) \/ UpdateRow(h) \/ DeleteMenuItem(h) \/ Fail(h)

Spec == Init /\ [][Next]_vars

-----------------------------------------------------------------------------
\* Properties

\* TypeOK: every variable stays in its type.
TypeOK ==
    /\ menus \in [Ids -> Row \cup {None}]
    /\ nextId \in 1..(MaxId + 1)
    /\ job \in [Handlers -> Job]

\* The ids above a row, as its parents say.
Above[i \in Ids, n \in 0..MaxId] ==
    IF n = 0 \/ i \notin Rows \/ menus[i].parentId = None THEN {}
    ELSE {menus[i].parentId} \cup Above[menus[i].parentId, n - 1]
Ancestors == [i \in Rows |-> Above[i, MaxId]]
AtRoot == {i \in Rows : menus[i].parentId = None}
OfType(t) == {i \in Rows : menus[i].type = t}

\* An edit writes in its last step, so the table is looked at when none is under way.
Quiet == \A h \in Handlers : job[h].at = "new"

\* TreeIsComplete: whatever rows a search finds, the page lists each of them
\* once if all the rows above it were found, none of them a permission, and a
\* permission only below another row; and lists nothing else (generateMenu).
TreeIsComplete ==
    LET up == Ancestors
        listed == {i \in Rows \ (AtRoot \cap OfType(PERMISSION)) :
                     /\ (up[i] \cup {i}) \cap AtRoot # {}
                     /\ up[i] \cap OfType(PERMISSION) = {}}
    IN  Quiet => \A S \in SUBSET Rows :
            LET flat == Flat(GenerateMenu(S))
            IN  ToSet(flat) = {i \in S \cap listed : up[i] \subseteq S} /\ IsInjective(flat)

\* RoutesAreReachable: whatever menus the roles of a user have, the user gets a
\* route to a row exactly if it and all above it are enabled and among these
\* menus, and all above are directories (generatorRouters).
RoutesAreReachable ==
    LET up == Ancestors
        enabled == {i \in Rows : menus[i].status = 1}
        routed == {i \in enabled \ OfType(PERMISSION) :
                     /\ (up[i] \cup {i}) \cap AtRoot # {}
                     /\ up[i] \subseteq enabled \cap OfType(MENU_GROUP)}
    IN  Quiet => \A S \in SUBSET Rows :
            ToSet(Flat(GeneratorRouters(S))) = {i \in S \cap routed : up[i] \subseteq S}

\* DeleteIsExact: a delete no other write comes between takes exactly the row
\* and what the page listed below it off the page, and leaves no row behind
\* whose parent it took, unless that parent was a permission (delete,
\* findChildMenus).
Page == ToSet(Flat(GenerateMenu(Rows)))
Below(i) == {k \in Rows : i \in Ancestors[k] \cup {k}}
Deletes(h) == job[h].at = "drop" /\ job[h].alone /\ job'[h].at = "new" /\ menus' # menus
LeavesNoChild == \A k \in Rows' : menus[k].parentId \in Rows \ Rows'
                                    => menus[menus[k].parentId].type = PERMISSION
DeletesExactly == \A h \in Handlers : Deletes(h) => Page' = Page \ Below(job[h].id) /\ LeavesNoChild
DeleteIsExact == [][DeletesExactly]_vars
=============================================================================
