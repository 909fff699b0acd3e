------------------------------- MODULE Paging -------------------------------
(***************************************************************************)
(* The paginated lists of the system and a client that walks through one,  *)
(* from the first page to the last the replies tell it of, while rows are  *)
(* inserted and deleted.  A page is cut by one query and the total is      *)
(* counted by another, each of them a call to MySQL.                       *)
(***************************************************************************)
EXTENDS Naturals, Sequences, FiniteSets, SequencesExt

CONSTANTS
    MaxRow,      \* bound: rows ever inserted
    DefaultSize, \* DEFAULT_LIMIT
    MaxSize,     \* the largest pageSize PagerDto lets through
    None         \* a parameter the request leaves out, a call that has not come back

Ids == 1..MaxRow

\* What a list is made of:
\*   order  "newest" rows first, "oldest" first, "placed" by an orderNo the client
\*          chooses, "tied" when all rows have the same
\*   cut    "pages" by the database, "nothing": every reply has all the rows,
\*          "slice" of what one query returned
\*   count  "after" the rows, "beside" them on another connection, "same" query
List(order, cut, count) == [order |-> order, cut |-> cut, count |-> count]

\* The raw rows of a query with a join are not cut by take and skip.
LoginLogList == List("newest", "nothing", "beside")
CaptchaLogList == List("newest", "pages", "after")
TaskLogList == List("newest", "pages", "after")
\* created_at DESC
StorageList == List("newest", "pages", "beside")
TaskList == List("oldest", "pages", "after")
\* No ORDER BY: the rows come by their primary key.  With a join TypeORM orders
\* by the key itself.
UserList == List("oldest", "pages", "after")
RoleList == List("oldest", "pages", "after")
DictTypeList == List("oldest", "pages", "after")
TodoList == List("oldest", "pages", "beside")
\* ORDER BY orderNo, which no handler sets.
DictItemList == List("tied", "pages", "after")
\* The roots of the tree of menus.
MenuList == List("placed", "slice", "same")

AllLists == {LoginLogList, CaptchaLogList, TaskLogList, StorageList, TaskList, UserList,
             RoleList, DictTypeList, TodoList, DictItemList, MenuList}

\* What a request asks for: every row, those a parameter matches, or those of a
\* user name that nobody has.
Filters == {"none", "some", "nobody"}

PagingAssumption ==
    /\ {MaxRow, DefaultSize, MaxSize} \subseteq Nat \ {0}
    /\ None \notin Nat /\ \A S \in SUBSET Ids : S # None

VARIABLES
    list,  \* the list of this behaviour
    rows,  \* the ids of its table in the order of the list
    some,  \* the ids a parameter matches
    given, \* AUTO_INCREMENT
    walk   \* the client

vars == <<list, rows, some, given, walk>>

Walk == [at : {"idle", "reading", "done"}, filter : Filters, page : Nat, size : Nat,
         items : (SUBSET Ids) \cup {None}, total : Nat \cup {None},
         \* remembered: how often each row was in a page, the rows that matched at the
         \* start, and which writes there were since
         seen : [Ids -> Nat], before : SUBSET Ids, writes : SUBSET {"insert", "delete"}]

Idle == [at |-> "idle", filter |-> "none", page |-> 1, size |-> 1, items |-> None, total |-> None,
         seen |-> [i \in Ids |-> 0], before |-> {}, writes |-> {}]

Init ==
    /\ list \in AllLists
    /\ rows = <<>>
    /\ some = {}
    /\ given = 0
    /\ walk = Idle

-----------------------------------------------------------------------------
\* The rows a filter is meant to leave.
Matches(filter) ==
    CASE filter = "none" -> ToSet(rows)
      [] filter = "some" -> ToSet(rows) \cap some
      [] filter = "nobody" -> {}

\* The WHERE of a list.  The storage list looks the user up first, and a where
\* whose value is undefined is left out.
Where(filter) ==
    IF list = StorageList /\ filter = "nobody" THEN Matches("none") ELSE Matches(filter)

\* Where in the list the rows are that the request asks for, and of these how
\* many there are up to each.
Selected == {k \in DOMAIN rows : rows[k] \in Where(walk.filter)}
Rank(k) == Cardinality({j \in Selected : j <= k})
RowsAt(K) == {rows[k] : k \in K}

Skip_NextPage(page, size) == page * size

Skip(page, size) == (page - 1) * size

\* take(limit).skip(...), or the slice.
CutAt(page, size) ==
    RowsAt({k \in Selected : Skip(page, size) < Rank(k) /\ Rank(k) <= Skip(page, size) + size})

\* What the query for the rows may return: any choice of rows among tied ones.
Cuts ==
    LET cut == CutAt(walk.page, walk.size)
    IN  CASE list.cut = "nothing" -> {RowsAt(Selected)}
          [] list.order = "tied" -> {S \in SUBSET RowsAt(Selected) : Cardinality(S) = Cardinality(cut)}
          [] OTHER -> {cut}

\* createPaginationObject
TotalPages(total, size) == (total + size - 1) \div size

-----------------------------------------------------------------------------
\* PagerDto and resolveOptions

Resolved(parameter, default) == IF parameter = None THEN default ELSE parameter

\* The first page of a walk; a size out of bounds is answered with 422.
Open(filter, pageSize) ==
    /\ walk.at = "idle"
    /\ Resolved(pageSize, DefaultSize) \in 1..MaxSize
    /\ walk' = [Idle EXCEPT !.at = "reading", !.filter = filter, !.before = Matches(filter),
                            !.size = Resolved(pageSize, DefaultSize)]
    /\ UNCHANGED <<list, rows, some, given>>

\* getMany, getRawMany, find.  getManyAndCount does without the second query
\* when the page is not full.
ReadItems ==
    /\ walk.at = "reading" /\ walk.items = None
    /\ \E S \in Cuts :
         LET skip == Skip(walk.page, walk.size)
             known == \/ list.count = "same"
                      \/ list.count = "after" /\ S # {} /\ Cardinality(S) < walk.size
         IN  walk' = [walk EXCEPT !.items = S,
                                  !.total = IF ~known THEN @
                                            ELSE IF list.count = "same" THEN Cardinality(Selected)
                                            ELSE skip + Cardinality(S)]
    /\ UNCHANGED <<list, rows, some, given>>

Count_Beside ==
    /\ walk.at = "reading" /\ walk.total = None
    /\ walk' = [walk EXCEPT !.total = Cardinality(Selected)]
    /\ UNCHANGED <<list, rows, some, given>>

Count ==
    /\ walk.at = "reading" /\ walk.total = None
    /\ list.count = "after" => walk.items # None
    /\ walk' = [walk EXCEPT !.total = Cardinality(Selected)]
    /\ UNCHANGED <<list, rows, some, given>>

\* The reply; the client asks for the next page if there is one.
Reply ==
    /\ walk.at = "reading" /\ walk.items # None /\ walk.total # None
    /\ LET more == walk.page < TotalPages(walk.total, walk.size)
       IN  walk' = [walk EXCEPT
                      !.seen = [i \in Ids |-> IF i \in walk.items THEN @[i] + 1 ELSE @[i]],
                      !.at = IF more THEN "reading" ELSE "done",
                      !.page = IF more THEN @ + 1 ELSE @,
                      !.items = IF more THEN None ELSE @,
                      !.total = IF more THEN None ELSE @]
    /\ UNCHANGED <<list, rows, some, given>>

\* MySQL fails or refuses, the client goes away, the walk is over.
Close ==
    /\ walk.at # "idle"
    /\ walk' = Idle
    /\ UNCHANGED <<list, rows, some, given>>

-----------------------------------------------------------------------------
\* The handlers that write the table, each in the module of its component.

Wrote(kind) == walk' = IF walk.at = "reading" THEN [walk EXCEPT !.writes = @ \cup {kind}] ELSE walk

Places ==
    CASE list.order = "newest" -> {1}
      [] list.order \in {"oldest", "tied"} -> {Len(rows) + 1}
      [] list.order = "placed" -> 1..(Len(rows) + 1)

Insert ==
    /\ given < MaxRow
    /\ given' = given + 1
    /\ \E k \in Places : rows' = InsertAt(rows, k, given + 1)
    /\ \/ some' = some
       \/ some' = some \cup {given + 1}
    /\ Wrote("insert")
    /\ UNCHANGED list

Delete(i) ==
    /\ \E k \in DOMAIN rows : rows[k] = i /\ rows' = RemoveAt(rows, k)
    /\ some' = some \ {i}
    /\ Wrote("delete")
    /\ UNCHANGED <<list, given>>

-----------------------------------------------------------------------------
Next ==
    \/ \E f \in Filters, n \in 0..MaxSize + 1 \cup {None} : Open(f, n)
    \/ ReadItems \/ Count \/ Reply \/ Close
    \/ Insert
    \/ \E i \in Ids : Delete(i)

Spec == Init /\ [][Next]_vars

-----------------------------------------------------------------------------
\* Properties

\* TypeOK: every variable stays in its type, and no row is twice in a list.
TypeOK ==
    /\ list \in AllLists
    /\ rows \in Seq(Ids) /\ IsInjective(rows)
    /\ some \subseteq ToSet(rows)
    /\ given \in 0..MaxRow
    /\ walk \in Walk

\* PagesCover: a client that walks through a list nobody writes meanwhile gets
\* every row that matches exactly once and stops with the right total, for
\* every size of page and every number of rows (skip, take, ceil).  Not so where
\* the rows are tied, where a page is everything, and for files of nobody.
PagesCover ==
    walk.at = "done" /\ walk.writes = {} /\ list.cut # "nothing" /\ list.order # "tied"
        /\ ~(list = StorageList /\ walk.filter = "nobody") =>
        /\ \A i \in Ids : walk.seen[i] = IF i \in walk.before THEN 1 ELSE 0
        /\ walk.total = Cardinality(walk.before)

\* NothingSkipped: rows inserted during the walk, before or between the two
\* queries of a page, push no row that was there out of it, in the logs, whose
\* newest row comes first, and where the new rows come last; there no row is
\* shown twice either.  The logs need the count to come after the rows
\* (getManyAndCount).
NothingSkipped ==
    walk.at = "done" /\ walk.writes = {"insert"} /\ list.cut = "pages"
        /\ (list.order = "oldest" \/ (list.order = "newest" /\ list.count = "after")) =>
        \A i \in walk.before :
            /\ walk.seen[i] >= 1
            /\ list.order = "oldest" => walk.seen[i] = 1
=============================================================================
