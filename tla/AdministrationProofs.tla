------------------------ MODULE AdministrationProofs ------------------------
(***************************************************************************)
(* Proofs about MenuTree, and about Departments, Dictionaries and Accounts *)
(* as MCAdministration puts them together, for every value of the          *)
(* constants: what a delete of a menu takes, the paths of departments and  *)
(* the users in them, what uniqueness is left of a look-up before an       *)
(* INSERT, and the overlapping edits of a user.                            *)
(***************************************************************************)
EXTENDS MCAdministration, FiniteSetsExt, SequenceTheorems, FiniteSetTheorems, WellFoundedInduction, TLAPS

-----------------------------------------------------------------------------
(* Paths *)

\* A prefix, element by element.
LEMMA PrefixIs ==
  ASSUME NEW S, NEW s \in Seq(S), NEW t \in Seq(S)
  PROVE  IsPrefix(s, t) <=> Len(s) <= Len(t) /\ \A j \in 1..Len(s) : s[j] = t[j]
<1>1. SubSeq(s, 1, Len(s)) = s
  BY SubSeqFull
<1>2. ASSUME Len(s) <= Len(t)
      PROVE  /\ SubSeq(t, 1, Len(s)) \in Seq(S) /\ Len(SubSeq(t, 1, Len(s))) = Len(s)
             /\ \A j \in 1..Len(s) : SubSeq(t, 1, Len(s))[j] = t[j]
  <2>1. Len(s) \in Nat /\ \A j \in 1..Len(s) : t[j] \in S
    BY <1>2
  <2>2. /\ SubSeq(t, 1, Len(s)) \in Seq(S)
        /\ Len(SubSeq(t, 1, Len(s))) = IF 1 <= Len(s) THEN Len(s) - 1 + 1 ELSE 0
        /\ \A i \in 1..(Len(s) - 1 + 1) : SubSeq(t, 1, Len(s))[i] = t[1 + i - 1]
    BY <2>1, SubSeqProperties
  <2> QED BY <2>1, <2>2
<1>3. ASSUME Len(s) <= Len(t), \A j \in 1..Len(s) : s[j] = t[j]
      PROVE  s = SubSeq(t, 1, Len(s))
  <2> DEFINE u == SubSeq(t, 1, Len(s))
  <2>1. u \in Seq(S) /\ Len(u) = Len(s) /\ \A j \in 1..Len(s) : u[j] = s[j]
    BY <1>2, <1>3
  <2> HIDE DEF u
  <2> QED BY <2>1, SeqEqual DEF u
<1> QED BY <1>1, <1>2, <1>3 DEF IsPrefix

LEMMA AppendIs ==
  ASSUME NEW S, NEW s \in Seq(S), NEW x \in S
  PROVE  /\ Append(s, x) \in Seq(S) /\ Len(Append(s, x)) = Len(s) + 1
         /\ Append(s, x)[Len(s) + 1] = x
         /\ \A j \in 1..Len(s) : Append(s, x)[j] = s[j]
  OBVIOUS

\* What is a prefix of a path is one of the paths below it.
LEMMA PrefixLonger ==
  ASSUME NEW S, NEW s \in Seq(S), NEW t \in Seq(S), NEW x \in S, IsPrefix(s, t)
  PROVE  IsPrefix(s, Append(t, x))
<1>1. Len(s) \in Nat /\ Len(t) \in Nat /\ Len(s) <= Len(t) /\ \A j \in 1..Len(s) : s[j] = t[j]
  BY PrefixIs
<1>2. Len(s) <= Len(t) + 1 /\ \A j \in 1..Len(s) : j \in 1..Len(t)
  BY <1>1
<1>3. Len(s) <= Len(Append(t, x)) /\ \A j \in 1..Len(s) : s[j] = Append(t, x)[j]
  BY <1>1, <1>2, AppendIs
<1> QED BY <1>3, AppendIs, PrefixIs

\* A path is not below another of the same length that ends elsewhere.
LEMMA PrefixShorter ==
  ASSUME NEW S, NEW s \in Seq(S), NEW t \in Seq(S), NEW x \in S, NEW y \in S, x # y,
         IsPrefix(Append(s, x), Append(t, y))
  PROVE  IsPrefix(Append(s, x), t)
<1> DEFINE sx == Append(s, x)
           tx == Append(t, y)
<1>1. /\ sx \in Seq(S) /\ Len(sx) = Len(s) + 1 /\ sx[Len(s) + 1] = x
      /\ tx \in Seq(S) /\ Len(tx) = Len(t) + 1 /\ tx[Len(t) + 1] = y
      /\ \A j \in 1..Len(t) : tx[j] = t[j]
      /\ Len(s) \in Nat /\ Len(t) \in Nat /\ IsPrefix(sx, tx)
  BY AppendIs
<1> HIDE DEF sx, tx
<1>2. Len(sx) <= Len(tx) /\ \A j \in 1..Len(sx) : sx[j] = tx[j]
  BY <1>1, PrefixIs
<1>3. Len(s) # Len(t)
  BY <1>1, <1>2
<1>4. Len(sx) <= Len(t) /\ \A j \in 1..Len(sx) : sx[j] = t[j]
  BY <1>1, <1>2, <1>3
<1>5. IsPrefix(sx, t)
  BY <1>1, <1>4, PrefixIs
<1> QED BY <1>5 DEF sx

LEMMA PrefixItself == ASSUME NEW S, NEW s \in Seq(S) PROVE IsPrefix(s, s)
  BY DEF IsPrefix

\* The rest of a path after its first n.
Rest(t, n) == SubSeq(t, n + 1, Len(t))

LEMMA RestAppend ==
  ASSUME NEW S, NEW s \in Seq(S), NEW t \in Seq(S), NEW x \in S, NEW n \in Nat, n <= Len(t)
  PROVE  /\ s \o Rest(t, n) \in Seq(S)
         /\ s \o Rest(Append(t, x), n) = Append(s \o Rest(t, n), x)
<1> DEFINE tx == Append(t, x)
           u == SubSeq(t, n + 1, Len(t))
           v == SubSeq(tx, n + 1, Len(tx))
<1>1. /\ tx \in Seq(S) /\ Len(tx) = Len(t) + 1 /\ tx[Len(t) + 1] = x
      /\ \A j \in 1..Len(t) : tx[j] = t[j] /\ t[j] \in S
      /\ Len(t) \in Nat
  BY AppendIs
<1> HIDE DEF tx
<1>2. u \in Seq(S) /\ Len(u) = Len(t) - n /\ \A i \in 1..(Len(t) - n) : u[i] = t[n + i]
  <2>1. \A j \in (n + 1)..Len(t) : t[j] \in S
    BY <1>1
  <2>2. n + 1 \in Int /\ Len(t) \in Int
    BY <1>1
  <2>3. /\ u \in Seq(S) /\ Len(u) = IF n + 1 <= Len(t) THEN Len(t) - (n + 1) + 1 ELSE 0
        /\ \A i \in 1..(Len(t) - (n + 1) + 1) : u[i] = t[n + 1 + i - 1]
    BY <2>1, <2>2, SubSeqProperties
  <2> HIDE DEF u
  <2> QED BY <1>1, <2>3
<1>3. v \in Seq(S) /\ Len(v) = Len(t) - n + 1 /\ \A i \in 1..(Len(t) - n + 1) : v[i] = tx[n + i]
  <2>1. \A j \in (n + 1)..Len(tx) : tx[j] \in S
    BY <1>1
  <2>2. n + 1 \in Int /\ Len(tx) \in Int
    BY <1>1
  <2>3. /\ v \in Seq(S) /\ Len(v) = IF n + 1 <= Len(tx) THEN Len(tx) - (n + 1) + 1 ELSE 0
        /\ \A i \in 1..(Len(tx) - (n + 1) + 1) : v[i] = tx[n + 1 + i - 1]
    BY <2>1, <2>2, SubSeqProperties
  <2> HIDE DEF v
  <2> QED BY <1>1, <2>3
<1> HIDE DEF tx, u, v, Rest
<1>4. v = Append(u, x)
  <2>1. Append(u, x) \in Seq(S) /\ Len(Append(u, x)) = Len(v)
        /\ Append(u, x)[Len(u) + 1] = x /\ \A i \in 1..Len(u) : Append(u, x)[i] = u[i]
    BY <1>2, <1>3, AppendIs
  <2>2. \A i \in 1..Len(v) : v[i] = Append(u, x)[i]
    <3> SUFFICES ASSUME NEW i \in 1..Len(v) PROVE v[i] = Append(u, x)[i]
      OBVIOUS
    <3>1. CASE i \in 1..Len(u)
      <4>1. n + i \in 1..Len(t) /\ i \in 1..(Len(t) - n) /\ i \in 1..(Len(t) - n + 1)
        BY <1>1, <1>2, <3>1
      <4> QED BY <1>1, <1>2, <1>3, <2>1, <3>1, <4>1
    <3>2. CASE i = Len(u) + 1
      <4>1. n + i = Len(t) + 1 /\ i \in 1..(Len(t) - n + 1)
        BY <1>1, <1>2, <3>2
      <4> QED BY <1>1, <1>3, <2>1, <3>2, <4>1
    <3>3. i \in 1..Len(u) \/ i = Len(u) + 1
      <4>1. Len(u) \in Nat /\ Len(v) = Len(u) + 1
        BY <1>1, <1>2, <1>3
      <4> QED BY <4>1
    <3> QED BY <3>1, <3>2, <3>3
  <2> QED BY <1>3, <2>1, <2>2, SeqEqual
<1>5. s \o Append(u, x) = Append(s \o u, x) /\ s \o u \in Seq(S)
  BY <1>2
<1> QED BY <1>4, <1>5 DEF tx, u, v, Rest

LEMMA RestNothing ==
  ASSUME NEW S, NEW s \in Seq(S), NEW t \in Seq(S)
  PROVE  s \o Rest(t, Len(t)) = s
<1>1. SubSeq(t, Len(t) + 1, Len(t)) = <<>>
  BY SubSeqEmpty
<1> QED BY <1>1 DEF Rest

-----------------------------------------------------------------------------
(* Menus *)

\* Of a delete no write came between: below the rows it has looked at and will
\* not look at again, it has found all.
FoundBelow(j) ==
    j.alone /\ j.at \in {"find", "drop"}
      => \A k \in j.found \ j.todo : k = j.id \/ menus[k].type # PERMISSION => Children(k) \subseteq j.found

MenuJobOK(j) ==
    /\ j.at = "save" => j.dto \in CompleteDto
    /\ j.at = "update" => j.id \in Ids /\ j.dto \in Dto
    /\ j.at = "drop" => j.todo = {}
    /\ j.at \in {"find", "drop"} => j.id \in j.found

MenuInv ==
    /\ TypeOK
    /\ \A h \in Handlers : MenuJobOK(job[h]) /\ FoundBelow(job[h])

-----------------------------------------------------------------------------
LEMMA NewMenuJob == NewJob \in Job /\ NewJob.at = "new"
  BY DEF NewJob, Job, Stages

LEMMA MenuInit == ASSUME Init PROVE MenuInv
<1>1. \A h \in Handlers : job[h] = NewJob
  BY DEF Init
<1>2. TypeOK
  BY MenuTreeAssumption, NewMenuJob DEF Init, TypeOK
<1>3. \A h \in Handlers : MenuJobOK(job[h]) /\ FoundBelow(job[h])
  BY <1>1, NewMenuJob DEF MenuJobOK, FoundBelow
<1> QED BY <1>2, <1>3 DEF MenuInv

\* A handler goes on as q, and the table stays as it is.
LEMMA MenuStep ==
  ASSUME NEW h \in Handlers, NEW q \in Job, MenuInv, job' = [job EXCEPT ![h] = q],
         UNCHANGED <<menus, nextId>>, MenuJobOK(q), FoundBelow(q)
  PROVE  MenuInv'
<1>1. job' \in [Handlers -> Job] /\ \A g \in Handlers : job'[g] = IF g = h THEN q ELSE job[g]
  BY DEF MenuInv, TypeOK
<1>2. TypeOK'
  BY <1>1 DEF MenuInv, TypeOK
<1>3. \A g \in Handlers : MenuJobOK(job'[g]) /\ FoundBelow(job'[g])
  BY <1>1 DEF MenuInv
<1>4. \A g \in Handlers : MenuJobOK(job[g])' /\ FoundBelow(job[g])'
  BY <1>3 DEF MenuJobOK, FoundBelow, Children, Rows
<1> QED BY <1>2, <1>4 DEF MenuInv

\* A handler writes the table: no other is alone.
LEMMA MenuWrite ==
  ASSUME NEW h \in Handlers, NEW table \in [Ids -> Row \cup {None}], MenuInv, Write(h, table),
         nextId' \in 1..(MaxId + 1)
  PROVE  MenuInv'
<1>1. menus' = table
  BY DEF Write
<1>2. ASSUME NEW g \in Handlers
      PROVE  /\ job'[g] \in Job /\ MenuJobOK(job'[g])
             /\ job'[g].alone => job'[g].at = "new"
  <2>1. job[g] \in Job /\ MenuJobOK(job[g])
    BY DEF MenuInv, TypeOK
  <2>2. CASE g = h \/ job[g].at = "new"
    <3>1. job'[g] = NewJob
      BY <2>2 DEF Write
    <3> QED BY <3>1, NewMenuJob DEF MenuJobOK
  <2>3. CASE ~ (g = h \/ job[g].at = "new")
    <3>1. job'[g] = [job[g] EXCEPT !.alone = FALSE]
      BY <2>3 DEF Write
    <3>2. /\ job'[g] \in Job /\ ~ job'[g].alone
          /\ job'[g].at = job[g].at /\ job'[g].id = job[g].id /\ job'[g].dto = job[g].dto
          /\ job'[g].todo = job[g].todo /\ job'[g].found = job[g].found
      BY <2>1, <3>1 DEF Job
    <3> QED BY <2>1, <3>2 DEF MenuJobOK
  <2> QED BY <2>2, <2>3
<1>3. TypeOK'
  <2>1. job' \in [Handlers -> Job]
    BY <1>2 DEF Write
  <2> QED BY <1>1, <2>1 DEF TypeOK
<1>4. \A g \in Handlers : MenuJobOK(job[g])'
  BY <1>2 DEF MenuJobOK
<1>5. \A g \in Handlers : FoundBelow(job[g])'
  BY <1>2 DEF FoundBelow
<1> QED BY <1>3, <1>4, <1>5 DEF MenuInv

LEMMA DtoIsRow == CompleteDto \subseteq Row /\ CompleteDto \subseteq Dto
  BY DEF CompleteDto, Dto, Row

LEMMA ComeMenu ==
  ASSUME NEW h \in Handlers, MenuInv,
         \/ \E c \in CompleteDto : Create(h, c)
         \/ \E i \in Rows, c \in Edits, toRoot \in BOOLEAN : Update(h, i, c, toRoot)
         \/ \E i \in Rows : Delete(h, i)
  PROVE  MenuInv'
<1>1. ASSUME NEW c \in CompleteDto, Create(h, c) PROVE MenuInv'
  <2> DEFINE q == [NewJob EXCEPT !.at = "save", !.dto = c]
  <2>1. q \in Job /\ q.at = "save" /\ q.dto = c
    BY NewMenuJob, DtoIsRow DEF Job, Stages
  <2>2. job' = [job EXCEPT ![h] = q] /\ UNCHANGED <<menus, nextId>>
    BY <1>1 DEF Create, Begin
  <2> HIDE DEF q
  <2>3. MenuJobOK(q) /\ FoundBelow(q)
    BY <2>1 DEF MenuJobOK, FoundBelow
  <2> QED BY <2>1, <2>2, <2>3, MenuStep
<1>2. ASSUME NEW i \in Rows, NEW c \in Edits, NEW toRoot \in BOOLEAN, Update(h, i, c, toRoot)
      PROVE  MenuInv'
  <2> DEFINE q == [NewJob EXCEPT !.at = "update", !.id = i, !.dto = c]
  <2>1. q \in Job /\ q.at = "update" /\ q.id = i /\ q.dto = c /\ c \in Dto /\ i \in Ids
    BY NewMenuJob, MenuTreeAssumption DEF Job, Stages, Rows
  <2>2. job' = [job EXCEPT ![h] = q] /\ UNCHANGED <<menus, nextId>>
    BY <1>2 DEF Update, Begin
  <2> HIDE DEF q
  <2>3. MenuJobOK(q) /\ FoundBelow(q)
    BY <2>1 DEF MenuJobOK, FoundBelow
  <2> QED BY <2>1, <2>2, <2>3, MenuStep
<1>3. ASSUME NEW i \in Rows, Delete(h, i) PROVE MenuInv'
  <2> DEFINE q == [NewJob EXCEPT !.at = "find", !.id = i, !.todo = {i}, !.found = {i}]
  <2>1. q \in Job /\ q.at = "find" /\ q.id = i /\ q.todo = {i} /\ q.found = {i}
    BY NewMenuJob DEF Job, Stages, Rows
  <2>2. job' = [job EXCEPT ![h] = q] /\ UNCHANGED <<menus, nextId>>
    BY <1>3 DEF Delete, Begin
  <2> HIDE DEF q
  <2>3. MenuJobOK(q) /\ FoundBelow(q)
    BY <2>1 DEF MenuJobOK, FoundBelow
  <2> QED BY <2>1, <2>2, <2>3, MenuStep
<1> QED BY <1>1, <1>2, <1>3

LEMMA FailMenu == ASSUME NEW h \in Handlers, MenuInv, Fail(h) PROVE MenuInv'
<1>1. MenuJobOK(NewJob) /\ FoundBelow(NewJob)
  BY NewMenuJob DEF MenuJobOK, FoundBelow
<1> QED BY <1>1, NewMenuJob, MenuStep DEF Fail

\* One more query of a delete.
LEMMA FindMenus ==
  ASSUME NEW h \in Handlers, NEW i \in Ids, MenuInv, FindChildMenus(h, i)
  PROVE  MenuInv'
<1>1. PICK j : j = job[h]
  OBVIOUS
<1> DEFINE todo == (j.todo \ {i}) \cup {k \in Children(i) : menus[k].type # PERMISSION}
           found == j.found \cup Children(i)
           at == IF todo = {} THEN "drop" ELSE "find"
           q == [j EXCEPT !.todo = todo, !.found = found, !.at = at]
<1>2. /\ j \in Job /\ MenuJobOK(j) /\ FoundBelow(j) /\ j.at = "find" /\ i \in j.todo
      /\ UNCHANGED <<menus, nextId>>
  BY <1>1 DEF FindChildMenus, MenuInv, TypeOK
<1>3. job' = [job EXCEPT ![h] = q]
  BY <1>1, <1>2 DEF FindChildMenus, MenuInv, TypeOK, Job
<1>4. Children(i) \subseteq Ids
  BY DEF Children, Rows
<1>5. /\ q \in Job /\ q.id = j.id /\ q.dto = j.dto /\ q.alone = j.alone
      /\ q.todo = todo /\ q.found = found /\ q.at = at
  <2> HIDE DEF at
  <2>1. todo \subseteq Ids /\ found \subseteq Ids
    BY <1>2, <1>4 DEF Job
  <2>2. at \in Stages
    BY DEF Stages, at
  <2> HIDE DEF todo, found
  <2> QED BY <1>2, <2>1, <2>2 DEF Job
<1> HIDE DEF q
<1>6. MenuJobOK(q)
  BY <1>2, <1>5 DEF MenuJobOK
<1>7. ASSUME q.alone PROVE FoundBelow(q)
  <2>1. \A k \in j.found \ j.todo : k = j.id \/ menus[k].type # PERMISSION => Children(k) \subseteq j.found
    BY <1>2, <1>5, <1>7 DEF FoundBelow
  <2>2. j.id \in j.found
    BY <1>2 DEF MenuJobOK
  <2>3. ASSUME NEW k \in found \ todo, k = j.id \/ menus[k].type # PERMISSION
        PROVE  Children(k) \subseteq found
    <3>1. CASE k = i
      BY <3>1
    <3>2. CASE k # i /\ k \in j.found
      BY <2>1, <2>3, <3>2
    <3>3. CASE k \in Children(i) /\ k \notin j.found
      BY <2>2, <2>3, <3>3
    <3> QED BY <3>1, <3>2, <3>3
  <2> QED BY <1>5, <2>3 DEF FoundBelow
<1>8. FoundBelow(q)
  BY <1>7 DEF FoundBelow
<1> QED BY <1>2, <1>3, <1>5, <1>6, <1>8, MenuStep

LEMMA WriteMenu ==
  ASSUME NEW h \in Handlers, MenuInv, Save(h) \/ UpdateRow(h) \/ DeleteMenuItem(h)
  PROVE  MenuInv'
<1>1. /\ menus \in [Ids -> Row \cup {None}] /\ nextId \in 1..(MaxId + 1) /\ MaxId \in Nat
      /\ MenuJobOK(job[h])
  BY MenuTreeAssumption DEF MenuInv, TypeOK
<1>2. CASE Save(h)
  <2>1. job[h].dto \in Row /\ Write(h, [menus EXCEPT ![nextId] = job[h].dto])
    BY <1>1, <1>2, DtoIsRow DEF Save, MenuJobOK
  <2>2. [menus EXCEPT ![nextId] = job[h].dto] \in [Ids -> Row \cup {None}]
    BY <1>1, <2>1
  <2>3. nextId' \in 1..(MaxId + 1)
    BY <1>1, <1>2 DEF Save
  <2> QED BY <2>1, <2>2, <2>3, MenuWrite
<1>3. CASE UpdateRow(h)
  <2> DEFINE j == job[h]
             old == menus[j.id]
             new == [type |-> IF j.dto.type = None THEN old.type ELSE j.dto.type,
                     parentId |-> j.dto.parentId,
                     status |-> IF j.dto.status = None THEN old.status ELSE j.dto.status]
             table == IF old = None THEN menus ELSE [menus EXCEPT ![j.id] = new]
  <2>1. j.at = "update" /\ j.id \in Ids /\ j.dto \in Dto /\ Write(h, table) /\ nextId' = nextId
    BY <1>1, <1>3 DEF UpdateRow, MenuJobOK
  <2>2. old # None => new \in Row
    BY <1>1, <2>1 DEF Dto, Row
  <2>3. table \in [Ids -> Row \cup {None}]
    <3> HIDE DEF new
    <3> QED BY <1>1, <2>1, <2>2
  <2> HIDE DEF table
  <2> QED BY <1>1, <2>1, <2>3, MenuWrite
<1>4. CASE DeleteMenuItem(h)
  <2> DEFINE table == [i \in Ids |-> IF i \in job[h].found THEN None ELSE menus[i]]
  <2>1. Write(h, table) /\ nextId' = nextId
    BY <1>4 DEF DeleteMenuItem
  <2>2. table \in [Ids -> Row \cup {None}]
    BY <1>1
  <2> HIDE DEF table
  <2> QED BY <1>1, <2>1, <2>2, MenuWrite
<1> QED BY <1>2, <1>3, <1>4

LEMMA MenuNext == ASSUME MenuInv, [Next]_vars PROVE MenuInv'
<1>1. CASE UNCHANGED vars
  <2>1. UNCHANGED <<menus, nextId, job>>
    BY <1>1 DEF vars
  <2> QED BY <2>1 DEF MenuInv, TypeOK, MenuJobOK, FoundBelow, Children, Rows
<1>2. CASE Next
  BY <1>2, ComeMenu, FindMenus, WriteMenu, FailMenu DEF Next
<1> QED BY <1>1, <1>2

-----------------------------------------------------------------------------
LEMMA OwnDelete ==
  ASSUME NEW h \in Handlers, MenuInv, [Next]_vars, Deletes(h) PROVE DeleteMenuItem(h)
<1>1. job[h] \in Job /\ job[h].at = "drop" /\ job'[h].at = "new" /\ menus' # menus
  BY DEF MenuInv, TypeOK, Deletes
<1>2. PICK g \in Handlers : Save(g) \/ UpdateRow(g) \/ DeleteMenuItem(g)
  BY <1>1 DEF Next, vars, Create, Update, Delete, Begin, FindChildMenus, Fail
<1>3. PICK table : Write(g, table)
  BY <1>2 DEF Save, UpdateRow, DeleteMenuItem
<1>4. g = h
  <2> SUFFICES ASSUME g # h PROVE FALSE
    OBVIOUS
  <2>1. job'[h] = [job[h] EXCEPT !.alone = FALSE]
    BY <1>1, <1>3 DEF Write
  <2>2. job'[h].at = job[h].at
    BY <1>1, <2>1 DEF Job
  <2> QED BY <1>1, <2>2
<1> QED BY <1>1, <1>2, <1>4 DEF Save, UpdateRow

\* What a delete that was alone has found, it takes.
LEMMA NoneLeft ==
  ASSUME NEW h \in Handlers, MenuInv, [Next]_vars, Deletes(h) PROVE LeavesNoChild
<1>1. PICK j : j = job[h]
  OBVIOUS
<1>2. j \in Job /\ MenuJobOK(j) /\ FoundBelow(j) /\ j.at = "drop" /\ j.alone
  BY <1>1 DEF MenuInv, TypeOK, Deletes
<1>3. DeleteMenuItem(h)
  BY OwnDelete
<1>4. /\ menus' = [i \in Ids |-> IF i \in j.found THEN None ELSE menus[i]]
  BY <1>1, <1>3 DEF DeleteMenuItem, Write
<1>5. \A k \in Rows' : k \in Rows /\ k \notin j.found
  BY <1>4 DEF Rows
<1>6. ASSUME NEW k \in Rows', NEW p, p = menus[k].parentId, p \in Rows \ Rows'
      PROVE  menus[p].type = PERMISSION
  <2>1. p \in j.found \ j.todo
    BY <1>2, <1>4, <1>6 DEF Rows, MenuJobOK
  <2>2. k \in Children(p) /\ k \notin j.found
    BY <1>5, <1>6 DEF Children
  <2> QED BY <1>2, <2>1, <2>2 DEF FoundBelow
<1> QED BY <1>6 DEF LeavesNoChild

-----------------------------------------------------------------------------
(* Departments and users *)

\* The paths are those of departments below one another.
TreeOK ==
    \A i \in Depts!Depts : /\ dept[i].parent \in Depts!Depts \cup {None}
                     /\ dept[i].path = Append(Depts!PathOf(dept[i].parent), i)

ParentsThere == \A i \in Depts!Depts : dept[i].parent \in Depts!Depts \cup {None}

\* What a handler has found is a department there was.
FoundOK(j) ==
    /\ j.at \in {"countUsers", "countChildren", "delete"} => j.id \in Depts!DeptIds
    /\ j.at \in {"itemParent", "save"} => j.id = None \/ (j.id \in Depts!DeptIds /\ j.id <= used.dept)
    /\ j.at \in {"exists", "userDept", "insertUser"} => j.name \in Usernames

\* A department that is to be deleted has none below it.
Childless(j) == j.at = "delete" => \A k \in Depts!Depts : dept[k].parent # j.id

DeptIdsGiven == \A i \in Depts!Depts : i <= used.dept
UserIdsGiven == \A u \in Depts!Users : u <= used.user

DeptInv ==
    /\ Depts!TypeOK /\ ParentsThere /\ DeptIdsGiven /\ UserIdsGiven /\ Depts!UsersAreSound
    /\ \A h \in Handlers : FoundOK(change[h])
    /\ calm => TreeOK /\ \A h \in Handlers : Childless(change[h])

-----------------------------------------------------------------------------
\* What Departments takes from the library is the library's.
LEMMA SameLibrary ==
  /\ \A s, t : Depts!IsPrefix(s, t) <=> IsPrefix(s, t)
  /\ \A S, n : Depts!SeqOf(S, n) = SeqOf(S, n)
  /\ \A S : Depts!Cardinality(S) = Cardinality(S)
  /\ \A S : Depts!Min(S) = Min(S)
<1>1. \A s, t : Depts!IsPrefix(s, t) <=> IsPrefix(s, t)
  BY DEF Depts!IsPrefix, IsPrefix
<1>2. \A S, n : Depts!SeqOf(S, n) = SeqOf(S, n)
  BY DEF Depts!SeqOf, SeqOf
<1>3. \A S : Depts!Cardinality(S) = Cardinality(S)
  BY DEF Depts!Cardinality, Cardinality
<1>4. \A S : Depts!Min(S) = Min(S)
  BY DEF Depts!Min, Min
<1> QED BY <1>1, <1>2, <1>3, <1>4

LEMMA PathIs ==
  ASSUME Depts!DepartmentsAssumption, NEW s
  PROVE  s \in Depts!Paths <=> s \in Seq(Depts!DeptIds) /\ Len(s) <= MaxPath
<1>1. MaxPath \in Nat
  BY DEF Depts!DepartmentsAssumption
<1>2. ASSUME s \in Depts!Paths PROVE s \in Seq(Depts!DeptIds) /\ Len(s) <= MaxPath
  <2>1. PICK m \in 0..MaxPath : s \in [1..m -> Depts!DeptIds]
    BY <1>2, SameLibrary DEF Depts!Paths, SeqOf
  <2>2. s \in Seq(Depts!DeptIds) /\ Len(s) = m
    BY <1>1, <2>1
  <2> QED BY <1>1, <2>1, <2>2
<1>3. ASSUME s \in Seq(Depts!DeptIds), Len(s) <= MaxPath PROVE s \in Depts!Paths
  <2>1. Len(s) \in 0..MaxPath /\ s \in [1..Len(s) -> Depts!DeptIds]
    BY <1>1, <1>3
  <2> QED BY <2>1, SameLibrary DEF Depts!Paths, SeqOf
<1> QED BY <1>2, <1>3

LEMMA RowIs ==
  ASSUME Depts!DepartmentsAssumption, Depts!TypeOK, NEW i \in Depts!Depts
  PROVE  /\ i \in Depts!DeptIds /\ dept[i] \in Depts!DeptRow /\ dept[i].parent \in Depts!DeptIds \cup {None}
         /\ dept[i].path \in Seq(Depts!DeptIds) /\ Len(dept[i].path) <= MaxPath
  BY PathIs DEF Depts!Depts, Depts!TypeOK, Depts!DeptRow

LEMMA RowIsNotNone == ASSUME Depts!DepartmentsAssumption PROVE None \notin Depts!DeptRow
<1>1. Depts!DeptRow \subseteq [parent : Depts!DeptIds \cup {None}, path : Seq(Depts!DeptIds)]
  BY PathIs DEF Depts!DeptRow
<1> QED BY <1>1 DEF Depts!DepartmentsAssumption

LEMMA PathOfIs ==
  ASSUME Depts!DepartmentsAssumption, Depts!TypeOK, NEW p \in Depts!Depts \cup {None}
  PROVE  Depts!PathOf(p) \in Seq(Depts!DeptIds) /\ p \in Depts!DeptIds \cup {None}
  BY RowIs DEF Depts!PathOf, Depts!Depts

LEMMA NewJobIs == Depts!NewJob \in Depts!Job /\ Depts!NewJob.at = "new"
  BY DEF Depts!NewJob, Depts!Job, Depts!Stages

LEMMA DeptInit == ASSUME Depts!DepartmentsAssumption, Depts!Init PROVE DeptInv
<1>1. Depts!Depts = {} /\ Depts!Users = {} /\ \A h \in Handlers : change[h] = Depts!NewJob
  BY DEF Depts!Init, Depts!Depts, Depts!Users
<1>2. used \in [dept : 0..MaxDept, user : 0..MaxUser]
  BY DEF Depts!Init, Depts!DepartmentsAssumption
<1>3. Depts!TypeOK
  BY <1>2, NewJobIs DEF Depts!Init, Depts!TypeOK
<1>4. ParentsThere /\ DeptIdsGiven /\ UserIdsGiven /\ Depts!UsersAreSound /\ TreeOK
  BY <1>1 DEF ParentsThere, DeptIdsGiven, UserIdsGiven, Depts!UsersAreSound, TreeOK
<1>5. \A h \in Handlers : FoundOK(change[h]) /\ Childless(change[h])
  BY <1>1, NewJobIs DEF FoundOK, Childless
<1> QED BY <1>3, <1>4, <1>5 DEF DeptInv

LEMMA DeptJobPut ==
  ASSUME NEW h \in Handlers, NEW q \in Depts!Job, Depts!TypeOK, change' = [change EXCEPT ![h] = q]
  PROVE  /\ change' \in [Handlers -> Depts!Job]
         /\ change'[h] = q
         /\ \A g \in Handlers \ {h} : change'[g] = change[g]
  BY DEF Depts!TypeOK

\* A handler reads, and goes on as q.
LEMMA ReadStep ==
  ASSUME NEW h \in Handlers, NEW q \in Depts!Job, DeptInv, change' = [change EXCEPT ![h] = q],
         UNCHANGED <<dept, user, used, calm>>, FoundOK(q), calm => Childless(q)
  PROVE  DeptInv'
<1>1. /\ change' \in [Handlers -> Depts!Job] /\ change'[h] = q
      /\ \A g \in Handlers \ {h} : change'[g] = change[g]
  BY DeptJobPut DEF DeptInv
<1>2. Depts!Depts' = Depts!Depts /\ Depts!Users' = Depts!Users
  BY DEF Depts!Depts, Depts!Users
<1>3. Depts!TypeOK' /\ ParentsThere' /\ DeptIdsGiven' /\ UserIdsGiven' /\ Depts!UsersAreSound'
  BY <1>1, <1>2 DEF DeptInv, Depts!TypeOK, ParentsThere, DeptIdsGiven, UserIdsGiven,
     Depts!UsersAreSound
<1>4. ASSUME NEW g \in Handlers PROVE FoundOK(change'[g]) /\ (calm => Childless(change'[g]))
  BY <1>1 DEF DeptInv
<1>5. ASSUME NEW g \in Handlers PROVE FoundOK(change[g])' /\ (calm' => Childless(change[g])')
  BY <1>2, <1>4 DEF FoundOK, Childless
<1>6. calm' => TreeOK'
  BY <1>2 DEF DeptInv, TreeOK, Depts!PathOf
<1> QED BY <1>3, <1>5, <1>6 DEF DeptInv

\* A handler writes and ends; the tree is looked at only if no other is there.
LEMMA EndStep ==
  ASSUME NEW h \in Handlers, NEW still \in BOOLEAN, DeptInv, Depts!End(h, still),
         dept' \in [Depts!DeptIds -> Depts!DeptRow \cup {None}],
         user' \in [Depts!Uids -> Depts!UserRow \cup {None}],
         used' \in [dept : 0..MaxDept, user : 0..MaxUser], used.dept <= used'.dept,
         ParentsThere', DeptIdsGiven', UserIdsGiven', Depts!UsersAreSound',
         calm /\ still => TreeOK'
  PROVE  DeptInv'
<1>1. /\ change' = [change EXCEPT ![h] = Depts!NewJob]
      /\ calm' = (calm /\ still /\ \A g \in Handlers \ {h} : change[g].at = "new")
  BY DEF Depts!End
<1>2. /\ change' \in [Handlers -> Depts!Job] /\ change'[h] = Depts!NewJob
      /\ \A g \in Handlers \ {h} : change'[g] = change[g]
  BY <1>1, DeptJobPut, NewJobIs DEF DeptInv
<1>3. Depts!TypeOK'
  BY <1>1, <1>2 DEF Depts!TypeOK
<1>4. ASSUME NEW g \in Handlers PROVE FoundOK(change[g])'
  <2>1. CASE g = h
    BY <1>2, <2>1, NewJobIs DEF FoundOK
  <2>2. CASE g # h
    <3>1. change'[g] = change[g] /\ FoundOK(change[g]) /\ used.dept \in Nat /\ used'.dept \in Nat
      BY <1>2, <2>2 DEF DeptInv, Depts!TypeOK
    <3>2. \A n \in Depts!DeptIds : n <= used.dept => n <= used'.dept
      BY <3>1 DEF Depts!DeptIds
    <3> QED BY <3>1, <3>2 DEF FoundOK
  <2> QED BY <2>1, <2>2
<1>5. ASSUME NEW g \in Handlers, calm' PROVE Childless(change[g])'
  BY <1>1, <1>2, <1>5, NewJobIs DEF Childless
<1> QED BY <1>1, <1>3, <1>4, <1>5 DEF DeptInv

-----------------------------------------------------------------------------
LEMMA KnownIs ==
  ASSUME Depts!DepartmentsAssumption, DeptInv, NEW p
  PROVE  Depts!Known(p) = None \/ (Depts!Known(p) \in Depts!DeptIds /\ Depts!Known(p) <= used.dept)
  BY DEF Depts!Known, Depts!Depts, DeptInv, DeptIdsGiven

LEMMA BeginDept ==
  ASSUME NEW h \in Handlers, NEW q \in Depts!Job, DeptInv, Depts!Begin(h, q),
         q.at \in {"parent", "item", "countUsers", "exists"},
         q.at = "countUsers" => q.id \in Depts!DeptIds, q.at = "exists" => q.name \in Usernames
  PROVE  DeptInv'
<1>1. change' = [change EXCEPT ![h] = q] /\ UNCHANGED <<dept, user, used, calm>>
  BY DEF Depts!Begin
<1>2. FoundOK(q) /\ Childless(q)
  BY DEF FoundOK, Childless
<1> QED BY <1>1, <1>2, ReadStep

LEMMA ComeDept ==
  ASSUME NEW h \in Handlers, Depts!DepartmentsAssumption, DeptInv,
         \/ \E p \in Depts!DeptIds \cup {None} : Depts!CreateDept(h, p) \/ \E i \in Depts!DeptIds : Depts!UpdateDept(h, i, p)
         \/ \E i \in Depts!DeptIds : Depts!DeleteDept(h, i)
         \/ \E n \in Usernames, x \in Depts!DeptIds \cup {None} : Depts!CreateUser(h, n, x)
  PROVE  DeptInv'
<1>1. ASSUME NEW p \in Depts!DeptIds \cup {None}, Depts!CreateDept(h, p) PROVE DeptInv'
  <2> DEFINE q == [Depts!NewJob EXCEPT !.at = "parent", !.parent = p]
  <2>1. q \in Depts!Job /\ q.at = "parent"
    BY NewJobIs DEF Depts!Job, Depts!Stages
  <2> QED BY <1>1, <2>1, BeginDept DEF Depts!CreateDept
<1>2. ASSUME NEW p \in Depts!DeptIds \cup {None}, NEW i \in Depts!DeptIds, Depts!UpdateDept(h, i, p)
      PROVE  DeptInv'
  <2> DEFINE q == [Depts!NewJob EXCEPT !.at = "item", !.id = i, !.parent = p]
  <2>1. q \in Depts!Job /\ q.at = "item"
    BY NewJobIs DEF Depts!Job, Depts!Stages
  <2> QED BY <1>2, <2>1, BeginDept DEF Depts!UpdateDept
<1>3. ASSUME NEW i \in Depts!DeptIds, Depts!DeleteDept(h, i) PROVE DeptInv'
  <2> DEFINE q == [Depts!NewJob EXCEPT !.at = "countUsers", !.id = i]
  <2>1. q \in Depts!Job /\ q.at = "countUsers" /\ q.id = i
    BY NewJobIs DEF Depts!Job, Depts!Stages
  <2> QED BY <1>3, <2>1, BeginDept DEF Depts!DeleteDept
<1>4. ASSUME NEW n \in Usernames, NEW x \in Depts!DeptIds \cup {None}, Depts!CreateUser(h, n, x)
      PROVE  DeptInv'
  <2> DEFINE q == [Depts!NewJob EXCEPT !.at = "exists", !.name = n, !.id = x]
  <2>1. q \in Depts!Job /\ q.at = "exists" /\ q.name \in Usernames
    BY NewJobIs DEF Depts!Job, Depts!Stages
  <2> QED BY <1>4, <2>1, BeginDept DEF Depts!CreateUser
<1> QED BY <1>1, <1>2, <1>3, <1>4

\* A read: the record of the handler but for its stage, its id and its parent.
LEMMA GoDept ==
  ASSUME NEW h \in Handlers, NEW at \in Depts!Stages, NEW i \in Depts!DeptIds \cup {None},
         NEW p \in Depts!DeptIds \cup {None}, DeptInv,
         Depts!Read(h, [change[h] EXCEPT !.at = at, !.id = i, !.parent = p]),
         at \in {"countUsers", "countChildren", "delete"} => i \in Depts!DeptIds,
         at \in {"itemParent", "save"} => i = None \/ (i \in Depts!DeptIds /\ i <= used.dept),
         at \in {"exists", "userDept", "insertUser"} => change[h].name \in Usernames,
         calm /\ at = "delete" => \A k \in Depts!Depts : dept[k].parent # i
  PROVE  DeptInv'
<1> DEFINE q == [change[h] EXCEPT !.at = at, !.id = i, !.parent = p]
<1>1. change[h] \in Depts!Job
  BY DEF DeptInv, Depts!TypeOK
<1>2. q \in Depts!Job /\ q.at = at /\ q.id = i /\ q.name = change[h].name
  BY <1>1 DEF Depts!Job
<1>3. change' = [change EXCEPT ![h] = q] /\ UNCHANGED <<dept, user, used, calm>>
  BY DEF Depts!Read
<1> HIDE DEF q
<1>4. FoundOK(q) /\ (calm => Childless(q))
  BY <1>2 DEF FoundOK, Childless
<1> QED BY <1>2, <1>3, <1>4, ReadStep

LEMMA SameFields ==
  ASSUME NEW j \in Depts!Job, NEW at
  PROVE  /\ [j EXCEPT !.at = at] = [j EXCEPT !.at = at, !.id = j.id, !.parent = j.parent]
         /\ \A i : [j EXCEPT !.at = at, !.id = i] = [j EXCEPT !.at = at, !.id = i, !.parent = j.parent]
         /\ \A p : [j EXCEPT !.at = at, !.parent = p] = [j EXCEPT !.at = at, !.id = j.id, !.parent = p]
         /\ j.id \in Depts!DeptIds \cup {None} /\ j.parent \in Depts!DeptIds \cup {None}
  BY DEF Depts!Job

LEMMA OverDept ==
  ASSUME NEW h \in Handlers, DeptInv, Depts!Read(h, Depts!NewJob) \/ Depts!Fail(h) PROVE DeptInv'
<1>1. change' = [change EXCEPT ![h] = Depts!NewJob] /\ UNCHANGED <<dept, user, used, calm>>
  BY DEF Depts!Read, Depts!Fail
<1>2. FoundOK(Depts!NewJob) /\ Childless(Depts!NewJob)
  BY NewJobIs DEF FoundOK, Childless
<1> QED BY <1>1, <1>2, NewJobIs, ReadStep

LEMMA FirstDept == ASSUME Depts!Depts # {} PROVE Min(Depts!Depts) \in Depts!DeptIds
<1>1. Depts!Depts \subseteq Nat /\ Depts!Depts \subseteq Depts!DeptIds
  BY DEF Depts!Depts, Depts!DeptIds
<1> DEFINE less == {ss \in Nat \X Nat : ss[1] < ss[2]}
<1>2. IsWellFoundedOn(less, Nat)
  BY NatLessThanWellFounded DEF OpToRel
<1>3. PICK x \in Depts!Depts : \A y \in Depts!Depts : ~ (<<y, x>> \in less)
  <2> HIDE DEF less
  <2> QED BY <1>1, <1>2, WFMin
<1>4. ASSUME NEW y \in Depts!Depts PROVE x <= y
  <2>1. x \in Nat /\ y \in Nat /\ <<y, x>> \notin less
    BY <1>1, <1>3
  <2>2. <<y, x>> \in Nat \X Nat /\ <<y, x>>[1] = y /\ <<y, x>>[2] = x
    BY <2>1
  <2>3. ~ (y < x)
    BY <2>1, <2>2
  <2> QED BY <2>1, <2>3
<1> QED BY <1>1, <1>4 DEF Min

LEMMA FindDept ==
  ASSUME NEW h \in Handlers, Depts!DepartmentsAssumption, DeptInv,
         Depts!FindParent(h) \/ Depts!FindItem(h) \/ Depts!FindItemParent(h) \/ Depts!FindByName(h) \/ Depts!FindUserDept(h)
  PROVE  DeptInv'
<1> DEFINE j == change[h]
<1>1. j \in Depts!Job /\ FoundOK(j)
  BY DEF DeptInv, Depts!TypeOK
<1>2. \A p : Depts!Known(p) \in Depts!DeptIds \cup {None} /\ (Depts!Known(p) = None \/ Depts!Known(p) <= used.dept)
  BY KnownIs
<1>3. j.id \in Depts!DeptIds \cup {None} /\ j.parent \in Depts!DeptIds \cup {None}
  BY <1>1, SameFields
<1>4. {"insert", "itemParent", "save", "userDept", "insertUser"} \subseteq Depts!Stages
  BY DEF Depts!Stages
<1>5. CASE Depts!FindParent(h)
  <2>1. Depts!Read(h, [j EXCEPT !.at = "insert", !.id = j.id, !.parent = Depts!Known(j.parent)])
    BY <1>1, <1>5, SameFields DEF Depts!FindParent
  <2>2. PICK p \in Depts!DeptIds \cup {None} : Depts!Read(h, [j EXCEPT !.at = "insert", !.id = j.id, !.parent = p])
    BY <1>2, <2>1
  <2> QED BY ZenonT(60), SMTT(60), <1>3, <1>4, <2>2, GoDept
<1>6. CASE Depts!FindItem(h)
  <2>1. PICK i : i = Depts!Known(j.id)
    OBVIOUS
  <2>2. Depts!Read(h, [j EXCEPT !.at = "itemParent", !.id = i, !.parent = j.parent])
    BY <1>1, <1>6, <2>1, SameFields DEF Depts!FindItem
  <2>3. i \in Depts!DeptIds \cup {None} /\ (i = None \/ (i \in Depts!DeptIds /\ i <= used.dept))
    BY <1>2, <2>1
  <2> QED BY <1>3, <1>4, <2>2, <2>3, GoDept
<1>7. CASE Depts!FindItemParent(h)
  <2>1. Depts!Read(h, [j EXCEPT !.at = "save", !.id = j.id, !.parent = Depts!Known(j.parent)]) /\ j.at = "itemParent"
    BY <1>1, <1>7, SameFields DEF Depts!FindItemParent
  <2>2. j.id = None \/ (j.id \in Depts!DeptIds /\ j.id <= used.dept)
    BY <1>1, <2>1 DEF FoundOK
  <2>3. PICK p \in Depts!DeptIds \cup {None} : Depts!Read(h, [j EXCEPT !.at = "save", !.id = j.id, !.parent = p])
    BY <1>2, <2>1
  <2> QED BY ZenonT(60), SMTT(60), <1>3, <1>4, <2>2, <2>3, GoDept
<1>8. CASE Depts!FindByName(h)
  <2>1. Depts!Read(h, Depts!NewJob) \/ Depts!Read(h, [j EXCEPT !.at = "userDept", !.id = j.id, !.parent = j.parent])
    BY <1>1, <1>8, SameFields DEF Depts!FindByName
  <2>2. j.name \in Usernames
    BY <1>1, <1>8 DEF Depts!FindByName, FoundOK
  <2> QED BY <1>3, <1>4, <2>1, <2>2, GoDept, OverDept
<1>9. CASE Depts!FindUserDept(h)
  <2>1. PICK got : Depts!Read(h, [j EXCEPT !.at = "insertUser", !.id = got, !.parent = j.parent])
                   /\ got \in Depts!DeptIds \cup {None}
    <3>1. Depts!Depts # {} => Min(Depts!Depts) \in Depts!DeptIds
      BY FirstDept
    <3>2. PICK got : /\ got = None \/ (got \in Depts!DeptIds /\ (Depts!Depts # {} \/ got = Depts!Known(j.id)))
                     /\ Depts!Read(h, [j EXCEPT !.at = "insertUser", !.id = got])
      BY <1>2, <1>9, <3>1, SameLibrary DEF Depts!FindUserDept
    <3> QED BY <1>1, <3>2, SameFields
  <2>2. j.name \in Usernames
    BY <1>1, <1>9 DEF Depts!FindUserDept, FoundOK
  <2> QED BY <1>3, <1>4, <2>1, <2>2, GoDept
<1> QED BY <1>5, <1>6, <1>7, <1>8, <1>9

LEMMA CountUsers ==
  ASSUME NEW h \in Handlers, Depts!DepartmentsAssumption, DeptInv, Depts!CountUserByDeptId(h)
  PROVE  DeptInv'
<1> DEFINE j == change[h]
<1>1. j \in Depts!Job /\ FoundOK(j)
  BY DEF DeptInv, Depts!TypeOK
<1>2. j.id \in Depts!DeptIds /\ j.parent \in Depts!DeptIds \cup {None} /\ "countChildren" \in Depts!Stages
  BY <1>1, SameFields DEF Depts!CountUserByDeptId, FoundOK, Depts!Stages
<1>3. Depts!Read(h, Depts!NewJob) \/ Depts!Read(h, [j EXCEPT !.at = "countChildren", !.id = j.id, !.parent = j.parent])
  BY <1>1, SameFields DEF Depts!CountUserByDeptId
<1> QED BY <1>2, <1>3, GoDept, OverDept

\* A department and one below it are two descendants of the first.
LEMMA CountedChild ==
  ASSUME Depts!DepartmentsAssumption, DeptInv, TreeOK, NEW i \in Depts!DeptIds, NEW k \in Depts!Depts, dept[k].parent = i
  PROVE  Cardinality(Depts!Descendants(i)) > 1
<1>1. i \in Depts!Depts /\ dept[k].path = Append(dept[i].path, k)
  BY SMTT(60) DEF TreeOK, Depts!PathOf, Depts!DepartmentsAssumption, Depts!DeptIds
<1>2. /\ dept[i].path \in Seq(Depts!DeptIds) /\ dept[k].path \in Seq(Depts!DeptIds) /\ k \in Depts!DeptIds
  BY <1>1, RowIs DEF DeptInv
<1>3. IsPrefix(dept[i].path, dept[i].path) /\ IsPrefix(dept[i].path, dept[k].path)
  BY <1>1, <1>2, PrefixItself, PrefixLonger
<1>4. i # k
  BY <1>1, <1>2
<1>5. {i} \cup {k} \subseteq Depts!Descendants(i)
  BY <1>1, <1>3, SameLibrary DEF Depts!Descendants
<1>6. IsFiniteSet(Depts!Descendants(i))
  <2>1. IsFiniteSet(Depts!DeptIds)
    BY FS_Interval DEF Depts!DeptIds, Depts!DepartmentsAssumption
  <2>2. Depts!Descendants(i) \subseteq Depts!DeptIds
    BY DEF Depts!Descendants, Depts!Depts
  <2> QED BY <2>1, <2>2, FS_Subset
<1>7. IsFiniteSet({i}) /\ Cardinality({i}) = 1
  BY FS_Singleton
<1>8. Cardinality({i} \cup {k}) = 2
  <2>1. Cardinality({i} \cup {k}) = IF k \in {i} THEN Cardinality({i}) ELSE Cardinality({i}) + 1
    BY <1>7, FS_AddElement
  <2> QED BY <1>4, <1>7, <2>1
<1>9. Cardinality({i} \cup {k}) <= Cardinality(Depts!Descendants(i)) /\ Cardinality(Depts!Descendants(i)) \in Nat
  BY <1>5, <1>6, FS_Subset, FS_CardinalityType
<1> QED BY <1>8, <1>9

LEMMA CountChildren ==
  ASSUME NEW h \in Handlers, Depts!DepartmentsAssumption, DeptInv, Depts!CountChildDept(h)
  PROVE  DeptInv'
<1> DEFINE j == change[h]
<1>1. j \in Depts!Job /\ FoundOK(j)
  BY DEF DeptInv, Depts!TypeOK
<1>2. j.id \in Depts!DeptIds /\ j.parent \in Depts!DeptIds \cup {None} /\ "delete" \in Depts!Stages
  BY <1>1, SameFields DEF Depts!CountChildDept, FoundOK, Depts!Stages
<1>3. CASE Cardinality(Depts!Descendants(j.id)) > 1
  BY <1>3, OverDept, SameLibrary DEF Depts!CountChildDept
<1>4. CASE ~ (Cardinality(Depts!Descendants(j.id)) > 1)
  <2>1. Depts!Read(h, [j EXCEPT !.at = "delete", !.id = j.id, !.parent = j.parent])
    BY <1>1, <1>4, SameFields, SameLibrary DEF Depts!CountChildDept
  <2>2. calm => \A k \in Depts!Depts : dept[k].parent # j.id
    BY <1>2, <1>4, CountedChild DEF DeptInv
  <2> QED BY <1>2, <2>1, <2>2, GoDept
<1> QED BY <1>3, <1>4

-----------------------------------------------------------------------------
\* A row that is not there is inserted: all that were there are as they were.
LEMMA InsertDone ==
  ASSUME Depts!DepartmentsAssumption, DeptInv, NEW i \in Depts!DeptIds, i \notin Depts!Depts, NEW p \in Depts!Depts \cup {None},
         Depts!InsertDept(i, p), Depts!Fits
  PROVE  /\ dept' \in [Depts!DeptIds -> Depts!DeptRow \cup {None}] /\ Depts!Depts' = Depts!Depts \cup {i}
         /\ ParentsThere' /\ (TreeOK => TreeOK')
<1> DEFINE row == [parent |-> p, path |-> Append(Depts!PathOf(p), i)]
<1>1. Depts!PathOf(p) \in Seq(Depts!DeptIds) /\ p \in Depts!DeptIds \cup {None} /\ Depts!TypeOK
  BY PathOfIs DEF DeptInv
<1>2. /\ dept' \in [Depts!DeptIds -> Depts!DeptRow \cup {None, row}] /\ dept'[i] = row
      /\ \A k \in Depts!DeptIds \ {i} : dept'[k] = dept[k]
  BY <1>1 DEF Depts!InsertDept, Depts!TypeOK
<1>3. row \in Depts!DeptRow
  <2>1. row.path \in Seq(Depts!DeptIds)
    BY <1>1, AppendIs
  <2>2. row # None => Len(row.path) <= MaxPath
    BY <1>2 DEF Depts!Fits
  <2>3. row # None
    <3>1. row \in [parent : Depts!DeptIds \cup {None}, path : Seq(Depts!DeptIds)]
      BY <1>1, <2>1
    <3> QED BY <3>1 DEF Depts!DepartmentsAssumption
  <2> QED BY <1>1, <2>1, <2>2, <2>3, PathIs DEF Depts!DeptRow
<1>4. row # None
  BY <1>3, RowIsNotNone
<1>5. Depts!Depts' = Depts!Depts \cup {i}
  BY <1>2, <1>4 DEF Depts!Depts
<1>6. ASSUME TreeOK, NEW k \in Depts!Depts' PROVE /\ dept'[k].parent \in Depts!Depts' \cup {None}
                                            /\ dept'[k].path = Append(Depts!PathOf(dept[k].parent)', k)
  <2>1. \A q \in Depts!Depts \cup {None} : Depts!PathOf(q)' = Depts!PathOf(q)
    BY <1>2 DEF Depts!PathOf, Depts!Depts
  <2>2. CASE k = i
    BY <1>2, <1>5, <2>1, <2>2
  <2>3. CASE k # i
    <3>1. k \in Depts!Depts /\ dept'[k] = dept[k]
      BY <1>2, <1>5, <2>3 DEF Depts!Depts
    <3> QED BY <1>5, <1>6, <2>1, <3>1 DEF TreeOK
  <2> QED BY <2>2, <2>3
<1>7. TreeOK => TreeOK'
  BY <1>6 DEF TreeOK
<1>8. ParentsThere'
  BY <1>2, <1>5 DEF ParentsThere, DeptInv, Depts!Depts
<1> QED BY <1>2, <1>3, <1>5, <1>7, <1>8

LEMMA SaveNewStep ==
  ASSUME NEW h \in Handlers, NEW p, Depts!DepartmentsAssumption, DeptInv, Depts!SaveNew(h, p)
  PROVE  DeptInv'
<1> DEFINE i == used.dept + 1
<1>1. used \in [dept : 0..MaxDept, user : 0..MaxUser] /\ MaxDept \in Nat
  BY DEF DeptInv, Depts!TypeOK, Depts!DepartmentsAssumption
<1>2. i \in Depts!DeptIds /\ i \notin Depts!Depts
  BY <1>1 DEF Depts!SaveNew, Depts!DeptIds, DeptInv, DeptIdsGiven
<1>3. /\ dept' \in [Depts!DeptIds -> Depts!DeptRow \cup {None}] /\ Depts!Depts' = Depts!Depts \cup {i}
      /\ ParentsThere' /\ (TreeOK => TreeOK')
  BY <1>2, InsertDone DEF Depts!SaveNew
<1>4. used' \in [dept : 0..MaxDept, user : 0..MaxUser] /\ used'.dept = i /\ used'.user = used.user
  BY <1>1 DEF Depts!SaveNew
<1>5. Depts!Users' = Depts!Users /\ user' = user /\ user \in [Depts!Uids -> Depts!UserRow \cup {None}]
  BY DEF Depts!SaveNew, Depts!Users, DeptInv, Depts!TypeOK
<1>6. DeptIdsGiven' /\ UserIdsGiven'
  BY <1>1, <1>3, <1>4, <1>5 DEF DeptInv, DeptIdsGiven, UserIdsGiven, Depts!Depts, Depts!DeptIds
<1>7. Depts!UsersAreSound'
  BY <1>3, <1>5 DEF DeptInv, Depts!UsersAreSound
<1>8. used.dept <= used'.dept
  BY <1>1, <1>4
<1>9. Depts!End(h, TRUE)
  BY DEF Depts!SaveNew
<1> QED BY <1>3, <1>4, <1>5, <1>6, <1>7, <1>8, <1>9, EndStep DEF DeptInv

\* Nothing but the tree is written.
LEMMA TreeStep ==
  ASSUME NEW h \in Handlers, NEW still \in BOOLEAN, Depts!DepartmentsAssumption, DeptInv, Depts!End(h, still),
         UNCHANGED <<user, used>>, dept' \in [Depts!DeptIds -> Depts!DeptRow \cup {None}],
         ParentsThere', \A i \in Depts!Depts' : i <= used.dept,
         \A u \in Depts!Users : user[u].dept \in Depts!Depts' \cup {None},
         calm /\ still => TreeOK'
  PROVE  DeptInv'
<1>1. used \in [dept : 0..MaxDept, user : 0..MaxUser] /\ user \in [Depts!Uids -> Depts!UserRow \cup {None}]
  BY DEF DeptInv, Depts!TypeOK
<1>2. used.dept <= used'.dept
  BY <1>1 DEF Depts!DepartmentsAssumption
<1>3. DeptIdsGiven' /\ UserIdsGiven' /\ Depts!UsersAreSound'
  <2>1. Depts!Users' = Depts!Users
    BY DEF Depts!Users
  <2> QED BY <2>1 DEF DeptInv, DeptIdsGiven, UserIdsGiven, Depts!UsersAreSound
<1> QED BY <1>1, <1>2, <1>3, EndStep

\* A department and what is below it get new paths.
LEMMA MoveDone ==
  ASSUME Depts!DepartmentsAssumption, DeptInv, NEW i \in Depts!Depts, NEW p \in Depts!Depts \cup {None},
         Depts!MoveDept(i, p), Depts!Fits
  PROVE  /\ dept' \in [Depts!DeptIds -> Depts!DeptRow \cup {None}] /\ Depts!Depts' = Depts!Depts /\ ParentsThere'
         /\ TreeOK /\ (p = None \/ p \notin Depts!Descendants(i)) => TreeOK'
<1> DEFINE old == Append(Depts!PathOf(dept[i].parent), i)
           new == Append(Depts!PathOf(p), i)
           Moved(k) == p # dept[i].parent /\ IsPrefix(old, dept[k].path)
           Path(k) == IF Moved(k) THEN new \o Rest(dept[k].path, Len(old)) ELSE dept[k].path
           row(k) == [parent |-> IF k = i THEN p ELSE dept[k].parent, path |-> Path(k)]
<1>1. /\ Depts!TypeOK /\ i \in Depts!DeptIds /\ p \in Depts!DeptIds \cup {None}
      /\ \A k \in Depts!Depts : /\ dept[k].path \in Seq(Depts!DeptIds) /\ k \in Depts!DeptIds
                          /\ dept[k].parent \in Depts!Depts \cup {None}
                          /\ dept[k].parent \in Depts!DeptIds \cup {None}
  BY RowIs, PathOfIs DEF DeptInv, ParentsThere
<1>2. /\ Depts!PathOf(dept[i].parent) \in Seq(Depts!DeptIds) /\ Depts!PathOf(p) \in Seq(Depts!DeptIds)
      /\ old \in Seq(Depts!DeptIds) /\ new \in Seq(Depts!DeptIds) /\ Len(old) \in Nat
  BY <1>1, PathOfIs, AppendIs
<1>3. dept' = [k \in Depts!DeptIds |-> IF k \notin Depts!Depts THEN None ELSE row(k)]
  BY SameLibrary DEF Depts!MoveDept, Rest
<1> HIDE DEF old, new
<1>4. ASSUME NEW k \in Depts!Depts, IsPrefix(old, dept[k].path)
      PROVE  new \o Rest(dept[k].path, Len(old)) \in Seq(Depts!DeptIds)
  <2>1. Len(old) <= Len(dept[k].path)
    BY <1>1, <1>2, <1>4, PrefixIs
  <2> QED BY <1>1, <1>2, <2>1, RestAppend
<1>5. ASSUME NEW k \in Depts!Depts PROVE dept'[k] = row(k) /\ row(k) \in Depts!DeptRow
  <2>1. dept'[k] = row(k)
    BY <1>1, <1>3
  <2>2. Path(k) \in Seq(Depts!DeptIds)
    BY <1>1, <1>4
  <2>3. row(k) \in [parent : Depts!DeptIds \cup {None}, path : Seq(Depts!DeptIds)]
    BY <1>1, <2>2
  <2>4. Len(row(k).path) <= MaxPath
    BY <1>1, <2>1, <2>3 DEF Depts!Fits, Depts!DepartmentsAssumption
  <2> QED BY <1>1, <2>1, <2>2, <2>4, PathIs DEF Depts!DeptRow
<1>6. dept' \in [Depts!DeptIds -> Depts!DeptRow \cup {None}]
  <2> HIDE DEF row
  <2> QED BY <1>3, <1>5
<1>7. Depts!Depts' = Depts!Depts
  <2> HIDE DEF row
  <2> QED BY <1>1, <1>3, <1>5, RowIsNotNone DEF Depts!Depts
<1>8. ASSUME NEW k \in Depts!Depts
      PROVE  dept'[k].parent = (IF k = i THEN p ELSE dept[k].parent) /\ dept'[k].path = Path(k)
  <2>1. PICK x : x = Path(k)
    OBVIOUS
  <2>2. dept'[k] = [parent |-> IF k = i THEN p ELSE dept[k].parent, path |-> x]
    BY <1>5, <2>1
  <2> HIDE DEF Path
  <2> QED BY <2>1, <2>2
<1>9. ParentsThere'
  BY <1>1, <1>7, <1>8 DEF ParentsThere
<1>10. ASSUME TreeOK, p = None \/ p \notin Depts!Descendants(i) PROVE TreeOK'
  <2> DEFINE below(k) == IsPrefix(old, dept[k].path)
  <2>1. \A k \in Depts!Depts : dept[k].path = Append(Depts!PathOf(dept[k].parent), k)
    BY <1>10 DEF TreeOK
  <2>2. old = dept[i].path
    BY <2>1 DEF old
  <2>3. p # None => ~ below(p)
    BY <1>10, <2>2, SameLibrary DEF Depts!Descendants
  <2>4. None \notin Depts!Depts
    BY DEF Depts!Depts, Depts!DeptIds, Depts!DepartmentsAssumption
  <2>5. ASSUME NEW k \in Depts!Depts, p = dept[i].parent
        PROVE  dept'[k].path = Append(Depts!PathOf(dept[k].parent)', k)
    <3>1. \A q \in Depts!Depts : dept'[q].path = dept[q].path
      BY <1>8, <2>5
    <3>2. PICK q \in Depts!Depts \cup {None} : q = dept[k].parent
      BY <1>1
    <3>3. dept'[k].parent = q /\ dept[k].path = Append(Depts!PathOf(q), k)
      BY <1>8, <2>1, <2>5, <3>2
    <3>4. Depts!PathOf(q)' = Depts!PathOf(q)
      BY <3>1, <3>2, <2>4 DEF Depts!PathOf
    <3> QED BY <3>1, <3>3, <3>4
  <2>6. ASSUME p # dept[i].parent, NEW k \in Depts!Depts
        PROVE  dept'[k].path = IF below(k) THEN new \o Rest(dept[k].path, Len(old)) ELSE dept[k].path
    BY <1>8, <2>6
  <2>7. ASSUME p # dept[i].parent PROVE dept'[i].path = Append(Depts!PathOf(dept[i].parent)', i)
    <3>1. below(i) /\ Rest(dept[i].path, Len(old)) = Rest(old, Len(old))
      BY <1>2, <2>2, PrefixItself
    <3>2. dept'[i].path = new
      BY <1>2, <2>6, <2>7, <3>1, RestNothing
    <3>3. Depts!PathOf(p)' = Depts!PathOf(p)
      BY <2>3, <2>6, <2>7 DEF Depts!PathOf
    <3>4. dept'[i].parent = p
      BY <1>8
    <3> QED BY <3>2, <3>3, <3>4 DEF new
  <2>8. ASSUME p # dept[i].parent, NEW k \in Depts!Depts \ {i}, dept[k].parent = None
        PROVE  dept'[k].path = Append(Depts!PathOf(dept[k].parent)', k)
    <3>1. dept[k].path = Append(<<>>, k) /\ dept'[k].parent = None
      BY <1>8, <2>1, <2>8 DEF Depts!PathOf
    <3>2. <<>> \in Seq(Depts!DeptIds) /\ Len(<<>>) = 0
      OBVIOUS
    <3>3. ~ below(k)
      <4>0. SUFFICES ASSUME below(k) PROVE FALSE
        OBVIOUS
      <4>1. IsPrefix(old, <<>>)
        <5>1. PICK s \in Seq(Depts!DeptIds) : old = Append(s, i)
          BY <1>2 DEF old
        <5>2. i \in Depts!DeptIds /\ k \in Depts!DeptIds /\ i # k
          BY <1>1 DEF Depts!Depts
        <5>3. IsPrefix(Append(s, i), Append(<<>>, k))
          BY <3>1, <4>0, <5>1
        <5> QED BY <3>2, <5>1, <5>2, <5>3, PrefixShorter
      <4>2. Len(old) <= 0
        BY <1>2, <3>2, <4>1, PrefixIs
      <4> QED BY <1>1, <1>2, <4>2, AppendIs DEF old
    <3> QED BY <2>6, <2>8, <3>1, <3>3 DEF Depts!PathOf
  <2>9. ASSUME p # dept[i].parent, NEW k \in Depts!Depts \ {i}, dept[k].parent # None
        PROVE  dept'[k].path = Append(Depts!PathOf(dept[k].parent)', k)
    <3>0. PICK q : q = dept[k].parent
      OBVIOUS
    <3>1. /\ q \in Depts!Depts /\ dept[k].path = Append(dept[q].path, k) /\ dept'[k].parent = q
          /\ dept[q].path \in Seq(Depts!DeptIds) /\ k \in Depts!DeptIds /\ k # i
      BY <1>1, <1>8, <2>1, <2>9, <3>0 DEF Depts!PathOf
    <3>2. below(q) => below(k)
      BY <1>2, <3>1, PrefixLonger
    <3>3. below(k) => below(q)
      BY <1>1, <1>2, <3>1, PrefixShorter DEF old
    <3>4. Depts!PathOf(q)' = dept'[q].path
      BY <3>1, <2>4 DEF Depts!PathOf
    <3>5. CASE ~ below(k)
      BY <2>6, <2>9, <3>1, <3>2, <3>4, <3>5
    <3>6. CASE below(k)
      <4>1. Len(old) <= Len(dept[q].path)
        BY <1>2, <3>1, <3>3, <3>6, PrefixIs
      <4>2. new \o Rest(dept[k].path, Len(old)) = Append(new \o Rest(dept[q].path, Len(old)), k)
        <5>1. /\ new \in Seq(Depts!DeptIds) /\ dept[q].path \in Seq(Depts!DeptIds) /\ k \in Depts!DeptIds
              /\ Len(old) \in Nat /\ Len(old) <= Len(dept[q].path)
          BY <1>2, <3>1, <4>1
        <5>2. new \o Rest(Append(dept[q].path, k), Len(old)) = Append(new \o Rest(dept[q].path, Len(old)), k)
          <6> HIDE DEF old, new
          <6> QED BY <5>1, RestAppend
        <5> QED BY <3>1, <5>2
      <4> QED BY <2>6, <2>9, <3>1, <3>3, <3>4, <3>6, <4>2
    <3> QED BY <3>5, <3>6
  <2>10. ASSUME NEW k \in Depts!Depts PROVE dept'[k].path = Append(Depts!PathOf(dept[k].parent)', k)
    BY <2>5, <2>7, <2>8, <2>9
  <2> QED BY <1>7, <1>9, <2>10 DEF TreeOK, ParentsThere
<1> QED BY <1>6, <1>7, <1>9, <1>10

LEMMA SaveStep ==
  ASSUME NEW h \in Handlers, Depts!DepartmentsAssumption, DeptInv, Depts!Insert(h) \/ Depts!Save(h)
  PROVE  DeptInv'
<1> DEFINE i == change[h].id
           p == change[h].parent
<1>1. CASE Depts!Insert(h)
  BY <1>1, SaveNewStep DEF Depts!Insert
<1>2. CASE Depts!Save(h) /\ i = None /\ Depts!SaveNew(h, p)
  BY <1>2, SaveNewStep
<1>3. CASE Depts!Save(h) /\ i # None /\ ~ (i = None /\ Depts!SaveNew(h, p))
  <2>1. /\ change[h].at = "save" /\ p \in Depts!Depts \cup {None} /\ Depts!Fits /\ UNCHANGED <<user, used>>
        /\ IF i \in Depts!Depts THEN Depts!MoveDept(i, p) ELSE Depts!InsertDept(i, p)
        /\ Depts!End(h, i \in Depts!Depts /\ (p = None \/ p \notin Depts!Descendants(i)))
    BY <1>3 DEF Depts!Save
  <2>2. i \in Depts!DeptIds /\ i <= used.dept
    BY <1>3, <2>1 DEF DeptInv, FoundOK
  <2>3. \A k \in Depts!Depts : k <= used.dept
    BY DEF DeptInv, DeptIdsGiven
  <2>4. \A u \in Depts!Users : user[u].dept \in Depts!Depts \cup {None}
    BY DEF DeptInv, Depts!UsersAreSound
  <2>5. CASE i \in Depts!Depts
    <3>1. /\ dept' \in [Depts!DeptIds -> Depts!DeptRow \cup {None}] /\ Depts!Depts' = Depts!Depts /\ ParentsThere'
          /\ TreeOK /\ (p = None \/ p \notin Depts!Descendants(i)) => TreeOK'
      BY <2>1, <2>5, MoveDone
    <3>2. calm /\ (i \in Depts!Depts /\ (p = None \/ p \notin Depts!Descendants(i))) => TreeOK'
      BY <3>1 DEF DeptInv
    <3> HIDE DEF i, p
    <3> QED BY <2>1, <2>3, <2>4, <3>1, <3>2, TreeStep
  <2>6. CASE i \notin Depts!Depts
    <3>1. /\ dept' \in [Depts!DeptIds -> Depts!DeptRow \cup {None}] /\ Depts!Depts' = Depts!Depts \cup {i} /\ ParentsThere'
      BY <2>1, <2>2, <2>6, InsertDone
    <3>2. Depts!End(h, FALSE)
      BY <2>1, <2>6 DEF Depts!End
    <3>3. \A k \in Depts!Depts' : k <= used.dept
      BY <2>2, <2>3, <3>1
    <3> HIDE DEF i, p
    <3> QED BY <2>1, <2>4, <3>1, <3>2, <3>3, TreeStep
  <2> QED BY <2>5, <2>6
<1> QED BY <1>1, <1>2, <1>3 DEF Depts!Save

\* No user is in the department, and if the system is calm no department is below it.
LEMMA DeleteStep ==
  ASSUME NEW h \in Handlers, Depts!DepartmentsAssumption, DeptInv, Depts!DeleteRow(h) PROVE DeptInv'
<1>1. PICK i : i = change[h].id
  OBVIOUS
<1>2. /\ \A u \in Depts!Users : user[u].dept # i /\ user[u].dept \in Depts!Depts \cup {None}
      /\ dept' = [k \in Depts!DeptIds |->
                    IF k = i \/ k \notin Depts!Depts THEN None
                    ELSE IF dept[k].parent = i THEN [dept[k] EXCEPT !.parent = None]
                    ELSE dept[k]]
      /\ Depts!End(h, TRUE) /\ UNCHANGED <<user, used>> /\ change[h].at = "delete"
  BY <1>1 DEF Depts!DeleteRow, DeptInv, Depts!UsersAreSound
<1>3. \A k \in Depts!Depts : k \in Depts!DeptIds /\ dept[k] \in Depts!DeptRow /\ dept[k].parent \in Depts!Depts \cup {None}
                       /\ k <= used.dept
  BY RowIs DEF DeptInv, ParentsThere, DeptIdsGiven
<1>4. ASSUME NEW k \in Depts!Depts \ {i}
      PROVE  /\ dept'[k] \in Depts!DeptRow /\ dept'[k].parent \in (Depts!Depts \ {i}) \cup {None}
             /\ dept[k].parent # i => dept'[k] = dept[k]
  <2>1. CASE dept[k].parent = i
    BY <1>2, <1>3, <2>1 DEF Depts!DeptRow
  <2>2. CASE dept[k].parent # i
    BY <1>2, <1>3, <2>2
  <2> QED BY <2>1, <2>2
<1>5. dept' \in [Depts!DeptIds -> Depts!DeptRow \cup {None}]
  <2>1. \A k \in Depts!DeptIds : dept'[k] \in Depts!DeptRow \cup {None}
    BY <1>2, <1>4
  <2> QED BY <1>2, <2>1
<1>6. Depts!Depts' = Depts!Depts \ {i}
  BY <1>2, <1>3, <1>4, RowIsNotNone DEF Depts!Depts
<1>7. ParentsThere'
  BY <1>4, <1>6 DEF ParentsThere
<1>8. ASSUME calm PROVE TreeOK'
  <2>1. TreeOK /\ \A k \in Depts!Depts : dept[k].parent # i
    BY <1>1, <1>2, <1>8 DEF DeptInv, Childless
  <2>2. \A k \in Depts!Depts \ {i} : dept'[k] = dept[k]
    BY <1>4, <2>1
  <2>3. ASSUME NEW k \in Depts!Depts \ {i}
        PROVE  dept'[k].path = Append(Depts!PathOf(dept[k].parent)', k)
    <3>1. PICK q : q = dept[k].parent
      OBVIOUS
    <3>2. q \in (Depts!Depts \ {i}) \cup {None} /\ dept'[k] = dept[k]
      BY <1>3, <2>1, <2>2, <3>1
    <3>3. Depts!PathOf(q)' = Depts!PathOf(q)
      BY <2>2, <3>2 DEF Depts!PathOf
    <3> QED BY <2>1, <3>1, <3>2, <3>3 DEF TreeOK
  <2> QED BY <1>6, <1>7, <2>3 DEF TreeOK, ParentsThere
<1>9. (\A k \in Depts!Depts' : k <= used.dept) /\ \A u \in Depts!Users : user[u].dept \in Depts!Depts' \cup {None}
  BY <1>2, <1>3, <1>6
<1> QED BY <1>2, <1>5, <1>7, <1>8, <1>9, TreeStep

-----------------------------------------------------------------------------
\* A user table with no row in a department that is not there and no name twice.
LEMMA UserStep ==
  ASSUME Depts!DepartmentsAssumption, DeptInv, UNCHANGED <<dept, used, change>>,
         calm' \in BOOLEAN, calm' => calm,
         user' \in [Depts!Uids -> Depts!UserRow \cup {None}], UserIdsGiven', Depts!UsersAreSound'
  PROVE  DeptInv'
<1>1. Depts!Depts' = Depts!Depts
  BY DEF Depts!Depts
<1>2. Depts!TypeOK' /\ ParentsThere' /\ DeptIdsGiven' /\ (TreeOK => TreeOK')
  BY <1>1 DEF DeptInv, Depts!TypeOK, ParentsThere, DeptIdsGiven, TreeOK, Depts!PathOf
<1>3. \A h \in Handlers : FoundOK(change[h])' /\ (Childless(change[h]) => Childless(change[h])')
  BY <1>1 DEF DeptInv, FoundOK, Childless
<1> QED BY <1>2, <1>3 DEF DeptInv

LEMMA InsertUserStep ==
  ASSUME NEW h \in Handlers, Depts!DepartmentsAssumption, DeptInv, Depts!InsertUser(h)
  PROVE  DeptInv'
<1>1. PICK n, x, v : n = change[h].name /\ x = change[h].id /\ v = used.user + 1
  OBVIOUS
<1>2. /\ used \in [dept : 0..MaxDept, user : 0..MaxUser] /\ MaxDept \in Nat /\ MaxUser \in Nat
      /\ user \in [Depts!Uids -> Depts!UserRow \cup {None}] /\ dept \in [Depts!DeptIds -> Depts!DeptRow \cup {None}]
  BY DEF DeptInv, Depts!TypeOK, Depts!DepartmentsAssumption
<1>3. /\ used.user < MaxUser /\ x \in Depts!Depts \cup {None}
      /\ \A u \in Depts!Users : user[u].name # n
      /\ user' = [user EXCEPT ![v] = [name |-> n, dept |-> x]]
      /\ used' = [used EXCEPT !.user = v]
      /\ dept' = dept /\ n \in Usernames
  BY <1>1 DEF Depts!InsertUser, DeptInv, FoundOK
<1>4. Depts!End(h, TRUE)
  BY DEF Depts!InsertUser
<1>5. v \in Depts!Uids /\ v \notin Depts!Users /\ [name |-> n, dept |-> x] \in Depts!UserRow
  BY <1>1, <1>2, <1>3 DEF Depts!Uids, DeptInv, UserIdsGiven, Depts!UserRow, Depts!Depts
<1>6. /\ user' \in [Depts!Uids -> Depts!UserRow \cup {None}] /\ user'[v] = [name |-> n, dept |-> x]
      /\ \A u \in Depts!Uids \ {v} : user'[u] = user[u]
  BY <1>2, <1>3, <1>5
<1>7. used' \in [dept : 0..MaxDept, user : 0..MaxUser] /\ used'.dept = used.dept /\ used'.user = v
  BY <1>1, <1>2, <1>3
<1>8. Depts!Depts' = Depts!Depts /\ \A u \in Depts!Users' : u = v \/ (u \in Depts!Users /\ u \in Depts!Uids \ {v} /\ user'[u] = user[u])
  BY <1>3, <1>6 DEF Depts!Depts, Depts!Users
<1>9. UserIdsGiven'
  BY <1>1, <1>2, <1>7, <1>8 DEF DeptInv, UserIdsGiven, Depts!Users, Depts!Uids
<1>10. Depts!UsersAreSound'
  <2>1. \A u \in Depts!Users' : user'[u].dept \in Depts!Depts \cup {None}
    BY <1>3, <1>6, <1>8 DEF DeptInv, Depts!UsersAreSound
  <2>2. ASSUME NEW u \in Depts!Users', NEW w \in Depts!Users', user'[u].name = user'[w].name
        PROVE  u = w
    BY <1>3, <1>6, <1>8, <2>2 DEF DeptInv, Depts!UsersAreSound
  <2> QED BY <1>8, <2>1, <2>2 DEF Depts!UsersAreSound
<1>11. ParentsThere' /\ DeptIdsGiven' /\ (TreeOK => TreeOK')
  BY <1>3, <1>7, <1>8 DEF DeptInv, ParentsThere, DeptIdsGiven, TreeOK, Depts!PathOf
<1>12. used.dept <= used'.dept /\ (calm /\ TRUE => TreeOK')
  BY <1>2, <1>7, <1>11 DEF DeptInv
<1> QED BY <1>2, <1>3, <1>4, <1>6, <1>7, <1>9, <1>10, <1>11, <1>12, EndStep

LEMMA UsersStep ==
  ASSUME Depts!DepartmentsAssumption, DeptInv, NEW u \in Depts!Uids,
         Depts!DeleteUser(u) \/ \E x \in Depts!DeptIds : Depts!SetUserDept(u, x)
  PROVE  DeptInv'
<1>1. user \in [Depts!Uids -> Depts!UserRow \cup {None}] /\ Depts!Depts \subseteq Depts!DeptIds /\ Depts!Users \subseteq Depts!Uids
  BY DEF DeptInv, Depts!TypeOK, Depts!Depts, Depts!Users
<1>2. CASE Depts!DeleteUser(u)
  <2>1. user' \in [Depts!Uids -> Depts!UserRow \cup {None}]
    BY <1>1, <1>2 DEF Depts!DeleteUser
  <2>2. Depts!Depts' = Depts!Depts /\ \A v \in Depts!Users' : v \in Depts!Users /\ user'[v] = user[v]
    BY <1>1, <1>2 DEF Depts!DeleteUser, Depts!Depts, Depts!Users
  <2>3. UserIdsGiven' /\ Depts!UsersAreSound'
    BY <1>2, <2>2 DEF Depts!DeleteUser, DeptInv, UserIdsGiven, Depts!UsersAreSound
  <2>4. UNCHANGED <<dept, used, change, calm>> /\ calm \in BOOLEAN
    BY <1>2 DEF Depts!DeleteUser, DeptInv, Depts!TypeOK
  <2> QED BY <2>1, <2>3, <2>4, UserStep
<1>3. ASSUME NEW x \in Depts!DeptIds, Depts!SetUserDept(u, x) PROVE DeptInv'
  <2>1. u \in Depts!Users /\ x \in Depts!Depts /\ user' = [user EXCEPT ![u].dept = x] /\ UNCHANGED <<dept, used, change>>
    BY <1>3 DEF Depts!SetUserDept
  <2>2. user[u] \in Depts!UserRow
    BY <1>1, <2>1 DEF Depts!Users
  <2>3. /\ user'[u] \in Depts!UserRow /\ user'[u].dept = x /\ user'[u].name = user[u].name
        /\ \A v \in Depts!Uids \ {u} : user'[v] = user[v]
        /\ user' \in [Depts!Uids -> Depts!UserRow \cup {None}]
    BY <1>1, <2>1, <2>2 DEF Depts!UserRow
  <2>4. Depts!Depts' = Depts!Depts /\ \A v \in Depts!Users' : /\ v \in Depts!Users /\ user'[v].name = user[v].name
                                            /\ user'[v].dept \in {x, user[v].dept}
    BY <1>1, <2>1, <2>3 DEF Depts!Depts, Depts!Users
  <2>5. UserIdsGiven' /\ Depts!UsersAreSound'
    BY <2>1, <2>4 DEF DeptInv, UserIdsGiven, Depts!UsersAreSound
  <2>6. calm' \in BOOLEAN /\ (calm' => calm)
    BY <1>3 DEF Depts!SetUserDept, DeptInv, Depts!TypeOK
  <2> QED BY <2>1, <2>3, <2>5, <2>6, UserStep
<1> QED BY <1>2, <1>3

-----------------------------------------------------------------------------
LEMMA DeptNext ==
  ASSUME Depts!DepartmentsAssumption, DeptInv, [Depts!Next]_Depts!vars
  PROVE  DeptInv'
<1>1. CASE UNCHANGED Depts!vars
  <2>1. UNCHANGED <<dept, user, used, change, calm>>
    BY <1>1 DEF Depts!vars
  <2>2. calm \in BOOLEAN /\ UserIdsGiven' /\ Depts!UsersAreSound' /\ user' \in [Depts!Uids -> Depts!UserRow \cup {None}]
    BY <2>1 DEF DeptInv, Depts!TypeOK, UserIdsGiven, Depts!UsersAreSound, Depts!Users, Depts!Depts
  <2> QED BY <2>1, <2>2, UserStep
<1>2. ASSUME NEW h \in Handlers,
             \/ \E p \in Depts!DeptIds \cup {None} : Depts!CreateDept(h, p) \/ \E i \in Depts!DeptIds : Depts!UpdateDept(h, i, p)
             \/ \E i \in Depts!DeptIds : Depts!DeleteDept(h, i)
             \/ \E n \in Usernames, x \in Depts!DeptIds \cup {None} : Depts!CreateUser(h, n, x)
      PROVE  DeptInv'
  BY <1>2, ComeDept
<1>3. ASSUME NEW h \in Handlers,
             Depts!FindParent(h) \/ Depts!FindItem(h) \/ Depts!FindItemParent(h) \/ Depts!FindByName(h) \/ Depts!FindUserDept(h)
      PROVE  DeptInv'
  BY <1>3, FindDept
<1>4. ASSUME NEW h \in Handlers, Depts!CountUserByDeptId(h) \/ Depts!CountChildDept(h) \/ Depts!Fail(h)
      PROVE  DeptInv'
  BY <1>4, CountUsers, CountChildren, OverDept
<1>5. ASSUME NEW h \in Handlers, Depts!Insert(h) \/ Depts!Save(h) \/ Depts!DeleteRow(h) \/ Depts!InsertUser(h)
      PROVE  DeptInv'
  BY <1>5, SaveStep, DeleteStep, InsertUserStep
<1>6. ASSUME NEW u \in Depts!Uids, Depts!DeleteUser(u) \/ \E x \in Depts!DeptIds : Depts!SetUserDept(u, x)
      PROVE  DeptInv'
  BY <1>6, UsersStep
<1> QED BY <1>1, <1>2, <1>3, <1>4, <1>5, <1>6 DEF Depts!Next

-----------------------------------------------------------------------------
(* Dictionaries *)

\* The rows have ids that were given.
RowIdsGiven == \A i \in Dicts!Types : i <= given.type

\* The unique index has it so.
CodesDiffer == \A i, k \in Dicts!Types : type[i]["code"] = type[k]["code"] => i = k

\* A request has what its handler needs, and only overlapped ones share the time.
Alone(c) == req[c].alone => \A o \in Handlers \ {c} : req[o].at = "new"

\* What the constraint has looked up for a request that overlaps no other is still so.
StillFree(c) ==
    req[c].at # "new" /\ req[c].alone =>
        \A f \in req[c].checked : ~Dicts!Taken(req[c].operateId, f, req[c].dto[f])

FormOK(r) ==
    /\ r.at # "new" => r.dto \in Dicts!TypeRow
    /\ r.at = "handler" => r.checked = Dicts!Fields

DictInv ==
    /\ Dicts!TypeOK /\ RowIdsGiven /\ CodesDiffer /\ Dicts!NamesDiffer /\ Dicts!OwnValuesPass
    /\ \A c \in Handlers : FormOK(req[c]) /\ (req[c].at # "new" => Alone(c)) /\ StillFree(c)

-----------------------------------------------------------------------------
LEMMA NewForm == Dicts!NewReq \in Dicts!Req /\ Dicts!NewReq.at = "new"
  BY DEF Dicts!NewReq, Dicts!Req

LEMMA DictInit == ASSUME Dicts!DictionariesAssumption, Dicts!Init PROVE DictInv
<1>1. \A c \in Handlers : req[c] \in Dicts!Req /\ req[c].at = "new"
  BY NewForm DEF Dicts!Init
<1>2. Dicts!Types = {}
  BY DEF Dicts!Init, Dicts!Types
<1>3. Dicts!TypeOK
  <2>1. given \in [type : 0..MaxType, item : 0..MaxItem]
    BY DEF Dicts!Init, Dicts!DictionariesAssumption
  <2> QED BY <2>1, NewForm DEF Dicts!Init, Dicts!TypeOK
<1>4. RowIdsGiven /\ CodesDiffer /\ Dicts!NamesDiffer
  BY <1>2 DEF RowIdsGiven, CodesDiffer, Dicts!NamesDiffer
<1> QED BY <1>1, <1>3, <1>4 DEF DictInv, FormOK, StillFree, Dicts!Init, Dicts!OwnValuesPass

\* Steps of a request c whose record becomes q, and that write no type.
LEMMA FormPut ==
  ASSUME NEW c \in Handlers, NEW q \in Dicts!Req, Dicts!TypeOK, req' = [req EXCEPT ![c] = q]
  PROVE  /\ req' \in [Handlers -> Dicts!Req]
         /\ req'[c] = q
         /\ \A o \in Handlers \ {c} : req'[o] = req[o]
  BY DEF Dicts!TypeOK

\* What is free stays so while no type is written, or one goes.
LEMMA FreeStays ==
  ASSUME NEW i, NEW f, NEW v, ~Dicts!Taken(i, f, v),
         \A k \in Dicts!Types' : k \in Dicts!Types /\ type'[k] = type[k]
  PROVE  ~Dicts!Taken(i, f, v)'
  BY DEF Dicts!Taken

LEMMA TableStays ==
  ASSUME DictInv, UNCHANGED <<type, given, raced, unjust>>
  PROVE  /\ RowIdsGiven' /\ CodesDiffer' /\ Dicts!NamesDiffer' /\ Dicts!OwnValuesPass'
         /\ \A k \in Dicts!Types' : k \in Dicts!Types /\ type'[k] = type[k]
  BY DEF DictInv, RowIdsGiven, CodesDiffer, Dicts!NamesDiffer, Dicts!OwnValuesPass, Dicts!Types

LEMMA FormStep ==
  ASSUME NEW c \in Handlers, NEW q \in Dicts!Req, DictInv, req' = [req EXCEPT ![c] = q],
         UNCHANGED <<type, item, given, raced, unjust>>,
         FormOK(q), req[c].at = "new" => q.at = "new", q.alone => q.at = "new" \/ req[c].alone,
         q.at # "new" /\ q.alone =>
            \A f \in q.checked : ~Dicts!Taken(q.operateId, f, q.dto[f])
  PROVE  DictInv'
<1>1. /\ req' \in [Handlers -> Dicts!Req] /\ req'[c] = q
      /\ \A o \in Handlers \ {c} : req'[o] = req[o]
  BY FormPut DEF DictInv
<1>2. Dicts!TypeOK'
  BY <1>1 DEF DictInv, Dicts!TypeOK
<1>3. /\ RowIdsGiven' /\ CodesDiffer' /\ Dicts!NamesDiffer' /\ Dicts!OwnValuesPass'
      /\ \A k \in Dicts!Types' : k \in Dicts!Types /\ type'[k] = type[k]
  BY TableStays
<1>4. ASSUME NEW o \in Handlers PROVE FormOK(req'[o])
  BY <1>1 DEF DictInv
<1>5. ASSUME NEW o \in Handlers, req'[o].at # "new" PROVE Alone(o)'
  BY <1>1, <1>5 DEF DictInv, Alone
<1>6. ASSUME NEW o \in Handlers PROVE StillFree(o)'
  <2>1. CASE o = c
    BY <1>1, <1>3, <2>1, FreeStays DEF StillFree
  <2>2. CASE o # c
    BY <1>1, <1>3, <2>2, FreeStays DEF StillFree, DictInv
  <2> QED BY <2>1, <2>2
<1>7. \A o \in Handlers : FormOK(req[o])'
  BY <1>4 DEF FormOK
<1> QED BY <1>2, <1>3, <1>5, <1>6, <1>7 DEF DictInv

LEMMA FailDict == ASSUME NEW c \in Handlers, DictInv, Dicts!Fail(c) PROVE DictInv'
<1>1. req' = [req EXCEPT ![c] = Dicts!NewReq] /\ UNCHANGED <<type, item, given, raced, unjust>>
  BY DEF Dicts!Fail, Dicts!End
<1> QED BY <1>1, NewForm, FormStep DEF FormOK

\* A request that comes is alone if no other is there, and no other is any more.
LEMMA ArriveDict ==
  ASSUME NEW c \in Handlers, NEW r \in Dicts!Req, DictInv, r.at = "pipe", r.dto \in Dicts!TypeRow, r.checked = {},
         Dicts!Arrive(c, r)
  PROVE  DictInv'
<1> DEFINE q == [r EXCEPT !.alone = Dicts!UnderWay = {}]
           Kept(o) == [req[o] EXCEPT !.alone = FALSE]
<1>1. /\ req' = [o \in Handlers |-> IF o = c THEN q ELSE Kept(o)]
      /\ UNCHANGED <<type, item, given, raced, unjust>> /\ req[c].at = "new"
  BY DEF Dicts!Arrive
<1>2. /\ q \in Dicts!Req /\ q.at = "pipe" /\ q.dto \in Dicts!TypeRow /\ q.checked = {}
      /\ q.alone = (Dicts!UnderWay = {})
  BY DEF Dicts!Req
<1>3. ASSUME NEW o \in Handlers
      PROVE  /\ Kept(o) \in Dicts!Req /\ Kept(o).at = req[o].at /\ Kept(o).dto = req[o].dto
             /\ Kept(o).checked = req[o].checked /\ Kept(o).alone = FALSE
  BY DEF DictInv, Dicts!TypeOK, Dicts!Req
<1> HIDE DEF q, Kept
<1>4. /\ req' \in [Handlers -> Dicts!Req] /\ req'[c] = q
      /\ \A o \in Handlers \ {c} : req'[o] = Kept(o)
  BY <1>1, <1>2, <1>3
<1>5. Dicts!TypeOK'
  BY <1>1, <1>4 DEF DictInv, Dicts!TypeOK
<1>6. RowIdsGiven' /\ CodesDiffer' /\ Dicts!NamesDiffer' /\ Dicts!OwnValuesPass'
  BY <1>1, TableStays
<1>7. ASSUME NEW o \in Handlers PROVE FormOK(req'[o])
  BY <1>2, <1>3, <1>4 DEF DictInv, FormOK
<1>8. ASSUME NEW o \in Handlers PROVE Alone(o)'
  <2>1. CASE o = c
    BY <1>2, <1>3, <1>4, <2>1 DEF Alone, Dicts!UnderWay
  <2>2. CASE o # c
    BY <1>3, <1>4, <2>2 DEF Alone
  <2> QED BY <2>1, <2>2
<1>9. ASSUME NEW o \in Handlers PROVE StillFree(o)'
  BY <1>2, <1>3, <1>4 DEF StillFree
<1>10. \A o \in Handlers : FormOK(req[o])'
  BY <1>7 DEF FormOK
<1> QED BY <1>5, <1>6, <1>8, <1>9, <1>10 DEF DictInv

LEMMA PostDict ==
  ASSUME NEW c \in Handlers, NEW dto \in Dicts!TypeRow, DictInv,
         Dicts!PostType(c, dto) \/ \E i \in Dicts!TypeIds : Dicts!PostTypeId(c, i, dto)
  PROVE  DictInv'
<1> DEFINE q(i) == [Dicts!NewReq EXCEPT !.at = "pipe", !.operateId = i, !.dto = dto]
           p == [Dicts!NewReq EXCEPT !.at = "pipe", !.dto = dto]
<1>1. p \in Dicts!Req /\ p.at = "pipe" /\ p.dto = dto /\ p.checked = {}
  BY DEF Dicts!NewReq, Dicts!Req
<1>2. ASSUME NEW i \in Dicts!TypeIds
      PROVE  q(i) \in Dicts!Req /\ q(i).at = "pipe" /\ q(i).dto = dto /\ q(i).checked = {}
  BY DEF Dicts!NewReq, Dicts!Req
<1>3. Dicts!Arrive(c, p) \/ \E i \in Dicts!TypeIds : Dicts!Arrive(c, q(i))
  BY DEF Dicts!PostType, Dicts!PostTypeId
<1> HIDE DEF p, q
<1> QED BY <1>1, <1>2, <1>3, ArriveDict

-----------------------------------------------------------------------------
\* While no two types were written at once, nothing is in the way of a row's own values.
LEMMA OwnFree ==
  ASSUME DictInv, raced = {}, NEW i \in Dicts!Types, NEW f \in Dicts!Fields
  PROVE  ~Dicts!Taken(i, f, type[i][f])
<1> SUFFICES ASSUME NEW k \in Dicts!Types, type[k][f] = type[i][f], k # i PROVE FALSE
  BY DEF Dicts!Taken
<1>1. CASE f = "name"
  BY <1>1 DEF DictInv, Dicts!NamesDiffer
<1>2. CASE f = "code"
  BY <1>2 DEF DictInv, CodesDiffer
<1> QED BY <1>1, <1>2 DEF Dicts!Fields

LEMMA ValidateDict ==
  ASSUME NEW c \in Handlers, NEW f \in Dicts!Fields, DictInv, Dicts!Validate(c, f)
  PROVE  DictInv'
<1>1. /\ req[c] \in Dicts!Req /\ req[c].at = "pipe" /\ FormOK(req[c]) /\ StillFree(c)
      /\ UNCHANGED <<type, item, given, raced>>
  BY DEF Dicts!Validate, DictInv, Dicts!TypeOK
<1>2. CASE Dicts!Taken(req[c].operateId, f, req[c].dto[f])
  <2>1. req' = [req EXCEPT ![c] = Dicts!NewReq]
        /\ unjust' = (unjust \/ (raced = {} /\ req[c].alone /\ Dicts!Unchanged(req[c])))
    BY <1>2 DEF Dicts!Validate, Dicts!End
  <2>2. ~(raced = {} /\ Dicts!Unchanged(req[c]))
    BY <1>2, OwnFree DEF Dicts!Unchanged
  <2>3. unjust' = unjust
    BY <2>1, <2>2 DEF DictInv, Dicts!OwnValuesPass, Dicts!TypeOK
  <2> QED BY <1>1, <2>1, <2>3, NewForm, FormStep DEF FormOK
<1>3. CASE ~Dicts!Taken(req[c].operateId, f, req[c].dto[f])
  <2> DEFINE now == req[c].checked \cup {f}
             at == IF now = Dicts!Fields THEN "handler" ELSE "pipe"
             q == [req[c] EXCEPT !.checked = now, !.at = at]
  <2>1. req' = [req EXCEPT ![c] = q] /\ unjust' = unjust
    BY <1>3 DEF Dicts!Validate
  <2>2. now \in SUBSET Dicts!Fields
    BY <1>1 DEF Dicts!Req
  <2>3. /\ q \in Dicts!Req /\ q.at = at /\ q.checked = now /\ q.dto = req[c].dto
        /\ q.operateId = req[c].operateId /\ q.alone = req[c].alone
    BY <1>1, <2>2 DEF Dicts!Req
  <2> HIDE DEF q
  <2>4. FormOK(q)
    BY <1>1, <2>3 DEF FormOK
  <2>5. q.alone => \A g \in q.checked : ~Dicts!Taken(q.operateId, g, q.dto[g])
    BY <1>1, <1>3, <2>3 DEF StillFree
  <2> QED BY <1>1, <2>1, <2>3, <2>4, <2>5, FormStep
<1> QED BY <1>2, <1>3

-----------------------------------------------------------------------------
\* The row i is written by the handler c: its code is free, and its name is or c
\* overlapped another.
LEMMA WriteDict ==
  ASSUME NEW c \in Handlers, NEW i \in Dicts!TypeIds, Dicts!DictionariesAssumption, DictInv, Dicts!Write(c, i),
         req[c].at = "handler", UNCHANGED <<item, unjust>>,
         given' \in [type : 0..MaxType, item : 0..MaxItem],
         \A k \in Dicts!Types : k <= given'.type, i <= given'.type,
         req[c].operateId = i \/ (req[c].operateId = None /\ i \notin Dicts!Types)
  PROVE  DictInv'
<1> DEFINE dto == req[c].dto
<1>1. /\ Dicts!TypeOK /\ req[c] \in Dicts!Req /\ dto \in Dicts!TypeRow /\ req[c].checked = Dicts!Fields
      /\ Alone(c) /\ StillFree(c)
  BY DEF DictInv, Dicts!TypeOK, FormOK
<1>2. /\ Dicts!CodeFree(i, dto)
      /\ type' = [type EXCEPT ![i] = dto]
      /\ raced' = IF req[c].alone THEN raced \ {i} ELSE raced \cup {i}
      /\ req' = [req EXCEPT ![c] = Dicts!NewReq]
  BY DEF Dicts!Write, Dicts!End
<1> HIDE DEF dto
<1>3. /\ type' \in [Dicts!TypeIds -> Dicts!TypeRow \cup {None}] /\ type'[i] = dto
      /\ \A k \in Dicts!TypeIds \ {i} : type'[k] = type[k]
  BY <1>1, <1>2 DEF Dicts!TypeOK
<1>4. Dicts!Types' \subseteq Dicts!Types \cup {i} /\ \A k \in Dicts!Types' : k # i => k \in Dicts!Types /\ type'[k] = type[k]
  BY <1>3 DEF Dicts!Types
<1>5. /\ req' \in [Handlers -> Dicts!Req] /\ req'[c].at = "new"
      /\ \A o \in Handlers \ {c} : req'[o] = req[o]
  BY <1>1, <1>2, FormPut, NewForm
<1>6. Dicts!TypeOK'
  BY <1>1, <1>2, <1>3, <1>5 DEF Dicts!TypeOK
<1>7. RowIdsGiven'
  BY <1>4 DEF RowIdsGiven
<1>8. CodesDiffer'
  BY <1>2, <1>3, <1>4 DEF DictInv, CodesDiffer, Dicts!CodeFree
<1>9. \A k \in Dicts!Types \ {i} : type[k]["name"] = dto["name"] => ~req[c].alone
  <2> SUFFICES ASSUME NEW k \in Dicts!Types \ {i}, type[k]["name"] = dto["name"], req[c].alone PROVE FALSE
    OBVIOUS
  <2>1. ~Dicts!Taken(req[c].operateId, "name", dto["name"])
    BY <1>1 DEF StillFree, Dicts!Fields, dto
  <2>2. k # req[c].operateId
    BY DEF Dicts!Types, Dicts!TypeIds, Dicts!DictionariesAssumption
  <2> QED BY <2>1, <2>2 DEF Dicts!Taken
<1>10. Dicts!NamesDiffer'
  <2> SUFFICES ASSUME NEW k \in Dicts!Types', NEW l \in Dicts!Types', type'[k]["name"] = type'[l]["name"], k # l
               PROVE  {k, l} \cap raced' # {}
    BY DEF Dicts!NamesDiffer
  <2>1. CASE k # i /\ l # i
    <3>1. {k, l} \cap raced # {}
      BY <1>4, <2>1 DEF DictInv, Dicts!NamesDiffer
    <3> QED BY <1>2, <2>1, <3>1
  <2>2. CASE k = i \/ l = i
    <3>1. ~req[c].alone
      BY <1>3, <1>4, <1>9, <2>2
    <3> QED BY <1>2, <2>2, <3>1
  <2> QED BY <2>1, <2>2
<1>11. ASSUME NEW o \in Handlers PROVE FormOK(req'[o])
  BY <1>5 DEF DictInv, FormOK
<1>12. ASSUME NEW o \in Handlers, req'[o].at # "new" PROVE Alone(o)' /\ StillFree(o)'
  <2>1. o # c /\ req'[o] = req[o]
    BY <1>5, <1>12
  <2>2. ~req[o].alone
    BY <1>12, <2>1 DEF DictInv, Alone
  <2> QED BY <2>1, <2>2 DEF Alone, StillFree
<1>13. \A o \in Handlers : FormOK(req[o])' /\ StillFree(o)'
  BY <1>11, <1>12 DEF FormOK, StillFree
<1>14. Dicts!OwnValuesPass'
  BY DEF DictInv, Dicts!OwnValuesPass
<1> QED BY <1>6, <1>7, <1>8, <1>10, <1>12, <1>13, <1>14 DEF DictInv

LEMMA CreateDict ==
  ASSUME NEW c \in Handlers, Dicts!DictionariesAssumption, DictInv, Dicts!Create(c)
  PROVE  DictInv'
<1> DEFINE n == given.type
<1>1. /\ req[c].at = "handler" /\ req[c].operateId = None /\ n < MaxType
      /\ given' = [given EXCEPT !.type = n + 1] /\ Dicts!Write(c, n + 1) /\ UNCHANGED <<item, unjust>>
  BY DEF Dicts!Create
<1>2. given \in [type : 0..MaxType, item : 0..MaxItem] /\ MaxType \in Nat /\ n \in 0..MaxType
  BY DEF DictInv, Dicts!TypeOK, Dicts!DictionariesAssumption
<1>3. given' \in [type : 0..MaxType, item : 0..MaxItem] /\ given'.type = n + 1
  BY <1>1, <1>2
<1>4. \A k \in Dicts!Types : k \in Nat /\ k <= n
  BY DEF DictInv, RowIdsGiven, Dicts!Types, Dicts!TypeIds
<1> HIDE DEF n
<1>5. n + 1 \in Dicts!TypeIds /\ n + 1 \notin Dicts!Types /\ \A k \in Dicts!Types : k <= n + 1
  BY <1>1, <1>2, <1>4 DEF Dicts!TypeIds
<1>6. n + 1 <= n + 1
  BY <1>2
<1> QED BY <1>1, <1>3, <1>5, <1>6, WriteDict

LEMMA UpdateDict ==
  ASSUME NEW c \in Handlers, Dicts!DictionariesAssumption, DictInv, Dicts!Update(c)
  PROVE  DictInv'
<1> DEFINE i == req[c].operateId
<1>1. req[c].at = "handler" /\ i # None /\ UNCHANGED <<item, given, unjust>>
  BY DEF Dicts!Update
<1>2. CASE i \in Dicts!Types
  <2>1. Dicts!Write(c, i) /\ i \in Dicts!TypeIds
    BY <1>2 DEF Dicts!Update, Dicts!Types
  <2>2. /\ given' \in [type : 0..MaxType, item : 0..MaxItem]
        /\ \A k \in Dicts!Types : k <= given'.type
    BY <1>1 DEF DictInv, Dicts!TypeOK, RowIdsGiven
  <2> QED BY <1>1, <1>2, <2>1, <2>2, WriteDict
<1>3. CASE i \notin Dicts!Types
  <2>1. req' = [req EXCEPT ![c] = Dicts!NewReq] /\ UNCHANGED <<type, raced>>
    BY <1>3 DEF Dicts!Update, Dicts!End
  <2> QED BY <1>1, <2>1, NewForm, FormStep DEF FormOK
<1> QED BY <1>2, <1>3

\* The type i goes, or only items change.
LEMMA DeleteDict ==
  ASSUME NEW i \in Dicts!TypeIds, Dicts!DictionariesAssumption, DictInv, Dicts!DeleteType(i)
  PROVE  DictInv'
<1>1. /\ type' = [type EXCEPT ![i] = None] /\ raced' = raced \ {i} /\ UNCHANGED <<given, req, unjust>>
      /\ item' = [k \in Dicts!ItemIds |-> IF item[k] = i THEN None ELSE item[k]] /\ Dicts!TypeOK
  BY DEF Dicts!DeleteType, DictInv
<1>2. /\ type' \in [Dicts!TypeIds -> Dicts!TypeRow \cup {None}] /\ type'[i] = None
      /\ \A k \in Dicts!TypeIds \ {i} : type'[k] = type[k]
  BY <1>1 DEF Dicts!TypeOK
<1>3. \A k \in Dicts!Types' : k \in Dicts!Types /\ type'[k] = type[k] /\ k # i
  BY <1>2 DEF Dicts!Types
<1>4. Dicts!TypeOK'
  <2>1. item' \in [Dicts!ItemIds -> Dicts!TypeIds \cup {None}]
    BY <1>1 DEF Dicts!TypeOK
  <2> QED BY <1>1, <1>2, <2>1 DEF Dicts!TypeOK
<1>5. RowIdsGiven' /\ CodesDiffer' /\ Dicts!OwnValuesPass'
  BY <1>1, <1>3 DEF DictInv, RowIdsGiven, CodesDiffer, Dicts!OwnValuesPass
<1>6. Dicts!NamesDiffer'
  BY <1>1, <1>3 DEF DictInv, Dicts!NamesDiffer
<1>7. ASSUME NEW c \in Handlers PROVE FormOK(req[c])' /\ (req'[c].at # "new" => Alone(c)')
  BY <1>1 DEF DictInv, FormOK, Alone
<1>8. ASSUME NEW c \in Handlers PROVE StillFree(c)'
  BY <1>1, <1>3, FreeStays DEF DictInv, StillFree
<1> QED BY <1>4, <1>5, <1>6, <1>7, <1>8 DEF DictInv

LEMMA ItemsDict ==
  ASSUME DictInv, UNCHANGED <<type, req, raced, unjust>>,
         item' \in [Dicts!ItemIds -> Dicts!TypeIds \cup {None}],
         given' \in [type : 0..MaxType, item : 0..MaxItem], given'.type = given.type
  PROVE  DictInv'
<1>1. Dicts!Types' = Dicts!Types
  BY DEF Dicts!Types
<1>2. Dicts!TypeOK' /\ RowIdsGiven' /\ CodesDiffer' /\ Dicts!OwnValuesPass' /\ Dicts!NamesDiffer'
  BY <1>1 DEF DictInv, Dicts!TypeOK, RowIdsGiven, CodesDiffer, Dicts!OwnValuesPass,
     Dicts!NamesDiffer
<1>3. ASSUME NEW c \in Handlers PROVE FormOK(req[c])' /\ (req'[c].at # "new" => Alone(c)')
  BY DEF DictInv, FormOK, Alone
<1>4. ASSUME NEW c \in Handlers PROVE StillFree(c)'
  BY <1>1, FreeStays DEF DictInv, StillFree
<1> QED BY <1>2, <1>3, <1>4 DEF DictInv

LEMMA CreateItemDict ==
  ASSUME NEW i \in Dicts!TypeIds, Dicts!DictionariesAssumption, DictInv, Dicts!CreateItem(i)
  PROVE  DictInv'
<1>1. /\ given \in [type : 0..MaxType, item : 0..MaxItem]
      /\ item \in [Dicts!ItemIds -> Dicts!TypeIds \cup {None}]
      /\ UNCHANGED <<type, req, raced, unjust>> /\ given.item < MaxItem /\ MaxItem \in Nat
      /\ given' = [given EXCEPT !.item = @ + 1] /\ item' = [item EXCEPT ![given.item + 1] = i]
  BY DEF DictInv, Dicts!TypeOK, Dicts!CreateItem, Dicts!DictionariesAssumption
<1>2. given' \in [type : 0..MaxType, item : 0..MaxItem] /\ given'.type = given.type
  BY <1>1
<1>3. item' \in [Dicts!ItemIds -> Dicts!TypeIds \cup {None}]
  BY <1>1
<1> QED BY <1>1, <1>2, <1>3, ItemsDict

LEMMA ItemDict ==
  ASSUME NEW k \in Dicts!ItemIds, DictInv, Dicts!DeleteItem(k) \/ \E i \in Dicts!TypeIds : Dicts!UpdateItem(k, i)
  PROVE  DictInv'
<1>1. /\ given' = given /\ given \in [type : 0..MaxType, item : 0..MaxItem]
      /\ UNCHANGED <<type, req, raced, unjust>>
      /\ item' \in [Dicts!ItemIds -> Dicts!TypeIds \cup {None}]
  BY DEF DictInv, Dicts!TypeOK, Dicts!UpdateItem, Dicts!DeleteItem
<1> QED BY <1>1, ItemsDict

LEMMA DictNext ==
  ASSUME Dicts!DictionariesAssumption, DictInv, [Dicts!Next]_Dicts!vars
  PROVE  DictInv'
<1>1. CASE UNCHANGED Dicts!vars
  <2>1. UNCHANGED <<type, item, given, req, raced, unjust>>
    BY <1>1 DEF Dicts!vars
  <2> QED BY <2>1, ItemsDict DEF DictInv, Dicts!TypeOK
<1>2. ASSUME NEW c \in Handlers, NEW dto \in Dicts!TypeRow,
             Dicts!PostType(c, dto) \/ \E i \in Dicts!TypeIds : Dicts!PostTypeId(c, i, dto)
      PROVE  DictInv'
  BY <1>2, PostDict
<1>3. ASSUME NEW c \in Handlers, NEW f \in Dicts!Fields, Dicts!Validate(c, f) PROVE DictInv'
  BY <1>3, ValidateDict
<1>4. ASSUME NEW c \in Handlers, Dicts!Create(c) \/ Dicts!Update(c) \/ Dicts!Fail(c) PROVE DictInv'
  BY <1>4, CreateDict, UpdateDict, FailDict
<1>5. ASSUME NEW i \in Dicts!TypeIds, Dicts!DeleteType(i) \/ Dicts!CreateItem(i) PROVE DictInv'
  BY <1>5, DeleteDict, CreateItemDict
<1>6. ASSUME NEW k \in Dicts!ItemIds, Dicts!DeleteItem(k) \/ \E i \in Dicts!TypeIds : Dicts!UpdateItem(k, i)
      PROVE  DictInv'
  BY <1>6, ItemDict
<1> QED BY <1>1, <1>2, <1>3, <1>4, <1>5, <1>6 DEF Dicts!Next

-----------------------------------------------------------------------------
(* Edits of a user *)

\* The row is a transaction's from its UPDATE until its end.
LockHeld ==
    /\ account = None => lock = None
    /\ \A h \in Handlers :
         /\ lock = h => edit[h].at \in {"read", "commit"}
         /\ edit[h].at \in {"read", "commit"} /\ account # None => lock = h

\* What a transaction has read of the roles is what there is at its end.
ReadsHold ==
    \A h \in Handlers :
        edit[h].at = "commit" /\ account # None /\ edit[h].roleIds # None => edit[h].had = account.roles

EditInv == Accts!TypeOK /\ Accts!EditsAreWhole /\ LockHeld /\ ReadsHold

-----------------------------------------------------------------------------
LEMMA EditInit == ASSUME Accts!AccountsAssumption, Accts!Init PROVE EditInv
<1>1. PICK roles \in SUBSET RoleIds : account = [row |-> [c \in Accts!Columns |-> None], roles |-> roles]
  BY DEF Accts!Init
<1>2. account \in Accts!User /\ last = account /\ lock = None
  BY <1>1 DEF Accts!Init, Accts!User, Accts!Row
<1>3. edit \in [Handlers -> Accts!Job] /\ \A h \in Handlers : edit[h].at = "new"
  BY DEF Accts!Init, Accts!Job, Accts!Stages
<1>4. Accts!TypeOK
  BY <1>2, <1>3 DEF Accts!TypeOK
<1> QED BY <1>2, <1>3, <1>4 DEF EditInv, Accts!EditsAreWhole, LockHeld, ReadsHold,
           Accts!AccountsAssumption

\* The record of a job is replaced, those of the others stay.
LEMMA EditPut ==
  ASSUME NEW h \in Handlers, NEW j \in Accts!Job, Accts!TypeOK, edit' = [edit EXCEPT ![h] = j]
  PROVE  /\ edit' \in [Handlers -> Accts!Job]
         /\ edit'[h] = j
         /\ \A g \in Handlers \ {h} : edit'[g] = edit[g]
  BY DEF Accts!TypeOK

LEMMA EditGo ==
  ASSUME NEW h \in Handlers, NEW at \in Accts!Stages, Accts!TypeOK, Accts!Go(h, at)
  PROVE  /\ edit' \in [Handlers -> Accts!Job]
         /\ edit'[h].at = at /\ edit'[h].roleIds = edit[h].roleIds /\ edit'[h].had = edit[h].had
         /\ \A g \in Handlers \ {h} : edit'[g] = edit[g]
<1> DEFINE j == [edit[h] EXCEPT !.at = at]
<1>1. edit[h] \in Accts!Job
  BY DEF Accts!TypeOK
<1>2. j \in Accts!Job /\ j.at = at /\ j.roleIds = edit[h].roleIds /\ j.had = edit[h].had
  BY <1>1 DEF Accts!Job
<1>3. edit' = [edit EXCEPT ![h] = j]
  BY DEF Accts!Go
<1> HIDE DEF j
<1> QED BY <1>2, <1>3, EditPut

LEMMA EditSet ==
  ASSUME NEW u \in Accts!User, NEW h \in Handlers, NEW columns, NEW roles \in (SUBSET RoleIds) \cup {None}
  PROVE  /\ Accts!Set(u, h, columns, roles) \in Accts!User
         /\ Accts!Set(u, h, columns, roles).roles = IF roles = None THEN u.roles ELSE roles
<1> DEFINE row == [c \in Accts!Columns |-> IF c \in columns THEN h ELSE u.row[c]]
           there == IF roles = None THEN u.roles ELSE roles
<1>1. row \in Accts!Row /\ there \in SUBSET RoleIds
  BY DEF Accts!User, Accts!Row
<1>2. Accts!Set(u, h, columns, roles) = [row |-> row, roles |-> there]
  BY DEF Accts!Set
<1> HIDE DEF row, there
<1>3. [row |-> row, roles |-> there] \in Accts!User /\ [row |-> row, roles |-> there].roles = there
  BY <1>1 DEF Accts!User
<1> QED BY <1>2, <1>3 DEF there

-----------------------------------------------------------------------------
\* Steps that write nothing and enter or leave no transaction.
LEMMA EditQuiet ==
  ASSUME NEW h \in Handlers, EditInv, UNCHANGED <<account, lock, last>>,
         edit' \in [Handlers -> Accts!Job],
         \A g \in Handlers \ {h} : edit'[g] = edit[g],
         edit[h].at \notin {"read", "commit"}, edit'[h].at \notin {"read", "commit"}
  PROVE  EditInv'
<1>1. Accts!TypeOK'
  BY DEF EditInv, Accts!TypeOK
<1>2. Accts!EditsAreWhole'
  BY DEF EditInv, Accts!EditsAreWhole
<1>3. LockHeld'
  BY DEF EditInv, LockHeld
<1>4. ReadsHold'
  BY DEF EditInv, ReadsHold
<1> QED BY <1>1, <1>2, <1>3, <1>4 DEF EditInv

LEMMA EditReads ==
  ASSUME NEW h \in Handlers, EditInv,
         \/ \E sent \in SUBSET Accts!Profile : Accts!PutAccount(h, sent)
         \/ \E sent \in SUBSET Accts!Columns, roleIds \in (SUBSET RoleIds) \cup {None} : Accts!PutUser(h, sent, roleIds)
         \/ Accts!FindAccount(h) \/ Accts!FindUser(h)
  PROVE  EditInv'
<1>1. Accts!TypeOK /\ UNCHANGED <<account, lock, last>>
  BY DEF EditInv, Accts!PutAccount, Accts!PutUser, Accts!FindAccount, Accts!FindUser
<1>2. edit[h].at \notin {"read", "commit"}
  BY DEF Accts!PutAccount, Accts!PutUser, Accts!FindAccount, Accts!FindUser
<1>3. /\ edit' \in [Handlers -> Accts!Job] /\ edit'[h].at \notin {"read", "commit"}
      /\ \A g \in Handlers \ {h} : edit'[g] = edit[g]
  <2>1. ASSUME NEW at \in {"find", "password", "update"}, NEW sent \in SUBSET Accts!Columns,
               NEW roleIds \in (SUBSET RoleIds) \cup {None}, Accts!Begin(h, at, sent, roleIds)
        PROVE  <1>3
    <3> DEFINE j == [at |-> at, sent |-> sent, roleIds |-> roleIds, had |-> {}]
    <3>1. j \in Accts!Job /\ j.at = at
      BY DEF Accts!Job, Accts!Stages
    <3>2. edit' = [edit EXCEPT ![h] = j]
      BY <2>1 DEF Accts!Begin
    <3> HIDE DEF j
    <3> QED BY <1>1, <3>1, <3>2, EditPut
  <2>2. ASSUME NEW at \in {"end", "write", "setPassword"}, Accts!Go(h, at) PROVE <1>3
    BY <1>1, <2>2, EditGo DEF Accts!Stages
  <2>3. CASE \E sent \in SUBSET Accts!Profile : Accts!PutAccount(h, sent)
    BY <2>1, <2>3 DEF Accts!PutAccount, Accts!Profile, Accts!Columns
  <2>4. CASE \E sent \in SUBSET Accts!Columns, roleIds \in (SUBSET RoleIds) \cup {None} : Accts!PutUser(h, sent, roleIds)
    BY <2>1, <2>4 DEF Accts!PutUser
  <2>5. CASE Accts!FindAccount(h) \/ Accts!FindUser(h)
    BY <2>2, <2>5 DEF Accts!FindAccount, Accts!FindUser
  <2> QED BY <2>3, <2>4, <2>5
<1> QED BY <1>1, <1>2, <1>3, EditQuiet

\* A statement outside of a transaction sets columns, and no roles.
LEMMA EditWrite ==
  ASSUME NEW h \in Handlers, Accts!AccountsAssumption, EditInv, Accts!WriteAccount(h) \/ Accts!SetPassword(h)
  PROVE  EditInv'
<1>1. PICK columns \in {edit[h].sent, {"password"}}, at \in {"end", "update"} : Accts!Write(h, columns, at)
  BY DEF Accts!WriteAccount, Accts!SetPassword
<1>2. edit[h].at \notin {"read", "commit"} /\ Accts!TypeOK /\ lock' = lock /\ Accts!Free
  BY <1>1 DEF Accts!WriteAccount, Accts!SetPassword, Accts!Write, EditInv
<1>3. /\ edit' \in [Handlers -> Accts!Job] /\ edit'[h].at \notin {"read", "commit"}
      /\ \A g \in Handlers \ {h} : edit'[g] = edit[g]
  BY <1>1, <1>2, EditGo DEF Accts!Write, Accts!Stages
<1>4. CASE account = None
  BY <1>1, <1>2, <1>3, <1>4, EditQuiet DEF Accts!Write
<1>5. CASE account # None
  <2>1. account \in Accts!User /\ last = account
    BY <1>5 DEF EditInv, Accts!TypeOK, Accts!EditsAreWhole
  <2>2. account' = Accts!Set(account, h, columns, None) /\ last' = Accts!Set(last, h, columns, None)
    BY <1>1, <1>5 DEF Accts!Write
  <2>3. account' \in Accts!User /\ last' = account' /\ account'.roles = account.roles
    BY <2>1, <2>2, EditSet
  <2>4. Accts!TypeOK' /\ Accts!EditsAreWhole'
    BY <1>2, <1>3, <2>3 DEF Accts!TypeOK, Accts!EditsAreWhole
  <2>5. \A g \in Handlers : edit'[g].at \notin {"read", "commit"}
    BY <1>2, <1>3, <1>5 DEF EditInv, LockHeld, Accts!Free, Accts!AccountsAssumption
  <2>6. LockHeld' /\ ReadsHold'
    BY <1>2, <2>5 DEF LockHeld, ReadsHold, Accts!Free, Accts!AccountsAssumption
  <2> QED BY <2>4, <2>6 DEF EditInv
<1> QED BY <1>4, <1>5

LEMMA EditRow ==
  ASSUME NEW h \in Handlers, Accts!AccountsAssumption, EditInv, Accts!UpdateRow(h)
  PROVE  EditInv'
<1>1. /\ Accts!TypeOK /\ lock = None /\ UNCHANGED <<account, last>>
      /\ lock' = (IF account = None THEN None ELSE h)
  BY DEF EditInv, Accts!UpdateRow, Accts!Free
<1>2. /\ edit' \in [Handlers -> Accts!Job] /\ edit'[h].at = "read"
      /\ \A g \in Handlers \ {h} : edit'[g] = edit[g]
  BY <1>1, EditGo DEF Accts!UpdateRow, Accts!Stages
<1>3. Accts!TypeOK' /\ Accts!EditsAreWhole'
  BY <1>1, <1>2 DEF EditInv, Accts!TypeOK, Accts!EditsAreWhole
<1>4. LockHeld'
  BY <1>1, <1>2 DEF EditInv, LockHeld, Accts!AccountsAssumption
<1>5. ReadsHold'
  BY <1>1, <1>2 DEF EditInv, ReadsHold
<1> QED BY <1>3, <1>4, <1>5 DEF EditInv

LEMMA EditRoles ==
  ASSUME NEW h \in Handlers, Accts!AccountsAssumption, EditInv, Accts!ReadRoles(h)
  PROVE  EditInv'
<1>1. Accts!TypeOK /\ UNCHANGED <<account, lock, last>> /\ edit[h].at = "read"
  BY DEF EditInv, Accts!ReadRoles
<1>2. /\ edit' \in [Handlers -> Accts!Job] /\ edit'[h].at \in {"commit", "end"}
      /\ account # None => edit'[h].at = "commit" /\ edit'[h].had = account.roles
      /\ \A g \in Handlers \ {h} : edit'[g] = edit[g]
  <2>1. CASE account = None
    <3>1. PICK at \in {"commit", "end"} : Accts!Go(h, at)
      BY <2>1 DEF Accts!ReadRoles
    <3> QED BY <1>1, <2>1, <3>1, EditGo DEF Accts!Stages
  <2>2. CASE account # None
    <3> DEFINE j == [at |-> "commit", sent |-> edit[h].sent,
                     roleIds |-> edit[h].roleIds, had |-> account.roles]
    <3>1. edit[h] \in Accts!Job /\ account.roles \in SUBSET RoleIds
      BY <1>1, <2>2 DEF Accts!TypeOK, Accts!User
    <3>2. j \in Accts!Job /\ j.at = "commit" /\ j.had = account.roles
      BY <3>1 DEF Accts!Job, Accts!Stages
    <3>3. edit' = [edit EXCEPT ![h] = j]
      BY <2>2 DEF Accts!ReadRoles
    <3> HIDE DEF j
    <3> QED BY <1>1, <3>2, <3>3, EditPut
  <2> QED BY <2>1, <2>2
<1>3. Accts!TypeOK' /\ Accts!EditsAreWhole'
  BY <1>1, <1>2 DEF EditInv, Accts!TypeOK, Accts!EditsAreWhole
<1>5. LockHeld'
  BY <1>1, <1>2 DEF EditInv, LockHeld, Accts!AccountsAssumption
<1>6. ReadsHold'
  BY <1>1, <1>2 DEF EditInv, ReadsHold
<1> QED BY <1>3, <1>5, <1>6 DEF EditInv

\* The request is over and gives the row back, which it may have written.
Over(h) ==
    /\ lock' = (IF lock = h THEN None ELSE lock) /\ Accts!Go(h, "end")
    /\ \/ UNCHANGED <<account, last>>
       \/ account # None /\ lock = h /\ account' \in Accts!User /\ last' = account'

LEMMA EditEnd ==
  ASSUME NEW h \in Handlers, Accts!AccountsAssumption, EditInv, Over(h)
  PROVE  EditInv'
<1>1. /\ Accts!TypeOK /\ Accts!Go(h, "end")
      /\ lock = h => lock' = None
      /\ lock # h => lock' = lock
      /\ \/ account' = account /\ last' = last
         \/ account # None /\ lock = h /\ account' \in Accts!User /\ last' = account'
  BY DEF EditInv, Over
<1>2. /\ edit' \in [Handlers -> Accts!Job] /\ edit'[h].at = "end"
      /\ \A g \in Handlers \ {h} : edit'[g] = edit[g]
  BY <1>1, EditGo DEF Accts!Stages
<1>3. Accts!TypeOK'
  BY <1>1, <1>2 DEF Accts!TypeOK
<1>4. Accts!EditsAreWhole'
  BY <1>1 DEF EditInv, Accts!EditsAreWhole
<1>5. LockHeld'
  BY <1>1, <1>2 DEF EditInv, LockHeld, Accts!AccountsAssumption
<1>6. ReadsHold'
  <2>1. CASE account' = account
    BY <1>2, <2>1 DEF EditInv, ReadsHold
  <2>2. CASE account # None /\ lock = h
    <3>1. \A g \in Handlers : edit'[g].at # "commit"
      BY <1>2, <2>2 DEF EditInv, LockHeld
    <3> QED BY <3>1 DEF ReadsHold
  <2> QED BY <1>1, <2>1, <2>2
<1> QED BY <1>3, <1>4, <1>5, <1>6 DEF EditInv

\* What goes is what was read, which is what there is; what stays is what was sent.
LEMMA EditCommit ==
  ASSUME NEW h \in Handlers, Accts!AccountsAssumption, EditInv, Accts!Commit(h)
  PROVE  EditInv'
<1>1. lock' = (IF lock = h THEN None ELSE lock) /\ Accts!Go(h, "end") /\ edit[h].at = "commit"
  BY DEF Accts!Commit
<1>2. CASE account = None
  <2>1. Over(h)
    BY <1>2 DEF Accts!Commit, Over
  <2> QED BY <2>1, EditEnd
<1>3. CASE account # None
  <2> DEFINE columns == edit[h].sent \ {"password"}
  <2>1. lock = h /\ account \in Accts!User /\ last = account
    BY <1>1, <1>3 DEF EditInv, LockHeld, Accts!TypeOK, Accts!EditsAreWhole
  <2>2. account' = Accts!Set(account, h, columns, Accts!NewRoles(h)) /\ last' = Accts!Set(last, h, columns, edit[h].roleIds)
    BY <1>3 DEF Accts!Commit
  <2>3. edit[h].roleIds \in (SUBSET RoleIds) \cup {None}
    BY DEF EditInv, Accts!TypeOK, Accts!Job
  <2>4. Accts!NewRoles(h) = edit[h].roleIds
    <3>1. edit[h].roleIds # None => edit[h].had = account.roles
      BY <1>1, <1>3 DEF EditInv, ReadsHold
    <3> QED BY <3>1 DEF Accts!NewRoles
  <2> HIDE DEF columns
  <2>5. account' \in Accts!User /\ last' = account'
    BY <2>1, <2>2, <2>3, <2>4, EditSet
  <2>6. Over(h)
    BY <1>1, <1>3, <2>1, <2>5 DEF Over
  <2> QED BY <2>6, EditEnd
<1> QED BY <1>2, <1>3

LEMMA EditDelete == ASSUME Accts!AccountsAssumption, EditInv, Accts!Delete PROVE EditInv'
<1>1. account' = None /\ UNCHANGED <<lock, edit, last>> /\ lock = None
  BY DEF Accts!Delete, Accts!Free
<1>2. Accts!TypeOK' /\ Accts!EditsAreWhole' /\ ReadsHold'
  BY <1>1 DEF EditInv, Accts!TypeOK, Accts!EditsAreWhole, ReadsHold
<1>3. LockHeld'
  BY <1>1 DEF EditInv, LockHeld, Accts!AccountsAssumption
<1> QED BY <1>2, <1>3 DEF EditInv

LEMMA EditNext == ASSUME Accts!AccountsAssumption, EditInv, [Accts!Next]_Accts!vars PROVE EditInv'
<1>1. CASE UNCHANGED Accts!vars
  BY <1>1 DEF Accts!vars, EditInv, Accts!TypeOK, Accts!EditsAreWhole, LockHeld, ReadsHold
<1>2. CASE Accts!Delete
  BY <1>2, EditDelete
<1>3. ASSUME NEW h \in Handlers,
             \/ \E sent \in SUBSET Accts!Profile : Accts!PutAccount(h, sent)
             \/ \E sent \in SUBSET Accts!Columns, roleIds \in (SUBSET RoleIds) \cup {None} : Accts!PutUser(h, sent, roleIds)
             \/ Accts!FindAccount(h) \/ Accts!FindUser(h)
      PROVE  EditInv'
  BY <1>3, EditReads
<1>4. ASSUME NEW h \in Handlers,
             \/ Accts!WriteAccount(h) \/ Accts!SetPassword(h) \/ Accts!UpdateRow(h)
             \/ Accts!ReadRoles(h) \/ Accts!Commit(h)
      PROVE  EditInv'
  BY <1>4, EditWrite, EditRow, EditRoles, EditCommit
<1>5. ASSUME NEW h \in Handlers, Accts!Fail(h) PROVE EditInv'
  <2>1. Over(h)
    BY <1>5 DEF Accts!Fail, Over
  <2> QED BY <2>1, EditEnd
<1> QED BY <1>1, <1>2, <1>3, <1>4, <1>5 DEF Accts!Next

-----------------------------------------------------------------------------
(* The parts together.  A step of PartsNext is a step of one of them, and the *)
(* others do not move.                                                        *)

LEMMA Steps ==
  ASSUME [PartsNext]_<<part, vars, deptVars, dictVars, acctVars>>
  PROVE  /\ [Next]_vars
         /\ Depts!Next \/ UNCHANGED deptVars
         /\ Dicts!Next \/ UNCHANGED dictVars
         /\ Accts!Next \/ UNCHANGED acctVars
  BY DEF PartsNext

LEMMA DeptAlways == PartsSpec => []DeptInv
<1>1. PartsInit => DeptInv
  BY DeptInit, PartsAssumption DEF PartsInit
<1>2. DeptInv /\ [PartsNext]_<<part, vars, deptVars, dictVars, acctVars>> => DeptInv'
  BY Steps, DeptNext, PartsAssumption DEF deptVars, Depts!vars
<1> QED BY <1>1, <1>2, PTL DEF PartsSpec

LEMMA DictAlways == PartsSpec => []DictInv
<1>1. PartsInit => DictInv
  BY DictInit, PartsAssumption DEF PartsInit
<1>2. DictInv /\ [PartsNext]_<<part, vars, deptVars, dictVars, acctVars>> => DictInv'
  BY Steps, DictNext, PartsAssumption DEF dictVars, Dicts!vars
<1> QED BY <1>1, <1>2, PTL DEF PartsSpec

\* PathsHold: for any number of departments, handlers and any length of paths,
\* unless two edits overlapped or a department was put below itself, the paths
\* say of every department the same as the parents do (create, update, delete).
THEOREM PathsHold == PartsSpec => []PathsFollowParents
<1>1. DeptInv => PathsFollowParents
  BY DEF DeptInv, TreeOK, PathsFollowParents, Depts!PathsFollowParents
<1> QED BY <1>1, DeptAlways, PTL

\* UsersSound: for any number of handlers, departments, users and names, no user
\* is in a department that is gone and no two users have one name (create,
\* register, update, delete).
THEOREM UsersSound == PartsSpec => []UsersAreSound
<1>1. DeptInv => UsersAreSound
  BY DEF DeptInv, UsersAreSound
<1> QED BY <1>1, DeptAlways, PTL

\* NamesApart: for any number of requests and any values, two types have one
\* name only if one was written by a request that overlapped another (validate).
THEOREM NamesApart == PartsSpec => []NamesDiffer
<1>1. DictInv => NamesDiffer
  BY DEF DictInv, NamesDiffer
<1> QED BY <1>1, DictAlways, PTL

\* OwnValues: for any number of requests and any values, a type can be saved with
\* the values it has unless two were written at once (operateId, validate).
THEOREM OwnValues == PartsSpec => []OwnValuesPass
<1>1. DictInv => OwnValuesPass
  BY DEF DictInv, OwnValuesPass
<1> QED BY <1>1, DictAlways, PTL

\* WholeEdits: for any number of requests and any roles, the roles are those
\* the last request that sent some asked for, and every column is what was
\* written to it last (update, updateAccountInfo, forceUpdatePassword).
THEOREM WholeEdits == PartsSpec => []EditsAreWhole
<1>1. PartsInit => EditInv
  BY EditInit, PartsAssumption DEF PartsInit
<1>2. EditInv /\ [PartsNext]_<<part, vars, deptVars, dictVars, acctVars>> => EditInv'
  BY Steps, EditNext, PartsAssumption DEF acctVars, Accts!vars
<1>3. EditInv => EditsAreWhole
  BY DEF EditInv, EditsAreWhole
<1> QED BY <1>1, <1>2, <1>3, PTL DEF PartsSpec

\* NothingLeftBehind: for any table of menus and any number of handlers, a delete
\* no other write came between leaves no row whose parent it took, unless that
\* parent was a permission, and every row keeps its type (delete, findChildMenus).
THEOREM NothingLeftBehind ==
  PartsSpec => []TypeOK /\ [][\A h \in Handlers : Deletes(h) => LeavesNoChild]_vars
<1>1. PartsInit => MenuInv
  BY MenuInit DEF PartsInit
<1>2. MenuInv /\ [PartsNext]_<<part, vars, deptVars, dictVars, acctVars>> => MenuInv'
  BY Steps, MenuNext
<1>3. MenuInv /\ [PartsNext]_<<part, vars, deptVars, dictVars, acctVars>>
        => [\A h \in Handlers : Deletes(h) => LeavesNoChild]_vars
  BY Steps, NoneLeft
<1>4. MenuInv => TypeOK
  BY DEF MenuInv
<1> QED BY <1>1, <1>2, <1>3, <1>4, PTL DEF PartsSpec
=============================================================================
