--------------------------- MODULE PresenceProofs ---------------------------
(***************************************************************************)
(* Proofs about Presence for every number of streams, tokens, users and    *)
(* instances, and every set of operations.                                 *)
(***************************************************************************)
EXTENDS Presence, TLAPS, FiniteSetTheorems

\* A stream that was opened has a token and an instance.
Known == \A c \in Conns : conn[c] = NewStream \/ (conn[c].tok \in Tokens /\ conn[c].inst \in Insts)

TypeInv == TypeOK /\ Known

\* No addOnlineUser of the token is about to SET its key.
NoAdd(t) == \A c \in Conns : conn[c].tok = t => conn[c].add # "set"

\* The tokens that ended calmly, and those about to.
Gone == \A t \in expelled : t \notin rows /\ t \notin online /\ ending[t] = "no" /\ NoAdd(t)
Going == \A t \in Tokens : ending[t] = "calm" => t \notin online /\ NoAdd(t)

OutInv == Gone /\ Going

-----------------------------------------------------------------------------
LEMMA NewStreamOK == NewStream \in Streams
  BY DEF NewStream, Streams, Stages, Adds, Removes

LEMMA Counts == \A S \in SUBSET Tokens : Cardinality(S) \in 0..Cardinality(Tokens)
  BY PresenceAssumption, FS_Subset, FS_CardinalityType DEF PresenceAssumption

LEMMA InitTypeInv == Init => TypeInv
  BY NewStreamOK DEF Init, TypeInv, TypeOK, Known, Windows

LEMMA CountCallOK ==
  ASSUME NEW i \in Insts, TypeOK, CountCall(i)
  PROVE  window' \in [Insts -> Windows] /\ asked' \in SUBSET Insts
  BY DEF TypeOK, CountCall, Windows

\* The streams of C are closed, on the one instance i.
LEMMA ClosedOK ==
  ASSUME NEW C \in SUBSET Conns, NEW i \in Insts, TypeInv, Closed(C, i),
         \A c \in C : conn[c] # NewStream
  PROVE  /\ conn' \in [Conns -> Streams]
         /\ Known'
         /\ replyMap' \in [Insts -> [Users -> Conns \cup {None}]]
         /\ clients' \in [Insts -> SUBSET Conns]
<1>1. ASSUME NEW c \in Conns
      PROVE  /\ conn'[c] \in Streams
             /\ conn'[c] = NewStream \/ (conn'[c].tok \in Tokens /\ conn'[c].inst \in Insts)
  <2> DEFINE s == [conn[c] EXCEPT !.at = "closed", !.remove = "find"]
  <2>1. conn[c] \in Streams
    BY DEF TypeInv, TypeOK
  <2>2. s \in Streams /\ s.tok = conn[c].tok /\ s.inst = conn[c].inst
    BY <2>1 DEF Streams, Stages, Removes
  <2>3. conn'[c] = IF c \in C THEN s ELSE conn[c]
    BY DEF Closed
  <2> HIDE DEF s
  <2>4. conn[c] = NewStream \/ (conn[c].tok \in Tokens /\ conn[c].inst \in Insts)
    BY DEF TypeInv, Known
  <2> QED BY <2>1, <2>2, <2>3, <2>4
<1>2. conn' \in [Conns -> Streams] /\ Known'
  BY <1>1 DEF Closed, Known
<1>3. replyMap' \in [Insts -> [Users -> Conns \cup {None}]]
  BY DEF Closed, TypeInv, TypeOK
<1>4. clients' \in [Insts -> SUBSET Conns]
  BY DEF Closed, TypeInv, TypeOK
<1> QED BY <1>2, <1>3, <1>4

\* A stream that was opened gets on with a call.
LEMMA CallOK ==
  ASSUME NEW c \in Conns, NEW add \in Adds, NEW remove \in Removes, TypeInv,
         conn[c] # NewStream,
         \/ conn' = [conn EXCEPT ![c].add = add]
         \/ conn' = [conn EXCEPT ![c].remove = remove]
  PROVE  conn' \in [Conns -> Streams] /\ Known'
<1> DEFINE s == conn'[c]
<1>1. s \in Streams /\ s.tok = conn[c].tok /\ s.inst = conn[c].inst
  <2>1. conn \in [Conns -> Streams] /\ conn[c] \in Streams
    BY DEF TypeInv, TypeOK
  <2>2. s = [conn[c] EXCEPT !.add = add] \/ s = [conn[c] EXCEPT !.remove = remove]
    BY <2>1
  <2> HIDE DEF s
  <2>3. CASE s = [conn[c] EXCEPT !.add = add]
    BY <2>1, <2>3 DEF Streams
  <2>4. CASE s = [conn[c] EXCEPT !.remove = remove]
    BY <2>1, <2>4 DEF Streams
  <2> QED BY <2>2, <2>3, <2>4
<1>2. \A d \in Conns \ {c} : conn'[d] = conn[d]
  BY DEF TypeInv, TypeOK
<1>3. conn' \in [Conns -> Streams]
  BY <1>1, <1>2 DEF TypeInv, TypeOK
<1>4. s.tok \in Tokens /\ s.inst \in Insts
  BY <1>1 DEF TypeInv, Known
<1> QED BY <1>2, <1>3, <1>4 DEF TypeInv, Known

LEMMA CallTypeInv ==
  ASSUME NEW c \in Conns, TypeInv, CallStep(c) \/ Fail(c)
  PROVE  TypeInv'
<1> USE DEF sse, count, past
<1>1. conn[c] # NewStream
  BY DEF CallStep, AddFind, AddSet, RemoveFind, RemoveDel, Fail, NewStream
<1>2. conn[c].tok \in Tokens /\ conn[c].inst \in Insts
  BY <1>1 DEF TypeInv, Known
<1>3. conn' \in [Conns -> Streams] /\ Known'
  <2>1. CASE AddFind(c)
    BY <2>1, <1>1, CallOK DEF AddFind, Adds, Removes
  <2>2. CASE AddSet(c)
    BY <2>2, <1>1, CallOK DEF AddSet, Adds, Removes
  <2>3. CASE RemoveFind(c)
    BY <2>3, <1>1, CallOK DEF RemoveFind, Adds, Removes
  <2>4. CASE RemoveDel(c)
    BY <2>4, <1>1, CallOK DEF RemoveDel, Adds, Removes
  <2>5. CASE Fail(c)
    BY <2>5, <1>1, CallOK DEF Fail, Adds, Removes
  <2> QED BY <2>1, <2>2, <2>3, <2>4, <2>5 DEF CallStep
<1>4. window' \in [Insts -> Windows] /\ asked' \in SUBSET Insts
  BY <1>2, CountCallOK
     DEF TypeInv, TypeOK, CallStep, AddFind, AddSet, RemoveFind, RemoveDel, Fail
<1>5. ending' \in [Tokens -> {"no", "calm", "raced"}] /\ online' \in SUBSET Tokens
  BY <1>2 DEF TypeInv, TypeOK, CallStep, AddFind, AddSet, RemoveFind, RemoveDel, Fail
<1>6. expelled' \in SUBSET Tokens /\ alone' \in SUBSET Conns /\ unheard' \in SUBSET Insts
  BY <1>2 DEF TypeInv, TypeOK, CallStep, AddFind, AddSet, RemoveFind, RemoveDel, Fail
<1>7. UNCHANGED <<rows, replyMap, clients, counted, told>>
  BY DEF CallStep, AddFind, AddSet, RemoveFind, RemoveDel, Fail
<1> QED BY <1>3, <1>4, <1>5, <1>6, <1>7 DEF TypeInv, TypeOK

LEMMA StreamTypeInv ==
  ASSUME NEW c \in Conns, TypeInv,
         \/ Disconnect(c)
         \/ \E t \in Tokens, i \in Insts : Connect(c, t, i) \/ ConnectAborted(c, t, i)
  PROVE  TypeInv'
<1> USE DEF TypeInv, TypeOK
<1>1. CASE Disconnect(c)
  <2>1. conn[c] # NewStream
    BY <1>1 DEF Disconnect, Open, NewStream
  <2>2. conn[c].inst \in Insts /\ Closed({c}, conn[c].inst)
    BY <1>1, <2>1 DEF Disconnect, Known
  <2> DEFINE C == {c}
  <2>3. C \in SUBSET Conns /\ Closed(C, conn[c].inst) /\ \A d \in C : conn[d] # NewStream
    BY <2>1, <2>2
  <2> HIDE DEF C
  <2>4. /\ conn' \in [Conns -> Streams]
        /\ Known'
        /\ replyMap' \in [Insts -> [Users -> Conns \cup {None}]]
        /\ clients' \in [Insts -> SUBSET Conns]
    BY <2>2, <2>3, ClosedOK
  <2> QED BY <1>1, <2>4 DEF Disconnect, count, past
<1>2. ASSUME NEW t \in Tokens, NEW i \in Insts, NEW at \in {"open", "aborted"}, Start(c, t, i, at)
      PROVE  TypeInv'
  <2>1. [at |-> at, tok |-> t, inst |-> i, add |-> "find", remove |-> "no"] \in Streams
    BY DEF Streams, Stages, Adds, Removes
  <2>2. conn' \in [Conns -> Streams] /\ Known'
    BY <1>2, <2>1 DEF Start, Known
  <2>3. UserOf[t] \in Users
    BY DEF Users
  <2>4. replyMap' \in [Insts -> [Users -> Conns \cup {None}]]
    BY <1>2, <2>3 DEF Start
  <2>5. clients' \in [Insts -> SUBSET Conns] /\ alone' \in SUBSET Conns
    BY <1>2 DEF Start
  <2> QED BY <1>2, <2>2, <2>4, <2>5 DEF Start, count
<1> QED BY <1>1, <1>2 DEF Connect, ConnectAborted

LEMMA InstTypeInv ==
  ASSUME NEW i \in Insts, TypeInv, CountStep(i) \/ Shutdown(i) \/ Exit(i)
  PROVE  TypeInv'
<1> USE DEF TypeInv, TypeOK
<1>1. CASE TimerEnds(i)
  BY <1>1 DEF TimerEnds, Windows, sse, past, Known
<1>2. CASE ReadKeys(i)
  BY <1>2, Counts DEF ReadKeys, sse, Known
<1>3. CASE Send(i)
  BY <1>3 DEF Send, sse, past, Known
<1>4. CASE Shutdown(i)
  <2> DEFINE C == {c \in On(i) : Open(c) /\ replyMap[i][Owner(c)] = c}
  <2>1. C \in SUBSET Conns /\ \A c \in C : conn[c] # NewStream
    BY DEF On, Open, NewStream
  <2>2. Closed(C, i)
    BY <1>4 DEF Shutdown
  <2> HIDE DEF C
  <2>3. /\ conn' \in [Conns -> Streams]
        /\ Known'
        /\ replyMap' \in [Insts -> [Users -> Conns \cup {None}]]
        /\ clients' \in [Insts -> SUBSET Conns]
    BY <2>1, <2>2, ClosedOK
  <2> QED BY <1>4, <2>3 DEF Shutdown, count, past
<1>5. CASE Exit(i)
  <2>1. ASSUME NEW c \in Conns
        PROVE  /\ conn'[c] \in Streams
               /\ conn'[c] = NewStream \/ (conn'[c].tok \in Tokens /\ conn'[c].inst \in Insts)
    BY <1>5, PresenceAssumption
       DEF Exit, On, Known, NewStream, Streams, Stages, Adds, Removes, PresenceAssumption
  <2>2. conn' \in [Conns -> Streams] /\ Known'
    BY <1>5, <2>1 DEF Exit, Known
  <2> QED BY <1>5, <2>2 DEF Exit, past, Windows
<1> QED BY <1>1, <1>2, <1>3, <1>4, <1>5 DEF CountStep

LEMMA EndTypeInv ==
  ASSUME TypeInv,
         \/ \E t \in Tokens : RemoveToken(t) \/ RemoveRow(t)
         \/ \E u \in Users : DeleteUser(u)
  PROVE  TypeInv'
<1> USE DEF TypeInv, TypeOK, Known, sse, count, past
<1>1. ASSUME NEW t \in Tokens, RemoveToken(t) PROVE TypeInv'
  BY <1>1 DEF RemoveToken
<1>2. ASSUME NEW t \in Tokens, RemoveRow(t) PROVE TypeInv'
  BY <1>2 DEF RemoveRow
<1>3. ASSUME NEW u \in Users, DeleteUser(u) PROVE TypeInv'
  BY <1>3 DEF DeleteUser
<1> QED BY <1>1, <1>2, <1>3

LEMMA NextTypeInv == TypeInv /\ [Next]_vars => TypeInv'
<1> SUFFICES ASSUME TypeInv, [Next]_vars PROVE TypeInv'
  OBVIOUS
<1>1. CASE Next
  BY <1>1, CallTypeInv, StreamTypeInv, InstTypeInv, EndTypeInv DEF Next
<1>2. CASE UNCHANGED vars
  BY <1>2 DEF vars, sse, count, past, TypeInv, TypeOK, Known
<1> QED BY <1>1, <1>2

\* TypeCorrect: whatever streams, tokens and instances there are, every variable
\* stays in its type, the count sent is that of a set of tokens, and a stream
\* that was opened keeps its token and its instance.
THEOREM TypeCorrect == Spec => []TypeOK
<1>1. TypeInv => TypeOK
  BY DEF TypeInv
<1> QED BY <1>1, InitTypeInv, NextTypeInv, PTL DEF Spec

-----------------------------------------------------------------------------
\* OutInv

LEMMA InitOutInv == Init => OutInv
  BY DEF Init, OutInv, Gone, Going

\* A step that expels nobody and begins no removal, adds no key and brings no
\* addOnlineUser to its SET.
LEMMA OutQuiet ==
  ASSUME TypeInv, OutInv, UNCHANGED <<ending, expelled>>,
         rows' \subseteq rows, online' \subseteq online,
         \A c \in Conns : conn'[c].add = "set" =>
            conn[c].add = "set" /\ conn'[c].tok = conn[c].tok
  PROVE  OutInv'
  BY DEF OutInv, Gone, Going, NoAdd, TypeInv, TypeOK

LEMMA CallOutInv ==
  ASSUME NEW c \in Conns, TypeInv, OutInv, CallStep(c) \/ Fail(c)
  PROVE  OutInv'
<1> DEFINE t == conn[c].tok
<1>1. ASSUME NEW d \in Conns \ {c}, CallStep(c) \/ Fail(c) PROVE conn'[d] = conn[d]
  BY <1>1 DEF CallStep, AddFind, AddSet, RemoveFind, RemoveDel, Fail, TypeInv, TypeOK
<1>2. CASE AddFind(c)
  <2>1. t \in Tokens
    BY <1>2 DEF AddFind, TypeInv, Known, NewStream
  <2>2. /\ conn'[c].tok = t
        /\ conn'[c].add = "set" => t \in rows /\ ending'[t] # "calm"
        /\ \A s \in Tokens \ {t} : ending'[s] = ending[s]
        /\ ending'[t] \in {ending[t], "raced"}
        /\ ending'[t] = ending[t] \/ t \in rows
    BY <1>2, <2>1 DEF AddFind, TypeInv, TypeOK, Streams
  <2>3. UNCHANGED <<rows, online, expelled>> /\ expelled \in SUBSET Tokens
    BY <1>2 DEF AddFind, past, TypeInv, TypeOK
  <2>4. ASSUME NEW s \in Tokens, s = t => conn'[c].add # "set", NoAdd(s) PROVE NoAdd(s)'
    BY <2>4, <2>2, <1>1, <1>2 DEF NoAdd, CallStep
  <2>5. Gone'
    BY <2>2, <2>3, <2>4 DEF OutInv, Gone
  <2>6. Going'
    BY <2>2, <2>3, <2>4 DEF OutInv, Going
  <2> QED BY <2>5, <2>6 DEF OutInv
<1>3. CASE AddSet(c)
  <2>1. t \in Tokens
    BY <1>3 DEF AddSet, TypeInv, Known, NewStream
  <2>2. t \notin expelled /\ ending[t] # "calm"
    BY <1>3, <2>1 DEF AddSet, OutInv, Gone, Going, NoAdd
  <2>3. conn'[c].add = "done"
    BY <1>3 DEF AddSet, TypeInv, TypeOK, Streams
  <2>4. UNCHANGED <<rows, ending, expelled>> /\ online' = online \cup {t}
    BY <1>3 DEF AddSet
  <2>5. \A s \in Tokens : NoAdd(s) => NoAdd(s)'
    BY <2>3, <1>1, <1>3 DEF NoAdd, CallStep
  <2> QED BY <2>2, <2>4, <2>5 DEF OutInv, Gone, Going, TypeInv, TypeOK
<1>4. CASE RemoveFind(c) \/ RemoveDel(c) \/ Fail(c)
  <2>1. conn'[c].add = "set" => conn[c].add = "set" /\ conn'[c].tok = conn[c].tok
    BY <1>4 DEF RemoveFind, RemoveDel, Fail, TypeInv, TypeOK, Streams
  <2>2. UNCHANGED <<ending, expelled, rows>> /\ online' \subseteq online
    BY <1>4 DEF RemoveFind, RemoveDel, Fail, past
  <2> QED BY <2>1, <2>2, <1>1, <1>4, OutQuiet DEF CallStep
<1> QED BY <1>2, <1>3, <1>4 DEF CallStep

LEMMA StreamOutInv ==
  ASSUME NEW c \in Conns, TypeInv, OutInv,
         \/ Disconnect(c)
         \/ \E t \in Tokens, i \in Insts : Connect(c, t, i) \/ ConnectAborted(c, t, i)
  PROVE  OutInv'
<1>1. CASE Disconnect(c)
  <2>1. \A d \in Conns : conn'[d].add = conn[d].add /\ conn'[d].tok = conn[d].tok
    BY <1>1 DEF Disconnect, Closed, TypeInv, TypeOK, Streams
  <2> QED BY <1>1, <2>1, OutQuiet DEF Disconnect, past
<1>2. ASSUME NEW t \in Tokens, NEW i \in Insts, NEW at \in {"open", "aborted"}, Start(c, t, i, at)
      PROVE  OutInv'
  <2>1. conn'[c].add = "find" /\ \A d \in Conns \ {c} : conn'[d] = conn[d]
    BY <1>2 DEF Start, TypeInv, TypeOK
  <2> QED BY <1>2, <2>1, OutQuiet DEF Start
<1> QED BY <1>1, <1>2 DEF Connect, ConnectAborted

LEMMA InstOutInv ==
  ASSUME NEW i \in Insts, TypeInv, OutInv, CountStep(i) \/ Shutdown(i) \/ Exit(i)
  PROVE  OutInv'
<1>1. CASE CountStep(i)
  BY <1>1, OutQuiet DEF CountStep, TimerEnds, ReadKeys, Send, past
<1>2. CASE Shutdown(i)
  <2>1. \A d \in Conns : conn'[d].add = conn[d].add /\ conn'[d].tok = conn[d].tok
    BY <1>2 DEF Shutdown, Closed, TypeInv, TypeOK, Streams
  <2> QED BY <1>2, <2>1, OutQuiet DEF Shutdown, past
<1>3. CASE Exit(i)
  <2>1. \A d \in Conns : conn'[d].add = "set" => conn'[d] = conn[d]
    BY <1>3 DEF Exit, TypeInv, TypeOK, Streams
  <2> QED BY <1>3, <2>1, OutQuiet DEF Exit, past
<1> QED BY <1>1, <1>2, <1>3

LEMMA EndOutInv ==
  ASSUME TypeInv, OutInv,
         \/ \E t \in Tokens : RemoveToken(t) \/ RemoveRow(t)
         \/ \E u \in Users : DeleteUser(u)
  PROVE  OutInv'
<1> USE DEF OutInv, TypeInv, TypeOK
<1>1. ASSUME NEW t \in Tokens, RemoveToken(t) PROVE OutInv'
  <2>1. UNCHANGED <<conn, rows, expelled>> /\ online' = online \ {t}
    BY <1>1 DEF RemoveToken
  <2>2. /\ t \notin expelled
        /\ \A s \in Tokens \ {t} : ending'[s] = ending[s]
        /\ ending'[t] = "calm" => NoAdd(t)
    BY <1>1 DEF RemoveToken, Gone, NoAdd, With
  <2>3. \A s \in Tokens : NoAdd(s) => NoAdd(s)'
    BY <2>1 DEF NoAdd
  <2> QED BY <2>1, <2>2, <2>3 DEF Gone, Going
<1>2. ASSUME NEW t \in Tokens, RemoveRow(t) PROVE OutInv'
  <2>1. UNCHANGED <<conn, online>> /\ rows' = rows \ {t}
    BY <1>2 DEF RemoveRow
  <2>2. /\ ending'[t] = "no" /\ \A s \in Tokens \ {t} : ending'[s] = ending[s]
        /\ \A s \in expelled' : s \in expelled \/ (s = t /\ ending[t] = "calm")
    BY <1>2 DEF RemoveRow
  <2>3. \A s \in Tokens : NoAdd(s) => NoAdd(s)'
    BY <2>1 DEF NoAdd
  <2> QED BY <2>1, <2>2, <2>3 DEF Gone, Going
<1>3. ASSUME NEW u \in Users, DeleteUser(u) PROVE OutInv'
  BY <1>3, OutQuiet DEF DeleteUser, past
<1> QED BY <1>1, <1>2, <1>3

LEMMA NextOutInv == TypeInv /\ OutInv /\ [Next]_vars => OutInv'
<1> SUFFICES ASSUME TypeInv, OutInv, [Next]_vars PROVE OutInv'
  OBVIOUS
<1>1. CASE Next
  BY <1>1, CallOutInv, StreamOutInv, InstOutInv, EndOutInv DEF Next
<1>2. CASE UNCHANGED vars
  BY <1>2, OutQuiet DEF vars, past
<1> QED BY <1>1, <1>2

\* ExpelledOffline: the key of a token that was logged out, kicked, refreshed or
\* swept is gone for good, unless an addOnlineUser of the token was between its
\* two calls, for any number of streams, tokens and instances.
THEOREM ExpelledOffline == Spec => []ExpelledStaysOffline
<1>1. TypeInv /\ OutInv => ExpelledStaysOffline
  BY DEF OutInv, Gone, ExpelledStaysOffline
<1> QED BY <1>1, InitTypeInv, NextTypeInv, InitOutInv, NextOutInv, PTL DEF Spec

-----------------------------------------------------------------------------
\* The streams: what every stream and every list of clients is like.

\* A stream not yet opened has had no step; one that is being removed is shut.
Unopened == \A c \in Conns : conn[c].at = "new" => conn[c] = NewStream
Shut == \A c \in Conns : conn[c].remove # "no" => conn[c].at # "open"

\* An instance has its own streams in its list only.
Places == \A i \in Insts : \A c \in clients[i] : conn[c].inst = i

\* alone says what its name says.
Sole ==
    \A c \in alone : /\ conn[c].tok \in Tokens
                     /\ \A d \in Conns : conn[d].tok = conn[c].tok => d = c

StreamInv == Unopened /\ Shut /\ Places /\ Sole

\* A stream keeps its token and its instance, is not opened again, and is not
\* removed while it is open.
Kept(d) ==
    /\ conn'[d].tok = conn[d].tok /\ conn'[d].inst = conn[d].inst
    /\ conn'[d].at = "new" => conn'[d] = conn[d]
    /\ conn'[d].at = "open" => conn[d].at = "open" /\ conn'[d].remove = conn[d].remove

\* No stream has its key SET in this step, but perhaps those of D.
NoneSet(D) == \A d \in Conns \ D : conn'[d].add = "done" => conn[d].add = "done"

StreamsKept == \A d \in Conns : Kept(d)
ListsKept == \A i \in Insts : clients'[i] \subseteq clients[i]

LEMMA InitStreamInv == Init => StreamInv
<1> SUFFICES ASSUME Init PROVE StreamInv
  OBVIOUS
<1>1. \A c \in Conns : conn[c].remove = "no"
  BY DEF Init, NewStream
<1> QED BY <1>1 DEF Init, StreamInv, Unopened, Shut, Places, Sole

LEMMA KeptStreamInv ==
  ASSUME TypeInv, StreamInv, StreamsKept, ListsKept, UNCHANGED alone
  PROVE  StreamInv'
<1> USE DEF StreamInv, StreamsKept, Kept
<1>1. Unopened'
  BY DEF Unopened
<1>2. Shut'
  BY DEF Shut
<1>3. Places'
  BY DEF Places, ListsKept, TypeInv, TypeOK
<1>4. Sole'
  BY DEF Sole, TypeInv, TypeOK
<1> QED BY <1>1, <1>2, <1>3, <1>4

LEMMA CallKept ==
  ASSUME NEW c \in Conns, TypeInv, StreamInv, CallStep(c) \/ Fail(c)
  PROVE  StreamsKept /\ ListsKept /\ UNCHANGED <<clients, alone>>
<1>1. ASSUME NEW d \in Conns \ {c} PROVE conn'[d] = conn[d]
  BY DEF CallStep, AddFind, AddSet, RemoveFind, RemoveDel, Fail, TypeInv, TypeOK
<1>2. conn[c] \in Streams /\ conn[c].at # "new"
  BY DEF CallStep, AddFind, AddSet, RemoveFind, RemoveDel, Fail, TypeInv, TypeOK,
         StreamInv, Unopened, NewStream
<1>3. /\ conn'[c].tok = conn[c].tok /\ conn'[c].inst = conn[c].inst
      /\ conn'[c].at = conn[c].at
      /\ conn'[c].remove = conn[c].remove \/ conn[c].remove # "no"
  BY <1>2 DEF CallStep, AddFind, AddSet, RemoveFind, RemoveDel, Fail, TypeInv, TypeOK, Streams
<1>4. Kept(c)
  BY <1>2, <1>3 DEF Kept, StreamInv, Shut
<1>5. UNCHANGED <<clients, alone>>
  BY DEF CallStep, AddFind, AddSet, RemoveFind, RemoveDel, Fail, sse, past
<1> QED BY <1>1, <1>4, <1>5 DEF StreamsKept, Kept, ListsKept

LEMMA ClosedKept ==
  ASSUME NEW C \in SUBSET Conns, NEW i \in Insts, TypeInv, Closed(C, i)
  PROVE  StreamsKept /\ ListsKept /\ NoneSet({})
<1>1. ASSUME NEW d \in Conns PROVE Kept(d) /\ conn'[d].add = conn[d].add
  <2>1. conn[d] \in Streams
    BY DEF TypeInv, TypeOK
  <2> QED BY <2>1 DEF Closed, Kept, Streams
<1>2. ListsKept
  BY DEF Closed, ListsKept, TypeInv, TypeOK
<1> QED BY <1>1, <1>2 DEF StreamsKept, NoneSet

\* Disconnect and Shutdown.
LEMMA CloseKept ==
  ASSUME NEW c \in Conns, NEW i \in Insts, TypeInv, Disconnect(c) \/ Shutdown(i)
  PROVE  StreamsKept /\ ListsKept /\ NoneSet({})
<1>1. CASE Disconnect(c)
  <2>1. conn[c].inst \in Insts /\ Closed({c}, conn[c].inst)
    BY <1>1 DEF Disconnect, Open, NewStream, TypeInv, Known
  <2> DEFINE C == {c}
  <2>2. C \in SUBSET Conns /\ Closed(C, conn[c].inst)
    BY <2>1
  <2> HIDE DEF C
  <2> QED BY <2>1, <2>2, ClosedKept
<1>2. CASE Shutdown(i)
  <2> DEFINE C == {d \in On(i) : Open(d) /\ replyMap[i][Owner(d)] = d}
  <2>1. C \in SUBSET Conns /\ Closed(C, i)
    BY <1>2 DEF Shutdown, On
  <2> HIDE DEF C
  <2> QED BY <2>1, ClosedKept
<1> QED BY <1>1, <1>2

LEMMA ExitKept ==
  ASSUME NEW i \in Insts, TypeInv, Exit(i)
  PROVE  /\ StreamsKept /\ ListsKept /\ NoneSet({})
         /\ clients'[i] = {}
         /\ \A j \in Insts \ {i} : clients'[j] = clients[j]
<1>1. ASSUME NEW d \in Conns PROVE Kept(d) /\ (conn'[d].add = "done" => conn[d].add = "done")
  BY DEF Exit, On, Kept, TypeInv, TypeOK
<1>2. clients'[i] = {} /\ \A j \in Insts \ {i} : clients'[j] = clients[j]
  BY DEF Exit, TypeInv, TypeOK
<1> QED BY <1>1, <1>2 DEF StreamsKept, ListsKept, NoneSet

\* A stream is opened.
LEMMA StartFacts ==
  ASSUME NEW c \in Conns, NEW t \in Tokens, NEW i \in Insts, NEW at \in {"open", "aborted"},
         TypeInv, StreamInv, Start(c, t, i, at)
  PROVE  /\ conn[c] = NewStream /\ c \notin alone /\ \A j \in Insts : c \notin clients[j]
         /\ conn'[c].at = at /\ conn'[c].tok = t /\ conn'[c].inst = i
         /\ conn'[c].add = "find" /\ conn'[c].remove = "no"
         /\ \A d \in Conns \ {c} : conn'[d] = conn[d]
         /\ \A j \in Insts : clients'[j] \subseteq clients[j] \cup {c}
         /\ \A j \in Insts \ {i} : clients'[j] = clients[j]
<1>1. conn[c] = NewStream
  BY DEF Start, StreamInv, Unopened
<1>2. c \notin alone /\ \A j \in Insts : c \notin clients[j]
  BY <1>1, PresenceAssumption DEF StreamInv, Sole, Places, NewStream, PresenceAssumption
<1>3. \A d \in Conns : conn'[d] = IF d = c
        THEN [at |-> at, tok |-> t, inst |-> i, add |-> "find", remove |-> "no"] ELSE conn[d]
  BY DEF Start, TypeInv, TypeOK
<1>4. \A j \in Insts : clients'[j] = IF j = i THEN clients[j] \cup {c} ELSE clients[j]
  BY DEF Start, TypeInv, TypeOK
<1>5. /\ conn'[c].at = at /\ conn'[c].tok = t /\ conn'[c].inst = i
      /\ conn'[c].add = "find" /\ conn'[c].remove = "no"
  BY <1>3
<1>6. \A d \in Conns \ {c} : conn'[d] = conn[d]
  BY <1>3
<1>7. /\ \A j \in Insts : clients'[j] \subseteq clients[j] \cup {c}
      /\ \A j \in Insts \ {i} : clients'[j] = clients[j]
  BY <1>4
<1> QED BY <1>1, <1>2, <1>5, <1>6, <1>7

LEMMA StartStreamInv ==
  ASSUME NEW c \in Conns, NEW t \in Tokens, NEW i \in Insts, NEW at \in {"open", "aborted"},
         TypeInv, StreamInv, Start(c, t, i, at)
  PROVE  StreamInv'
<1>1. /\ conn[c] = NewStream /\ c \notin alone /\ \A j \in Insts : c \notin clients[j]
      /\ conn'[c].at = at /\ conn'[c].tok = t /\ conn'[c].inst = i
      /\ conn'[c].add = "find" /\ conn'[c].remove = "no"
      /\ \A d \in Conns \ {c} : conn'[d] = conn[d]
      /\ \A j \in Insts : clients'[j] \subseteq clients[j] \cup {c}
      /\ \A j \in Insts \ {i} : clients'[j] = clients[j]
  BY StartFacts
<1>2. Unopened'
  BY <1>1 DEF Unopened, StreamInv
<1>3. Shut'
  BY <1>1 DEF Shut, StreamInv
<1>4. Places'
  BY <1>1 DEF Places, StreamInv, TypeInv, TypeOK
<1>5. Sole'
  <2>1. alone \subseteq Conns
    BY DEF TypeInv, TypeOK
  <2>2. CASE With(t) = {}
    <3>1. alone' = alone \cup {c} /\ \A d \in Conns : conn[d].tok # t
      BY <2>2 DEF Start, With
    <3> QED BY <1>1, <2>1, <3>1 DEF Sole, StreamInv
  <2>3. CASE With(t) # {}
    <3>1. alone' \subseteq alone /\ \A d \in alone' : conn[d].tok # t
      BY <2>1, <2>3 DEF Start, With
    <3> QED BY <1>1, <2>1, <3>1 DEF Sole, StreamInv
  <2> QED BY <2>2, <2>3
<1> QED BY <1>2, <1>3, <1>4, <1>5 DEF StreamInv

\* The steps that leave the streams, the lists and alone as they are.
LEMMA StillKept ==
  ASSUME TypeInv, UNCHANGED <<conn, clients>>
  PROVE  StreamsKept /\ ListsKept /\ NoneSet({})
  BY DEF StreamsKept, Kept, ListsKept, NoneSet

LEMMA NextStreamInv == TypeInv /\ StreamInv /\ [Next]_vars => StreamInv'
<1> SUFFICES ASSUME TypeInv, StreamInv, [Next]_vars PROVE StreamInv'
  OBVIOUS
<1>1. ASSUME NEW c \in Conns, NEW t \in Tokens, NEW i \in Insts,
             Connect(c, t, i) \/ ConnectAborted(c, t, i)
      PROVE  StreamInv'
  BY <1>1, StartStreamInv DEF Connect, ConnectAborted
<1>2. ASSUME NEW c \in Conns, CallStep(c) \/ Fail(c) PROVE StreamInv'
  BY <1>2, CallKept, KeptStreamInv
<1>3. ASSUME NEW c \in Conns, Disconnect(c) PROVE StreamInv'
  <2>1. conn[c].inst \in Insts
    BY <1>3 DEF Disconnect, Open, NewStream, TypeInv, Known
  <2> QED BY <1>3, <2>1, CloseKept, KeptStreamInv DEF Disconnect, past
<1>4. ASSUME NEW i \in Insts, CountStep(i) \/ Shutdown(i) \/ Exit(i) PROVE StreamInv'
  <2>1. CASE CountStep(i)
    BY <2>1, StillKept, KeptStreamInv DEF CountStep, TimerEnds, ReadKeys, Send, sse, past
  <2>2. CASE Shutdown(i)
    <3>1. PICK c \in Conns : TRUE
      BY <2>2, PresenceAssumption DEF Shutdown, TypeInv, TypeOK
    <3> QED BY <2>2, <3>1, CloseKept, KeptStreamInv DEF Shutdown, past
  <2>3. CASE Exit(i)
    BY <2>3, ExitKept, KeptStreamInv DEF Exit, past
  <2> QED BY <1>4, <2>1, <2>2, <2>3
<1>5. ASSUME NEW t \in Tokens, RemoveToken(t) \/ RemoveRow(t) PROVE StreamInv'
  BY <1>5, StillKept, KeptStreamInv DEF RemoveToken, RemoveRow, sse
<1>6. ASSUME NEW u \in Users, DeleteUser(u) PROVE StreamInv'
  BY <1>6, StillKept, KeptStreamInv DEF DeleteUser, sse, past
<1>7. CASE UNCHANGED vars
  BY <1>7, StillKept, KeptStreamInv DEF vars, sse, past
<1> QED BY <1>1, <1>2, <1>3, <1>4, <1>5, <1>6, <1>7 DEF Next

-----------------------------------------------------------------------------
\* A stream that is alone keeps its key.

\* A step that sets no key, and deletes none of a token with a row and an open
\* stream but that of a token it begins to remove.
LEMMA KeptOnline ==
  ASSUME TypeInv, StreamInv, OnlineWhileOpen, StreamsKept, NoneSet({}), UNCHANGED alone,
         \A t \in Tokens : t \in rows' => t \in rows /\ (ending'[t] = "no" => ending[t] = "no"),
         online' = online
  PROVE  OnlineWhileOpen'
  BY DEF OnlineWhileOpen, StreamsKept, Kept, NoneSet, Open, StreamInv, Sole, TypeInv, TypeOK

LEMMA CallOnline ==
  ASSUME NEW c \in Conns, TypeInv, StreamInv, OnlineWhileOpen, CallStep(c) \/ Fail(c)
  PROVE  OnlineWhileOpen'
<1>1. StreamsKept /\ UNCHANGED alone
  BY CallKept
<1>2. \A d \in Conns \ {c} : conn'[d] = conn[d]
  BY DEF CallStep, AddFind, AddSet, RemoveFind, RemoveDel, Fail, TypeInv, TypeOK
<1>3. conn[c].tok \in Tokens /\ conn[c] \in Streams
  BY DEF CallStep, AddFind, AddSet, RemoveFind, RemoveDel, Fail, TypeInv, TypeOK, Known, NewStream
<1>4. \A t \in Tokens : t \in rows' => t \in rows /\ (ending'[t] = "no" => ending[t] = "no")
  BY <1>3 DEF CallStep, AddFind, AddSet, RemoveFind, RemoveDel, Fail, past, TypeInv, TypeOK
<1>5. CASE AddSet(c)
  <2>1. online' = online \cup {conn[c].tok}
    BY <1>5 DEF AddSet
  <2> QED BY <1>1, <1>2, <1>4, <2>1
          DEF OnlineWhileOpen, StreamsKept, Kept, Open, TypeInv, TypeOK, StreamInv, Sole
<1>6. CASE RemoveDel(c)
  <2>1. online' = online \ {conn[c].tok} /\ conn[c].at # "open"
    BY <1>6 DEF RemoveDel, StreamInv, Shut
  <2>2. conn'[c].at # "open"
    BY <1>1, <2>1 DEF StreamsKept, Kept
  <2>3. \A d \in alone : d # c => conn[d].tok # conn[c].tok
    BY DEF StreamInv, Sole
  <2> QED BY <1>1, <1>2, <1>4, <2>1, <2>2, <2>3
          DEF OnlineWhileOpen, Open, TypeInv, TypeOK, StreamInv, Sole
<1>7. CASE AddFind(c) \/ RemoveFind(c) \/ Fail(c)
  <2>1. conn'[c].add = "done" => conn[c].add = "done"
    BY <1>3, <1>7 DEF AddFind, RemoveFind, Fail, TypeInv, TypeOK, Streams
  <2>2. NoneSet({})
    BY <1>2, <2>1 DEF NoneSet
  <2>3. online' = online
    BY <1>7 DEF AddFind, RemoveFind, Fail
  <2> QED BY <1>1, <1>4, <2>2, <2>3, KeptOnline
<1> QED BY <1>5, <1>6, <1>7 DEF CallStep

LEMMA StartOnline ==
  ASSUME NEW c \in Conns, NEW t \in Tokens, NEW i \in Insts, NEW at \in {"open", "aborted"},
         TypeInv, StreamInv, OnlineWhileOpen, Start(c, t, i, at)
  PROVE  OnlineWhileOpen'
<1>1. conn'[c].add = "find" /\ \A d \in Conns \ {c} : conn'[d] = conn[d]
  BY StartFacts
<1>2. alone' \subseteq alone \cup {c} /\ UNCHANGED <<rows, ending, online>>
  BY DEF Start
<1> QED BY <1>1, <1>2 DEF OnlineWhileOpen, Open, TypeInv, TypeOK

LEMMA EndOnline ==
  ASSUME NEW t \in Tokens, TypeInv, StreamInv, OnlineWhileOpen, RemoveToken(t) \/ RemoveRow(t)
  PROVE  OnlineWhileOpen'
<1>1. CASE RemoveToken(t)
  <2>1. ending'[t] # "no" /\ \A s \in Tokens \ {t} : ending'[s] = ending[s]
    BY <1>1 DEF RemoveToken, TypeInv, TypeOK
  <2>2. UNCHANGED <<conn, rows, alone>> /\ online' = online \ {t}
    BY <1>1 DEF RemoveToken
  <2> QED BY <2>1, <2>2 DEF OnlineWhileOpen, Open, StreamInv, Sole
<1>2. CASE RemoveRow(t)
  <2>1. \A s \in Tokens : s \in rows' => s \in rows /\ (ending'[s] = "no" => ending[s] = "no")
    BY <1>2 DEF RemoveRow, TypeInv, TypeOK
  <2> QED BY <1>2, <2>1, StillKept, KeptOnline DEF RemoveRow, sse
<1> QED BY <1>1, <1>2

LEMMA NextOnline == TypeInv /\ StreamInv /\ OnlineWhileOpen /\ [Next]_vars => OnlineWhileOpen'
<1> SUFFICES ASSUME TypeInv, StreamInv, OnlineWhileOpen, [Next]_vars PROVE OnlineWhileOpen'
  OBVIOUS
<1>1. ASSUME NEW c \in Conns, NEW t \in Tokens, NEW i \in Insts,
             Connect(c, t, i) \/ ConnectAborted(c, t, i)
      PROVE  OnlineWhileOpen'
  BY <1>1, StartOnline DEF Connect, ConnectAborted
<1>2. ASSUME NEW c \in Conns, CallStep(c) \/ Fail(c) PROVE OnlineWhileOpen'
  BY <1>2, CallOnline
<1>3. ASSUME NEW c \in Conns, Disconnect(c) PROVE OnlineWhileOpen'
  <2>1. conn[c].inst \in Insts
    BY <1>3 DEF Disconnect, Open, NewStream, TypeInv, Known
  <2> QED BY <1>3, <2>1, CloseKept, KeptOnline DEF Disconnect, past
<1>4. ASSUME NEW i \in Insts, CountStep(i) \/ Shutdown(i) \/ Exit(i) PROVE OnlineWhileOpen'
  <2>1. CASE CountStep(i)
    BY <2>1, StillKept, KeptOnline DEF CountStep, TimerEnds, ReadKeys, Send, sse, past
  <2>2. CASE Shutdown(i)
    <3>1. PICK c \in Conns : TRUE
      BY <2>2, PresenceAssumption DEF Shutdown, TypeInv, TypeOK
    <3> QED BY <2>2, <3>1, CloseKept, KeptOnline DEF Shutdown, past
  <2>3. CASE Exit(i)
    BY <2>3, ExitKept, KeptOnline DEF Exit, past
  <2> QED BY <1>4, <2>1, <2>2, <2>3
<1>5. ASSUME NEW t \in Tokens, RemoveToken(t) \/ RemoveRow(t) PROVE OnlineWhileOpen'
  BY <1>5, EndOnline
<1>6. ASSUME NEW u \in Users, DeleteUser(u) PROVE OnlineWhileOpen'
  BY <1>6, StillKept, KeptOnline DEF DeleteUser, sse, past, TypeInv, TypeOK
<1>7. CASE UNCHANGED vars
  BY <1>7, StillKept, KeptOnline DEF vars, sse, past
<1> QED BY <1>1, <1>2, <1>3, <1>4, <1>5, <1>6, <1>7 DEF Next

LEMMA InitOnline == Init => OnlineWhileOpen
  BY DEF Init, OnlineWhileOpen

\* OnlineStays: a stream that is the only one its token has ever had is in the
\* list of users online from the SET of addOnlineUser until its close event or
\* the removal of its token, whatever the other streams, instances and users do.
THEOREM OnlineStays == Spec => []OnlineWhileOpen
  BY InitTypeInv, NextTypeInv, InitStreamInv, NextStreamInv, InitOnline, NextOnline, PTL DEF Spec

-----------------------------------------------------------------------------
\* The count that was told.

\* A KEYS of the instance is on its way or will be when the window ends.
Pending(i) == window[i] = "due" \/ i \in asked

\* With no KEYS to come, the count read last is that of the keys there are, and
\* once it is sent every stream of the list with a key was sent it.
Current(i) ==
    /\ counted[i] # None => counted[i] = Cardinality(online)
    /\ counted[i] = None => \A c \in clients[i] : conn[c].add = "done" => told[c] = Cardinality(online)

CountInv == \A i \in Insts : i \notin unheard /\ ~Pending(i) => Current(i)

LEMMA InitCountInv == Init => CountInv
  BY DEF Init, CountInv, Current

LEMMA CallPending ==
  ASSUME NEW i \in Insts, TypeInv, CountCall(i)
  PROVE  Pending(i)' /\ \A j \in Insts \ {i} : Pending(j)' <=> Pending(j)
  BY DEF CountCall, Pending, TypeInv, TypeOK

\* A step that changes no key, adds no stream and drops no KEYS.
LEMMA CountQuiet ==
  ASSUME TypeInv, CountInv, StreamsKept, ListsKept, NoneSet({}),
         UNCHANGED <<online, counted, told, unheard>>,
         \A i \in Insts : Pending(i) => Pending(i)'
  PROVE  CountInv'
<1>1. ASSUME NEW i \in Insts, Current(i) PROVE Current(i)'
  BY <1>1 DEF Current, ListsKept, NoneSet, TypeInv, TypeOK
<1> QED BY <1>1 DEF CountInv

\* The keys change and the streams of one instance alone hear of it.
LEMMA KeysChange ==
  ASSUME NEW i \in Insts, CountCall(i), TypeInv, unheard' = unheard \cup (Insts \ {i})
  PROVE  CountInv'
  BY CallPending DEF CountInv

LEMMA CallCount ==
  ASSUME NEW c \in Conns, TypeInv, StreamInv, CountInv, CallStep(c) \/ Fail(c)
  PROVE  CountInv'
<1>1. conn[c].inst \in Insts /\ conn[c] \in Streams
  BY DEF CallStep, AddFind, AddSet, RemoveFind, RemoveDel, Fail, TypeInv, TypeOK, Known, NewStream
<1>2. CASE AddSet(c) \/ RemoveDel(c)
  BY <1>1, <1>2, KeysChange DEF AddSet, RemoveDel
<1>3. CASE AddFind(c) \/ RemoveFind(c) \/ Fail(c)
  <2>1. StreamsKept /\ ListsKept
    BY CallKept
  <2>2. NoneSet({})
    <3>1. conn'[c].add = "done" => conn[c].add = "done"
      BY <1>1, <1>3 DEF AddFind, RemoveFind, Fail, TypeInv, TypeOK, Streams
    <3>2. \A d \in Conns \ {c} : conn'[d] = conn[d]
      BY <1>3 DEF AddFind, RemoveFind, Fail, TypeInv, TypeOK
    <3> QED BY <3>1, <3>2 DEF NoneSet
  <2>3. UNCHANGED <<online, counted, told, unheard>>
    BY <1>3 DEF AddFind, RemoveFind, Fail, count, past
  <2>4. ASSUME NEW i \in Insts, Pending(i) PROVE Pending(i)'
    <3>1. CASE UNCHANGED <<window, asked>>
      BY <3>1, <2>4 DEF Pending
    <3>2. CASE CountCall(conn[c].inst)
      BY <3>2, <1>1, <2>4, CallPending
    <3> QED BY <1>3, <3>1, <3>2 DEF AddFind, RemoveFind, Fail, count
  <2> QED BY <2>1, <2>2, <2>3, <2>4, CountQuiet
<1> QED BY <1>2, <1>3 DEF CallStep

LEMMA StartCount ==
  ASSUME NEW c \in Conns, NEW t \in Tokens, NEW i \in Insts, NEW at \in {"open", "aborted"},
         TypeInv, StreamInv, CountInv, Start(c, t, i, at)
  PROVE  CountInv'
<1>1. /\ conn'[c].add = "find"
      /\ \A d \in Conns \ {c} : conn'[d] = conn[d]
      /\ \A j \in Insts : clients'[j] \subseteq clients[j] \cup {c}
  BY StartFacts
<1>2. UNCHANGED <<online, window, asked, counted, told, unheard>>
  BY DEF Start, count
<1>3. ASSUME NEW j \in Insts, Current(j) PROVE Current(j)'
  BY <1>1, <1>2, <1>3 DEF Current, TypeInv, TypeOK
<1> QED BY <1>2, <1>3 DEF CountInv, Pending

LEMMA CountStepCount ==
  ASSUME NEW i \in Insts, TypeInv, StreamInv, CountInv, CountStep(i)
  PROVE  CountInv'
<1>1. CASE TimerEnds(i)
  <2>1. \A j \in Insts : Pending(j) => Pending(j)'
    BY <1>1 DEF TimerEnds, Pending, TypeInv, TypeOK
  <2> QED BY <1>1, <2>1, StillKept, CountQuiet DEF TimerEnds, sse, past
<1>2. CASE ReadKeys(i)
  <2>1. UNCHANGED <<conn, online, clients, window, told>>
    BY <1>2 DEF ReadKeys, sse
  <2>2. /\ counted'[i] = Cardinality(online)
        /\ \A j \in Insts \ {i} : counted'[j] = counted[j]
        /\ asked' = asked \ {i} /\ unheard' = unheard \ {i}
    BY <1>2 DEF ReadKeys, TypeInv, TypeOK
  <2>3. Cardinality(online) # None
    BY Counts, PresenceAssumption DEF TypeInv, TypeOK, PresenceAssumption
  <2>4. Current(i)'
    BY <2>1, <2>2, <2>3 DEF Current
  <2>5. ASSUME NEW j \in Insts \ {i}, j \notin unheard', ~Pending(j)' PROVE Current(j)'
    BY <2>1, <2>2, <2>5 DEF CountInv, Current, Pending
  <2> QED BY <2>4, <2>5 DEF CountInv
<1>3. CASE Send(i)
  <2>1. UNCHANGED <<conn, online, clients, window, asked, unheard>>
    BY <1>3 DEF Send, sse, past
  <2>2. /\ counted[i] # None /\ counted'[i] = None
        /\ \A j \in Insts \ {i} : counted'[j] = counted[j]
    BY <1>3 DEF Send, TypeInv, TypeOK
  <2>3. \A c \in Conns : told'[c] = IF c \in clients[i] THEN counted[i] ELSE told[c]
    BY <1>3 DEF Send
  <2>4. \A j \in Insts \ {i} : \A c \in clients[j] : c \notin clients[i]
    BY DEF StreamInv, Places
  <2>5. \A j \in Insts : clients[j] \subseteq Conns
    BY DEF TypeInv, TypeOK
  <2>6. ASSUME Current(i) PROVE Current(i)'
    BY <2>1, <2>2, <2>3, <2>5, <2>6 DEF Current
  <2>7. ASSUME NEW j \in Insts \ {i}, Current(j) PROVE Current(j)'
    BY <2>1, <2>2, <2>3, <2>4, <2>5, <2>7 DEF Current
  <2> QED BY <2>1, <2>6, <2>7 DEF CountInv, Pending
<1> QED BY <1>1, <1>2, <1>3 DEF CountStep

LEMMA ExitCount ==
  ASSUME NEW i \in Insts, TypeInv, StreamInv, CountInv, Exit(i)
  PROVE  CountInv'
<1>1. /\ NoneSet({})
      /\ clients'[i] = {}
      /\ \A j \in Insts \ {i} : clients'[j] = clients[j]
  BY ExitKept
<1>2. /\ counted'[i] = None
      /\ \A j \in Insts \ {i} : counted'[j] = counted[j] /\ (Pending(j)' <=> Pending(j))
  BY DEF Exit, Pending, TypeInv, TypeOK
<1>3. UNCHANGED <<online, told, unheard>>
  BY DEF Exit, past
<1>4. Current(i)'
  BY <1>1, <1>2 DEF Current
<1>5. ASSUME NEW j \in Insts \ {i}, Current(j) PROVE Current(j)'
  BY <1>1, <1>2, <1>3, <1>5 DEF Current, NoneSet, TypeInv, TypeOK
<1> QED BY <1>2, <1>3, <1>4, <1>5 DEF CountInv

\* What leaves the counting alone.
LEMMA UncountedStep ==
  ASSUME TypeInv, CountInv, StreamsKept, ListsKept, NoneSet({}),
         UNCHANGED <<online, count, unheard>>
  PROVE  CountInv'
  BY CountQuiet DEF count, Pending

LEMMA NextCountInv == TypeInv /\ StreamInv /\ CountInv /\ [Next]_vars => CountInv'
<1> SUFFICES ASSUME TypeInv, StreamInv, CountInv, [Next]_vars PROVE CountInv'
  OBVIOUS
<1>1. ASSUME NEW c \in Conns, NEW t \in Tokens, NEW i \in Insts,
             Connect(c, t, i) \/ ConnectAborted(c, t, i)
      PROVE  CountInv'
  BY <1>1, StartCount DEF Connect, ConnectAborted
<1>2. ASSUME NEW c \in Conns, CallStep(c) \/ Fail(c) PROVE CountInv'
  BY <1>2, CallCount
<1>3. ASSUME NEW c \in Conns, Disconnect(c) PROVE CountInv'
  <2>1. conn[c].inst \in Insts
    BY <1>3 DEF Disconnect, Open, NewStream, TypeInv, Known
  <2> QED BY <1>3, <2>1, CloseKept, UncountedStep DEF Disconnect, past
<1>4. ASSUME NEW i \in Insts, CountStep(i) \/ Shutdown(i) \/ Exit(i) PROVE CountInv'
  <2>1. CASE Shutdown(i)
    <3>1. PICK c \in Conns : TRUE
      BY <2>1, PresenceAssumption DEF Shutdown, TypeInv, TypeOK
    <3> QED BY <2>1, <3>1, CloseKept, UncountedStep DEF Shutdown, past
  <2> QED BY <1>4, <2>1, CountStepCount, ExitCount
<1>5. ASSUME NEW t \in Tokens, RemoveToken(t) \/ RemoveRow(t) PROVE CountInv'
  <2>1. CASE RemoveToken(t)
    BY <2>1 DEF RemoveToken, CountInv
  <2>2. CASE RemoveRow(t)
    BY <2>2, StillKept, UncountedStep DEF RemoveRow, sse
  <2> QED BY <1>5, <2>1, <2>2
<1>6. ASSUME NEW u \in Users, DeleteUser(u) PROVE CountInv'
  BY <1>6, StillKept, UncountedStep DEF DeleteUser, sse, past
<1>7. CASE UNCHANGED vars
  BY <1>7, StillKept, UncountedStep DEF vars, sse, past
<1> QED BY <1>1, <1>2, <1>3, <1>4, <1>5, <1>6, <1>7 DEF Next

\* CountsArrive: whenever the throttle of an instance is at rest and nothing but
\* its own streams changed the keys since its last KEYS, every stream it sends
\* to that has its key was told the number of keys there are: for any number of
\* streams, tokens and instances, no count is lost between the calls.
THEOREM CountsArrive == Spec => []CountIsCurrent
<1>1. CountInv => CountIsCurrent
  BY DEF CountInv, CountIsCurrent, Current, Pending
<1> QED BY <1>1, InitTypeInv, NextTypeInv, InitStreamInv, NextStreamInv, InitCountInv,
           NextCountInv, PTL DEF Spec
=============================================================================
