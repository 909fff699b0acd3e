--------------------------- MODULE SessionProofs ---------------------------
(***************************************************************************)
(* Proofs about Session for every set of users and handlers, any number of *)
(* tokens, both device modes and every set of operations: the types, that  *)
(* sessions end for a cause, and that Session implements SessionAbs.       *)
(***************************************************************************)
EXTENDS Session, TLAPS

\* The calls of a handler that works on a token.
TokPcs == {"loginRefresh", "loginCache", "loginPv", "loginReply",
           "recheck", "verify", "lookup", "reissue", "reissueRefresh", "dropOld",
           "checkPv", "checkDevice", "admitted",
           "blacklist", "removeRow", "logoutPv", "logoutTok"}

\* A handler in flight works for a user, and on a token where it needs one.
JobBound(j) ==
    /\ j.pc # "idle" => j.usr \in Users
    /\ j.pc \in TokPcs => j.tok \in Tokens
    /\ j.pc \in {"reissueRefresh", "dropOld"} => j.new \in Tokens

\* Every token a client or a row names was issued to somebody.
TokensBound == \A t \in held \cup rows : owner[t] \in Users

\* A login under way works on a token of its user.
LoginsBound == \A p \in Procs :
    job[p].pc \in LoginPcs \ {"loginInsert"} => owner[job[p].tok] = job[p].usr

DataOK ==
    /\ account \in [Users -> {"enabled", "disabled", "deleted"}]
    /\ owner \in [Tokens -> Users \cup {Nobody}]
    /\ age \in [Tokens -> {Fresh, Closing, Expired, Dead}]
    /\ rows \in SUBSET Tokens
    /\ refreshRows \in SUBSET Tokens
    /\ black \in [Tokens -> {"none", "short", "long"}]
    /\ pv \in [Users -> {"none", "one", "more"}]
    /\ authTok \in [Users -> Tokens \cup {NoTok}]
    /\ held \in SUBSET Tokens
    /\ out \in SUBSET Tokens
    /\ closed \in SUBSET Users
    /\ superseded \in SUBSET Tokens

JobsOK == job \in [Procs -> Jobs] /\ \A p \in Procs : JobBound(job[p])

TypeInv == DataOK /\ JobsOK /\ TokensBound /\ LoginsBound

LEMMA IdleJobOK == IdleJob \in Jobs /\ JobBound(IdleJob) /\ IdleJob.pc = "idle"
  BY DEF IdleJob, Jobs, JobBound, Pcs, TokPcs, Tokens, NoTok

\* Only the record of one handler changes, and to one that is in order.
LEMMA OneJob ==
  ASSUME NEW p \in Procs, NEW j \in Jobs, JobsOK, JobBound(j),
         Put(p, j)
  PROVE  JobsOK' /\ job'[p] = j /\ \A q \in Procs \ {p} : job'[q] = job[q]
  BY DEF JobsOK, Put

LEMMA EndJob ==
  ASSUME NEW p \in Procs, JobsOK, End(p)
  PROVE  /\ JobsOK'
         /\ job'[p] = IdleJob
         /\ \A q \in Procs \ {p} : job'[q] = job[q]
  BY OneJob, IdleJobOK DEF End

LEMMA GotoJob ==
  ASSUME NEW p \in Procs, NEW l \in Pcs, JobsOK, Goto(p, l), l # "idle",
         job[p].pc # "idle",
         l \in TokPcs => job[p].tok \in Tokens,
         l \in {"reissueRefresh", "dropOld"} => job[p].new \in Tokens
  PROVE  /\ JobsOK'
         /\ job'[p] = [job[p] EXCEPT !.pc = l]
         /\ \A q \in Procs \ {p} : job'[q] = job[q]
<1> DEFINE j == [job[p] EXCEPT !.pc = l]
<1>1. j \in Jobs /\ JobBound(j)
  BY DEF JobsOK, Jobs, JobBound
<1>2. Put(p, j)
  BY DEF Goto
<1> QED BY <1>1, <1>2, OneJob

LEMMA InitTypeInv == Init => TypeInv
  BY SessionAssumption, IdleJobOK DEF Init, TypeInv, DataOK, JobsOK, TokensBound,
     LoginsBound, LoginPcs, Fresh, Closing, Expired, Dead, Tokens, NoTok

\* Nothing was issued or handed out and only p moved, not to a login call.
LEMMA BoundsKept ==
  ASSUME NEW p \in Procs, TypeInv, UNCHANGED <<owner, held>>, rows' \subseteq rows,
         \A q \in Procs \ {p} : job'[q] = job[q],
         job'[p].pc \in LoginPcs \ {"loginInsert"} => owner[job'[p].tok] = job'[p].usr
  PROVE  TokensBound' /\ LoginsBound'
  BY DEF TypeInv, TokensBound, LoginsBound

\* A new token goes to the user of the handler p, which is not a login any
\* more than it was: the tokens other logins work on were issued before.
LEMMA InsertKeepsBounds ==
  ASSUME NEW p \in Procs, NEW t \in Tokens, TypeInv, Insert(t, job[p].usr),
         job[p].usr \in Users, UNCHANGED held,
         \A q \in Procs \ {p} : job'[q] = job[q],
         job'[p].pc \in LoginPcs \ {"loginInsert"} =>
            job'[p].tok = t /\ job'[p].usr = job[p].usr
  PROVE  TokensBound' /\ LoginsBound'
<1>1. owner' = [owner EXCEPT ![t] = job[p].usr] /\ owner[t] = Nobody /\ rows' = rows \cup {t}
  BY DEF Insert, IsNext, Issued
<1>2. owner'[t] = job[p].usr /\ \A s \in Tokens \ {t} : owner'[s] = owner[s]
  BY <1>1 DEF TypeInv, DataOK
<1>3. TokensBound'
  BY <1>1, <1>2, SessionAssumption DEF TypeInv, DataOK, TokensBound
<1>4. ASSUME NEW q \in Procs, job'[q].pc \in LoginPcs \ {"loginInsert"}
      PROVE  owner'[job'[q].tok] = job'[q].usr
  <2>1. CASE q = p
    BY <2>1, <1>2, <1>4
  <2>2. CASE q # p
    <3>1. job'[q] = job[q] /\ owner[job[q].tok] = job[q].usr
      BY <2>2, <1>4 DEF TypeInv, LoginsBound
    <3>2. job[q].tok \in Tokens /\ job[q].usr \in Users
      BY <3>1, <1>4 DEF TypeInv, JobsOK, JobBound, TokPcs, LoginPcs
    <3> QED BY <3>1, <3>2, <1>1, <1>2, SessionAssumption
  <2> QED BY <2>1, <2>2
<1> QED BY <1>3, <1>4 DEF LoginsBound

LEMMA LoginTypeInv ==
  ASSUME NEW p \in Procs, TypeInv, LoginStep(p)
  PROVE  TypeInv'
<1> USE DEF db, redis, past, At
<1>0. job[p].pc \in LoginPcs => job[p].usr \in Users /\ job[p].pc # "idle"
  BY DEF TypeInv, JobsOK, JobBound, LoginPcs
<1>1. CASE LoginInsert(p)
  <2>1. CASE End(p) /\ UNCHANGED db
    <3>1. DataOK' BY <1>1, <2>1 DEF LoginInsert, TypeInv, DataOK
    <3> QED BY <1>1, <2>1, <3>1, EndJob, IdleJobOK, BoundsKept DEF LoginInsert, TypeInv, LoginPcs
  <2>2. CASE ~(End(p) /\ UNCHANGED db)
    <3>1. PICK t \in Tokens :
               /\ Insert(t, job[p].usr)
               /\ Put(p, [job[p] EXCEPT !.pc = "loginRefresh", !.tok = t])
      BY <1>1, <2>2 DEF LoginInsert
    <3> DEFINE j == [job[p] EXCEPT !.pc = "loginRefresh", !.tok = t]
    <3>2. job[p].usr \in Users
      BY <1>0, <1>1 DEF LoginInsert, LoginPcs
    <3>3. j \in Jobs /\ JobBound(j) /\ Put(p, j)
      <4>1. job[p] \in Jobs /\ Put(p, j)
        BY <3>1 DEF TypeInv, JobsOK
      <4>2. j \in Jobs
        BY <4>1 DEF Jobs, Pcs
      <4>3. JobBound(j)
        BY <3>2, <4>1 DEF Jobs, JobBound
      <4> QED BY <4>1, <4>2, <4>3
    <3>4. JobsOK' /\ job'[p] = j /\ \A q \in Procs \ {p} : job'[q] = job[q]
      BY <3>3, OneJob DEF TypeInv
    <3>5. j.tok = t /\ j.usr = job[p].usr
      BY DEF TypeInv, JobsOK, Jobs
    <3>6. DataOK'
      <4>1. UNCHANGED <<account, refreshRows, age, redis, held, past>>
        BY <1>1, <2>2 DEF LoginInsert
      <4>2. /\ owner' = [owner EXCEPT ![t] = job[p].usr]
            /\ rows' = rows \cup {t}
        BY <3>1 DEF Insert
      <4> QED BY <3>2, <4>1, <4>2 DEF TypeInv, DataOK
    <3> QED BY <1>1, <3>1, <3>2, <3>4, <3>5, <3>6, InsertKeepsBounds DEF LoginInsert, TypeInv
  <2> QED BY <2>1, <2>2
<1>2. CASE LoginRefresh(p)
  <2>1. DataOK'
    BY <1>2 DEF LoginRefresh, TypeInv, DataOK
  <2>2. CASE job[p].tok \in rows
    <3>1. JobsOK' /\ job'[p] = [job[p] EXCEPT !.pc = "loginCache"]
                  /\ \A q \in Procs \ {p} : job'[q] = job[q]
      BY <1>2, <2>2, GotoJob DEF LoginRefresh, TypeInv, DataOK, Pcs
    <3> QED BY <1>2, <2>1, <3>1, BoundsKept
          DEF LoginRefresh, TypeInv, LoginPcs, LoginsBound, JobsOK, Jobs
  <2>3. CASE job[p].tok \notin rows
    BY <1>2, <2>1, <2>3, EndJob, IdleJobOK, BoundsKept DEF LoginRefresh, TypeInv, LoginPcs
  <2> QED BY <2>2, <2>3
<1>3. CASE LoginCache(p)
  <2>1. job[p].tok \in Tokens /\ job[p].olds \subseteq Tokens
    BY <1>3 DEF LoginCache, TypeInv, JobsOK, JobBound, Jobs, TokPcs
  <2>2. DataOK'
    BY <1>3, <2>1 DEF LoginCache, TypeInv, DataOK
  <2>3. JobsOK' /\ job'[p] = [job[p] EXCEPT !.pc = "loginPv"]
                /\ \A q \in Procs \ {p} : job'[q] = job[q]
    BY <1>3, <2>1, GotoJob DEF LoginCache, TypeInv, Pcs
  <2> QED BY <1>3, <2>2, <2>3, BoundsKept
        DEF LoginCache, TypeInv, LoginPcs, LoginsBound, JobsOK, Jobs
<1>4. CASE LoginPv(p)
  <2>1. job[p].tok \in Tokens
    BY <1>4 DEF LoginPv, TypeInv, JobsOK, JobBound, TokPcs
  <2>2. DataOK'
    BY <1>4 DEF LoginPv, TypeInv, DataOK
  <2>3. JobsOK' /\ job'[p] = [job[p] EXCEPT !.pc = "loginReply"]
                /\ \A q \in Procs \ {p} : job'[q] = job[q]
    BY <1>4, <2>1, GotoJob DEF LoginPv, TypeInv, Pcs
  <2> QED BY <1>4, <2>2, <2>3, BoundsKept
        DEF LoginPv, TypeInv, LoginPcs, LoginsBound, JobsOK, Jobs
<1>5. CASE LoginReply(p)
  <2>1. job[p].tok \in Tokens /\ owner[job[p].tok] \in Users
    BY <1>0, <1>5 DEF LoginReply, TypeInv, JobsOK, JobBound, TokPcs, LoginsBound, LoginPcs
  <2>2. DataOK'
    BY <1>5, <2>1 DEF LoginReply, TypeInv, DataOK
  <2>3. JobsOK' /\ job'[p] = IdleJob /\ \A q \in Procs \ {p} : job'[q] = job[q]
    BY <1>5, EndJob DEF LoginReply, TypeInv
  <2>4. TokensBound'
    BY <1>5, <2>1 DEF LoginReply, TypeInv, TokensBound
  <2>5. LoginsBound'
    BY <1>5, <2>3, IdleJobOK DEF LoginReply, TypeInv, LoginsBound, LoginPcs
  <2> QED BY <2>2, <2>3, <2>4, <2>5 DEF TypeInv
<1> QED BY <1>1, <1>2, <1>3, <1>4, <1>5 DEF LoginStep

\* The three ways a handler other than a login moves on, with the data in order.
LEMMA Placed ==
  ASSUME NEW p \in Procs, NEW j \in Jobs, TypeInv, JobBound(j), j.pc \notin LoginPcs,
         Put(p, j), UNCHANGED <<owner, held>>, rows' \subseteq rows, DataOK'
  PROVE  TypeInv'
  BY OneJob, BoundsKept DEF TypeInv

LEMMA Ended ==
  ASSUME NEW p \in Procs, TypeInv, End(p),
         UNCHANGED <<owner, held>>, rows' \subseteq rows, DataOK'
  PROVE  TypeInv'
  BY Placed, IdleJobOK DEF End, LoginPcs

LEMMA Moved ==
  ASSUME NEW p \in Procs, NEW l \in Pcs \ LoginPcs, TypeInv, Goto(p, l), l # "idle",
         job[p].pc # "idle",
         l \in TokPcs => job[p].tok \in Tokens,
         l \in {"reissueRefresh", "dropOld"} => job[p].new \in Tokens,
         UNCHANGED <<owner, held>>, rows' \subseteq rows, DataOK'
  PROVE  TypeInv'
<1>0. job[p] \in Jobs
  BY DEF TypeInv, JobsOK
<1>1. JobsOK' /\ job'[p].pc = l /\ \A q \in Procs \ {p} : job'[q] = job[q]
  <2>1. JobsOK' /\ job'[p] = [job[p] EXCEPT !.pc = l]
                /\ \A q \in Procs \ {p} : job'[q] = job[q]
    BY GotoJob DEF TypeInv
  <2> QED BY <1>0, <2>1 DEF Jobs
<1> QED BY <1>1, BoundsKept DEF TypeInv

\* A guard pass that succeeds on token t.
LEMMA PassedTypeInv ==
  ASSUME NEW p \in Procs, NEW t \in Tokens, NEW how \in {"direct", "refresh"},
         TypeInv, job[p].pc \in TokPcs, job[p].pc # "idle", Passed(p, t, how),
         UNCHANGED <<owner, held>>, rows' \subseteq rows, DataOK'
  PROVE  TypeInv'
<1> DEFINE j1 == [job[p] EXCEPT !.pc = "recheck", !.pass = 2, !.tok = t, !.new = NoTok]
           j2 == [job[p] EXCEPT !.pc = "admitted", !.how = how]
<1>1. job[p] \in Jobs /\ JobBound(job[p])
  BY DEF TypeInv, JobsOK
<1>2. j1 \in Jobs /\ j2 \in Jobs
  <2>1. j1 \in Jobs BY <1>1 DEF Jobs, Pcs
  <2>0. "admitted" \in Pcs BY DEF Pcs
  <2>2. j2 \in Jobs BY <1>1, <2>0 DEF Jobs
  <2> QED BY <2>1, <2>2
<1>3. JobBound(j1) /\ JobBound(j2) /\ j1.pc \notin LoginPcs /\ j2.pc \notin LoginPcs
  BY <1>1 DEF Jobs, JobBound, LoginPcs
<1>4. Put(p, j1) \/ Put(p, j2)
  BY DEF Passed
<1> QED BY <1>2, <1>3, <1>4, Placed

LEMMA GuardTypeInv ==
  ASSUME NEW p \in Procs, TypeInv, GuardStep(p)
  PROVE  TypeInv'
<1> USE DEF db, redis, past, At
<1>0. job[p].pc \in TokPcs =>
         job[p].usr \in Users /\ job[p].tok \in Tokens /\ job[p].pc # "idle"
  BY DEF TypeInv, JobsOK, JobBound, TokPcs
<1>1. CASE Recheck(p)
  <2>1. DataOK' BY <1>1 DEF Recheck, TypeInv, DataOK
  <2> QED BY <1>0, <1>1, <2>1, Ended, Moved DEF Recheck, Pcs, TokPcs, LoginPcs
<1>2. CASE Verify(p)
  <2>1. DataOK' BY <1>2 DEF Verify, TypeInv, DataOK
  <2>2. Goto(p, "checkPv") \/ Goto(p, "lookup")
    BY <1>2 DEF Verify
  <2> QED BY <1>0, <1>2, <2>1, <2>2, Moved DEF Verify, Pcs, TokPcs, LoginPcs
<1>3. CASE Lookup(p)
  <2>1. DataOK' BY <1>3 DEF Lookup, TypeInv, DataOK
  <2> QED BY <1>0, <1>3, <2>1, Ended, Moved DEF Lookup, Pcs, TokPcs, LoginPcs
<1>4. CASE Reissue(p)
  <2>1. CASE End(p) /\ UNCHANGED db
    <3>1. DataOK' BY <1>4, <2>1 DEF Reissue, TypeInv, DataOK
    <3> QED BY <1>4, <2>1, <3>1, Ended DEF Reissue
  <2>2. CASE ~(End(p) /\ UNCHANGED db)
    <3>1. PICK t \in Tokens :
               /\ Insert(t, job[p].usr)
               /\ Put(p, [job[p] EXCEPT !.pc = "reissueRefresh", !.new = t])
      BY <1>4, <2>2 DEF Reissue
    <3>2. UNCHANGED <<account, refreshRows, age, redis, held, past>>
      BY <1>4, <2>2 DEF Reissue
    <3>3. job[p].usr \in Users /\ job[p].tok \in Tokens /\ job[p] \in Jobs
      BY <1>0, <1>4 DEF Reissue, TokPcs, TypeInv, JobsOK
    <3> DEFINE j == [job[p] EXCEPT !.pc = "reissueRefresh", !.new = t]
    <3>4. j \in Jobs
      BY <3>3 DEF Jobs, Pcs
    <3>5. JobBound(j) /\ j.pc \notin LoginPcs
      BY <3>3 DEF Jobs, JobBound, LoginPcs
    <3>6. JobsOK' /\ job'[p] = j /\ \A q \in Procs \ {p} : job'[q] = job[q]
      BY <3>1, <3>4, <3>5, OneJob DEF TypeInv
    <3>7. /\ owner' = [owner EXCEPT ![t] = job[p].usr]
          /\ rows' = rows \cup {t}
      BY <3>1 DEF Insert
    <3>8. DataOK'
      BY <3>2, <3>3, <3>7 DEF TypeInv, DataOK
    <3> QED BY <3>1, <3>2, <3>3, <3>5, <3>6, <3>8, InsertKeepsBounds DEF TypeInv
  <2> QED BY <2>1, <2>2
<1>5. CASE ReissueRefresh(p)
  <2>1. job[p].new \in Tokens
    BY <1>5 DEF ReissueRefresh, TypeInv, JobsOK, JobBound
  <2>2. DataOK' BY <1>5, <2>1 DEF ReissueRefresh, TypeInv, DataOK
  <2>3. CASE End(p) BY <1>5, <2>2, <2>3, Ended DEF ReissueRefresh
  <2>4. CASE Goto(p, "dropOld")
    BY <1>0, <1>5, <2>1, <2>2, <2>4, Moved DEF ReissueRefresh, Pcs, TokPcs, LoginPcs
  <2> QED BY <1>5, <2>3, <2>4 DEF ReissueRefresh
<1>6. CASE DropOld(p)
  <2>1. job[p].new \in Tokens
    BY <1>6 DEF DropOld, TypeInv, JobsOK, JobBound
  <2>2. DataOK' BY <1>6 DEF DropOld, RemoveRows, TypeInv, DataOK
  <2> QED BY <1>0, <1>6, <2>1, <2>2, PassedTypeInv DEF DropOld, RemoveRows, TokPcs
<1>7. CASE CheckPv(p)
  <2>1. DataOK' BY <1>7 DEF CheckPv, TypeInv, DataOK
  <2>2. CASE End(p) BY <1>7, <2>1, <2>2, Ended DEF CheckPv
  <2>3. CASE Goto(p, "checkDevice")
    BY <1>0, <1>7, <2>1, <2>3, Moved DEF CheckPv, Pcs, TokPcs, LoginPcs
  <2>4. CASE Passed(p, job[p].tok, "direct")
    BY <1>0, <1>7, <2>1, <2>4, PassedTypeInv DEF CheckPv, TokPcs
  <2> QED BY <1>7, <2>2, <2>3, <2>4 DEF CheckPv
<1>8. CASE CheckDevice(p)
  <2>1. DataOK' BY <1>8 DEF CheckDevice, TypeInv, DataOK
  <2> QED BY <1>0, <1>8, <2>1, Ended, PassedTypeInv DEF CheckDevice, TokPcs
<1> QED BY <1>1, <1>2, <1>3, <1>4, <1>5, <1>6, <1>7, <1>8 DEF GuardStep

LEMMA HandlerTypeInv ==
  ASSUME NEW p \in Procs, TypeInv, HandlerStep(p)
  PROVE  TypeInv'
<1> USE DEF db, redis, past, At
<1>0. job[p].pc = "admitted" =>
         job[p].usr \in Users /\ job[p].tok \in Tokens /\ job[p] \in Jobs
  BY DEF TypeInv, JobsOK, JobBound, TokPcs
<1>1. CASE Reply(p)
  <2>1. DataOK' BY <1>1 DEF Reply, TypeInv, DataOK
  <2> QED BY <1>1, <2>1, Ended DEF Reply
<1>2. CASE Logout(p)
  <2> DEFINE j == [job[p] EXCEPT !.pc = "blacklist", !.calm = NoLogin(job[p].usr)]
  <2>1. DataOK' BY <1>2 DEF Logout, TypeInv, DataOK
  <2>2. j \in Jobs
    <3>1. NoLogin(job[p].usr) \in BOOLEAN BY DEF NoLogin
    <3> QED BY <1>0, <1>2, <3>1 DEF Logout, Jobs, Pcs
  <2>3. JobBound(j) /\ j.pc \notin LoginPcs
    BY <1>0, <1>2 DEF Logout, Jobs, JobBound, LoginPcs
  <2> QED BY <1>2, <2>1, <2>2, <2>3, Placed DEF Logout
<1>3. CASE ChangePassword(p)
  <2> DEFINE j == [job[p] EXCEPT !.pc = "pwUpdate", !.calm = NoLogin(job[p].usr)]
  <2>1. DataOK' BY <1>3 DEF ChangePassword, TypeInv, DataOK
  <2>2. j \in Jobs
    <3>1. NoLogin(job[p].usr) \in BOOLEAN BY DEF NoLogin
    <3> QED BY <1>0, <1>3, <3>1 DEF ChangePassword, Jobs, Pcs
  <2>3. JobBound(j) /\ j.pc \notin LoginPcs
    BY <1>0, <1>3 DEF ChangePassword, Jobs, JobBound, TokPcs, LoginPcs
  <2> QED BY <1>3, <2>1, <2>2, <2>3, Placed DEF ChangePassword
<1> QED BY <1>1, <1>2, <1>3 DEF HandlerStep

LEMMA ClearTypeInv ==
  ASSUME NEW p \in Procs, TypeInv, ClearStep(p)
  PROVE  TypeInv'
<1> USE DEF db, redis, past, At
<1>0. job[p].pc \in TokPcs =>
         job[p].usr \in Users /\ job[p].tok \in Tokens /\ job[p].pc # "idle"
  BY DEF TypeInv, JobsOK, JobBound, TokPcs
<1>1. CASE Blacklist(p)
  <2>1. DataOK' BY <1>1 DEF Blacklist, TypeInv, DataOK
  <2>2. CASE End(p) BY <1>1, <2>1, <2>2, Ended DEF Blacklist
  <2>3. CASE Goto(p, "removeRow") \/ Goto(p, "logoutPv")
    BY <1>0, <1>1, <2>1, <2>3, Moved DEF Blacklist, Pcs, TokPcs, LoginPcs
  <2> QED BY <1>1, <2>2, <2>3 DEF Blacklist
<1>2. CASE RemoveRow(p)
  <2>1. DataOK' BY <1>0, <1>2 DEF RemoveRow, RemoveRows, TypeInv, DataOK, TokPcs
  <2> QED BY <1>2, <2>1, Ended DEF RemoveRow, RemoveRows
<1>3. CASE LogoutPv(p)
  <2>1. DataOK' BY <1>3 DEF LogoutPv, TypeInv, DataOK
  <2> QED BY <1>0, <1>3, <2>1, Moved DEF LogoutPv, Pcs, TokPcs, LoginPcs
<1>4. CASE LogoutTok(p)
  <2>1. DataOK' BY <1>0, <1>4 DEF LogoutTok, Close, TypeInv, DataOK, TokPcs
  <2> QED BY <1>4, <2>1, Ended DEF LogoutTok
<1> QED BY <1>1, <1>2, <1>3, <1>4 DEF ClearStep

LEMMA UpdateTypeInv ==
  ASSUME NEW p \in Procs, TypeInv, UpdateStep(p)
  PROVE  TypeInv'
<1> USE DEF db, redis, past, At
<1>0. job[p].pc # "idle" => job[p].usr \in Users
  BY DEF TypeInv, JobsOK, JobBound
<1>1. CASE PwUpdate(p)
  <2>1. DataOK' BY <1>1 DEF PwUpdate, TypeInv, DataOK
  <2> QED BY <1>1, <2>1, Moved DEF PwUpdate, Pcs, TokPcs, LoginPcs
<1>2. CASE PvGet(p)
  <2>1. DataOK' BY <1>0, <1>2 DEF PvGet, AfterPassword, Close, TypeInv, DataOK
  <2>2. CASE End(p) BY <1>2, <2>1, <2>2, Ended DEF PvGet
  <2>3. CASE Goto(p, "pvSet") \/ Goto(p, "lockRow")
    BY <1>2, <2>1, <2>3, Moved DEF PvGet, Pcs, TokPcs, LoginPcs
  <2> QED BY <1>2, <2>2, <2>3 DEF PvGet, AfterPassword
<1>3. CASE PvSet(p)
  <2>1. DataOK' BY <1>0, <1>3 DEF PvSet, AfterPassword, Close, TypeInv, DataOK
  <2>2. CASE End(p) BY <1>3, <2>1, <2>2, Ended DEF PvSet
  <2>3. CASE Goto(p, "lockRow")
    BY <1>3, <2>1, <2>3, Moved DEF PvSet, Pcs, TokPcs, LoginPcs
  <2> QED BY <1>3, <2>2, <2>3 DEF PvSet, AfterPassword
<1>4. CASE LockRow(p)
  <2>1. DataOK' BY <1>4 DEF LockRow, TypeInv, DataOK
  <2>2. CASE End(p) BY <1>4, <2>1, <2>2, Ended DEF LockRow
  <2>3. CASE Goto(p, "disablePv")
    BY <1>4, <2>1, <2>3, Moved DEF LockRow, Pcs, TokPcs, LoginPcs
  <2> QED BY <1>4, <2>2, <2>3 DEF LockRow
<1>5. CASE DisablePv(p)
  <2>1. DataOK' BY <1>5 DEF DisablePv, TypeInv, DataOK
  <2> QED BY <1>5, <2>1, Moved DEF DisablePv, Pcs, TokPcs, LoginPcs
<1>6. CASE DisableTok(p)
  <2>1. DataOK' BY <1>6 DEF DisableTok, TypeInv, DataOK
  <2> QED BY <1>6, <2>1, Moved DEF DisableTok, Pcs, TokPcs, LoginPcs
<1>7. CASE DisableCommit(p)
  <2>1. DataOK' BY <1>0, <1>7 DEF DisableCommit, Close, TypeInv, DataOK
  <2> QED BY <1>7, <2>1, Ended DEF DisableCommit
<1>8. CASE DeletePv(p)
  <2>1. DataOK' BY <1>8 DEF DeletePv, TypeInv, DataOK
  <2> QED BY <1>8, <2>1, Moved DEF DeletePv, Pcs, TokPcs, LoginPcs
<1>9. CASE DeleteTok(p)
  <2>1. DataOK' BY <1>0, <1>9 DEF DeleteTok, Close, TypeInv, DataOK
  <2> QED BY <1>9, <2>1, Ended DEF DeleteTok
<1> QED BY <1>1, <1>2, <1>3, <1>4, <1>5, <1>6, <1>7, <1>8, <1>9 DEF UpdateStep

\* A login starts: besides its own record, only what the records of the same
\* user remember changes.
LEMMA LoginStartTypeInv ==
  ASSUME NEW p \in Procs, NEW u \in Users, TypeInv, LoginStart(p, u)
  PROVE  TypeInv'
<1> USE DEF db, redis, past
<1> DEFINE j0 == [IdleJob EXCEPT !.pc = "loginInsert", !.usr = u,
                                 !.olds = IF MultiDevice THEN {}
                                            ELSE held \cap OwnedBy(u)]
           j(q) == [job[q] EXCEPT !.calm = FALSE, !.begun = @ \ {"closed"}]
<1>1. DataOK'
  BY DEF LoginStart, TypeInv, DataOK
<1>2. j0 \in Jobs /\ j0.usr = u /\ j0.pc = "loginInsert"
  <2>1. (IF MultiDevice THEN {} ELSE held \cap OwnedBy(u)) \subseteq Tokens
    BY DEF OwnedBy
  <2>2. "loginInsert" \in Pcs
    BY DEF Pcs
  <2> QED BY <2>1, <2>2, IdleJobOK DEF IdleJob, Jobs
<1>3. JobBound(j0)
  BY <1>2 DEF JobBound, TokPcs
<1>4. \A q \in Procs : job[q] \in Jobs /\ JobBound(job[q])
  BY DEF TypeInv, JobsOK
<1>5. ASSUME NEW q \in Procs
      PROVE  /\ j(q) \in Jobs
             /\ j(q).pc = job[q].pc /\ j(q).usr = job[q].usr
             /\ j(q).tok = job[q].tok /\ j(q).new = job[q].new
  BY <1>4 DEF Jobs
<1>6. \A q \in Procs : JobBound(j(q))
  BY <1>4, <1>5 DEF JobBound
<1>7. job' = [q \in Procs |-> IF q = p THEN j0
                                ELSE IF job[q].usr = u THEN j(q) ELSE job[q]]
  BY DEF LoginStart
<1>8. JobsOK'
  BY <1>2, <1>3, <1>4, <1>5, <1>6, <1>7 DEF JobsOK
<1>9. LoginsBound'
  <2> SUFFICES ASSUME NEW q \in Procs, job'[q].pc \in LoginPcs \ {"loginInsert"}
               PROVE  owner[job'[q].tok] = job'[q].usr
    BY DEF LoginStart, LoginsBound
  <2>1. job'[q].pc = job[q].pc /\ job'[q].usr = job[q].usr /\ job'[q].tok = job[q].tok
    BY <1>2, <1>5, <1>7
  <2> QED BY <2>1 DEF TypeInv, LoginsBound
<1>10. TokensBound'
  BY DEF LoginStart, TypeInv, TokensBound
<1> QED BY <1>1, <1>8, <1>9, <1>10 DEF TypeInv

LEMMA ArriveTypeInv ==
  ASSUME NEW p \in Procs, TypeInv, Arrive(p)
  PROVE  TypeInv'
<1> USE DEF db, redis, past
<1>0. \A u \in Users : NoLogin(u) \in BOOLEAN
  BY DEF NoLogin
<1>1. CASE \E u \in Users : LoginStart(p, u)
  BY <1>1, LoginStartTypeInv
<1>2. CASE \E t \in Tokens, r \in {"account", "other"} : RequestStart(p, t, r)
  <2> PICK t \in Tokens, r \in {"account", "other"} : RequestStart(p, t, r)
    BY <1>2
  <2> DEFINE j == [IdleJob EXCEPT !.pc = "verify", !.usr = owner[t], !.tok = t,
                                  !.route = r, !.begun = Known(t)]
  <2>1. DataOK' BY DEF RequestStart, TypeInv, DataOK
  <2>2. owner[t] \in Users
    BY DEF RequestStart, TypeInv, TokensBound
  <2>3. j \in Jobs
    <3>1. Known(t) \subseteq Labels BY DEF Known
    <3> QED BY <2>2, <3>1, IdleJobOK DEF Jobs, Pcs
  <2>4. JobBound(j) /\ j.pc \notin LoginPcs
    BY <2>2, IdleJobOK DEF JobBound, Jobs, LoginPcs
  <2> QED BY <2>1, <2>3, <2>4, Placed DEF RequestStart
<1>3. CASE \E t \in Tokens : Kick(p, t)
  <2> PICK t \in Tokens : Kick(p, t)
    BY <1>3
  <2> DEFINE j == [IdleJob EXCEPT !.pc = "blacklist", !.usr = owner[t], !.tok = t,
                                  !.calm = NoLogin(owner[t])]
  <2>1. DataOK' BY DEF Kick, TypeInv, DataOK
  <2>2. owner[t] \in Users
    BY DEF Kick, TypeInv, TokensBound
  <2>3. j \in Jobs
    BY <1>0, <2>2, IdleJobOK DEF Jobs, Pcs
  <2>4. JobBound(j) /\ j.pc \notin LoginPcs
    BY <2>2, IdleJobOK DEF JobBound, Jobs, LoginPcs
  <2> QED BY <2>1, <2>3, <2>4, Placed DEF Kick
<1>4. CASE \E u \in Users : Delete(p, u)
  <2> PICK u \in Users : Delete(p, u)
    BY <1>4
  <2> DEFINE j == [IdleJob EXCEPT !.pc = "deletePv", !.usr = u, !.calm = NoLogin(u)]
  <2>1. DataOK' BY DEF Delete, RemoveRows, TypeInv, DataOK
  <2>2. j \in Jobs
    BY <1>0, IdleJobOK DEF Jobs, Pcs
  <2>3. JobBound(j) /\ j.pc \notin LoginPcs
    BY IdleJobOK DEF JobBound, Jobs, LoginPcs, TokPcs
  <2> QED BY <2>1, <2>2, <2>3, Placed DEF Delete, RemoveRows
<1>5. CASE \E u \in Users, w \in BOOLEAN, s \in {"keep", "enable", "disable"} :
             AdminUpdate(p, u, w, s)
  <2> PICK u \in Users, w \in BOOLEAN, s \in {"keep", "enable", "disable"} :
             AdminUpdate(p, u, w, s)
    BY <1>5
  <2> DEFINE j == [IdleJob EXCEPT !.pc = IF w THEN "pwUpdate" ELSE "lockRow",
                                  !.usr = u, !.then = s, !.calm = NoLogin(u)]
  <2>1. DataOK' BY DEF AdminUpdate, TypeInv, DataOK
  <2>2. j \in Jobs
    <3>1. (IF w THEN "pwUpdate" ELSE "lockRow") \in Pcs
      BY DEF Pcs
    <3> QED BY <1>0, <3>1, IdleJobOK DEF Jobs
  <2>3. JobBound(j) /\ j.pc \notin LoginPcs
    BY IdleJobOK DEF JobBound, Jobs, LoginPcs, TokPcs
  <2> QED BY <2>1, <2>2, <2>3, Placed DEF AdminUpdate
<1> QED BY <1>1, <1>2, <1>3, <1>4, <1>5 DEF Arrive

LEMMA ClockTypeInv ==
  ASSUME TypeInv, Clock
  PROVE  TypeInv'
<1> USE DEF db, redis, past
<1>1. UNCHANGED <<job, owner, held>> /\ rows' \subseteq rows /\ DataOK'
  <2>1. CASE \E t \in Tokens : Age(t)
    <3> PICK t \in Tokens : Age(t) BY <2>1
    <3>1. age' \in [Tokens -> {Fresh, Closing, Expired, Dead}]
      BY DEF Age, TypeInv, DataOK, Fresh, Closing, Expired, Dead
    <3> QED BY <3>1 DEF Age, TypeInv, DataOK
  <2>2. CASE \E t \in Tokens : BlacklistExpires(t)
    BY <2>2 DEF BlacklistExpires, TypeInv, DataOK
  <2>3. CASE \E t \in Tokens : CronRemove(t)
    BY <2>3 DEF CronRemove, RemoveRows, TypeInv, DataOK
  <2>4. CASE \E u \in Users : AuthTokExpires(u)
    BY <2>4 DEF AuthTokExpires, TypeInv, DataOK
  <2> QED BY <2>1, <2>2, <2>3, <2>4 DEF Clock
<1> QED BY <1>1 DEF TypeInv, JobsOK, TokensBound, LoginsBound

LEMMA StepTypeInv ==
  ASSUME NEW p \in Procs, TypeInv, Step(p)
  PROVE  TypeInv'
  BY LoginTypeInv, GuardTypeInv, HandlerTypeInv, ClearTypeInv, UpdateTypeInv DEF Step

LEMMA AbortTypeInv ==
  ASSUME NEW p \in Procs, TypeInv, Abort(p)
  PROVE  TypeInv'
<1>1. DataOK' BY DEF Abort, db, redis, past, TypeInv, DataOK
<1> QED BY <1>1, Ended DEF Abort, db

LEMMA NextTypeInv == TypeInv /\ [Next]_vars => TypeInv'
<1> SUFFICES ASSUME TypeInv, [Next]_vars
             PROVE  TypeInv'
  OBVIOUS
<1>1. CASE \E p \in Procs : Arrive(p)
  BY <1>1, ArriveTypeInv
<1>2. CASE \E p \in Procs : Step(p)
  BY <1>2, StepTypeInv
<1>3. CASE \E p \in Procs : Abort(p)
  BY <1>3, AbortTypeInv
<1>4. CASE Clock
  BY <1>4, ClockTypeInv
<1>5. CASE UNCHANGED vars
  BY <1>5 DEF vars, TypeInv, DataOK, JobsOK, TokensBound, LoginsBound
<1> QED BY <1>1, <1>2, <1>3, <1>4, <1>5 DEF Next

\* TypeCorrect: every variable stays in its type, whatever the handlers do and
\* however many of them run.
THEOREM TypeCorrect == Spec => []TypeOK
<1>1. TypeInv => TypeOK
  BY DEF TypeInv, DataOK, JobsOK, TypeOK
<1> QED BY <1>1, InitTypeInv, NextTypeInv, PTL DEF Spec

-----------------------------------------------------------------------------
\* How tokens age while handlers work on them.

\* A token that was not issued has no history.
UnissuedClean == \A t \in Tokens : ~Issued(t) => age[t] = Fresh /\ black[t] = "none"

GuardPcs == {"recheck", "verify", "lookup", "reissue", "reissueRefresh", "dropOld",
             "checkPv", "checkDevice"}

\* The token a handler works on was issued; the one a login or a refresh just
\* issued is fresh; a refresh works on a token whose JWT has expired.
JobAge(j) ==
    /\ j.pc \in TokPcs => Issued(j.tok)
    /\ j.pc \in LoginPcs \ {"loginInsert"} => age[j.tok] = Fresh
    /\ j.new # NoTok => Issued(j.new) /\ age[j.new] = Fresh
    /\ j.pc \in {"lookup", "reissue", "reissueRefresh", "dropOld"} => age[j.tok] >= Expired
    /\ j.how = "refresh" => /\ j.tok \in Tokens /\ age[j.tok] >= Expired
                            /\ j.pc \notin LoginPcs \cup GuardPcs
    /\ j.pc = "logoutPv" => ~MultiDevice

AgeInv == UnissuedClean /\ \A p \in Procs : JobAge(job[p])

LEMMA InitAgeInv == Init => AgeInv
  BY SessionAssumption, IdleJobOK DEF Init, AgeInv, UnissuedClean, JobAge, IdleJob, NoTok,
     TokPcs, LoginPcs, Issued

\* Nothing was issued, no token aged and only the record of p changed.
LEMMA AgeRecord ==
  ASSUME NEW p \in Procs, AgeInv, UNCHANGED <<owner, age>>, JobAge(job'[p]),
         \A q \in Procs \ {p} : job'[q] = job[q],
         \A t \in Tokens : ~Issued(t) => black'[t] = black[t]
  PROVE  AgeInv'
<1>1. UnissuedClean'
  BY DEF AgeInv, UnissuedClean, Issued
<1>2. \A q \in Procs : JobAge(job'[q])
  BY DEF AgeInv
<1> QED BY <1>1, <1>2 DEF AgeInv, JobAge, Issued

LEMMA IdleAge == JobAge(IdleJob)
  BY DEF JobAge, IdleJob, TokPcs, LoginPcs, NoTok

LEMMA AgeEnds ==
  ASSUME NEW p \in Procs, TypeInv, AgeInv, End(p), UNCHANGED <<owner, age>>,
         \A t \in Tokens : ~Issued(t) => black'[t] = black[t]
  PROVE  AgeInv'
  BY AgeRecord, IdleAge, EndJob DEF TypeInv

\* A handler goes on to another call on the same token.
LEMMA AgeGoes ==
  ASSUME NEW p \in Procs, NEW l \in Pcs, TypeInv, AgeInv, Goto(p, l),
         UNCHANGED <<owner, age>>,
         \A t \in Tokens : ~Issued(t) => black'[t] = black[t],
         l \in TokPcs => job[p].pc \in TokPcs,
         l \in LoginPcs \ {"loginInsert"} => job[p].pc \in LoginPcs \ {"loginInsert"},
         l \in {"lookup", "reissue", "reissueRefresh", "dropOld"} =>
            age[job[p].tok] >= Expired,
         l \in LoginPcs \cup GuardPcs => job[p].pc \in LoginPcs \cup GuardPcs,
         l = "logoutPv" => ~MultiDevice
  PROVE  AgeInv'
<1> DEFINE j == [job[p] EXCEPT !.pc = l]
<1>1. job[p] \in Jobs /\ job \in [Procs -> Jobs] /\ JobAge(job[p])
  BY DEF TypeInv, JobsOK, AgeInv
<1>2. j.pc = l /\ j.tok = job[p].tok /\ j.new = job[p].new /\ j.how = job[p].how
  BY <1>1 DEF Jobs
<1>3. job'[p] = j /\ \A q \in Procs \ {p} : job'[q] = job[q]
  BY <1>1 DEF Goto, Put
<1>4. JobAge(j)
  BY <1>1, <1>2 DEF JobAge
<1> QED BY <1>3, <1>4, AgeRecord

\* A new token is issued to the user of p: it is fresh and nobody forbade it.
LEMMA AgeInsert ==
  ASSUME NEW p \in Procs, NEW t \in Tokens, TypeInv, AgeInv, Insert(t, job[p].usr),
         job[p].usr \in Users, UNCHANGED <<age, black>>,
         \A q \in Procs \ {p} : job'[q] = job[q],
         JobAge(job[p])'
  PROVE  AgeInv'
<1>1. ~Issued(t) /\ owner' = [owner EXCEPT ![t] = job[p].usr]
  BY DEF Insert, IsNext
<1>2. \A s \in Tokens : s # t => owner'[s] = owner[s]
  BY <1>1 DEF TypeInv, DataOK
<1>3. owner'[t] # Nobody
  BY <1>1, SessionAssumption DEF TypeInv, DataOK
<1>4. UnissuedClean'
  BY <1>2, <1>3 DEF AgeInv, UnissuedClean, Issued
<1>5. ASSUME NEW q \in Procs, q # p
      PROVE  JobAge(job[q])'
  <2>1. JobAge(job[q]) /\ JobBound(job[q]) /\ job[q] \in Jobs /\ job'[q] = job[q]
    BY <1>5 DEF AgeInv, TypeInv, JobsOK
  <2>2. \A s \in Tokens : Issued(s) => Issued(s)'
    BY <1>2, <1>3 DEF Issued
  <2>3. job[q].pc \in TokPcs => job[q].tok \in Tokens
    BY <2>1 DEF JobBound
  <2>4. job[q].new # NoTok => job[q].new \in Tokens
    BY <2>1 DEF Jobs
  <2>5. \A s \in Tokens \cup {NoTok} : age'[s] = age[s]
    OBVIOUS
  <2> QED BY <2>1, <2>2, <2>3, <2>4 DEF JobAge
<1> QED BY <1>4, <1>5 DEF AgeInv

LEMMA LoginAgeInv ==
  ASSUME NEW p \in Procs, TypeInv, AgeInv, LoginStep(p)
  PROVE  AgeInv'
<1> USE DEF db, redis, past, At
<1>1. CASE LoginInsert(p)
  <2>1. CASE End(p) /\ UNCHANGED db
    BY <1>1, <2>1, AgeEnds DEF LoginInsert
  <2>2. CASE ~(End(p) /\ UNCHANGED db)
    <3>1. PICK t \in Tokens :
               /\ Insert(t, job[p].usr)
               /\ Put(p, [job[p] EXCEPT !.pc = "loginRefresh", !.tok = t])
      BY <1>1, <2>2 DEF LoginInsert
    <3> DEFINE j == [job[p] EXCEPT !.pc = "loginRefresh", !.tok = t]
    <3>2. /\ job \in [Procs -> Jobs] /\ job[p] \in Jobs /\ job[p].usr \in Users
          /\ JobAge(job[p]) /\ job[p].pc = "loginInsert"
          /\ UNCHANGED <<age, black>>
      BY <1>1, <2>2 DEF LoginInsert, TypeInv, JobsOK, JobBound, AgeInv
    <3>3. job'[p] = j /\ \A q \in Procs \ {p} : job'[q] = job[q]
      BY <3>1, <3>2 DEF Put
    <3>4. /\ j.pc = "loginRefresh" /\ j.tok = t /\ j.new = job[p].new
          /\ j.how = job[p].how
      BY <3>2 DEF Jobs
    <3>5. JobAge(job[p])'
      <4>1. /\ ~Issued(t) /\ age[t] = Fresh
            /\ \A s \in Tokens : Issued(s) \/ s = t => Issued(s)'
        BY <3>1, <3>2, SessionAssumption
           DEF Insert, IsNext, AgeInv, UnissuedClean, Issued, TypeInv, DataOK
      <4>2. job[p].new # NoTok => job[p].new \in Tokens
        BY <3>2 DEF Jobs
      <4>3. job[p].how # "refresh"
        BY <3>2 DEF JobAge, LoginPcs
      <4> QED BY <3>2, <3>3, <3>4, <4>1, <4>2, <4>3 DEF JobAge
    <3> QED BY <3>1, <3>2, <3>3, <3>5, AgeInsert
  <2> QED BY <2>1, <2>2
<1>2. CASE LoginRefresh(p)
  <2>1. CASE End(p) BY <1>2, <2>1, AgeEnds DEF LoginRefresh
  <2>2. CASE Goto(p, "loginCache")
    BY <1>2, <2>2, AgeGoes DEF LoginRefresh, Pcs, LoginPcs, TokPcs, GuardPcs
  <2> QED BY <1>2, <2>1, <2>2 DEF LoginRefresh
<1>3. CASE LoginCache(p)
  BY <1>3, AgeGoes DEF LoginCache, Pcs, LoginPcs, TokPcs, GuardPcs
<1>4. CASE LoginPv(p)
  BY <1>4, AgeGoes DEF LoginPv, Pcs, LoginPcs, TokPcs, GuardPcs
<1>5. CASE LoginReply(p)
  BY <1>5, AgeEnds DEF LoginReply
<1> QED BY <1>1, <1>2, <1>3, <1>4, <1>5 DEF LoginStep

\* The token that a pass of the guard let through was issued.
LEMMA PassedAgeInv ==
  ASSUME NEW p \in Procs, NEW t \in Tokens, NEW how \in {"direct", "refresh"},
         TypeInv, AgeInv, Passed(p, t, how), job[p].pc \in TokPcs \ LoginPcs,
         UNCHANGED <<owner, age, black>>, Issued(t), job[p].how # "refresh",
         how = "refresh" => age[job[p].tok] >= Expired
  PROVE  AgeInv'
<1> DEFINE j1 == [job[p] EXCEPT !.pc = "recheck", !.pass = 2, !.tok = t, !.new = NoTok]
           j2 == [job[p] EXCEPT !.pc = "admitted", !.how = how]
<1>1. /\ job \in [Procs -> Jobs] /\ job[p] \in Jobs /\ JobAge(job[p])
      /\ job[p].tok \in Tokens
  BY DEF TypeInv, JobsOK, AgeInv, JobBound
<1>2. CASE Put(p, j1)
  <2>1. j1.pc = "recheck" /\ j1.tok = t /\ j1.new = NoTok /\ j1.how = job[p].how
    BY <1>1 DEF Jobs
  <2>2. job'[p] = j1 /\ \A q \in Procs \ {p} : job'[q] = job[q]
    BY <1>1, <1>2 DEF Put
  <2>3. JobAge(j1)
    BY <2>1 DEF JobAge, TokPcs, LoginPcs, GuardPcs
  <2> QED BY <2>2, <2>3, AgeRecord
<1>3. CASE Put(p, j2)
  <2>1. j2.pc = "admitted" /\ j2.tok = job[p].tok /\ j2.new = job[p].new /\ j2.how = how
    BY <1>1 DEF Jobs
  <2>2. job'[p] = j2 /\ \A q \in Procs \ {p} : job'[q] = job[q]
    BY <1>1, <1>3 DEF Put
  <2>3. JobAge(j2)
    BY <1>1, <2>1 DEF JobAge, TokPcs, LoginPcs, GuardPcs
  <2> QED BY <2>2, <2>3, AgeRecord
<1> QED BY <1>2, <1>3 DEF Passed

LEMMA GuardAgeInv ==
  ASSUME NEW p \in Procs, TypeInv, AgeInv, GuardStep(p)
  PROVE  AgeInv'
<1> USE DEF db, redis, past, At
<1>0. /\ job \in [Procs -> Jobs] /\ job[p] \in Jobs /\ JobAge(job[p]) /\ JobBound(job[p])
      /\ GuardPcs \subseteq TokPcs \ LoginPcs
      /\ job[p].pc \in TokPcs => job[p].tok \in Tokens
  BY DEF TypeInv, JobsOK, AgeInv, JobBound, GuardPcs, TokPcs, LoginPcs
<1>1. CASE Recheck(p)
  <2>1. CASE End(p) BY <1>1, <2>1, AgeEnds DEF Recheck
  <2>2. CASE Goto(p, "verify")
    BY <1>1, <2>2, AgeGoes DEF Recheck, Pcs, LoginPcs, TokPcs, GuardPcs
  <2> QED BY <1>1, <2>1, <2>2 DEF Recheck
<1>2. CASE Verify(p)
  <2>1. CASE age[job[p].tok] < Expired
    BY <1>2, <2>1, AgeGoes DEF Verify, Pcs, LoginPcs, TokPcs, GuardPcs
  <2>2. CASE ~(age[job[p].tok] < Expired)
    <3>1. job[p].tok \in Tokens /\ age[job[p].tok] \in {Fresh, Closing, Expired, Dead}
      BY <1>0, <1>2 DEF Verify, TypeInv, DataOK, TokPcs
    <3>2. age[job[p].tok] >= Expired
      BY <3>1, <2>2 DEF Fresh, Closing, Expired, Dead
    <3> QED BY <1>2, <2>2, <3>2, AgeGoes DEF Verify, Pcs, LoginPcs, TokPcs, GuardPcs
  <2> QED BY <2>1, <2>2
<1>3. CASE Lookup(p)
  <2>1. CASE End(p) BY <1>3, <2>1, AgeEnds DEF Lookup
  <2>2. CASE Goto(p, "reissue")
    <3>1. age[job[p].tok] >= Expired
      BY <1>0, <1>3 DEF Lookup, JobAge
    <3> QED BY <1>3, <2>2, <3>1, AgeGoes DEF Lookup, Pcs, LoginPcs, TokPcs, GuardPcs
  <2> QED BY <1>3, <2>1, <2>2 DEF Lookup
<1>4. CASE Reissue(p)
  <2>1. CASE End(p) /\ UNCHANGED db
    BY <1>4, <2>1, AgeEnds DEF Reissue
  <2>2. CASE ~(End(p) /\ UNCHANGED db)
    <3>1. PICK t \in Tokens :
               /\ Insert(t, job[p].usr)
               /\ Put(p, [job[p] EXCEPT !.pc = "reissueRefresh", !.new = t])
      BY <1>4, <2>2 DEF Reissue
    <3> DEFINE j == [job[p] EXCEPT !.pc = "reissueRefresh", !.new = t]
    <3>2. /\ job[p].usr \in Users /\ job[p].pc = "reissue" /\ job[p].tok \in Tokens
          /\ UNCHANGED <<age, black>>
      BY <1>0, <1>4, <2>2 DEF Reissue, JobBound, TokPcs
    <3>3. job'[p] = j /\ \A q \in Procs \ {p} : job'[q] = job[q]
      BY <1>0, <3>1 DEF Put
    <3>4. /\ j.pc = "reissueRefresh" /\ j.tok = job[p].tok /\ j.new = t
          /\ j.how = job[p].how
      BY <1>0 DEF Jobs
    <3>5. JobAge(job[p])'
      <4>1. /\ ~Issued(t) /\ age[t] = Fresh
            /\ \A s \in Tokens : Issued(s) \/ s = t => Issued(s)'
        BY <3>1, <3>2, SessionAssumption
           DEF Insert, IsNext, AgeInv, UnissuedClean, Issued, TypeInv, DataOK
      <4>2. Issued(job[p].tok) /\ age[job[p].tok] >= Expired /\ job[p].how # "refresh"
        BY <1>0, <3>2 DEF JobAge, TokPcs, GuardPcs
      <4> QED BY <3>2, <3>3, <3>4, <4>1, <4>2 DEF JobAge, LoginPcs
    <3> QED BY <3>1, <3>2, <3>3, <3>5, AgeInsert
  <2> QED BY <2>1, <2>2
<1>5. CASE ReissueRefresh(p)
  <2>1. CASE End(p) BY <1>5, <2>1, AgeEnds DEF ReissueRefresh
  <2>2. CASE Goto(p, "dropOld")
    <3>1. age[job[p].tok] >= Expired
      BY <1>0, <1>5 DEF ReissueRefresh, JobAge
    <3> QED BY <1>5, <2>2, <3>1, AgeGoes DEF ReissueRefresh, Pcs, LoginPcs, TokPcs, GuardPcs
  <2> QED BY <1>5, <2>1, <2>2 DEF ReissueRefresh
<1>6. CASE DropOld(p)
  <2>1. /\ job[p].pc \in GuardPcs /\ age[job[p].tok] >= Expired /\ job[p].how # "refresh"
        /\ job[p].new \in Tokens /\ Issued(job[p].new)
    BY <1>0, <1>6, SessionAssumption DEF DropOld, JobAge, JobBound, GuardPcs, NoTok, Tokens
  <2>2. Passed(p, job[p].new, "refresh") /\ UNCHANGED <<owner, age, black>>
    BY <1>6 DEF DropOld
  <2> QED BY <1>0, <2>1, <2>2, PassedAgeInv
<1>7. CASE CheckPv(p) \/ CheckDevice(p)
  <2>1. /\ job[p].pc \in GuardPcs /\ job[p].how # "refresh" /\ job[p].tok \in Tokens
        /\ Issued(job[p].tok) /\ UNCHANGED <<owner, age, black>>
    BY <1>0, <1>7 DEF CheckPv, CheckDevice, JobAge, TokPcs, GuardPcs
  <2>2. CASE End(p) BY <2>1, <2>2, AgeEnds
  <2>3. CASE Goto(p, "checkDevice")
    BY <2>1, <2>3, AgeGoes, <1>0 DEF Pcs, LoginPcs, TokPcs, GuardPcs
  <2>4. CASE Passed(p, job[p].tok, "direct")
    BY <1>0, <2>1, <2>4, PassedAgeInv
  <2> QED BY <1>7, <2>2, <2>3, <2>4 DEF CheckPv, CheckDevice
<1> QED BY <1>1, <1>2, <1>3, <1>4, <1>5, <1>6, <1>7 DEF GuardStep

\* Behind the guard a handler works on the token it was given, or for a user.
LEMMA HandlerAgeInv ==
  ASSUME NEW p \in Procs, TypeInv, AgeInv, HandlerStep(p) \/ Abort(p)
  PROVE  AgeInv'
<1> USE DEF db, redis, past, At
<1>0. job \in [Procs -> Jobs] /\ job[p] \in Jobs /\ JobAge(job[p])
  BY DEF TypeInv, JobsOK, AgeInv
<1>1. CASE Reply(p) \/ Abort(p)
  BY <1>1, AgeEnds DEF Reply, Abort
<1>2. CASE Logout(p)
  <2> DEFINE j == [job[p] EXCEPT !.pc = "blacklist", !.calm = NoLogin(job[p].usr)]
  <2>1. job'[p] = j /\ \A q \in Procs \ {p} : job'[q] = job[q]
    BY <1>0, <1>2 DEF Logout, Put
  <2>2. j.pc = "blacklist" /\ j.tok = job[p].tok /\ j.new = job[p].new /\ j.how = job[p].how
    BY <1>0 DEF Jobs
  <2>3. JobAge(j)
    BY <1>0, <1>2, <2>2 DEF Logout, JobAge, TokPcs, LoginPcs, GuardPcs
  <2> QED BY <1>2, <2>1, <2>3, AgeRecord DEF Logout
<1>3. CASE ChangePassword(p)
  <2> DEFINE j == [job[p] EXCEPT !.pc = "pwUpdate", !.calm = NoLogin(job[p].usr)]
  <2>1. job'[p] = j /\ \A q \in Procs \ {p} : job'[q] = job[q]
    BY <1>0, <1>3 DEF ChangePassword, Put
  <2>2. j.pc = "pwUpdate" /\ j.tok = job[p].tok /\ j.new = job[p].new /\ j.how = job[p].how
    BY <1>0 DEF Jobs
  <2>3. JobAge(j)
    BY <1>0, <1>3, <2>2 DEF ChangePassword, JobAge, TokPcs, LoginPcs, GuardPcs
  <2> QED BY <1>3, <2>1, <2>3, AgeRecord DEF ChangePassword
<1> QED BY <1>1, <1>2, <1>3 DEF HandlerStep

LEMMA ClearAgeInv ==
  ASSUME NEW p \in Procs, TypeInv, AgeInv, ClearStep(p)
  PROVE  AgeInv'
<1> USE DEF db, redis, past, At
<1>0. job[p] \in Jobs /\ JobAge(job[p]) /\ JobBound(job[p])
  BY DEF TypeInv, JobsOK, AgeInv
<1>1. CASE Blacklist(p)
  <2>1. \A t \in Tokens : ~Issued(t) => black'[t] = black[t]
    <3>1. Issued(job[p].tok)
      BY <1>0, <1>1 DEF Blacklist, JobAge, TokPcs
    <3> QED BY <1>1, <3>1 DEF Blacklist, TypeInv, DataOK
  <2>2. CASE End(p) BY <1>1, <2>1, <2>2, AgeEnds DEF Blacklist
  <2>3. CASE \/ MultiDevice /\ Goto(p, "removeRow")
             \/ ~MultiDevice /\ Goto(p, "logoutPv")
    BY <1>1, <2>1, <2>3, AgeGoes DEF Blacklist, Pcs, TokPcs, LoginPcs, GuardPcs
  <2> QED BY <1>1, <2>2, <2>3 DEF Blacklist
<1>2. CASE RemoveRow(p)
  BY <1>2, AgeEnds DEF RemoveRow
<1>3. CASE LogoutPv(p)
  BY <1>3, AgeGoes DEF LogoutPv, Pcs, TokPcs, LoginPcs, GuardPcs
<1>4. CASE LogoutTok(p)
  BY <1>4, AgeEnds DEF LogoutTok
<1> QED BY <1>1, <1>2, <1>3, <1>4 DEF ClearStep

LEMMA UpdateAgeInv ==
  ASSUME NEW p \in Procs, TypeInv, AgeInv, UpdateStep(p)
  PROVE  AgeInv'
<1> USE DEF db, redis, past, At
<1>1. UNCHANGED <<owner, age, black>>
  BY DEF UpdateStep, PwUpdate, PvGet, PvSet, LockRow, DisablePv, DisableTok, DisableCommit,
     DeletePv, DeleteTok
<1>2. \/ End(p)
      \/ \E l \in {"pvGet", "pvSet", "lockRow", "disablePv", "disableTok", "disableCommit",
                  "deleteTok"} : Goto(p, l)
  BY DEF UpdateStep, PwUpdate, PvGet, PvSet, LockRow, DisablePv, DisableTok, DisableCommit,
     DeletePv, DeleteTok, AfterPassword
<1> QED BY <1>1, <1>2, AgeEnds, AgeGoes DEF Pcs, TokPcs, LoginPcs, GuardPcs

LEMMA LoginStartAgeInv ==
  ASSUME NEW p \in Procs, NEW u \in Users, TypeInv, AgeInv, LoginStart(p, u)
  PROVE  AgeInv'
<1> USE DEF db, redis, past
<1>1. \A q \in Procs : job[q] \in Jobs /\ JobAge(job[q])
  BY DEF TypeInv, JobsOK, AgeInv
<1>2. UNCHANGED <<owner, age, black>>
  BY DEF LoginStart
<1>3. /\ job'[p].pc = "loginInsert" /\ job'[p].new = NoTok /\ job'[p].how = "direct"
      /\ \A q \in Procs \ {p} :
            /\ job'[q].pc = job[q].pc /\ job'[q].tok = job[q].tok
            /\ job'[q].new = job[q].new /\ job'[q].how = job[q].how
  BY <1>1 DEF LoginStart, IdleJob, Jobs
<1>4. ASSUME NEW q \in Procs
      PROVE  JobAge(job[q])'
  <2>1. CASE q = p
    BY <1>3, <2>1 DEF JobAge, TokPcs, LoginPcs
  <2>2. CASE q # p
    BY <1>1, <1>2, <1>3, <2>2 DEF JobAge, Issued
  <2> QED BY <2>1, <2>2
<1> QED BY <1>2, <1>4 DEF AgeInv, UnissuedClean, Issued

LEMMA ArriveAgeInv ==
  ASSUME NEW p \in Procs, TypeInv, AgeInv, Arrive(p)
  PROVE  AgeInv'
<1> USE DEF db, redis, past
<1>0. job \in [Procs -> Jobs]
  BY DEF TypeInv, JobsOK
<1>1. CASE \E u \in Users : LoginStart(p, u)
  BY <1>1, LoginStartAgeInv
<1>2. CASE ~ \E u \in Users : LoginStart(p, u)
  <2>1. UNCHANGED <<owner, age, black>>
    BY <1>2 DEF Arrive, RequestStart, Kick, Delete, AdminUpdate
  <2>2. /\ \A q \in Procs \ {p} : job'[q] = job[q]
        /\ job'[p].new = NoTok /\ job'[p].how = "direct"
        /\ \/ /\ job'[p].pc \in {"verify", "blacklist"}
              /\ \E t \in held \cup rows : job'[p].tok = t
           \/ job'[p].pc \in {"pwUpdate", "lockRow", "deletePv"}
    <3>1. CASE \E t \in Tokens, r \in {"account", "other"} : RequestStart(p, t, r)
      BY <1>0, <3>1 DEF RequestStart, Put, IdleJob
    <3>2. CASE \E t \in Tokens : Kick(p, t)
      BY <1>0, <3>2 DEF Kick, Put, IdleJob
    <3>3. CASE \E u \in Users : Delete(p, u)
      BY <1>0, <3>3 DEF Delete, Put, IdleJob
    <3>4. CASE \E u \in Users, w \in BOOLEAN, s \in {"keep", "enable", "disable"} :
                 AdminUpdate(p, u, w, s)
      BY <1>0, <3>4 DEF AdminUpdate, Put, IdleJob
    <3> QED BY <1>2, <3>1, <3>2, <3>3, <3>4 DEF Arrive
  <2>3. \A t \in held \cup rows : Issued(t)
    BY SessionAssumption DEF TypeInv, TokensBound, Issued
  <2>4. JobAge(job'[p])
    BY <2>2, <2>3 DEF JobAge, TokPcs, LoginPcs
  <2> QED BY <2>1, <2>2, <2>4, AgeRecord
<1> QED BY <1>1, <1>2

LEMMA ClockAgeInv ==
  ASSUME TypeInv, AgeInv, Clock
  PROVE  AgeInv'
<1> USE DEF db, redis, past
<1>0. UNCHANGED <<owner, job>> /\ \A p \in Procs : JobAge(job[p]) /\ job[p] \in Jobs /\ JobBound(job[p])
  BY DEF Clock, Age, BlacklistExpires, CronRemove, AuthTokExpires, AgeInv, TypeInv, JobsOK
<1>1. CASE \E t \in Tokens : Age(t)
  <2> PICK t \in Tokens : Age(t)
    BY <1>1
  <2>1. /\ Issued(t) /\ ~BeingIssued(t) /\ UNCHANGED black
        /\ age' = [age EXCEPT ![t] = @ + 1] /\ age \in [Tokens -> {Fresh, Closing, Expired, Dead}]
    BY DEF Age, TypeInv, DataOK
  <2>2. age'[t] = age[t] + 1 /\ \A s \in Tokens : s # t => age'[s] = age[s]
    BY <2>1
  <2>3. \A s \in Tokens : age[s] >= Expired => age'[s] >= Expired
    BY <2>1, <2>2 DEF Fresh, Closing, Expired, Dead
  <2>4. UnissuedClean'
    BY <1>0, <2>1, <2>2 DEF AgeInv, UnissuedClean, Issued
  <2>5. ASSUME NEW p \in Procs
        PROVE  JobAge(job[p])'
    <3>1. /\ job[p].pc \in TokPcs => job[p].tok \in Tokens
          /\ job[p].new # NoTok => job[p].new \in Tokens /\ job[p].new # t
          /\ job[p].pc \in LoginPcs \ {"loginInsert"} => job[p].tok \in Tokens /\ job[p].tok # t
      BY <1>0, <2>1 DEF JobBound, Jobs, BeingIssued, LoginPcs, TokPcs
    <3> QED BY <1>0, <2>2, <2>3, <3>1 DEF JobAge, Issued, TokPcs
  <2> QED BY <2>4, <2>5 DEF AgeInv
<1>2. CASE ~ \E t \in Tokens : Age(t)
  <2>1. UNCHANGED age /\ \A t \in Tokens : black[t] = "none" => black'[t] = "none"
    BY <1>2 DEF Clock, BlacklistExpires, CronRemove, AuthTokExpires, TypeInv, DataOK
  <2> QED BY <1>0, <2>1 DEF AgeInv, UnissuedClean, JobAge, Issued
<1> QED BY <1>1, <1>2

LEMMA NextAgeInv == TypeInv /\ AgeInv /\ [Next]_vars => AgeInv'
<1> SUFFICES ASSUME TypeInv, AgeInv, [Next]_vars
             PROVE  AgeInv'
  OBVIOUS
<1>1. ASSUME NEW p \in Procs, Arrive(p) \/ Step(p) \/ Abort(p)
      PROVE  AgeInv'
  BY <1>1, ArriveAgeInv, LoginAgeInv, GuardAgeInv, HandlerAgeInv, ClearAgeInv, UpdateAgeInv
     DEF Step
<1>2. CASE Clock
  BY <1>2, ClockAgeInv
<1>3. CASE UNCHANGED vars
  BY <1>3 DEF vars, AgeInv, UnissuedClean, JobAge, Issued
<1> QED BY <1>1, <1>2, <1>3 DEF Next

-----------------------------------------------------------------------------
\* The refinement.

\* What SessionAbs sees of a state.
AbsGate   == [u \in Users |-> IF pv[u] = "one" THEN "open" ELSE "shut"]
AbsStage  == [t \in Tokens |-> StageOf(t)]
AbsAlive  == {u \in Users : account[u] # "deleted"}
AbsLogins == {u \in Users : ~NoLogin(u)}

AbsStep == [Abs!Next]_Abs!absvars

\* The stage of a token is read off these variables.
StageSource == <<owner, age, rows, refreshRows, black>>

LEMMA StageKept == ASSUME UNCHANGED StageSource PROVE UNCHANGED AbsStage
  BY DEF StageSource, AbsStage, StageOf, Issued

LEMMA GateKept == ASSUME UNCHANGED pv PROVE UNCHANGED AbsGate
  BY DEF AbsGate

LEMMA AliveKept == ASSUME UNCHANGED account PROVE UNCHANGED AbsAlive
  BY DEF AbsAlive

LEMMA AbsStutters ==
  ASSUME UNCHANGED <<AbsGate, AbsStage, AbsAlive, AbsLogins>>
  PROVE  AbsStep
  BY DEF AbsStep, Abs!absvars, AbsGate, AbsStage, AbsAlive, AbsLogins

LEMMA AbsAdvances ==
  ASSUME NEW t \in Tokens, UNCHANGED <<AbsGate, AbsAlive, AbsLogins>>,
         StageOf(t)' \in Abs!After(StageOf(t)),
         \A s \in Tokens \ {t} : StageOf(s)' = StageOf(s)
  PROVE  AbsStep
<1>1. AbsStage[t] = StageOf(t) /\ AbsStage' = [AbsStage EXCEPT ![t] = StageOf(t)']
  BY DEF AbsStage
<1>2. Abs!Advance(t)
  BY <1>1 DEF Abs!Advance, AbsGate, AbsStage, AbsAlive, AbsLogins
<1> QED BY <1>2 DEF AbsStep, Abs!Next

LEMMA AbsOpens ==
  ASSUME NEW u \in Users, u \in AbsLogins, TypeInv, UNCHANGED <<AbsStage, AbsAlive, AbsLogins>>,
         pv' = [pv EXCEPT ![u] = "one"]
  PROVE  AbsStep
<1>1. AbsGate' = [AbsGate EXCEPT ![u] = "open"]
  BY DEF AbsGate, TypeInv, DataOK
<1>2. Abs!Open(u)
  BY <1>1 DEF Abs!Open, AbsGate, AbsStage, AbsAlive, AbsLogins
<1> QED BY <1>2 DEF AbsStep, Abs!Next

LEMMA AbsShuts ==
  ASSUME NEW u \in Users, NEW v \in {"none", "more"}, TypeInv,
         UNCHANGED <<AbsStage, AbsAlive, AbsLogins>>, pv' = [pv EXCEPT ![u] = v]
  PROVE  AbsStep
<1>1. AbsGate' = [AbsGate EXCEPT ![u] = "shut"]
  BY DEF AbsGate, TypeInv, DataOK
<1>2. Abs!Shut(u)
  BY <1>1 DEF Abs!Shut, AbsGate, AbsStage, AbsAlive, AbsLogins
<1> QED BY <1>2 DEF AbsStep, Abs!Next

LEMMA AbsLoginBegins ==
  ASSUME NEW u \in Users, u \in AbsAlive, UNCHANGED <<AbsGate, AbsStage, AbsAlive>>,
         AbsLogins' = AbsLogins \cup {u}
  PROVE  AbsStep
<1>1. Abs!LoginBegins(u)
  BY DEF Abs!LoginBegins, AbsGate, AbsStage, AbsAlive, AbsLogins
<1> QED BY <1>1 DEF AbsStep, Abs!Next

LEMMA AbsLoginEnds ==
  ASSUME NEW u \in Users, UNCHANGED <<AbsGate, AbsStage, AbsAlive>>,
         AbsLogins' \in {AbsLogins, AbsLogins \ {u}}
  PROVE  AbsStep
<1>1. CASE AbsLogins' = AbsLogins
  BY <1>1, AbsStutters
<1>2. CASE AbsLogins' = AbsLogins \ {u}
  <2>1. Abs!LoginEnds(u)
    BY <1>2 DEF Abs!LoginEnds, AbsGate, AbsStage, AbsAlive, AbsLogins
  <2> QED BY <2>1 DEF AbsStep, Abs!Next
<1> QED BY <1>1, <1>2

\* How one handler's record moves the set of users with a login under way.
LEMMA LoginsKept ==
  ASSUME NEW p \in Procs, \A q \in Procs \ {p} : job'[q] = job[q],
         \/ job[p].pc \notin LoginPcs /\ job'[p].pc \notin LoginPcs
         \/ job[p].pc \in LoginPcs /\ job'[p].pc \in LoginPcs /\ job'[p].usr = job[p].usr
  PROVE  UNCHANGED AbsLogins
<1> SUFFICES ASSUME NEW u \in Users
             PROVE  NoLogin(u)' = NoLogin(u)
  BY DEF AbsLogins
<1>1. NoLogin(u) \in BOOLEAN /\ NoLogin(u)' \in BOOLEAN
  BY DEF NoLogin
<1>2. NoLogin(u) <=> NoLogin(u)'
  BY DEF NoLogin
<1> QED BY <1>1, <1>2

LEMMA OneLess ==
  ASSUME NEW S, NEW T, NEW x, T \subseteq S, S \ {x} \subseteq T
  PROVE  T \in {S, S \ {x}}
<1>1. CASE x \in T
  <2>1. S = T BY <1>1
  <2> QED BY <2>1
<1>2. CASE x \notin T
  <2>1. T = S \ {x} BY <1>2
  <2> QED BY <2>1
<1> QED BY <1>1, <1>2

LEMMA LoginsEnded ==
  ASSUME NEW p \in Procs, \A q \in Procs \ {p} : job'[q] = job[q],
         job'[p].pc \notin LoginPcs
  PROVE  AbsLogins' \in {AbsLogins, AbsLogins \ {job[p].usr}}
<1>1. AbsLogins' \subseteq AbsLogins
  BY DEF AbsLogins, NoLogin
<1>2. AbsLogins \ {job[p].usr} \subseteq AbsLogins'
  BY DEF AbsLogins, NoLogin
<1> QED BY <1>1, <1>2, OneLess

\* The ages of a token, and what its stage is at each of them.
LEMMA Ages == \A n \in {Fresh, Closing, Expired, Dead} :
                 (n >= Expired) <=> n \in {Expired, Dead}
  BY DEF Fresh, Closing, Expired, Dead

LEMMA AgesDiffer == /\ Fresh # Closing /\ Fresh # Expired /\ Fresh # Dead
                    /\ Closing # Expired /\ Closing # Dead /\ Expired # Dead
  BY DEF Fresh, Closing, Expired, Dead

LEMMA StageCases ==
  ASSUME NEW t \in Tokens, DataOK
  PROVE  /\ ~Issued(t) => StageOf(t) = "unissued"
         /\ Issued(t) /\ age[t] = Fresh /\ black[t] = "none" => StageOf(t) = "usable"
         /\ Issued(t) /\ age[t] = Closing /\ black[t] = "none" => StageOf(t) = "lastMoments"
         /\ Issued(t) /\ age[t] \in {Fresh, Closing} /\ black[t] # "none" => StageOf(t) = "revoked"
         /\ Issued(t) /\ age[t] = Expired /\ t \in rows \cap refreshRows => StageOf(t) = "refreshable"
         /\ Issued(t) /\ age[t] = Expired /\ t \notin rows \cap refreshRows => StageOf(t) = "over"
         /\ Issued(t) /\ age[t] = Dead => StageOf(t) = "over"
  BY Ages, AgesDiffer DEF DataOK, StageOf

\* Removing rows ends what refreshable tokens among them had left.
LEMMA RowsRemoved ==
  ASSUME NEW T \in SUBSET Tokens, DataOK, RemoveRows(T), UNCHANGED <<owner, age, black>>
  PROVE  \A t \in Tokens :
            StageOf(t)' = IF t \in T /\ StageOf(t) = "refreshable" THEN "over" ELSE StageOf(t)
<1> SUFFICES ASSUME NEW t \in Tokens
             PROVE StageOf(t)' = IF t \in T /\ StageOf(t) = "refreshable" THEN "over" ELSE StageOf(t)
  OBVIOUS
<1>1. t \in (rows \cap refreshRows)' <=> t \in rows \cap refreshRows /\ t \notin T
  BY DEF RemoveRows
<1>2. Issued(t)' = Issued(t) /\ age'[t] = age[t] /\ black'[t] = black[t]
  BY DEF Issued
<1>3. age[t] \in {Fresh, Closing, Expired, Dead} /\ StageOf(t) \in Abs!Stages
  BY DEF DataOK, StageOf, Abs!Stages
<1> QED BY <1>1, <1>2, <1>3, Ages, AgesDiffer DEF StageOf

LEMMA AbsRowRemoved ==
  ASSUME NEW t \in Tokens, DataOK, RemoveRows({t}), UNCHANGED <<owner, age, black>>,
         UNCHANGED <<AbsGate, AbsAlive, AbsLogins>>
  PROVE  AbsStep
<1>1. \A s \in Tokens \ {t} : StageOf(s)' = StageOf(s)
  BY RowsRemoved
<1>2. CASE StageOf(t) = "refreshable"
  <2>1. StageOf(t)' = "over"
    BY <1>2, RowsRemoved
  <2>2. StageOf(t)' \in Abs!After(StageOf(t))
    BY <1>2, <2>1 DEF Abs!After, Abs!Stages
  <2> QED BY <1>1, <2>2, AbsAdvances
<1>3. CASE StageOf(t) # "refreshable"
  <2>1. StageOf(t)' = StageOf(t)
    BY <1>3, RowsRemoved
  <2>2. UNCHANGED AbsStage
    BY <1>1, <2>1 DEF AbsStage
  <2> QED BY <2>2, AbsStutters
<1> QED BY <1>2, <1>3

\* A handler that is not a login moves on without becoming one.
LEMMA StaysOther ==
  ASSUME NEW p \in Procs, TypeInv, job[p].pc \notin LoginPcs,
         \/ End(p)
         \/ \E l \in Pcs \ LoginPcs : Goto(p, l)
         \/ \E t \in Tokens, how \in {"direct", "refresh"} : Passed(p, t, how)
  PROVE  UNCHANGED AbsLogins
<1>0. job \in [Procs -> Jobs] /\ job[p] \in Jobs
  BY DEF TypeInv, JobsOK
<1>1. CASE End(p)
  BY <1>0, <1>1, LoginsKept, IdleJobOK DEF End, Put, LoginPcs
<1>2. CASE \E l \in Pcs \ LoginPcs : Goto(p, l)
  BY <1>0, <1>2, LoginsKept DEF Goto, Put, Jobs
<1>3. CASE \E t \in Tokens, how \in {"direct", "refresh"} : Passed(p, t, how)
  <2> PICK t \in Tokens, how \in {"direct", "refresh"} : Passed(p, t, how)
    BY <1>3
  <2> DEFINE j1 == [job[p] EXCEPT !.pc = "recheck", !.pass = 2, !.tok = t, !.new = NoTok]
             j2 == [job[p] EXCEPT !.pc = "admitted", !.how = how]
  <2>1. j1.pc = "recheck" /\ j2.pc = "admitted"
    BY <1>0 DEF Jobs
  <2>2. job'[p] \in {j1, j2} /\ \A q \in Procs \ {p} : job'[q] = job[q]
    BY <1>0 DEF Passed, Put
  <2> QED BY <2>1, <2>2, LoginsKept DEF LoginPcs
<1> QED BY <1>1, <1>2, <1>3

\* A new token becomes usable.
LEMMA AbsInserted ==
  ASSUME NEW t \in Tokens, NEW u \in Users, TypeInv, AgeInv, Insert(t, u),
         UNCHANGED <<age, black, refreshRows>>, UNCHANGED <<AbsGate, AbsAlive, AbsLogins>>
  PROVE  AbsStep
<1>0. DataOK
  BY DEF TypeInv
<1>1. ~Issued(t) /\ owner' = [owner EXCEPT ![t] = u] /\ rows' = rows \cup {t}
  BY DEF Insert, IsNext
<1>2. owner'[t] = u /\ \A s \in Tokens \ {t} : owner'[s] = owner[s]
  BY <1>0, <1>1 DEF DataOK
<1>3. StageOf(t) = "unissued" /\ StageOf(t)' = "usable"
  <2>1. Issued(t)' /\ age'[t] = Fresh /\ black'[t] = "none"
    BY <1>1, <1>2, SessionAssumption DEF Issued, AgeInv, UnissuedClean
  <2> QED BY <1>1, <2>1 DEF StageOf, Fresh, Expired
<1>4. \A s \in Tokens \ {t} : StageOf(s)' = StageOf(s)
  BY <1>1, <1>2 DEF StageOf, Issued
<1>5. StageOf(t)' \in Abs!After(StageOf(t))
  BY <1>3 DEF Abs!After, Abs!Stages
<1> QED BY <1>4, <1>5, AbsAdvances

\* A refresh token for a fresh access token makes no difference yet.
LEMMA FreshRefreshRow ==
  ASSUME NEW t \in Tokens, age[t] = Fresh, refreshRows' = refreshRows \cup {t},
         UNCHANGED <<owner, rows, age, black>>
  PROVE  UNCHANGED AbsStage
<1> SUFFICES ASSUME NEW s \in Tokens
             PROVE  StageOf(s)' = StageOf(s)
  BY DEF AbsStage
<1>1. CASE s = t
  BY <1>1 DEF StageOf, Issued, Fresh, Expired
<1>2. CASE s # t
  BY <1>2 DEF StageOf, Issued
<1> QED BY <1>1, <1>2

LEMMA LoginSimulates ==
  ASSUME NEW p \in Procs, TypeInv, AgeInv, LoginStep(p)
  PROVE  AbsStep
<1> USE DEF db, redis, past, At
<1>0. /\ job \in [Procs -> Jobs] /\ job[p] \in Jobs /\ job[p].pc \in LoginPcs
      /\ job[p].usr \in Users /\ JobAge(job[p]) /\ JobBound(job[p])
  BY DEF LoginStep, LoginInsert, LoginRefresh, LoginCache, LoginPv, LoginReply, LoginPcs,
     TypeInv, JobsOK, JobBound, AgeInv
<1>1. ASSUME End(p), UNCHANGED <<pv, account>>, UNCHANGED StageSource
      PROVE  AbsStep
  <2>1. job'[p].pc \notin LoginPcs /\ \A q \in Procs \ {p} : job'[q] = job[q]
    BY <1>0, <1>1, IdleJobOK DEF End, Put, LoginPcs
  <2> QED BY <1>0, <1>1, <2>1, LoginsEnded, AbsLoginEnds, StageKept, GateKept, AliveKept
<1>2. ASSUME NEW l \in LoginPcs, Goto(p, l)
      PROVE  UNCHANGED AbsLogins
  <2>1. /\ job'[p].pc = l /\ job'[p].usr = job[p].usr
        /\ \A q \in Procs \ {p} : job'[q] = job[q]
    BY <1>0, <1>2 DEF Goto, Put, Jobs
  <2> QED BY <1>0, <2>1, LoginsKept
<1>3. CASE LoginInsert(p)
  <2>1. CASE End(p) /\ UNCHANGED db
    BY <1>1, <1>3, <2>1 DEF LoginInsert, StageSource
  <2>2. CASE ~(End(p) /\ UNCHANGED db)
    <3>1. PICK t \in Tokens :
               /\ Insert(t, job[p].usr)
               /\ Put(p, [job[p] EXCEPT !.pc = "loginRefresh", !.tok = t])
      BY <1>3, <2>2 DEF LoginInsert
    <3>2. UNCHANGED <<account, refreshRows, age, redis>>
      BY <1>3, <2>2 DEF LoginInsert
    <3>3. UNCHANGED AbsLogins
      <4>1. /\ job'[p].pc = "loginRefresh" /\ job'[p].usr = job[p].usr
            /\ \A q \in Procs \ {p} : job'[q] = job[q]
        BY <1>0, <3>1 DEF Put, Jobs
      <4> QED BY <1>0, <4>1, LoginsKept DEF LoginPcs
    <3> QED BY <1>0, <3>1, <3>2, <3>3, AbsInserted, GateKept, AliveKept
  <2> QED BY <2>1, <2>2
<1>4. CASE LoginRefresh(p)
  <2>1. CASE End(p) /\ UNCHANGED refreshRows
    BY <1>1, <1>4, <2>1 DEF LoginRefresh, StageSource
  <2>2. CASE Goto(p, "loginCache") /\ refreshRows' = refreshRows \cup {job[p].tok}
    <3>1. age[job[p].tok] = Fresh /\ job[p].tok \in Tokens
      BY <1>0, <1>4 DEF LoginRefresh, JobAge, JobBound, TokPcs, LoginPcs
    <3>2. UNCHANGED AbsStage
      BY <1>4, <2>2, <3>1, FreshRefreshRow DEF LoginRefresh
    <3>3. UNCHANGED AbsLogins
      BY <1>2, <2>2 DEF LoginPcs
    <3> QED BY <1>4, <3>2, <3>3, AbsStutters, GateKept, AliveKept DEF LoginRefresh
  <2> QED BY <1>4, <2>1, <2>2 DEF LoginRefresh
<1>5. CASE LoginCache(p)
  <2>1. UNCHANGED AbsLogins
    BY <1>2, <1>5 DEF LoginCache, LoginPcs
  <2>2. UNCHANGED StageSource /\ UNCHANGED <<pv, account>>
    BY <1>5 DEF LoginCache, StageSource
  <2> QED BY <2>1, <2>2, AbsStutters, GateKept, AliveKept, StageKept
<1>6. CASE LoginPv(p)
  <2>1. UNCHANGED AbsLogins
    BY <1>2, <1>6 DEF LoginPv, LoginPcs
  <2>2. UNCHANGED StageSource /\ UNCHANGED account
    BY <1>6 DEF LoginPv, StageSource
  <2>3. job[p].usr \in AbsLogins
    BY <1>0 DEF AbsLogins, NoLogin
  <2> QED BY <1>0, <1>6, <2>1, <2>2, <2>3, AbsOpens, AliveKept, StageKept DEF LoginPv
<1>7. CASE LoginReply(p)
  BY <1>1, <1>7 DEF LoginReply, StageSource
<1> QED BY <1>3, <1>4, <1>5, <1>6, <1>7 DEF LoginStep

LEMMA GuardSimulates ==
  ASSUME NEW p \in Procs, TypeInv, AgeInv, GuardStep(p)
  PROVE  AbsStep
<1> USE DEF db, redis, past, At
<1>0. /\ job \in [Procs -> Jobs] /\ job[p] \in Jobs /\ JobAge(job[p]) /\ JobBound(job[p])
      /\ DataOK /\ job[p].pc \in GuardPcs
      /\ job[p].tok \in Tokens /\ job[p].usr \in Users
  BY DEF GuardStep, Recheck, Verify, Lookup, Reissue, ReissueRefresh, DropOld, CheckPv,
     CheckDevice, TypeInv, JobsOK, AgeInv, JobBound, GuardPcs, TokPcs
<1>1. job[p].pc \notin LoginPcs
  BY <1>0 DEF GuardPcs, LoginPcs
<1>2. CASE \/ Recheck(p) \/ Verify(p) \/ Lookup(p) \/ CheckPv(p) \/ CheckDevice(p)
           \/ Reissue(p) /\ End(p) /\ UNCHANGED db
           \/ ReissueRefresh(p) /\ End(p) /\ UNCHANGED refreshRows
  <2>1. UNCHANGED StageSource /\ UNCHANGED <<pv, account>>
    BY <1>2 DEF Recheck, Verify, Lookup, CheckPv, CheckDevice, Reissue, ReissueRefresh, StageSource
  <2>2. \/ End(p)
        \/ \E l \in {"verify", "checkPv", "lookup", "reissue", "checkDevice"} : Goto(p, l)
        \/ Passed(p, job[p].tok, "direct")
    BY <1>2 DEF Recheck, Verify, Lookup, CheckPv, CheckDevice
  <2>3. UNCHANGED AbsLogins
    BY <1>0, <1>1, <2>2, StaysOther DEF Pcs, LoginPcs
  <2> QED BY <2>1, <2>3, AbsStutters, GateKept, AliveKept, StageKept
<1>3. CASE Reissue(p) /\ ~(End(p) /\ UNCHANGED db)
  <2>1. PICK t \in Tokens :
             /\ Insert(t, job[p].usr)
             /\ Put(p, [job[p] EXCEPT !.pc = "reissueRefresh", !.new = t])
    BY <1>3 DEF Reissue
  <2>2. UNCHANGED <<account, refreshRows, age, redis>>
    BY <1>3 DEF Reissue
  <2>3. job'[p].pc = "reissueRefresh" /\ \A q \in Procs \ {p} : job'[q] = job[q]
    BY <1>0, <2>1 DEF Put, Jobs
  <2>4. UNCHANGED AbsLogins
    BY <1>1, <2>3, LoginsKept DEF LoginPcs
  <2> QED BY <1>0, <2>1, <2>2, <2>4, AbsInserted, GateKept, AliveKept
<1>4. CASE ReissueRefresh(p) /\ ~(End(p) /\ UNCHANGED refreshRows)
  <2>1. /\ refreshRows' = refreshRows \cup {job[p].new} /\ Goto(p, "dropOld")
        /\ UNCHANGED <<owner, rows, age, black, pv, account>>
    BY <1>4 DEF ReissueRefresh
  <2>2. job[p].new \in Tokens /\ age[job[p].new] = Fresh
    BY <1>0, <1>4, SessionAssumption DEF ReissueRefresh, JobBound, JobAge, NoTok, Tokens
  <2>3. UNCHANGED AbsStage
    BY <2>1, <2>2, FreshRefreshRow
  <2>4. UNCHANGED AbsLogins
    BY <1>1, <2>1, StaysOther DEF Pcs, LoginPcs
  <2> QED BY <2>1, <2>3, <2>4, AbsStutters, GateKept, AliveKept
<1>5. CASE DropOld(p)
  <2>1. job[p].new \in Tokens
    BY <1>0, <1>5 DEF DropOld, JobBound
  <2>2. RemoveRows({job[p].tok}) /\ UNCHANGED <<owner, age, black, pv, account>>
    BY <1>5 DEF DropOld
  <2>3. UNCHANGED AbsLogins
    BY <1>1, <1>5, <2>1, StaysOther DEF DropOld
  <2> QED BY <1>0, <2>2, <2>3, AbsRowRemoved, GateKept, AliveKept
<1> QED BY <1>2, <1>3, <1>4, <1>5 DEF GuardStep

\* Blacklisting a fresh token revokes it; one that has expired it leaves alone.
LEMMA BlacklistSimulates ==
  ASSUME NEW p \in Procs, TypeInv, AgeInv, Blacklist(p), ~End(p), UNCHANGED AbsLogins
  PROVE  AbsStep
<1> USE DEF db, redis, past, At
<1> PICK t \in Tokens : t = job[p].tok
  BY DEF Blacklist, TypeInv, JobsOK, JobBound, TokPcs
<1>0. DataOK /\ Issued(t) /\ JobAge(job[p])
  BY DEF Blacklist, TypeInv, JobsOK, AgeInv, JobAge, TokPcs
<1>1. PICK ttl \in {"short", "long"} : black' = [black EXCEPT ![t] = ttl]
  BY DEF Blacklist
<1>2. age[Claims(p)] = Fresh /\ UNCHANGED <<account, owner, rows, refreshRows, age, pv>>
  BY DEF Blacklist
<1>3. black'[t] # "none" /\ \A s \in Tokens \ {t} : black'[s] = black[s]
  BY <1>0, <1>1 DEF DataOK
<1>4. \A s \in Tokens \ {t} : StageOf(s)' = StageOf(s)
  BY <1>2, <1>3 DEF StageOf, Issued
<1>5. CASE age[t] = Fresh
  <2>1. StageOf(t)' = "revoked" /\ StageOf(t) \in {"usable", "revoked"}
    BY <1>0, <1>2, <1>3, <1>5 DEF StageOf, Issued, Fresh, Expired
  <2>2. CASE StageOf(t) = "usable"
    <3>1. StageOf(t)' \in Abs!After(StageOf(t))
      BY <2>1, <2>2 DEF Abs!After, Abs!Stages
    <3> QED BY <1>0, <1>2, <1>4, <3>1, AbsAdvances, GateKept, AliveKept
  <2>3. CASE StageOf(t) = "revoked"
    <3>1. UNCHANGED AbsStage
      BY <1>4, <2>1, <2>3 DEF AbsStage
    <3> QED BY <1>2, <3>1, AbsStutters, GateKept, AliveKept
  <2> QED BY <2>1, <2>2, <2>3
<1>6. CASE age[t] # Fresh
  <2>1. age[t] >= Expired
    BY <1>0, <1>2, <1>6 DEF Claims, JobAge
  <2>2. StageOf(t)' = StageOf(t)
    BY <1>2, <2>1 DEF StageOf, Issued
  <2>3. UNCHANGED AbsStage
    BY <1>4, <2>2 DEF AbsStage
  <2> QED BY <1>2, <2>3, AbsStutters, GateKept, AliveKept
<1> QED BY <1>5, <1>6

LEMMA OtherSimulates ==
  ASSUME NEW p \in Procs, TypeInv, AgeInv, HandlerStep(p) \/ ClearStep(p) \/ UpdateStep(p)
  PROVE  AbsStep
<1> USE DEF db, redis, past, At
<1>0. /\ job \in [Procs -> Jobs] /\ job[p] \in Jobs /\ JobBound(job[p])
      /\ DataOK /\ account \in [Users -> {"enabled", "disabled", "deleted"}]
  BY DEF TypeInv, JobsOK, DataOK
<1>1. /\ job[p].pc \notin LoginPcs /\ job[p].usr \in Users
      /\ job[p].pc \in {"blacklist", "removeRow", "logoutPv"} => job[p].tok \in Tokens
  BY <1>0 DEF HandlerStep, Reply, Logout, ChangePassword,
     ClearStep, Blacklist, RemoveRow, LogoutPv, LogoutTok,
     UpdateStep, PwUpdate, PvGet, PvSet, LockRow, DisablePv, DisableTok, DisableCommit,
     DeletePv, DeleteTok, LoginPcs, JobBound, TokPcs
<1>2. \/ End(p)
      \/ \E l \in Pcs \ LoginPcs : Goto(p, l)
      \/ Logout(p) \/ ChangePassword(p)
  <2>1. \/ End(p)
        \/ \E l \in {"removeRow", "logoutPv", "logoutTok", "pvGet", "pvSet", "lockRow",
                    "disablePv", "disableTok", "disableCommit", "deleteTok"} : Goto(p, l)
        \/ Logout(p) \/ ChangePassword(p)
    BY DEF HandlerStep, Reply,
       ClearStep, Blacklist, RemoveRow, LogoutPv, LogoutTok,
       UpdateStep, PwUpdate, PvGet, PvSet, LockRow, DisablePv, DisableTok, DisableCommit,
       DeletePv, DeleteTok, AfterPassword
  <2> QED BY <2>1 DEF Pcs, LoginPcs
<1>3. UNCHANGED AbsLogins
  <2>1. CASE Logout(p) \/ ChangePassword(p)
    <3> DEFINE j(l) == [job[p] EXCEPT !.pc = l, !.calm = NoLogin(job[p].usr)]
    <3>1. j("blacklist").pc = "blacklist" /\ j("pwUpdate").pc = "pwUpdate"
      BY <1>0 DEF Jobs
    <3>2. /\ job'[p] \in {j("blacklist"), j("pwUpdate")}
          /\ \A q \in Procs \ {p} : job'[q] = job[q]
      BY <1>0, <2>1 DEF Logout, ChangePassword, Put
    <3> QED BY <1>1, <3>1, <3>2, LoginsKept DEF LoginPcs
  <2> QED BY <1>1, <1>2, <2>1, StaysOther
<1>4. CASE \/ HandlerStep(p) \/ LogoutTok(p) \/ PwUpdate(p) \/ PvGet(p) \/ DisableTok(p)
           \/ DeleteTok(p)
           \/ Blacklist(p) /\ End(p) /\ UNCHANGED black
  <2>1. UNCHANGED StageSource /\ UNCHANGED <<pv, account>>
    BY <1>4 DEF HandlerStep, Reply, Logout, ChangePassword, LogoutTok, PwUpdate, PvGet,
       DisableTok, DeleteTok, Blacklist, StageSource
  <2> QED BY <1>3, <2>1, AbsStutters, GateKept, AliveKept, StageKept
<1>5. CASE LockRow(p) \/ DisableCommit(p)
  <2>1. UNCHANGED StageSource /\ UNCHANGED pv
    BY <1>5 DEF LockRow, DisableCommit, StageSource
  <2>2. \A u \in Users : (account'[u] = "deleted") <=> (account[u] = "deleted")
    BY <1>0, <1>1, <1>5 DEF LockRow, DisableCommit
  <2>3. UNCHANGED AbsAlive
    BY <2>2 DEF AbsAlive
  <2> QED BY <1>3, <2>1, <2>3, AbsStutters, GateKept, StageKept
<1>6. CASE LogoutPv(p) \/ DisablePv(p) \/ DeletePv(p) \/ PvSet(p)
  <2>1. UNCHANGED StageSource /\ UNCHANGED account
    BY <1>6 DEF LogoutPv, DisablePv, DeletePv, PvSet, StageSource
  <2>2. \E v \in {"none", "more"} : pv' = [pv EXCEPT ![job[p].usr] = v]
    BY <1>6 DEF LogoutPv, DisablePv, DeletePv, PvSet
  <2> QED BY <1>1, <1>3, <2>1, <2>2, AbsShuts, AliveKept, StageKept
<1>7. CASE Blacklist(p) /\ ~(End(p) /\ UNCHANGED black)
  <2>1. CASE ~End(p)
    BY <1>3, <1>7, <2>1, BlacklistSimulates
  <2>2. CASE End(p)
    <3>1. \E l \in {"removeRow", "logoutPv"} : Goto(p, l)
      BY <1>7, <2>2 DEF Blacklist
    <3>2. job'[p].pc = "idle" /\ job'[p].pc \in {"removeRow", "logoutPv"}
      BY <1>0, <2>2, <3>1, IdleJobOK DEF End, Goto, Put, Jobs
    <3> QED BY <3>2
  <2> QED BY <2>1, <2>2
<1>8. CASE RemoveRow(p)
  <2>1. job[p].tok \in Tokens /\ RemoveRows({job[p].tok})
        /\ UNCHANGED <<owner, age, black, pv, account>>
    BY <1>1, <1>8 DEF RemoveRow
  <2> QED BY <1>0, <1>3, <2>1, AbsRowRemoved, GateKept, AliveKept
<1> QED BY <1>4, <1>5, <1>6, <1>7, <1>8 DEF ClearStep, UpdateStep

\* The deletion of a user: the refresh tokens that still had a use are over.
LEMMA DeleteSimulates ==
  ASSUME NEW p \in Procs, NEW u \in Users, TypeInv, Delete(p, u), UNCHANGED AbsLogins
  PROVE  AbsStep
<1> USE DEF db, redis, past
<1> PICK T \in SUBSET Tokens : T = {t \in OwnedBy(u) : StageOf(t) = "refreshable"}
  BY DEF OwnedBy
<1>0. DataOK /\ UNCHANGED <<owner, age, black, pv>> /\ RemoveRows(OwnedBy(u))
      /\ OwnedBy(u) \in SUBSET Tokens
  BY DEF TypeInv, Delete, OwnedBy
<1>1. \A t \in Tokens : StageOf(t)' = IF t \in T THEN "over" ELSE StageOf(t)
  BY <1>0, RowsRemoved
<1>2. \A t \in T : AbsStage[t] = "refreshable"
  BY <1>0 DEF AbsStage
<1>3. AbsStage' = [t \in Tokens |-> IF t \in T THEN "over" ELSE AbsStage[t]]
  BY <1>1 DEF AbsStage
<1>4. u \in AbsAlive /\ AbsAlive' = AbsAlive \ {u}
  BY <1>0 DEF Delete, AbsAlive, DataOK
<1>5. Abs!Remove(u, T)
  BY <1>0, <1>2, <1>3, <1>4, GateKept
     DEF Abs!Remove, AbsGate, AbsStage, AbsAlive, AbsLogins
<1> QED BY <1>5 DEF AbsStep, Abs!Next

LEMMA LoginStartSimulates ==
  ASSUME NEW p \in Procs, NEW u \in Users, TypeInv, LoginStart(p, u)
  PROVE  AbsStep
<1> USE DEF db, redis, past
<1>1. \A q \in Procs : job[q] \in Jobs
  BY DEF TypeInv, JobsOK
<1>2. /\ job[p].pc = "idle" /\ job'[p].pc = "loginInsert" /\ job'[p].usr = u
      /\ \A q \in Procs \ {p} : job'[q].pc = job[q].pc /\ job'[q].usr = job[q].usr
  BY <1>1, IdleJobOK DEF LoginStart, Idle, IdleJob, Jobs
<1>3. u \in AbsAlive
  BY DEF LoginStart, AbsAlive
<1>4. \A v \in Users : NoLogin(v)' <=> NoLogin(v) /\ v # u
  BY <1>2 DEF NoLogin, LoginPcs
<1>5. AbsLogins' = AbsLogins \cup {u}
  BY <1>4 DEF AbsLogins
<1>6. UNCHANGED StageSource /\ UNCHANGED <<pv, account>>
  BY DEF LoginStart, StageSource
<1> QED BY <1>3, <1>5, <1>6, AbsLoginBegins, GateKept, AliveKept, StageKept

LEMMA ArriveSimulates ==
  ASSUME NEW p \in Procs, TypeInv, Arrive(p)
  PROVE  AbsStep
<1> USE DEF db, redis, past
<1>0. job \in [Procs -> Jobs] /\ IdleJob.pc = "idle"
  BY IdleJobOK DEF TypeInv, JobsOK
<1>1. CASE \E u \in Users : LoginStart(p, u)
  BY <1>1, LoginStartSimulates
<1>2. CASE ~ \E u \in Users : LoginStart(p, u)
  <2>1. UNCHANGED AbsLogins
    <3>1. /\ \A q \in Procs \ {p} : job'[q] = job[q]
          /\ job[p].pc = "idle"
          /\ job'[p].pc \in {"verify", "blacklist", "deletePv", "pwUpdate", "lockRow"}
      <4>1. CASE \E t \in Tokens, r \in {"account", "other"} : RequestStart(p, t, r)
        BY <1>0, <4>1 DEF RequestStart, Idle, Put, IdleJob
      <4>2. CASE \E t \in Tokens : Kick(p, t)
        BY <1>0, <4>2 DEF Kick, Idle, Put, IdleJob
      <4>3. CASE \E u \in Users : Delete(p, u)
        BY <1>0, <4>3 DEF Delete, Idle, Put, IdleJob
      <4>4. CASE \E u \in Users, w \in BOOLEAN, s \in {"keep", "enable", "disable"} :
                   AdminUpdate(p, u, w, s)
        BY <1>0, <4>4 DEF AdminUpdate, Idle, Put, IdleJob
      <4> QED BY <1>2, <4>1, <4>2, <4>3, <4>4 DEF Arrive
    <3> QED BY <3>1, LoginsKept DEF LoginPcs
  <2>2. CASE \E u \in Users : Delete(p, u)
    BY <2>1, <2>2, DeleteSimulates
  <2>3. CASE ~ \E u \in Users : Delete(p, u)
    <3>1. UNCHANGED StageSource /\ UNCHANGED <<pv, account>>
      BY <1>2, <2>3 DEF Arrive, RequestStart, Kick, AdminUpdate, StageSource
    <3> QED BY <2>1, <3>1, AbsStutters, GateKept, AliveKept, StageKept
  <2> QED BY <2>2, <2>3
<1> QED BY <1>1, <1>2

LEMMA AbortSimulates ==
  ASSUME NEW p \in Procs, TypeInv, Abort(p)
  PROVE  AbsStep
<1> USE DEF db, redis, past
<1>1. UNCHANGED StageSource /\ UNCHANGED <<pv, account>> /\ End(p) /\ job[p].usr \in Users
  BY DEF Abort, Idle, StageSource, TypeInv, JobsOK, JobBound
<1>2. job'[p].pc \notin LoginPcs /\ \A q \in Procs \ {p} : job'[q] = job[q]
  BY <1>1, IdleJobOK DEF End, Put, LoginPcs, TypeInv, JobsOK
<1> QED BY <1>1, <1>2, LoginsEnded, AbsLoginEnds, StageKept, GateKept, AliveKept

\* Time: a token grows older, and blacklist entries lapse.
LEMMA AgeSimulates ==
  ASSUME NEW t \in Tokens, TypeInv, AgeInv, Age(t)
  PROVE  AbsStep
<1> USE DEF db, redis, past
<1>0. /\ DataOK /\ Issued(t) /\ age[t] \in {Fresh, Closing, Expired}
      /\ age'[t] = age[t] + 1 /\ \A s \in Tokens \ {t} : age'[s] = age[s]
      /\ UNCHANGED <<owner, rows, refreshRows, black, pv, account, job>>
  BY DEF Age, TypeInv, DataOK
<1>1. UNCHANGED AbsLogins
  BY <1>0 DEF AbsLogins, NoLogin
<1>2. \A s \in Tokens \ {t} : StageOf(s)' = StageOf(s)
  BY <1>0 DEF StageOf, Issued
<1>3. StageOf(t)' \in Abs!After(StageOf(t)) \cup {StageOf(t)}
  <2> USE DEF Abs!After, Abs!Stages
  <2>1. CASE age[t] = Fresh
    <3>1. /\ StageOf(t) = IF black[t] # "none" THEN "revoked" ELSE "usable"
          /\ StageOf(t)' = IF black[t] # "none" THEN "revoked" ELSE "lastMoments"
      BY <1>0, <2>1 DEF StageOf, Issued, Fresh, Closing, Expired
    <3> QED BY <3>1
  <2>2. CASE age[t] = Closing
    <3>1. /\ StageOf(t) \in {"revoked", "lastMoments"}
          /\ StageOf(t)' \in {"refreshable", "over"}
      BY <1>0, <2>2 DEF StageOf, Issued, Fresh, Closing, Expired
    <3> QED BY <3>1
  <2>3. CASE age[t] = Expired
    <3>1. /\ StageOf(t) \in {"refreshable", "over"}
          /\ StageOf(t)' = "over"
      BY <1>0, <2>3 DEF StageOf, Issued, Expired
    <3> QED BY <3>1
  <2> QED BY <1>0, <2>1, <2>2, <2>3
<1>4. CASE StageOf(t)' \in Abs!After(StageOf(t))
  BY <1>0, <1>1, <1>2, <1>4, AbsAdvances, GateKept, AliveKept
<1>5. CASE StageOf(t)' = StageOf(t)
  <2>1. UNCHANGED AbsStage
    BY <1>2, <1>5 DEF AbsStage
  <2> QED BY <1>0, <1>1, <2>1, AbsStutters, GateKept, AliveKept
<1> QED BY <1>3, <1>4, <1>5

LEMMA LapseSimulates ==
  ASSUME NEW t \in Tokens, TypeInv, AgeInv, BlacklistExpires(t)
  PROVE  AbsStep
<1> USE DEF db, redis, past
<1>0. /\ DataOK /\ age[t] \in {Fresh, Closing, Expired, Dead}
      /\ UNCHANGED <<owner, age, rows, refreshRows, pv, account, job>>
      /\ black[t] # "none" /\ black'[t] = "none"
      /\ \A s \in Tokens \ {t} : black'[s] = black[s]
  BY DEF BlacklistExpires, TypeInv, DataOK
<1>1. UNCHANGED AbsLogins
  BY <1>0 DEF AbsLogins, NoLogin
<1>2. \A s \in Tokens \ {t} : StageOf(s)' = StageOf(s)
  BY <1>0 DEF StageOf, Issued
<1>3. Issued(t) /\ age[t] \in {Closing, Expired, Dead}
  BY <1>0, Ages DEF AgeInv, UnissuedClean, BlacklistExpires, Closing, Expired, Fresh, Dead
<1>4. CASE age[t] = Closing
  <2>1. StageOf(t) = "revoked" /\ StageOf(t)' = "lastMoments"
    BY <1>0, <1>3, <1>4 DEF StageOf, Issued, Fresh, Closing, Expired
  <2>2. StageOf(t)' \in Abs!After(StageOf(t))
    BY <2>1 DEF Abs!After, Abs!Stages
  <2> QED BY <1>0, <1>1, <1>2, <2>2, AbsAdvances, GateKept, AliveKept
<1>5. CASE age[t] \in {Expired, Dead}
  <2>1. StageOf(t)' = StageOf(t)
    BY <1>0, <1>5, Ages DEF StageOf, Issued
  <2>2. UNCHANGED AbsStage
    BY <1>2, <2>1 DEF AbsStage
  <2> QED BY <1>0, <1>1, <2>2, AbsStutters, GateKept, AliveKept
<1> QED BY <1>3, <1>4, <1>5

LEMMA ClockSimulates ==
  ASSUME TypeInv, AgeInv, Clock
  PROVE  AbsStep
<1> USE DEF db, redis, past
<1>1. CASE \E t \in Tokens : Age(t)
  BY <1>1, AgeSimulates
<1>2. CASE \E t \in Tokens : BlacklistExpires(t)
  BY <1>2, LapseSimulates
<1>3. CASE \E t \in Tokens : CronRemove(t)
  <2> PICK t \in Tokens : CronRemove(t)
    BY <1>3
  <2>1. DataOK /\ RemoveRows({t}) /\ UNCHANGED <<owner, age, black, pv, account, job>>
    BY DEF CronRemove, TypeInv
  <2>2. UNCHANGED AbsLogins
    BY <2>1 DEF AbsLogins, NoLogin
  <2> QED BY <2>1, <2>2, AbsRowRemoved, GateKept, AliveKept
<1>4. CASE \E u \in Users : AuthTokExpires(u)
  <2>1. UNCHANGED StageSource /\ UNCHANGED <<pv, account, job>>
    BY <1>4 DEF AuthTokExpires, StageSource
  <2>2. UNCHANGED AbsLogins
    BY <2>1 DEF AbsLogins, NoLogin
  <2> QED BY <2>1, <2>2, AbsStutters, GateKept, AliveKept, StageKept
<1> QED BY <1>1, <1>2, <1>3, <1>4 DEF Clock

LEMMA NextSimulates == TypeInv /\ AgeInv /\ [Next]_vars => [Abs!Next]_Abs!absvars
<1> SUFFICES ASSUME TypeInv, AgeInv, [Next]_vars
             PROVE  AbsStep
  BY DEF AbsStep
<1>1. ASSUME NEW p \in Procs, Arrive(p) \/ Step(p) \/ Abort(p)
      PROVE  AbsStep
  BY <1>1, ArriveSimulates, LoginSimulates, GuardSimulates, OtherSimulates, AbortSimulates
     DEF Step
<1>2. CASE Clock
  BY <1>2, ClockSimulates
<1>3. CASE UNCHANGED vars
  <2>1. UNCHANGED StageSource /\ UNCHANGED <<pv, account, job>>
    BY <1>3 DEF vars, StageSource
  <2>2. UNCHANGED AbsLogins
    BY <2>1 DEF AbsLogins, NoLogin
  <2> QED BY <2>1, <2>2, AbsStutters, GateKept, AliveKept, StageKept
<1> QED BY <1>1, <1>2, <1>3 DEF Next

LEMMA InitSimulates == Init => Abs!Init
  BY IdleJobOK, SessionAssumption DEF Init, Abs!Init, StageOf, Issued, NoLogin, LoginPcs

\* Refinement: every step of the handlers, the clock and the sweep is a step of
\* SessionAbs or one it does not see, for every set of users and handlers and
\* any number of tokens: a token never goes back to an earlier stage, only a
\* login under way opens the gate of its user, and only of a user who exists
\* when it starts.
THEOREM Refinement == Spec => ImplementsSessionAbs
<1>1. TypeInv /\ AgeInv /\ [Next]_vars => TypeInv' /\ AgeInv'
  BY NextTypeInv, NextAgeInv
<1>2. Init => TypeInv /\ AgeInv /\ Abs!Init
  BY InitTypeInv, InitAgeInv, InitSimulates
<1> QED BY <1>1, <1>2, NextSimulates, PTL DEF Spec, ImplementsSessionAbs, Abs!Spec

\* What a step takes from a token that could be used.
Cause(t) ==
    \/ age'[t] = Expired
    \/ \E p \in Procs :
          \/ job[p].pc = "blacklist" /\ job[p].tok = t
          \/ /\ job[p].usr = owner[t]
             /\ \/ job[p].pc \in {"pvSet", "disablePv", "deletePv"}
                \/ job[p].pc = "logoutPv" /\ ~MultiDevice

LEMMA UsableKept ==
  ASSUME NEW t \in Tokens, Usable(t), owner'[t] = owner[t], age'[t] = age[t],
         black'[t] = black[t], pv[owner[t]] = "one" => pv'[owner[t]] = "one"
  PROVE  Usable(t)'
  BY DEF Usable, Issued

LEMMA NextHasACause ==
  ASSUME TypeInv, AgeInv, Next, NEW t \in Tokens, Usable(t)
  PROVE  Usable(t)' \/ Cause(t)
<1> USE DEF db, redis, past, At
<1>0. /\ DataOK /\ Issued(t) /\ owner[t] \in Users /\ age[t] \in {Fresh, Closing}
      /\ \A p \in Procs : JobAge(job[p]) /\ job[p] \in Jobs /\ JobBound(job[p])
  BY Ages DEF TypeInv, JobsOK, DataOK, AgeInv, Usable, Issued, Fresh, Closing, Expired, Dead
<1>1. ASSUME NEW p \in Procs, Arrive(p) \/ HandlerStep(p) \/ Abort(p)
      PROVE  Usable(t)'
  <2>1. UNCHANGED <<owner, age, black, pv>>
    BY <1>1 DEF Arrive, LoginStart, RequestStart, Kick, Delete, AdminUpdate, HandlerStep,
       Reply, Logout, ChangePassword, Abort
  <2> QED BY <2>1, UsableKept
<1>2. ASSUME NEW p \in Procs, LoginStep(p) \/ GuardStep(p)
      PROVE  Usable(t)'
  <2>1. UNCHANGED <<age, black>>
    BY <1>2 DEF LoginStep, LoginInsert, LoginRefresh, LoginCache, LoginPv, LoginReply,
       GuardStep, Recheck, Verify, Lookup, Reissue, ReissueRefresh, DropOld, CheckPv, CheckDevice
  <2>2. owner'[t] = owner[t]
    BY <1>0, <1>2 DEF LoginStep, LoginInsert, LoginRefresh, LoginCache, LoginPv, LoginReply,
       GuardStep, Recheck, Verify, Lookup, Reissue, ReissueRefresh, DropOld, CheckPv, CheckDevice,
       Insert, IsNext, DataOK
  <2>3. UNCHANGED pv \/ pv' = [pv EXCEPT ![job[p].usr] = "one"]
    BY <1>2 DEF LoginStep, LoginInsert, LoginRefresh, LoginCache, LoginPv, LoginReply,
       GuardStep, Recheck, Verify, Lookup, Reissue, ReissueRefresh, DropOld, CheckPv, CheckDevice
  <2>4. pv[owner[t]] = "one" => pv'[owner[t]] = "one"
    BY <1>0, <2>3 DEF DataOK
  <2> QED BY <2>1, <2>2, <2>4, UsableKept
<1>3. ASSUME NEW p \in Procs, ClearStep(p)
      PROVE  Usable(t)' \/ Cause(t)
  <2>1. UNCHANGED <<owner, age>>
    BY <1>3 DEF ClearStep, Blacklist, RemoveRow, LogoutPv, LogoutTok
  <2>2. CASE Blacklist(p)
    <3>1. job[p].pc = "blacklist" /\ UNCHANGED pv /\ (job[p].tok # t => black'[t] = black[t])
      BY <1>0, <2>2 DEF Blacklist, DataOK
    <3> QED BY <2>1, <3>1, UsableKept DEF Cause
  <2>3. CASE LogoutPv(p)
    <3>1. /\ job[p].pc = "logoutPv" /\ ~MultiDevice /\ UNCHANGED black
          /\ job[p].usr # owner[t] => pv'[owner[t]] = pv[owner[t]]
      BY <1>0, <2>3 DEF LogoutPv, DataOK, JobAge
    <3> QED BY <2>1, <3>1, UsableKept DEF Cause
  <2>4. CASE RemoveRow(p) \/ LogoutTok(p)
    <3>1. UNCHANGED <<black, pv>>
      BY <2>4 DEF RemoveRow, LogoutTok
    <3> QED BY <2>1, <3>1, UsableKept
  <2> QED BY <1>3, <2>2, <2>3, <2>4 DEF ClearStep
<1>4. ASSUME NEW p \in Procs, UpdateStep(p)
      PROVE  Usable(t)' \/ Cause(t)
  <2>1. UNCHANGED <<owner, age, black>>
    BY <1>4 DEF UpdateStep, PwUpdate, PvGet, PvSet, LockRow, DisablePv, DisableTok,
       DisableCommit, DeletePv, DeleteTok
  <2>2. \/ UNCHANGED pv
        \/ /\ job[p].pc \in {"pvSet", "disablePv", "deletePv"}
           /\ \E v \in {"none", "more"} : pv' = [pv EXCEPT ![job[p].usr] = v]
    BY <1>4 DEF UpdateStep, PwUpdate, PvGet, PvSet, LockRow, DisablePv, DisableTok,
       DisableCommit, DeletePv, DeleteTok
  <2>3. CASE job[p].usr = owner[t] /\ job[p].pc \in {"pvSet", "disablePv", "deletePv"}
    BY <2>3 DEF Cause
  <2>4. CASE ~(job[p].usr = owner[t] /\ job[p].pc \in {"pvSet", "disablePv", "deletePv"})
    <3>1. pv'[owner[t]] = pv[owner[t]]
      BY <1>0, <2>2, <2>4 DEF DataOK
    <3> QED BY <2>1, <3>1, UsableKept
  <2> QED BY <2>3, <2>4
<1>5. CASE Clock
  <2>1. UNCHANGED <<owner, pv>>
    BY <1>5 DEF Clock, Age, BlacklistExpires, CronRemove, AuthTokExpires
  <2>2. age'[t] = age[t] \/ age'[t] = age[t] + 1
    BY ZenonT(60), SMTT(60), <1>0, <1>5 DEF Clock, Age, BlacklistExpires, CronRemove, AuthTokExpires, DataOK
  <2>3. black'[t] = black[t]
    BY <1>0, <1>5 DEF Clock, Age, BlacklistExpires, CronRemove, AuthTokExpires, DataOK, Usable
  <2>4. age'[t] \in {Fresh, Closing} \/ age'[t] = Expired
    BY <1>0, <2>2 DEF Fresh, Closing, Expired
  <2>5. CASE age'[t] \in {Fresh, Closing}
    BY <2>1, <2>3, <2>5 DEF Usable, Issued, Fresh, Closing, Expired
  <2> QED BY <2>4, <2>5 DEF Cause
<1> QED BY <1>1, <1>2, <1>3, <1>4, <1>5 DEF Next, Step

\* EndsForACause: SessionsEndForACause holds for every set of users and any
\* number of handlers and tokens, in both device modes.
THEOREM EndsForACause == Spec => SessionsEndForACause
<1>1. TypeInv /\ AgeInv /\ [Next]_vars => TypeInv' /\ AgeInv'
  BY NextTypeInv, NextAgeInv
<1>2. Init => TypeInv /\ AgeInv
  BY InitTypeInv, InitAgeInv
<1>3. TypeInv /\ AgeInv /\ [Next]_vars =>
         [\A t \in Tokens : Usable(t) /\ ~Usable(t)' => Cause(t)]_vars
  BY NextHasACause
<1> QED BY <1>1, <1>2, <1>3, PTL DEF Spec, SessionsEndForACause, Cause
=============================================================================
