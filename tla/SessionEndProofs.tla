-------------------------- MODULE SessionEndProofs --------------------------
(***************************************************************************)
(* Proofs that the operations of Session that end sessions do end them:    *)
(* EndedSessionsRefused and DeletedRefused in either device mode,          *)
(* LoggedOutRefused when several devices may be logged in, and             *)
(* NewestDeviceOnly when only one may.                                     *)
(***************************************************************************)
EXTENDS SessionProofs

\* The calls of an operation between its shutting the gate and its end.
ShutPcs == {"logoutTok", "disableTok", "disableCommit", "deleteTok"}

\* No login of a closed user is under way, and the gate is shut.
ClosedShut == \A u \in closed : pv[u] # "one" /\ NoLogin(u)

\* What the handler of record j relies on, where v is the password versions:
\* that no login of its user is under way, and that the gate is shut.
JobEnd(j, v) ==
    /\ j.calm \/ "closed" \in j.begun => j.pc # "idle" /\ NoLogin(j.usr)
    /\ j.calm /\ j.pc \in ShutPcs => v[j.usr] # "one"
    /\ "closed" \in j.begun => /\ v[j.usr] # "one"
                               /\ j.pc # "checkDevice"
                               /\ j.pc = "admitted" => j.how = "refresh"

EndInv == ClosedShut /\ \A p \in Procs : JobEnd(job[p], pv)

\* The tokens of a deleted user have no row.
RowsAlive == \A t \in rows : account[owner[t]] # "deleted"

\* A request for a user known to be gone is on its way to being refused.
JobGone(j) ==
    "gone" \in j.begun =>
       /\ "closed" \in j.begun
       /\ j.pc \in {"verify", "checkPv", "lookup"}
       /\ account[j.usr] = "deleted"
       /\ owner[j.tok] = j.usr

GoneInv == RowsAlive /\ \A p \in Procs : JobGone(job[p])

\* With several devices, a token that is logged out has no row, and its
\* blacklist entry lasts until the last half second of the JWT.
OutGone == \A t \in out : /\ Issued(t)
                          /\ t \notin rows
                          /\ age[t] = Fresh => black[t] # "none"

\* A request for a token known to be logged out is on its way to being refused.
JobOut(j) ==
    /\ j.tok \in Tokens => Issued(j.tok)
    /\ j.new \in Tokens => Issued(j.new)
    /\ j.pc \notin {"logoutPv", "logoutTok"}
    /\ j.pc = "removeRow" /\ age[j.tok] = Fresh => black[j.tok] # "none"
    /\ "out" \in j.begun => /\ j.pc \in {"verify", "lookup"}
                            /\ j.tok \in out
                            /\ age[j.tok] \in {Expired, Dead}

OutInv == OutGone /\ \A p \in Procs : JobOut(job[p])

-----------------------------------------------------------------------------
\* EndInv

\* A step of handler p after which its record is j: the gate of a user opens
\* only with a login of the user under way, and none begins.
LEMMA EndQuiet ==
  ASSUME NEW p \in Procs, NEW j \in Jobs, TypeInv, EndInv, Put(p, j),
         j.pc \in LoginPcs => job[p].pc \in LoginPcs /\ j.usr = job[p].usr,
         \A u \in Users : pv'[u] = "one" => pv[u] = "one" \/ ~NoLogin(u),
         \A u \in closed' : u \in closed \/ (pv'[u] # "one" /\ NoLogin(u)),
         JobEnd(j, pv')
  PROVE  EndInv'
<1>1. job'[p] = j /\ \A q \in Procs \ {p} : job'[q] = job[q]
  BY DEF Put, TypeInv, JobsOK
<1>2. \A u : NoLogin(u) => NoLogin(u)'
  BY <1>1 DEF NoLogin
<1>3. ClosedShut'
  <2>1. closed \subseteq Users
    BY DEF TypeInv, DataOK
  <2> QED BY <1>2, <2>1 DEF ClosedShut, EndInv
<1>4. ASSUME NEW q \in Procs
      PROVE  JobEnd(job[q], pv)'
  <2>1. CASE q = p
    BY <1>1, <1>2, <2>1 DEF JobEnd
  <2>2. CASE q # p
    <3>1. JobEnd(job[q], pv) /\ job'[q] = job[q]
      BY <1>1, <2>2 DEF EndInv
    <3>2. job[q].pc # "idle" => job[q].usr \in Users
      BY DEF TypeInv, JobsOK, JobBound
    <3> QED BY <1>2, <3>1, <3>2 DEF JobEnd
  <2> QED BY <2>1, <2>2
<1> QED BY <1>3, <1>4 DEF EndInv

LEMMA EndEnds ==
  ASSUME NEW p \in Procs, TypeInv, EndInv, End(p),
         \A u \in Users : pv'[u] = "one" => pv[u] = "one" \/ ~NoLogin(u),
         \A u \in closed' : u \in closed \/ (pv'[u] # "one" /\ NoLogin(u))
  PROVE  EndInv'
<1>1. JobEnd(IdleJob, pv')
  BY DEF JobEnd, IdleJob, ShutPcs
<1> QED BY <1>1, IdleJobOK, EndQuiet DEF End, LoginPcs

\* The handler of p goes on to its next call, which is neither checkDevice nor
\* admitted, nor the first one after the gate was shut.
LEMMA EndGoes ==
  ASSUME NEW p \in Procs, NEW l \in Pcs, TypeInv, EndInv, Goto(p, l),
         job[p].pc # "idle", l \notin {"idle", "checkDevice", "admitted"},
         l \in LoginPcs => job[p].pc \in LoginPcs,
         l \in ShutPcs => job[p].pc \in ShutPcs \/ pv'[job[p].usr] # "one",
         \A u \in Users : pv'[u] = "one" => pv[u] = "one" \/ ~NoLogin(u),
         \A u \in closed' : u \in closed \/ (pv'[u] # "one" /\ NoLogin(u))
  PROVE  EndInv'
<1> DEFINE j == [job[p] EXCEPT !.pc = l]
<1>1. job[p] \in Jobs /\ job[p].usr \in Users /\ JobEnd(job[p], pv)
  BY DEF TypeInv, JobsOK, JobBound, EndInv
<1>2. /\ j \in Jobs /\ j.pc = l /\ j.usr = job[p].usr
      /\ j.calm = job[p].calm /\ j.begun = job[p].begun /\ j.how = job[p].how
  BY <1>1 DEF Jobs
<1>3. JobEnd(j, pv')
  BY <1>1, <1>2 DEF JobEnd
<1> QED BY <1>2, <1>3, EndQuiet DEF Goto

LEMMA LoginEndInv ==
  ASSUME NEW p \in Procs, TypeInv, EndInv, LoginStep(p)
  PROVE  EndInv'
<1> USE DEF At, past, redis
<1>0. job[p].pc \in LoginPcs => job[p].usr \in Users /\ ~NoLogin(job[p].usr)
  BY DEF TypeInv, JobsOK, JobBound, NoLogin, LoginPcs
<1>1. CASE LoginInsert(p)
  <2>1. UNCHANGED <<pv, closed>>
    BY <1>1 DEF LoginInsert
  <2>2. CASE End(p)
    BY <2>1, <2>2, EndEnds
  <2>3. CASE \E t \in Tokens :
               Put(p, [job[p] EXCEPT !.pc = "loginRefresh", !.tok = t])
    <3> PICK t \in Tokens : Put(p, [job[p] EXCEPT !.pc = "loginRefresh", !.tok = t])
      BY <2>3
    <3> DEFINE j == [job[p] EXCEPT !.pc = "loginRefresh", !.tok = t]
    <3>1. job[p] \in Jobs /\ JobEnd(job[p], pv)
      BY DEF TypeInv, JobsOK, EndInv
    <3>2. /\ j \in Jobs /\ j.pc = "loginRefresh" /\ j.usr = job[p].usr
          /\ j.calm = job[p].calm /\ j.begun = job[p].begun
      <4>1. j \in Jobs BY <3>1 DEF Jobs, Pcs
      <4> QED BY <3>1, <4>1 DEF Jobs
    <3>3. JobEnd(j, pv)
      BY <1>0, <1>1, <3>1, <3>2 DEF JobEnd, LoginInsert, LoginPcs
    <3> QED BY <1>1, <2>1, <3>2, <3>3, EndQuiet DEF LoginInsert, LoginPcs
  <2> QED BY <1>1, <2>2, <2>3 DEF LoginInsert
<1>2. CASE LoginRefresh(p)
  <2>1. UNCHANGED <<pv, closed>>
    BY <1>2 DEF LoginRefresh
  <2> QED BY <1>2, <2>1, EndEnds, EndGoes DEF LoginRefresh, Pcs, LoginPcs, ShutPcs
<1>3. CASE LoginCache(p)
  BY <1>3, EndGoes DEF LoginCache, Pcs, LoginPcs, ShutPcs
<1>4. CASE LoginPv(p)
  <2>1. \A u \in Users : pv'[u] = "one" => pv[u] = "one" \/ ~NoLogin(u)
    BY <1>0, <1>4 DEF LoginPv, LoginPcs, TypeInv, DataOK
  <2> QED BY <1>4, <2>1, EndGoes DEF LoginPv, Pcs, LoginPcs, ShutPcs
<1>5. CASE LoginReply(p)
  BY <1>5, EndEnds DEF LoginReply
<1> QED BY <1>1, <1>2, <1>3, <1>4, <1>5 DEF LoginStep

\* A guard pass that succeeds: directly only where the gate is open.
LEMMA PassedEndInv ==
  ASSUME NEW p \in Procs, NEW t \in Tokens, NEW how \in {"direct", "refresh"},
         TypeInv, EndInv, Passed(p, t, how), job[p].pc # "idle",
         how = "direct" => "closed" \notin job[p].begun,
         UNCHANGED <<pv, closed>>
  PROVE  EndInv'
<1> DEFINE j1 == [job[p] EXCEPT !.pc = "recheck", !.pass = 2, !.tok = t, !.new = NoTok]
           j2 == [job[p] EXCEPT !.pc = "admitted", !.how = how]
<1>1. job[p] \in Jobs /\ JobEnd(job[p], pv)
  BY DEF TypeInv, JobsOK, EndInv
<1>2. /\ j1 \in Jobs /\ j1.pc = "recheck" /\ j1.usr = job[p].usr
      /\ j1.calm = job[p].calm /\ j1.begun = job[p].begun
  <2>0. "recheck" \in Pcs BY DEF Pcs
  <2>1. j1 \in Jobs BY <1>1, <2>0 DEF Jobs
  <2> QED BY <1>1, <2>1 DEF Jobs
<1>3. /\ j2 \in Jobs /\ j2.pc = "admitted" /\ j2.usr = job[p].usr /\ j2.how = how
      /\ j2.calm = job[p].calm /\ j2.begun = job[p].begun
  <2>0. "admitted" \in Pcs BY DEF Pcs
  <2>1. j2 \in Jobs BY <1>1, <2>0 DEF Jobs
  <2> QED BY <1>1, <2>1 DEF Jobs
<1>4. JobEnd(j1, pv) /\ JobEnd(j2, pv)
  BY <1>1, <1>2, <1>3 DEF JobEnd, ShutPcs
<1>5. Put(p, j1) \/ Put(p, j2)
  BY DEF Passed
<1> QED BY <1>2, <1>3, <1>4, <1>5, EndQuiet DEF LoginPcs

LEMMA GuardEndInv ==
  ASSUME NEW p \in Procs, TypeInv, EndInv, GuardStep(p)
  PROVE  EndInv'
<1> USE DEF At, past, redis
<1>0. job[p].pc \in TokPcs => job[p].tok \in Tokens /\ job[p].usr \in Users
  BY DEF TypeInv, JobsOK, JobBound, TokPcs
<1>1. CASE Recheck(p)
  BY <1>1, EndEnds, EndGoes DEF Recheck, Pcs, LoginPcs, ShutPcs
<1>2. CASE Verify(p)
  <2>1. Goto(p, "checkPv") \/ Goto(p, "lookup")
    BY <1>2 DEF Verify
  <2> QED BY <1>2, <2>1, EndGoes DEF Verify, Pcs, LoginPcs, ShutPcs
<1>3. CASE Lookup(p)
  BY <1>3, EndEnds, EndGoes DEF Lookup, Pcs, LoginPcs, ShutPcs
<1>4. CASE Reissue(p)
  <2>1. UNCHANGED <<pv, closed>>
    BY <1>4 DEF Reissue
  <2>2. CASE End(p)
    BY <2>1, <2>2, EndEnds
  <2>3. CASE \E t \in Tokens :
               Put(p, [job[p] EXCEPT !.pc = "reissueRefresh", !.new = t])
    <3> PICK t \in Tokens : Put(p, [job[p] EXCEPT !.pc = "reissueRefresh", !.new = t])
      BY <2>3
    <3> DEFINE j == [job[p] EXCEPT !.pc = "reissueRefresh", !.new = t]
    <3>1. job[p] \in Jobs /\ JobEnd(job[p], pv)
      BY DEF TypeInv, JobsOK, EndInv
    <3>2. /\ j \in Jobs /\ j.pc = "reissueRefresh" /\ j.usr = job[p].usr
          /\ j.calm = job[p].calm /\ j.begun = job[p].begun
      <4>0. "reissueRefresh" \in Pcs BY DEF Pcs
      <4>1. j \in Jobs BY <3>1, <4>0 DEF Jobs
      <4> QED BY <3>1, <4>1 DEF Jobs
    <3>3. JobEnd(j, pv)
      BY <3>1, <3>2 DEF JobEnd, ShutPcs
    <3> QED BY <2>1, <3>2, <3>3, EndQuiet DEF LoginPcs
  <2> QED BY <1>4, <2>2, <2>3 DEF Reissue
<1>5. CASE ReissueRefresh(p)
  <2>1. UNCHANGED <<pv, closed>>
    BY <1>5 DEF ReissueRefresh
  <2> QED BY <1>5, <2>1, EndEnds, EndGoes DEF ReissueRefresh, Pcs, LoginPcs, ShutPcs
<1>6. CASE DropOld(p)
  <2>1. job[p].new \in Tokens
    BY <1>6 DEF DropOld, TypeInv, JobsOK, JobBound
  <2> QED BY <1>6, <2>1, PassedEndInv DEF DropOld
<1>7. CASE CheckPv(p)
  <2>1. UNCHANGED <<pv, closed>>
    BY <1>7 DEF CheckPv
  <2>2. CASE End(p)
    BY <2>1, <2>2, EndEnds
  <2>3. CASE ~End(p)
    <3>1. "closed" \notin job[p].begun
      BY <1>7, <2>3 DEF CheckPv, EndInv, JobEnd
    <3>2. CASE Passed(p, job[p].tok, "direct")
      BY <1>0, <1>7, <2>1, <3>1, <3>2, PassedEndInv DEF CheckPv, TokPcs
    <3>3. CASE Goto(p, "checkDevice")
      <4> DEFINE j == [job[p] EXCEPT !.pc = "checkDevice"]
      <4>1. job[p] \in Jobs /\ JobEnd(job[p], pv)
        BY DEF TypeInv, JobsOK, EndInv
      <4>2. /\ j \in Jobs /\ j.pc = "checkDevice" /\ j.usr = job[p].usr
            /\ j.calm = job[p].calm /\ j.begun = job[p].begun
        BY <4>1 DEF Jobs, Pcs
      <4>3. JobEnd(j, pv)
        BY <3>1, <4>1, <4>2 DEF JobEnd, ShutPcs
      <4> QED BY <2>1, <3>3, <4>2, <4>3, EndQuiet DEF Goto, LoginPcs
    <3> QED BY <1>7, <2>3, <3>2, <3>3 DEF CheckPv
  <2> QED BY <2>2, <2>3
<1>8. CASE CheckDevice(p)
  <2>1. "closed" \notin job[p].begun
    BY <1>8 DEF CheckDevice, EndInv, JobEnd
  <2> QED BY <1>0, <1>8, <2>1, EndEnds, PassedEndInv DEF CheckDevice, TokPcs
<1> QED BY <1>1, <1>2, <1>3, <1>4, <1>5, <1>6, <1>7, <1>8 DEF GuardStep

LEMMA HandlerEndInv ==
  ASSUME NEW p \in Procs, TypeInv, EndInv, HandlerStep(p)
  PROVE  EndInv'
<1> USE DEF At, past, redis
<1>0. job[p].pc = "admitted" => job[p].usr \in Users
  BY DEF TypeInv, JobsOK, JobBound
<1>1. CASE Reply(p)
  BY <1>1, EndEnds DEF Reply
<1>2. ASSUME NEW l \in {"blacklist", "pwUpdate"}, job[p].pc = "admitted",
             UNCHANGED <<pv, closed>>,
             Put(p, [job[p] EXCEPT !.pc = l, !.calm = NoLogin(job[p].usr)])
      PROVE  EndInv'
  <2> DEFINE j == [job[p] EXCEPT !.pc = l, !.calm = NoLogin(job[p].usr)]
  <2>1. job[p] \in Jobs /\ JobEnd(job[p], pv) /\ NoLogin(job[p].usr) \in BOOLEAN
    BY DEF TypeInv, JobsOK, EndInv, NoLogin
  <2>2. /\ j \in Jobs /\ j.pc = l /\ j.usr = job[p].usr
        /\ j.calm = NoLogin(job[p].usr) /\ j.begun = job[p].begun
    <3>0. l \in Pcs BY DEF Pcs
    <3>1. j \in Jobs BY <2>1, <3>0 DEF Jobs
    <3> QED BY <2>1, <3>1 DEF Jobs
  <2>3. JobEnd(j, pv)
    BY <1>2, <2>1, <2>2 DEF JobEnd, ShutPcs
  <2> QED BY <1>2, <2>2, <2>3, EndQuiet DEF LoginPcs
<1>3. CASE Logout(p)
  BY <1>2, <1>3 DEF Logout
<1>4. CASE ChangePassword(p)
  BY <1>2, <1>4 DEF ChangePassword
<1> QED BY <1>1, <1>3, <1>4 DEF HandlerStep

LEMMA ClearEndInv ==
  ASSUME NEW p \in Procs, TypeInv, EndInv, ClearStep(p)
  PROVE  EndInv'
<1> USE DEF At, past, redis
<1>0. job[p].pc # "idle" => job[p].usr \in Users /\ JobEnd(job[p], pv)
  BY DEF TypeInv, JobsOK, JobBound, EndInv
<1>1. CASE Blacklist(p)
  BY <1>1, EndEnds, EndGoes DEF Blacklist, Pcs, LoginPcs, ShutPcs
<1>2. CASE RemoveRow(p)
  BY <1>2, EndEnds DEF RemoveRow
<1>3. CASE LogoutPv(p)
  <2>1. pv'[job[p].usr] # "one" /\ \A u \in Users : pv'[u] = "one" => pv[u] = "one"
    BY <1>0, <1>3 DEF LogoutPv, TypeInv, DataOK
  <2> QED BY <1>3, <2>1, EndGoes DEF LogoutPv, Pcs, LoginPcs, ShutPcs
<1>4. CASE LogoutTok(p)
  <2>1. \A u \in closed' : u \in closed \/ (pv'[u] # "one" /\ NoLogin(u))
    BY <1>0, <1>4 DEF LogoutTok, Close, JobEnd, ShutPcs
  <2> QED BY <1>4, <2>1, EndEnds DEF LogoutTok
<1> QED BY <1>1, <1>2, <1>3, <1>4 DEF ClearStep

LEMMA UpdateEndInv ==
  ASSUME NEW p \in Procs, TypeInv, EndInv, UpdateStep(p)
  PROVE  EndInv'
<1> USE DEF At, past, redis
<1>0. job[p].pc # "idle" => job[p].usr \in Users /\ JobEnd(job[p], pv)
  BY DEF TypeInv, JobsOK, JobBound, EndInv
\* The two places where a password change may end.
<1>1. ASSUME job[p].pc \in {"pvGet", "pvSet"}, AfterPassword(p), pv'[job[p].usr] # "one",
             \A u \in Users : pv'[u] = "one" => pv[u] = "one"
      PROVE  EndInv'
  <2>1. \A u \in closed' : u \in closed \/ (pv'[u] # "one" /\ NoLogin(u))
    BY <1>0, <1>1 DEF AfterPassword, Close, JobEnd
  <2> QED BY <1>1, <2>1, EndEnds, EndGoes DEF AfterPassword, Pcs, LoginPcs, ShutPcs
\* The three places that shut the gate on the way.
<1>2. ASSUME NEW l \in {"disableTok", "deleteTok"}, Goto(p, l), job[p].pc # "idle",
             pv' = [pv EXCEPT ![job[p].usr] = "none"], UNCHANGED closed
      PROVE  EndInv'
  <2>1. pv'[job[p].usr] # "one" /\ \A u \in Users : pv'[u] = "one" => pv[u] = "one"
    BY <1>0, <1>2 DEF TypeInv, DataOK
  <2> QED BY <1>2, <2>1, EndGoes DEF Pcs, LoginPcs, ShutPcs
<1>3. CASE PwUpdate(p)
  BY <1>3, EndGoes DEF PwUpdate, Pcs, LoginPcs, ShutPcs
<1>4. CASE PvGet(p)
  <2>1. CASE pv[job[p].usr] = "none"
    BY <1>1, <1>4, <2>1 DEF PvGet
  <2>2. CASE pv[job[p].usr] # "none"
    BY <1>4, <2>2, EndGoes DEF PvGet, Pcs, LoginPcs, ShutPcs
  <2> QED BY <2>1, <2>2
<1>5. CASE PvSet(p)
  <2>1. pv'[job[p].usr] # "one" /\ \A u \in Users : pv'[u] = "one" => pv[u] = "one"
    BY <1>0, <1>5 DEF PvSet, TypeInv, DataOK
  <2> QED BY <1>1, <1>5, <2>1 DEF PvSet
<1>6. CASE LockRow(p)
  BY <1>6, EndEnds, EndGoes DEF LockRow, Pcs, LoginPcs, ShutPcs
<1>7. CASE DisablePv(p)
  BY <1>2, <1>7 DEF DisablePv
<1>8. CASE DisableTok(p)
  BY <1>8, EndGoes DEF DisableTok, Pcs, LoginPcs, ShutPcs
<1>9. CASE DisableCommit(p)
  <2>1. \A u \in closed' : u \in closed \/ (pv'[u] # "one" /\ NoLogin(u))
    BY <1>0, <1>9 DEF DisableCommit, Close, JobEnd, ShutPcs
  <2> QED BY <1>9, <2>1, EndEnds DEF DisableCommit
<1>10. CASE DeletePv(p)
  BY <1>2, <1>10 DEF DeletePv
<1>11. CASE DeleteTok(p)
  <2>1. \A u \in closed' : u \in closed \/ (pv'[u] # "one" /\ NoLogin(u))
    BY <1>0, <1>11 DEF DeleteTok, Close, JobEnd, ShutPcs
  <2> QED BY <1>11, <2>1, EndEnds DEF DeleteTok
<1> QED BY <1>3, <1>4, <1>5, <1>6, <1>7, <1>8, <1>9, <1>10, <1>11 DEF UpdateStep

\* A login of u starts: no record of u relies on anything any more.
LEMMA LoginStartEndInv ==
  ASSUME NEW p \in Procs, NEW u \in Users, TypeInv, EndInv, LoginStart(p, u)
  PROVE  EndInv'
<1> USE DEF redis
<1> DEFINE j0 == [IdleJob EXCEPT !.pc = "loginInsert", !.usr = u,
                                 !.olds = IF MultiDevice THEN {}
                                            ELSE held \cap OwnedBy(u)]
           j(q) == [job[q] EXCEPT !.calm = FALSE, !.begun = @ \ {"closed"}]
<1>1. \A q \in Procs : job[q] \in Jobs /\ JobEnd(job[q], pv)
  BY DEF TypeInv, JobsOK, EndInv
<1>2. job' = [q \in Procs |-> IF q = p THEN j0
                                ELSE IF job[q].usr = u THEN j(q) ELSE job[q]]
  BY DEF LoginStart
<1>3. j0.pc = "loginInsert" /\ j0.usr = u /\ ~j0.calm /\ "closed" \notin j0.begun
  BY DEF IdleJob
<1>4. ASSUME NEW q \in Procs
      PROVE  /\ j(q).usr = job[q].usr /\ j(q).pc = job[q].pc
             /\ ~j(q).calm /\ "closed" \notin j(q).begun
  BY <1>1 DEF Jobs
<1>5. \A v : v # u /\ NoLogin(v) => NoLogin(v)'
  BY <1>2, <1>3, <1>4 DEF NoLogin
<1>6. ClosedShut'
  BY <1>5 DEF LoginStart, EndInv, ClosedShut
<1>7. ASSUME NEW q \in Procs
      PROVE  JobEnd(job[q], pv)'
  <2>1. CASE q = p
    BY <1>2, <1>3, <2>1 DEF JobEnd
  <2>2. CASE q # p /\ job[q].usr = u
    BY <1>2, <1>4, <2>2 DEF JobEnd
  <2>3. CASE q # p /\ job[q].usr # u
    BY <1>1, <1>2, <1>5, <2>3 DEF LoginStart, JobEnd
  <2> QED BY <2>1, <2>2, <2>3
<1> QED BY <1>6, <1>7 DEF EndInv

LEMMA ArriveEndInv ==
  ASSUME NEW p \in Procs, TypeInv, EndInv, Arrive(p)
  PROVE  EndInv'
<1> USE DEF past, redis
<1>0. \A u \in Users : NoLogin(u) \in BOOLEAN
  BY DEF NoLogin
<1>1. CASE \E u \in Users : LoginStart(p, u)
  BY <1>1, LoginStartEndInv
<1>2. CASE \E t \in Tokens, r \in {"account", "other"} : RequestStart(p, t, r)
  <2> PICK t \in Tokens, r \in {"account", "other"} : RequestStart(p, t, r)
    BY <1>2
  <2> DEFINE j == [IdleJob EXCEPT !.pc = "verify", !.usr = owner[t], !.tok = t,
                                  !.route = r, !.begun = Known(t)]
  <2>1. owner[t] \in Users
    BY DEF RequestStart, TypeInv, TokensBound
  <2>2. j \in Jobs
    <3>1. Known(t) \subseteq Labels BY DEF Known
    <3> QED BY <2>1, <3>1, IdleJobOK DEF Jobs, Pcs
  <2>3. j.pc = "verify" /\ j.usr = owner[t] /\ ~j.calm /\ j.begun = Known(t)
    BY DEF IdleJob
  <2>4. "closed" \in Known(t) => owner[t] \in closed
    BY DEF Known
  <2>5. JobEnd(j, pv)
    BY <2>3, <2>4 DEF JobEnd, EndInv, ClosedShut
  <2> QED BY <2>2, <2>3, <2>5, EndQuiet DEF RequestStart, LoginPcs
<1>3. ASSUME NEW j \in Jobs, j.pc \notin LoginPcs \cup ShutPcs \cup {"idle"}, Put(p, j),
             j.calm => NoLogin(j.usr), j.begun = {}, UNCHANGED <<pv, closed>>
      PROVE  EndInv'
  <2>1. JobEnd(j, pv)
    BY <1>3 DEF JobEnd
  <2> QED BY <1>3, <2>1, EndQuiet
<1>4. CASE \E t \in Tokens : Kick(p, t)
  <2> PICK t \in Tokens : Kick(p, t)
    BY <1>4
  <2> DEFINE j == [IdleJob EXCEPT !.pc = "blacklist", !.usr = owner[t], !.tok = t,
                                  !.calm = NoLogin(owner[t])]
  <2>1. owner[t] \in Users
    BY DEF Kick, TypeInv, TokensBound
  <2>2. j \in Jobs
    BY <1>0, <2>1, IdleJobOK DEF Jobs, Pcs
  <2>3. j.pc = "blacklist" /\ j.calm = NoLogin(j.usr) /\ j.begun = {}
    BY DEF IdleJob
  <2> QED BY <1>3, <2>2, <2>3 DEF Kick, LoginPcs, ShutPcs
<1>5. CASE \E u \in Users : Delete(p, u)
  <2> PICK u \in Users : Delete(p, u)
    BY <1>5
  <2> DEFINE j == [IdleJob EXCEPT !.pc = "deletePv", !.usr = u, !.calm = NoLogin(u)]
  <2>1. j \in Jobs
    BY <1>0, IdleJobOK DEF Jobs, Pcs
  <2>2. j.pc = "deletePv" /\ j.calm = NoLogin(j.usr) /\ j.begun = {}
    BY DEF IdleJob
  <2> QED BY <1>3, <2>1, <2>2 DEF Delete, LoginPcs, ShutPcs
<1>6. CASE \E u \in Users, w \in BOOLEAN, s \in {"keep", "enable", "disable"} :
             AdminUpdate(p, u, w, s)
  <2> PICK u \in Users, w \in BOOLEAN, s \in {"keep", "enable", "disable"} :
             AdminUpdate(p, u, w, s)
    BY <1>6
  <2> DEFINE j == [IdleJob EXCEPT !.pc = IF w THEN "pwUpdate" ELSE "lockRow",
                                  !.usr = u, !.then = s, !.calm = NoLogin(u)]
  <2>1. j \in Jobs
    <3>1. (IF w THEN "pwUpdate" ELSE "lockRow") \in Pcs
      BY DEF Pcs
    <3> QED BY <1>0, <3>1, IdleJobOK DEF Jobs
  <2>2. /\ j.pc \in {"pwUpdate", "lockRow"}
        /\ j.calm = NoLogin(j.usr) /\ j.begun = {}
    BY DEF IdleJob
  <2> QED BY <1>3, <2>1, <2>2 DEF AdminUpdate, LoginPcs, ShutPcs
<1> QED BY <1>1, <1>2, <1>4, <1>5, <1>6 DEF Arrive

LEMMA NextEndInv == TypeInv /\ EndInv /\ [Next]_vars => EndInv'
<1> SUFFICES ASSUME TypeInv, EndInv, [Next]_vars
             PROVE  EndInv'
  OBVIOUS
<1>1. CASE \E p \in Procs : Arrive(p)
  BY <1>1, ArriveEndInv
<1>2. CASE \E p \in Procs : Step(p)
  BY <1>2, LoginEndInv, GuardEndInv, HandlerEndInv, ClearEndInv, UpdateEndInv DEF Step
<1>3. CASE \E p \in Procs : Abort(p)
  BY <1>3, EndEnds DEF Abort, redis, past
<1>4. CASE UNCHANGED <<job, pv, closed>>
  BY <1>4 DEF EndInv, ClosedShut, JobEnd, NoLogin
<1>5. CASE Clock
  BY <1>4, <1>5 DEF Clock, Age, BlacklistExpires, CronRemove, AuthTokExpires, redis, past
<1>6. CASE UNCHANGED vars
  BY <1>4, <1>6 DEF vars
<1> QED BY <1>1, <1>2, <1>3, <1>5, <1>6 DEF Next

LEMMA InitEndInv == Init => EndInv
  BY DEF Init, EndInv, ClosedShut, JobEnd, IdleJob, ShutPcs

\* EndedSessions: once a password change, a disabling or a deletion that no
\* login of the user overlapped has ended, and until the next login of the user
\* starts, no request of the user passes the guard on its own JWT.
THEOREM EndedSessions == Spec => []EndedSessionsRefused
<1>1. EndInv => EndedSessionsRefused
  BY DEF EndInv, JobEnd, EndedSessionsRefused, Admitted
<1>2. Spec => []TypeInv
  BY InitTypeInv, NextTypeInv, PTL DEF Spec
<1> QED BY <1>1, <1>2, InitEndInv, NextEndInv, PTL DEF Spec

-----------------------------------------------------------------------------
\* What no step undoes, and what a step does to the records of handlers

\* What only grows worse: users who are gone, owners, ages, revoked
\* tokens; and a token that had no row gets none.
MonotoneData ==
    /\ \A u \in Users : account[u] = "deleted" => account'[u] = "deleted"
    /\ \A t \in Tokens : Issued(t) => owner'[t] = owner[t]
    /\ \A t \in Tokens : age[t] \in {Expired, Dead} => age'[t] \in {Expired, Dead}
    /\ \A t \in Tokens : age'[t] = Fresh =>
          age[t] = Fresh /\ (black[t] # "none" => black'[t] # "none")
    /\ out \subseteq out'
    /\ \A t \in rows' : t \in rows \/ ~Issued(t)

LEMMA Monotone == TypeInv /\ [Next]_vars => MonotoneData
<1> SUFFICES ASSUME TypeInv, [Next]_vars
             PROVE  MonotoneData
  OBVIOUS
<1> USE DEF db, redis, past, MonotoneData
<1>0. DataOK
  BY DEF TypeInv
<1>1. ASSUME NEW p \in Procs, Arrive(p)
      PROVE  MonotoneData
  BY <1>0, <1>1 DEF Arrive, LoginStart, RequestStart, Kick, Delete, RemoveRows, AdminUpdate,
     DataOK
<1>2. ASSUME NEW p \in Procs, LoginStep(p)
      PROVE  MonotoneData
  BY <1>0, <1>2 DEF LoginStep, LoginInsert, LoginRefresh, LoginCache, LoginPv, LoginReply,
     Insert, IsNext, DataOK
<1>3. ASSUME NEW p \in Procs, GuardStep(p)
      PROVE  MonotoneData
  BY <1>0, <1>3 DEF GuardStep, Recheck, Verify, Lookup, Reissue, ReissueRefresh, DropOld,
     RemoveRows, CheckPv, CheckDevice, Insert, IsNext, DataOK
<1>4. ASSUME NEW p \in Procs, HandlerStep(p) \/ Abort(p)
      PROVE  MonotoneData
  BY <1>0, <1>4 DEF HandlerStep, Reply, Logout, ChangePassword, Abort
<1>5. ASSUME NEW p \in Procs, ClearStep(p)
      PROVE  MonotoneData
  BY <1>0, <1>5 DEF ClearStep, Blacklist, RemoveRow, RemoveRows, LogoutPv, LogoutTok, DataOK
<1>6. ASSUME NEW p \in Procs, UpdateStep(p)
      PROVE  MonotoneData
  BY <1>0, <1>6 DEF UpdateStep, PwUpdate, PvGet, PvSet, LockRow, DisablePv, DisableTok,
     DisableCommit, DeletePv, DeleteTok, DataOK
<1>7. ASSUME Clock
      PROVE  MonotoneData
  <2> USE <1>0 DEF DataOK, Fresh, Closing, Expired, Dead
  <2>1. CASE \E t \in Tokens : Age(t)
    BY <2>1 DEF Age
  <2>2. CASE \E t \in Tokens : BlacklistExpires(t)
    BY <2>2 DEF BlacklistExpires
  <2>3. CASE \E t \in Tokens : CronRemove(t)
    BY <2>3 DEF CronRemove, RemoveRows
  <2>4. CASE \E u \in Users : AuthTokExpires(u)
    BY <2>4 DEF AuthTokExpires
  <2> QED BY <1>7, <2>1, <2>2, <2>3, <2>4 DEF Clock
<1>8. CASE UNCHANGED vars
  BY <1>8 DEF vars
<1> QED BY <1>1, <1>2, <1>3, <1>4, <1>5, <1>6, <1>7, <1>8 DEF Next, Step

\* The record of p after a step of its own: it ends, or goes on remembering
\* what its request began with.
LEMMA StepJob ==
  ASSUME NEW p \in Procs, TypeInv, Step(p)
  PROVE  /\ \A q \in Procs \ {p} : job'[q] = job[q]
         /\ job'[p] = IdleJob \/ job'[p].begun = job[p].begun
<1> USE DEF End, Goto, Put
<1>0. job \in [Procs -> Jobs]
  BY DEF TypeInv, JobsOK
<1>1. \A q \in Procs : job[q] \in Jobs
  BY <1>0
<1>2. CASE LoginStep(p)
  <2>1. CASE LoginInsert(p)
    <3>1. CASE End(p)
      BY <1>0, <3>1
    <3>2. CASE \E t \in Tokens : Put(p, [job[p] EXCEPT !.pc = "loginRefresh", !.tok = t])
      <4> PICK t \in Tokens : Put(p, [job[p] EXCEPT !.pc = "loginRefresh", !.tok = t])
        BY <3>2
      <4> DEFINE j == [job[p] EXCEPT !.pc = "loginRefresh", !.tok = t]
      <4>1. j.begun = job[p].begun
        BY <1>1 DEF Jobs
      <4> HIDE DEF j
      <4> QED BY <1>0, <4>1
    <3> QED BY <2>1, <3>1, <3>2 DEF LoginInsert
  <2>2. CASE LoginRefresh(p) \/ LoginCache(p)
    BY <1>0, <1>1, <2>2 DEF LoginRefresh, LoginCache, Jobs
  <2>3. CASE LoginPv(p) \/ LoginReply(p)
    BY <1>0, <1>1, <2>3 DEF LoginPv, LoginReply, Jobs
  <2> QED BY <1>2, <2>1, <2>2, <2>3 DEF LoginStep
<1>3. CASE GuardStep(p)
  <2>1. CASE Recheck(p) \/ Verify(p) \/ Lookup(p)
    BY <1>0, <1>1, <2>1 DEF Recheck, Verify, Lookup, Jobs
  <2>2. CASE Reissue(p) \/ ReissueRefresh(p)
    <3>1. CASE End(p) \/ Goto(p, "dropOld")
      BY <1>0, <1>1, <3>1 DEF Jobs
    <3>2. CASE \E t \in Tokens : Put(p, [job[p] EXCEPT !.pc = "reissueRefresh", !.new = t])
      <4> PICK t \in Tokens : Put(p, [job[p] EXCEPT !.pc = "reissueRefresh", !.new = t])
        BY <3>2
      <4> DEFINE j == [job[p] EXCEPT !.pc = "reissueRefresh", !.new = t]
      <4>1. j.begun = job[p].begun
        BY <1>1 DEF Jobs
      <4> HIDE DEF j
      <4> QED BY <1>0, <4>1
    <3> QED BY <2>2, <3>1, <3>2 DEF Reissue, ReissueRefresh
  <2>3. CASE DropOld(p) \/ CheckPv(p) \/ CheckDevice(p)
    <3>1. \/ End(p) \/ Goto(p, "checkDevice")
          \/ \E t \in Tokens \cup {NoTok}, how \in {"direct", "refresh"} : Passed(p, t, how)
      BY <1>1, <2>3 DEF DropOld, CheckPv, CheckDevice, Jobs
    <3>2. CASE End(p) \/ Goto(p, "checkDevice")
      BY <1>0, <1>1, <3>2 DEF Jobs
    <3>3. CASE \E t \in Tokens \cup {NoTok}, how \in {"direct", "refresh"} : Passed(p, t, how)
      <4> PICK t \in Tokens \cup {NoTok}, how \in {"direct", "refresh"} : Passed(p, t, how)
        BY <3>3
      <4> DEFINE j1 == [job[p] EXCEPT !.pc = "recheck", !.pass = 2, !.tok = t, !.new = NoTok]
                 j2 == [job[p] EXCEPT !.pc = "admitted", !.how = how]
      <4>1. j1.begun = job[p].begun /\ j2.begun = job[p].begun
        BY <1>1 DEF Jobs
      <4>2. job' = [job EXCEPT ![p] = j1] \/ job' = [job EXCEPT ![p] = j2]
        BY DEF Passed
      <4> HIDE DEF j1, j2
      <4> QED BY <1>0, <4>1, <4>2
    <3> QED BY <3>1, <3>2, <3>3
  <2> QED BY <1>3, <2>1, <2>2, <2>3 DEF GuardStep
<1>4. CASE HandlerStep(p)
  <2>1. CASE End(p)
    BY <1>0, <2>1
  <2>2. ASSUME NEW l \in {"blacklist", "pwUpdate"},
               Put(p, [job[p] EXCEPT !.pc = l, !.calm = NoLogin(job[p].usr)])
        PROVE  /\ \A q \in Procs \ {p} : job'[q] = job[q]
               /\ job'[p] = IdleJob \/ job'[p].begun = job[p].begun
    <3> DEFINE j == [job[p] EXCEPT !.pc = l, !.calm = NoLogin(job[p].usr)]
    <3>1. j.begun = job[p].begun
      BY <1>1 DEF Jobs
    <3>2. job' = [job EXCEPT ![p] = j]
      BY <2>2
    <3> HIDE DEF j
    <3> QED BY <1>0, <3>1, <3>2
  <2> QED BY <1>4, <2>1, <2>2 DEF HandlerStep, Reply, Logout, ChangePassword
<1>5. CASE ClearStep(p)
  BY <1>0, <1>1, <1>5 DEF ClearStep, Blacklist, RemoveRow, LogoutPv, LogoutTok, Jobs
<1>6. CASE UpdateStep(p)
  BY <1>0, <1>1, <1>6 DEF UpdateStep, PwUpdate, PvGet, PvSet, AfterPassword, LockRow,
     DisablePv, DisableTok, DisableCommit, DeletePv, DeleteTok, Jobs
<1> QED BY <1>2, <1>3, <1>4, <1>5, <1>6 DEF Step

-----------------------------------------------------------------------------
\* GoneInv

\* A row is only inserted for a user who exists, and a user's rows go with him.
LEMMA RowsAliveKept == TypeInv /\ RowsAlive /\ [Next]_vars => RowsAlive'
<1> SUFFICES ASSUME TypeInv, RowsAlive, [Next]_vars
             PROVE  RowsAlive'
  OBVIOUS
<1> USE DEF db, redis, past
<1>0. /\ account \in [Users -> {"enabled", "disabled", "deleted"}]
      /\ owner \in [Tokens -> Users \cup {Nobody}]
      /\ rows \subseteq Tokens
      /\ \A t \in rows : owner[t] \in Users /\ account[owner[t]] # "deleted"
  BY DEF TypeInv, DataOK, TokensBound, RowsAlive
\* Rows may go; owners and accounts stay.
<1>1. CASE rows' \subseteq rows /\ UNCHANGED <<owner, account>>
  BY <1>0, <1>1 DEF RowsAlive
\* One row is inserted for a user who exists.
<1>2. ASSUME NEW p \in Procs, NEW t \in Tokens, Insert(t, job[p].usr), UNCHANGED account,
             account[job[p].usr] # "deleted"
      PROVE  RowsAlive'
  <2>1. owner' = [owner EXCEPT ![t] = job[p].usr] /\ rows' = rows \cup {t}
        /\ owner[t] = Nobody
    BY <1>2 DEF Insert, IsNext, Issued
  <2> QED BY <1>0, <1>2, <2>1, SessionAssumption DEF RowsAlive
\* Accounts are enabled or disabled.
<1>3. CASE /\ UNCHANGED <<owner, rows>>
           /\ \A u \in Users : account'[u] = "deleted" => account[u] = "deleted"
  BY <1>0, <1>3 DEF RowsAlive
<1>4. ASSUME NEW p \in Procs, Arrive(p)
      PROVE  RowsAlive'
  <2>1. CASE \E u \in Users : Delete(p, u)
    <3> PICK u \in Users : Delete(p, u)
      BY <2>1
    <3>1. /\ account' = [account EXCEPT ![u] = "deleted"]
          /\ rows' = rows \ OwnedBy(u)
          /\ owner' = owner
      BY DEF Delete, RemoveRows
    <3> QED BY <1>0, <3>1 DEF RowsAlive, OwnedBy
  <2>2. CASE ~\E u \in Users : Delete(p, u)
    BY <1>1, <1>4, <2>2 DEF Arrive, LoginStart, RequestStart, Kick, AdminUpdate
  <2> QED BY <2>1, <2>2
<1>5. ASSUME NEW p \in Procs, LoginStep(p)
      PROVE  RowsAlive'
  BY <1>1, <1>2, <1>5 DEF LoginStep, LoginInsert, LoginRefresh, LoginCache, LoginPv, LoginReply
<1>6. ASSUME NEW p \in Procs, GuardStep(p)
      PROVE  RowsAlive'
  BY <1>1, <1>2, <1>6 DEF GuardStep, Recheck, Verify, Lookup, Reissue, ReissueRefresh,
     DropOld, RemoveRows, CheckPv, CheckDevice
<1>7. ASSUME NEW p \in Procs, HandlerStep(p) \/ ClearStep(p) \/ Abort(p)
      PROVE  RowsAlive'
  BY <1>1, <1>7 DEF HandlerStep, Reply, Logout, ChangePassword, ClearStep, Blacklist,
     RemoveRow, RemoveRows, LogoutPv, LogoutTok, Abort
<1>8. ASSUME NEW p \in Procs, UpdateStep(p)
      PROVE  RowsAlive'
  <2>1. CASE LockRow(p) \/ DisableCommit(p)
    BY <1>0, <1>3, <2>1 DEF LockRow, DisableCommit
  <2>2. CASE ~(LockRow(p) \/ DisableCommit(p))
    BY <1>1, <1>8, <2>2 DEF UpdateStep, PwUpdate, PvGet, PvSet, DisablePv, DisableTok,
       DeletePv, DeleteTok
  <2> QED BY <2>1, <2>2
<1>9. CASE Clock
  BY <1>1, <1>9 DEF Clock, Age, BlacklistExpires, CronRemove, RemoveRows, AuthTokExpires
<1>10. CASE UNCHANGED vars
  BY <1>1, <1>10 DEF vars
<1> QED BY <1>4, <1>5, <1>6, <1>7, <1>8, <1>9, <1>10 DEF Next, Step

LEMMA NextGoneInv == TypeInv /\ EndInv /\ GoneInv /\ [Next]_vars => GoneInv'
<1> SUFFICES ASSUME TypeInv, EndInv, GoneInv, [Next]_vars
             PROVE  GoneInv'
  OBVIOUS
<1> USE DEF db, redis, past
<1>0. MonotoneData /\ RowsAlive'
  BY Monotone, RowsAliveKept DEF GoneInv
<1>1. \A q \in Procs : JobGone(job[q]) /\ JobEnd(job[q], pv) /\ job[q] \in Jobs /\ JobBound(job[q])
  BY DEF GoneInv, EndInv, TypeInv, JobsOK
\* A record that only moved on among the three calls is still in order.
<1>2. ASSUME NEW q \in Procs, "gone" \in job[q].begun,
             job'[q].usr = job[q].usr, job'[q].tok = job[q].tok,
             job'[q].begun = job[q].begun,
             job'[q].pc \in {"verify", "checkPv", "lookup"}
      PROVE  JobGone(job[q])'
  <2>1. /\ job[q].pc \in {"verify", "checkPv", "lookup"} /\ "closed" \in job[q].begun
        /\ account[job[q].usr] = "deleted" /\ owner[job[q].tok] = job[q].usr
    BY <1>1, <1>2 DEF JobGone
  <2>2. job[q].usr \in Users /\ job[q].tok \in Tokens
    BY <1>1, <2>1 DEF JobBound, TokPcs
  <2>3. Issued(job[q].tok)
    BY <2>1, <2>2, SessionAssumption DEF Issued
  <2> QED BY <1>0, <1>2, <2>1, <2>2, <2>3 DEF JobGone, MonotoneData
<1>3. ASSUME NEW q \in Procs, job'[q] = job[q]
      PROVE  JobGone(job[q])'
  BY <1>1, <1>2, <1>3 DEF JobGone
<1>4. ASSUME NEW q \in Procs, "gone" \notin job'[q].begun
      PROVE  JobGone(job[q])'
  BY <1>4 DEF JobGone
<1>5. IdleJob.begun = {}
  BY DEF IdleJob
<1>6. ASSUME NEW p \in Procs, Step(p), NEW q \in Procs
      PROVE  JobGone(job[q])'
  <2>1. CASE q # p
    BY <1>3, <1>6, <2>1, StepJob
  <2>2. CASE q = p /\ "gone" \notin job[p].begun
    BY <1>4, <1>5, <1>6, <2>2, StepJob
  <2>3. CASE q = p /\ "gone" \in job[p].begun
    <3>1. /\ job[p].pc \in {"verify", "checkPv", "lookup"} /\ "closed" \in job[p].begun
          /\ account[job[p].usr] = "deleted" /\ owner[job[p].tok] = job[p].usr
      BY <1>1, <2>3 DEF JobGone
    <3>2. Verify(p) \/ CheckPv(p) \/ Lookup(p)
      BY <1>6, <3>1 DEF Step, LoginStep, GuardStep, HandlerStep, ClearStep, UpdateStep, At,
         LoginInsert, LoginRefresh, LoginCache, LoginPv, LoginReply, Recheck, Reissue,
         ReissueRefresh, DropOld, CheckDevice, Reply, Logout, ChangePassword, Blacklist,
         RemoveRow, LogoutPv, LogoutTok, PwUpdate, PvGet, PvSet, LockRow, DisablePv,
         DisableTok, DisableCommit, DeletePv, DeleteTok
    <3>3. CASE Verify(p)
      <4> PICK l \in {"checkPv", "lookup"} : Goto(p, l)
        BY <3>3 DEF Verify
      <4>1. job'[p] = [job[p] EXCEPT !.pc = l]
        BY DEF Goto, Put, TypeInv, JobsOK
      <4>2. /\ job'[p].usr = job[p].usr /\ job'[p].tok = job[p].tok
            /\ job'[p].begun = job[p].begun /\ job'[p].pc = l
        BY <1>1, <4>1 DEF Jobs
      <4> QED BY <1>2, <2>3, <4>2
    <3>4. CASE CheckPv(p)
      <4>1. pv[job[p].usr] # "one"
        BY <1>1, <3>1 DEF JobEnd
      <4>2. job'[p] = IdleJob
        BY <3>4, <4>1, EndJob DEF CheckPv, TypeInv
      <4> QED BY <1>4, <1>5, <2>3, <4>2
    <3>5. CASE Lookup(p)
      <4>1. job[p].tok \notin rows
        BY <3>1 DEF GoneInv, RowsAlive
      <4>2. job'[p] = IdleJob
        BY <3>5, <4>1, EndJob DEF Lookup, TypeInv
      <4> QED BY <1>4, <1>5, <2>3, <4>2
    <3> QED BY <3>2, <3>3, <3>4, <3>5
  <2> QED BY <2>1, <2>2, <2>3
<1>7. ASSUME NEW p \in Procs, NEW u \in Users, LoginStart(p, u), NEW q \in Procs
      PROVE  JobGone(job[q])'
  <2>1. CASE q = p
    <3>1. job'[q].begun = {}
      BY <1>7, <2>1 DEF LoginStart, IdleJob
    <3> QED BY <1>4, <3>1
  <2>2. CASE q # p /\ job[q].usr # u
    BY <1>3, <1>7, <2>2 DEF LoginStart
  <2>3. CASE q # p /\ job[q].usr = u
    <3>1. "gone" \notin job[q].begun
      BY <1>1, <1>7, <2>3 DEF LoginStart, JobGone
    <3>2. job'[q] = [job[q] EXCEPT !.calm = FALSE, !.begun = @ \ {"closed"}]
      BY <1>7, <2>3 DEF LoginStart
    <3>3. job'[q].begun = job[q].begun \ {"closed"}
      BY <1>1, <3>2 DEF Jobs
    <3> QED BY <1>4, <3>1, <3>3
  <2> QED BY <2>1, <2>2, <2>3
<1>8. ASSUME NEW p \in Procs, NEW t \in Tokens, NEW r \in {"account", "other"},
             RequestStart(p, t, r), NEW q \in Procs
      PROVE  JobGone(job[q])'
  <2>1. /\ job'[p] = [IdleJob EXCEPT !.pc = "verify", !.usr = owner[t], !.tok = t,
                                     !.route = r, !.begun = Known(t)]
        /\ \A o \in Procs \ {p} : job'[o] = job[o]
    BY <1>8 DEF RequestStart, Put, TypeInv, JobsOK
  <2>2. /\ job'[p].pc = "verify" /\ job'[p].usr = owner[t] /\ job'[p].tok = t
        /\ job'[p].begun = Known(t)
    BY <2>1 DEF IdleJob
  <2>3. UNCHANGED <<account, owner>>
    BY <1>8 DEF RequestStart
  <2>4. "gone" \in Known(t) => "closed" \in Known(t) /\ account[owner[t]] = "deleted"
    BY DEF Known, Labels
  <2>5. JobGone(job[p])'
    BY <2>2, <2>3, <2>4 DEF JobGone
  <2> QED BY <1>3, <2>1, <2>5
<1>9. ASSUME NEW p \in Procs, NEW q \in Procs,
             Abort(p) \/ (\E t \in Tokens : Kick(p, t)) \/ (\E u \in Users : Delete(p, u))
             \/ (\E u \in Users, w \in BOOLEAN, s \in {"keep", "enable", "disable"} :
                    AdminUpdate(p, u, w, s))
      PROVE  JobGone(job[q])'
  <2>1. job'[p].begun = {} /\ \A o \in Procs \ {p} : job'[o] = job[o]
    <3>1. PICK j : Put(p, j) /\ j.begun = {}
      <4>1. CASE Abort(p)
        BY <1>5, <4>1 DEF Abort, End
      <4>2. CASE \E t \in Tokens : Kick(p, t)
        <5> PICK t \in Tokens : Kick(p, t)
          BY <4>2
        <5> DEFINE j == [IdleJob EXCEPT !.pc = "blacklist", !.usr = owner[t], !.tok = t,
                                        !.calm = NoLogin(owner[t])]
        <5>1. j.begun = {}
          BY DEF IdleJob
        <5>2. Put(p, j)
          BY DEF Kick
        <5> HIDE DEF j
        <5> QED BY <5>1, <5>2
      <4>3. CASE \E u \in Users : Delete(p, u)
        <5> PICK u \in Users : Delete(p, u)
          BY <4>3
        <5> DEFINE j == [IdleJob EXCEPT !.pc = "deletePv", !.usr = u, !.calm = NoLogin(u)]
        <5>1. j.begun = {}
          BY DEF IdleJob
        <5>2. Put(p, j)
          BY DEF Delete
        <5> HIDE DEF j
        <5> QED BY <5>1, <5>2
      <4>4. CASE \E u \in Users, w \in BOOLEAN, s \in {"keep", "enable", "disable"} :
                   AdminUpdate(p, u, w, s)
        <5> PICK u \in Users, w \in BOOLEAN, s \in {"keep", "enable", "disable"} : AdminUpdate(p, u, w, s)
          BY <4>4
        <5> DEFINE j == [IdleJob EXCEPT !.pc = IF w THEN "pwUpdate" ELSE "lockRow",
                                        !.usr = u, !.then = s, !.calm = NoLogin(u)]
        <5>1. j.begun = {}
          BY DEF IdleJob
        <5>2. Put(p, j)
          BY DEF AdminUpdate
        <5> HIDE DEF j
        <5> QED BY <5>1, <5>2
      <4> QED BY <1>9, <4>1, <4>2, <4>3, <4>4
    <3> QED BY <3>1 DEF Put, TypeInv, JobsOK
  <2> QED BY <1>3, <1>4, <2>1
<1>10. ASSUME NEW q \in Procs, Clock \/ UNCHANGED vars
       PROVE  JobGone(job[q])'
  <2>1. job' = job
    BY <1>10 DEF Clock, Age, BlacklistExpires, CronRemove, AuthTokExpires, vars
  <2> QED BY <1>3, <2>1
<1>11. \A q \in Procs : JobGone(job[q])'
  BY <1>6, <1>7, <1>8, <1>9, <1>10 DEF Next, Arrive
<1> QED BY <1>0, <1>11 DEF GoneInv

LEMMA InitGoneInv == Init => GoneInv
  BY DEF Init, GoneInv, RowsAlive, JobGone, IdleJob

\* DeletedUsers: once the deletion of a user that no login of the user
\* overlapped has ended, no request with one of the user's tokens passes the
\* guard, whether the token is still valid or would have to be refreshed.
THEOREM DeletedUsers == Spec => []DeletedRefused
<1>1. GoneInv => DeletedRefused
  BY DEF GoneInv, JobGone, DeletedRefused, Admitted
<1>2. Spec => []TypeInv
  BY InitTypeInv, NextTypeInv, PTL DEF Spec
<1>3. Spec => []EndInv
  BY <1>2, InitEndInv, NextEndInv, PTL DEF Spec
<1> QED BY <1>1, <1>2, <1>3, InitGoneInv, NextGoneInv, PTL DEF Spec

-----------------------------------------------------------------------------
\* OutInv

\* The record j of p after a step that blacklists nothing: it works on issued
\* tokens, and if its token was known to be logged out, it is about to look the
\* row up.
LEMMA OutRecord ==
  ASSUME NEW p \in Procs, NEW j \in Jobs, TypeInv, OutInv, MonotoneData, Put(p, j),
         j.pc \notin {"logoutPv", "logoutTok", "removeRow"},
         j.tok \in Tokens => owner'[j.tok] # Nobody,
         j.new \in Tokens => owner'[j.new] # Nobody,
         "out" \in j.begun => /\ j.pc \in {"verify", "lookup"}
                              /\ j.tok \in out
                              /\ age[j.tok] \in {Expired, Dead}
  PROVE  \A q \in Procs : JobOut(job[q])'
<1>1. job'[p] = j /\ \A q \in Procs \ {p} : job'[q] = job[q]
  BY DEF Put, TypeInv, JobsOK
<1>2. out \subseteq Tokens
  BY DEF TypeInv, DataOK
<1>3. JobOut(job[p])'
  BY <1>1, <1>2 DEF JobOut, Issued, MonotoneData
<1>4. ASSUME NEW q \in Procs, job'[q] = job[q]
      PROVE  JobOut(job[q])'
  <2>1. JobOut(job[q]) /\ (job[q].pc = "removeRow" => job[q].tok \in Tokens)
    BY DEF OutInv, TypeInv, JobsOK, JobBound, TokPcs
  <2> QED BY <1>2, <1>4, <2>1 DEF JobOut, Issued, MonotoneData
<1> QED BY <1>1, <1>3, <1>4

LEMMA OutEnds ==
  ASSUME NEW p \in Procs, TypeInv, OutInv, MonotoneData, End(p)
  PROVE  \A q \in Procs : JobOut(job[q])'
<1>1. /\ IdleJob \in Jobs /\ IdleJob.pc = "idle" /\ IdleJob.begun = {}
      /\ IdleJob.tok \notin Tokens /\ IdleJob.new \notin Tokens
  BY IdleJobOK DEF IdleJob, Tokens, NoTok
<1> QED BY <1>1, OutRecord DEF End

\* p only goes on to its next call.
LEMMA OutGoes ==
  ASSUME NEW p \in Procs, NEW l \in Pcs, TypeInv, OutInv, MonotoneData, Goto(p, l),
         l \notin {"logoutPv", "logoutTok", "removeRow"},
         l = "lookup" \/ "out" \notin job[p].begun
  PROVE  \A q \in Procs : JobOut(job[q])'
<1> DEFINE j == [job[p] EXCEPT !.pc = l]
<1>1. job[p] \in Jobs /\ JobOut(job[p])
  BY DEF TypeInv, JobsOK, OutInv
<1>2. /\ j \in Jobs /\ j.pc = l /\ j.tok = job[p].tok /\ j.new = job[p].new
      /\ j.begun = job[p].begun
  BY <1>1 DEF Jobs
<1>3. /\ j.tok \in Tokens => owner'[j.tok] # Nobody
      /\ j.new \in Tokens => owner'[j.new] # Nobody
  BY <1>1, <1>2 DEF JobOut, Issued, MonotoneData
<1> QED BY <1>1, <1>2, <1>3, OutRecord DEF Goto, JobOut

\* p goes on with a record j that works on tokens of its own or a new one.
LEMMA OutOther ==
  ASSUME NEW p \in Procs, NEW j \in Jobs, TypeInv, OutInv, MonotoneData, Put(p, j),
         j.pc \notin {"logoutPv", "logoutTok", "removeRow"},
         "out" \notin job[p].begun, j.begun = job[p].begun,
         j.tok \in {job[p].tok, job[p].new} \/ owner'[j.tok] # Nobody,
         j.new \in {job[p].new, NoTok} \/ owner'[j.new] # Nobody
  PROVE  \A q \in Procs : JobOut(job[q])'
<1>1. JobOut(job[p]) /\ NoTok \notin Tokens
  BY DEF OutInv, Tokens, NoTok
<1>2. /\ j.tok \in Tokens => owner'[j.tok] # Nobody
      /\ j.new \in Tokens => owner'[j.new] # Nobody
  BY <1>1 DEF JobOut, Issued, MonotoneData
<1> QED BY <1>2, OutRecord

\* A request whose token is known to be logged out only verifies or looks up.
LEMMA OutCalls ==
  ASSUME NEW p \in Procs, OutInv, Step(p), "out" \in job[p].begun
  PROVE  Verify(p) \/ Lookup(p)
<1>1. job[p].pc \in {"verify", "lookup"}
  BY DEF OutInv, JobOut
<1> QED BY <1>1 DEF Step, LoginStep, GuardStep, HandlerStep, ClearStep, UpdateStep, At,
      LoginInsert, LoginRefresh, LoginCache, LoginPv, LoginReply, Recheck, Reissue,
      ReissueRefresh, DropOld, CheckPv, CheckDevice, Reply, Logout, ChangePassword, Blacklist,
      RemoveRow, LogoutPv, LogoutTok, PwUpdate, PvGet, PvSet, LockRow, DisablePv,
      DisableTok, DisableCommit, DeletePv, DeleteTok

LEMMA OutKnownStep ==
  ASSUME NEW p \in Procs, TypeInv, OutInv, MonotoneData, Step(p), "out" \in job[p].begun
  PROVE  \A q \in Procs : JobOut(job[q])'
<1>1. JobOut(job[p])
  BY DEF OutInv
<1>2. CASE Verify(p)
  <2>1. Goto(p, "lookup")
    BY <1>1, <1>2 DEF Verify, JobOut, Expired, Dead
  <2> QED BY <2>1, OutGoes DEF Pcs
<1>3. CASE Lookup(p)
  <2>1. job[p].tok \notin rows
    BY <1>1 DEF JobOut, OutInv, OutGone
  <2> QED BY <1>3, <2>1, OutEnds DEF Lookup
<1> QED BY <1>2, <1>3, OutCalls

LEMMA OutGuardStep ==
  ASSUME NEW p \in Procs, TypeInv, OutInv, MonotoneData, GuardStep(p),
         "out" \notin job[p].begun
  PROVE  \A q \in Procs : JobOut(job[q])'
<1>0. job[p] \in Jobs
  BY DEF TypeInv, JobsOK
<1>1. CASE Recheck(p) \/ Verify(p) \/ Lookup(p) \/ ReissueRefresh(p)
  <2>1. End(p) \/ \E l \in {"verify", "checkPv", "lookup", "reissue", "dropOld"} : Goto(p, l)
    BY <1>1 DEF Recheck, Verify, Lookup, ReissueRefresh
  <2> QED BY <2>1, OutEnds, OutGoes DEF Pcs
<1>2. CASE Reissue(p)
  <2>1. CASE End(p)
    BY <2>1, OutEnds
  <2>2. CASE ~End(p)
    <3>1. PICK t \in Tokens :
               /\ Insert(t, job[p].usr)
               /\ Put(p, [job[p] EXCEPT !.pc = "reissueRefresh", !.new = t])
      BY <1>2, <2>2 DEF Reissue
    <3> DEFINE j == [job[p] EXCEPT !.pc = "reissueRefresh", !.new = t]
    <3>2. j \in Jobs /\ j.pc = "reissueRefresh" /\ j.tok = job[p].tok /\ j.new = t
          /\ j.begun = job[p].begun
      <4>0. "reissueRefresh" \in Pcs BY DEF Pcs
      <4>1. j \in Jobs BY <1>0, <4>0 DEF Jobs
      <4> QED BY <1>0, <4>1 DEF Jobs
    <3>3. owner'[t] # Nobody
      <4>1. job[p].usr \in Users
        BY <1>2 DEF Reissue, At, TypeInv, JobsOK, JobBound
      <4> QED BY <3>1, <4>1, SessionAssumption DEF Insert, TypeInv, DataOK
    <3> HIDE DEF j
    <3> QED BY <3>1, <3>2, <3>3, OutOther DEF j
  <2> QED BY <2>1, <2>2
<1>3. CASE DropOld(p) \/ CheckPv(p) \/ CheckDevice(p)
  <2>1. \/ End(p) \/ Goto(p, "checkDevice")
        \/ \E t \in {job[p].tok, job[p].new}, how \in {"direct", "refresh"} : Passed(p, t, how)
    BY <1>3 DEF DropOld, CheckPv, CheckDevice
  <2>2. CASE End(p) \/ Goto(p, "checkDevice")
    BY <2>2, OutEnds, OutGoes DEF Pcs
  <2>3. CASE \E t \in {job[p].tok, job[p].new}, how \in {"direct", "refresh"} : Passed(p, t, how)
    <3> PICK t \in {job[p].tok, job[p].new}, how \in {"direct", "refresh"} : Passed(p, t, how)
      BY <2>3
    <3> DEFINE j1 == [job[p] EXCEPT !.pc = "recheck", !.pass = 2, !.tok = t, !.new = NoTok]
               j2 == [job[p] EXCEPT !.pc = "admitted", !.how = how]
    <3>1. /\ j1 \in Jobs /\ j1.pc = "recheck" /\ j1.tok = t /\ j1.new = NoTok
          /\ j1.begun = job[p].begun
      <4>1. t \in Tokens \cup {NoTok} BY <1>0 DEF Jobs
      <4>0. "recheck" \in Pcs BY DEF Pcs
      <4>2. j1 \in Jobs BY <1>0, <4>0, <4>1 DEF Jobs
      <4> QED BY <1>0, <4>2 DEF Jobs
    <3>2. /\ j2 \in Jobs /\ j2.pc = "admitted" /\ j2.tok = job[p].tok /\ j2.new = job[p].new
          /\ j2.begun = job[p].begun
      <4>0. "admitted" \in Pcs BY DEF Pcs
      <4>1. j2 \in Jobs BY <1>0, <4>0 DEF Jobs
      <4> QED BY <1>0, <4>1 DEF Jobs
    <3>3. Put(p, j1) \/ Put(p, j2)
      BY DEF Passed
    <3> HIDE DEF j1, j2
    <3> QED BY <3>1, <3>2, <3>3, OutOther
  <2> QED BY <2>1, <2>2, <2>3
<1> QED BY <1>1, <1>2, <1>3 DEF GuardStep

LEMMA OutStep ==
  ASSUME MultiDevice, NEW p \in Procs, TypeInv, OutInv, MonotoneData, Step(p)
  PROVE  \A q \in Procs : JobOut(job[q])'
<1>0. job[p] \in Jobs /\ JobOut(job[p])
  BY DEF TypeInv, JobsOK, OutInv
<1>1. CASE "out" \in job[p].begun
  BY <1>1, OutKnownStep
<1>2. CASE "out" \notin job[p].begun /\ GuardStep(p)
  BY <1>2, OutGuardStep
<1>3. CASE "out" \notin job[p].begun /\ (LoginStep(p) \/ UpdateStep(p)) /\ ~LoginInsert(p)
  <2>1. \/ End(p)
        \/ \E l \in {"loginCache", "loginPv", "loginReply", "pvGet", "pvSet", "lockRow",
                     "disablePv", "disableTok", "disableCommit", "deleteTok"} : Goto(p, l)
    BY <1>3 DEF LoginStep, LoginRefresh, LoginCache, LoginPv, LoginReply, UpdateStep, PwUpdate,
       PvGet, PvSet, AfterPassword, LockRow, DisablePv, DisableTok, DisableCommit, DeletePv,
       DeleteTok
  <2> QED BY <1>3, <2>1, OutEnds, OutGoes DEF Pcs
<1>4. CASE "out" \notin job[p].begun /\ LoginInsert(p)
  <2>1. CASE End(p)
    BY <2>1, OutEnds
  <2>2. CASE ~End(p)
    <3>1. PICK t \in Tokens :
               /\ Insert(t, job[p].usr)
               /\ Put(p, [job[p] EXCEPT !.pc = "loginRefresh", !.tok = t])
      BY <1>4, <2>2 DEF LoginInsert
    <3> DEFINE j == [job[p] EXCEPT !.pc = "loginRefresh", !.tok = t]
    <3>2. j \in Jobs /\ j.pc = "loginRefresh" /\ j.new = job[p].new /\ j.tok = t
          /\ j.begun = job[p].begun
      <4>1. j \in Jobs BY <1>0 DEF Jobs, Pcs
      <4> QED BY <1>0, <4>1 DEF Jobs
    <3>3. owner'[t] # Nobody
      <4>1. job[p].usr \in Users
        BY <1>4 DEF LoginInsert, At, TypeInv, JobsOK, JobBound
      <4> QED BY <3>1, <4>1, SessionAssumption DEF Insert, TypeInv, DataOK
    <3> HIDE DEF j
    <3> QED BY <1>4, <3>1, <3>2, <3>3, OutOther DEF j
  <2> QED BY <2>1, <2>2
<1>5. CASE "out" \notin job[p].begun /\ HandlerStep(p)
  <2>1. CASE End(p)
    BY <2>1, OutEnds
  <2>2. CASE \E l \in {"blacklist", "pwUpdate"} :
               Put(p, [job[p] EXCEPT !.pc = l, !.calm = NoLogin(job[p].usr)])
    <3> PICK l \in {"blacklist", "pwUpdate"} :
               Put(p, [job[p] EXCEPT !.pc = l, !.calm = NoLogin(job[p].usr)])
      BY <2>2
    <3> DEFINE j == [job[p] EXCEPT !.pc = l, !.calm = NoLogin(job[p].usr)]
    <3>1. j \in Jobs /\ j.pc = l /\ j.new = job[p].new /\ j.tok = job[p].tok
          /\ j.begun = job[p].begun
      <4>1. NoLogin(job[p].usr) \in BOOLEAN BY DEF NoLogin
      <4>0. l \in Pcs BY DEF Pcs
      <4>2. j \in Jobs BY <1>0, <4>0, <4>1 DEF Jobs
      <4> QED BY <1>0, <4>2 DEF Jobs
    <3>2. Put(p, j)
      OBVIOUS
    <3> HIDE DEF j
    <3> QED BY <1>5, <3>1, <3>2, OutOther
  <2> QED BY <1>5, <2>1, <2>2 DEF HandlerStep, Reply, Logout, ChangePassword
<1>6. CASE "out" \notin job[p].begun /\ ClearStep(p)
  <2>1. CASE End(p)
    BY <2>1, OutEnds
  <2>2. CASE Blacklist(p) /\ ~End(p)
    <3>1. PICK ttl \in {"short", "long"} : black' = [black EXCEPT ![job[p].tok] = ttl]
      BY <2>2 DEF Blacklist
    <3>2. Put(p, [job[p] EXCEPT !.pc = "removeRow"])
      BY <2>2 DEF Blacklist, Goto
    <3>3. UNCHANGED <<owner, age, out>>
      BY <2>2 DEF Blacklist, db, past
    <3>4. job[p].tok \in Tokens
      BY <2>2 DEF Blacklist, At, TypeInv, JobsOK, JobBound, TokPcs
    <3>5. job'[p] = [job[p] EXCEPT !.pc = "removeRow"] /\ \A q \in Procs \ {p} : job'[q] = job[q]
      BY <3>2 DEF Put, TypeInv, JobsOK
    <3>6. JobOut(job[p])'
      <4>1. black'[job[p].tok] # "none"
        BY <3>1, <3>4 DEF TypeInv, DataOK
      <4>2. /\ job'[p].pc = "removeRow" /\ job'[p].tok = job[p].tok
            /\ job'[p].new = job[p].new /\ job'[p].begun = job[p].begun
        BY <1>0, <3>5 DEF Jobs
      <4> QED BY <1>0, <1>6, <3>3, <4>1, <4>2 DEF JobOut, Issued
    <3>7. ASSUME NEW q \in Procs, q # p
          PROVE  JobOut(job[q])'
      <4>1. JobOut(job[q]) /\ (job[q].pc = "removeRow" => job[q].tok \in Tokens)
        BY DEF OutInv, TypeInv, JobsOK, JobBound, TokPcs
      <4> QED BY <3>3, <3>5, <3>7, <4>1 DEF JobOut, Issued, MonotoneData
    <3> QED BY <3>6, <3>7
  <2>3. ~LogoutPv(p) /\ ~LogoutTok(p)
    BY <1>0 DEF LogoutPv, LogoutTok, At, JobOut
  <2> QED BY <1>6, <2>1, <2>2, <2>3 DEF ClearStep, RemoveRow
<1> QED BY <1>1, <1>2, <1>3, <1>4, <1>5, <1>6 DEF Step

LEMMA OutArrive ==
  ASSUME NEW p \in Procs, TypeInv, OutInv, MonotoneData, Arrive(p)
  PROVE  \A q \in Procs : JobOut(job[q])'
<1> USE DEF redis, past
<1>0. /\ \A u : NoLogin(u) \in BOOLEAN
      /\ NoTok \notin Tokens
      /\ \A t \in held \cup rows : t \in Tokens /\ owner[t] \in Users /\ owner[t] # Nobody
  BY SessionAssumption DEF NoLogin, Tokens, NoTok, TypeInv, DataOK, TokensBound
<1>1. CASE \E u \in Users : LoginStart(p, u)
  <2> PICK u \in Users : LoginStart(p, u)
    BY <1>1
  <2> DEFINE j(q) == [job[q] EXCEPT !.calm = FALSE, !.begun = @ \ {"closed"}]
  <2>1. UNCHANGED <<owner, age, black, out>>
    BY DEF LoginStart, db
  <2>2. ASSUME NEW q \in Procs
        PROVE  \/ /\ job'[q].tok = NoTok /\ job'[q].new = NoTok /\ job'[q].begun = {}
                  /\ job'[q].pc = "loginInsert"
               \/ /\ job'[q].tok = job[q].tok /\ job'[q].new = job[q].new
                  /\ job'[q].begun \subseteq job[q].begun /\ job'[q].pc = job[q].pc
    <3>1. CASE q = p
      BY <3>1 DEF LoginStart, IdleJob
    <3>2. CASE q # p /\ job[q].usr = u
      <4>1. job[q] \in Jobs /\ job'[q] = j(q)
        BY <3>2 DEF LoginStart, TypeInv, JobsOK
      <4> QED BY <4>1 DEF Jobs
    <3>3. CASE q # p /\ job[q].usr # u
      BY <3>3 DEF LoginStart
    <3> QED BY <3>1, <3>2, <3>3
  <2>3. ASSUME NEW q \in Procs
        PROVE  JobOut(job[q])'
    <3>1. JobOut(job[q])
      BY DEF OutInv
    <3> QED BY <1>0, <2>1, <2>2, <3>1 DEF JobOut, Issued
  <2> QED BY <2>3
<1>2. CASE \E t \in Tokens, r \in {"account", "other"} : RequestStart(p, t, r)
  <2> PICK t \in Tokens, r \in {"account", "other"} : RequestStart(p, t, r)
    BY <1>2
  <2> DEFINE j == [IdleJob EXCEPT !.pc = "verify", !.usr = owner[t], !.tok = t,
                                  !.route = r, !.begun = Known(t)]
  <2>1. /\ j.pc = "verify" /\ j.tok = t /\ j.new = NoTok /\ j.begun = Known(t)
        /\ Put(p, j)
    BY DEF IdleJob, RequestStart
  <2>2. j \in Jobs
    <3>1. Known(t) \subseteq Labels BY DEF Known
    <3> QED BY <1>0, <3>1, IdleJobOK DEF RequestStart, Jobs, Pcs
  <2>3. owner'[t] # Nobody
    BY <1>0 DEF RequestStart, db
  <2>4. "out" \in Known(t) => t \in out /\ age[t] \in {Expired, Dead}
    <3>1. black[t] = "none"
      BY DEF RequestStart
    <3> QED BY <3>1 DEF Known, OutInv, OutGone, TypeInv, DataOK
  <2> HIDE DEF j
  <2> QED BY <1>0, <2>1, <2>2, <2>3, <2>4, OutRecord
\* The others remember nothing and work on a token with a row, or on none.
<1>3. ASSUME NEW j \in Jobs, Put(p, j), UNCHANGED owner,
             j.begun = {}, j.new = NoTok, j.tok \in rows \cup {NoTok},
             j.pc \in {"blacklist", "deletePv", "pwUpdate", "lockRow"}
      PROVE  \A q \in Procs : JobOut(job[q])'
  BY <1>0, <1>3, OutRecord
<1>4. CASE \E t \in Tokens : Kick(p, t)
  <2> PICK t \in Tokens : Kick(p, t)
    BY <1>4
  <2> DEFINE j == [IdleJob EXCEPT !.pc = "blacklist", !.usr = owner[t], !.tok = t,
                                  !.calm = NoLogin(owner[t])]
  <2>1. j \in Jobs
    BY <1>0, IdleJobOK DEF Kick, Jobs, Pcs
  <2>2. /\ j.begun = {} /\ j.new = NoTok /\ j.tok \in rows /\ j.pc = "blacklist" /\ Put(p, j)
        /\ UNCHANGED owner
    BY DEF IdleJob, Kick, db
  <2> HIDE DEF j
  <2> QED BY <1>3, <2>1, <2>2
<1>5. CASE \E u \in Users : Delete(p, u)
  <2> PICK u \in Users : Delete(p, u)
    BY <1>5
  <2> DEFINE j == [IdleJob EXCEPT !.pc = "deletePv", !.usr = u, !.calm = NoLogin(u)]
  <2>1. j \in Jobs
    BY <1>0, IdleJobOK DEF Jobs, Pcs
  <2>2. /\ j.begun = {} /\ j.new = NoTok /\ j.tok = NoTok /\ j.pc = "deletePv" /\ Put(p, j)
        /\ UNCHANGED owner
    BY DEF IdleJob, Delete
  <2> HIDE DEF j
  <2> QED BY <1>3, <2>1, <2>2
<1>6. CASE \E u \in Users, w \in BOOLEAN, s \in {"keep", "enable", "disable"} :
             AdminUpdate(p, u, w, s)
  <2> PICK u \in Users, w \in BOOLEAN, s \in {"keep", "enable", "disable"} :
             AdminUpdate(p, u, w, s)
    BY <1>6
  <2> DEFINE j == [IdleJob EXCEPT !.pc = IF w THEN "pwUpdate" ELSE "lockRow",
                                  !.usr = u, !.then = s, !.calm = NoLogin(u)]
  <2>1. j \in Jobs
    <3>1. (IF w THEN "pwUpdate" ELSE "lockRow") \in Pcs
      BY DEF Pcs
    <3> QED BY <1>0, <3>1, IdleJobOK DEF Jobs
  <2>2. /\ j.begun = {} /\ j.new = NoTok /\ j.tok = NoTok /\ j.pc \in {"pwUpdate", "lockRow"}
        /\ Put(p, j) /\ UNCHANGED owner
    BY DEF IdleJob, AdminUpdate, db
  <2> HIDE DEF j
  <2> QED BY <1>3, <2>1, <2>2
<1> QED BY <1>1, <1>2, <1>4, <1>5, <1>6 DEF Arrive

\* A logout ends by removing the row of a token it has blacklisted.
LEMMA OutGoneKept ==
  ASSUME MultiDevice, TypeInv, OutInv, MonotoneData, [Next]_vars
  PROVE  OutGone'
<1> USE DEF db, redis, past
<1>1. ASSUME NEW t \in out
      PROVE  Issued(t)' /\ t \notin rows' /\ (age'[t] = Fresh => black'[t] # "none")
  <2>1. t \in Tokens /\ Issued(t) /\ t \notin rows /\ (age[t] = Fresh => black[t] # "none")
    BY DEF OutInv, OutGone, TypeInv, DataOK
  <2> QED BY <2>1 DEF MonotoneData, Issued
<1>2. CASE out' = out
  BY <1>1, <1>2 DEF OutGone
<1>3. ASSUME NEW p \in Procs, RemoveRow(p)
      PROVE  OutGone'
  <2>1. job[p].tok \in Tokens /\ JobOut(job[p])
    BY <1>3 DEF RemoveRow, At, TypeInv, JobsOK, JobBound, TokPcs, OutInv
  <2>2. /\ owner'[job[p].tok] # Nobody /\ job[p].tok \notin rows'
        /\ age'[job[p].tok] = Fresh => black'[job[p].tok] # "none"
    BY <1>3, <2>1 DEF RemoveRow, RemoveRows, At, JobOut, Issued
  <2>3. out' = out \cup {job[p].tok}
    BY <1>3 DEF RemoveRow
  <2> QED BY <1>1, <2>2, <2>3 DEF OutGone, Issued
<1>4. ASSUME NEW p \in Procs
      PROVE  ~LogoutTok(p)
  BY DEF OutInv, JobOut, LogoutTok, At
<1>5. ASSUME NEW p \in Procs, Arrive(p) \/ LoginStep(p) \/ GuardStep(p) \/ HandlerStep(p)
      PROVE  out' = out
  <2>1. CASE Arrive(p)
    BY <2>1 DEF Arrive, LoginStart, RequestStart, Kick, Delete, AdminUpdate
  <2>2. CASE LoginStep(p)
    BY <2>2 DEF LoginStep, LoginInsert, LoginRefresh, LoginCache, LoginPv, LoginReply
  <2>3. CASE GuardStep(p)
    BY <2>3 DEF GuardStep, Recheck, Verify, Lookup, Reissue, ReissueRefresh, DropOld, CheckPv,
       CheckDevice
  <2>4. CASE HandlerStep(p)
    BY <2>4 DEF HandlerStep, Reply, Logout, ChangePassword
  <2> QED BY <1>5, <2>1, <2>2, <2>3, <2>4
<1>6. ASSUME NEW p \in Procs, UpdateStep(p) \/ Blacklist(p) \/ LogoutPv(p) \/ Abort(p)
      PROVE  out' = out
  BY <1>6 DEF UpdateStep, PwUpdate, PvGet, PvSet, LockRow, DisablePv, DisableTok, DisableCommit,
     DeletePv, DeleteTok, Blacklist, LogoutPv, Abort
<1>7. CASE Clock \/ UNCHANGED vars
  BY <1>2, <1>7 DEF Clock, Age, BlacklistExpires, CronRemove, AuthTokExpires, vars
<1> QED BY <1>2, <1>3, <1>4, <1>5, <1>6, <1>7 DEF Next, Step, ClearStep

LEMMA NextOutInv ==
  ASSUME MultiDevice, TypeInv, OutInv, [Next]_vars
  PROVE  OutInv'
<1>0. MonotoneData
  BY Monotone
<1>1. OutGone'
  BY <1>0, OutGoneKept
<1>2. CASE \E p \in Procs : Arrive(p)
  BY <1>0, <1>1, <1>2, OutArrive DEF OutInv
<1>3. CASE \E p \in Procs : Step(p)
  BY <1>0, <1>1, <1>3, OutStep DEF OutInv
<1>4. CASE \E p \in Procs : Abort(p)
  BY <1>0, <1>1, <1>4, OutEnds DEF OutInv, Abort
<1>5. CASE Clock \/ UNCHANGED vars
  <2>1. job' = job
    BY <1>5 DEF Clock, Age, BlacklistExpires, CronRemove, AuthTokExpires, vars
  <2>2. ASSUME NEW q \in Procs
        PROVE  JobOut(job[q])'
    <3>1. /\ JobOut(job[q]) /\ (job[q].pc = "removeRow" => job[q].tok \in Tokens)
          /\ out \subseteq Tokens
      BY DEF OutInv, TypeInv, DataOK, JobsOK, JobBound, TokPcs
    <3> QED BY <1>0, <2>1, <3>1 DEF JobOut, Issued, MonotoneData
  <2> QED BY <1>1, <2>2 DEF OutInv
<1> QED BY <1>2, <1>3, <1>4, <1>5 DEF Next

LEMMA InitOutInv == Init => OutInv
  BY DEF Init, OutInv, OutGone, JobOut, IdleJob, Tokens, NoTok

\* LoggedOut: with several devices, a request that presents a token whose logout
\* or kick has been answered never passes the guard, except in the last half
\* second of the JWT.
THEOREM LoggedOut ==
  ASSUME MultiDevice
  PROVE  Spec => []LoggedOutRefused
<1>1. OutInv => LoggedOutRefused
  BY DEF OutInv, JobOut, LoggedOutRefused, Admitted
<1>2. Spec => []TypeInv
  BY InitTypeInv, NextTypeInv, PTL DEF Spec
<1>3. TypeInv /\ OutInv /\ [Next]_vars => OutInv'
  BY NextOutInv
<1> QED BY <1>1, <1>2, <1>3, InitOutInv, PTL DEF Spec

-----------------------------------------------------------------------------
\* The newest device.

\* The calls of a login that has its token.
HasToken == LoginPcs \ {"loginInsert"}

\* No login can make t, which was issued, the newest device of anybody.
Barred(t) == /\ Issued(t)
             /\ \A u \in Users : authTok[u] # t
             /\ \A q \in Procs : job[q].pc \in HasToken => job[q].tok # t

\* Logins under way have tokens of their own, which no client has seen yet.
TokensApart ==
    \A p, q \in Procs : /\ job[p].pc \in HasToken => job[p].tok \notin held
                        /\ job[p].pc \in HasToken /\ job[q].pc \in HasToken /\ p # q
                              => job[p].tok # job[q].tok

OldsHeld == \A p \in Procs : job[p].pc \in LoginPcs => job[p].olds \subseteq held \cap OwnedBy(job[p].usr)

NewestOwned == \A u \in Users : authTok[u] # NoTok => owner[authTok[u]] = u

\* A request that presented a superseded token works on a token that is not the
\* newest device, and with a single device only a refresh lets it through.
JobDevice(j) ==
    "superseded" \in j.begun =>
        /\ j.pc \in GuardPcs => Barred(j.tok)
        /\ j.pc \in {"reissueRefresh", "dropOld"} => Barred(j.new)
        /\ j.pc = "admitted" => j.how = "refresh"

DeviceInv == /\ TokensApart /\ OldsHeld /\ NewestOwned
             /\ \A t \in superseded : Barred(t)
             /\ \A p \in Procs : JobDevice(job[p])

\* The three claims about logins and the newest devices.
DevicesOK == TokensApart /\ OldsHeld /\ NewestOwned

LEMMA InitDeviceInv == Init => DeviceInv
  BY IdleJobOK DEF Init, DeviceInv, TokensApart, OldsHeld, NewestOwned, JobDevice, IdleJob,
     LoginPcs, HasToken

\* A login's token was issued to its user, and so was every newest device's.
LEMMA LoginTokIssued ==
  ASSUME NEW p \in Procs, TypeInv, job[p].pc \in HasToken
  PROVE  /\ job[p].tok \in Tokens /\ job[p].usr \in Users
         /\ owner[job[p].tok] = job[p].usr /\ Issued(job[p].tok)
  BY SessionAssumption DEF TypeInv, JobsOK, JobBound, LoginsBound, HasToken, LoginPcs, TokPcs, Issued

LEMMA NewestIssued ==
  ASSUME NEW u \in Users, TypeInv, NewestOwned, authTok[u] # NoTok
  PROVE  authTok[u] \in Tokens /\ Issued(authTok[u])
  BY SessionAssumption DEF TypeInv, DataOK, NewestOwned, Issued

LEMMA HeldIssued ==
  ASSUME TypeInv
  PROVE  held \subseteq Tokens /\ \A t \in held : Issued(t)
  BY SessionAssumption DEF TypeInv, DataOK, TokensBound, Issued

\* Nothing but a login makes a newest device: a step after which every login was
\* one before, with the same token, keeps what is claimed.
LEMMA DevicesKept ==
  ASSUME TypeInv, DevicesOK, UNCHANGED held,
         \A t \in Tokens : Issued(t) => owner'[t] = owner[t],
         \A u \in Users : authTok'[u] \in {authTok[u], NoTok},
         \A q \in Procs : job'[q].pc \in HasToken =>
            job[q].pc \in HasToken /\ job'[q].tok = job[q].tok,
         \A q \in Procs : job'[q].pc \in LoginPcs =>
            /\ job[q].pc \in LoginPcs
            /\ job'[q].usr = job[q].usr /\ job'[q].olds = job[q].olds
  PROVE  DevicesOK' /\ \A t \in Tokens : Barred(t) => Barred(t)'
<1>1. TokensApart'
  BY DEF DevicesOK, TokensApart
<1>2. OldsHeld'
  BY HeldIssued DEF DevicesOK, OldsHeld, OwnedBy
<1>3. NewestOwned'
  BY NewestIssued DEF DevicesOK, NewestOwned
<1>4. ASSUME NEW t \in Tokens, Barred(t)
      PROVE  Barred(t)'
  <2>1. Issued(t)'
    BY <1>4 DEF Barred, Issued
  <2>2. t # NoTok
    BY SessionAssumption DEF Tokens, NoTok
  <2> QED BY <1>4, <2>1, <2>2 DEF Barred
<1> QED BY <1>1, <1>2, <1>3, <1>4 DEF DevicesOK

\* Only the record of p changed, and it is in order.
LEMMA DeviceRecord ==
  ASSUME NEW p \in Procs, TypeInv, DeviceInv, DevicesOK', UNCHANGED superseded,
         \A t \in Tokens : Barred(t) => Barred(t)',
         \A q \in Procs \ {p} : job'[q] = job[q],
         JobDevice(job[p])'
  PROVE  DeviceInv'
<1>1. \A t \in superseded' : Barred(t)'
  BY DEF DeviceInv, TypeInv, DataOK
<1>2. ASSUME NEW q \in Procs, q # p
      PROVE  JobDevice(job[q])'
  <2>1. JobDevice(job[q]) /\ JobBound(job[q]) /\ job'[q] = job[q]
    BY <1>2 DEF DeviceInv, TypeInv, JobsOK
  <2>2. /\ job[q].pc \in GuardPcs => job[q].tok \in Tokens
        /\ job[q].pc \in {"reissueRefresh", "dropOld"} => job[q].new \in Tokens
    BY <2>1 DEF JobBound, GuardPcs, TokPcs
  <2> QED BY <2>1, <2>2 DEF JobDevice
<1>3. \A q \in Procs : JobDevice(job[q])'
  BY <1>2
<1> QED BY <1>1, <1>3 DEF DeviceInv, DevicesOK

\* A handler that is not a login moves on: what remains is its own record.
LEMMA DeviceOther ==
  ASSUME NEW p \in Procs, TypeInv, DeviceInv, UNCHANGED <<held, superseded>>,
         \A t \in Tokens : Issued(t) => owner'[t] = owner[t],
         \A u \in Users : authTok'[u] \in {authTok[u], NoTok},
         \A q \in Procs \ {p} : job'[q] = job[q],
         job'[p].pc \notin LoginPcs
  PROVE  /\ DevicesOK' /\ \A t \in Tokens : Barred(t) => Barred(t)'
         /\ JobDevice(job[p])' => DeviceInv'
<1>1. DevicesOK' /\ \A t \in Tokens : Barred(t) => Barred(t)'
  BY DevicesKept DEF DeviceInv, DevicesOK, HasToken
<1> QED BY <1>1, DeviceRecord

LEMMA IdleDevice == /\ IdleJob.begun = {} /\ IdleJob.pc \notin LoginPcs
  BY DEF IdleJob, LoginPcs

\* A step from a call of a login to another call that keeps its token.
LEMMA LoginGoesDevice ==
  ASSUME NEW p \in Procs, NEW l \in HasToken, TypeInv, DeviceInv, Goto(p, l),
         job[p].pc \in HasToken, UNCHANGED <<owner, held, authTok, superseded>>
  PROVE  DeviceInv'
<1>0. job \in [Procs -> Jobs] /\ job[p] \in Jobs /\ l \in LoginPcs /\ HasToken \subseteq LoginPcs
  BY DEF TypeInv, JobsOK, HasToken
<1>1. /\ job'[p].pc = l /\ job'[p].tok = job[p].tok /\ job'[p].usr = job[p].usr
      /\ job'[p].olds = job[p].olds
      /\ \A q \in Procs \ {p} : job'[q] = job[q]
  BY <1>0 DEF Goto, Put, Jobs
<1>2. DevicesOK' /\ \A t \in Tokens : Barred(t) => Barred(t)'
  BY <1>0, <1>1, DevicesKept DEF DeviceInv, DevicesOK
<1>3. JobDevice(job[p])'
  BY <1>0, <1>1 DEF JobDevice, LoginPcs, GuardPcs
<1> QED BY <1>1, <1>2, <1>3, DeviceRecord

LEMMA LoginInsertDevice ==
  ASSUME NEW p \in Procs, NEW t \in Tokens, TypeInv, DeviceInv, At(p, "loginInsert"),
         Insert(t, job[p].usr), Put(p, [job[p] EXCEPT !.pc = "loginRefresh", !.tok = t]),
         UNCHANGED <<held, authTok, superseded>>
  PROVE  DeviceInv'
<1>0. /\ job \in [Procs -> Jobs] /\ job[p] \in Jobs /\ job[p].pc = "loginInsert"
      /\ job[p].usr \in Users
  BY DEF TypeInv, JobsOK, JobBound, At
<1>1. /\ job'[p].pc = "loginRefresh" /\ job'[p].tok = t /\ job'[p].usr = job[p].usr
      /\ job'[p].olds = job[p].olds
      /\ \A q \in Procs \ {p} : job'[q] = job[q]
  BY <1>0 DEF Put, Jobs
<1>2. /\ ~Issued(t) /\ owner'[t] = job[p].usr
      /\ \A s \in Tokens : s # t => owner'[s] = owner[s]
  BY DEF Insert, IsNext, TypeInv, DataOK
<1>3. \A s \in Tokens : Issued(s) => s # t /\ owner'[s] = owner[s] /\ Issued(s)'
  BY <1>2 DEF Issued
<1>4. TokensApart'
  <2>1. t \notin held
    BY <1>2, HeldIssued
  <2>2. \A q \in Procs : job[q].pc \in HasToken => job[q].tok # t
    BY <1>2, LoginTokIssued
  <2> QED BY <1>1, <2>1, <2>2 DEF DeviceInv, TokensApart
<1>5. OldsHeld'
  <2> SUFFICES ASSUME NEW q \in Procs, job'[q].pc \in LoginPcs
               PROVE  \A s \in job'[q].olds : s \in held /\ s \in Tokens /\ owner'[s] = job'[q].usr
    BY DEF OldsHeld, OwnedBy
  <2>1. job[q].pc \in LoginPcs /\ job'[q].usr = job[q].usr /\ job'[q].olds = job[q].olds
    BY <1>0, <1>1 DEF LoginPcs
  <2>2. job[q].olds \subseteq held \cap OwnedBy(job[q].usr)
    BY <2>1 DEF DeviceInv, OldsHeld
  <2> QED BY <1>3, <2>1, <2>2, HeldIssued DEF OwnedBy
<1>6. NewestOwned'
  BY <1>3, NewestIssued DEF DeviceInv, NewestOwned
<1>7. \A s \in Tokens : Barred(s) => Barred(s)'
  BY <1>1, <1>3 DEF Barred
<1>8. JobDevice(job[p])'
  BY <1>1 DEF JobDevice, GuardPcs
<1> QED BY <1>1, <1>4, <1>5, <1>6, <1>7, <1>8, DeviceRecord DEF DevicesOK

\* The newest device takes over: the ones before it can no longer become newest.
LEMMA LoginCacheDevice ==
  ASSUME NEW p \in Procs, TypeInv, DeviceInv, LoginCache(p)
  PROVE  DeviceInv'
<1> USE DEF db, At
<1>0. /\ job \in [Procs -> Jobs] /\ job[p] \in Jobs /\ job[p].pc \in HasToken
      /\ UNCHANGED <<owner, held>> /\ Goto(p, "loginPv")
  BY DEF LoginCache, TypeInv, JobsOK, HasToken, LoginPcs
<1>1. /\ job'[p].pc = "loginPv" /\ job'[p].tok = job[p].tok /\ job'[p].usr = job[p].usr
      /\ job'[p].olds = job[p].olds
      /\ \A q \in Procs \ {p} : job'[q] = job[q]
  BY <1>0 DEF Goto, Put, Jobs
<1>2. /\ job[p].tok \in Tokens /\ job[p].usr \in Users /\ owner[job[p].tok] = job[p].usr
      /\ job[p].tok \notin held
  BY <1>0, LoginTokIssued DEF DeviceInv, TokensApart
<1>3. /\ authTok'[job[p].usr] = job[p].tok
      /\ \A u \in Users : u # job[p].usr => authTok'[u] = authTok[u]
      /\ superseded' = superseded \cup job[p].olds
  BY <1>2 DEF LoginCache, TypeInv, DataOK
<1>4. \A q \in Procs :
                      /\ job'[q].pc \in HasToken <=> job[q].pc \in HasToken
                      /\ job'[q].tok = job[q].tok /\ job'[q].usr = job[q].usr
                      /\ job'[q].olds = job[q].olds
                      /\ job'[q].pc \in LoginPcs <=> job[q].pc \in LoginPcs
  BY <1>0, <1>1 DEF HasToken, LoginPcs
<1>5. TokensApart' /\ OldsHeld' /\ NewestOwned'
  <2>1. TokensApart'
    BY <1>0, <1>4 DEF DeviceInv, TokensApart
  <2>2. OldsHeld'
    BY <1>0, <1>4 DEF DeviceInv, OldsHeld, OwnedBy
  <2>3. NewestOwned'
    BY <1>0, <1>2, <1>3 DEF DeviceInv, NewestOwned
  <2> QED BY <2>1, <2>2, <2>3
<1>6. \A t \in Tokens : Barred(t) => Barred(t)'
  <2> SUFFICES ASSUME NEW t \in Tokens, Barred(t)
               PROVE  Barred(t)'
    OBVIOUS
  <2>1. Issued(t)'
    BY <1>0 DEF Barred, Issued
  <2>2. \A u \in Users : authTok'[u] # t
    BY <1>0, <1>2, <1>3 DEF Barred
  <2>3. \A q \in Procs : job'[q].pc \in HasToken => job'[q].tok # t
    BY <1>4 DEF Barred
  <2> QED BY <2>1, <2>2, <2>3 DEF Barred
<1>7. ASSUME NEW t \in job[p].olds
      PROVE  Barred(t)'
  <2>1. t \in held /\ t \in Tokens /\ Issued(t) /\ owner[t] = job[p].usr
    BY <1>0, HeldIssued DEF DeviceInv, OldsHeld, OwnedBy, HasToken
  <2>2. \A u \in Users : u # job[p].usr => authTok[u] # t
    BY <1>2, <2>1, SessionAssumption DEF DeviceInv, NewestOwned, NoTok, Tokens
  <2>3. \A q \in Procs : job[q].pc \in HasToken => job[q].tok # t
    BY <2>1 DEF DeviceInv, TokensApart
  <2>4. \A u \in Users : authTok'[u] # t
    BY <1>2, <1>3, <2>1, <2>2
  <2>5. \A q \in Procs : job'[q].pc \in HasToken => job'[q].tok # t
    BY <1>4, <2>3
  <2> QED BY <1>0, <2>1, <2>4, <2>5 DEF Barred, Issued
<1>8. \A t \in superseded' : Barred(t)'
  BY <1>3, <1>6, <1>7 DEF DeviceInv, TypeInv, DataOK
<1>9. ASSUME NEW q \in Procs
      PROVE  JobDevice(job[q])'
  <2>1. CASE q = p
    BY <1>1, <2>1 DEF JobDevice, GuardPcs
  <2>2. CASE q # p
    <3>1. JobDevice(job[q]) /\ JobBound(job[q]) /\ job'[q] = job[q]
      BY <1>1, <2>2 DEF DeviceInv, TypeInv, JobsOK
    <3>2. /\ job[q].pc \in GuardPcs => job[q].tok \in Tokens
          /\ job[q].pc \in {"reissueRefresh", "dropOld"} => job[q].new \in Tokens
      BY <3>1 DEF JobBound, GuardPcs, TokPcs
    <3> QED BY <1>6, <3>1, <3>2 DEF JobDevice
  <2> QED BY <2>1, <2>2
<1> QED BY <1>5, <1>8, <1>9 DEF DeviceInv

LEMMA LoginReplyDevice ==
  ASSUME NEW p \in Procs, TypeInv, DeviceInv, LoginReply(p)
  PROVE  DeviceInv'
<1> USE DEF db, redis, past, At
<1>0. /\ job[p].pc \in HasToken /\ UNCHANGED <<owner, authTok, superseded>>
      /\ held' = held \cup {job[p].tok}
      /\ job'[p] = IdleJob /\ \A q \in Procs \ {p} : job'[q] = job[q]
  BY EndJob DEF LoginReply, TypeInv, HasToken, LoginPcs
<1>1. job'[p].pc \notin LoginPcs
  BY <1>0, IdleDevice
<1>2. TokensApart'
  BY <1>0, <1>1 DEF DeviceInv, TokensApart, HasToken
<1>3. OldsHeld'
  BY <1>0, <1>1 DEF DeviceInv, OldsHeld, OwnedBy
<1>4. NewestOwned' /\ \A t \in Tokens : Barred(t) => Barred(t)'
  BY <1>0, <1>1 DEF DeviceInv, NewestOwned, Barred, Issued, HasToken
<1>5. JobDevice(job[p])'
  BY <1>0, IdleDevice DEF JobDevice
<1> QED BY <1>0, <1>2, <1>3, <1>4, <1>5, DeviceRecord DEF DevicesOK

LEMMA LoginDeviceInv ==
  ASSUME NEW p \in Procs, TypeInv, DeviceInv, LoginStep(p)
  PROVE  DeviceInv'
<1> USE DEF db, redis, past, At
<1>1. ASSUME End(p), UNCHANGED <<owner, held, authTok, superseded>>
      PROVE  DeviceInv'
  <2>1. job'[p] = IdleJob /\ \A q \in Procs \ {p} : job'[q] = job[q]
    BY <1>1, EndJob DEF TypeInv
  <2>2. JobDevice(job[p])' /\ job'[p].pc \notin LoginPcs
    BY <2>1, IdleDevice DEF JobDevice
  <2> QED BY <1>1, <2>1, <2>2, DeviceOther
<1>2. CASE LoginInsert(p)
  <2>1. CASE End(p) /\ UNCHANGED db
    BY <1>1, <1>2, <2>1 DEF LoginInsert
  <2>2. CASE ~(End(p) /\ UNCHANGED db)
    BY <1>2, <2>2, LoginInsertDevice DEF LoginInsert
  <2> QED BY <2>1, <2>2
<1>3. CASE LoginRefresh(p)
  <2>1. CASE End(p)
    BY <1>1, <1>3, <2>1 DEF LoginRefresh
  <2>2. CASE Goto(p, "loginCache")
    BY <1>3, <2>2, LoginGoesDevice DEF LoginRefresh, HasToken, LoginPcs
  <2> QED BY <1>3, <2>1, <2>2 DEF LoginRefresh
<1>4. CASE LoginPv(p)
  BY <1>4, LoginGoesDevice DEF LoginPv, HasToken, LoginPcs
<1> QED BY <1>2, <1>3, <1>4, LoginCacheDevice, LoginReplyDevice DEF LoginStep

\* A pass of the guard that was let through on t, which is barred if the token
\* of the request was superseded.
LEMMA PassedDevice ==
  ASSUME NEW p \in Procs, NEW t \in Tokens, NEW how \in {"direct", "refresh"},
         TypeInv, DeviceInv, Passed(p, t, how),
         UNCHANGED <<owner, held, authTok, superseded>>,
         "superseded" \in job[p].begun => Barred(t) /\ how = "refresh"
  PROVE  DeviceInv'
<1> DEFINE j1 == [job[p] EXCEPT !.pc = "recheck", !.pass = 2, !.tok = t, !.new = NoTok]
           j2 == [job[p] EXCEPT !.pc = "admitted", !.how = how]
<1>0. job \in [Procs -> Jobs] /\ job[p] \in Jobs
  BY DEF TypeInv, JobsOK
<1>1. /\ j1.pc = "recheck" /\ j1.tok = t /\ j1.begun = job[p].begun
      /\ j2.pc = "admitted" /\ j2.how = how /\ j2.begun = job[p].begun
  BY <1>0 DEF Jobs
<1>2. job'[p] \in {j1, j2} /\ \A q \in Procs \ {p} : job'[q] = job[q]
  BY <1>0 DEF Passed, Put
<1>3. job'[p].pc \notin LoginPcs
  BY <1>1, <1>2 DEF LoginPcs
<1>4. DevicesOK' /\ \A s \in Tokens : Barred(s) => Barred(s)'
  BY <1>2, <1>3, DeviceOther
<1>5. JobDevice(job[p])'
  <2>1. CASE job'[p] = j1
    <3>1. job'[p].pc = "recheck" /\ job'[p].tok = t /\ job'[p].begun = job[p].begun
      BY <1>1, <2>1
    <3>2. "superseded" \in job[p].begun => Barred(t)'
      BY <1>4
    <3> QED BY <3>1, <3>2 DEF JobDevice
  <2>2. CASE job'[p] = j2
    <3>1. job'[p].pc = "admitted" /\ job'[p].how = how /\ job'[p].begun = job[p].begun
      BY <1>1, <2>2
    <3> QED BY <3>1 DEF JobDevice, GuardPcs
  <2> QED BY <1>2, <2>1, <2>2
<1> QED BY <1>2, <1>3, <1>5, DeviceOther

\* The other ways a request moves on.
LEMMA RequestEnds ==
  ASSUME NEW p \in Procs, TypeInv, DeviceInv, End(p), UNCHANGED <<held, superseded>>,
         \A t \in Tokens : Issued(t) => owner'[t] = owner[t],
         \A u \in Users : authTok'[u] \in {authTok[u], NoTok}
  PROVE  DeviceInv'
<1>1. job'[p] = IdleJob /\ \A q \in Procs \ {p} : job'[q] = job[q]
  BY EndJob DEF TypeInv
<1>2. JobDevice(job[p])' /\ job'[p].pc \notin LoginPcs
  BY <1>1, IdleDevice DEF JobDevice
<1> QED BY <1>1, <1>2, DeviceOther

LEMMA RequestGoes ==
  ASSUME NEW p \in Procs, NEW l \in Pcs, TypeInv, DeviceInv, Goto(p, l),
         UNCHANGED <<held, superseded>>,
         \A t \in Tokens : Issued(t) => owner'[t] = owner[t],
         \A u \in Users : authTok'[u] \in {authTok[u], NoTok},
         l \notin LoginPcs \cup {"admitted"},
         l \in GuardPcs => job[p].pc \in GuardPcs,
         l \in {"reissueRefresh", "dropOld"} => job[p].pc \in {"reissueRefresh", "dropOld"}
  PROVE  DeviceInv'
<1>0. /\ job \in [Procs -> Jobs] /\ job[p] \in Jobs /\ JobDevice(job[p])
      /\ JobBound(job[p])
  BY DEF TypeInv, JobsOK, DeviceInv
<1>1. /\ job'[p].pc = l /\ job'[p].tok = job[p].tok /\ job'[p].new = job[p].new
      /\ job'[p].begun = job[p].begun
      /\ \A q \in Procs \ {p} : job'[q] = job[q]
  BY <1>0 DEF Goto, Put, Jobs
<1>2. DevicesOK' /\ \A t \in Tokens : Barred(t) => Barred(t)'
  BY <1>1, DeviceOther
<1>3. /\ l \in GuardPcs => job[p].tok \in Tokens
      /\ l \in {"reissueRefresh", "dropOld"} => job[p].new \in Tokens
  BY <1>0 DEF JobBound, GuardPcs, TokPcs
<1>4. JobDevice(job[p])'
  BY <1>0, <1>1, <1>2, <1>3 DEF JobDevice
<1> QED BY <1>1, <1>4, DeviceOther

LEMMA ReissueDevice ==
  ASSUME NEW p \in Procs, NEW t \in Tokens, TypeInv, DeviceInv, At(p, "reissue"),
         Insert(t, job[p].usr), Put(p, [job[p] EXCEPT !.pc = "reissueRefresh", !.new = t]),
         UNCHANGED <<held, authTok, superseded>>
  PROVE  DeviceInv'
<1>0. /\ job \in [Procs -> Jobs] /\ job[p] \in Jobs /\ job[p].pc = "reissue"
      /\ job[p].usr \in Users /\ JobDevice(job[p]) /\ job[p].tok \in Tokens
  BY DEF TypeInv, JobsOK, JobBound, At, DeviceInv, TokPcs
<1>1. /\ job'[p].pc = "reissueRefresh" /\ job'[p].tok = job[p].tok /\ job'[p].new = t
      /\ job'[p].begun = job[p].begun
      /\ \A q \in Procs \ {p} : job'[q] = job[q]
  BY <1>0 DEF Put, Jobs
<1>2. /\ ~Issued(t) /\ owner'[t] = job[p].usr
      /\ \A s \in Tokens : s # t => owner'[s] = owner[s]
  BY DEF Insert, IsNext, TypeInv, DataOK
<1>3. \A s \in Tokens : Issued(s) => owner'[s] = owner[s]
  BY <1>2
<1>4. DevicesOK' /\ \A s \in Tokens : Barred(s) => Barred(s)'
  BY <1>1, <1>3, DeviceOther DEF LoginPcs
<1>5. Barred(t)'
  <2>1. \A u \in Users : authTok[u] # t
    BY <1>2, NewestIssued, SessionAssumption DEF DeviceInv, NoTok, Tokens
  <2>2. \A q \in Procs : job[q].pc \in HasToken => job[q].tok # t
    BY <1>2, LoginTokIssued
  <2>3. Issued(t)'
    BY <1>0, <1>2, SessionAssumption DEF Issued
  <2> QED BY <1>1, <2>1, <2>2, <2>3 DEF Barred, HasToken, LoginPcs
<1>6. JobDevice(job[p])'
  BY <1>0, <1>1, <1>4, <1>5 DEF JobDevice, GuardPcs
<1> QED BY <1>1, <1>3, <1>6, DeviceOther DEF LoginPcs

LEMMA GuardDeviceInv ==
  ASSUME NEW p \in Procs, TypeInv, DeviceInv, ~MultiDevice, GuardStep(p)
  PROVE  DeviceInv'
<1> USE DEF db, redis, past, At
<1>0. /\ job[p].pc \in GuardPcs /\ UNCHANGED <<held, superseded, authTok>>
      /\ JobDevice(job[p]) /\ job[p].tok \in Tokens /\ job[p].usr \in Users
      /\ job[p].pc = "dropOld" => job[p].new \in Tokens
  BY DEF GuardStep, Recheck, Verify, Lookup, Reissue, ReissueRefresh, DropOld, CheckPv,
     CheckDevice, GuardPcs, TypeInv, JobsOK, JobBound, TokPcs, DeviceInv
<1>1. CASE Recheck(p) \/ Verify(p) \/ Lookup(p) \/ ReissueRefresh(p) \/ CheckPv(p)
  <2>1. UNCHANGED owner
    BY <1>1 DEF Recheck, Verify, Lookup, ReissueRefresh, CheckPv
  <2>2. \/ End(p)
        \/ \E l \in {"verify", "checkPv", "lookup", "reissue", "checkDevice"} : Goto(p, l)
        \/ job[p].pc = "reissueRefresh" /\ Goto(p, "dropOld")
    BY <1>1 DEF Recheck, Verify, Lookup, ReissueRefresh, CheckPv
  <2> QED BY <1>0, <2>1, <2>2, RequestEnds, RequestGoes DEF GuardPcs, LoginPcs, Pcs
<1>2. CASE Reissue(p)
  <2>1. CASE End(p) /\ UNCHANGED db
    BY <1>0, <2>1, RequestEnds
  <2>2. CASE ~(End(p) /\ UNCHANGED db)
    BY <1>0, <1>2, <2>2, ReissueDevice DEF Reissue
  <2> QED BY <2>1, <2>2
<1>3. CASE DropOld(p)
  BY <1>0, <1>3, PassedDevice DEF DropOld, JobDevice
<1>4. CASE CheckDevice(p)
  <2>1. CASE authTok[job[p].usr] = job[p].tok
    <3>1. "superseded" \notin job[p].begun
      BY <1>0, <2>1 DEF JobDevice, Barred
    <3> QED BY <1>0, <1>4, <2>1, <3>1, PassedDevice DEF CheckDevice
  <2>2. CASE authTok[job[p].usr] # job[p].tok
    BY <1>0, <1>4, <2>2, RequestEnds DEF CheckDevice
  <2> QED BY <2>1, <2>2
<1> QED BY <1>1, <1>2, <1>3, <1>4 DEF GuardStep

LEMMA OtherDeviceInv ==
  ASSUME NEW p \in Procs, TypeInv, DeviceInv,
         HandlerStep(p) \/ ClearStep(p) \/ UpdateStep(p) \/ Abort(p)
  PROVE  DeviceInv'
<1> USE DEF db, redis, past, At
<1>0. /\ job \in [Procs -> Jobs] /\ job[p] \in Jobs
      /\ authTok \in [Users -> Tokens \cup {NoTok}]
  BY DEF TypeInv, JobsOK, DataOK
<1>1. UNCHANGED <<owner, held, superseded>>
  BY DEF HandlerStep, Reply, Logout, ChangePassword, ClearStep, Blacklist, RemoveRow, LogoutPv,
     LogoutTok, UpdateStep, PwUpdate, PvGet, PvSet, LockRow, DisablePv, DisableTok,
     DisableCommit, DeletePv, DeleteTok, Abort
<1>2. \A u \in Users : authTok'[u] \in {authTok[u], NoTok}
  <2>1. UNCHANGED authTok \/ authTok' = [authTok EXCEPT ![job[p].usr] = NoTok]
    BY DEF HandlerStep, Reply, Logout, ChangePassword, ClearStep, Blacklist, RemoveRow, LogoutPv,
       LogoutTok, UpdateStep, PwUpdate, PvGet, PvSet, LockRow, DisablePv, DisableTok,
       DisableCommit, DeletePv, DeleteTok, Abort
  <2> QED BY <1>0, <2>1
<1>3. CASE Logout(p) \/ ChangePassword(p)
  <2> DEFINE j(l) == [job[p] EXCEPT !.pc = l, !.calm = NoLogin(job[p].usr)]
  <2>1. j("blacklist").pc = "blacklist" /\ j("pwUpdate").pc = "pwUpdate"
    BY <1>0 DEF Jobs
  <2>2. /\ job'[p] \in {j("blacklist"), j("pwUpdate")}
        /\ \A q \in Procs \ {p} : job'[q] = job[q]
    BY <1>0, <1>3 DEF Logout, ChangePassword, Put
  <2>3. job'[p].pc \in {"blacklist", "pwUpdate"}
    BY <2>1, <2>2
  <2>4. JobDevice(job[p])'
    BY <2>3 DEF JobDevice, GuardPcs
  <2> QED BY <1>1, <1>2, <2>2, <2>3, <2>4, DeviceOther DEF LoginPcs
<1>4. CASE ~(Logout(p) \/ ChangePassword(p))
  <2>1. \/ End(p)
        \/ \E l \in {"removeRow", "logoutPv", "logoutTok", "pvGet", "pvSet", "lockRow",
                    "disablePv", "disableTok", "disableCommit", "deleteTok"} : Goto(p, l)
    BY <1>4 DEF HandlerStep, Reply,
       ClearStep, Blacklist, RemoveRow, LogoutPv, LogoutTok,
       UpdateStep, PwUpdate, PvGet, PvSet, LockRow, DisablePv, DisableTok, DisableCommit,
       DeletePv, DeleteTok, AfterPassword, Abort
  <2> QED BY <1>1, <1>2, <2>1, RequestEnds, RequestGoes DEF Pcs, LoginPcs, GuardPcs
<1> QED BY <1>3, <1>4

\* A login begins: it remembers the devices its user has by now.
LEMMA LoginStartDevice ==
  ASSUME NEW p \in Procs, NEW u \in Users, TypeInv, DeviceInv, LoginStart(p, u)
  PROVE  DeviceInv'
<1> USE DEF db, redis, past
<1>0. \A q \in Procs : job[q] \in Jobs
  BY DEF TypeInv, JobsOK
<1>1. /\ job'[p].pc = "loginInsert" /\ job'[p].usr = u
      /\ job'[p].olds \subseteq held \cap OwnedBy(u)
  BY IdleJobOK DEF LoginStart, IdleJob
<1>2. \A q \in Procs \ {p} :
         /\ job'[q].pc = job[q].pc /\ job'[q].tok = job[q].tok /\ job'[q].usr = job[q].usr
         /\ job'[q].new = job[q].new /\ job'[q].olds = job[q].olds /\ job'[q].how = job[q].how
         /\ "superseded" \in job'[q].begun => "superseded" \in job[q].begun
  <2> SUFFICES ASSUME NEW q \in Procs, q # p
               PROVE  /\ job'[q].pc = job[q].pc /\ job'[q].tok = job[q].tok
                      /\ job'[q].usr = job[q].usr /\ job'[q].new = job[q].new
                      /\ job'[q].olds = job[q].olds /\ job'[q].how = job[q].how
                      /\ "superseded" \in job'[q].begun => "superseded" \in job[q].begun
    OBVIOUS
  <2>1. CASE job[q].usr = u
    <3>1. job'[q] = [job[q] EXCEPT !.calm = FALSE, !.begun = @ \ {"closed"}]
      BY <2>1 DEF LoginStart
    <3> QED BY <1>0, <3>1 DEF Jobs
  <2>2. CASE job[q].usr # u
    <3>1. job'[q] = job[q]
      BY <2>2 DEF LoginStart
    <3> QED BY <3>1
  <2> QED BY <2>1, <2>2
<1>3. UNCHANGED <<owner, held, authTok, superseded>>
  BY DEF LoginStart
<1>4. TokensApart'
  BY <1>1, <1>2, <1>3 DEF DeviceInv, TokensApart, HasToken
<1>5. OldsHeld'
  BY <1>1, <1>2, <1>3 DEF DeviceInv, OldsHeld, OwnedBy
<1>6. NewestOwned'
  BY <1>3 DEF DeviceInv, NewestOwned
<1>7. \A t \in Tokens : Barred(t) => Barred(t)'
  BY <1>1, <1>2, <1>3 DEF Barred, Issued, HasToken
<1>8. \A t \in superseded' : Barred(t)'
  BY <1>3, <1>7 DEF DeviceInv, TypeInv, DataOK
<1>9. ASSUME NEW q \in Procs
      PROVE  JobDevice(job[q])'
  <2>1. CASE q = p
    BY <1>1, <2>1 DEF JobDevice, GuardPcs
  <2>2. CASE q # p
    <3>1. JobDevice(job[q]) /\ JobBound(job[q])
      BY DEF DeviceInv, TypeInv, JobsOK
    <3>2. /\ job[q].pc \in GuardPcs => job[q].tok \in Tokens
          /\ job[q].pc \in {"reissueRefresh", "dropOld"} => job[q].new \in Tokens
      BY <3>1 DEF JobBound, GuardPcs, TokPcs
    <3> QED BY <1>2, <1>7, <2>2, <3>1, <3>2 DEF JobDevice
  <2> QED BY <2>1, <2>2
<1> QED BY <1>4, <1>5, <1>6, <1>8, <1>9 DEF DeviceInv

LEMMA ArriveDeviceInv ==
  ASSUME NEW p \in Procs, TypeInv, DeviceInv, Arrive(p)
  PROVE  DeviceInv'
<1> USE DEF db, redis, past
<1>0. job \in [Procs -> Jobs]
  BY DEF TypeInv, JobsOK
<1>1. CASE \E u \in Users : LoginStart(p, u)
  BY <1>1, LoginStartDevice
<1>2. CASE \E t \in Tokens, r \in {"account", "other"} : RequestStart(p, t, r)
  <2> PICK t \in Tokens, r \in {"account", "other"} : RequestStart(p, t, r)
    BY <1>2
  <2>1. /\ job'[p].pc = "verify" /\ job'[p].tok = t /\ job'[p].begun = Known(t)
        /\ \A q \in Procs \ {p} : job'[q] = job[q]
        /\ UNCHANGED <<owner, held, authTok, superseded>>
    BY <1>0 DEF RequestStart, Put, IdleJob
  <2>2. DevicesOK' /\ \A s \in Tokens : Barred(s) => Barred(s)'
    BY <2>1, DeviceOther DEF LoginPcs
  <2>3. "superseded" \in Known(t) => Barred(t)
    BY DEF Known, DeviceInv
  <2>4. JobDevice(job[p])'
    BY <2>1, <2>2, <2>3 DEF JobDevice
  <2> QED BY <2>1, <2>4, DeviceOther DEF LoginPcs
<1>3. CASE ~ \/ \E u \in Users : LoginStart(p, u)
             \/ \E t \in Tokens, r \in {"account", "other"} : RequestStart(p, t, r)
  <2>1. /\ job'[p].begun = {} /\ job'[p].pc \in {"blacklist", "deletePv", "pwUpdate", "lockRow"}
        /\ \A q \in Procs \ {p} : job'[q] = job[q]
        /\ UNCHANGED <<owner, held, authTok, superseded>>
    <3>1. CASE \E t \in Tokens : Kick(p, t)
      BY <1>0, <3>1 DEF Kick, Put, IdleJob
    <3>2. CASE \E u \in Users : Delete(p, u)
      BY <1>0, <3>2 DEF Delete, Put, IdleJob
    <3>3. CASE \E u \in Users, w \in BOOLEAN, s \in {"keep", "enable", "disable"} :
                 AdminUpdate(p, u, w, s)
      BY <1>0, <3>3 DEF AdminUpdate, Put, IdleJob
    <3> QED BY <1>3, <3>1, <3>2, <3>3 DEF Arrive
  <2>2. JobDevice(job[p])'
    BY <2>1 DEF JobDevice
  <2> QED BY <2>1, <2>2, DeviceOther DEF LoginPcs
<1> QED BY <1>1, <1>2, <1>3

LEMMA ClockDeviceInv ==
  ASSUME TypeInv, DeviceInv, Clock
  PROVE  DeviceInv'
<1> USE DEF db, redis, past
<1>1. /\ UNCHANGED <<owner, held, superseded, job>>
      /\ \A u \in Users : authTok'[u] \in {authTok[u], NoTok}
  BY DEF Clock, Age, BlacklistExpires, CronRemove, AuthTokExpires, TypeInv, DataOK
<1>2. DevicesOK' /\ \A t \in Tokens : Barred(t) => Barred(t)'
  BY <1>1, DevicesKept DEF DeviceInv, DevicesOK
<1>3. \A t \in superseded' : Barred(t)'
  BY <1>1, <1>2 DEF DeviceInv, TypeInv, DataOK
<1>4. ASSUME NEW q \in Procs
      PROVE  JobDevice(job[q])'
  <2>1. JobDevice(job[q]) /\ JobBound(job[q]) /\ job'[q] = job[q]
    BY <1>1 DEF DeviceInv, TypeInv, JobsOK
  <2>2. /\ job[q].pc \in GuardPcs => job[q].tok \in Tokens
        /\ job[q].pc \in {"reissueRefresh", "dropOld"} => job[q].new \in Tokens
    BY <2>1 DEF JobBound, GuardPcs, TokPcs
  <2> QED BY <1>2, <2>1, <2>2 DEF JobDevice
<1> QED BY <1>2, <1>3, <1>4 DEF DeviceInv, DevicesOK

LEMMA NextDeviceInv ==
  ASSUME ~MultiDevice, TypeInv, DeviceInv, [Next]_vars
  PROVE  DeviceInv'
<1>1. ASSUME NEW p \in Procs, Arrive(p) \/ Step(p) \/ Abort(p)
      PROVE  DeviceInv'
  BY <1>1, ArriveDeviceInv, LoginDeviceInv, GuardDeviceInv, OtherDeviceInv DEF Step
<1>2. CASE Clock
  BY <1>2, ClockDeviceInv
<1>3. CASE UNCHANGED vars
  BY <1>3 DEF vars, DeviceInv, TokensApart, OldsHeld, OwnedBy, NewestOwned, JobDevice, Barred,
     Issued
<1> QED BY <1>1, <1>2, <1>3 DEF Next

\* NewestDevice: NewestDeviceOnly holds for every set of users and any number of
\* logins, refreshes, logouts and password changes at a time.
THEOREM NewestDevice == Spec => []NewestDeviceOnly
<1>1. CASE MultiDevice
  <2>1. TypeInv => NewestDeviceOnly
    BY <1>1 DEF NewestDeviceOnly
  <2> QED BY <2>1, InitTypeInv, NextTypeInv, PTL DEF Spec
<1>2. CASE ~MultiDevice
  <2>1. TypeInv /\ DeviceInv /\ [Next]_vars => TypeInv' /\ DeviceInv'
    BY <1>2, NextTypeInv, NextDeviceInv
  <2>2. Init => TypeInv /\ DeviceInv
    BY InitTypeInv, InitDeviceInv
  <2>3. DeviceInv => NewestDeviceOnly
    BY DEF DeviceInv, JobDevice, NewestDeviceOnly, Admitted
  <2> QED BY <2>1, <2>2, <2>3, PTL DEF Spec
<1> QED BY <1>1, <1>2
=============================================================================
