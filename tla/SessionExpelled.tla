-------------------------- MODULE SessionExpelled --------------------------
(***************************************************************************)
(* Session with a memory of password changes: which tokens had been issued *)
(* when their user changed the password, and which requests presented such *)
(* a token.                                                                *)
(***************************************************************************)
EXTENDS Session

VARIABLES
    expelled,   \* tokens issued before a password change that is complete
    stale       \* handlers whose request presented an expelled token

hvars == <<vars, expelled, stale>>

\* The handler of p has just finished changing the password.
PasswordChanged(p) ==
    /\ job[p].pc \in {"pvGet", "pvSet"}
    /\ job'[p].pc \in {"idle", "lockRow"}

HistoryInit == Init /\ expelled = {} /\ stale = {}

HistoryNext ==
    /\ Next
    /\ expelled' = expelled \cup
         {t \in Tokens : \E p \in Procs : PasswordChanged(p) /\ owner[t] = job[p].usr}
    /\ stale' = {p \in Procs :
         /\ job'[p].pc # "idle"
         /\ p \in stale \/ (Idle(p) /\ job'[p].pc = "verify" /\ job'[p].tok \in expelled)}

HistorySpec == HistoryInit /\ [][HistoryNext]_hvars

\* OldTokensStayOut: a token issued before its user changed the password is not
\* let through on its own JWT any more; the user has to log in again (the comment on pv in
\* generateAccessToken).
OldTokensStayOut ==
    \A p \in Procs : Admitted(p) /\ p \in stale => job[p].how = "refresh"
=============================================================================
