----------------------------- MODULE MCPermTwo ------------------------------
(* PermCache in two small parts, one behaviour being of one of them: all the  *)
(* users and roles under one handler at a time, which deletes and disables    *)
(* nothing; and one user and few roles under every handler, several at a      *)
(* time, with crashes.                                                        *)
EXTENDS MCPermCache

CONSTANT FewRoles

VARIABLE part   \* the users a behaviour is about

InitTwo ==
    /\ Init
    /\ part \in {Users} \cup {{u} : u \in Users}
    /\ part # Users =>
         /\ \A u \in Users : userRoles[u] \subseteq IF u \in part THEN FewRoles ELSE {}
         /\ \A r \in Roles \ FewRoles : roleMenus[r] = {}

\* One handler at a time.
NextAll ==
    /\ part = Users
    /\ \/ \E u \in Users : Login(u) \/ Expire(u)
       \/ \E p \in Procs : (Quiet /\ Arrive(p)) \/ Update(p) \/ Refresh(p)
    /\ \A p \in Procs : job'[p].pc \notin {"delTok", "roleDrop", "menuDrop"}
    /\ \A m \in Menus : menu[m] = "unused" => UNCHANGED menu[m]

\* One user and few roles.
NextOne ==
    /\ part # Users
    /\ Next
    /\ \A u \in Users : userRoles'[u] \subseteq IF u \in part THEN FewRoles ELSE {}
    /\ \A u \in Users \ part : ~online'[u] /\ \A p \in Procs : u \notin job'[p].usr
    /\ \A p \in Procs : job'[p].id \notin Roles \ FewRoles

NextTwo == UNCHANGED part /\ (NextAll \/ NextOne)

SpecTwo == InitTwo /\ [][NextTwo]_<<vars, part>>
=============================================================================
