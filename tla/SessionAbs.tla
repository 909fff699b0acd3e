---------------------------- MODULE SessionAbs -----------------------------
(***************************************************************************)
(* What the session code promises, without its handlers.  A token goes     *)
(* from one stage of its life to the next and never back.  The gate in     *)
(* front of the tokens of a user is opened by a login under way and by     *)
(* nothing else, anything may shut it, and nobody starts a login for a     *)
(* user who is gone.                                                       *)
(***************************************************************************)
CONSTANTS Users, Tokens

VARIABLES
    gate,     \* whether a token of the user is let through at all
    stage,    \* how far a token has come
    alive,    \* the users who exist
    logins    \* the users with a login under way

absvars == <<gate, stage, alive, logins>>

\* usable:      the JWT verifies and is not blacklisted
\* lastMoments: the same, less than half a second before it expires
\* revoked:     blacklisted
\* refreshable: expired, and a refresh token can replace it
\* over:        of no use any more
Stages == {"unissued", "usable", "lastMoments", "revoked", "refreshable", "over"}

Init ==
    /\ gate = [u \in Users |-> "shut"]
    /\ stage = [t \in Tokens |-> "unissued"]
    /\ alive = Users
    /\ logins = {}

\* The stages a token may pass to in one step.  A blacklist entry may be gone
\* half a second early; apart from that nobody gets a revoked token back.
After(s) ==
    {r \in Stages :
       \/ s = "unissued"    /\ r = "usable"
       \/ s = "usable"      /\ r \in {"lastMoments", "revoked"}
       \/ s = "revoked"     /\ r \in {"lastMoments", "refreshable", "over"}
       \/ s = "lastMoments" /\ r \in {"refreshable", "over"}
       \/ s = "refreshable" /\ r = "over"}

Advance(t) ==
    /\ \E r \in After(stage[t]) : stage' = [stage EXCEPT ![t] = r]
    /\ UNCHANGED <<gate, alive, logins>>

LoginBegins(u) ==
    /\ u \in alive
    /\ logins' = logins \cup {u}
    /\ UNCHANGED <<gate, stage, alive>>

LoginEnds(u) ==
    /\ logins' = logins \ {u}
    /\ UNCHANGED <<gate, stage, alive>>

Open(u) ==
    /\ u \in logins
    /\ gate' = [gate EXCEPT ![u] = "open"]
    /\ UNCHANGED <<stage, alive, logins>>

Shut(u) ==
    /\ gate' = [gate EXCEPT ![u] = "shut"]
    /\ UNCHANGED <<stage, alive, logins>>

\* The user goes, and with him the refresh tokens T he had.
Remove(u, T) ==
    /\ u \in alive
    /\ \A t \in T : stage[t] = "refreshable"
    /\ alive' = alive \ {u}
    /\ stage' = [t \in Tokens |-> IF t \in T THEN "over" ELSE stage[t]]
    /\ UNCHANGED <<gate, logins>>

Next ==
    \/ \E t \in Tokens : Advance(t)
    \/ \E u \in Users : LoginBegins(u) \/ LoginEnds(u) \/ Open(u) \/ Shut(u)
    \/ \E u \in Users, T \in SUBSET Tokens : Remove(u, T)

Spec == Init /\ [][Next]_absvars
=============================================================================
