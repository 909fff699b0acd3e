------------------------------ MODULE Overview ------------------------------
(***************************************************************************)
(* The overview of the network disk: four statistics read from Qiniu one   *)
(* after the other, each up to its own moment, kept by CacheInterceptor in *)
(* the memory of the process.  TimeoutInterceptor stands around both.      *)
(***************************************************************************)
EXTENDS Naturals, FiniteSets, Sequences

CONSTANTS
    Requests,  \* bound: requests under way at once
    Ttl,       \* CacheTTL
    TimeLimit,   \* what TimeoutInterceptor is made with
    Month,     \* the length of a month
    MaxTime,   \* bound: the clock stops
    None

OverviewAssumption == {Ttl, TimeLimit, Month, MaxTime} \subseteq Nat /\ Month > 0 /\ None \notin Nat

VARIABLES
    now,   \* the clock, and of the statistics: at time t they are what they were at t
    cache, \* netdisk_overview_desc: a value and when it expires
    req    \* the requests

vars == <<now, cache, req>>

\* A statistic runs from the first of a month to a moment.
Statistic == [begin : Nat, end : Nat]
Parts == <<"space", "hit", "flow", "count">>

Request == [at : {"idle", "cache", "call", "reply"}, since : Nat, date : Nat \cup {None},
            parts : Seq(Statistic)]
NewRequest == [at |-> "idle", since |-> 0, date |-> None, parts |-> <<>>]
Empty == [value |-> None, expires |-> 0]

Init ==
    /\ now = 0
    /\ cache = Empty
    /\ req = [r \in Requests |-> NewRequest]

-----------------------------------------------------------------------------
GetZeroHourAnd1Day(t) == (t \div Month) * Month

\* getSpace, getHit, getFlow and getCount: their end is a new Date() each.
GetStatistic(date) == [begin |-> date, end |-> now]

Arrive(r) ==
    /\ req[r].at = "idle"
    /\ req' = [req EXCEPT ![r] = [NewRequest EXCEPT !.at = "cache", !.since = now]]
    /\ UNCHANGED <<now, cache>>

\* CacheInterceptor: a value that has not expired is the reply, or space() runs.
Hit == cache.value # None /\ now < cache.expires

LookUp(r) ==
    /\ req[r].at = "cache"
    /\ req' = [req EXCEPT ![r] = IF Hit THEN [@ EXCEPT !.at = "reply", !.parts = cache.value]
                                 ELSE [@ EXCEPT !.at = "call", !.date = GetZeroHourAnd1Day(now)]]
    /\ UNCHANGED <<now, cache>>

Call(r) ==
    /\ req[r].at = "call" /\ Len(req[r].parts) < Len(Parts)
    /\ req' = [req EXCEPT ![r].parts = Append(@, GetStatistic(req[r].date))]
    /\ UNCHANGED <<now, cache>>

\* The response passes CacheInterceptor on its way out.
Store_Forever(r) ==
    /\ req[r].at = "call" /\ Len(req[r].parts) = Len(Parts)
    /\ cache' = [value |-> req[r].parts, expires |-> MaxTime + 1]
    /\ req' = [req EXCEPT ![r].at = "reply"]
    /\ UNCHANGED now

Store(r) ==
    /\ req[r].at = "call" /\ Len(req[r].parts) = Len(Parts)
    /\ cache' = [value |-> req[r].parts, expires |-> now + Ttl]
    /\ req' = [req EXCEPT ![r].at = "reply"]
    /\ UNCHANGED now

Reply(r) ==
    /\ req[r].at = "reply"
    /\ req' = [req EXCEPT ![r] = NewRequest]
    /\ UNCHANGED <<now, cache>>

\* TimeoutInterceptor unsubscribes: what the handler returns later is not cached.
\* Or a call of Qiniu fails, or its last datas are missing.
Fail(r) ==
    /\ req[r].at \in {"cache", "call"}
    /\ req' = [req EXCEPT ![r] = NewRequest]
    /\ UNCHANGED <<now, cache>>

\* The timer of a request does not fire late, and its reply is sent at once.
Tick ==
    /\ now < MaxTime
    /\ \A r \in Requests :
         /\ req[r].at \in {"cache", "call"} => now < req[r].since + TimeLimit
         /\ req[r].at # "reply"
    /\ now' = now + 1
    /\ cache' = IF cache.expires <= now' THEN Empty ELSE cache
    /\ UNCHANGED req

\* The cache is the process's.
Restart ==
    /\ cache # Empty \/ \E r \in Requests : req[r].at # "idle"
    /\ cache' = Empty
    /\ req' = [r \in Requests |-> NewRequest]
    /\ UNCHANGED now

Next ==
    \/ \E r \in Requests : Arrive(r) \/ LookUp(r) \/ Call(r) \/ Store(r) \/ Reply(r) \/ Fail(r)
    \/ Tick
    \/ Restart

Spec == Init /\ [][Next]_vars

-----------------------------------------------------------------------------
\* Properties

\* TypeOK: every variable stays in its type.
TypeOK ==
    /\ now \in 0..MaxTime
    /\ cache.value # None => cache.value \in Seq(Statistic) /\ Len(cache.value) = Len(Parts)
    /\ req \in [Requests -> Request]

\* OverviewIsRecent: no figure of a reply is older than the time to live and the
\* time limit of a request together, although requests that overlap overwrite
\* each other's result; all four begin on the same day, and a later one ends no
\* earlier (space, CacheInterceptor, TimeoutInterceptor).
OverviewIsRecent ==
    \A r \in Requests :
        req[r].at = "reply" =>
            LET p == req[r].parts
            IN  /\ \A i \in DOMAIN p : now <= p[i].end + Ttl + TimeLimit
                /\ \A i, j \in DOMAIN p : p[i].begin = p[j].begin /\ (i < j => p[i].end <= p[j].end)
=============================================================================
