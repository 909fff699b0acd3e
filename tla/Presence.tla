------------------------------ MODULE Presence ------------------------------
(***************************************************************************)
(* Who is online: SseController and SseService, which keep the open        *)
(* event streams of one instance, and OnlineService, which keeps one key   *)
(* per access token in Redis and tells the streams how many there are.     *)
(*                                                                         *)
(* addOnlineUser and removeOnlineUser are started and not awaited, so the  *)
(* key of a token is written and deleted some time after its stream was    *)
(* opened and closed, while the token's row may go at any moment.          *)
(***************************************************************************)
EXTENDS Naturals, FiniteSets

CONSTANTS
    Conns,    \* bound: how many streams are ever opened
    Tokens,   \* access tokens, by the id of their rows
    UserOf,   \* whose token it is; clients open /sse/<their own uid>
    Insts,    \* running instances
    None,     \* no token, no instance, no reply
    Ops       \* what happens besides opening and closing streams

AllOps == {"logout", "delete", "fail", "exit"}
Users == {UserOf[t] : t \in Tokens}

ASSUME PresenceAssumption ==
    /\ None \notin Conns \cup Tokens \cup Insts \cup Nat
    /\ IsFiniteSet(Tokens)
    /\ UserOf \in [Tokens -> Users]
    /\ Ops \subseteq AllOps

VARIABLES
    conn,     \* the streams
    rows,     \* user_access_tokens
    ending,   \* tokens removeAccessToken is working on
    online,   \* the online-user keys
    replyMap, \* SseController.replyMap, per instance
    clients,  \* clientMap, per instance; a stream's user says in which list it is
    window,   \* the throttle of updateOnlineUserCount, per instance
    asked,    \* instances whose KEYS is on its way
    counted,  \* the count an instance is about to send
    told,     \* the last count a stream was sent
    \* What the properties remember of the past; no action reads these.
    expelled, \* tokens whose removal no addOnlineUser overlapped
    alone,    \* streams that have been the only one of their token
    unheard   \* instances that did not cause the last change of the keys

sse   == <<replyMap, clients>>
count == <<window, asked, counted, told>>
past  == <<expelled, alone, unheard>>
vars  == <<conn, rows, ending, online, sse, count, past>>

-----------------------------------------------------------------------------
\* Streams.  An aborted one was gone before its handler ran: its close event
\* came while the guards were still at work, and will not come again.

Stages == {"new", "open", "closed", "aborted"}

\* Where addOnlineUser and removeOnlineUser of the stream are.
Adds == {"no", "find", "set", "done", "over"}
Removes == {"no", "find", "del", "over"}

Streams == [at : Stages, tok : Tokens \cup {None}, inst : Insts \cup {None},
            add : Adds, remove : Removes]

NewStream == [at |-> "new", tok |-> None, inst |-> None, add |-> "no", remove |-> "no"]

Owner(c) == UserOf[conn[c].tok]
Open(c) == conn[c].at = "open"
On(i) == {c \in Conns : conn[c].inst = i}
With(t) == {c \in Conns : conn[c].tok = t}

Init ==
    /\ conn = [c \in Conns |-> NewStream]
    /\ rows = Tokens
    /\ ending = [t \in Tokens |-> "no"]
    /\ online = {}
    /\ replyMap = [i \in Insts |-> [u \in Users |-> None]]
    /\ clients = [i \in Insts |-> {}]
    /\ window = [i \in Insts |-> "idle"]
    /\ asked = {}
    /\ counted = [i \in Insts |-> None]
    /\ told = [c \in Conns |-> None]
    /\ expelled = {} /\ alone = {} /\ unheard = {}

\* SseController.sse, once the guards let the request through; the token's row
\* may be gone by then.
Start(c, t, i, at) ==
    /\ conn[c].at = "new"
    /\ conn' = [conn EXCEPT ![c] = [at |-> at, tok |-> t, inst |-> i,
                                      add |-> "find", remove |-> "no"]]
    /\ replyMap' = [replyMap EXCEPT ![i][UserOf[t]] = c]
    /\ clients' = [clients EXCEPT ![i] = @ \cup {c}]
    /\ alone' = IF With(t) = {} THEN alone \cup {c} ELSE alone \ With(t)
    /\ UNCHANGED <<rows, ending, online, count, expelled, unheard>>

Connect(c, t, i) == Start(c, t, i, "open")
ConnectAborted(c, t, i) == Start(c, t, i, "aborted")

\* The handler of the close events of the streams C of instance i.  The entry
\* of replyMap goes whichever stream of the user it was for.
Closed(C, i) ==
    /\ conn' = [c \in Conns |->
                  IF c \in C THEN [conn[c] EXCEPT !.at = "closed", !.remove = "find"]
                  ELSE conn[c]]
    /\ clients' = [clients EXCEPT ![i] = @ \ C]
    /\ replyMap' = [replyMap EXCEPT ![i] = [u \in Users |->
                      IF \E c \in C : Owner(c) = u THEN None ELSE @[u]]]

Disconnect(c) ==
    /\ Open(c)
    /\ Closed({c}, conn[c].inst)
    /\ UNCHANGED <<rows, ending, online, count, past>>

-----------------------------------------------------------------------------
\* updateOnlineUserCount, behind lodash's throttle: the first call runs at
\* once, those of the next three seconds together at their end.

Windows == {"idle",     \* no timer
            "waiting",  \* a timer, and no call since it was set
            "due",      \* a timer, and a call to be made when it ends
            "after"}    \* no timer; it ended with a call less than 3 s ago

CountCall_LeadingOnly(i) ==
    IF window[i] \in {"idle", "after"}
    THEN /\ window' = [window EXCEPT ![i] = "waiting"]
         /\ asked' = asked \cup {i}
    ELSE UNCHANGED <<window, asked>>

CountCall(i) ==
    \/ /\ window[i] \in {"idle", "after"}
       /\ window' = [window EXCEPT ![i] = "waiting"]
       /\ asked' = asked \cup {i}
    \/ /\ window[i] # "idle"
       /\ window' = [window EXCEPT ![i] = "due"]
       /\ UNCHANGED asked

TimerEnds(i) ==
    /\ window[i] # "idle"
    /\ IF window[i] = "due"
       THEN /\ window' = [window EXCEPT ![i] = "after"]
            /\ asked' = asked \cup {i}
       ELSE /\ window' = [window EXCEPT ![i] = "idle"]
            /\ UNCHANGED asked
    /\ UNCHANGED <<conn, rows, ending, online, sse, counted, told, past>>

\* KEYS, then sendToAllUser: all the users of this instance.
ReadKeys(i) ==
    /\ i \in asked
    /\ asked' = asked \ {i}
    /\ counted' = [counted EXCEPT ![i] = Cardinality(online)]
    /\ unheard' = unheard \ {i}
    /\ UNCHANGED <<conn, rows, ending, online, sse, window, told, expelled, alone>>

Send(i) ==
    /\ counted[i] # None
    /\ told' = [c \in Conns |-> IF c \in clients[i] THEN counted[i] ELSE told[c]]
    /\ counted' = [counted EXCEPT ![i] = None]
    /\ UNCHANGED <<conn, rows, ending, online, sse, window, asked, past>>

-----------------------------------------------------------------------------
\* OnlineService.addOnlineUser and removeOnlineUser

AddFind_Unchecked(c) ==
    /\ conn[c].add = "find"
    /\ conn' = [conn EXCEPT ![c].add = "set"]
    /\ UNCHANGED <<rows, ending, online, sse, count, past>>

\* A token without a row: nothing is added.
AddFind(c) ==
    LET t == conn[c].tok
    IN  /\ conn[c].add = "find"
        /\ conn' = [conn EXCEPT ![c].add = IF t \in rows THEN "set" ELSE "over"]
        /\ ending' = [ending EXCEPT ![t] = IF @ = "calm" /\ t \in rows THEN "raced" ELSE @]
        /\ UNCHANGED <<rows, online, sse, count, past>>

AddSet_ByUser(c) ==
    /\ conn[c].add = "set"
    /\ conn' = [conn EXCEPT ![c].add = "done"]
    /\ online' = online \cup {Owner(c)}
    /\ CountCall(conn[c].inst)
    /\ unheard' = unheard \cup (Insts \ {conn[c].inst})
    /\ UNCHANGED <<rows, ending, sse, counted, told, expelled, alone>>

\* The JWT verified and the address of the ip was found: SET, and tell.
AddSet(c) ==
    /\ conn[c].add = "set"
    /\ conn' = [conn EXCEPT ![c].add = "done"]
    /\ online' = online \cup {conn[c].tok}
    /\ CountCall(conn[c].inst)
    /\ unheard' = unheard \cup (Insts \ {conn[c].inst})
    /\ UNCHANGED <<rows, ending, sse, counted, told, expelled, alone>>

\* Without the row there is no id to delete the key by.
RemoveFind(c) ==
    /\ conn[c].remove = "find"
    /\ conn' = [conn EXCEPT ![c].remove = IF conn[c].tok \in rows THEN "del" ELSE "over"]
    /\ IF conn[c].tok \in rows THEN UNCHANGED <<window, asked>> ELSE CountCall(conn[c].inst)
    /\ UNCHANGED <<rows, ending, online, sse, counted, told, past>>

RemoveDel_AllOfUser(c) ==
    /\ conn[c].remove = "del"
    /\ conn' = [conn EXCEPT ![c].remove = "over"]
    /\ online' = {t \in online : UserOf[t] # Owner(c)}
    /\ CountCall(conn[c].inst)
    /\ unheard' = unheard \cup (Insts \ {conn[c].inst})
    /\ UNCHANGED <<rows, ending, sse, counted, told, expelled, alone>>

RemoveDel(c) ==
    /\ conn[c].remove = "del"
    /\ conn' = [conn EXCEPT ![c].remove = "over"]
    /\ online' = online \ {conn[c].tok}
    /\ CountCall(conn[c].inst)
    /\ unheard' = unheard \cup (Insts \ {conn[c].inst})
    /\ UNCHANGED <<rows, ending, sse, counted, told, expelled, alone>>

-----------------------------------------------------------------------------
\* The end of a token

\* removeAccessToken, from a logout, a kick, a refresh or the sweep: the key is
\* deleted first, without telling anybody, ...
RemoveToken(t) ==
    /\ t \in rows
    /\ ending[t] = "no"
    /\ online' = online \ {t}
    /\ ending' = [ending EXCEPT ![t] =
                    IF \E c \in With(t) : conn[c].add = "set" THEN "raced" ELSE "calm"]
    /\ unheard' = Insts
    /\ UNCHANGED <<conn, rows, sse, count, expelled, alone>>

\* ... then the row.
RemoveRow(t) ==
    /\ ending[t] # "no"
    /\ rows' = rows \ {t}
    /\ ending' = [ending EXCEPT ![t] = "no"]
    /\ expelled' = IF ending[t] = "calm" THEN expelled \cup {t} ELSE expelled
    /\ UNCHANGED <<conn, online, sse, count, alone, unheard>>

\* The rows of a deleted user go with the user, and the keys stay.
DeleteUser(u) ==
    /\ \E t \in rows : UserOf[t] = u
    /\ rows' = {t \in rows : UserOf[t] # u}
    /\ UNCHANGED <<conn, ending, online, sse, count, past>>

-----------------------------------------------------------------------------
\* Failures

\* The JWT expired meanwhile, or MySQL or Redis failed; nobody catches it.  The
\* KEYS of a count does not fail here.
Fail(c) ==
    /\ \/ /\ conn[c].add \in {"find", "set"}
          /\ conn' = [conn EXCEPT ![c].add = "over"]
       \/ /\ conn[c].remove \in {"find", "del"}
          /\ conn' = [conn EXCEPT ![c].remove = "over"]
    /\ UNCHANGED <<rows, ending, online, sse, count, past>>

\* beforeApplicationShutdown ends the replies it knows of.
Shutdown(i) ==
    /\ \E u \in Users : replyMap[i][u] # None
    /\ Closed({c \in On(i) : Open(c) /\ replyMap[i][Owner(c)] = c}, i)
    /\ UNCHANGED <<rows, ending, online, count, past>>

\* The process is gone, with its streams, its maps and its calls; PM2 starts it
\* again.  The keys stay.
Exit(i) ==
    /\ On(i) # {}
    /\ conn' = [c \in Conns |->
                  IF c \in On(i) THEN [at |-> "closed", tok |-> conn[c].tok, inst |-> i,
                                        add |-> "over", remove |-> "over"]
                  ELSE conn[c]]
    /\ replyMap' = [replyMap EXCEPT ![i] = [u \in Users |-> None]]
    /\ clients' = [clients EXCEPT ![i] = {}]
    /\ window' = [window EXCEPT ![i] = "idle"]
    /\ asked' = asked \ {i}
    /\ counted' = [counted EXCEPT ![i] = None]
    /\ UNCHANGED <<rows, ending, online, told, past>>

-----------------------------------------------------------------------------
\* What the program does by itself once it is called.
CallStep(c) == AddFind(c) \/ AddSet(c) \/ RemoveFind(c) \/ RemoveDel(c)
CountStep(i) == TimerEnds(i) \/ ReadKeys(i) \/ Send(i)

Next ==
    \/ \E c \in Conns, t \in Tokens, i \in Insts : Connect(c, t, i) \/ ConnectAborted(c, t, i)
    \/ \E c \in Conns : Disconnect(c) \/ CallStep(c) \/ ("fail" \in Ops /\ Fail(c))
    \/ \E i \in Insts : CountStep(i) \/ ("exit" \in Ops /\ (Shutdown(i) \/ Exit(i)))
    \/ "logout" \in Ops /\ \E t \in Tokens : RemoveToken(t)
    \/ \E t \in Tokens : RemoveRow(t)
    \/ "delete" \in Ops /\ \E u \in Users : DeleteUser(u)

Spec == Init /\ [][Next]_vars

-----------------------------------------------------------------------------
\* Properties

\* TypeOK: every variable stays in its type.
TypeOK ==
    /\ conn \in [Conns -> Streams]
    /\ rows \in SUBSET Tokens
    /\ ending \in [Tokens -> {"no", "calm", "raced"}]
    /\ online \in SUBSET Tokens
    /\ replyMap \in [Insts -> [Users -> Conns \cup {None}]]
    /\ clients \in [Insts -> SUBSET Conns]
    /\ window \in [Insts -> Windows]
    /\ asked \in SUBSET Insts
    /\ counted \in [Insts -> {None} \cup 0..Cardinality(Tokens)]
    /\ told \in [Conns -> {None} \cup 0..Cardinality(Tokens)]
    /\ expelled \in SUBSET Tokens
    /\ alone \in SUBSET Conns
    /\ unheard \in SUBSET Insts

\* ExpelledStaysOffline: a token that was logged out, kicked, refreshed or swept
\* while no addOnlineUser of it was between its two calls is not in the list of
\* users online any more, however many of its streams are still open or were
\* about to be added (removeAccessToken, addOnlineUser).
ExpelledStaysOffline == expelled \cap online = {}

\* OnlineWhileOpen: a stream that is the only one its token has had is in the
\* list of users online, from the SET until it is closed or the token ends.
OnlineWhileOpen ==
    \A c \in alone : /\ Open(c) /\ conn[c].add = "done"
                     /\ conn[c].tok \in rows /\ ending[conn[c].tok] = "no"
                     => conn[c].tok \in online

\* CountIsCurrent: an instance whose throttle has come to rest has told all its
\* streams, since they were added, how many keys there are, unless something
\* else than its own streams has changed the keys since (updateOnlineUserCount:
\* however the calls fall into its window, the last one is not lost).
CountIsCurrent ==
    \A i \in Insts : /\ window[i] = "idle" /\ i \notin asked /\ counted[i] = None /\ i \notin unheard
                     => \A c \in clients[i] : conn[c].add = "done" => told[c] = Cardinality(online)
=============================================================================
