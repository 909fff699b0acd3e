---------------------------- MODULE OneTimeCode ----------------------------
(***************************************************************************)
(* One-time codes: the image captcha a login spends, and the verification  *)
(* code sent by e-mail behind three limits.  Both live in Redis, both are  *)
(* checked by calls of their own before the call that uses them up, and    *)
(* any number of requests is between two such calls.                       *)
(*                                                                         *)
(* One action is one awaited call.  The behaviours are those of one day.   *)
(***************************************************************************)
EXTENDS Naturals, FiniteSets

CONSTANTS
    Requests,   \* bound: how many logins and mails are asked for
    Ids,        \* uuids of captchas; generateUUID never repeats one
    Codes,      \* texts of a captcha, compared without their case
    Mails, Ips,
    None,
    LIMIT_TIME, \* mailer.service's constant: mails a day
    Throttle,   \* mails per window of one ip, 2 in the code
    Minute,     \* ticks of the two limits of a minute
    Window,     \* ticks of the throttle, more than a minute
    MaxTicks    \* bound: ticks of a behaviour

ASSUME OneTimeCodeAssumption ==
    /\ None \notin Ids \cup Codes \cup Mails \cup Ips \cup Nat
    /\ Mails \cap Ips = {}
    /\ {LIMIT_TIME, Throttle, Minute, Window, MaxTicks} \subseteq Nat \ {0}

VARIABLES
    req,       \* the requests
    img,       \* captcha:img:<id>
    unused,    \* uuids no captcha has had
    minute,    \* ticks left of ip:<ip>:send:limit and captcha:<mail>:limit
    limitDay,  \* the :limit-day keys, which checkLimit and log read
    countDay,  \* the :send:limit-count-day keys, which log writes
    throttle,  \* ThrottlerGuard's memory of each ip
    now

redisKeys == <<img, unused, minute, limitDay, countDay>>
vars == <<req, redisKeys, throttle, now>>

Stages == {"new", "over",
           "get", "del", "passed",
           "ip", "mail", "day", "send", "code", "limitIp", "limitMail", "readDay", "writeDay", "logged"}

\* Every request remembers which ones had been answered when it came, and when
\* its mail left; no action reads these two.
Request == [at : Stages, id : Ids \cup {None}, code : Codes \cup {None},
            mail : Mails \cup {None}, ip : Ips \cup {None},
            before : SUBSET Requests, sent : Nat \cup {None}]

NewRequest == [at |-> "new", id |-> None, code |-> None, mail |-> None, ip |-> None,
               before |-> {}, sent |-> None]

At(r, stage) == req[r].at = stage
Goto(r, stage) == req' = [req EXCEPT ![r].at = stage]
Answered == {r \in Requests : req[r].at \in {"passed", "logged", "over"}}

Init ==
    /\ req = [r \in Requests |-> NewRequest]
    /\ img = [i \in Ids |-> None]
    /\ unused = Ids
    /\ minute = [k \in Mails \cup Ips |-> 0]
    /\ limitDay = [k \in Mails \cup Ips |-> None]
    /\ countDay = [k \in Mails \cup Ips |-> None]
    /\ throttle = [i \in Ips |-> [hits |-> 0, left |-> 0]]
    /\ now = 0

-----------------------------------------------------------------------------
\* The image captcha

CaptchaByImg(i, text) ==
    /\ i \in unused
    /\ img' = [img EXCEPT ![i] = text]
    /\ unused' = unused \ {i}
    /\ UNCHANGED <<req, minute, limitDay, countDay, throttle, now>>

\* Five minutes have passed.
CaptchaExpires(i) ==
    /\ img[i] # None
    /\ img' = [img EXCEPT ![i] = None]
    /\ UNCHANGED <<req, unused, minute, limitDay, countDay, throttle, now>>

LoginComes(r, i, answer) ==
    /\ At(r, "new")
    /\ req' = [req EXCEPT ![r] = [NewRequest EXCEPT !.at = "get", !.id = i, !.code = answer,
                                                     !.before = Answered]]
    /\ UNCHANGED <<redisKeys, throttle, now>>

\* checkImgCaptcha: GET and compare; a wrong answer does not use the captcha up.
CheckImgCaptcha(r) ==
    /\ At(r, "get")
    /\ Goto(r, IF img[req[r].id] = req[r].code THEN "del" ELSE "over")
    /\ UNCHANGED <<redisKeys, throttle, now>>

DelImgCaptcha_Kept(r) ==
    /\ At(r, "del")
    /\ Goto(r, "passed")
    /\ UNCHANGED <<redisKeys, throttle, now>>

\* DEL, whether or not there still is a key; the login goes on to the password.
DelImgCaptcha(r) ==
    /\ At(r, "del")
    /\ img' = [img EXCEPT ![req[r].id] = None]
    /\ Goto(r, "passed")
    /\ UNCHANGED <<unused, minute, limitDay, countDay, throttle, now>>

-----------------------------------------------------------------------------
\* The verification mail

\* ThrottlerGuard counts the requests of an ip, refused ones too.
SendEmailCode(r, m, i) ==
    LET t == throttle[i]
        free == t.hits < Throttle
    IN  /\ At(r, "new")
        /\ req' = [req EXCEPT ![r] = [NewRequest EXCEPT !.at = IF free THEN "ip" ELSE "over",
                                         !.mail = m, !.ip = i, !.before = Answered]]
        /\ throttle' = IF free
                       THEN [throttle EXCEPT ![i] = [hits |-> t.hits + 1, left |-> Window]]
                       ELSE throttle
        /\ UNCHANGED <<redisKeys, now>>

\* checkLimit: GET, GET, and the two limits of a day.
CheckIp(r) ==
    /\ At(r, "ip")
    /\ Goto(r, IF minute[req[r].ip] > 0 THEN "over" ELSE "mail")
    /\ UNCHANGED <<redisKeys, throttle, now>>

CheckMail_Skipped(r) ==
    /\ At(r, "mail")
    /\ Goto(r, "day")
    /\ UNCHANGED <<redisKeys, throttle, now>>

CheckMail(r) ==
    /\ At(r, "mail")
    /\ Goto(r, IF minute[req[r].mail] > 0 THEN "over" ELSE "day")
    /\ UNCHANGED <<redisKeys, throttle, now>>

SpentToday(k) == limitDay[k] # None /\ limitDay[k] > LIMIT_TIME

\* Two GETs in the code, taken together: nobody writes the keys they read.
CheckDay(r) ==
    /\ At(r, "day")
    /\ Goto(r, IF SpentToday(req[r].mail) \/ SpentToday(req[r].ip) THEN "over" ELSE "send")
    /\ UNCHANGED <<redisKeys, throttle, now>>

SendVerificationCode(r) ==
    /\ At(r, "send")
    /\ req' = [req EXCEPT ![r].at = "code", ![r].sent = now]
    /\ UNCHANGED <<redisKeys, throttle, now>>

\* log: the code, the minute of the ip and of the address, each a SET.
LogCode(r) ==
    /\ At(r, "code")
    /\ Goto(r, "limitIp")
    /\ UNCHANGED <<redisKeys, throttle, now>>

LimitKey(r, stage, k, next) ==
    /\ At(r, stage)
    /\ minute' = [minute EXCEPT ![k] = Minute]
    /\ Goto(r, next)
    /\ UNCHANGED <<img, unused, limitDay, countDay, throttle, now>>

LogIp(r) == LimitKey(r, "limitIp", req[r].ip, "limitMail")
LogMail(r) == LimitKey(r, "limitMail", req[r].mail, "readDay")

\* The counts of the day are copied from one pair of keys to another, which
\* nobody reads; neither is ever incremented.
LogDay(r) ==
    /\ At(r, "readDay")
    /\ countDay' = [countDay EXCEPT ![req[r].mail] = limitDay[req[r].mail],
                                    ![req[r].ip] = limitDay[req[r].ip]]
    /\ Goto(r, "logged")
    /\ UNCHANGED <<img, unused, minute, limitDay, throttle, now>>

-----------------------------------------------------------------------------
\* Redis or the mail server refuses a call (in the last second of a day the
\* SETs of log with EX 0 do): the request is answered with an error, and what it
\* has written stays.
Fail(r) ==
    /\ req[r].at \notin {"new", "passed", "logged", "over"}
    /\ Goto(r, "over")
    /\ UNCHANGED <<redisKeys, throttle, now>>

\* The instance ends with its requests; the throttle was in its memory.
Restart ==
    /\ req' = [r \in Requests |-> IF At(r, "new") \/ r \in Answered THEN req[r]
                                  ELSE [req[r] EXCEPT !.at = "over"]]
    /\ throttle' = [i \in Ips |-> [hits |-> 0, left |-> 0]]
    /\ UNCHANGED <<redisKeys, now>>

Less(n) == IF n = 0 THEN 0 ELSE n - 1

Tick ==
    /\ now < MaxTicks
    /\ now' = now + 1
    /\ minute' = [k \in Mails \cup Ips |-> Less(minute[k])]
    /\ throttle' = [i \in Ips |-> IF throttle[i].left <= 1 THEN [hits |-> 0, left |-> 0]
                                  ELSE [throttle[i] EXCEPT !.left = @ - 1]]
    /\ UNCHANGED <<req, img, unused, limitDay, countDay>>

-----------------------------------------------------------------------------
LoginStep(r) == CheckImgCaptcha(r) \/ DelImgCaptcha(r)
MailStep(r) ==
    \/ CheckIp(r) \/ CheckMail(r) \/ CheckDay(r) \/ SendVerificationCode(r)
    \/ LogCode(r) \/ LogIp(r) \/ LogMail(r) \/ LogDay(r)

Next ==
    \/ \E i \in Ids : CaptchaExpires(i) \/ \E text \in Codes : CaptchaByImg(i, text)
    \/ \E r \in Requests : \/ \E i \in Ids, answer \in Codes : LoginComes(r, i, answer)
                           \/ \E m \in Mails, i \in Ips : SendEmailCode(r, m, i)
                           \/ LoginStep(r) \/ MailStep(r) \/ Fail(r)
    \/ Restart \/ Tick

Spec == Init /\ [][Next]_vars

-----------------------------------------------------------------------------
\* Properties

\* TypeOK: every variable stays in its type.
TypeOK ==
    /\ req \in [Requests -> Request]
    /\ img \in [Ids -> Codes \cup {None}]
    /\ unused \in SUBSET Ids
    /\ minute \in [Mails \cup Ips -> 0..Minute]
    /\ limitDay \in [Mails \cup Ips -> Nat \cup {None}]
    /\ countDay \in [Mails \cup Ips -> Nat \cup {None}]
    /\ throttle \in [Ips -> [hits : 0..Throttle, left : 0..Window]]
    /\ now \in 0..MaxTicks

Overlap(r, s) == r \notin req[s].before /\ s \notin req[r].before

\* CaptchaOnce: one captcha lets two logins through only when neither had been
\* answered before the other came, that is when both were between the GET and
\* the DEL of checkImgCaptcha; a login that comes later is refused.
CaptchaOnce ==
    \A r, s \in Requests :
        /\ r # s /\ At(r, "passed") /\ At(s, "passed")
        /\ req[r].id = req[s].id
        => Overlap(r, s)

\* MinuteGap: two mails to one address, or asked for by one ip, leave less than
\* a minute apart only when their requests overlapped or the first failed before
\* log was through, whatever was restarted meanwhile (checkLimit, log).
MinuteGap ==
    \A r, s \in Requests :
        /\ At(r, "logged") /\ r \in req[s].before
        /\ req[s].sent # None
        /\ req[r].mail = req[s].mail \/ req[r].ip = req[s].ip
        => req[s].sent >= req[r].sent + Minute

\* FivePerDay: of requests that log went through for and no two of which
\* overlapped, at most LIMIT_TIME send a mail to one address in a day, as the
\* comment at mailer.service.ts:48 says.
FivePerDay ==
    \A R \in SUBSET Requests, m \in Mails :
        /\ \A r \in R : req[r].mail = m /\ At(r, "logged")
        /\ \A r, s \in R : r # s => ~Overlap(r, s)
        => Cardinality(R) <= LIMIT_TIME
=============================================================================
