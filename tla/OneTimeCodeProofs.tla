------------------------- MODULE OneTimeCodeProofs -------------------------
(***************************************************************************)
(* Proofs about OneTimeCode for every set of requests, captchas, addresses *)
(* and ips and every length of the limits: the types, that a captcha is    *)
(* spent once, and that mails keep a minute between them.                  *)
(***************************************************************************)
EXTENDS OneTimeCode, TLAPS

LoginStages == {"get", "del", "passed"}
SentStages  == {"code", "limitIp", "limitMail", "readDay", "logged"}
MailStages  == {"ip", "mail", "day", "send"} \cup SentStages
DoneStages  == {"passed", "logged", "over"}

\* What a request at a stage has with it.
RequestOK(x) ==
    /\ x.at \in LoginStages => x.id \in Ids /\ x.code \in Codes
    /\ x.at \in MailStages => x.mail \in Mails /\ x.ip \in Ips
    /\ x.at \in SentStages => x.sent \in Nat
    /\ x.sent # None => x.sent \in Nat /\ x.at \in SentStages \cup {"over"}

TypeInv == TypeOK /\ \A r \in Requests : RequestOK(req[r])

\* A request that was done when another came is still done.
DoneBefore == \A s \in Requests : req[s].before \subseteq Answered

LEMMA NewOK == NewRequest \in Request /\ RequestOK(NewRequest)
  BY DEF NewRequest, Request, Stages, RequestOK, LoginStages, MailStages, SentStages

LEMMA LimitsAreNat == /\ LIMIT_TIME \in Nat /\ Throttle \in Nat \ {0} /\ Minute \in Nat \ {0}
                      /\ Window \in Nat \ {0} /\ MaxTicks \in Nat
  BY OneTimeCodeAssumption

LEMMA NoneDiffers == None \notin Ids /\ None \notin Codes /\ None \notin Mails /\ None \notin Ips /\ None \notin Nat
  BY OneTimeCodeAssumption

LEMMA InitTypeInv == Init => TypeInv /\ DoneBefore
<1> SUFFICES ASSUME Init
             PROVE  TypeInv /\ DoneBefore
  OBVIOUS
<1>1. \A r \in Requests : req[r] = NewRequest
  BY DEF Init
<1>2. TypeOK
  BY NewOK, LimitsAreNat DEF Init, TypeOK
<1>3. NewRequest.before = {}
  BY DEF NewRequest
<1> QED BY <1>1, <1>2, <1>3, NewOK DEF TypeInv, DoneBefore

\* Only the record of r changes, and to one that is in order.
LEMMA OneRequest ==
  ASSUME NEW r \in Requests, NEW x \in Request, TypeInv, RequestOK(x),
         req' = [req EXCEPT ![r] = x]
  PROVE  /\ req' \in [Requests -> Request]
         /\ \A s \in Requests : RequestOK(req'[s])
         /\ req'[r] = x /\ \A s \in Requests \ {r} : req'[s] = req[s]
  BY DEF TypeInv, TypeOK

\* A request goes on to another stage with what it has.
LEMMA GoesOn ==
  ASSUME NEW r \in Requests, NEW stage \in Stages, TypeInv, Goto(r, stage),
         stage \in LoginStages => req[r].at \in LoginStages,
         stage \in MailStages => req[r].at \in MailStages,
         stage \in SentStages => req[r].at \in SentStages,
         req[r].at \in SentStages => stage \in SentStages \cup {"over"},
         req[r].at # "over"
  PROVE  /\ req' \in [Requests -> Request]
         /\ \A s \in Requests : RequestOK(req'[s])
         /\ req'[r] = [req[r] EXCEPT !.at = stage]
         /\ \A s \in Requests \ {r} : req'[s] = req[s]
<1> DEFINE x == [req[r] EXCEPT !.at = stage]
<1>1. req[r] \in Request /\ RequestOK(req[r]) /\ req \in [Requests -> Request]
  BY DEF TypeInv, TypeOK
<1>2. x \in Request
  BY <1>1 DEF Request
<1>3. /\ x.at = stage /\ x.id = req[r].id /\ x.code = req[r].code /\ x.mail = req[r].mail
      /\ x.ip = req[r].ip /\ x.sent = req[r].sent
  BY <1>1 DEF Request
<1>4. RequestOK(x)
  BY <1>1, <1>3 DEF RequestOK
<1>5. req' = [req EXCEPT ![r] = x]
  BY DEF Goto
<1> QED BY <1>2, <1>4, <1>5, OneRequest

\* What one step does to a request: nothing, or it comes, or it moves on with
\* what it has, and not when it is done.
Comes(s) ==
    /\ req[s].at = "new" /\ req'[s].before = Answered
    /\ req'[s].at \in {"get", "ip", "over"} /\ req'[s].sent = None

MovesOn(s) ==
    /\ req[s].at \notin DoneStages \cup {"new"}
    /\ req'[s].id = req[s].id /\ req'[s].code = req[s].code /\ req'[s].mail = req[s].mail
    /\ req'[s].ip = req[s].ip /\ req'[s].before = req[s].before

Moved == /\ req' \in [Requests -> Request]
         /\ \A s \in Requests : RequestOK(req'[s])
         /\ \A s \in Requests : req'[s] = req[s] \/ Comes(s) \/ MovesOn(s)

LEMMA GoesOnMoved ==
  ASSUME NEW r \in Requests, NEW stage \in Stages, TypeInv, Goto(r, stage),
         stage \in LoginStages => req[r].at \in LoginStages,
         stage \in MailStages => req[r].at \in MailStages,
         stage \in SentStages => req[r].at \in SentStages,
         req[r].at \in SentStages => stage \in SentStages \cup {"over"},
         req[r].at \notin DoneStages \cup {"new"}
  PROVE  Moved
<1>1. req[r] \in Request /\ req[r].at # "over"
  BY DEF TypeInv, TypeOK, DoneStages
<1>2. /\ req' \in [Requests -> Request]
      /\ \A s \in Requests : RequestOK(req'[s])
      /\ req'[r] = [req[r] EXCEPT !.at = stage]
      /\ \A s \in Requests \ {r} : req'[s] = req[s]
  BY <1>1, GoesOn
<1>3. MovesOn(r)
  BY <1>1, <1>2 DEF MovesOn, Request
<1> QED BY <1>2, <1>3 DEF Moved

LEMMA ComesMoved ==
  ASSUME NEW r \in Requests, TypeInv,
         \/ \E i \in Ids, answer \in Codes : LoginComes(r, i, answer)
         \/ \E m \in Mails, i \in Ips : SendEmailCode(r, m, i)
  PROVE  Moved
<1>0. Answered \subseteq Requests /\ NewRequest \in Request
  BY NewOK DEF Answered
<1>1. CASE \E i \in Ids, answer \in Codes : LoginComes(r, i, answer)
  <2> PICK i \in Ids, answer \in Codes : LoginComes(r, i, answer)
    BY <1>1
  <2> DEFINE x == [NewRequest EXCEPT !.at = "get", !.id = i, !.code = answer, !.before = Answered]
  <2>1. x \in Request
    BY <1>0 DEF Request, Stages
  <2>2. /\ x.at = "get" /\ x.id = i /\ x.code = answer /\ x.before = Answered
        /\ x.sent = None
    BY DEF NewRequest
  <2>3. RequestOK(x)
    BY <2>2 DEF RequestOK, MailStages, SentStages
  <2>4. req' = [req EXCEPT ![r] = x] /\ req[r].at = "new"
    BY DEF LoginComes, At
  <2> QED BY <2>1, <2>2, <2>3, <2>4, OneRequest DEF Moved, Comes
<1>2. CASE \E m \in Mails, i \in Ips : SendEmailCode(r, m, i)
  <2> PICK m \in Mails, i \in Ips : SendEmailCode(r, m, i)
    BY <1>2
  <2> DEFINE x(stage) == [NewRequest EXCEPT !.at = stage, !.mail = m, !.ip = i,
                                            !.before = Answered]
  <2>1. PICK stage \in {"ip", "over"} : req' = [req EXCEPT ![r] = x(stage)]
    BY DEF SendEmailCode
  <2>2. x(stage) \in Request
    BY <1>0 DEF Request, Stages
  <2>3. /\ x(stage).at = stage /\ x(stage).mail = m /\ x(stage).ip = i
        /\ x(stage).before = Answered /\ x(stage).sent = None
    BY DEF NewRequest
  <2>4. RequestOK(x(stage))
    BY <2>3 DEF RequestOK, LoginStages, MailStages, SentStages
  <2>5. req[r].at = "new"
    BY DEF SendEmailCode, At
  <2> QED BY <2>1, <2>2, <2>3, <2>4, <2>5, OneRequest DEF Moved, Comes
<1> QED BY <1>1, <1>2

LEMMA SendMoved ==
  ASSUME NEW r \in Requests, TypeInv, SendVerificationCode(r)
  PROVE  Moved /\ req'[r] = [req[r] EXCEPT !.at = "code", !.sent = now]
<1> DEFINE x == [req[r] EXCEPT !.at = "code", !.sent = now]
<1>1. /\ req \in [Requests -> Request] /\ req[r] \in Request /\ RequestOK(req[r])
      /\ req[r].at = "send" /\ now \in Nat
  BY LimitsAreNat DEF TypeInv, TypeOK, SendVerificationCode, At
<1>2. x \in Request
  BY <1>1 DEF Request, Stages
<1>3. /\ x.at = "code" /\ x.sent = now /\ x.id = req[r].id /\ x.code = req[r].code
      /\ x.mail = req[r].mail /\ x.ip = req[r].ip /\ x.before = req[r].before
  BY <1>1 DEF Request
<1>4. RequestOK(x)
  BY <1>1, <1>3 DEF RequestOK, LoginStages, MailStages, SentStages
<1>5. req' = [req EXCEPT ![r] = x]
  BY <1>1 DEF SendVerificationCode
<1>6. MovesOn(r)
  BY <1>1, <1>2, <1>3, <1>4, <1>5, OneRequest DEF MovesOn, DoneStages
<1> QED BY <1>2, <1>4, <1>5, <1>6, OneRequest DEF Moved

LEMMA RestartMoved ==
  ASSUME TypeInv, Restart
  PROVE  Moved
<1> SUFFICES ASSUME NEW r \in Requests
             PROVE  /\ req'[r] \in Request /\ RequestOK(req'[r])
                    /\ req'[r] = req[r] \/ MovesOn(r)
  BY DEF Moved, Restart
<1>0. req[r] \in Request /\ RequestOK(req[r])
  BY DEF TypeInv, TypeOK
<1>1. CASE At(r, "new") \/ r \in Answered
  BY <1>0, <1>1 DEF Restart
<1>2. CASE ~(At(r, "new") \/ r \in Answered)
  <2> DEFINE x == [req[r] EXCEPT !.at = "over"]
  <2>1. req'[r] = x /\ req[r].at \notin DoneStages \cup {"new"}
    BY <1>2 DEF Restart, At, Answered, DoneStages
  <2>2. x \in Request
    BY <1>0 DEF Request, Stages
  <2>3. /\ x.at = "over" /\ x.id = req[r].id /\ x.code = req[r].code
        /\ x.mail = req[r].mail /\ x.ip = req[r].ip /\ x.sent = req[r].sent
        /\ x.before = req[r].before
    BY <1>0 DEF Request
  <2>4. RequestOK(x)
    BY <1>0, <2>3 DEF RequestOK, LoginStages, MailStages, SentStages
  <2> QED BY <2>1, <2>2, <2>3, <2>4 DEF MovesOn
<1> QED BY <1>1, <1>2

LEMMA NextMoved == TypeInv /\ [Next]_vars => Moved
<1> SUFFICES ASSUME TypeInv, [Next]_vars
             PROVE  Moved
  OBVIOUS
<1> USE DEF At, Stages, LoginStages, MailStages, SentStages, DoneStages
<1>0. \A r \in Requests : req[r] \in Request
  BY DEF TypeInv, TypeOK
<1>1. CASE UNCHANGED req
  BY <1>1 DEF Moved, TypeInv, TypeOK
<1>2. ASSUME NEW r \in Requests, LoginStep(r)
      PROVE  Moved
  <2>1. CASE CheckImgCaptcha(r)
    <3>1. req[r].at = "get" /\ \E st \in {"del", "over"} : Goto(r, st)
      BY <2>1 DEF CheckImgCaptcha
    <3> QED BY <3>1, GoesOnMoved
  <2>2. CASE DelImgCaptcha(r)
    BY <2>2, GoesOnMoved DEF DelImgCaptcha
  <2> QED BY <1>2, <2>1, <2>2 DEF LoginStep
<1>3. ASSUME NEW r \in Requests, MailStep(r) \/ Fail(r), ~SendVerificationCode(r)
      PROVE  Moved
  <2>1. CASE CheckIp(r)
    <3>1. req[r].at = "ip" /\ \E st \in {"mail", "over"} : Goto(r, st)
      BY <2>1 DEF CheckIp
    <3> QED BY <3>1, GoesOnMoved
  <2>2. CASE CheckMail(r)
    <3>1. req[r].at = "mail" /\ \E st \in {"day", "over"} : Goto(r, st)
      BY <2>2 DEF CheckMail
    <3> QED BY <3>1, GoesOnMoved
  <2>3. CASE CheckDay(r)
    <3>1. req[r].at = "day" /\ \E st \in {"send", "over"} : Goto(r, st)
      BY <2>3 DEF CheckDay
    <3> QED BY <3>1, GoesOnMoved
  <2>4. CASE LogCode(r) \/ LogIp(r) \/ LogMail(r) \/ LogDay(r)
    <3>1. \/ req[r].at = "code" /\ Goto(r, "limitIp")
          \/ req[r].at = "limitIp" /\ Goto(r, "limitMail")
          \/ req[r].at = "limitMail" /\ Goto(r, "readDay")
          \/ req[r].at = "readDay" /\ Goto(r, "logged")
      BY <2>4 DEF LogCode, LogIp, LogMail, LogDay, LimitKey
    <3> QED BY <3>1, GoesOnMoved
  <2>5. CASE Fail(r)
    BY <2>5, GoesOnMoved DEF Fail
  <2> QED BY <1>3, <2>1, <2>2, <2>3, <2>4, <2>5 DEF MailStep
<1>4. CASE \/ \E i \in Ids : CaptchaExpires(i) \/ \E text \in Codes : CaptchaByImg(i, text)
           \/ Tick \/ UNCHANGED vars
  BY <1>1, <1>4 DEF CaptchaExpires, CaptchaByImg, Tick, vars
<1> QED BY <1>2, <1>3, <1>4, ComesMoved, SendMoved, RestartMoved DEF Next

\* A captcha that has let somebody in is gone for good, and whoever came after
\* that login was answered is turned away.
PastGet == {"del", "passed"}

CaptchaInv ==
    /\ \A i \in unused : img[i] = None
    /\ \A r \in Requests : req[r].at \in PastGet => req[r].id \notin unused
    /\ \A r \in Requests : At(r, "passed") => img[req[r].id] = None
    /\ \A r, s \in Requests :
          /\ At(r, "passed") /\ r \in req[s].before /\ req[r].id = req[s].id
          => req[s].at \notin PastGet

\* The minute that began when the mail of r was written into the log is over.
MinuteOver(r) == now >= req[r].sent + Minute

\* The minute of key k is not over before that of the mail of r.
Guards(k, r) == now + minute[k] >= req[r].sent + Minute

\* What holds of the mail of r as the code logs it.
Timed(r) ==
    /\ req[r].sent # None => req[r].sent <= now
    /\ req[r].at \in {"limitMail", "readDay", "logged"} => Guards(req[r].ip, r)
    /\ req[r].at \in {"readDay", "logged"} => Guards(req[r].mail, r)

\* What holds of a request s that came after the mail of r was logged.
Apart(r, s) ==
    /\ req[r].ip = req[s].ip /\ req[s].at \in {"mail", "day", "send"} => MinuteOver(r)
    /\ req[r].mail = req[s].mail /\ req[s].at \in {"day", "send"} => MinuteOver(r)
    /\ (req[r].mail = req[s].mail \/ req[r].ip = req[s].ip) /\ req[s].sent # None
          => req[s].sent >= req[r].sent + Minute

GapInv ==
    /\ \A r \in Requests : Timed(r)
    /\ \A r, s \in Requests : At(r, "logged") /\ r \in req[s].before => Apart(r, s)

LEMMA NextTypeInv == TypeInv /\ DoneBefore /\ [Next]_vars => TypeInv' /\ DoneBefore' /\ Moved
<1> SUFFICES ASSUME TypeInv, DoneBefore, [Next]_vars
             PROVE  TypeInv' /\ DoneBefore' /\ Moved
  OBVIOUS
<1>0. Moved
  BY NextMoved
<1>1. DoneBefore'
  <2>1. \A s \in Requests : req[s].at \in DoneStages => req'[s] = req[s]
    BY <1>0 DEF Moved, Comes, MovesOn, DoneStages
  <2>2. Answered \subseteq Answered'
    BY <2>1 DEF Answered, DoneStages
  <2>3. \A s \in Requests : req'[s].before \in {req[s].before, Answered}
    BY <1>0 DEF Moved, Comes, MovesOn
  <2> QED BY <2>2, <2>3 DEF DoneBefore
<1>2. /\ img' \in [Ids -> Codes \cup {None}] /\ unused' \in SUBSET Ids
      /\ limitDay' \in [Mails \cup Ips -> Nat \cup {None}]
      /\ countDay' \in [Mails \cup Ips -> Nat \cup {None}]
  <2> USE DEF redisKeys, TypeInv, TypeOK
  <2>1. CASE \E r \in Requests : LogDay(r)
    <3> PICK r \in Requests : LogDay(r)
      BY <2>1
    <3>1. req[r].mail \in Mails /\ req[r].ip \in Ips
      BY DEF LogDay, At, RequestOK, MailStages, SentStages
    <3> QED BY <3>1 DEF LogDay
  <2>2. CASE ~ \E r \in Requests : LogDay(r)
    BY ZenonT(60), SMTT(60), <2>2 DEF Next, vars, CaptchaExpires, CaptchaByImg, LoginComes, SendEmailCode, LoginStep,
       CheckImgCaptcha, DelImgCaptcha, MailStep, CheckIp, CheckMail, CheckDay,
       SendVerificationCode, LogCode, LogIp, LogMail, LimitKey, Fail, Restart, Tick
  <2> QED BY <2>1, <2>2
<1>3. minute' \in [Mails \cup Ips -> 0..Minute] /\ now' \in 0..MaxTicks
  <2> USE LimitsAreNat DEF redisKeys, TypeInv, TypeOK
  <2>1. CASE Tick
    <3>1. \A n \in 0..Minute : Less(n) \in 0..Minute
      BY DEF Less
    <3>2. now' \in 0..MaxTicks
      BY <2>1 DEF Tick
    <3>3. minute' \in [Mails \cup Ips -> 0..Minute]
      BY <2>1, <3>1 DEF Tick
    <3> QED BY <3>2, <3>3
  <2>2. CASE ~Tick
    <3>1. UNCHANGED now /\ (UNCHANGED minute \/ \E k : minute' = [minute EXCEPT ![k] = Minute])
      BY <2>2 DEF Next, vars, CaptchaExpires, CaptchaByImg, LoginComes, SendEmailCode, LoginStep,
         CheckImgCaptcha, DelImgCaptcha, MailStep, CheckIp, CheckMail, CheckDay,
         SendVerificationCode, LogCode, LogIp, LogMail, LimitKey, LogDay, Fail, Restart
    <3> QED BY <3>1
  <2> QED BY <2>1, <2>2
<1>4. throttle' \in [Ips -> [hits : 0..Throttle, left : 0..Window]]
  <2> USE LimitsAreNat DEF TypeInv, TypeOK
  <2>1. CASE Tick
    <3>1. ASSUME NEW i \in Ips, ~(throttle[i].left <= 1)
          PROVE  [throttle[i] EXCEPT !.left = @ - 1] \in [hits : 0..Throttle, left : 0..Window]
      BY <3>1
    <3> QED BY <2>1, <3>1 DEF Tick
  <2>2. CASE Restart
    BY <2>2 DEF Restart
  <2>3. CASE \E r \in Requests, m \in Mails, i \in Ips : SendEmailCode(r, m, i)
    <3> PICK r \in Requests, m \in Mails, i \in Ips : SendEmailCode(r, m, i)
      BY <2>3
    <3>1. throttle[i] \in [hits : 0..Throttle, left : 0..Window]
      OBVIOUS
    <3>2. \/ UNCHANGED throttle
          \/ /\ throttle[i].hits < Throttle
             /\ throttle' = [throttle EXCEPT ![i] = [hits |-> throttle[i].hits + 1, left |-> Window]]
      BY DEF SendEmailCode
    <3> QED BY <3>1, <3>2
  <2>4. CASE ~(Tick \/ Restart \/ \E r \in Requests, m \in Mails, i \in Ips : SendEmailCode(r, m, i))
    BY <2>4 DEF Next, vars, CaptchaExpires, CaptchaByImg, LoginComes, LoginStep,
       CheckImgCaptcha, DelImgCaptcha, MailStep, CheckIp, CheckMail, CheckDay,
       SendVerificationCode, LogCode, LogIp, LogMail, LimitKey, LogDay, Fail
  <2> QED BY <2>1, <2>2, <2>3, <2>4
<1> QED BY <1>0, <1>1, <1>2, <1>3, <1>4 DEF TypeInv, TypeOK, Moved

\* TypeCorrect: every variable stays in its type, for all values of the limits.
THEOREM TypeCorrect == Spec => []TypeOK
<1>1. TypeInv => TypeOK
  BY DEF TypeInv
<1> QED BY <1>1, InitTypeInv, NextTypeInv, PTL DEF Spec

\* Nobody comes past the GET of checkImgCaptcha and no captcha is given out.
LEMMA CaptchaKept ==
  ASSUME TypeInv, CaptchaInv, Moved, UNCHANGED unused,
         \A i \in Ids : img[i] = None => img'[i] = None,
         \A r \in Requests : req'[r].at \in PastGet => req'[r].at = req[r].at
  PROVE  CaptchaInv'
<1>1. \A r \in Requests : req'[r].at \in PastGet =>
         /\ req[r].at = req'[r].at /\ req'[r].id = req[r].id
         /\ req'[r].before = req[r].before /\ req[r].id \in Ids
  BY DEF Moved, Comes, MovesOn, PastGet, TypeInv, RequestOK, LoginStages
<1>2. \A i \in unused' : img'[i] = None
  BY DEF CaptchaInv, TypeInv, TypeOK
<1> QED BY <1>1, <1>2 DEF CaptchaInv, PastGet, At

LEMMA NextCaptchaInv ==
  ASSUME TypeInv, DoneBefore, CaptchaInv, [Next]_vars
  PROVE  CaptchaInv'
<1> USE DEF redisKeys
<1>0. /\ Moved /\ TypeInv'
      /\ \A r \in Requests : req[r].at \in LoginStages => req[r].id \in Ids /\ req[r].code \in Codes
  BY NextTypeInv DEF TypeInv, RequestOK
<1>1. CASE \E r \in Requests : CheckImgCaptcha(r)
  <2> PICK r \in Requests : CheckImgCaptcha(r)
    BY <1>1
  <2>1. /\ req[r].at = "get" /\ req[r].id \in Ids /\ req[r].code \in Codes
        /\ UNCHANGED <<img, unused>>
    BY <1>0 DEF CheckImgCaptcha, At, LoginStages
  <2>2. CASE img[req[r].id] = req[r].code
    <3>1. /\ req'[r].at = "del" /\ req'[r].id = req[r].id /\ req'[r].before = req[r].before
          /\ \A s \in Requests \ {r} : req'[s] = req[s]
      BY <2>1, <2>2 DEF CheckImgCaptcha, Goto, TypeInv, TypeOK, Request
    <3>2. img[req[r].id] # None /\ req[r].id \notin unused
      BY <2>1, <2>2, NoneDiffers DEF CaptchaInv
    <3>3. \A s \in Requests : At(s, "passed") => req[s].id # req[r].id
      BY <3>2 DEF CaptchaInv
    <3> QED BY <2>1, <3>1, <3>2, <3>3 DEF CaptchaInv, PastGet, At
  <2>3. CASE img[req[r].id] # req[r].code
    <3>1. /\ req'[r].at = "over"
          /\ \A s \in Requests \ {r} : req'[s] = req[s]
      BY <2>1, <2>3 DEF CheckImgCaptcha, Goto, TypeInv, TypeOK, Request
    <3> QED BY <1>0, <2>1, <3>1, CaptchaKept DEF PastGet
  <2> QED BY <2>2, <2>3
<1>2. CASE \E r \in Requests : DelImgCaptcha(r)
  <2> PICK r \in Requests : DelImgCaptcha(r)
    BY <1>2
  <2>1. /\ req[r].at = "del" /\ req[r].id \in Ids
        /\ req'[r].at = "passed" /\ req'[r].id = req[r].id /\ req'[r].before = req[r].before
        /\ \A s \in Requests \ {r} : req'[s] = req[s]
    BY <1>0 DEF DelImgCaptcha, At, Goto, TypeInv, TypeOK, Request, LoginStages
  <2>2. /\ UNCHANGED unused /\ img'[req[r].id] = None
        /\ \A i \in Ids : i # req[r].id => img'[i] = img[i]
    BY <2>1 DEF DelImgCaptcha, TypeInv, TypeOK
  <2>3. \A s \in Requests : r \notin req[s].before
    BY <2>1 DEF DoneBefore, Answered
  <2>4. \A s \in Requests : At(s, "passed") => req[s].id \in Ids
    BY <1>0 DEF At, LoginStages
  <2> QED BY <2>1, <2>2, <2>3, <2>4 DEF CaptchaInv, PastGet, At, TypeInv, TypeOK
<1>3. CASE \E i \in Ids, text \in Codes : CaptchaByImg(i, text)
  <2> PICK i \in Ids, text \in Codes : CaptchaByImg(i, text)
    BY <1>3
  <2>1. /\ i \in unused /\ unused' = unused \ {i} /\ UNCHANGED req
        /\ \A k \in Ids : k # i => img'[k] = img[k]
    BY DEF CaptchaByImg, TypeInv, TypeOK
  <2>2. \A s \in Requests : At(s, "passed") => req[s].id \in Ids /\ req[s].id # i
    BY <1>0, <2>1 DEF At, LoginStages, CaptchaInv, PastGet
  <2> QED BY <2>1, <2>2 DEF CaptchaInv, PastGet, At, TypeInv, TypeOK
<1>4. CASE ~ \/ \E r \in Requests : CheckImgCaptcha(r) \/ DelImgCaptcha(r)
             \/ \E i \in Ids, text \in Codes : CaptchaByImg(i, text)
  <2>1. UNCHANGED unused /\ \A i \in Ids : img[i] = None => img'[i] = None
    BY <1>4 DEF Next, vars, CaptchaExpires, LoginComes, SendEmailCode, LoginStep, MailStep,
       CheckIp, CheckMail, CheckDay, SendVerificationCode, LogCode, LogIp, LogMail, LimitKey,
       LogDay, Fail, Restart, Tick, TypeInv, TypeOK
  <2>2. \A r \in Requests : req'[r].at \in PastGet => req'[r].at = req[r].at
    <3>1. CASE Restart
      BY <3>1 DEF Restart, PastGet, TypeInv, TypeOK, Request
    <3>2. ASSUME NEW r \in Requests, MailStep(r) \/ Fail(r)
          PROVE  \A s \in Requests : req'[s].at \in PastGet => req'[s].at = req[s].at
      <4>1. \/ \E st \in Stages \ PastGet : Goto(r, st)
            \/ req' = [req EXCEPT ![r].at = "code", ![r].sent = now]
        BY <3>2 DEF MailStep, CheckIp, CheckMail, CheckDay, SendVerificationCode, LogCode, LogIp,
           LogMail, LimitKey, LogDay, Fail, Stages, PastGet
      <4> QED BY <4>1 DEF Goto, PastGet, TypeInv, TypeOK, Request
    <3>3. CASE UNCHANGED req
      BY <3>3
    <3>4. ASSUME NEW r \in Requests,
                 \/ \E i \in Ids, answer \in Codes : LoginComes(r, i, answer)
                 \/ \E m \in Mails, i \in Ips : SendEmailCode(r, m, i)
          PROVE  \A s \in Requests : req'[s].at \in PastGet => req'[s].at = req[s].at
      <4>1. At(r, "new") /\ \A s \in Requests \ {r} : req'[s] = req[s]
        BY <3>4 DEF LoginComes, SendEmailCode, TypeInv, TypeOK
      <4>2. req'[r] = req[r] \/ req'[r].at \in {"get", "ip", "over"}
        BY <1>0, <4>1 DEF Moved, Comes, MovesOn, At
      <4> QED BY <4>1, <4>2 DEF PastGet
    <3> QED BY <1>4, <3>1, <3>2, <3>3, <3>4 DEF Next, LoginStep, Tick, CaptchaExpires, vars
  <2> QED BY <1>0, <2>1, <2>2, CaptchaKept
<1> QED BY <1>1, <1>2, <1>3, <1>4

LEMMA InitCaptchaInv == Init => CaptchaInv
  BY DEF Init, CaptchaInv, NewRequest, PastGet, At

\* OneCaptcha: CaptchaOnce holds for any number of logins and captchas.
THEOREM OneCaptcha == Spec => []CaptchaOnce
<1>1. CaptchaInv => CaptchaOnce
  BY DEF CaptchaInv, CaptchaOnce, Overlap, PastGet, At
<1>2. TypeInv /\ DoneBefore /\ CaptchaInv /\ [Next]_vars => TypeInv' /\ DoneBefore' /\ CaptchaInv'
  BY NextTypeInv, NextCaptchaInv
<1> QED BY <1>1, <1>2, InitTypeInv, InitCaptchaInv, PTL DEF Spec

LEMMA InitGapInv == Init => GapInv
  BY DEF Init, GapInv, NewRequest, Timed, Apart, At

\* The values that the times are made of.
LEMMA Times ==
  ASSUME TypeInv
  PROVE  /\ now \in Nat /\ Minute \in Nat
         /\ \A k \in Mails \cup Ips : minute[k] \in Nat /\ minute[k] <= Minute
         /\ \A r \in Requests :
               /\ req[r].at \in SentStages => req[r].sent \in Nat
               /\ req[r].sent # None => req[r].sent \in Nat
               /\ req[r].at \in MailStages => req[r].mail \in Mails /\ req[r].ip \in Ips
  BY LimitsAreNat DEF TypeInv, TypeOK, RequestOK

LEMMA LaterStill ==
  ASSUME NEW a \in Nat, NEW b \in Nat, NEW c \in Nat, NEW d \in Nat, NEW e \in Nat,
         a + b >= d + e, c >= b
  PROVE  a + c >= d + e
  OBVIOUS

\* Only r0, which is not done, has moved, and no minute was cut short.
LEMMA GapOne ==
  ASSUME NEW r0 \in Requests, TypeInv, TypeInv', DoneBefore, GapInv, Moved, UNCHANGED now,
         \A k \in Mails \cup Ips : minute'[k] >= minute[k],
         req[r0].at \notin DoneStages,
         \A r \in Requests \ {r0} : req'[r] = req[r],
         Timed(r0)',
         \A r \in Requests \ {r0} :
            At(r, "logged") /\ r \in req'[r0].before => Apart(r, r0)'
  PROVE  GapInv'
<1>1. ASSUME NEW r \in Requests, r # r0
      PROVE  Timed(r)'
  <2>1. Timed(r) /\ req'[r] = req[r]
    BY <1>1 DEF GapInv
  <2>2. ASSUME NEW k \in Mails \cup Ips, Guards(k, r), req[r].sent \in Nat
        PROVE  Guards(k, r)'
    <3>1. now + minute'[k] >= req[r].sent + Minute
      BY <2>2, Times, LaterStill DEF Guards, TypeInv, TypeOK
    <3> QED BY <2>1, <3>1 DEF Guards
  <2>3. CASE req[r].at \in {"limitMail", "readDay", "logged"}
    <3>1. req[r].sent \in Nat /\ req[r].mail \in Mails /\ req[r].ip \in Ips
      BY <2>3, Times DEF SentStages, MailStages
    <3>2. Guards(req[r].ip, r)'
      BY <2>1, <2>2, <2>3, <3>1 DEF Timed
    <3>3. req[r].at \in {"readDay", "logged"} => Guards(req[r].mail, r)'
      BY <2>1, <2>2, <3>1 DEF Timed
    <3> QED BY <2>1, <3>2, <3>3 DEF Timed, Guards
  <2>4. CASE req[r].at \notin {"limitMail", "readDay", "logged"}
    BY <2>1, <2>4 DEF Timed
  <2> QED BY <2>3, <2>4
<1>2. ASSUME NEW r \in Requests, NEW s \in Requests, At(r, "logged")', r \in req'[s].before
      PROVE  Apart(r, s)'
  <2>1. CASE s = r0
    <3>1. req'[r0].before \subseteq Answered /\ r0 \notin Answered
      BY DEF Moved, Comes, MovesOn, DoneBefore, Answered, DoneStages
    <3>2. r # r0 /\ r \in req'[r0].before
      BY <1>2, <2>1, <3>1
    <3>3. Apart(r, r0)'
      BY <1>2, <3>2 DEF At
    <3> QED BY <2>1, <3>3 DEF Apart, MinuteOver
  <2>2. CASE s # r0
    <3>1. r # r0
      BY <1>2, <2>2 DEF DoneBefore, Answered, DoneStages
    <3>2. Apart(r, s)
      BY <1>2, <2>2, <3>1 DEF GapInv, At
    <3> QED BY <2>2, <3>1, <3>2 DEF Apart, MinuteOver
  <2> QED BY <2>1, <2>2
<1> QED BY <1>1, <1>2 DEF GapInv

LogStages == {"limitMail", "readDay", "logged"}

\* r0 goes on to another stage with what it has.
LEMMA GapGoesOn ==
  ASSUME NEW r0 \in Requests, NEW stage, TypeInv, TypeInv', DoneBefore, GapInv, Moved,
         UNCHANGED now, Goto(r0, stage),
         \A k \in Mails \cup Ips : minute'[k] >= minute[k],
         req[r0].at \notin DoneStages,
         stage \in LogStages => now + minute'[req[r0].ip] >= req[r0].sent + Minute,
         stage \in LogStages \ {"limitMail"} =>
            now + minute'[req[r0].mail] >= req[r0].sent + Minute,
         \A r \in Requests :
            At(r, "logged") /\ r \in req[r0].before =>
               /\ req[r].ip = req[r0].ip /\ stage \in {"mail", "day", "send"} => MinuteOver(r)
               /\ req[r].mail = req[r0].mail /\ stage \in {"day", "send"} => MinuteOver(r)
  PROVE  GapInv'
<1>1. /\ req'[r0].at = stage /\ req'[r0].ip = req[r0].ip /\ req'[r0].mail = req[r0].mail
      /\ req'[r0].sent = req[r0].sent /\ req'[r0].before = req[r0].before
      /\ \A r \in Requests \ {r0} : req'[r] = req[r]
  BY DEF Goto, TypeInv, TypeOK, Request
<1>2. Timed(r0)'
  <2>1. req[r0].sent # None => req[r0].sent <= now
    BY DEF GapInv, Timed
  <2> QED BY <1>1, <2>1 DEF Timed, Guards, LogStages
<1>3. ASSUME NEW r \in Requests \ {r0}, At(r, "logged"), r \in req'[r0].before
      PROVE  Apart(r, r0)'
  <2>1. Apart(r, r0) /\ req'[r] = req[r]
    BY <1>1, <1>3 DEF GapInv
  <2>2. (req[r].ip = req[r0].ip /\ stage \in {"mail", "day", "send"} => MinuteOver(r))
        /\ (req[r].mail = req[r0].mail /\ stage \in {"day", "send"} => MinuteOver(r))
    BY <1>1, <1>3
  <2> QED BY <1>1, <2>1, <2>2 DEF Apart, MinuteOver
<1> QED BY <1>1, <1>2, <1>3, GapOne

\* The requests whose mail step by step is checked: what is known of the minute
\* of another one, logged before, once its key is no longer there.
LEMMA KeyGone ==
  ASSUME NEW r \in Requests, NEW k, TypeInv, GapInv, At(r, "logged"),
         k = req[r].ip \/ k = req[r].mail, ~(minute[k] > 0)
  PROVE  MinuteOver(r)
<1>1. Guards(k, r)
  BY DEF GapInv, Timed, At
<1>2. k \in Mails \cup Ips /\ req[r].sent \in Nat
  BY Times DEF At, SentStages, MailStages
<1>3. minute[k] = 0
  BY <1>2, Times
<1>4. now + 0 = now
  BY Times
<1> QED BY <1>1, <1>3, <1>4 DEF Guards, MinuteOver

\* One step of a request that is not done, other than the mail being sent.
LEMMA StageGapInv ==
  ASSUME NEW r0 \in Requests, TypeInv, TypeInv', DoneBefore, GapInv, Moved,
         LoginStep(r0) \/ MailStep(r0) \/ Fail(r0), ~SendVerificationCode(r0)
  PROVE  GapInv'
<1> USE DEF At, LogStages, DoneStages
<1>0. \A k \in Mails \cup Ips : minute[k] \in Nat /\ minute[k] <= Minute /\ minute[k] >= minute[k]
  BY Times
<1>1. CASE LoginStep(r0) \/ LogCode(r0) \/ Fail(r0)
  <2>1. PICK stage \in {"del", "over", "passed", "limitIp"} : Goto(r0, stage)
    BY <1>1 DEF LoginStep, CheckImgCaptcha, DelImgCaptcha, LogCode, Fail
  <2>2. UNCHANGED <<minute, now>> /\ req[r0].at \notin DoneStages
    BY <1>1 DEF LoginStep, CheckImgCaptcha, DelImgCaptcha, LogCode, Fail, redisKeys
  <2> QED BY <1>0, <2>1, <2>2, GapGoesOn
<1>2. CASE CheckIp(r0) \/ CheckMail(r0) \/ CheckDay(r0)
  <2>1. UNCHANGED <<minute, now>> /\ req[r0].at \in {"ip", "mail", "day"}
    BY <1>2 DEF CheckIp, CheckMail, CheckDay, redisKeys
  <2>2. \A r \in Requests : At(r, "logged") /\ r \in req[r0].before => Apart(r, r0)
    BY DEF GapInv
  <2>3. CASE Goto(r0, "over")
    BY <1>0, <2>1, <2>3, GapGoesOn
  <2>4. CASE CheckIp(r0) /\ ~Goto(r0, "over")
    <3>1. Goto(r0, "mail") /\ ~(minute[req[r0].ip] > 0)
      BY <2>4 DEF CheckIp
    <3>2. \A r \in Requests : At(r, "logged") /\ req[r].ip = req[r0].ip => MinuteOver(r)
      BY <3>1, KeyGone
    <3> QED BY <1>0, <2>1, <3>1, <3>2, GapGoesOn
  <2>5. CASE CheckMail(r0) /\ ~Goto(r0, "over")
    <3>1. Goto(r0, "day") /\ ~(minute[req[r0].mail] > 0) /\ req[r0].at = "mail"
      BY <2>5 DEF CheckMail
    <3>2. \A r \in Requests : At(r, "logged") /\ req[r].mail = req[r0].mail => MinuteOver(r)
      BY <3>1, KeyGone
    <3>3. \A r \in Requests : At(r, "logged") /\ r \in req[r0].before /\ req[r].ip = req[r0].ip
                               => MinuteOver(r)
      BY <2>2, <3>1 DEF Apart
    <3> QED BY <1>0, <2>1, <3>1, <3>2, <3>3, GapGoesOn
  <2>6. CASE CheckDay(r0) /\ ~Goto(r0, "over")
    <3>1. Goto(r0, "send") /\ req[r0].at = "day"
      BY <2>6 DEF CheckDay
    <3>2. \A r \in Requests :
            At(r, "logged") /\ r \in req[r0].before =>
               /\ req[r].ip = req[r0].ip => MinuteOver(r)
               /\ req[r].mail = req[r0].mail => MinuteOver(r)
      BY <2>2, <3>1 DEF Apart
    <3> QED BY <1>0, <2>1, <3>1, <3>2, GapGoesOn
  <2> QED BY <1>2, <2>3, <2>4, <2>5, <2>6
<1>3. ASSUME NEW k, req[r0].sent <= now, k = req[r0].ip \/ k = req[r0].mail,
             minute' = [minute EXCEPT ![k] = Minute],
             req[r0].at \in {"limitIp", "limitMail"}
      PROVE  /\ now + minute'[k] >= req[r0].sent + Minute
             /\ \A m \in Mails \cup Ips : minute'[m] >= minute[m]
  <2>1. k \in Mails \cup Ips /\ req[r0].sent \in Nat
    BY <1>3, Times DEF SentStages, MailStages
  <2>2. minute'[k] = Minute
    BY <1>3, <2>1 DEF TypeInv, TypeOK
  <2>3. \A m \in Mails \cup Ips : m # k => minute'[m] = minute[m]
    BY <1>3, <2>1 DEF TypeInv, TypeOK
  <2>4. now + Minute >= req[r0].sent + Minute
    BY <1>3, <2>1, Times
  <2> QED BY <1>0, <2>1, <2>2, <2>3, <2>4
<1>4. req[r0].at \in SentStages => req[r0].sent # None /\ req[r0].sent <= now
  BY Times, NoneDiffers DEF GapInv, Timed
<1>5. CASE LogIp(r0)
  <2>1. /\ req[r0].at = "limitIp" /\ Goto(r0, "limitMail") /\ UNCHANGED now
        /\ minute' = [minute EXCEPT ![req[r0].ip] = Minute]
    BY <1>5 DEF LogIp, LimitKey
  <2>2. /\ now + minute'[req[r0].ip] >= req[r0].sent + Minute
        /\ \A m \in Mails \cup Ips : minute'[m] >= minute[m]
    BY <1>3, <1>4, <2>1 DEF SentStages
  <2> QED BY <2>1, <2>2, GapGoesOn
<1>6. CASE LogMail(r0)
  <2>1. /\ req[r0].at = "limitMail" /\ Goto(r0, "readDay") /\ UNCHANGED now
        /\ minute' = [minute EXCEPT ![req[r0].mail] = Minute]
    BY <1>6 DEF LogMail, LimitKey
  <2>2. /\ now + minute'[req[r0].mail] >= req[r0].sent + Minute
        /\ \A m \in Mails \cup Ips : minute'[m] >= minute[m]
    BY <1>3, <1>4, <2>1 DEF SentStages
  <2>3. Guards(req[r0].ip, r0) /\ req[r0].ip \in Ips /\ req[r0].sent \in Nat
    BY <2>1, Times DEF GapInv, Timed, SentStages, MailStages
  <2>4. minute'[req[r0].ip] \in Nat
    BY <2>3 DEF TypeInv, TypeOK
  <2>5. now + minute'[req[r0].ip] >= req[r0].sent + Minute
    BY <2>2, <2>3, <2>4, <1>0, Times, LaterStill DEF Guards
  <2> QED BY <2>1, <2>2, <2>5, GapGoesOn
<1>7. CASE LogDay(r0)
  <2>1. req[r0].at = "readDay" /\ Goto(r0, "logged") /\ UNCHANGED <<now, minute>>
    BY <1>7 DEF LogDay
  <2>2. Guards(req[r0].ip, r0) /\ Guards(req[r0].mail, r0)
    BY <2>1 DEF GapInv, Timed
  <2> QED BY <1>0, <2>1, <2>2, GapGoesOn DEF Guards
<1> QED BY <1>1, <1>2, <1>5, <1>6, <1>7 DEF MailStep

LEMMA SendGapInv ==
  ASSUME NEW r0 \in Requests, TypeInv, TypeInv', DoneBefore, GapInv, Moved,
         SendVerificationCode(r0)
  PROVE  GapInv'
<1>1. /\ req[r0].at = "send" /\ req'[r0] = [req[r0] EXCEPT !.at = "code", !.sent = now]
      /\ UNCHANGED <<minute, now>> /\ req[r0] \in Request
      /\ \A r \in Requests \ {r0} : req'[r] = req[r]
  BY SendMoved DEF SendVerificationCode, At, redisKeys, TypeInv, TypeOK
<1>2. /\ req'[r0].at = "code" /\ req'[r0].sent = now /\ req'[r0].mail = req[r0].mail
      /\ req'[r0].ip = req[r0].ip /\ req'[r0].before = req[r0].before
  BY <1>1 DEF Request
<1>3. Timed(r0)'
  BY <1>1, <1>2, Times DEF Timed
<1>4. ASSUME NEW r \in Requests \ {r0}, At(r, "logged"), r \in req'[r0].before
      PROVE  Apart(r, r0)'
  <2>1. Apart(r, r0) /\ req'[r] = req[r]
    BY <1>1, <1>2, <1>4 DEF GapInv
  <2>2. req[r].mail = req[r0].mail \/ req[r].ip = req[r0].ip => now >= req[r].sent + Minute
    BY <1>1, <2>1 DEF Apart, MinuteOver
  <2> QED BY <1>1, <1>2, <2>1, <2>2 DEF Apart
<1>5. \A k \in Mails \cup Ips : minute'[k] >= minute[k]
  BY <1>1, Times
<1> QED BY <1>1, <1>3, <1>4, <1>5, GapOne DEF DoneStages

LEMMA ComeGapInv ==
  ASSUME NEW r0 \in Requests, TypeInv, TypeInv', DoneBefore, GapInv, Moved,
         \/ \E i \in Ids, answer \in Codes : LoginComes(r0, i, answer)
         \/ \E m \in Mails, i \in Ips : SendEmailCode(r0, m, i)
  PROVE  GapInv'
<1>1. /\ req[r0].at = "new" /\ UNCHANGED <<minute, now>>
      /\ \A r \in Requests \ {r0} : req'[r] = req[r]
  BY DEF LoginComes, SendEmailCode, At, redisKeys, TypeInv, TypeOK
<1>2. req'[r0] = req[r0] \/ (req'[r0].at \in {"get", "ip", "over"} /\ req'[r0].sent = None)
  BY <1>1 DEF Moved, Comes, MovesOn
<1>3. \A k \in Mails \cup Ips : minute'[k] >= minute[k]
  BY <1>1, Times
<1>4. CASE req'[r0] = req[r0]
  BY <1>1, <1>4 DEF GapInv, Timed, Apart, Guards, MinuteOver, At
<1>5. CASE req'[r0].at \in {"get", "ip", "over"} /\ req'[r0].sent = None
  <2>1. Timed(r0)'
    BY <1>5 DEF Timed
  <2>2. \A r \in Requests : Apart(r, r0)'
    BY <1>5 DEF Apart
  <2> QED BY <1>1, <1>3, <2>1, <2>2, GapOne DEF DoneStages
<1> QED BY <1>2, <1>4, <1>5

LEMMA RestartGapInv ==
  ASSUME TypeInv, DoneBefore, GapInv, Restart
  PROVE  GapInv'
<1>1. UNCHANGED <<minute, now>>
  BY DEF Restart, redisKeys
<1>2. ASSUME NEW r \in Requests
      PROVE  \/ req'[r] = req[r]
             \/ /\ req'[r].at = "over" /\ req'[r].sent = req[r].sent /\ req'[r].ip = req[r].ip
                /\ req'[r].mail = req[r].mail /\ req'[r].before = req[r].before
  BY DEF Restart, TypeInv, TypeOK, Request
<1>3. \A r \in Requests : Timed(r)'
  BY <1>1, <1>2 DEF GapInv, Timed, Guards
<1>4. ASSUME NEW r \in Requests, NEW s \in Requests, At(r, "logged")', r \in req'[s].before
      PROVE  Apart(r, s)'
  <2>1. req'[r] = req[r] /\ At(r, "logged") /\ r \in req[s].before
    BY <1>2, <1>4 DEF At
  <2>2. Apart(r, s)
    BY <2>1 DEF GapInv
  <2> QED BY <1>1, <1>2, <2>1, <2>2 DEF Apart, MinuteOver
<1> QED BY <1>3, <1>4 DEF GapInv

\* A tick takes from a key what it adds to the clock, and no more.
LEMMA TickTimes ==
  ASSUME NEW n \in Nat, NEW m \in Nat, NEW a \in Nat, NEW b \in Nat
  PROVE  /\ a <= n => a <= n + 1
         /\ n >= a + b => n + 1 >= a + b
         /\ n + m >= a + b => (n + 1) + Less(m) >= a + b
  BY DEF Less

LEMMA TickGapInv ==
  ASSUME TypeInv, GapInv, Tick
  PROVE  GapInv'
<1>1. /\ UNCHANGED req /\ now' = now + 1
      /\ \A k \in Mails \cup Ips : minute'[k] = Less(minute[k])
  BY DEF Tick
<1>2. ASSUME NEW r \in Requests
      PROVE  Timed(r)'
  <2>0. Timed(r)
    BY DEF GapInv
  <2>1. CASE req[r].sent = None
    <3>1. req[r].at \notin LogStages
      BY <2>1, Times, NoneDiffers DEF SentStages, LogStages
    <3> QED BY <1>1, <2>1, <3>1 DEF Timed, LogStages
  <2>2. CASE req[r].sent # None
    <3>1. req[r].sent \in Nat /\ now \in Nat /\ Minute \in Nat
      BY <2>2, Times
    <3>2. ASSUME NEW k \in Mails \cup Ips, Guards(k, r)
          PROVE  (now + 1) + Less(minute[k]) >= req[r].sent + Minute
      <4>1. minute[k] \in Nat
        BY Times
      <4> QED BY <3>1, <3>2, <4>1, TickTimes DEF Guards
    <3>3. req[r].at \in LogStages => req[r].ip \in Ips /\ req[r].mail \in Mails
      BY Times DEF LogStages, SentStages, MailStages
    <3>4. req[r].at \in LogStages => Guards(req[r].ip, r)'
      BY <1>1, <2>0, <3>2, <3>3 DEF Timed, Guards, LogStages
    <3>5. req[r].at \in {"readDay", "logged"} => Guards(req[r].mail, r)'
      BY <1>1, <2>0, <3>2, <3>3 DEF Timed, Guards, LogStages
    <3>6. req[r].sent <= now + 1
      BY <2>0, <2>2, <3>1, TickTimes DEF Timed
    <3> QED BY <1>1, <3>4, <3>5, <3>6 DEF Timed, LogStages
  <2> QED BY <2>1, <2>2
<1>3. ASSUME NEW r \in Requests, NEW s \in Requests, At(r, "logged"), r \in req[s].before
      PROVE  Apart(r, s)'
  <2>1. Apart(r, s) /\ req[r].sent \in Nat /\ now \in Nat /\ Minute \in Nat
    BY <1>3, Times DEF GapInv, At, SentStages
  <2>2. MinuteOver(r) => now + 1 >= req[r].sent + Minute
    BY <2>1, TickTimes DEF MinuteOver
  <2> QED BY <1>1, <2>1, <2>2 DEF Apart, MinuteOver
<1> QED BY <1>1, <1>2, <1>3 DEF GapInv, At

LEMMA NextGapInv ==
  ASSUME TypeInv, DoneBefore, GapInv, [Next]_vars
  PROVE  GapInv'
<1>1. TypeInv' /\ Moved
  BY NextTypeInv
<1>2. CASE \/ \E i \in Ids : CaptchaExpires(i) \/ \E text \in Codes : CaptchaByImg(i, text)
           \/ UNCHANGED vars
  <2>1. UNCHANGED <<req, minute, now>>
    BY <1>2 DEF CaptchaExpires, CaptchaByImg, vars, redisKeys
  <2> QED BY <2>1 DEF GapInv, Timed, Apart, Guards, MinuteOver, At
<1> QED BY <1>1, <1>2, StageGapInv, SendGapInv, ComeGapInv, RestartGapInv, TickGapInv DEF Next

\* MinuteBetween: MinuteGap holds for any number of requests, addresses and ips
\* and any length of the minute.
THEOREM MinuteBetween == Spec => []MinuteGap
<1>1. TypeInv /\ GapInv => MinuteGap
  BY DEF GapInv, Apart, MinuteGap
<1>2. TypeInv /\ DoneBefore /\ GapInv /\ [Next]_vars => TypeInv' /\ DoneBefore' /\ GapInv'
  BY NextTypeInv, NextGapInv
<1> QED BY <1>1, <1>2, InitTypeInv, InitGapInv, PTL DEF Spec
=============================================================================
