--------------------------- MODULE SessionsProofs -----------------------------
(***************************************************************************)
(* Signing in for any number of browsers, accounts and requests, any       *)
(* difference of the clocks and any lifetimes of cookies and sessions.     *)
(***************************************************************************)
EXTENDS Sessions, TLAPS

\* The states a browser was handed, those on their way to it included.
Handed(b) ==
  atGoogle[b] \cup
    {s \in States : \E r \in Requests : answer[r].state = s
                                        /\ arg[r].browser = b}

\* A state is handed to one browser; the state cookie and the codes carry
\* states that were followed to Google.
StatesOK ==
  /\ \A b \in Browsers : Handed(b) \subseteq drawn
  /\ \A b, c \in Browsers : b # c => Handed(b) \cap Handed(c) = {}
  /\ \A b \in Browsers :
       stateCookie[b].value # NoValue => stateCookie[b].value \in atGoogle[b]
  /\ \A code \in consents : code.state \in atGoogle[code.browser]

\* What a request relies on between two steps.
RequestOK(r) ==
  /\ pc[r] # "answered" => answer[r] = NoAnswer
  /\ pc[r] # "idle" => arg[r].browser \in Browsers
  /\ pc[r] \in Login =>
       /\ arg[r].code \in consents
       /\ arg[r].code.browser = arg[r].browser
  /\ pc[r] \in {"upsert", "insert"} => arg[r].account = arg[r].code.account
  /\ pc[r] = "insert" =>
       \E t \in Clock : t <= now /\ arg[r].until = t + Skew + SessionTTL
  /\ pc[r] \in {"logout", "auth"} => arg[r].token \in Tokens
  /\ pc[r] = "acting" => arg[r].account \in Accounts

RequestsOK == \A r \in Requests : RequestOK(r)

\* A token in the hands of b that stands for an account signed in to in b.
Earned(b, t) ==
  /\ t \in drawn
  /\ sessions[t] # NoSession =>
       \E s \in States :
         [browser |-> b, state |-> s, account |-> sessions[t].user] \in consents

TokensOK ==
  /\ \A t \in Tokens : sessions[t] # NoSession => t \in drawn
  /\ \A b \in Browsers :
       sessionCookie[b].value # NoValue => Earned(b, sessionCookie[b].value)
  /\ \A r \in Requests :
       answer[r].session \in Tokens => Earned(arg[r].browser, answer[r].session)

IInv == TypeOK /\ StatesOK /\ RequestsOK /\ TokensOK

-----------------------------------------------------------------------------
(* Helpers.                                                                *)

\* The records requests start from have their types.
LEMMA ConstantTypes ==
  /\ NoArg \in Args
  /\ NoAnswer \in Answers
  /\ NoAnswer.state \notin States
  /\ NoAnswer.session \notin Tokens
  /\ NoCookie \in Cookies(States)
  /\ NoCookie \in Cookies(Tokens)
BY SessionsAssumption DEF NoArg, Args, NoAnswer, Answers, NoCookie, Cookies

\* An answer sets a cookie to its value or keeps it.
LEMMA StoredValue ==
  ASSUME NEW c, NEW v, NEW n
  PROVE  /\ v = Keep => Stored(c, v, n) = c
         /\ v # Keep => Stored(c, v, n).value = v
BY SessionsAssumption DEF Stored, NoCookie

\* A stored cookie is one of the values it could be set to.
LEMMA StoredType ==
  ASSUME NEW V, NEW c \in Cookies(V), NEW v \in V \cup {NoValue, Keep},
         NEW n \in Nat, now \in Int, Keep \notin V \cup {NoValue}
  PROVE  Stored(c, v, n) \in Cookies(V)
<1>1. CASE v = Keep
  BY <1>1 DEF Stored
<1>2. CASE v = NoValue
  BY <1>2, NoValue # Keep DEF Stored, Cookies, NoCookie
<1>3. CASE v \notin {NoValue, Keep}
  <2>1. Stored(c, v, n) = [value |-> v, until |-> now + n]
    BY <1>3 DEF Stored
  <2>2. now + n \in Int
    OBVIOUS
  <2>3. QED
    BY <1>3, <2>1, <2>2 DEF Cookies
<1>4. QED
  BY <1>1, <1>2, <1>3

\* A cookie that is sent has been stored.
LEMMA SentStored ==
  ASSUME NEW c
  PROVE  Sent(c) # NoValue => Sent(c) = c.value
BY DEF Sent

\* Types at the start.
LEMMA InitIInv == Init => IInv
<1> SUFFICES ASSUME Init PROVE IInv
  OBVIOUS
<1> USE ConstantTypes
<1>1. TypeOK
  BY DEF Init, TypeOK, Busy
<1>2. StatesOK
  BY <1>1 DEF Init, StatesOK, Handed, NoCookie
<1>3. RequestsOK
  BY DEF Init, RequestsOK, RequestOK, Login
<1>4. TokensOK
  BY DEF Init, TokensOK, NoCookie
<1>5. QED
  BY <1>1, <1>2, <1>3, <1>4 DEF IInv

-----------------------------------------------------------------------------
(* Types are kept.                                                         *)

\* What the steps of requests do to requests.
ControlOK ==
  /\ pc \in [Requests -> Busy \cup {"idle", "answered"}]
  /\ arg \in [Requests -> Args]
  /\ answer \in [Requests -> Answers]

LEMMA BeginType ==
  ASSUME TypeOK, NEW r \in Requests, NEW st \in Busy, NEW a \in Args,
         Begin(r, st, a)
  PROVE  ControlOK'
BY DEF Begin, ControlOK, TypeOK

LEMMA GotoType ==
  ASSUME TypeOK, NEW r \in Requests, NEW st \in Busy, NEW a \in Args,
         Goto(r, st, a)
  PROVE  ControlOK'
BY DEF Goto, ControlOK, TypeOK

LEMMA BeginAnsweredType ==
  ASSUME TypeOK, NEW r \in Requests, NEW b \in Browsers,
         NEW v \in States \cup {NoValue, Keep},
         NEW w \in Tokens \cup {NoValue, Keep},
         BeginAnswered(r, b, v, w)
  PROVE  ControlOK'
<1>1. [NoArg EXCEPT !.browser = b] \in Args
  BY ConstantTypes DEF NoArg, Args
<1>2. [state |-> v, session |-> w] \in Answers
  BY DEF Answers
<1>3. QED
  BY <1>1, <1>2 DEF BeginAnswered, ControlOK, TypeOK

LEMMA AnswerType ==
  ASSUME TypeOK, NEW r \in Requests,
         NEW v \in States \cup {NoValue, Keep},
         NEW w \in Tokens \cup {NoValue, Keep},
         Answer(r, v, w)
  PROVE  ControlOK'
<1>1. arg[r] \in Args
  BY DEF TypeOK
<1>2. [NoArg EXCEPT !.browser = arg[r].browser] \in Args
  BY <1>1, ConstantTypes DEF NoArg, Args
<1>3. [state |-> v, session |-> w] \in Answers
  BY DEF Answers
<1>4. QED
  BY <1>2, <1>3 DEF Answer, ControlOK, TypeOK

LEMMA EndType ==
  ASSUME TypeOK, NEW r \in Requests, End(r)
  PROVE  ControlOK'
BY ConstantTypes DEF End, ControlOK, TypeOK

\* A login that failed is answered.
LEMMA LoginFailedType ==
  ASSUME TypeOK, NEW r \in Requests, LoginFailed(r)
  PROVE  ControlOK' /\ UNCHANGED <<now, browser>>
BY AnswerType DEF LoginFailed, Answer

\* Every step keeps the types.
LEMMA StepTypeOK ==
  ASSUME IInv, [Next]_vars
  PROVE  TypeOK'
<1> USE DEF IInv
<1> SUFFICES /\ now' \in Clock
             /\ users' \subseteq Accounts
             /\ sessions' \in [Tokens -> SessionRows \cup {NoSession}]
             /\ drawn' \subseteq States \cup Tokens
             /\ stateCookie' \in [Browsers -> Cookies(States)]
             /\ sessionCookie' \in [Browsers -> Cookies(Tokens)]
             /\ atGoogle' \in [Browsers -> SUBSET States]
             /\ consents' \subseteq Codes
             /\ unspent' \subseteq consents'
             /\ ControlOK'
  BY DEF TypeOK, ControlOK
<1>0. CASE UNCHANGED vars
  BY <1>0 DEF vars, server, browser, google, TypeOK, ControlOK
<1>1. CASE Tick
  BY <1>1 DEF Tick, server, browser, google, TypeOK, ControlOK
<1>2. CASE Consent
  BY <1>2 DEF Consent, Codes, server, browser, TypeOK, ControlOK
<1>3. ASSUME NEW r \in Requests, StartLogin(r) PROVE TypeOK'
  <2>1. PICK b \in Browsers, s \in States \ drawn :
          BeginAnswered(r, b, s, Keep) /\ drawn' = drawn \cup {s}
    BY <1>3 DEF StartLogin
  <2>2. ControlOK'
    BY <2>1, BeginAnsweredType
  <2>3. QED
    BY <1>3, <2>1, <2>2 DEF StartLogin, BeginAnswered, browser, google, TypeOK, ControlOK
<1>4. ASSUME NEW r \in Requests, Callback(r) PROVE TypeOK'
  <2>1. PICK b \in Browsers, code \in consents :
          Begin(r, "exchange", [NoArg EXCEPT !.browser = b, !.code = code])
    BY <1>4 DEF Callback
  <2>2. [NoArg EXCEPT !.browser = b, !.code = code] \in Args
    BY ConstantTypes DEF NoArg, Args, TypeOK
  <2>3. ControlOK'
    BY <2>1, <2>2, BeginType DEF Busy, Login
  <2>4. QED
    BY <1>4, <2>1, <2>3 DEF Callback, Begin, server, browser, google, TypeOK, ControlOK
<1>5. ASSUME NEW r \in Requests, CallbackRefused(r) PROVE TypeOK'
  <2>1. PICK b \in Browsers : BeginAnswered(r, b, NoValue, Keep)
    BY <1>5 DEF CallbackRefused
  <2>2. ControlOK'
    BY <2>1, BeginAnsweredType
  <2>3. QED
    BY <1>5, <2>1, <2>2 DEF CallbackRefused, BeginAnswered, server, browser, google, TypeOK, ControlOK
<1>6. ASSUME NEW r \in Requests, Logout(r) \/ Page(r) PROVE TypeOK'
  <2>1. PICK b \in Browsers :
          \/ /\ Sent(sessionCookie[b]) # NoValue
             /\ \E st \in {"logout", "auth"} :
                  Begin(r, st, [NoArg EXCEPT !.browser = b,
                                             !.token = Sent(sessionCookie[b])])
          \/ BeginAnswered(r, b, Keep, NoValue)
    BY <1>6 DEF Logout, Page
  <2>2. ASSUME Sent(sessionCookie[b]) # NoValue
        PROVE  [NoArg EXCEPT !.browser = b,
                             !.token = Sent(sessionCookie[b])] \in Args
    <3>1. sessionCookie[b].value \in Tokens \cup {NoValue}
      BY DEF TypeOK, Cookies
    <3>2. Sent(sessionCookie[b]) \in Tokens
      BY <2>2, <3>1, SentStored
    <3>3. QED
      BY <3>2, ConstantTypes DEF NoArg, Args
  <2>3. ControlOK'
    BY <2>1, <2>2, BeginType, BeginAnsweredType DEF Busy
  <2>4. QED
    BY <1>6, <2>1, <2>3 DEF Logout, Page, Begin, BeginAnswered, server, browser, google, TypeOK, ControlOK
<1>7. ASSUME NEW r \in Requests, Exchange(r) PROVE TypeOK'
  <2>1. arg[r] \in Args
    BY DEF TypeOK
  <2>2. ControlOK' /\ UNCHANGED <<now, browser>>
    <3>1. Goto(r, "userinfo", arg[r]) \/ LoginFailed(r)
      BY <1>7 DEF Exchange
    <3>2. QED
      BY <2>1, <3>1, GotoType, LoginFailedType DEF Goto, Busy, Login
  <2>3. QED
    BY <1>7, <2>2 DEF Exchange, server, browser, TypeOK, ControlOK
<1>8. ASSUME NEW r \in Requests, Userinfo(r) PROVE TypeOK'
  <2>1. [arg[r] EXCEPT !.account = arg[r].code.account] \in Args
    <3>1. arg[r].code \in consents
      BY <1>8 DEF Userinfo, RequestsOK, RequestOK, Login
    <3>2. arg[r].code.account \in Accounts
      BY <3>1 DEF TypeOK, Codes
    <3>3. arg[r] \in Args
      BY DEF TypeOK
    <3>4. QED
      BY <3>2, <3>3 DEF Args
  <2>2. ControlOK' /\ UNCHANGED <<now, browser>>
    <3>1. Goto(r, "upsert", [arg[r] EXCEPT !.account = arg[r].code.account])
          \/ LoginFailed(r)
      BY <1>8 DEF Userinfo
    <3>2. QED
      BY <2>1, <3>1, GotoType, LoginFailedType DEF Goto, Busy, Login
  <2>3. QED
    BY <1>8, <2>2 DEF Userinfo, server, browser, google, TypeOK, ControlOK
<1>9. ASSUME NEW r \in Requests, Upsert(r) PROVE TypeOK'
  <2>1. now + Skew + SessionTTL \in Int
    BY SessionsAssumption DEF TypeOK
  <2>2. [arg[r] EXCEPT !.until = now + Skew + SessionTTL] \in Args
    BY <2>1 DEF TypeOK, Args
  <2>3. arg[r].account \in Accounts
    <3>1. arg[r].code \in consents /\ arg[r].account = arg[r].code.account
      BY <1>9 DEF Upsert, RequestsOK, RequestOK, Login
    <3>2. QED
      BY <3>1 DEF TypeOK, Codes
  <2>4. ControlOK' /\ UNCHANGED <<now, browser>>
    <3>1. Goto(r, "insert",
               [arg[r] EXCEPT !.until = now + Skew + SessionTTL])
          \/ LoginFailed(r)
      BY <1>9 DEF Upsert
    <3>2. QED
      BY <2>2, <3>1, GotoType, LoginFailedType DEF Goto, Busy, Login
  <2>5. QED
    BY <1>9, <2>3, <2>4 DEF Upsert, browser, google, TypeOK, ControlOK
<1>10. ASSUME NEW r \in Requests, InsertSession(r) PROVE TypeOK'
  <2>1. ControlOK' /\ UNCHANGED <<now, browser>>
    <3>1. (\E t \in Tokens : Answer(r, NoValue, t)) \/ LoginFailed(r)
      BY <1>10 DEF InsertSession
    <3>2. QED
      BY <3>1, AnswerType, LoginFailedType DEF Answer
  <2>2. [user |-> arg[r].account, expiresAt |-> arg[r].until] \in SessionRows
    <3>1. arg[r].code \in consents /\ arg[r].account = arg[r].code.account
      BY <1>10 DEF InsertSession, RequestsOK, RequestOK, Login
    <3>2. arg[r].account \in Accounts
      BY <3>1 DEF TypeOK, Codes
    <3>3. arg[r].until \in Int
      BY DEF TypeOK, Args
    <3>4. QED
      BY <3>2, <3>3 DEF SessionRows
  <2>3. QED
    BY <1>10, <2>1, <2>2 DEF InsertSession, browser, google, TypeOK, ControlOK
<1>11. ASSUME NEW r \in Requests, DeleteSession(r) PROVE TypeOK'
  <2>1. ControlOK' /\ UNCHANGED <<now, browser>>
    BY <1>11, AnswerType DEF DeleteSession, Answer
  <2>2. QED
    BY <1>11, <2>1 DEF DeleteSession, browser, google, TypeOK, ControlOK
<1>12. ASSUME NEW r \in Requests, CurrentUser(r) PROVE TypeOK'
  <2>1. CASE End(r)
    BY <1>12, <2>1, EndType DEF CurrentUser, End, server, browser, google, TypeOK, ControlOK
  <2>2. CASE /\ Live(arg[r].token)
             /\ Goto(r, "acting",
                  [arg[r] EXCEPT !.account = sessions[arg[r].token].user])
    <3>1. arg[r].token \in Tokens
      BY <1>12 DEF CurrentUser, RequestsOK, RequestOK
    <3>2. sessions[arg[r].token].user \in Accounts
      BY <2>2, <3>1 DEF Live, TypeOK, SessionRows
    <3>3. [arg[r] EXCEPT !.account = sessions[arg[r].token].user] \in Args
      BY <3>2 DEF TypeOK, Args
    <3>4. ControlOK'
      BY <2>2, <3>3, GotoType DEF Busy
    <3>5. QED
      BY <1>12, <2>2, <3>4 DEF CurrentUser, Goto, server, browser, google, TypeOK, ControlOK
  <2>3. QED
    BY <1>12, <2>1, <2>2 DEF CurrentUser
<1>13. ASSUME NEW r \in Requests, Finish(r) PROVE TypeOK'
  BY <1>13, EndType DEF Finish, End, server, browser, google, TypeOK, ControlOK
<1>14. ASSUME NEW r \in Requests, Fail(r) PROVE TypeOK'
  <2>1. ControlOK' /\ UNCHANGED <<now, browser>>
    BY <1>14, LoginFailedType, AnswerType, EndType DEF Fail, Answer, End
  <2>2. QED
    BY <1>14, <2>1 DEF Fail, server, browser, google, TypeOK, ControlOK
<1>15. ASSUME NEW r \in Requests, Receive(r) PROVE TypeOK'
  <2> DEFINE b == arg[r].browser
             a == answer[r]
  <2>1. b \in Browsers /\ a \in Answers
    BY <1>15 DEF Receive, RequestsOK, RequestOK, TypeOK
  <2>2. Stored(stateCookie[b], a.state, StateTTL) \in Cookies(States)
    <3>1. /\ stateCookie[b] \in Cookies(States)
          /\ a.state \in States \cup {NoValue, Keep}
          /\ now \in Int /\ StateTTL \in Nat
          /\ Keep \notin States \cup {NoValue}
      BY <2>1, SessionsAssumption DEF TypeOK, Answers
    <3>2. QED
      BY <3>1, StoredType
  <2>3. Stored(sessionCookie[b], a.session, SessionTTL) \in Cookies(Tokens)
    <3>1. /\ sessionCookie[b] \in Cookies(Tokens)
          /\ a.session \in Tokens \cup {NoValue, Keep}
          /\ now \in Int /\ SessionTTL \in Nat
          /\ Keep \notin Tokens \cup {NoValue}
      BY <2>1, SessionsAssumption DEF TypeOK, Answers
    <3>2. QED
      BY <3>1, StoredType
  <2>4. ControlOK'
    BY <1>15, ConstantTypes DEF Receive, TypeOK, ControlOK
  <2>5. /\ stateCookie' \in [Browsers -> Cookies(States)]
        /\ sessionCookie' \in [Browsers -> Cookies(Tokens)]
        /\ atGoogle' \in [Browsers -> SUBSET States]
    BY <1>15, <2>1, <2>2, <2>3 DEF Receive, TypeOK
  <2>6. QED
    BY <1>15, <2>4, <2>5 DEF Receive, server, google, TypeOK, ControlOK
<1>16. ASSUME NEW r \in Requests, Lose(r) PROVE TypeOK'
  BY <1>16, ConstantTypes DEF Lose, server, browser, google, TypeOK, ControlOK
<1>17. QED
  BY <1>0, <1>1, <1>2, <1>3, <1>4, <1>5, <1>6, <1>7, <1>8, <1>9, <1>10,
     <1>11, <1>12, <1>13, <1>14, <1>15, <1>16
     DEF Next, TypeOK, ControlOK

-----------------------------------------------------------------------------
(* What requests rely on stays so.                                         *)

\* A step of one request leaves the others alone.
OthersKept(r) ==
  \A q \in Requests \ {r} :
    pc'[q] = pc[q] /\ arg'[q] = arg[q] /\ answer'[q] = answer[q]

\* What one request does, and what time and Google do, is no matter to the
\* others.
LEMMA RequestsFrame ==
  ASSUME IInv, TypeOK', NEW r \in Requests, OthersKept(r), RequestOK(r)',
         consents \subseteq consents', now <= now'
  PROVE  RequestsOK'
<1>1. ASSUME NEW q \in Requests \ {r} PROVE RequestOK(q)'
  <2>1. RequestOK(q) /\ pc'[q] = pc[q] /\ arg'[q] = arg[q] /\ answer'[q] = answer[q]
    BY DEF IInv, RequestsOK, OthersKept
  <2>2. \A t \in Clock : t <= now => t <= now'
    BY SessionsAssumption DEF IInv, TypeOK
  <2>3. QED
    BY <2>1, <2>2 DEF RequestOK
<1>2. QED
  BY <1>1 DEF RequestsOK

LEMMA StepRequestsOK ==
  ASSUME IInv, TypeOK', [Next]_vars
  PROVE  RequestsOK'
<1> now \in Int /\ Clock \subseteq Int
  BY SessionsAssumption DEF IInv, TypeOK
<1>0. ASSUME UNCHANGED <<pc, arg, answer>>, consents \subseteq consents', now <= now'
      PROVE  RequestsOK'
  <2>1. \A t \in Clock : t <= now => t <= now'
    BY <1>0, SessionsAssumption DEF TypeOK
  <2>2. ASSUME NEW r \in Requests PROVE RequestOK(r)'
    <3>1. RequestOK(r)
      BY DEF IInv, RequestsOK
    <3>2. QED
      BY <1>0, <2>1, <3>1 DEF RequestOK
  <2>3. QED
    BY <2>2 DEF RequestsOK
<1>1. CASE UNCHANGED vars \/ Tick \/ Consent
  BY <1>0, <1>1 DEF vars, Tick, Consent, google
<1>2. ASSUME NEW r \in Requests,
             StartLogin(r) \/ Callback(r) \/ CallbackRefused(r) \/ Logout(r)
               \/ Page(r) \/ Exchange(r)
               \/ Userinfo(r) \/ Upsert(r) \/ InsertSession(r) \/ DeleteSession(r)
               \/ CurrentUser(r) \/ Finish(r) \/ Fail(r) \/ Receive(r) \/ Lose(r)
      PROVE  RequestsOK'
  <2>1. RequestOK(r) /\ arg[r] \in Args /\ pc \in [Requests -> Busy \cup {"idle", "answered"}]
        /\ arg \in [Requests -> Args] /\ answer \in [Requests -> Answers]
    BY <1>2 DEF IInv, RequestsOK, TypeOK
  <2>2. now' = now /\ consents' = consents
    BY <1>2 DEF StartLogin, BeginAnswered, Callback, CallbackRefused, Logout,
         Page, Begin, Exchange, Userinfo, Upsert, InsertSession,
         DeleteSession, CurrentUser, Finish, Receive, Lose, Fail, LoginFailed,
         Answer, End, Goto, google
  <2>3. OthersKept(r)
    BY <1>2, <2>1 DEF StartLogin, BeginAnswered, Callback, CallbackRefused, Logout,
         Page, Begin, Exchange, Userinfo, Upsert, InsertSession,
         DeleteSession, CurrentUser, Finish, Receive, Lose, Fail, LoginFailed,
         Answer, End, Goto, OthersKept
  <2> SUFFICES RequestOK(r)'
    BY <2>2, <2>3, RequestsFrame
  <2>4. ASSUME pc'[r] = "answered", arg'[r].browser \in Browsers PROVE RequestOK(r)'
    BY <2>4 DEF RequestOK, Login
  <2>5. ASSUME pc'[r] = "idle", answer'[r] = NoAnswer PROVE RequestOK(r)'
    BY <2>5 DEF RequestOK, Login
  <2>6. ASSUME NEW b \in Browsers, NEW v, NEW w, BeginAnswered(r, b, v, w)
        PROVE  RequestOK(r)'
    BY <2>1, <2>4, <2>6 DEF BeginAnswered, NoArg
  <2>7. ASSUME NEW v, NEW w, pc[r] # "idle", Answer(r, v, w)
        PROVE  RequestOK(r)'
    BY <2>1, <2>4, <2>7 DEF Answer, NoArg, RequestOK
  <2>8. ASSUME pc[r] \in Login, LoginFailed(r) PROVE RequestOK(r)'
    BY <2>7, <2>8 DEF LoginFailed, Login
  <2>9. ASSUME pc[r] \in {"auth", "acting"}, End(r) PROVE RequestOK(r)'
    BY <2>1, <2>5, <2>9 DEF End, RequestOK
  <2>10. CASE StartLogin(r)
    BY <2>6, <2>10 DEF StartLogin
  <2>11. CASE Callback(r)
    <3>1. PICK b \in Browsers, code \in consents :
            /\ Sent(stateCookie[b]) = code.state
            /\ Begin(r, "exchange", [NoArg EXCEPT !.browser = b, !.code = code])
      BY <2>11 DEF Callback
    <3>2. code.browser = b
      <4>1. code \in Codes /\ code.state # NoValue /\ code.browser \in Browsers
        BY SessionsAssumption DEF IInv, TypeOK, Codes
      <4>2. code.state \in atGoogle[b] /\ code.state \in atGoogle[code.browser]
        BY <3>1, <4>1, SentStored DEF IInv, StatesOK
      <4>3. QED
        BY <4>1, <4>2 DEF IInv, StatesOK, Handed
    <3>3. pc'[r] = "exchange" /\ answer'[r] = answer[r] /\ pc[r] = "idle"
          /\ arg'[r].browser = b /\ arg'[r].code = code
      BY <2>1, <3>1 DEF Begin, NoArg
    <3>4. QED
      BY <2>1, <2>2, <3>2, <3>3 DEF RequestOK, Login
  <2>12. CASE CallbackRefused(r)
    BY <2>6, <2>12 DEF CallbackRefused
  <2>13. CASE Logout(r) \/ Page(r)
    <3>1. PICK b \in Browsers :
            \/ /\ Sent(sessionCookie[b]) # NoValue
               /\ \E st \in {"logout", "auth"} :
                    Begin(r, st, [NoArg EXCEPT !.browser = b,
                                               !.token = Sent(sessionCookie[b])])
            \/ BeginAnswered(r, b, Keep, NoValue)
      BY <2>13 DEF Logout, Page
    <3>2. CASE BeginAnswered(r, b, Keep, NoValue)
      BY <2>6, <3>2
    <3>3. CASE /\ Sent(sessionCookie[b]) # NoValue
               /\ \E st \in {"logout", "auth"} :
                    Begin(r, st, [NoArg EXCEPT !.browser = b,
                                               !.token = Sent(sessionCookie[b])])
      <4>1. Sent(sessionCookie[b]) \in Tokens
        BY <3>3, SentStored DEF IInv, TypeOK, Cookies
      <4>2. pc'[r] \in {"logout", "auth"} /\ answer'[r] = answer[r] /\ pc[r] = "idle"
            /\ arg'[r].browser = b /\ arg'[r].token \in Tokens
        BY <2>1, <3>3, <4>1 DEF Begin, NoArg
      <4>3. QED
        BY <2>1, <4>2 DEF RequestOK, Login
    <3>4. QED
      BY <3>1, <3>2, <3>3
  <2>14. CASE Exchange(r)
    <3>1. CASE LoginFailed(r)
      BY <2>8, <2>14, <3>1 DEF Exchange, Login
    <3>2. CASE Goto(r, "userinfo", arg[r])
      BY <2>1, <2>2, <2>14, <3>2 DEF Exchange, Goto, RequestOK, Login
    <3>3. QED
      BY <2>14, <3>1, <3>2 DEF Exchange
  <2>15. CASE Userinfo(r)
    <3>1. CASE LoginFailed(r)
      BY <2>8, <2>15, <3>1 DEF Userinfo, Login
    <3>2. CASE Goto(r, "upsert", [arg[r] EXCEPT !.account = arg[r].code.account])
      <4>1. /\ pc[r] = "userinfo" /\ pc'[r] = "upsert" /\ answer'[r] = answer[r]
            /\ arg'[r] = [arg[r] EXCEPT !.account = arg[r].code.account]
        BY <2>1, <2>15, <3>2 DEF Userinfo, Goto
      <4>2. /\ arg'[r].browser = arg[r].browser /\ arg'[r].code = arg[r].code
            /\ arg'[r].account = arg[r].code.account
        BY <2>1, <4>1 DEF Args
      <4>3. QED
        BY <2>1, <2>2, <4>1, <4>2 DEF RequestOK, Login
    <3>3. QED
      BY <2>15, <3>1, <3>2 DEF Userinfo
  <2>16. CASE Upsert(r)
    <3>1. CASE LoginFailed(r)
      BY <2>8, <2>16, <3>1 DEF Upsert, Login
    <3>2. CASE Goto(r, "insert",
                    [arg[r] EXCEPT !.until = now + Skew + SessionTTL])
      <4>1. /\ pc[r] = "upsert" /\ pc'[r] = "insert" /\ answer'[r] = answer[r]
            /\ arg'[r] = [arg[r] EXCEPT !.until = now + Skew + SessionTTL]
        BY <2>1, <2>16, <3>2 DEF Upsert, Goto
      <4>2. /\ arg'[r].browser = arg[r].browser /\ arg'[r].code = arg[r].code
            /\ arg'[r].account = arg[r].account
            /\ arg'[r].until = now + Skew + SessionTTL
        BY <2>1, <4>1 DEF Args
      <4>3. now \in Clock /\ now <= now
        BY DEF IInv, TypeOK
      <4>4. QED
        BY <2>1, <2>2, <4>1, <4>2, <4>3 DEF RequestOK, Login
    <3>3. QED
      BY <2>16, <3>1, <3>2 DEF Upsert
  <2>17. CASE InsertSession(r)
    BY <2>7, <2>8, <2>17 DEF InsertSession, Login
  <2>18. CASE DeleteSession(r)
    BY <2>7, <2>18 DEF DeleteSession
  <2>19. CASE CurrentUser(r)
    <3>1. CASE End(r)
      BY <2>9, <2>19, <3>1 DEF CurrentUser
    <3>2. CASE /\ Live(arg[r].token)
               /\ Goto(r, "acting",
                    [arg[r] EXCEPT !.account = sessions[arg[r].token].user])
      <4>1. sessions[arg[r].token].user \in Accounts
        BY <2>1, <2>19, <3>2 DEF CurrentUser, RequestOK, Live, IInv, TypeOK, SessionRows
      <4>2. /\ pc[r] = "auth" /\ pc'[r] = "acting" /\ answer'[r] = answer[r]
            /\ arg'[r] = [arg[r] EXCEPT !.account = sessions[arg[r].token].user]
        BY <2>1, <2>19, <3>2 DEF CurrentUser, Goto
      <4>3. arg'[r].browser = arg[r].browser /\ arg'[r].account \in Accounts
        BY <2>1, <4>1, <4>2 DEF Args
      <4>4. QED
        BY <2>1, <4>2, <4>3 DEF RequestOK, Login
    <3>3. QED
      BY <2>19, <3>1, <3>2 DEF CurrentUser
  <2>20. CASE Finish(r)
    BY <2>9, <2>20 DEF Finish
  <2>21. CASE Fail(r)
    BY <2>7, <2>8, <2>9, <2>21 DEF Fail
  <2>22. CASE Receive(r) \/ Lose(r)
    BY <2>1, <2>5, <2>22 DEF Receive, Lose
  <2>23. QED
    BY <1>2, <2>10, <2>11, <2>12, <2>13, <2>14, <2>15, <2>16, <2>17, <2>18,
       <2>19, <2>20, <2>21, <2>22
<1>3. QED
  BY <1>1, <1>2 DEF Next

-----------------------------------------------------------------------------
(* What browsers hold was handed to them.                                  *)

\* The steps that hand no state or token to a browser.
Quiet(r) ==
  \/ Callback(r) \/ CallbackRefused(r) \/ Logout(r) \/ Page(r)
  \/ Exchange(r) \/ Userinfo(r) \/ Upsert(r)
  \/ DeleteSession(r) \/ CurrentUser(r) \/ Finish(r) \/ Fail(r) \/ Lose(r)

\* A quiet step changes no cookie and promises none.
LEMMA QuietStep ==
  ASSUME IInv, NEW r \in Requests, Quiet(r)
  PROVE  /\ UNCHANGED <<stateCookie, sessionCookie, atGoogle, consents, drawn>>
         /\ \A t \in Tokens : sessions'[t] \in {sessions[t], NoSession}
         /\ \A q \in Requests :
              /\ answer'[q].state \in States =>
                   answer'[q] = answer[q] /\ arg'[q] = arg[q]
              /\ answer'[q].session \in Tokens =>
                   answer'[q] = answer[q] /\ arg'[q] = arg[q]
<1>1. /\ RequestOK(r)
      /\ arg \in [Requests -> Args] /\ answer \in [Requests -> Answers]
      /\ sessions \in [Tokens -> SessionRows \cup {NoSession}]
  BY DEF IInv, RequestsOK, TypeOK
<1>2. Keep \notin States \cup Tokens /\ NoValue \notin States \cup Tokens
  BY SessionsAssumption
<1>3. /\ UNCHANGED <<stateCookie, sessionCookie, atGoogle, consents, drawn>>
      /\ \A t \in Tokens : sessions'[t] \in {sessions[t], NoSession}
  BY <1>1 DEF Quiet, Callback, CallbackRefused, Logout, Page, Exchange,
     Userinfo, Upsert, DeleteSession, CurrentUser, Finish, Fail, Lose, Begin,
     BeginAnswered, LoginFailed, Answer, End, Goto, server, browser, google
<1>4. \A q \in Requests \ {r} : answer'[q] = answer[q] /\ arg'[q] = arg[q]
  BY <1>1 DEF Quiet, Callback, CallbackRefused, Logout, Page, Exchange,
     Userinfo, Upsert, DeleteSession, CurrentUser, Finish, Fail, Lose, Begin,
     BeginAnswered, LoginFailed, Answer, End, Goto
<1>5. answer'[r].state \notin States /\ answer'[r].session \notin Tokens
  <2>1. CASE answer' = answer /\ pc[r] # "answered"
    BY <1>1, <2>1, ConstantTypes DEF RequestOK
  <2>2. CASE answer'[r] = NoAnswer
    BY <2>2, ConstantTypes
  <2>3. CASE answer'[r] \in {[state |-> NoValue, session |-> Keep],
                             [state |-> Keep, session |-> NoValue]}
    BY <1>2, <2>3
  <2>4. QED
    BY <1>1, <2>1, <2>2, <2>3 DEF Quiet, Callback, CallbackRefused, Logout,
       Page, Exchange, Userinfo, Upsert, DeleteSession, CurrentUser, Finish,
       Fail, Lose, Begin, BeginAnswered, LoginFailed, Answer, End, Goto, Login
<1>6. QED
  BY <1>3, <1>4, <1>5

\* No new state is handed out.
LEMMA StatesFrame ==
  ASSUME IInv, UNCHANGED <<stateCookie, atGoogle, consents>>,
         drawn \subseteq drawn',
         \A q \in Requests : answer'[q].state \in States =>
           answer'[q] = answer[q] /\ arg'[q] = arg[q]
  PROVE  StatesOK'
<1>1. \A b \in Browsers : Handed(b)' \subseteq Handed(b)
  BY DEF Handed
<1>2. QED
  BY <1>1 DEF IInv, StatesOK

LEMMA StepStatesOK ==
  ASSUME IInv, TypeOK', [Next]_vars
  PROVE  StatesOK'
<1> USE DEF IInv
<1>1. CASE UNCHANGED vars \/ Tick
  BY <1>1, StatesFrame DEF vars, Tick, server, browser, google
<1>2. CASE Consent
  <2>1. UNCHANGED <<stateCookie, atGoogle, drawn, answer, arg>>
    BY <1>2 DEF Consent, server, browser
  <2>2. \A b \in Browsers : Handed(b)' = Handed(b)
    BY <2>1 DEF Handed
  <2>3. \A code \in consents' : code.state \in atGoogle[code.browser]
    BY <1>2 DEF Consent, StatesOK
  <2>4. QED
    BY <2>1, <2>2, <2>3 DEF StatesOK
<1>3. ASSUME NEW r \in Requests, Quiet(r) PROVE StatesOK'
  BY <1>3, QuietStep, StatesFrame
<1>4. ASSUME NEW r \in Requests, InsertSession(r) PROVE StatesOK'
  <2>1. /\ UNCHANGED <<stateCookie, atGoogle, consents>> /\ drawn \subseteq drawn'
        /\ \A q \in Requests \ {r} : answer'[q] = answer[q] /\ arg'[q] = arg[q]
        /\ answer'[r].state = NoValue
    BY <1>4 DEF InsertSession, LoginFailed, Answer, browser, google, TypeOK
  <2>2. QED
    BY <2>1, StatesFrame, SessionsAssumption
<1>5. ASSUME NEW r \in Requests, StartLogin(r) PROVE StatesOK'
  <2>1. PICK b \in Browsers, s \in States \ drawn :
          BeginAnswered(r, b, s, Keep) /\ drawn' = drawn \cup {s}
    BY <1>5 DEF StartLogin
  <2>2. /\ UNCHANGED <<stateCookie, atGoogle, consents>>
        /\ \A q \in Requests \ {r} : answer'[q] = answer[q] /\ arg'[q] = arg[q]
        /\ answer'[r].state = s /\ arg'[r].browser = b
    BY <2>1 DEF BeginAnswered, browser, google, TypeOK, NoArg
  <2>3. /\ Handed(b)' \subseteq Handed(b) \cup {s}
        /\ \A c \in Browsers \ {b} : Handed(c)' \subseteq Handed(c)
    BY <2>2 DEF Handed
  <2>4. \A c \in Browsers : s \notin Handed(c)
    BY <2>1 DEF StatesOK
  <2>5. \A c \in Browsers : Handed(c)' \subseteq drawn'
    BY <2>1, <2>3 DEF StatesOK
  <2>6. \A c, d \in Browsers : c # d => Handed(c)' \cap Handed(d)' = {}
    BY <2>3, <2>4 DEF StatesOK
  <2>7. QED
    BY <2>2, <2>5, <2>6 DEF StatesOK
<1>6. ASSUME NEW r \in Requests, Receive(r) PROVE StatesOK'
  <2> DEFINE b == arg[r].browser
             a == answer[r]
  <2>1. b \in Browsers /\ a.state \in States \cup {NoValue, Keep}
    BY <1>6 DEF Receive, RequestsOK, RequestOK, TypeOK, Answers
  <2>2. /\ atGoogle'[b] = atGoogle[b] \cup ({a.state} \cap States)
        /\ \A c \in Browsers \ {b} : atGoogle'[c] = atGoogle[c]
        /\ \A q \in Requests \ {r} : answer'[q] = answer[q] /\ arg'[q] = arg[q]
        /\ answer'[r].state \notin States
        /\ UNCHANGED <<drawn, consents>>
    BY <1>6, <2>1, ConstantTypes DEF Receive, TypeOK, server, google
  <2>3. \A c \in Browsers : Handed(c)' \subseteq Handed(c)
    <3>1. {a.state} \cap States \subseteq Handed(b)
      BY DEF Handed
    <3>2. QED
      BY <2>1, <2>2, <3>1 DEF Handed
  <2>4. \A c \in Browsers :
          stateCookie'[c].value # NoValue => stateCookie'[c].value \in atGoogle'[c]
    <3>1. ASSUME NEW c \in Browsers \ {b} PROVE stateCookie'[c] = stateCookie[c]
      BY <1>6 DEF Receive, TypeOK
    <3>2. stateCookie'[b] = Stored(stateCookie[b], a.state, StateTTL)
      BY <1>6, <2>1 DEF Receive, TypeOK
    <3>3. /\ a.state = Keep => stateCookie'[b] = stateCookie[b]
          /\ a.state # Keep => stateCookie'[b].value = a.state
      BY <3>2, StoredValue
    <3>4. QED
      BY <2>1, <2>2, <3>1, <3>3 DEF StatesOK
  <2>5. \A code \in consents : code.state \in atGoogle'[code.browser]
    <3>1. \A c \in Browsers : atGoogle[c] \subseteq atGoogle'[c]
      BY <2>1, <2>2
    <3>2. \A code \in consents : code.browser \in Browsers
      BY DEF TypeOK, Codes
    <3>3. QED
      BY <3>1, <3>2 DEF StatesOK
  <2>6. QED
    BY <2>2, <2>3, <2>4, <2>5 DEF StatesOK
<1>7. QED
  BY <1>1, <1>2, <1>3, <1>4, <1>5, <1>6 DEF Next, Quiet

\* No new token is handed out, and no session begins.
LEMMA TokensFrame ==
  ASSUME IInv, UNCHANGED sessionCookie,
         drawn \subseteq drawn', consents \subseteq consents',
         \A t \in Tokens : sessions'[t] \in {sessions[t], NoSession},
         \A q \in Requests : answer'[q].session \in Tokens =>
           answer'[q] = answer[q] /\ arg'[q] = arg[q]
  PROVE  TokensOK'
<1>1. \A b, t : t \in Tokens /\ Earned(b, t) => Earned(b, t)'
  BY DEF Earned
<1>2. \A b \in Browsers : sessionCookie[b].value \in Tokens \cup {NoValue}
  BY DEF IInv, TypeOK, Cookies
<1>3. QED
  BY <1>1, <1>2 DEF IInv, TokensOK

LEMMA StepTokensOK ==
  ASSUME IInv, TypeOK', [Next]_vars
  PROVE  TokensOK'
<1> USE DEF IInv
<1>1. CASE UNCHANGED vars \/ Tick \/ Consent
  BY <1>1, TokensFrame DEF vars, Tick, Consent, server, browser, google
<1>2. ASSUME NEW r \in Requests, Quiet(r) PROVE TokensOK'
  BY <1>2, QuietStep, TokensFrame
<1>3. ASSUME NEW r \in Requests, StartLogin(r) PROVE TokensOK'
  <2>1. /\ UNCHANGED <<sessionCookie, consents, sessions>> /\ drawn \subseteq drawn'
        /\ \A q \in Requests \ {r} : answer'[q] = answer[q] /\ arg'[q] = arg[q]
        /\ answer'[r].session = Keep
    BY <1>3 DEF StartLogin, BeginAnswered, browser, google, TypeOK
  <2>2. QED
    BY <2>1, TokensFrame, SessionsAssumption
<1>4. ASSUME NEW r \in Requests, InsertSession(r) PROVE TokensOK'
  <2>1. CASE LoginFailed(r) /\ UNCHANGED <<sessions, drawn>>
    <3>1. /\ UNCHANGED <<sessionCookie, consents>>
          /\ \A q \in Requests \ {r} : answer'[q] = answer[q] /\ arg'[q] = arg[q]
          /\ answer'[r].session = Keep
      BY <1>4, <2>1 DEF InsertSession, LoginFailed, Answer, browser, google, TypeOK
    <3>2. QED
      BY <2>1, <3>1, TokensFrame, SessionsAssumption
  <2>2. ASSUME NEW t \in Tokens \ drawn,
               drawn' = drawn \cup {t},
               sessions' = [sessions EXCEPT ![t] =
                 [user |-> arg[r].account, expiresAt |-> arg[r].until]],
               Answer(r, NoValue, t) \/ LoginFailed(r)
        PROVE  TokensOK'
    <3>1. /\ UNCHANGED <<sessionCookie, consents>>
          /\ \A q \in Requests \ {r} : answer'[q] = answer[q] /\ arg'[q] = arg[q]
          /\ arg'[r].browser = arg[r].browser
          /\ answer'[r].session \in {t, Keep}
      BY <1>4, <2>2 DEF InsertSession, LoginFailed, Answer, browser, google, TypeOK, NoArg
    <3>2. /\ sessions'[t].user = arg[r].account
          /\ \A u \in Tokens \ {t} : sessions'[u] = sessions[u]
      BY <2>2 DEF TypeOK
    <3>3. \A b, u : u \in Tokens /\ Earned(b, u) => Earned(b, u)'
      BY <2>2, <3>1, <3>2 DEF Earned
    <3>4. Earned(arg[r].browser, t)'
      <4> DEFINE code == arg[r].code
      <4>1. /\ code \in consents /\ code.browser = arg[r].browser
            /\ code.account = arg[r].account
        BY <1>4 DEF InsertSession, RequestsOK, RequestOK, Login
      <4>2. code = [browser |-> code.browser, state |-> code.state,
                    account |-> code.account] /\ code.state \in States
        BY <4>1 DEF TypeOK, Codes
      <4>3. [browser |-> arg[r].browser, state |-> code.state,
             account |-> sessions'[t].user] \in consents'
        BY <3>1, <3>2, <4>1, <4>2
      <4>4. QED
        BY <2>2, <3>1, <4>2, <4>3 DEF Earned
    <3>5. \A u \in Tokens : sessions'[u] # NoSession => u \in drawn'
      BY <2>2, <3>2 DEF TokensOK
    <3>6. \A b \in Browsers : sessionCookie[b].value \in Tokens \cup {NoValue}
      BY DEF TypeOK, Cookies
    <3>7. ASSUME NEW b \in Browsers, sessionCookie'[b].value # NoValue
          PROVE  Earned(b, sessionCookie[b].value)'
      BY <3>1, <3>3, <3>6, <3>7 DEF TokensOK
    <3>8. ASSUME NEW q \in Requests, answer'[q].session \in Tokens
          PROVE  Earned(arg[q].browser, answer[q].session)'
      <4>1. CASE q = r
        BY <3>1, <3>4, <3>8, <4>1, SessionsAssumption
      <4>2. CASE q # r
        BY <3>1, <3>3, <3>8, <4>2 DEF TokensOK
      <4>3. QED
        BY <4>1, <4>2
    <3>9. QED
      BY <3>1, <3>5, <3>7, <3>8 DEF TokensOK
  <2>3. QED
    BY <1>4, <2>1, <2>2 DEF InsertSession
<1>5. ASSUME NEW r \in Requests, Receive(r) PROVE TokensOK'
  <2> DEFINE b == arg[r].browser
             a == answer[r]
  <2>1. b \in Browsers /\ a.session \in Tokens \cup {NoValue, Keep}
    BY <1>5 DEF Receive, RequestsOK, RequestOK, TypeOK, Answers
  <2>2. /\ UNCHANGED <<sessions, drawn, consents>>
        /\ \A q \in Requests \ {r} : answer'[q] = answer[q] /\ arg'[q] = arg[q]
        /\ answer'[r].session \notin Tokens
        /\ \A c \in Browsers \ {b} : sessionCookie'[c] = sessionCookie[c]
    BY <1>5, ConstantTypes DEF Receive, TypeOK, server, google
  <2>3. \A c, u : Earned(c, u)' <=> Earned(c, u)
    BY <2>2 DEF Earned
  <2>4. /\ a.session = Keep => sessionCookie'[b] = sessionCookie[b]
        /\ a.session # Keep => sessionCookie'[b].value = a.session
    <3>1. sessionCookie'[b] = Stored(sessionCookie[b], a.session, SessionTTL)
      BY <1>5, <2>1 DEF Receive, TypeOK
    <3>2. QED
      BY <3>1, StoredValue
  <2>5. ASSUME NEW c \in Browsers, sessionCookie'[c].value # NoValue
        PROVE  Earned(c, sessionCookie'[c].value)
    BY <2>1, <2>2, <2>4, <2>5 DEF TokensOK
  <2>6. QED
    BY <2>2, <2>3, <2>5 DEF TokensOK
<1>6. QED
  BY <1>1, <1>2, <1>3, <1>4, <1>5 DEF Next, Quiet

-----------------------------------------------------------------------------
(* The theorems.                                                           *)

THEOREM Invariant == Spec => []IInv
<1>1. Init => IInv
  BY InitIInv
<1>2. IInv /\ [Next]_vars => IInv'
  <2> SUFFICES ASSUME IInv, [Next]_vars PROVE IInv'
    OBVIOUS
  <2>1. TypeOK'
    BY StepTypeOK
  <2>2. QED
    BY <2>1, StepStatesOK, StepRequestsOK, StepTokensOK DEF IInv
<1>3. QED
  BY <1>1, <1>2, PTL DEF Spec

\* Every variable keeps its type: a row of sessions has a user, a cookie
\* holds a value the server has drawn.
THEOREM TypeCorrect == Spec => []TypeOK
<1>1. IInv => TypeOK
  BY DEF IInv
<1>2. QED
  BY <1>1, Invariant, PTL

\* A browser is signed in only as an account it signed in to.
THEOREM BrowsersAreSignedInWhereConsented == Spec => []SignedInWhereConsented
<1>1. IInv => SignedInWhereConsented
  BY DEF IInv, TokensOK, Earned, SignedInWhereConsented
<1>2. QED
  BY <1>1, Invariant, PTL

\* Sessions are logins: given once, in force for a time or until withdrawn,
\* and never again.
THEOREM LoginsAreImplemented == Spec => ImplementsLogins
<1>1. Init => Abstract!Init
  BY SessionsAssumption DEF Init, Abstract!Init, Actors
<1>2. IInv /\ IInv' /\ [Next]_vars => [Abstract!Next]_Abstract!vars
  <2> SUFFICES ASSUME IInv, IInv', [Next]_vars
               PROVE  [Abstract!Next]_Abstract!vars
    OBVIOUS
  <2> USE DEF IInv
  <2>0. Actors \in [Requests -> Accounts \cup {NoAccount}]
    BY DEF Actors, RequestsOK, RequestOK
  <2>1. ASSUME UNCHANGED <<now, sessions, drawn, pc, arg>>
        PROVE  UNCHANGED Abstract!vars
    BY <2>1 DEF Abstract!vars, Actors
  <2>2. CASE UNCHANGED vars \/ Consent
    BY <2>1, <2>2 DEF vars, Consent, server
  <2>3. CASE Tick
    <3>1. Actors' = Actors
      BY <2>3 DEF Tick, Actors
    <3>2. Abstract!Pass
      BY <2>3, <3>1 DEF Tick, server, Abstract!Pass
    <3>3. QED
      BY <3>2 DEF Abstract!Next
  <2>4. ASSUME NEW r \in Requests, pc[r] # "acting", pc'[r] # "acting",
               \A q \in Requests \ {r} : pc'[q] = pc[q] /\ arg'[q] = arg[q]
        PROVE  Actors' = Actors
    BY <2>4 DEF Actors
  <2>5. ASSUME NEW r \in Requests,
               StartLogin(r) \/ Callback(r) \/ CallbackRefused(r) \/ Logout(r)
                 \/ Page(r) \/ Exchange(r) \/ Userinfo(r) \/ Upsert(r)
                 \/ Receive(r) \/ Lose(r)
        PROVE  UNCHANGED Abstract!vars
    <3>1. UNCHANGED <<now, sessions>> /\ drawn' \cap Tokens = drawn \cap Tokens
      BY <2>5, SessionsAssumption DEF StartLogin, Callback, CallbackRefused,
         Logout, Page, Exchange, Userinfo, Upsert, Receive, Lose, Begin,
         BeginAnswered, LoginFailed, Answer, Goto, server
    <3>2. /\ pc[r] # "acting" /\ pc'[r] # "acting"
          /\ \A q \in Requests \ {r} : pc'[q] = pc[q] /\ arg'[q] = arg[q]
      BY <2>5 DEF StartLogin, Callback, CallbackRefused, Logout, Page,
         Exchange, Userinfo, Upsert, Receive, Lose, Begin, BeginAnswered,
         LoginFailed, Answer, Goto, TypeOK
    <3>3. QED
      BY <2>4, <3>1, <3>2 DEF Abstract!vars
  <2>6. ASSUME NEW r \in Requests, InsertSession(r)
        PROVE  [Abstract!Next]_Abstract!vars
    <3>1. Actors' = Actors /\ now' = now
      <4>1. /\ pc[r] # "acting" /\ pc'[r] # "acting" /\ now' = now
            /\ \A q \in Requests \ {r} : pc'[q] = pc[q] /\ arg'[q] = arg[q]
        BY <2>6 DEF InsertSession, LoginFailed, Answer, TypeOK
      <4>2. QED
        BY <2>4, <4>1
    <3>2. CASE UNCHANGED <<sessions, drawn>>
      BY <3>1, <3>2 DEF Abstract!vars
    <3>3. ASSUME NEW t \in Tokens \ drawn,
                 drawn' = drawn \cup {t},
                 sessions' = [sessions EXCEPT ![t] =
                   [user |-> arg[r].account, expiresAt |-> arg[r].until]]
          PROVE  Abstract!Grant(t, arg[r].account)
      <4>1. PICK at \in Clock : at <= now /\ arg[r].until = at + Skew + SessionTTL
        BY <2>6 DEF InsertSession, RequestsOK, RequestOK
      <4>2. arg[r].until \in {u + Skew + SessionTTL : u \in Clock}
        BY <4>1
      <4>3. arg[r].until <= now + (Skew + SessionTTL)
        BY <4>1, SessionsAssumption DEF TypeOK
      <4>4. drawn' \cap Tokens = (drawn \cap Tokens) \cup {t}
        BY <3>3
      <4>5. QED
        BY <3>1, <3>3, <4>2, <4>3, <4>4 DEF Abstract!Grant
    <3>4. arg[r].account \in Accounts
      BY <2>6 DEF InsertSession, RequestsOK, RequestOK, Login, TypeOK, Codes
    <3>5. QED
      BY <2>6, <3>2, <3>3, <3>4 DEF InsertSession, Abstract!Next
  <2>7. ASSUME NEW r \in Requests, DeleteSession(r)
        PROVE  [Abstract!Next]_Abstract!vars
    <3>1. /\ pc[r] # "acting" /\ pc'[r] # "acting" /\ now' = now /\ drawn' = drawn
          /\ \A q \in Requests \ {r} : pc'[q] = pc[q] /\ arg'[q] = arg[q]
          /\ arg[r].token \in Tokens
      BY <2>7 DEF DeleteSession, Answer, TypeOK, RequestsOK, RequestOK
    <3>2. Abstract!Withdraw(arg[r].token)
      BY <2>4, <2>7, <3>1 DEF DeleteSession, Abstract!Withdraw
    <3>3. QED
      BY <3>1, <3>2 DEF Abstract!Next
  <2>8. ASSUME NEW r \in Requests, UNCHANGED <<now, sessions, drawn>>,
               \A q \in Requests \ {r} : pc'[q] = pc[q] /\ arg'[q] = arg[q],
               pc'[r] # "acting"
        PROVE  [Abstract!Next]_Abstract!vars
    <3>1. Actors' = [Actors EXCEPT ![r] = NoAccount]
      BY <2>8 DEF Actors
    <3>2. Abstract!Leave(r)
      BY <2>8, <3>1 DEF Abstract!Leave
    <3>3. QED
      BY <3>2 DEF Abstract!Next
  <2>9. ASSUME NEW r \in Requests, CurrentUser(r)
        PROVE  [Abstract!Next]_Abstract!vars
    <3>1. /\ UNCHANGED <<now, sessions, drawn>> /\ arg[r].token \in Tokens
          /\ \A q \in Requests \ {r} : pc'[q] = pc[q] /\ arg'[q] = arg[q]
      BY <2>9 DEF CurrentUser, End, Goto, server, TypeOK, RequestsOK, RequestOK
    <3>2. CASE End(r)
      BY <2>8, <3>1, <3>2 DEF End, TypeOK
    <3>3. CASE /\ Live(arg[r].token)
               /\ Goto(r, "acting",
                    [arg[r] EXCEPT !.account = sessions[arg[r].token].user])
      <4>1. pc'[r] = "acting" /\ arg'[r].account = sessions[arg[r].token].user
        BY <3>3 DEF Goto, TypeOK, Args
      <4>2. Actors' = [Actors EXCEPT ![r] = sessions[arg[r].token].user]
        BY <3>1, <4>1 DEF Actors
      <4>3. now < sessions[arg[r].token].expiresAt
        BY <3>1, <3>3, SessionsAssumption DEF Live, TypeOK, SessionRows
      <4>4. Abstract!Enter(r, arg[r].token)
        BY <3>1, <3>3, <4>2, <4>3 DEF Live, Abstract!Enter
      <4>5. QED
        BY <3>1, <4>4 DEF Abstract!Next
    <3>4. QED
      BY <2>9, <3>2, <3>3 DEF CurrentUser
  <2>10. ASSUME NEW r \in Requests, Finish(r) \/ Fail(r)
         PROVE  [Abstract!Next]_Abstract!vars
    <3>1. /\ UNCHANGED <<now, sessions, drawn>> /\ pc'[r] # "acting"
          /\ \A q \in Requests \ {r} : pc'[q] = pc[q] /\ arg'[q] = arg[q]
      BY <2>10 DEF Finish, Fail, LoginFailed, Answer, End, server, TypeOK
    <3>2. QED
      BY <2>8, <3>1
  <2>11. QED
    BY <2>2, <2>3, <2>5, <2>6, <2>7, <2>9, <2>10 DEF Next, Abstract!Next
<1>3. QED
  BY <1>1, <1>2, Invariant, PTL DEF Spec, ImplementsLogins, Abstract!Spec

-----------------------------------------------------------------------------
(* The end of a login is final.                                            *)

\* A token whose session was deleted or has expired.
Over(t) ==
  /\ t \in drawn
  /\ sessions[t] # NoSession => sessions[t].expiresAt <= now

\* A request is taken for one of the user of a token's session.
Enters(r, t) == pc[r] = "auth" /\ arg[r].token = t /\ pc'[r] = "acting"

\* A logout deletes the session of a token that was drawn.
LogoutsKnowTokens == \A r \in Requests : pc[r] = "logout" => arg[r].token \in drawn

\* Who is about to delete a session has just read its cookie, or was so before.
LEMMA NextLogoutsKnowTokens ==
  IInv /\ LogoutsKnowTokens /\ [Next]_vars => LogoutsKnowTokens'
<1> SUFFICES ASSUME IInv, LogoutsKnowTokens, [Next]_vars,
                    NEW q \in Requests, pc'[q] = "logout"
             PROVE  arg'[q].token \in drawn'
  BY DEF LogoutsKnowTokens
<1> USE DEF IInv
<1>1. CASE UNCHANGED <<pc, arg, drawn>>
  BY <1>1 DEF LogoutsKnowTokens
<1>2. ASSUME NEW r \in Requests, pc'[r] # "logout", drawn \subseteq drawn',
             \E s, a : pc' = [pc EXCEPT ![r] = s] /\ arg' = [arg EXCEPT ![r] = a]
      PROVE  arg'[q].token \in drawn'
  BY <1>2 DEF LogoutsKnowTokens, TypeOK
<1>3. ASSUME NEW r \in Requests, Logout(r) PROVE arg'[q].token \in drawn'
  <2>1. drawn' = drawn
    BY <1>3 DEF Logout, server
  <2>2. PICK b \in Browsers :
          \/ /\ Sent(sessionCookie[b]) # NoValue
             /\ Begin(r, "logout",
                      [NoArg EXCEPT !.browser = b, !.token = Sent(sessionCookie[b])])
          \/ BeginAnswered(r, b, Keep, NoValue)
    BY <1>3 DEF Logout
  <2>3. CASE BeginAnswered(r, b, Keep, NoValue)
    BY <1>2, <2>1, <2>3 DEF BeginAnswered, TypeOK
  <2>4. CASE /\ Sent(sessionCookie[b]) # NoValue
             /\ Begin(r, "logout",
                      [NoArg EXCEPT !.browser = b, !.token = Sent(sessionCookie[b])])
    <3>1. sessionCookie[b].value = Sent(sessionCookie[b])
      BY <2>4 DEF Sent
    <3>2. Sent(sessionCookie[b]) \in drawn
      BY <2>4, <3>1 DEF TokensOK, Earned
    <3>3. /\ pc' = [pc EXCEPT ![r] = "logout"]
          /\ arg'[r].token = Sent(sessionCookie[b])
          /\ \A p \in Requests \ {r} : arg'[p] = arg[p]
      BY <2>4 DEF Begin, NoArg, TypeOK
    <3>4. CASE q = r
      BY <2>1, <3>2, <3>3, <3>4
    <3>5. CASE q # r
      BY <2>1, <3>3, <3>5 DEF LogoutsKnowTokens, TypeOK
    <3>6. QED
      BY <3>4, <3>5
  <2>5. QED
    BY <2>2, <2>3, <2>4
<1>4. ASSUME NEW r \in Requests,
             StartLogin(r) \/ Callback(r) \/ CallbackRefused(r)
               \/ Page(r) \/ Exchange(r)
               \/ Userinfo(r) \/ Upsert(r) \/ InsertSession(r) \/ DeleteSession(r)
               \/ CurrentUser(r) \/ Finish(r) \/ Fail(r) \/ Receive(r) \/ Lose(r)
      PROVE  arg'[q].token \in drawn'
  <2>1. /\ \E s, a : pc' = [pc EXCEPT ![r] = s] /\ arg' = [arg EXCEPT ![r] = a]
        /\ drawn \subseteq drawn'
    BY <1>4, ZenonT(60) DEF StartLogin, BeginAnswered, Callback, CallbackRefused,
       Page, Begin, Exchange, Userinfo, Upsert, InsertSession,
       DeleteSession, CurrentUser, Finish, Receive, Lose, Fail, LoginFailed,
       Answer, End, Goto, server
  <2>2. pc'[r] # "logout"
    BY <1>4 DEF StartLogin, BeginAnswered, Callback, CallbackRefused,
       Page, Begin, Exchange, Userinfo, Upsert, InsertSession,
       DeleteSession, CurrentUser, Finish, Receive, Lose, Fail, LoginFailed,
       Answer, End, Goto, TypeOK
  <2>3. QED
    BY <1>2, <2>1, <2>2
<1>5. QED
  BY <1>1, <1>3, <1>4 DEF Next, vars, server, Tick, Consent

\* A token that is over stays so: a row is only ever inserted under a token
\* that has not been drawn, no statement prolongs one, and time goes on.
LEMMA StaysOver ==
  ASSUME IInv, [Next]_vars, NEW t \in Tokens, Over(t)
  PROVE  Over(t)'
<1> USE DEF IInv
<1>1. drawn \subseteq drawn' /\ now' >= now
  <2>1. CASE Tick
    BY <2>1, SessionsAssumption DEF Tick, server, TypeOK
  <2>2. CASE ~Tick
    <3>1. drawn \subseteq drawn' /\ now' = now
      BY <2>2 DEF Next, vars, Consent, StartLogin,
         BeginAnswered, Callback, CallbackRefused, Logout,
         Page, Begin, Exchange, Userinfo, Upsert, InsertSession,
         DeleteSession, CurrentUser, Finish, Receive, Lose, Fail, LoginFailed,
         Answer, End, Goto, server
    <3>2. QED
      BY <3>1, SessionsAssumption DEF TypeOK
  <2>3. QED
    BY <2>1, <2>2
<1>2. sessions'[t] \in {sessions[t], NoSession}
  BY DEF Over, TypeOK, Next, vars, Tick, Consent, StartLogin,
     BeginAnswered, Callback, CallbackRefused, Logout,
     Page, Begin, Exchange, Userinfo, Upsert, InsertSession,
     DeleteSession, CurrentUser, Finish, Receive, Lose, Fail, LoginFailed,
     Answer, End, Goto, server
<1>3. now \in Int /\ now' \in Int
        /\ (sessions[t] # NoSession => sessions[t].expiresAt \in Int)
  <2>1. TypeOK'
    BY StepTypeOK
  <2>2. QED
    BY <2>1, SessionsAssumption DEF TypeOK, SessionRows
<1>4. QED
  BY <1>1, <1>2, <1>3 DEF Over

\* Signing out is final, and so is the end of a term: from the moment a
\* session is deleted or has expired by the database's clock, no request is
\* taken for its user's, whatever logins, callbacks and copies of the cookie
\* there are, and there is no way back (auth/service.go:118-154).
THEOREM EndIsFinal ==
  ASSUME NEW t \in Tokens
  PROVE  Spec => /\ [](Over(t) => []Over(t))
                 /\ [][\A r \in Requests :
                         /\ Enters(r, t) => ~Over(t)
                         /\ DeleteSession(r) /\ arg[r].token = t => Over(t)']_vars
<1>1. IInv /\ [Next]_vars /\ Over(t) => Over(t)'
  BY StaysOver
<1>2. ASSUME IInv, [Next]_vars, NEW r \in Requests, Enters(r, t)
      PROVE  ~Over(t)
  <2> USE DEF IInv
  <2>1. pc'[r] # pc[r] /\ pc[r] = "auth" /\ pc'[r] = "acting" /\ arg[r].token = t
    BY <1>2 DEF Enters
  <2>2. PICK q \in Requests :
          StartLogin(q) \/ Callback(q) \/ CallbackRefused(q) \/ Logout(q)
            \/ Page(q) \/ Exchange(q)
               \/ Userinfo(q) \/ Upsert(q) \/ InsertSession(q) \/ DeleteSession(q)
               \/ CurrentUser(q) \/ Finish(q) \/ Fail(q) \/ Receive(q) \/ Lose(q)
    BY <1>2, <2>1 DEF Next, vars, Tick, Consent
  <2>3. \E s : pc' = [pc EXCEPT ![q] = s]
    BY <2>2, ZenonT(60) DEF StartLogin, BeginAnswered, Callback, CallbackRefused,
       Logout, Page, Begin, Exchange, Userinfo, Upsert, InsertSession,
       DeleteSession, CurrentUser, Finish, Receive, Lose, Fail, LoginFailed,
       Answer, End, Goto
  <2>4. q = r
    BY <1>2, <2>1, <2>3 DEF TypeOK
  <2>5. CurrentUser(r)
    BY <1>2, <2>1, <2>2, <2>4 DEF StartLogin, BeginAnswered, Callback, CallbackRefused,
       Logout, Page, Begin, Exchange, Userinfo, Upsert, InsertSession,
       DeleteSession, Finish, Receive, Lose, Fail, LoginFailed,
       Answer, End, Goto, Login, TypeOK
  <2>6. Live(t)
    BY <1>2, <2>1, <2>5 DEF CurrentUser, End, TypeOK
  <2>7. QED
    BY <1>2, <2>6, SessionsAssumption DEF Live, Over, TypeOK, SessionRows
<1>3. ASSUME IInv, LogoutsKnowTokens, NEW r \in Requests,
             DeleteSession(r), arg[r].token = t
      PROVE  Over(t)'
  BY <1>3 DEF DeleteSession, Over, LogoutsKnowTokens, IInv, TypeOK
<1>4. Init => LogoutsKnowTokens
  BY DEF Init, LogoutsKnowTokens
<1>5. Spec => []LogoutsKnowTokens
  BY <1>4, NextLogoutsKnowTokens, Invariant, PTL DEF Spec
<1>6. IInv /\ LogoutsKnowTokens /\ [Next]_vars =>
        [\A r \in Requests :
           /\ Enters(r, t) => ~Over(t)
           /\ DeleteSession(r) /\ arg[r].token = t => Over(t)']_vars
  BY <1>2, <1>3
<1>7. QED
  BY <1>1, <1>5, <1>6, Invariant, PTL DEF Spec

\* The browsers that have the cookie of a session or are about to.
Keeps(b, t) ==
  \/ sessionCookie[b].value = t
  \/ \E r \in Requests : arg[r].browser = b /\ answer[r].session = t

\* A session is in the hands of one browser, and of the one whose logout is
\* about to delete it.
OneKeeper ==
  \A t \in Tokens, b, c \in Browsers : Keeps(b, t) /\ Keeps(c, t) => b = c

LogoutsOwn ==
  \A r \in Requests, b \in Browsers :
    pc[r] = "logout" /\ Keeps(b, arg[r].token) => b = arg[r].browser

\* No cookie is set and none is promised.
LEMMA NoNewKeeper ==
  ASSUME UNCHANGED sessionCookie,
         \A q \in Requests : answer'[q].session \in Tokens =>
           answer'[q] = answer[q] /\ arg'[q] = arg[q],
         NEW t \in Tokens, NEW b, Keeps(b, t)'
  PROVE  Keeps(b, t)
BY DEF Keeps

\* A token reaches no further browser once it has been drawn.
LEMMA KeeperSteps ==
  ASSUME IInv, [Next]_vars, NEW t \in Tokens
  PROVE  \/ \A b \in Browsers : Keeps(b, t)' => Keeps(b, t)
         \/ t \notin drawn /\ \E c \in Browsers : \A b \in Browsers : Keeps(b, t)' => b = c
<1> USE DEF IInv
<1>1. CASE UNCHANGED vars \/ Tick \/ Consent
  BY <1>1, NoNewKeeper DEF vars, Tick, Consent, server, browser, google
<1>2. ASSUME NEW r \in Requests, Quiet(r)
      PROVE  \A b \in Browsers : Keeps(b, t)' => Keeps(b, t)
  BY <1>2, QuietStep, NoNewKeeper
<1>3. ASSUME NEW r \in Requests, StartLogin(r)
      PROVE  \A b \in Browsers : Keeps(b, t)' => Keeps(b, t)
  <2>1. /\ UNCHANGED sessionCookie
        /\ \A q \in Requests \ {r} : answer'[q] = answer[q] /\ arg'[q] = arg[q]
        /\ answer'[r].session = Keep
    BY <1>3 DEF StartLogin, BeginAnswered, browser, google, TypeOK
  <2>2. QED
    BY <2>1, NoNewKeeper, SessionsAssumption
<1>4. ASSUME NEW r \in Requests, InsertSession(r)
      PROVE  \/ \A b \in Browsers : Keeps(b, t)' => Keeps(b, t)
             \/ /\ t \notin drawn
                /\ \E c \in Browsers : \A b \in Browsers : Keeps(b, t)' => b = c
  <2>1. /\ UNCHANGED sessionCookie /\ arg[r].browser \in Browsers
        /\ \A q \in Requests \ {r} : answer'[q] = answer[q] /\ arg'[q] = arg[q]
        /\ arg'[r].browser = arg[r].browser
        /\ answer'[r].session \in (Tokens \ drawn) \cup {Keep}
    BY <1>4 DEF InsertSession, LoginFailed, Answer, browser, TypeOK, NoArg,
       RequestsOK, RequestOK
  <2>2. CASE answer'[r].session # t
    <3>1. ASSUME NEW b \in Browsers, Keeps(b, t)' PROVE Keeps(b, t)
      BY <2>1, <2>2, <3>1 DEF Keeps
    <3>2. QED
      BY <3>1
  <2>3. CASE answer'[r].session = t
    <3>1. t \notin drawn
      BY <2>1, <2>3, SessionsAssumption
    <3>2. \A b \in Browsers : ~Keeps(b, t)
      BY <3>1, SessionsAssumption DEF TokensOK, Earned, Keeps
    <3>3. \A b \in Browsers : Keeps(b, t)' => b = arg[r].browser
      BY <2>1, <3>2 DEF Keeps
    <3>4. QED
      BY <2>1, <3>1, <3>3
  <2>4. QED
    BY <2>2, <2>3
<1>5. ASSUME NEW r \in Requests, Receive(r)
      PROVE  \A b \in Browsers : Keeps(b, t)' => Keeps(b, t)
  <2>1. PICK b, v : b = arg[r].browser /\ v = answer[r].session
    OBVIOUS
  <2>2. /\ b \in Browsers
        /\ \A q \in Requests \ {r} : answer'[q] = answer[q] /\ arg'[q] = arg[q]
        /\ answer'[r].session \notin Tokens
        /\ \A c \in Browsers \ {b} : sessionCookie'[c] = sessionCookie[c]
        /\ sessionCookie'[b] = Stored(sessionCookie[b], v, SessionTTL)
    BY <1>5, <2>1, ConstantTypes DEF Receive, TypeOK, RequestsOK, RequestOK
  <2>3. sessionCookie'[b].value = v \/ sessionCookie'[b] = sessionCookie[b]
    BY <2>2, StoredValue
  <2>4. QED
    BY <2>1, <2>2, <2>3 DEF Keeps
<1>6. QED
  BY <1>1, <1>2, <1>3, <1>4, <1>5 DEF Next, Quiet

LEMMA NextOneKeeper ==
  IInv /\ OneKeeper /\ [Next]_vars => OneKeeper'
BY KeeperSteps DEF OneKeeper

\* A logout was begun with a cookie of its browser, or was before.
LEMMA NextLogoutsOwn ==
  IInv /\ OneKeeper /\ LogoutsKnowTokens /\ LogoutsOwn /\ [Next]_vars => LogoutsOwn'
<1> SUFFICES ASSUME IInv, OneKeeper, LogoutsKnowTokens, LogoutsOwn, [Next]_vars,
                    NEW q \in Requests, NEW c \in Browsers,
                    pc'[q] = "logout", Keeps(c, arg[q].token)'
             PROVE  c = arg'[q].browser
  BY DEF LogoutsOwn
<1> USE DEF IInv
<1>1. CASE pc[q] = "logout" /\ arg'[q] = arg[q]
  <2>1. arg[q].token \in Tokens /\ arg[q].token \in drawn
    BY <1>1 DEF LogoutsKnowTokens, RequestsOK, RequestOK
  <2>2. PICK t : t = arg[q].token
    OBVIOUS
  <2>3. Keeps(c, t)'
    BY <1>1, <2>2
  <2>4. Keeps(c, t)
    BY <2>1, <2>2, <2>3, KeeperSteps
  <2>5. QED
    BY <1>1, <2>2, <2>4 DEF LogoutsOwn
<1>2. CASE Logout(q)
  <2>1. PICK b \in Browsers :
          \/ /\ Sent(sessionCookie[b]) # NoValue
             /\ Begin(q, "logout",
                      [NoArg EXCEPT !.browser = b, !.token = Sent(sessionCookie[b])])
          \/ BeginAnswered(q, b, Keep, NoValue)
    BY <1>2 DEF Logout
  <2>2. ~BeginAnswered(q, b, Keep, NoValue)
    BY DEF BeginAnswered, TypeOK
  <2>3. PICK t : t = sessionCookie[b].value
    OBVIOUS
  <2>4. t \in Tokens /\ arg'[q].token = t /\ arg'[q].browser = b
    <3>1. /\ Sent(sessionCookie[b]) # NoValue
          /\ arg' = [arg EXCEPT ![q] =
               [NoArg EXCEPT !.browser = b, !.token = Sent(sessionCookie[b])]]
      BY <2>1, <2>2 DEF Begin
    <3>2. Sent(sessionCookie[b]) = t /\ t \in Tokens
      BY <2>3, <3>1, SentStored DEF TypeOK, Cookies
    <3>3. arg'[q] = [NoArg EXCEPT !.browser = b, !.token = t]
      BY <3>1, <3>2 DEF TypeOK
    <3>4. QED
      BY <3>2, <3>3 DEF NoArg
  <2>5. Keeps(b, t)
    BY <2>3 DEF Keeps
  <2>6. Keeps(c, t)'
    BY <2>4
  <2>7. Keeps(c, t)
    BY <1>2, <2>4, <2>6, QuietStep, NoNewKeeper DEF Quiet
  <2>8. QED
    BY <2>4, <2>5, <2>7 DEF OneKeeper
<1>3. ~Logout(q) => pc[q] = "logout" /\ arg'[q] = arg[q]
  <2> SUFFICES ASSUME ~Logout(q) PROVE pc[q] = "logout" /\ arg'[q] = arg[q]
    OBVIOUS
  <2>1. CASE UNCHANGED <<pc, arg>>
    BY <2>1
  <2>2. ASSUME NEW r \in Requests, r # q,
               \E s, a : pc' = [pc EXCEPT ![r] = s] /\ arg' = [arg EXCEPT ![r] = a]
        PROVE  pc[q] = "logout" /\ arg'[q] = arg[q]
    BY <2>2 DEF TypeOK
  <2>3. ASSUME NEW r \in Requests,
               StartLogin(r) \/ Callback(r) \/ CallbackRefused(r)
                 \/ Page(r) \/ Exchange(r)
                 \/ Userinfo(r) \/ Upsert(r) \/ InsertSession(r) \/ DeleteSession(r)
                 \/ CurrentUser(r) \/ Finish(r) \/ Fail(r) \/ Receive(r) \/ Lose(r)
        PROVE  pc[q] = "logout" /\ arg'[q] = arg[q]
    <3>1. \E s, a : pc' = [pc EXCEPT ![r] = s] /\ arg' = [arg EXCEPT ![r] = a]
      BY <2>3, ZenonT(60) DEF StartLogin, BeginAnswered, Callback, CallbackRefused,
         Page, Begin, Exchange, Userinfo, Upsert, InsertSession,
         DeleteSession, CurrentUser, Finish, Receive, Lose, Fail, LoginFailed,
         Answer, End, Goto
    <3>2. pc'[r] # "logout"
      BY <2>3 DEF StartLogin, BeginAnswered, Callback, CallbackRefused,
         Page, Begin, Exchange, Userinfo, Upsert, InsertSession,
         DeleteSession, CurrentUser, Finish, Receive, Lose, Fail, LoginFailed,
         Answer, End, Goto, TypeOK
    <3>3. QED
      BY <2>2, <3>1, <3>2
  <2>4. ASSUME NEW r \in Requests, Logout(r)
        PROVE  pc[q] = "logout" /\ arg'[q] = arg[q]
    <3>1. \E s, a : pc' = [pc EXCEPT ![r] = s] /\ arg' = [arg EXCEPT ![r] = a]
      BY <2>4, ZenonT(60) DEF Logout, Begin, BeginAnswered
    <3>2. QED
      BY <2>2, <2>4, <3>1
  <2>5. QED
    BY <2>1, <2>3, <2>4 DEF Next, vars, Tick, Consent
<1>4. QED
  BY <1>1, <1>2, <1>3

\* Signing out in one browser ends the session of no other, however logins
\* and logouts cross (auth/service.go:118-154, handler.go:165-174).
THEOREM SignOutsAreOwn == Spec => SignOutIsOwn
<1>1. Init => OneKeeper /\ LogoutsOwn /\ LogoutsKnowTokens
  BY SessionsAssumption DEF Init, OneKeeper, LogoutsOwn, LogoutsKnowTokens, Keeps, NoCookie,
     NoAnswer
<1>2. ASSUME IInv, LogoutsOwn, [Next]_vars, NEW t \in Tokens,
             sessions[t] # NoSession, sessions'[t] = NoSession
      PROVE  \E r \in Requests :
               /\ pc[r] = "logout" /\ arg[r].token = t
               /\ \A b \in Browsers : sessionCookie[b].value = t => b = arg[r].browser
  <2>1. PICK r \in Requests : DeleteSession(r)
    <3>1. \A r \in Requests : InsertSession(r) => sessions'[t] # NoSession
      BY <1>2, NullAssumption DEF InsertSession, IInv, TypeOK, RequestsOK, RequestOK, Login,
         Args, SessionRows, Codes
    <3>2. QED
      BY <1>2, <3>1 DEF Next, vars, Tick, Consent, StartLogin, Callback, CallbackRefused,
         Logout, Page, Exchange, Userinfo, Upsert, CurrentUser, Finish, Receive,
         Lose, Fail, server
  <2>2. pc[r] = "logout" /\ arg[r].token = t
    BY <1>2, <2>1 DEF DeleteSession, IInv, TypeOK
  <2>3. QED
    BY <1>2, <2>2 DEF LogoutsOwn, Keeps
<1>3. IInv /\ LogoutsOwn /\ [Next]_vars =>
        [\A t \in Tokens :
           sessions[t] # NoSession /\ sessions'[t] = NoSession =>
             \E r \in Requests :
               /\ pc[r] = "logout" /\ arg[r].token = t
               /\ \A b \in Browsers :
                    sessionCookie[b].value = t => b = arg[r].browser]_vars
  BY <1>2
<1>4. QED
  BY <1>1, <1>3, NextOneKeeper, NextLogoutsKnowTokens, NextLogoutsOwn, Invariant, PTL
     DEF Spec, SignOutIsOwn

=============================================================================
