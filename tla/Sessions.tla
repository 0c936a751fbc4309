------------------------------- MODULE Sessions -------------------------------
(***************************************************************************)
(* Signing in with Google, sessions and signing out.  A browser sends its  *)
(* cookies with a request and stores the ones an answer sets when the      *)
(* answer arrives; several requests of one browser can be under way and    *)
(* their answers arrive in any order or not at all.  The server keeps      *)
(* nothing but the tables users and sessions, each statement of which is   *)
(* one step.  An answer that sets no cookie changes nothing, so a request  *)
(* ends with it; so does one that is refused before its first statement.   *)
(* Google, the browsers and their users are external.                      *)
(***************************************************************************)
EXTENDS Integers

CONSTANTS
  Browsers,
  Accounts,     \* Google accounts, one google_sub each
  States,       \* the values randomState can draw
  Tokens,       \* the values randomToken can draw, and their hashes
  Requests,     \* slots for requests being served
  Clock,        \* the times at which the system runs, by NOW()
  Skew,         \* how far the process's clock is ahead of the database's
  StateTTL,     \* Max-Age of the state cookie
  SessionTTL,   \* Max-Age of the session cookie, and sessionTTL
  NoValue,      \* a cookie that is not there
  Keep,         \* an answer that leaves a cookie alone
  NoAccount, NoCode, NoBrowser, NoSession

VARIABLES
  now,
  users,          \* table users: the accounts that have a row
  sessions,       \* table sessions: a row, or NoSession, for each token_hash
  drawn,          \* the random values drawn so far
  stateCookie,    \* habitual_oauth_state, of each browser
  sessionCookie,  \* habitual_session, of each browser
  atGoogle,       \* the states each browser was sent to Google with
  consents,       \* the codes Google has issued
  unspent,        \* ... and not yet exchanged
  pc,             \* what each request does next
  arg,            \* what each request has come to know
  answer          \* the cookies the answer to each request sets

server == <<users, sessions, drawn>>
browser == <<stateCookie, sessionCookie, atGoogle>>
google == <<consents, unspent>>
vars == <<now, server, browser, google, pc, arg, answer>>

ASSUME SessionsAssumption ==
  /\ Clock \subseteq Int
  /\ Skew \in Int /\ StateTTL \in Nat /\ SessionTTL \in Nat
  /\ States \cap Tokens = {}
  /\ NoValue \notin States \cup Tokens
  /\ Keep \notin States \cup Tokens \cup {NoValue}
  /\ NoAccount \notin Accounts
  /\ NoBrowser \notin Browsers

\* The callback's query, with the browser that asked for it: the handler
\* sees the state and the code, Google knows whose it is.
Codes == [browser : Browsers, state : States, account : Accounts]

SessionRows == [user : Accounts, expiresAt : Int]

ASSUME NullAssumption ==
  /\ NoCode \notin Codes
  /\ NoSession \notin SessionRows

Cookies(values) == [value : values \cup {NoValue}, until : Int]

NoCookie == [value |-> NoValue, until |-> 0]

\* The value a browser sends: none once Max-Age is over.
Sent(cookie) == IF now < cookie.until THEN cookie.value ELSE NoValue

\* The cookie a browser has after an answer that sets it to value.
Stored(cookie, value, maxAge) ==
  CASE value = Keep -> cookie
    [] value = NoValue -> NoCookie
    [] OTHER -> [value |-> value, until |-> now + maxAge]

Login == {"exchange", "userinfo", "upsert", "insert"}

Busy == Login \cup {"logout", "auth", "acting"}

Args ==
  [browser : Browsers \cup {NoBrowser},
   code    : Codes \cup {NoCode},
   account : Accounts \cup {NoAccount},
   token   : Tokens \cup {NoValue},
   until   : Int]

NoArg ==
  [browser |-> NoBrowser, code |-> NoCode, account |-> NoAccount,
   token |-> NoValue, until |-> 0]

Answers ==
  [state : States \cup {NoValue, Keep}, session : Tokens \cup {NoValue, Keep}]

NoAnswer == [state |-> Keep, session |-> Keep]

-----------------------------------------------------------------------------

Init ==
  /\ now \in Clock
  /\ users = {}
  /\ sessions = [t \in Tokens |-> NoSession]
  /\ drawn = {}
  /\ stateCookie = [b \in Browsers |-> NoCookie]
  /\ sessionCookie = [b \in Browsers |-> NoCookie]
  /\ atGoogle = [b \in Browsers |-> {}]
  /\ consents = {}
  /\ unspent = {}
  /\ pc = [r \in Requests |-> "idle"]
  /\ arg = [r \in Requests |-> NoArg]
  /\ answer = [r \in Requests |-> NoAnswer]

Tick ==
  /\ \E t \in Clock : t > now /\ now' = t
  /\ UNCHANGED <<server, browser, google, pc, arg, answer>>

\* A user signs in on a page of Google, which issues a code.
Consent ==
  /\ \E b \in Browsers, s \in States, a \in Accounts :
       LET code == [browser |-> b, state |-> s, account |-> a]
       IN  /\ s \in atGoogle[b]
           /\ consents' = consents \cup {code}
           /\ unspent' = unspent \cup {code}
  /\ UNCHANGED <<now, server, browser, pc, arg, answer>>

-----------------------------------------------------------------------------

\* A request of browser b arrives and is about to run this statement.
Begin(r, statement, a) ==
  /\ pc[r] = "idle"
  /\ pc' = [pc EXCEPT ![r] = statement]
  /\ arg' = [arg EXCEPT ![r] = a]
  /\ UNCHANGED <<now, browser, google, answer>>

\* A request of browser b arrives and is answered without a statement.
BeginAnswered(r, b, state, session) ==
  /\ pc[r] = "idle"
  /\ pc' = [pc EXCEPT ![r] = "answered"]
  /\ arg' = [arg EXCEPT ![r] = [NoArg EXCEPT !.browser = b]]
  /\ answer' = [answer EXCEPT ![r] = [state |-> state, session |-> session]]
  /\ UNCHANGED <<now, browser, google>>

\* The handler has written its answer.
Answer(r, state, session) ==
  /\ pc' = [pc EXCEPT ![r] = "answered"]
  /\ arg' = [arg EXCEPT ![r] = [NoArg EXCEPT !.browser = arg[r].browser]]
  /\ answer' = [answer EXCEPT ![r] = [state |-> state, session |-> session]]
  /\ UNCHANGED <<now, browser>>

\* The handler has written an answer that sets no cookie.
End(r) ==
  /\ pc' = [pc EXCEPT ![r] = "idle"]
  /\ arg' = [arg EXCEPT ![r] = NoArg]
  /\ UNCHANGED <<now, browser, answer>>

\* The handler goes on to its next call.
Goto(r, statement, a) ==
  /\ pc' = [pc EXCEPT ![r] = statement]
  /\ arg' = [arg EXCEPT ![r] = a]
  /\ UNCHANGED <<now, browser, answer>>

\* A login that failed: the state cookie was expired before it began.
LoginFailed(r) == Answer(r, NoValue, Keep)

-----------------------------------------------------------------------------

\* startGoogleLogin: the redirect to Google sets the state cookie.
StartLogin(r) ==
  /\ \E b \in Browsers, s \in States \ drawn :
       /\ BeginAnswered(r, b, s, Keep)
       /\ drawn' = drawn \cup {s}
  /\ UNCHANGED <<users, sessions>>

\* Faulty variant: the state is not compared with the cookie.
CallbackUncompared(r) ==
  /\ \E b \in Browsers, code \in consents :
       Begin(r, "exchange", [NoArg EXCEPT !.browser = b, !.code = code])
  /\ UNCHANGED server

\* googleCallback with a code, in any browser that opens its address: a
\* state that is not the cookie's is refused.
Callback(r) ==
  /\ \E b \in Browsers, code \in consents :
       /\ Sent(stateCookie[b]) = code.state
       /\ Begin(r, "exchange", [NoArg EXCEPT !.browser = b, !.code = code])
  /\ UNCHANGED server

\* googleCallback without a code: the user refused at Google.
CallbackRefused(r) ==
  /\ \E b, c \in Browsers :
       /\ Sent(stateCookie[b]) \in atGoogle[c]
       /\ BeginAnswered(r, b, NoValue, Keep)
  /\ UNCHANGED server

\* Google accepts each code once; its answer may be lost.
Exchange(r) ==
  /\ pc[r] = "exchange"
  /\ \/ /\ arg[r].code \in unspent
        /\ unspent' = unspent \ {arg[r].code}
        /\ Goto(r, "userinfo", arg[r]) \/ LoginFailed(r)
     \/ /\ arg[r].code \notin unspent
        /\ LoginFailed(r)
        /\ UNCHANGED unspent
  /\ UNCHANGED <<consents, server>>

\* Faulty variant: an incomplete user is accepted.
UserinfoUnvalidated(r) ==
  /\ pc[r] = "userinfo"
  /\ \E a \in {arg[r].code.account, NoAccount} :
       Goto(r, "upsert", [arg[r] EXCEPT !.account = a])
  /\ UNCHANGED <<google, server>>

\* fetchGoogleUser: a timeout, an error or missing fields end the login.
Userinfo(r) ==
  /\ pc[r] = "userinfo"
  /\ \/ Goto(r, "upsert", [arg[r] EXCEPT !.account = arg[r].code.account])
     \/ LoginFailed(r)
  /\ UNCHANGED <<google, server>>

\* upsertGoogleUser, and the process's clock read for createSession.
Upsert(r) ==
  /\ pc[r] = "upsert"
  /\ users' = users \cup {arg[r].account}
  /\ \/ Goto(r, "insert",
             [arg[r] EXCEPT !.until = now + Skew + SessionTTL])
     \/ LoginFailed(r)
  /\ UNCHANGED <<google, sessions, drawn>>

\* createSession with a new token, which the answer hands to the browser;
\* randomToken may have none to give.
InsertSession(r) ==
  /\ pc[r] = "insert"
  /\ \/ \E t \in Tokens \ drawn :
          /\ drawn' = drawn \cup {t}
          /\ sessions' = [sessions EXCEPT ![t] =
               [user |-> arg[r].account, expiresAt |-> arg[r].until]]
          /\ Answer(r, NoValue, t) \/ LoginFailed(r)
     \/ /\ Tokens \subseteq drawn
        /\ LoginFailed(r)
        /\ UNCHANGED <<sessions, drawn>>
  /\ UNCHANGED <<google, users>>

-----------------------------------------------------------------------------

\* logout: without a cookie there is nothing to delete.
Logout(r) ==
  /\ \E b \in Browsers :
       LET token == Sent(sessionCookie[b])
       IN  \/ /\ token # NoValue
              /\ Begin(r, "logout",
                       [NoArg EXCEPT !.browser = b, !.token = token])
           \/ /\ token = NoValue
              /\ BeginAnswered(r, b, Keep, NoValue)
  /\ UNCHANGED server

\* Faulty variant: the user is signed out everywhere.
DeleteSessionsOfUser(r) ==
  /\ pc[r] = "logout"
  /\ sessions' = [t \in Tokens |->
       IF /\ sessions[t] # NoSession /\ sessions[arg[r].token] # NoSession
          /\ sessions[t].user = sessions[arg[r].token].user
       THEN NoSession ELSE sessions[t]]
  /\ Answer(r, Keep, NoValue)
  /\ UNCHANGED <<google, users, drawn>>

\* DeleteSession.
DeleteSession(r) ==
  /\ pc[r] = "logout"
  /\ sessions' = [sessions EXCEPT ![arg[r].token] = NoSession]
  /\ Answer(r, Keep, NoValue)
  /\ UNCHANGED <<google, users, drawn>>

\* withCurrentUser and requireAuth: a request without a cookie is sent to
\* the login page.
Page(r) ==
  /\ \E b \in Browsers :
       LET token == Sent(sessionCookie[b])
       IN  /\ token # NoValue
           /\ Begin(r, "auth", [NoArg EXCEPT !.browser = b, !.token = token])
  /\ UNCHANGED server

\* CurrentUser's WHERE clause and join.
Live(token) ==
  /\ sessions[token] # NoSession
  /\ sessions[token].user \in users
  /\ sessions[token].expiresAt > now

\* Faulty variant: the expiry is not tested.
CurrentUserExpired(r) ==
  /\ pc[r] = "auth"
  /\ \/ /\ sessions[arg[r].token] # NoSession
        /\ Goto(r, "acting",
             [arg[r] EXCEPT !.account = sessions[arg[r].token].user])
     \/ /\ sessions[arg[r].token] = NoSession
        /\ End(r)
  /\ UNCHANGED <<google, server>>

\* CurrentUser: the request acts as the user of a live session from here on.
CurrentUser(r) ==
  /\ pc[r] = "auth"
  /\ \/ /\ Live(arg[r].token)
        /\ Goto(r, "acting",
             [arg[r] EXCEPT !.account = sessions[arg[r].token].user])
     \/ /\ ~Live(arg[r].token)
        /\ End(r)
  /\ UNCHANGED <<google, server>>

\* The handler behind requireAuth is done.
Finish(r) ==
  /\ pc[r] = "acting"
  /\ End(r)
  /\ UNCHANGED <<google, server>>

-----------------------------------------------------------------------------

\* A call or statement fails without effect, or the client goes away.  Only
\* a login tells the browser so; that a session was not deleted is logged.
Fail(r) ==
  /\ \/ pc[r] \in Login /\ LoginFailed(r)
     \/ pc[r] = "logout" /\ Answer(r, Keep, NoValue)
     \/ pc[r] \in {"auth", "acting"} /\ End(r)
  /\ UNCHANGED <<google, server>>

\* The answer arrives: the browser stores its cookies and follows a
\* redirect to Google.
Receive(r) ==
  /\ pc[r] = "answered"
  /\ LET b == arg[r].browser
         a == answer[r]
     IN  /\ stateCookie' = [stateCookie EXCEPT ![b] =
              Stored(@, a.state, StateTTL)]
         /\ sessionCookie' = [sessionCookie EXCEPT ![b] =
              Stored(@, a.session, SessionTTL)]
         /\ atGoogle' = [atGoogle EXCEPT ![b] = @ \cup ({a.state} \cap States)]
  /\ pc' = [pc EXCEPT ![r] = "idle"]
  /\ arg' = [arg EXCEPT ![r] = NoArg]
  /\ answer' = [answer EXCEPT ![r] = NoAnswer]
  /\ UNCHANGED <<now, server, google>>

\* The answer is lost.
Lose(r) ==
  /\ pc[r] = "answered"
  /\ pc' = [pc EXCEPT ![r] = "idle"]
  /\ arg' = [arg EXCEPT ![r] = NoArg]
  /\ answer' = [answer EXCEPT ![r] = NoAnswer]
  /\ UNCHANGED <<now, server, browser, google>>

Next ==
  \/ Tick
  \/ Consent
  \/ \E r \in Requests :
       \/ StartLogin(r) \/ Callback(r) \/ CallbackRefused(r)
       \/ Logout(r) \/ Page(r)
       \/ Exchange(r) \/ Userinfo(r) \/ Upsert(r) \/ InsertSession(r)
       \/ DeleteSession(r) \/ CurrentUser(r) \/ Finish(r)
       \/ Fail(r) \/ Receive(r) \/ Lose(r)

Spec == Init /\ [][Next]_vars

-----------------------------------------------------------------------------

TypeOK ==
  /\ now \in Clock
  /\ users \subseteq Accounts
  /\ sessions \in [Tokens -> SessionRows \cup {NoSession}]
  /\ drawn \subseteq States \cup Tokens
  /\ stateCookie \in [Browsers -> Cookies(States)]
  /\ sessionCookie \in [Browsers -> Cookies(Tokens)]
  /\ atGoogle \in [Browsers -> SUBSET States]
  /\ consents \subseteq Codes
  /\ unspent \subseteq consents
  /\ pc \in [Requests -> Busy \cup {"idle", "answered"}]
  /\ arg \in [Requests -> Args]
  /\ answer \in [Requests -> Answers]

\* A browser is signed in only as an account that was signed in to at Google
\* in this very browser, whatever addresses of callbacks are opened where and
\* in whatever order answers arrive (handler.go:132-136, auth/service.go:86-116).
SignedInWhereConsented ==
  \A b \in Browsers :
    LET token == sessionCookie[b].value
    IN  token # NoValue /\ sessions[token] # NoSession =>
          \E s \in States :
            [browser |-> b, state |-> s, account |-> sessions[token].user]
              \in consents

\* A session is deleted only by a logout that was sent with its cookie, and
\* no browser but the one that sent it has that cookie: however logins and
\* logouts of several browsers cross, are lost or fail, signing out in one
\* ends the session of no other, of the same user's neither
\* (auth/service.go:118-154, handler.go:165-174).
SignOutIsOwn ==
  [][\A t \in Tokens :
       sessions[t] # NoSession /\ sessions'[t] = NoSession =>
         \E r \in Requests :
           /\ pc[r] = "logout" /\ arg[r].token = t
           /\ \A b \in Browsers : sessionCookie[b].value = t => b = arg[r].browser]_vars

-----------------------------------------------------------------------------

\* The sessions a browser can be handed, and the requests that act for users.
Actors ==
  [r \in Requests |-> IF pc[r] = "acting" THEN arg[r].account ELSE NoAccount]

Abstract == INSTANCE Logins WITH
  NoGrant <- NoSession,
  Nobody  <- NoAccount,
  Times   <- {t + Skew + SessionTTL : t \in Clock},
  Life    <- Skew + SessionTTL,
  grants  <- sessions,
  given   <- drawn \cap Tokens,
  actors  <- Actors

\* A request starts to act for a user only while a login of that user is in
\* force: none that was signed out ever is again, and none outlives its term,
\* counted from the login by the database's clock, by more than the two
\* clocks differ (auth/service.go:118-154, 209-220).
ImplementsLogins == Abstract!Spec

=============================================================================
