--------------------------- MODULE ConsoleSession ---------------------------
(***************************************************************************)
(* Login, sessions and request tokens of the operator console: the session *)
(* middleware of api/app.py, the guards of api/deps.py, api/security.py    *)
(* and api/routes/auth.py.                                                 *)
(*                                                                         *)
(* The server runs requests on one event loop and switches between them    *)
(* where a handler waits: require_auth is a plain function that FastAPI    *)
(* runs in its thread pool, and a form is awaited before its token is      *)
(* verified.  From verify_csrf to the end of a handler nothing waits, and  *)
(* the response, with the cookie the middleware sets, is a step of its     *)
(* own.  Each of these stretches is one action.                            *)
(*                                                                         *)
(* Session tokens are numbers, never drawn twice (secrets.token_urlsafe).  *)
(* A form token is the number of the session it was made for and the time  *)
(* it was signed.  The secret that signs it is left out: it changes with   *)
(* the process only, which takes every session with it.                    *)
(***************************************************************************)
EXTENDS Naturals, FiniteSets, Functions

CONSTANTS
  Browsers,         \* cookie jars
  Tabs,             \* [Browsers -> Nat]: requests a browser has in flight
  Slots,            \* places for requests in flight
  SESSION_MAX_AGE,  \* how long a form token is accepted
  MaxSessions,      \* bound on the sessions ever made
  MaxClock          \* bound on the clock

ASSUME ConsoleAssumption ==
  /\ IsFiniteSet(Slots)
  /\ Tabs \in [Browsers -> Nat]
  /\ {SESSION_MAX_AGE, MaxSessions, MaxClock} \subseteq Nat

Token == 1 .. MaxSessions
NoToken == 0
FormToken == [session : Token, signed : 0 .. MaxClock]
NoForm == [session |-> NoToken, signed |-> 0]
NoPage == [session |-> NoToken]

Session == [csrf_token : FormToken, authenticated : BOOLEAN]

\* What is asked: a page (a console page, or the login page it redirects to),
\* a login, a logout or an operation on a deal.
Kinds == {"page", "login", "logout", "operation"}

\* Where a request is: about to run require_auth, waiting for its form, about
\* to run its handler, or answered by the route with the cookie still to set.
Places == {"auth", "form", "handler", "answered"}

Request ==
  [ browser : Browsers, kind : Kinds, mandate_token : Token,
    csrf_token : FormToken \cup {NoForm},
    at : Places, rendered : FormToken \cup {NoForm, NoPage} ]
Free == [at |-> "free"]

VARIABLES
  sessions,      \* AppState.sessions
  minted,        \* how many tokens were drawn
  clock,
  jar,           \* each browser's session cookie
  page,          \* the form token on the page each browser shows
  requests,      \* requests in flight
  logins,        \* the browser whose password opened each session
  excused,       \* tokens ended by a logout or with a process, or given to a
                 \* browser by another page
  performed      \* whether each operation so far had a live login behind it

vars == <<sessions, minted, clock, jar, page, requests, logins,
          excused, performed>>

server == <<sessions, minted, clock>>
ghosts == <<logins, excused, performed>>

TypeOK ==
  /\ DOMAIN sessions \subseteq 1 .. minted
  /\ \A token \in DOMAIN sessions : sessions[token] \in Session
  /\ minted \in 0 .. MaxSessions /\ clock \in 0 .. MaxClock
  /\ jar \in [Browsers -> Token \cup {NoToken}]
  /\ page \in [Browsers -> FormToken \cup {NoForm}]
  /\ \A r \in Slots : requests[r] \in Request \cup {Free}
  /\ DOMAIN logins \subseteq Token
  /\ excused \subseteq Token
  /\ performed \in BOOLEAN

Init ==
  /\ sessions = << >> /\ minted = 0 /\ clock = 0
  /\ jar = [b \in Browsers |-> NoToken]
  /\ page = [b \in Browsers |-> NoForm]
  /\ requests = [r \in Slots |-> Free]
  /\ logins = << >>
  /\ excused = {}
  /\ performed = TRUE

-----------------------------------------------------------------------------
\* A faulty variant of NewSession: the form token is left to be made later.
NewSessionWithoutForm(token, authenticated) ==
  [csrf_token |-> NoForm, authenticated |-> authenticated]

\* Session(csrf_token=_new_csrf(state), ...) for the next token drawn.
NewSession(token, authenticated) ==
  [ csrf_token |-> [session |-> token, signed |-> clock],
    authenticated |-> authenticated ]

With(token, session) ==
  [t \in DOMAIN sessions \cup {token} |->
     IF t = token THEN session ELSE sessions[t]]

Without(token) == Restrict(sessions, DOMAIN sessions \ {token})

IsAuthenticated(token) ==
  token \in DOMAIN sessions /\ sessions[token].authenticated

\* csrf_token_for
FormFor(token) ==
  IF token \in DOMAIN sessions THEN sessions[token].csrf_token ELSE NoForm

\* A faulty variant of VerifyCsrf: a token of any session that is signed and
\* young enough is accepted.
VerifyCsrfSignatureOnly(request) ==
  /\ request.csrf_token # NoForm
  /\ clock <= request.csrf_token.signed + SESSION_MAX_AGE

\* verify_csrf: the session is looked up again, after the form has arrived.
VerifyCsrf(request) ==
  /\ request.mandate_token \in DOMAIN sessions
  /\ request.csrf_token # NoForm
  /\ request.csrf_token = sessions[request.mandate_token].csrf_token
  /\ clock <= request.csrf_token.signed + SESSION_MAX_AGE

\* The route of request r is done.  `rendered' is the form token on the page
\* it shows, NoPage for a redirect or an error.
Answered(r, token, form) ==
  requests' = [requests EXCEPT ![r].at = "answered",
                               ![r].mandate_token = token,
                               ![r].rendered = form]

Refused(r) == Answered(r, requests[r].mandate_token, NoPage)

-----------------------------------------------------------------------------
\* session_middleware up to call_next: a request without a live session gets
\* an anonymous one.  A form is sent with the token of the page it is on.
Arrive(b, kind, form) ==
  \E r \in Slots :
    LET known == jar[b] \in DOMAIN sessions
        token == IF known THEN jar[b] ELSE minted + 1
    IN /\ requests[r] = Free
       /\ Cardinality({s \in Slots : requests[s] # Free
                                      /\ requests[s].browser = b}) < Tabs[b]
       /\ token \in Token
       /\ sessions' = IF known THEN sessions
                      ELSE With(token, NewSession(token, FALSE))
       /\ minted' = IF known THEN minted ELSE token
       /\ requests' = [requests EXCEPT ![r] =
            [ browser |-> b, kind |-> kind, mandate_token |-> token,
              csrf_token |-> form,
              at |-> CASE kind = "page" -> "handler"
                       [] kind = "login" -> "form"
                       [] OTHER -> "auth",
              rendered |-> NoPage ]]
       /\ UNCHANGED <<clock, jar, page, ghosts>>

\* require_auth: an operation then waits for its form, a logout goes on to
\* its handler.
RequireAuth(r) ==
  /\ requests[r].at = "auth"
  /\ IF IsAuthenticated(requests[r].mandate_token)
     THEN requests' = [requests EXCEPT ![r].at =
            IF requests[r].kind = "operation" THEN "form" ELSE "handler"]
     ELSE Refused(r)
  /\ UNCHANGED <<server, jar, page, ghosts>>

\* login_get, and home for a session that passes require_auth: either page
\* carries the form token of its session.
ShowPage(r) ==
  /\ requests[r].at = "handler" /\ requests[r].kind = "page"
  /\ Answered(r, requests[r].mandate_token, FormFor(requests[r].mandate_token))
  /\ UNCHANGED <<server, jar, page, ghosts>>

\* A faulty variant of AuthenticateSession: the session is promoted under the
\* token it has.
AuthenticateSessionInPlace(r) ==
  LET token == requests[r].mandate_token
  IN /\ sessions' = With(token, NewSession(token, TRUE))
     /\ minted' = minted
     /\ logins' = [t \in DOMAIN logins \cup {token} |->
                     IF t = token THEN requests[r].browser ELSE logins[t]]
     /\ Answered(r, token, NoPage)

\* authenticate_session: a new token and a new form token; the old entry goes.
AuthenticateSession(r) ==
  LET old == requests[r].mandate_token
      new == minted + 1
  IN /\ new \in Token
     /\ sessions' = [t \in (DOMAIN sessions \ {old}) \cup {new} |->
                       IF t = new THEN NewSession(new, TRUE) ELSE sessions[t]]
     /\ minted' = new
     /\ logins' = [t \in DOMAIN logins \cup {new} |->
                     IF t = new THEN requests[r].browser ELSE logins[t]]
     /\ Answered(r, new, NoPage)

AtLogin(r) == requests[r].at = "form" /\ requests[r].kind = "login"

\* login_post once its form is there, with the operator's password.
LoginRight(r) ==
  /\ AtLogin(r) /\ VerifyCsrf(requests[r])
  /\ AuthenticateSession(r)
  /\ UNCHANGED <<clock, jar, page, excused, performed>>

\* login_post with a form token that does not verify, or with another
\* password: an error, or the login page again.
LoginWrong(r) ==
  /\ AtLogin(r)
  /\ \/ ~ VerifyCsrf(requests[r]) /\ Refused(r)
     \/ /\ VerifyCsrf(requests[r])
        /\ Answered(r, requests[r].mandate_token,
                    FormFor(requests[r].mandate_token))
  /\ UNCHANGED <<server, jar, page, ghosts>>

\* logout: destroy_session.  No form token is asked for.
Logout(r) ==
  LET token == requests[r].mandate_token
  IN /\ requests[r].at = "handler" /\ requests[r].kind = "logout"
     /\ sessions' = Without(token)
     /\ excused' = excused \cup {token}
     /\ Refused(r)
     /\ UNCHANGED <<minted, clock, jar, page, logins, performed>>

\* require_csrf once the form is there, and the handler of the operation.
Operate(r) ==
  LET token == requests[r].mandate_token
  IN /\ requests[r].at = "form" /\ requests[r].kind = "operation"
     /\ Refused(r)
     /\ performed' = (performed /\ (VerifyCsrf(requests[r]) =>
                          /\ IsAuthenticated(token)
                          /\ logins[token] = requests[r].browser))
     /\ UNCHANGED <<server, jar, page, logins, excused>>

\* A faulty variant of CookieToken: the token the middleware read before the
\* route ran.  For a login that is the session its form was made for.
CookieTokenCaptured(request) ==
  IF request.kind = "login" /\ request.rendered = NoPage
     /\ request.csrf_token # NoForm
  THEN request.csrf_token.session ELSE request.mandate_token

\* The middleware reads request.state again: a login has changed it.
CookieToken(request) == request.mandate_token

\* session_middleware after call_next, and the browser that gets the answer:
\* every response sets the cookie, a logout's too.
Respond(r) ==
  LET request == requests[r]
      token == CookieToken(request)
  IN /\ request.at = "answered"
     /\ jar' = [jar EXCEPT ![request.browser] = token]
     /\ page' = IF request.rendered = NoPage THEN page
                ELSE [page EXCEPT ![request.browser] = request.rendered]
     /\ requests' = [requests EXCEPT ![r] = Free]
     /\ UNCHANGED <<server, ghosts>>

-----------------------------------------------------------------------------
\* A cookie is not bound to a port: another page of the machine replaces a
\* browser's cookie by one it has been given itself.
CookieReplaced(b, other) ==
  /\ b # other /\ jar[other] # NoToken /\ ~ IsAuthenticated(jar[other])
  /\ jar' = [jar EXCEPT ![b] = jar[other]]
  /\ excused' = excused \cup {jar[other]}
  /\ UNCHANGED <<server, page, requests, logins, performed>>

\* The process stops and starts: sessions and requests are gone.
Restart ==
  /\ sessions # << >>
  /\ excused' = excused \cup 1 .. minted
  /\ sessions' = << >>
  /\ requests' = [r \in Slots |-> Free]
  /\ UNCHANGED <<minted, clock, jar, page, logins, performed>>

Tick ==
  /\ clock < MaxClock
  /\ clock' = clock + 1
  /\ UNCHANGED <<sessions, minted, jar, page, requests, ghosts>>

Next ==
  \/ \E b \in Browsers :
       Arrive(b, "page", NoForm) \/ Arrive(b, "logout", NoForm)
         \/ Arrive(b, "operation", page[b]) \/ Arrive(b, "login", page[b])
  \/ \E r \in Slots :
       RequireAuth(r) \/ ShowPage(r) \/ LoginRight(r) \/ LoginWrong(r)
         \/ Logout(r) \/ Operate(r) \/ Respond(r)
  \/ \E b, other \in Browsers : CookieReplaced(b, other)
  \/ Restart \/ Tick

Spec == Init /\ [][Next]_vars

-----------------------------------------------------------------------------
\* An operation is performed for the browser whose password opened the
\* session, while that session is live: not after a logout, another login
\* under the same cookie or a restart that came between require_auth, the
\* form and the handler.
OperatedWhileLoggedIn == performed

\* An authenticated session is held by the browser that logged in and by no
\* other, whoever shared its cookie before the login.
OneBrowserPerLogin ==
  \A token \in DOMAIN sessions : sessions[token].authenticated =>
    /\ \A b \in Browsers : jar[b] = token => b = logins[token]
    /\ \A r \in Slots :
         requests[r] # Free /\ requests[r].mandate_token = token =>
           requests[r].browser = logins[token]

\* A browser that sends one request at a time is left with a cookie that no
\* longer opens a session only by a logout, a restart or a cookie that was
\* set by another page: a login hands it the session it made.
CookieOutlivesLogin ==
  \A b \in Browsers :
    (/\ Tabs[b] = 1 /\ jar[b] # NoToken /\ jar[b] \notin excused
     /\ \A r \in Slots : requests[r] # Free => requests[r].browser # b)
    => jar[b] \in DOMAIN sessions
=============================================================================
