------------------------ MODULE ConsoleSessionProofs ------------------------
(***************************************************************************)
(* Proofs about ConsoleSession, for any browsers, slots and lifetimes: an  *)
(* operation is performed behind a live login of the browser that asks for *)
(* it, a login belongs to one browser, and a cookie dies by a logout, a    *)
(* restart or another page only.                                           *)
(***************************************************************************)
EXTENDS ConsoleSession, FiniteSetTheorems, TLAPS

InFlight(r) == requests[r] # Free

\* What a request or a response is made of, once for every action.
Rendered == FormToken \cup {NoForm, NoPage}

\* The requests are a table over the slots, and nothing in the console knows a
\* token that was not drawn yet.
Numbered ==
  /\ requests \in [Slots -> Request \cup {Free}]
  /\ \A b \in Browsers : jar[b] <= minted
  /\ \A r \in Slots : InFlight(r) => requests[r].mandate_token <= minted

Shape == TypeOK /\ Numbered

-----------------------------------------------------------------------------
(* Requests.                                                               *)

\* A request that has a place is one.
LEMMA Placed ==
  ASSUME Shape, NEW r \in Slots, requests[r].at \in Places
  PROVE  requests[r] \in Request /\ InFlight(r)
BY DEF Shape, Numbered, Free, Places, InFlight

\* A request is never a free slot.
LEMMA RequestIsNotFree == Free \notin Request
BY DEF Request, Free, Places

\* The route of a request answers it; the others are left alone.
LEMMA AnsweredRequest ==
  ASSUME Shape, NEW r \in Slots, requests[r] \in Request, NEW token \in Token,
         NEW form \in Rendered, Answered(r, token, form)
  PROVE  /\ requests' \in [Slots -> Request \cup {Free}]
         /\ requests'[r] \in Request
         /\ requests'[r] = [requests[r] EXCEPT !.at = "answered",
                              !.mandate_token = token, !.rendered = form]
         /\ \A s \in Slots : s # r => requests'[s] = requests[s]
<1> DEFINE now == [requests[r] EXCEPT !.at = "answered",
                     !.mandate_token = token, !.rendered = form]
<1>1. now \in Request
  BY DEF Request, Rendered, Places
<1>2. requests' = [requests EXCEPT ![r] = now]
  BY DEF Answered, Shape, Numbered
<1> HIDE DEF now
<1>3. requests \in [Slots -> Request \cup {Free}]
  BY DEF Shape, Numbered
<1> QED
  BY <1>1, <1>2, <1>3 DEF now

\* A request that arrives: the session its cookie opens, or a new one.
Arrived(b, kind, r) ==
  LET token == requests'[r].mandate_token IN
  /\ requests[r] = Free
  /\ requests' \in [Slots -> Request \cup {Free}]
  /\ requests'[r] \in Request
  /\ requests'[r].browser = b
  /\ requests'[r].kind = kind
  /\ requests'[r].at # "form" \/ kind = "login"
  /\ \A s \in Slots : s # r => requests'[s] = requests[s]
  /\ Cardinality({s \in Slots : InFlight(s) /\ requests[s].browser = b})
       < Tabs[b]
  /\ \/ /\ token = jar[b] /\ token \in DOMAIN sessions
        /\ UNCHANGED <<sessions, minted>>
     \/ /\ token = minted + 1 /\ minted' = token /\ token \in Token
        /\ sessions' = With(token, NewSession(token, FALSE))
  /\ UNCHANGED <<clock, jar, page, logins, excused, performed>>

\* An arrival takes one free slot and leaves the others alone.
LEMMA ArrivedRequest ==
  ASSUME Shape, NEW b \in Browsers, NEW kind \in Kinds,
         NEW form \in FormToken \cup {NoForm}, Arrive(b, kind, form)
  PROVE  \E r \in Slots : Arrived(b, kind, r)
<1> DEFINE known == jar[b] \in DOMAIN sessions
           token == IF known THEN jar[b] ELSE minted + 1
           asked == [ browser |-> b, kind |-> kind, mandate_token |-> token,
                      csrf_token |-> form,
                      at |-> CASE kind = "page" -> "handler"
                               [] kind = "login" -> "form"
                               [] OTHER -> "auth",
                      rendered |-> NoPage ]
<1>1. PICK r \in Slots :
        /\ requests[r] = Free
        /\ Cardinality({s \in Slots : requests[s] # Free
                                       /\ requests[s].browser = b}) < Tabs[b]
        /\ token \in Token
        /\ sessions' = IF known THEN sessions
                       ELSE With(token, NewSession(token, FALSE))
        /\ minted' = IF known THEN minted ELSE token
        /\ requests' = [requests EXCEPT ![r] = asked]
        /\ UNCHANGED <<clock, jar, page, ghosts>>
  BY DEF Arrive
<1>2. asked \in Request
  BY <1>1 DEF Request, Places, Kinds
<1>3. /\ asked.browser = b /\ asked.kind = kind /\ asked.mandate_token = token
      /\ asked.at # "form" \/ kind = "login"
  OBVIOUS
<1> HIDE DEF asked
<1>4. /\ requests'[r] = asked
      /\ requests' \in [Slots -> Request \cup {Free}]
      /\ \A s \in Slots : s # r => requests'[s] = requests[s]
  BY <1>1, <1>2 DEF Shape, Numbered
<1>5. Arrived(b, kind, r)
  <2>1. Cardinality({s \in Slots : InFlight(s) /\ requests[s].browser = b})
          < Tabs[b]
    BY <1>1 DEF InFlight
  <2>2. CASE known
    BY <1>1, <1>2, <1>3, <1>4, <2>1, <2>2 DEF Arrived, ghosts
  <2>3. CASE ~ known
    BY <1>1, <1>2, <1>3, <1>4, <2>1, <2>3 DEF Arrived, ghosts
  <2> QED
    BY <2>2, <2>3
<1> QED
  BY <1>5


\* The other steps.  A request goes on, under the token it has: an operation to
\* its form only through an authenticated session.
Others(r) == \A s \in Slots : s # r => requests'[s] = requests[s]
Keeps(r) ==
  /\ requests[r] \in Request
  /\ requests' \in [Slots -> Request \cup {Free}]
  /\ requests'[r] \in Request
  /\ requests'[r].browser = requests[r].browser
  /\ requests'[r].kind = requests[r].kind
  /\ Others(r)
Moves(r) ==
  /\ Keeps(r)
  /\ requests'[r].mandate_token = requests[r].mandate_token
  /\ requests'[r].at = "form" => IsAuthenticated(requests[r].mandate_token)
  /\ UNCHANGED <<sessions, minted, clock, jar, page, logins, excused>>

\* A login gives its request a session under a new token, in the place of the
\* one it had.
LogsIn(r) ==
  LET old == requests[r].mandate_token
      new == minted + 1
  IN  /\ Keeps(r)
      /\ requests'[r].mandate_token = new /\ requests'[r].at = "answered"
      /\ new \in Token /\ minted' = new
      /\ DOMAIN sessions' = (DOMAIN sessions \ {old}) \cup {new}
      /\ sessions'[new] = NewSession(new, TRUE)
      /\ \A t \in DOMAIN sessions \ {old, new} : sessions'[t] = sessions[t]
      /\ DOMAIN logins' = DOMAIN logins \cup {new}
      /\ logins'[new] = requests[r].browser
      /\ \A t \in DOMAIN logins \ {new} : logins'[t] = logins[t]
      /\ UNCHANGED <<clock, jar, page, excused>>

LogsOut(r) ==
  LET token == requests[r].mandate_token IN
  /\ Keeps(r)
  /\ requests'[r].mandate_token = token /\ requests'[r].at = "answered"
  /\ DOMAIN sessions' = DOMAIN sessions \ {token}
  /\ \A t \in DOMAIN sessions' : sessions'[t] = sessions[t]
  /\ excused' = excused \cup {token}
  /\ UNCHANGED <<minted, clock, jar, page, logins>>

Responds(r) ==
  /\ requests[r] \in Request
  /\ requests' = [requests EXCEPT ![r] = Free]
  /\ jar' = [jar EXCEPT ![requests[r].browser] = requests[r].mandate_token]
  /\ page' = page \/ page' = [page EXCEPT ![requests[r].browser] =
                                            requests[r].rendered]
  /\ page' # page => requests[r].rendered # NoPage
  /\ UNCHANGED <<sessions, minted, clock, logins, excused>>

Effect ==
  \/ \E b \in Browsers, kind \in {"page", "login", "logout", "operation"},
        r \in Slots : Arrived(b, kind, r)
  \/ \E r \in Slots : Moves(r) \/ LogsIn(r) \/ LogsOut(r) \/ Responds(r)
  \/ \E b, other \in Browsers : CookieReplaced(b, other)
  \/ Restart
  \/ Tick
  \/ UNCHANGED <<sessions, minted, clock, jar, page, requests, logins, excused>>

\* What a page shows is a form token, or none.
LEMMA FormType ==
  ASSUME Shape, NEW token
  PROVE  FormFor(token) \in Rendered
BY DEF Shape, TypeOK, Session, FormFor, Rendered

\* Answering a request with the token it has is going on.
LEMMA AnsweredMoves ==
  ASSUME Shape, NEW r \in Slots, requests[r] \in Request, NEW form \in Rendered,
         Answered(r, requests[r].mandate_token, form),
         UNCHANGED <<sessions, minted, clock, jar, page, logins, excused>>
  PROVE  Moves(r)
<1>1. requests[r].mandate_token \in Token
  BY DEF Request
<1>2. /\ requests' \in [Slots -> Request \cup {Free}]
      /\ requests'[r] \in Request
      /\ requests'[r] = [requests[r] EXCEPT !.at = "answered",
                           !.mandate_token = requests[r].mandate_token,
                           !.rendered = form]
      /\ Others(r)
  BY <1>1, AnsweredRequest DEF Others
<1>3. /\ requests'[r].browser = requests[r].browser
      /\ requests'[r].kind = requests[r].kind
      /\ requests'[r].mandate_token = requests[r].mandate_token
      /\ requests'[r].at = "answered"
  BY <1>2 DEF Request
<1> QED
  BY <1>2, <1>3 DEF Moves, Keeps

\* Every action of the console is one of the effects.
LEMMA StepEffects == Shape /\ [Next]_vars => Effect
<1> SUFFICES ASSUME Shape, [Next]_vars PROVE Effect
  OBVIOUS
<1>1. \A r \in Slots : requests[r].at \in Places => requests[r] \in Request
  BY Placed
<1>2. NoPage \in Rendered
  BY DEF Rendered
<1>3. ASSUME NEW b \in Browsers, NEW kind \in Kinds,
             NEW form \in FormToken \cup {NoForm}, Arrive(b, kind, form)
      PROVE  Effect
  BY <1>3, ArrivedRequest DEF Effect, Kinds
<1>4. ASSUME NEW r \in Slots, RequireAuth(r)
      PROVE  Effect
  <2>1. requests[r] \in Request
    BY <1>1, <1>4 DEF RequireAuth, Places
  <2>2. CASE ~ IsAuthenticated(requests[r].mandate_token)
    BY <1>2, <1>4, <2>1, <2>2, AnsweredMoves
       DEF RequireAuth, Refused, Effect, server, ghosts
  <2>3. CASE IsAuthenticated(requests[r].mandate_token)
    <3> DEFINE place == IF requests[r].kind = "operation" THEN "form"
                        ELSE "handler"
    <3>1. requests' = [requests EXCEPT ![r].at = place]
      BY <1>4, <2>3 DEF RequireAuth
    <3>2. [requests[r] EXCEPT !.at = place] \in Request
      BY <2>1 DEF Request, Places
    <3>3. /\ requests'[r] = [requests[r] EXCEPT !.at = place]
          /\ requests' \in [Slots -> Request \cup {Free}]
          /\ Others(r)
      <4> HIDE DEF place
      <4> QED
        BY <3>1, <3>2 DEF Shape, Numbered, Others
    <3>4. /\ requests'[r].browser = requests[r].browser
          /\ requests'[r].kind = requests[r].kind
          /\ requests'[r].mandate_token = requests[r].mandate_token
      BY <2>1, <3>3 DEF Request
    <3>5. Moves(r)
      BY <1>4, <2>1, <2>3, <3>2, <3>3, <3>4
         DEF Moves, Keeps, RequireAuth, server, ghosts
    <3> QED
      BY <3>5 DEF Effect
  <2> QED
    BY <2>2, <2>3
<1>5. ASSUME NEW r \in Slots, ShowPage(r)
      PROVE  Effect
  BY <1>1, <1>5, AnsweredMoves, FormType
     DEF ShowPage, Effect, Places, server, ghosts
<1>6. ASSUME NEW r \in Slots, LoginWrong(r)
      PROVE  Effect
  BY <1>1, <1>2, <1>6, AnsweredMoves, FormType
     DEF LoginWrong, AtLogin, Refused, Effect, Places, server, ghosts
<1>7. ASSUME NEW r \in Slots, Operate(r)
      PROVE  Effect
  BY <1>1, <1>2, <1>7, AnsweredMoves
     DEF Operate, Refused, Effect, Places, server
<1>8. ASSUME NEW r \in Slots, LoginRight(r)
      PROVE  Effect
  <2> DEFINE old == requests[r].mandate_token
             new == minted + 1
  <2>1. requests[r] \in Request
    BY <1>1, <1>8 DEF LoginRight, AtLogin, Places
  <2>2. /\ new \in Token /\ minted' = new
        /\ sessions' = [t \in (DOMAIN sessions \ {old}) \cup {new} |->
                          IF t = new THEN NewSession(new, TRUE)
                          ELSE sessions[t]]
        /\ logins' = [t \in DOMAIN logins \cup {new} |->
                        IF t = new THEN requests[r].browser ELSE logins[t]]
        /\ Answered(r, new, NoPage)
        /\ UNCHANGED <<clock, jar, page, excused>>
    BY <1>8 DEF LoginRight, AuthenticateSession
  <2>3. /\ requests' \in [Slots -> Request \cup {Free}]
        /\ requests'[r] \in Request
        /\ requests'[r] = [requests[r] EXCEPT !.at = "answered",
                             !.mandate_token = new, !.rendered = NoPage]
        /\ Others(r)
    BY <1>2, <2>1, <2>2, AnsweredRequest DEF Others
  <2>4. /\ requests'[r].browser = requests[r].browser
        /\ requests'[r].kind = requests[r].kind
        /\ requests'[r].mandate_token = new
        /\ requests'[r].at = "answered"
    BY <2>1, <2>3 DEF Request
  <2>5. LogsIn(r)
    BY <2>1, <2>2, <2>3, <2>4 DEF LogsIn, Keeps
  <2> QED
    BY <2>5 DEF Effect
<1>9. ASSUME NEW r \in Slots, Logout(r)
      PROVE  Effect
  <2> DEFINE token == requests[r].mandate_token
  <2>1. requests[r] \in Request /\ token \in Token
    BY <1>1, <1>9 DEF Logout, Places, Request
  <2>2. /\ requests' \in [Slots -> Request \cup {Free}]
        /\ requests'[r] \in Request
        /\ requests'[r] = [requests[r] EXCEPT !.at = "answered",
                             !.mandate_token = token, !.rendered = NoPage]
        /\ Others(r)
    BY <1>2, <1>9, <2>1, AnsweredRequest DEF Others, Logout, Refused
  <2>3. /\ requests'[r].browser = requests[r].browser
        /\ requests'[r].kind = requests[r].kind
        /\ requests'[r].mandate_token = token
        /\ requests'[r].at = "answered"
    BY <2>1, <2>2 DEF Request
  <2>4. /\ DOMAIN sessions' = DOMAIN sessions \ {token}
        /\ \A t \in DOMAIN sessions' : sessions'[t] = sessions[t]
    BY <1>9 DEF Logout, Without, Restrict
  <2>5. LogsOut(r)
    BY <1>9, <2>1, <2>2, <2>3, <2>4 DEF LogsOut, Keeps, Logout
  <2> QED
    BY <2>5 DEF Effect
<1>10. ASSUME NEW r \in Slots, Respond(r)
       PROVE  Effect
  BY <1>1, <1>10
     DEF Respond, Responds, Effect, CookieToken, Places, server, ghosts
<1> QED
  <2>1. NoForm \in FormToken \cup {NoForm}
        /\ \A b \in Browsers : page[b] \in FormToken \cup {NoForm}
    BY DEF Shape, TypeOK
  <2> QED
    BY <1>3, <1>4, <1>5, <1>6, <1>7, <1>8, <1>9, <1>10, <2>1
       DEF Next, vars, Kinds, Effect


-----------------------------------------------------------------------------
(* Types.                                                                  *)

\* A session table that gained or lost entries is one.
LEMMA NewSessionType ==
  ASSUME Shape, NEW token \in Token, NEW authenticated \in BOOLEAN
  PROVE  NewSession(token, authenticated) \in Session
BY DEF Shape, TypeOK, NewSession, Session, FormToken

\* The shape is kept.
LEMMA ShapeStep == Shape /\ [Next]_vars => Shape'
<1> SUFFICES ASSUME Shape, [Next]_vars PROVE Shape'
  OBVIOUS
<1>1. Effect
  BY StepEffects
<1>2. /\ minted \in Nat /\ MaxSessions \in Nat
      /\ \A b \in Browsers : jar[b] \in Nat
  BY ConsoleAssumption DEF Shape, TypeOK, Token, NoToken
<1>3. performed' \in BOOLEAN
  BY DEF Shape, TypeOK, Next, vars, Arrive, RequireAuth, ShowPage, LoginRight,
     LoginWrong, Logout, Operate, Respond, CookieReplaced, Restart, Tick,
     ghosts
<1> USE DEF Shape, TypeOK, Numbered, InFlight
<1>4. ASSUME NEW b \in Browsers, NEW kind \in Kinds, NEW r \in Slots,
             Arrived(b, kind, r)
      PROVE  Shape'
  <2> DEFINE token == requests'[r].mandate_token
  <2>1. /\ requests[r] = Free
        /\ requests' \in [Slots -> Request \cup {Free}]
        /\ requests'[r] \in Request
        /\ \A s \in Slots : s # r => requests'[s] = requests[s]
        /\ UNCHANGED <<clock, jar, page, logins, excused>>
    BY <1>4 DEF Arrived
  <2>2. CASE /\ token = jar[b] /\ token \in DOMAIN sessions
             /\ UNCHANGED <<sessions, minted>>
    BY <1>2, <1>3, <2>1, <2>2
  <2>3. CASE /\ token = minted + 1 /\ minted' = token /\ token \in Token
             /\ sessions' = With(token, NewSession(token, FALSE))
    <3>1. /\ DOMAIN sessions' = DOMAIN sessions \cup {token}
          /\ sessions'[token] = NewSession(token, FALSE)
          /\ \A t \in DOMAIN sessions : t # token => sessions'[t] = sessions[t]
      BY <2>3 DEF With
    <3>2. NewSession(token, FALSE) \in Session
      BY <2>3, NewSessionType
    <3> HIDE DEF token
    <3>3. \A t \in DOMAIN sessions' : sessions'[t] \in Session
      BY <3>1, <3>2
    <3>4. minted' \in 0..MaxSessions /\ minted <= minted'
      BY <1>2, <2>3 DEF Token
    <3>5. DOMAIN sessions' \subseteq 1..minted'
      <4>1. 1..minted \subseteq 1..minted' /\ minted' \in 1..minted'
        BY <1>2, <2>3, <3>4
      <4>2. token \in 1..minted'
        BY <2>3, <4>1
      <4> QED
        BY <3>1, <4>1, <4>2
    <3>6. \A c \in Browsers : jar'[c] <= minted'
      BY <1>2, <2>1, <3>4
    <3>7. \A s \in Slots : requests'[s] # Free =>
            requests'[s].mandate_token <= minted'
      <4>1. token <= minted'
        BY <2>3, <3>4
      <4>2. \A s \in Slots : requests[s] # Free =>
              requests[s].mandate_token \in Nat
        BY DEF Request, Token
      <4> QED
        BY <1>2, <2>1, <2>3, <3>4, <4>1, <4>2 DEF token
    <3> QED
      BY <1>2, <1>3, <2>1, <3>3, <3>4, <3>5, <3>6, <3>7
  <2> QED
    BY <1>4, <2>2, <2>3 DEF Arrived
<1>5. ASSUME NEW r \in Slots, Moves(r)
      PROVE  Shape'
  BY <1>3, <1>5, RequestIsNotFree DEF Moves, Keeps, Others
<1>6. ASSUME NEW r \in Slots, LogsIn(r)
      PROVE  Shape'
  <2> DEFINE new == minted + 1
  <2>1. /\ new \in Token /\ minted' = new /\ minted' \in 0..MaxSessions
        /\ minted <= minted'
    BY <1>2, <1>6 DEF LogsIn, Token
  <2>2. NewSession(new, TRUE) \in Session
    BY <2>1, NewSessionType
  <2>3. DOMAIN sessions' \subseteq 1..minted'
    BY <1>2, <1>6, <2>1 DEF LogsIn
  <2>4. \A t \in DOMAIN sessions' : sessions'[t] \in Session
    BY <1>6, <2>2 DEF LogsIn
  <2>5. DOMAIN logins' \subseteq Token
    BY <1>6 DEF LogsIn
  <2>6. \A s \in Slots : requests'[s] # Free =>
          requests'[s].mandate_token <= minted'
    BY <1>2, <1>6, <2>1 DEF LogsIn, Keeps, Others, Request, Token
  <2> QED
    BY <1>2, <1>3, <1>6, <2>1, <2>3, <2>4, <2>5, <2>6 DEF LogsIn, Keeps
<1>7. ASSUME NEW r \in Slots, LogsOut(r)
      PROVE  Shape'
  <2>1. requests[r].mandate_token \in Token /\ requests[r] # Free
    BY <1>7, RequestIsNotFree DEF LogsOut, Keeps, Request
  <2> QED
    BY <1>3, <1>7, <2>1 DEF LogsOut, Keeps, Others
<1>8. ASSUME NEW r \in Slots, Responds(r)
      PROVE  Shape'
  <2>1. /\ requests[r].mandate_token \in Token /\ requests[r] # Free
        /\ requests[r].browser \in Browsers
        /\ requests[r].rendered \in Rendered
    BY <1>8, RequestIsNotFree DEF Responds, Request, Rendered
  <2>2. page' \in [Browsers -> FormToken \cup {NoForm}]
    BY <1>8, <2>1 DEF Responds, Rendered
  <2> QED
    BY <1>3, <1>8, <2>1, <2>2 DEF Responds
<1>9. ASSUME NEW b \in Browsers, NEW other \in Browsers,
             CookieReplaced(b, other)
      PROVE  Shape'
  BY <1>3, <1>9 DEF CookieReplaced, server
<1>10. CASE Restart
  BY <1>2, <1>3, <1>10 DEF Restart, Token
<1>11. CASE Tick
  BY <1>3, <1>11, ConsoleAssumption DEF Tick, ghosts
<1>12. CASE UNCHANGED <<sessions, minted, clock, jar, page, requests, logins,
                        excused>>
  BY <1>3, <1>12
<1> QED
  BY <1>1, <1>4, <1>5, <1>6, <1>7, <1>8, <1>9, <1>10, <1>11, <1>12
     DEF Effect, Kinds

\* The tables of the console keep their shape, and no cookie, request or
\* session carries a token that was not drawn.
THEOREM ConsoleTypeCorrect == Spec => []TypeOK
<1>1. Init => Shape
  BY ConsoleAssumption
     DEF Init, Shape, TypeOK, Numbered, InFlight, NoToken, Free, Token
<1> QED
  BY <1>1, ShapeStep, PTL DEF Spec, Shape


-----------------------------------------------------------------------------
(* Logins.                                                                 *)

\* Every authenticated session has its login on record; an operation that
\* waits for its form passed require_auth, so its session is authenticated as
\* long as it is there: a session is never changed in place.
LoginsKnown ==
  \A token \in DOMAIN sessions :
    sessions[token].authenticated => token \in DOMAIN logins
FormsPassedAuth ==
  \A r \in Slots :
    LET request == requests[r] IN
    /\ InFlight(r) /\ request.at = "form" /\ request.kind = "operation"
    /\ request.mandate_token \in DOMAIN sessions
    => sessions[request.mandate_token].authenticated

Owned == LoginsKnown /\ OneBrowserPerLogin /\ FormsPassedAuth

\* The browsers that hold a token.
HeldBy(b, token) ==
  \/ jar[b] = token
  \/ \E r \in Slots : /\ InFlight(r) /\ requests[r].browser = b
                      /\ requests[r].mandate_token = token

\* Every session there is was drawn, and the next one was not.
LEMMA Drawn ==
  ASSUME Shape
  PROVE  /\ \A token \in DOMAIN sessions : token # minted + 1
         /\ \A b \in Browsers : ~ HeldBy(b, minted + 1)
BY ConsoleAssumption DEF Shape, TypeOK, Numbered, HeldBy, InFlight, Request, Token, NoToken

\* A login stays that of one browser, and forms wait behind the guard.
LEMMA OwnedStep == Shape /\ Owned /\ [Next]_vars => Owned'
<1> SUFFICES ASSUME Shape, Owned, [Next]_vars PROVE Owned'
  OBVIOUS
<1>1. Effect
  BY StepEffects
<1> DEFINE new == minted + 1
<1>2. /\ new \notin DOMAIN sessions
      /\ \A b \in Browsers : jar[b] # new
      /\ \A r \in Slots : InFlight(r) => requests[r].mandate_token # new
  <2>1. \A r \in Slots : InFlight(r) => requests[r].browser \in Browsers
    BY DEF Shape, Numbered, InFlight, Request
  <2> QED
    BY <2>1, Drawn DEF HeldBy
<1>3. /\ \A r \in Slots : requests[r] \in Request => InFlight(r)
      /\ \A b \in Browsers : jar[b] = jar[b]
  BY RequestIsNotFree DEF InFlight
<1> HIDE DEF new
<1> USE DEF Owned, LoginsKnown, OneBrowserPerLogin, FormsPassedAuth, InFlight
<1>4. ASSUME NEW b \in Browsers, NEW kind \in Kinds, NEW r \in Slots,
             Arrived(b, kind, r)
      PROVE  Owned'
  <2> DEFINE token == requests'[r].mandate_token
  <2>1. /\ requests'[r].browser = b /\ requests'[r].kind = kind
        /\ requests'[r].at # "form" \/ kind = "login"
        /\ \A s \in Slots : s # r => requests'[s] = requests[s]
        /\ UNCHANGED <<jar, logins>>
    BY <1>4 DEF Arrived
  <2>2. CASE token = jar[b] /\ UNCHANGED sessions
    BY <2>1, <2>2
  <2>3. CASE token = new /\ sessions' = With(token, NewSession(token, FALSE))
    <3>1. /\ DOMAIN sessions' = DOMAIN sessions \cup {new}
          /\ sessions'[new].authenticated = FALSE
          /\ \A t \in DOMAIN sessions : sessions'[t] = sessions[t]
      BY <1>2, <2>3 DEF With, NewSession
    <3>2. requests'[r].mandate_token = new
      BY <2>3
    <3>3. ASSUME NEW t \in DOMAIN sessions', sessions'[t].authenticated
          PROVE  /\ t \in DOMAIN sessions /\ t # new
                 /\ sessions[t].authenticated
      BY <3>1, <3>3
    <3> HIDE DEF token
    <3>4. LoginsKnown'
      BY <2>1, <3>3
    <3>5. OneBrowserPerLogin'
      BY <2>1, <3>2, <3>3
    <3>6. FormsPassedAuth'
      <4>1. \A s \in Slots : s # r /\ InFlight(s) =>
              requests'[s].mandate_token # new
        BY <1>2, <2>1
      <4> QED
        BY <1>2, <2>1, <3>1, <4>1
    <3> QED
      BY <3>4, <3>5, <3>6
  <2> QED
    BY <1>4, <2>2, <2>3 DEF Arrived, new
<1>5. ASSUME NEW r \in Slots, Moves(r)
      PROVE  Owned'
  BY <1>3, <1>5 DEF Moves, Keeps, Others, IsAuthenticated
<1>6. ASSUME NEW r \in Slots, LogsIn(r)
      PROVE  Owned'
  <2>1. /\ DOMAIN sessions' \subseteq DOMAIN sessions \cup {new}
        /\ \A t \in DOMAIN sessions' \ {new} :
             t \in DOMAIN sessions /\ sessions'[t] = sessions[t]
        /\ requests'[r].mandate_token = new /\ requests'[r].at = "answered"
        /\ requests'[r].browser = requests[r].browser
        /\ Others(r)
        /\ DOMAIN logins' = DOMAIN logins \cup {new}
        /\ logins'[new] = requests[r].browser
        /\ \A t \in DOMAIN logins \ {new} : logins'[t] = logins[t]
        /\ jar' = jar
    BY <1>6 DEF LogsIn, Keeps, new
  <2>2. LoginsKnown'
    BY <2>1
  <2>3. OneBrowserPerLogin'
    BY <1>2, <2>1 DEF Others
  <2>4. FormsPassedAuth'
    BY <1>2, <2>1 DEF Others
  <2> QED
    BY <2>2, <2>3, <2>4
<1>7. ASSUME NEW r \in Slots, LogsOut(r)
      PROVE  Owned'
  BY <1>3, <1>7 DEF LogsOut, Keeps, Others
<1>8. ASSUME NEW r \in Slots, Responds(r)
      PROVE  Owned'
  <2>1. /\ requests'[r] = Free
        /\ \A s \in Slots : s # r => requests'[s] = requests[s]
        /\ \A b \in Browsers : \/ jar'[b] = jar[b]
                               \/ /\ b = requests[r].browser
                                  /\ jar'[b] = requests[r].mandate_token
        /\ UNCHANGED <<sessions, logins>>
    BY <1>8 DEF Responds, Shape, TypeOK, Numbered
  <2>2. requests[r] # Free
    BY <1>3, <1>8 DEF Responds
  <2>3. LoginsKnown'
    BY <2>1
  <2>4. OneBrowserPerLogin'
    BY <2>1, <2>2
  <2>5. FormsPassedAuth'
    BY <2>1
  <2> QED
    BY <2>3, <2>4, <2>5
<1>9. ASSUME NEW b \in Browsers, NEW other \in Browsers,
             CookieReplaced(b, other)
      PROVE  Owned'
  <2>1. /\ \A c \in Browsers : jar'[c] = jar[c] \/ jar'[c] = jar[other]
        /\ ~ IsAuthenticated(jar[other])
        /\ UNCHANGED <<sessions, logins, requests>>
    BY <1>9 DEF CookieReplaced, server, Shape, TypeOK
  <2> QED
    BY <2>1 DEF IsAuthenticated
<1>10. CASE Restart
  BY <1>10 DEF Restart
<1>11. CASE Tick
  BY <1>11 DEF Tick, ghosts
<1>12. CASE UNCHANGED <<sessions, minted, clock, jar, page, requests, logins,
                        excused>>
  BY <1>12
<1> QED
  BY <1>1, <1>4, <1>5, <1>6, <1>7, <1>8, <1>9, <1>10, <1>11, <1>12
     DEF Effect, Kinds

\* The session table's shape and the ownership of its sessions, together.
LEMMA OwnedHolds == Spec => [](Shape /\ Owned)
<1>1. Init => Shape
  BY ConsoleAssumption
     DEF Init, Shape, TypeOK, Numbered, InFlight, NoToken, Free, Token
<1>2. Init => Owned
  BY DEF Init, Owned, LoginsKnown, OneBrowserPerLogin, FormsPassedAuth,
     InFlight
<1> QED
  BY <1>1, <1>2, ShapeStep, OwnedStep, PTL DEF Spec

\* No browser but the one that logged in holds an authenticated session, in its
\* cookie or in a request, also when they shared a cookie before the login.
THEOREM OneBrowserPerLoginHolds == Spec => []OneBrowserPerLogin
BY OwnedHolds, PTL DEF Owned

\* Between require_auth, the form and the handler anything may happen; the
\* operation still acts for the live login of the browser that asked.
THEOREM OperatedWhileLoggedInHolds == Spec => []OperatedWhileLoggedIn
<1>1. Init => OperatedWhileLoggedIn
  BY DEF Init, OperatedWhileLoggedIn
<1>2. Shape /\ Owned /\ OperatedWhileLoggedIn /\ [Next]_vars
        => OperatedWhileLoggedIn'
  <2> SUFFICES ASSUME Shape, Owned, performed, [Next]_vars
               PROVE  performed'
    BY DEF OperatedWhileLoggedIn
  <2>1. ASSUME NEW r \in Slots, Operate(r)
        PROVE  performed'
    <3> DEFINE token == requests[r].mandate_token
    <3>1. ASSUME VerifyCsrf(requests[r])
          PROVE  IsAuthenticated(token) /\ logins[token] = requests[r].browser
      <4>1. InFlight(r) /\ requests[r].at = "form"
            /\ requests[r].kind = "operation" /\ token \in DOMAIN sessions
        BY <2>1, <3>1, Placed DEF Operate, VerifyCsrf, Places
      <4>2. sessions[token].authenticated
        BY <4>1 DEF Owned, FormsPassedAuth
      <4> QED
        BY <4>1, <4>2 DEF Owned, OneBrowserPerLogin, IsAuthenticated, InFlight
    <3> QED
      BY <2>1, <3>1 DEF Operate
  <2>2. CASE ~ \E r \in Slots : Operate(r)
    BY <2>2 DEF Next, vars, Arrive, RequireAuth, ShowPage, LoginRight,
       LoginWrong, Logout, Respond, CookieReplaced, Restart, Tick, ghosts
  <2> QED
    BY <2>1, <2>2
<1> QED
  BY <1>1, <1>2, OwnedHolds, PTL DEF Spec


-----------------------------------------------------------------------------
(* Cookies.                                                                *)

\* A token that two browsers hold was handed on by another page.
Apart ==
  \A b, other \in Browsers : \A token \in Token :
    b # other /\ HeldBy(b, token) /\ HeldBy(other, token) => token \in excused

\* A browser that sends one request at a time has one in flight.
OneAtATime ==
  \A b \in Browsers : Tabs[b] = 1 =>
    \A r, s \in Slots :
      /\ InFlight(r) /\ requests[r].browser = b
      /\ InFlight(s) /\ requests[s].browser = b
      => r = s

\* The request of such a browser has a live session, until a logout, a restart
\* or another page takes it away.
RequestAlive ==
  \A r \in Slots :
    /\ InFlight(r) /\ Tabs[requests[r].browser] = 1
    /\ requests[r].mandate_token \notin excused
    => requests[r].mandate_token \in DOMAIN sessions

Alive == Apart /\ OneAtATime /\ RequestAlive /\ CookieOutlivesLogin

\* A step makes nobody hold what it did not hold, except one browser the next
\* token and whoever another page hands a cookie to.
LEMMA NewHolder ==
  ASSUME Shape, Effect
  PROVE  /\ excused \subseteq excused'
         /\ \E who : \A b \in Browsers, token \in Token :
              HeldBy(b, token)' =>
                \/ HeldBy(b, token)
                \/ b = who /\ token = minted + 1
                \/ token \in excused'
<1> DEFINE new == minted + 1
           Goal == /\ excused \subseteq excused'
                   /\ \E who : \A b \in Browsers, token \in Token :
                        HeldBy(b, token)' =>
                          \/ HeldBy(b, token)
                          \/ b = who /\ token = new
                          \/ token \in excused'
<1>0. \A r \in Slots : requests[r] \in Request => InFlight(r)
  BY RequestIsNotFree DEF InFlight
<1> HIDE DEF new
<1> USE DEF HeldBy, InFlight
<1>1. ASSUME NEW b \in Browsers, NEW kind, NEW r \in Slots,
             Arrived(b, kind, r)
      PROVE  Goal
  <2>1. /\ requests'[r].browser = b
        /\ \A s \in Slots : s # r => requests'[s] = requests[s]
        /\ UNCHANGED <<jar, excused>>
        /\ requests'[r].mandate_token \in {jar[b], new}
    BY <1>1 DEF Arrived, new
  <2>2. ASSUME NEW c \in Browsers, NEW token \in Token, HeldBy(c, token)'
        PROVE  HeldBy(c, token) \/ (c = b /\ token = new)
    BY <2>1, <2>2
  <2> QED
    BY <2>1, <2>2
<1>2. ASSUME NEW r \in Slots, Moves(r) \/ LogsOut(r)
      PROVE  Goal
  <2>1. /\ requests'[r].browser = requests[r].browser
        /\ requests'[r].mandate_token = requests[r].mandate_token
        /\ requests[r] # Free
        /\ Others(r) /\ jar' = jar /\ excused \subseteq excused'
    BY <1>0, <1>2 DEF Moves, LogsOut, Keeps
  <2>2. ASSUME NEW c \in Browsers, NEW token \in Token, HeldBy(c, token)'
        PROVE  HeldBy(c, token)
    BY <2>1, <2>2 DEF Others
  <2> QED
    BY <2>1, <2>2
<1>3. ASSUME NEW r \in Slots, LogsIn(r)
      PROVE  Goal
  <2>1. /\ requests'[r].browser = requests[r].browser
        /\ requests'[r].mandate_token = new
        /\ Others(r) /\ jar' = jar /\ excused' = excused
    BY <1>3 DEF LogsIn, Keeps, new
  <2>2. ASSUME NEW c \in Browsers, NEW token \in Token, HeldBy(c, token)'
        PROVE  \/ HeldBy(c, token)
               \/ c = requests[r].browser /\ token = new
    BY <2>1, <2>2 DEF Others
  <2> QED
    BY <2>1, <2>2
<1>4. ASSUME NEW r \in Slots, Responds(r)
      PROVE  Goal
  <2>1. /\ requests'[r] = Free /\ requests[r] # Free
        /\ \A s \in Slots : s # r => requests'[s] = requests[s]
        /\ \A b \in Browsers : \/ jar'[b] = jar[b]
                               \/ /\ b = requests[r].browser
                                  /\ jar'[b] = requests[r].mandate_token
        /\ excused' = excused
    BY <1>0, <1>4 DEF Responds, Shape, TypeOK, Numbered
  <2>2. ASSUME NEW c \in Browsers, NEW token \in Token, HeldBy(c, token)'
        PROVE  HeldBy(c, token)
    BY <2>1, <2>2
  <2> QED
    BY <2>1, <2>2
<1>5. ASSUME NEW b \in Browsers, NEW other \in Browsers,
             CookieReplaced(b, other)
      PROVE  Goal
  BY <1>5 DEF CookieReplaced, server, Shape, TypeOK
<1>6. ASSUME Restart PROVE Goal
  BY <1>6 DEF Restart
<1>7. ASSUME Tick \/ UNCHANGED <<sessions, minted, clock, jar, page, requests,
                                 logins, excused>>
      PROVE  Goal
  BY <1>7 DEF Tick, ghosts
<1>8. Goal
  <2> HIDE DEF Goal
  <2> QED
    BY <1>1, <1>2, <1>3, <1>4, <1>5, <1>6, <1>7 DEF Effect
<1> QED
  BY <1>8 DEF new

\* No effect hands the token of one browser to another.
LEMMA ApartStep == ASSUME Shape, Apart, Effect PROVE Apart'
<1> SUFFICES ASSUME NEW b \in Browsers, NEW other \in Browsers,
                    NEW token \in Token, b # other,
                    HeldBy(b, token)', HeldBy(other, token)'
             PROVE  token \in excused'
  BY DEF Apart
<1>1. /\ excused \subseteq excused'
      /\ \E who : \A c \in {b, other} :
           \/ HeldBy(c, token)
           \/ c = who /\ token = minted + 1
           \/ token \in excused'
  BY NewHolder
<1>2. token = minted + 1 => ~ HeldBy(b, token) /\ ~ HeldBy(other, token)
  BY Drawn
<1> QED
  BY <1>1, <1>2 DEF Apart

\* A request arrives where the browser has a tab left for it.
LEMMA OneAtATimeStep == ASSUME Shape, OneAtATime, Effect PROVE OneAtATime'
<1>0. \A r \in Slots : requests[r] \in Request => InFlight(r)
  BY RequestIsNotFree DEF InFlight
<1>1. ASSUME NEW b \in Browsers, NEW kind, NEW r \in Slots,
             Arrived(b, kind, r)
      PROVE  OneAtATime'
  <2> DEFINE sent == {s \in Slots : InFlight(s) /\ requests[s].browser = b}
  <2>1. /\ requests'[r].browser = b
        /\ \A s \in Slots : s # r => requests'[s] = requests[s]
        /\ Cardinality(sent) < Tabs[b]
    BY <1>1 DEF Arrived
  <2>2. Tabs[b] = 1 => sent = {}
    <3>1. IsFiniteSet(sent) /\ Cardinality(sent) \in Nat
      BY ConsoleAssumption, FS_Subset, FS_CardinalityType
    <3>2. Tabs[b] = 1 => Cardinality(sent) = 0
      <4> HIDE DEF sent
      <4> QED
        BY <2>1, <3>1
    <3> QED
      BY <3>1, <3>2, FS_EmptySet
  <2> QED
    BY <2>1, <2>2 DEF OneAtATime, InFlight
<1>2. ASSUME NEW r \in Slots, Moves(r) \/ LogsIn(r) \/ LogsOut(r)
      PROVE  OneAtATime'
  <2>1. /\ requests'[r].browser = requests[r].browser /\ InFlight(r)
        /\ Others(r)
    BY <1>0, <1>2 DEF Moves, LogsIn, LogsOut, Keeps
  <2> QED
    BY <2>1 DEF OneAtATime, InFlight, Others
<1>3. ASSUME NEW r \in Slots, Responds(r)
      PROVE  OneAtATime'
  <2>1. /\ requests'[r] = Free
        /\ \A s \in Slots : s # r => requests'[s] = requests[s]
    BY <1>3 DEF Responds, Shape, Numbered
  <2> QED
    BY <2>1 DEF OneAtATime, InFlight
<1>4. CASE Restart
  BY <1>4 DEF Restart, OneAtATime, InFlight
<1>5. CASE UNCHANGED requests
  BY <1>5 DEF OneAtATime, InFlight
<1> QED
  BY <1>1, <1>2, <1>3, <1>4, <1>5
     DEF Effect, CookieReplaced, Tick


\* A login takes the session its request came with away from no browser that
\* sends one request at a time, but its own.
LEMMA AliveStep ==
  ASSUME Shape, Apart, OneAtATime, RequestAlive, CookieOutlivesLogin, Effect
  PROVE  RequestAlive' /\ CookieOutlivesLogin'
<1> DEFINE Idle(b) == \A r \in Slots : InFlight(r) => requests[r].browser # b
<1>0. /\ \A r \in Slots : requests[r] \in Request => InFlight(r)
      /\ \A r \in Slots : InFlight(r) =>
           /\ requests[r].browser \in Browsers
           /\ requests[r].mandate_token \in Token
  BY RequestIsNotFree DEF InFlight, Shape, Numbered, Request
<1>1. \A b \in Browsers :
        /\ Tabs[b] = 1 /\ jar[b] # NoToken /\ jar[b] \notin excused /\ Idle(b)
        => jar[b] \in DOMAIN sessions
  BY DEF CookieOutlivesLogin, InFlight
<1>2. ASSUME \A b \in Browsers :
               /\ Tabs[b] = 1 /\ jar'[b] # NoToken /\ jar'[b] \notin excused'
               /\ \A r \in Slots : requests'[r] # Free =>
                                     requests'[r].browser # b
               => jar'[b] \in DOMAIN sessions'
      PROVE  CookieOutlivesLogin'
  BY <1>2 DEF CookieOutlivesLogin
<1>3. ASSUME NEW b \in Browsers, NEW kind, NEW r \in Slots,
             Arrived(b, kind, r)
      PROVE  RequestAlive' /\ CookieOutlivesLogin'
  <2>1. /\ requests'[r].browser = b /\ requests[r] = Free
        /\ requests'[r] # Free
        /\ \A s \in Slots : s # r => requests'[s] = requests[s]
        /\ UNCHANGED <<jar, excused>>
        /\ DOMAIN sessions \subseteq DOMAIN sessions'
        /\ requests'[r].mandate_token \in DOMAIN sessions'
    BY <1>3, RequestIsNotFree DEF Arrived, With
  <2>2. RequestAlive'
    BY <2>1 DEF RequestAlive, InFlight
  <2>3. ASSUME NEW c \in Browsers,
               \A s \in Slots : requests'[s] # Free => requests'[s].browser # c
        PROVE  Idle(c)
    BY <2>1, <2>3 DEF InFlight
  <2> HIDE DEF Idle
  <2> QED
    BY <1>1, <1>2, <2>1, <2>2, <2>3
<1>4. ASSUME NEW r \in Slots, Moves(r) \/ LogsOut(r)
      PROVE  RequestAlive' /\ CookieOutlivesLogin'
  <2> DEFINE token == requests[r].mandate_token
  <2>1. /\ requests'[r].browser = requests[r].browser
        /\ requests'[r].mandate_token = token
        /\ requests[r] # Free /\ requests'[r] # Free
        /\ Others(r) /\ jar' = jar /\ excused \subseteq excused'
        /\ \A t \in DOMAIN sessions : t \in DOMAIN sessions' \/ t \in excused'
    BY <1>0, <1>4, RequestIsNotFree DEF Moves, LogsOut, Keeps, InFlight
  <2>2. RequestAlive'
    BY <2>1 DEF RequestAlive, InFlight, Others
  <2>3. ASSUME NEW c \in Browsers,
               \A s \in Slots : requests'[s] # Free => requests'[s].browser # c
        PROVE  Idle(c)
    BY <2>1, <2>3 DEF InFlight, Others
  <2> HIDE DEF Idle
  <2> QED
    BY <1>1, <1>2, <2>1, <2>2, <2>3
<1>5. ASSUME NEW r \in Slots, LogsIn(r)
      PROVE  RequestAlive' /\ CookieOutlivesLogin'
  <2> DEFINE who == requests[r].browser
             old == requests[r].mandate_token
             new == minted + 1
  <2>1. /\ requests'[r].browser = who /\ requests'[r].mandate_token = new
        /\ requests[r] # Free /\ requests'[r] # Free
        /\ Others(r) /\ jar' = jar /\ excused' = excused
        /\ DOMAIN sessions' = (DOMAIN sessions \ {old}) \cup {new}
    BY <1>0, <1>5, RequestIsNotFree DEF LogsIn, Keeps, InFlight
  <2>2. HeldBy(who, old) /\ who \in Browsers /\ old \in Token
    BY <1>0, <2>1 DEF HeldBy, InFlight
  <2>3. ASSUME NEW s \in Slots, s # r, InFlight(s), Tabs[requests[s].browser] = 1,
               requests[s].mandate_token \notin excused
        PROVE  requests[s].mandate_token # old
    <3>1. requests[s].browser # who
      BY <1>0, <2>1, <2>3 DEF OneAtATime, InFlight
    <3>2. HeldBy(requests[s].browser, requests[s].mandate_token)
          /\ requests[s].browser \in Browsers
      BY <1>0, <2>3 DEF HeldBy
    <3> HIDE DEF who, old
    <3> QED
      BY <2>2, <2>3, <3>1, <3>2 DEF Apart
  <2>4. RequestAlive'
    <3> HIDE DEF who, old, new
    <3> QED
      BY <2>1, <2>3 DEF RequestAlive, InFlight, Others
  <2>5. ASSUME NEW c \in Browsers,
               \A s \in Slots : requests'[s] # Free => requests'[s].browser # c
        PROVE  Idle(c) /\ c # who
    BY <2>1, <2>5 DEF InFlight, Others
  <2>6. ASSUME NEW c \in Browsers, c # who, jar[c] \notin excused
        PROVE  jar[c] # old
    <3> HIDE DEF who, old
    <3> QED
      BY <2>2, <2>6 DEF Apart, HeldBy
  <2> HIDE DEF Idle, who, old, new
  <2> QED
    BY <1>1, <1>2, <2>1, <2>4, <2>5, <2>6
<1>6. ASSUME NEW r \in Slots, Responds(r)
      PROVE  RequestAlive' /\ CookieOutlivesLogin'
  <2> DEFINE who == requests[r].browser
  <2>1. /\ requests'[r] = Free /\ InFlight(r) /\ who \in Browsers
        /\ \A s \in Slots : s # r => requests'[s] = requests[s]
        /\ \A b \in Browsers : b # who => jar'[b] = jar[b]
        /\ jar'[who] = requests[r].mandate_token
        /\ UNCHANGED <<sessions, excused>>
    BY <1>0, <1>6 DEF Responds, Shape, TypeOK, Numbered, InFlight
  <2>2. RequestAlive'
    BY <2>1 DEF RequestAlive, InFlight
  <2>3. ASSUME NEW c \in Browsers, c # who,
               \A s \in Slots : requests'[s] # Free => requests'[s].browser # c
        PROVE  Idle(c)
    BY <2>1, <2>3 DEF InFlight
  <2>4. /\ Tabs[who] = 1 /\ requests[r].mandate_token \notin excused
        => requests[r].mandate_token \in DOMAIN sessions
    BY <2>1 DEF RequestAlive
  <2> HIDE DEF Idle, who
  <2> QED
    BY <1>1, <1>2, <2>1, <2>2, <2>3, <2>4
<1>7. ASSUME NEW b \in Browsers, NEW other \in Browsers,
             CookieReplaced(b, other)
      PROVE  RequestAlive' /\ CookieOutlivesLogin'
  BY <1>7 DEF CookieReplaced, server, Shape, TypeOK, RequestAlive,
     CookieOutlivesLogin, InFlight
<1>8. CASE Restart
  <2>1. \A b \in Browsers : jar[b] # NoToken => jar[b] \in 1..minted
    BY ConsoleAssumption DEF Shape, TypeOK, Numbered, Token, NoToken
  <2> QED
    BY <1>8, <2>1 DEF Restart, RequestAlive, CookieOutlivesLogin, InFlight
<1>9. CASE Tick \/ UNCHANGED <<sessions, minted, clock, jar, page, requests,
                               logins, excused>>
  BY <1>9 DEF Tick, ghosts, RequestAlive, CookieOutlivesLogin, InFlight
<1> QED
  BY <1>3, <1>4, <1>5, <1>6, <1>7, <1>8, <1>9 DEF Effect

\* A browser that sends one request at a time keeps a cookie that opens its
\* session through every login, its own and others'; only a logout, a restart
\* or another page's cookie ends it.
THEOREM CookieOutlivesLoginHolds == Spec => []CookieOutlivesLogin
<1>1. Init => Alive
  BY DEF Init, Alive, Apart, OneAtATime, RequestAlive, CookieOutlivesLogin,
     HeldBy, InFlight, NoToken, Token
<1>2. Shape /\ Alive /\ [Next]_vars => Alive'
  BY StepEffects, ApartStep, OneAtATimeStep, AliveStep DEF Alive
<1> QED
  BY <1>1, <1>2, OwnedHolds, PTL DEF Spec, Alive
=============================================================================
