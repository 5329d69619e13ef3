------------------------------ MODULE Session ------------------------------
(***************************************************************************)
(* One page of the web client: the token in localStorage and in the auth    *)
(* store, the router's guards, App.vue, the forms of LoginView and          *)
(* RegisterView, axios' interceptors and the socket service.  What App.vue  *)
(* starts once a user is known it starts once per page: its appBootstrapped *)
(* is never reset, the socket keeps the token it was made with.             *)
(***************************************************************************)
EXTENDS Notifications

CONSTANTS
  None,
  MaxClicks,                    \* bound: what the user does
  MaxEvents,                    \* bound: expiries, losses, requests of others
  MaxCalls,                     \* bound: requests under way
  MaxLogins                     \* bound: tokens the server gives out

VARIABLES
  storedToken, token, user,     \* localStorage; the auth store
  page,                         \* the route
  form,                         \* the login or registration asked for
  appBootstrapped,
  socket,                       \* the socket service's, with its handshake's token
  calls,                        \* requests under way, in the order of their sending
  accounts, expired, issued,    \* the server: users, tokens refused, tokens given
  clicks, eventsDone,           \* counters for the bounds
  loggedOut,                    \* history: a logout in this page
  reentered,                    \* history: a login over an earlier socket or request
  profileLost,                  \* history: a profile was asked for in vain
  crossed,                      \* history: two polls were under way at once
  pollsOf                       \* history: users with a token here while the polls ran

authVars == <<storedToken, token, user>>
serverVars == <<accounts, expired, issued>>
historyVars == <<loggedOut, reentered, profileLost, crossed, pollsOf>>
counterVars == <<clicks, eventsDone>>
sessionVars == <<notificationVars, authVars, page, form, appBootstrapped, socket, calls,
                 serverVars, counterVars, historyVars>>

GuestPages == {"login", "register"}
Pages == GuestPages \cup {"map", "friends"}      \* settings is as friends here
Tokens == [of : Users, n : 1..MaxLogins]
NoSocket == [tok |-> None, st |-> "none"]
Calls == [kind : {"poll", "page", "boot", "login"}, tok : Tokens \cup {None},
          pc : {"sent", "ok", "refused", "lost"}, got : SUBSET Ids]
Forms == [of : Users, on : GuestPages]

ASSUME SessionAssumption ==
  /\ None \notin Users \cup Tokens \cup Forms
  /\ MaxClicks \in Nat /\ MaxEvents \in Nat /\ MaxCalls \in Nat
  /\ MaxLogins \in Nat \ {0}

SessionTypeOK ==
  /\ NotificationsTypeOK
  /\ storedToken \in Tokens \cup {None} /\ token \in Tokens \cup {None}
  /\ user \in Users \cup {None} /\ form \in Forms \cup {None} /\ page \in Pages
  /\ appBootstrapped \in BOOLEAN
  /\ socket = NoSocket \/ socket \in [tok : Tokens, st : {"connecting", "up", "down"}]
  /\ calls \in Seq(Calls) /\ Len(calls) <= MaxCalls + 2
  /\ accounts \subseteq Users /\ expired \subseteq Tokens /\ issued \in 0..MaxLogins
  /\ clicks \in 0..MaxClicks /\ eventsDone \in 0..MaxEvents
  /\ loggedOut \in BOOLEAN /\ reentered \in BOOLEAN /\ profileLost \in BOOLEAN
  /\ crossed \in BOOLEAN /\ pollsOf \subseteq Users

Call(kind, tok) == [kind |-> kind, tok |-> tok, pc |-> "sent", got |-> {}]
Without(i) == RemoveAt(calls, i)
Good(tok) == tok # None /\ tok \notin expired
Click == clicks < MaxClicks /\ clicks' = clicks + 1 /\ UNCHANGED eventsDone
Event == eventsDone < MaxEvents /\ eventsDone' = eventsDone + 1 /\ UNCHANGED clicks
Sends(kind) == Len(calls) < MaxCalls /\ calls' = Append(calls, Call(kind, storedToken))
Under(kind) == \E i \in DOMAIN calls : calls[i].kind = kind

\* beforeEach.
Guard(to, tok) ==
  CASE to \notin GuestPages /\ tok = None -> "login"
    [] to \in GuestPages /\ tok # None -> "map"
    [] OTHER -> to

\* The page as it is after it was loaded: App.vue asks for the profile.
Loaded(tok) ==
  /\ storedToken' = tok /\ token' = tok /\ user' = None
  /\ page' = IF tok = None THEN "login" ELSE "map"
  /\ calls' = IF tok = None THEN <<>> ELSE <<Call("boot", tok)>>
  /\ form' = None /\ appBootstrapped' = FALSE /\ socket' = NoSocket
  /\ items' = <<>> /\ stopPolling /\ stopSocketListeners
  /\ loggedOut' = FALSE /\ reentered' = FALSE /\ profileLost' = FALSE
  /\ crossed' = FALSE /\ pollsOf' = {}

SessionInit ==
  /\ NotificationsInit
  /\ accounts \in SUBSET Users
  /\ storedToken \in {None} \cup [of : accounts, n : {1}]
  /\ expired \in SUBSET ({storedToken} \ {None})
  /\ issued = IF storedToken = None THEN 0 ELSE 1
  /\ token = storedToken /\ user = None
  /\ page = (IF token = None THEN "login" ELSE "map")
  /\ calls = (IF token = None THEN <<>> ELSE <<Call("boot", token)>>)
  /\ form = None /\ appBootstrapped = FALSE /\ socket = NoSocket
  /\ clicks = 0 /\ eventsDone = 0
  /\ loggedOut = FALSE /\ reentered = FALSE /\ profileLost = FALSE
  /\ crossed = FALSE /\ pollsOf = {}

reload ==
  /\ Click /\ Loaded(storedToken)
  /\ UNCHANGED <<requestVars, serverVars>>

-----------------------------------------------------------------------------
(* App.vue and the auth store.                                              *)

\* Mutant: after a start that failed there are no listeners.
bootstrapHalf(tok, rest) ==
  IF appBootstrapped
  THEN /\ calls' = rest
       /\ UNCHANGED <<appBootstrapped, socket, listening, pollVars, pollsOf>>
  ELSE /\ appBootstrapped' = TRUE
       /\ socket' = IF tok = None THEN NoSocket ELSE [tok |-> tok, st |-> "connecting"]
       /\ IF tok = None THEN UNCHANGED listening ELSE startSocketListeners
       /\ startPolling
       /\ pollsOf' = IF tok = None THEN {} ELSE {tok.of}
       /\ calls' = Append(rest, Call("poll", tok))
\* rest: the other requests under way.  The first poll follows at once.
bootstrapAuthedApp(tok, rest) ==
  IF appBootstrapped
  THEN /\ calls' = rest
       /\ UNCHANGED <<appBootstrapped, socket, listening, pollVars, pollsOf>>
  ELSE /\ appBootstrapped' = TRUE
       /\ socket' = IF tok = None THEN NoSocket ELSE [tok |-> tok, st |-> "connecting"]
       /\ startSocketListeners
       /\ startPolling
       /\ pollsOf' = IF tok = None THEN {} ELSE {tok.of}
       /\ calls' = Append(rest, Call("poll", tok))

\* Mutant: the page stays.
onLogoutStaying ==
  /\ user # None /\ appBootstrapped /\ Click
  /\ stopPolling /\ stopSocketListeners /\ socket' = NoSocket
  /\ storedToken' = None /\ token' = None /\ user' = None
  /\ loggedOut' = TRUE
  /\ UNCHANGED <<requestVars, items, page, form, appBootstrapped, calls, serverVars,
                 reentered, profileLost, crossed, pollsOf>>

\* App.vue's onLogout; the store's logout is its last part.
onLogout ==
  /\ user # None /\ appBootstrapped /\ Click
  /\ stopPolling /\ stopSocketListeners /\ socket' = NoSocket
  /\ storedToken' = None /\ token' = None /\ user' = None
  /\ page' = "login"
  /\ loggedOut' = TRUE
  /\ UNCHANGED <<requestVars, items, form, appBootstrapped, calls, serverVars, reentered,
                 profileLost, crossed, pollsOf>>

\* The links of the navigation bar, shown with a user, and of the two forms.
navigate(to) ==
  /\ to # page /\ Click
  /\ (user # None /\ appBootstrapped /\ to \notin GuestPages) \/ {page, to} = GuestPages
  /\ page' = Guard(to, storedToken)
  /\ UNCHANGED <<notificationVars, authVars, form, appBootstrapped, socket, calls,
                 serverVars, historyVars>>

\* toggleNotifications and NotificationPanel.
useBell ==
  /\ user # None /\ appBootstrapped /\ items # <<>> /\ Click
  /\ markAllRead \/ clearAll \/ \E i \in DOMAIN items : markRead(i)
  /\ UNCHANGED <<requestVars, listening, pollVars, authVars, page, form, appBootstrapped,
                 socket, calls, serverVars, historyVars>>

-----------------------------------------------------------------------------
(* The forms: login or register, then the profile.                          *)

Submit(u) ==
  /\ form = None /\ Click
  /\ ~Under("login")                              \* the button is disabled
  /\ form' = [of |-> u, on |-> page]
  /\ UNCHANGED <<notificationVars, authVars, page, appBootstrapped, socket, calls,
                 serverVars, historyVars>>
loginSubmit(u) == page = "login" /\ Submit(u)
registerSubmit(u) == page = "register" /\ Submit(u)

\* The server's login and register, and the first half of the store's.
entered(t) ==
  /\ form # None /\ issued < MaxLogins
  /\ form.of \in accounts <=> form.on = "login"
  /\ issued' = issued + 1 /\ accounts' = accounts \cup {form.of}
  /\ t = [of |-> form.of, n |-> issued']
  /\ token' = t /\ storedToken' = t
  /\ calls' = Append(calls, Call("login", t))
  /\ form' = None
  /\ reentered' = (reentered \/ socket # NoSocket \/ calls # <<>>)
  /\ pollsOf' = IF polling THEN pollsOf \cup {form.of} ELSE pollsOf
  /\ UNCHANGED <<notificationVars, user, page, appBootstrapped, socket, expired,
                 counterVars, loggedOut, profileLost, crossed>>

-----------------------------------------------------------------------------
(* The answers.                                                             *)

serve(i) ==
  /\ calls[i].pc = "sent"
  /\ calls' = [calls EXCEPT
       ![i].pc = IF Good(calls[i].tok) THEN "ok" ELSE "refused",
       ![i].got = IF Good(calls[i].tok) /\ calls[i].kind = "poll"
                  THEN incomingRequests(calls[i].tok.of) ELSE {}]
  /\ UNCHANGED <<notificationVars, authVars, page, form, appBootstrapped, socket,
                 serverVars, counterVars, historyVars>>

lose(i) ==
  /\ calls[i].pc = "sent" /\ Event
  /\ calls' = [calls EXCEPT ![i].pc = "lost"]
  /\ UNCHANGED <<notificationVars, authVars, page, form, appBootstrapped, socket,
                 serverVars, historyVars>>

\* Wrong data, or a lost request.  The interceptor lets a 401 of these pass.
notEntered ==
  /\ form # None
  /\ form' = None
  /\ UNCHANGED <<notificationVars, authVars, page, appBootstrapped, socket, calls,
                 serverVars, counterVars, historyVars>>

\* Mutant: a request without an answer is taken for a refused one.
failedAway(i) ==
  /\ calls[i].pc \in {"refused", "lost"} /\ page \notin GuestPages
  /\ Loaded(None)
  /\ UNCHANGED <<requestVars, serverVars, counterVars>>

\* The interceptor, for any other request: the token that is stored now is removed,
\* whichever the request had, and location.href = '/login' loads the page again.
refusedAway(i) ==
  /\ calls[i].pc = "refused" /\ page \notin GuestPages
  /\ Loaded(None)
  /\ UNCHANGED <<requestVars, serverVars, counterVars>>

\* On the guests' pages it only removes the token.
Received(i, kind) ==
  /\ calls[i].kind = kind /\ calls[i].pc # "sent"
  /\ IF calls[i].pc = "refused"
     THEN page \in GuestPages /\ storedToken' = None
     ELSE UNCHANGED storedToken

pollAnswered(i) ==
  /\ Received(i, "poll") /\ calls' = Without(i)
  /\ IF calls[i].pc = "ok"
     THEN pollFriendRequests(calls[i].got)
     ELSE UNCHANGED <<items, pollVars>>
  /\ UNCHANGED <<requestVars, listening, token, user, page, form, appBootstrapped, socket,
                 serverVars, counterVars, loggedOut, reentered, profileLost, crossed,
                 pollsOf>>

pageAnswered(i) ==
  /\ Received(i, "page") /\ calls' = Without(i)
  /\ UNCHANGED <<notificationVars, token, user, page, form, appBootstrapped, socket,
                 serverVars, counterVars, loggedOut, reentered, profileLost, crossed,
                 pollsOf>>

\* The second half of the store's login.  A failure leaves the token.
loginAnswered(i) ==
  /\ Received(i, "login")
  /\ IF calls[i].pc = "ok"
     THEN /\ user' = calls[i].tok.of
          /\ page' = Guard("map", storedToken)
          /\ bootstrapAuthedApp(storedToken, Without(i))
          /\ UNCHANGED profileLost
     ELSE /\ calls' = Without(i)
          /\ profileLost' = TRUE
          /\ UNCHANGED <<user, page, appBootstrapped, socket, listening, pollVars,
                         pollsOf>>
  /\ UNCHANGED <<requestVars, items, token, form, serverVars, counterVars, loggedOut,
                 reentered, crossed>>

\* loadProfile, then App.vue's onMounted: it starts the rest even after a failure,
\* which logs out, be it only of the network.
bootAnswered(i) ==
  /\ calls[i].kind = "boot" /\ calls[i].pc \in {"ok", "lost"}
  /\ IF calls[i].pc = "ok"
     THEN user' = calls[i].tok.of /\ UNCHANGED <<storedToken, token, profileLost>>
     ELSE user' = None /\ storedToken' = None /\ token' = None /\ profileLost' = TRUE
  /\ bootstrapAuthedApp(storedToken', Without(i))
  /\ UNCHANGED <<requestVars, items, page, form, serverVars, counterVars, loggedOut,
                 reentered, crossed>>

-----------------------------------------------------------------------------
(* Timers, the pages' requests and the socket.                              *)

pollTick ==
  /\ polling /\ Sends("poll")
  /\ crossed' = (crossed \/ Under("poll"))
  /\ UNCHANGED <<notificationVars, authVars, page, form, appBootstrapped, socket,
                 serverVars, counterVars, loggedOut, reentered, profileLost, pollsOf>>

pageRequest ==
  /\ page \notin GuestPages /\ ~Under("page") /\ Sends("page")
  /\ UNCHANGED <<notificationVars, authVars, page, form, appBootstrapped, socket,
                 serverVars, counterVars, historyVars>>

\* MapView's watchPosition, once the fix has been published: sendLocationUpdate.
ensureConnected ==
  /\ page = "map" /\ Good(storedToken) /\ socket.st \in {"none", "down"}
  /\ socket' = [tok |-> IF socket.st = "none" THEN storedToken ELSE socket.tok,
               st |-> "connecting"]
  /\ UNCHANGED <<notificationVars, authVars, page, form, appBootstrapped, calls,
                 serverVars, counterVars, historyVars>>

\* The gateway takes the handshake's token, or sends INVALID_TOKEN and disconnects;
\* the socket service then removes the token that is stored now.
connected ==
  /\ socket.st = "connecting"
  /\ IF Good(socket.tok)
     THEN socket' = [socket EXCEPT !.st = "up"] /\ UNCHANGED storedToken
     ELSE socket' = [socket EXCEPT !.st = "down"] /\ storedToken' = None
  /\ UNCHANGED <<notificationVars, token, user, page, form, appBootstrapped, calls,
                 serverVars, counterVars, loggedOut, reentered, profileLost, crossed,
                 pollsOf>>

\* The connection is lost and made again by socket.io.
reconnecting ==
  /\ socket.st = "up" /\ Event
  /\ socket' = [socket EXCEPT !.st = "connecting"]
  /\ UNCHANGED <<notificationVars, authVars, page, form, appBootstrapped, calls,
                 serverVars, historyVars>>

expire(t) ==
  /\ t \in {storedToken, socket.tok} \ ({None} \cup expired) /\ Event
  /\ expired' = expired \cup {t}
  /\ UNCHANGED <<notificationVars, authVars, page, form, appBootstrapped, socket, calls,
                 accounts, issued, historyVars>>

requestsMove(id) ==
  /\ Event
  /\ \/ friendRequest(id, socket.st = "up" /\ socket.tok.of = Addressee[id])
     \/ notice(socket.st = "up")
     \/ requestEnds(id)
  /\ UNCHANGED <<authVars, page, form, appBootstrapped, socket, calls, serverVars,
                 historyVars>>

-----------------------------------------------------------------------------
SessionNext ==
  \/ reload \/ onLogout \/ useBell \/ notEntered
  \/ \E to \in Pages : navigate(to)
  \/ \E u \in Users : loginSubmit(u) \/ registerSubmit(u)
  \/ \E t \in Tokens : entered(t) \/ expire(t)
  \/ \E i \in DOMAIN calls :
       serve(i) \/ lose(i) \/ refusedAway(i)
       \/ pollAnswered(i) \/ pageAnswered(i) \/ loginAnswered(i) \/ bootAnswered(i)
  \/ pollTick \/ pageRequest \/ ensureConnected \/ connected \/ reconnecting
  \/ \E id \in Ids : requestsMove(id)

SessionSpec == SessionInit /\ [][SessionNext]_sessionVars

-----------------------------------------------------------------------------
(* Properties.                                                              *)

\* Who is logged in has the polls and the listeners running, after a start that
\* failed too, unless there was a logout since the page was loaded: it stops
\* both, and bootstrapAuthedApp starts neither a second time.
LoggedInListens ==
  user # None /\ ~loggedOut => polling /\ listening

\* The stored token is not removed while the server takes it, on any page: a request
\* or a handshake is refused for its own token (the interceptor, the socket's error
\* events), and that is the stored one, unless the page still had, at its login, a
\* socket or a request with an earlier token or none.  Only a logout removes a good
\* token, and loadProfile's catch, which also takes a lost answer for a refusal.
GoodTokenKept ==
  [][Good(storedToken) /\ storedToken' = None =>
       \/ reentered \/ onLogout
       \/ \E i \in DOMAIN calls : calls[i].pc = "lost" /\ bootAnswered(i)]_sessionVars

\* A page that needs a user has one, but while a profile is asked for and after
\* that was in vain: the guard only asks for a token (router, App.vue, loadProfile,
\* login).
PrivatePageHasUser ==
  page \notin GuestPages /\ user = None => Under("boot") \/ Under("login") \/ profileLost

\* The polls announce each open request they see, and do so once unless two polls
\* were under way at once, or two users had a token in the page while they ran: they
\* go on with the new token and take the requests of the one for those of the other
\* (pollFriendRequests, startPolling, stopPolling).
PollsAnnounceOnce ==
  /\ prevRequestIds \subseteq polled
  /\ twice => crossed \/ \E u, w \in pollsOf : u # w
=============================================================================
