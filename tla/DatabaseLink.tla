---------------------------- MODULE DatabaseLink ----------------------------
(***************************************************************************)
(* The one connection the app keeps to Firebase's Realtime Database:       *)
(* FPersistentConnection with the retry helper that schedules its          *)
(* attempts, the FConnection it opens, and the context provider that       *)
(* brings it the signed-in user's token from FIRAuth.                      *)
(*                                                                         *)
(* All of FPersistentConnection runs on one serial queue; a callback is a  *)
(* step of its own.  What FIRAuth tells it, the answers to its token       *)
(* requests and the news that the token changed, passes through the main   *)
(* queue and is taken in the order it was posted: `inbox'.  A request that *)
(* needs a new token from the token service takes its time and is answered *)
(* when the service answers.                                               *)
(*                                                                         *)
(* This module has the connection's state and actions; DatabaseConnection  *)
(* adds the writes and reads that use it.  The delays of the retry helper  *)
(* are left out: a scheduled attempt fires some time later.                *)
(***************************************************************************)
EXTENDS Integers, Sequences

CONSTANT MaxEvents    \* bound: how often the world outside may interfere

ASSUME EventsAssumption == MaxEvents \in Nat

VARIABLES
    \* FPersistentConnection and its FIRRetryHelper
    connectionState, interruptReasons, realtime, authToken,
    forceTokenRefreshes, currentFetchTokenAttempt,
    scheduledRetry,    \* the attempt that is scheduled: none, plain, or forcing a new token
    \* FIRAuth: the signed-in user's token, and what is under way to the connection
    user, minted, fetching, inbox,
    \* the wire and the server
    toServer, toClient, serverToken,
    revoked,           \* the tokens the server no longer takes
    \* history
    events,
    turnedDown,        \* the tokens of which the connection has been told that
    forceLost,         \* a request for a new token was given up before it was answered
    overtaken          \* the connection was opened for a user who was gone by then

clientVars == <<connectionState, interruptReasons, realtime, authToken,
                forceTokenRefreshes, currentFetchTokenAttempt, scheduledRetry>>
authVars == <<user, minted, fetching, inbox>>
serverVars == <<serverToken, revoked>>
wireVars == <<toServer, toClient>>
historyVars == <<events, turnedDown, forceLost, overtaken>>
linkVars == <<clientVars, authVars, serverVars, wireVars, historyVars>>

-----------------------------------------------------------------------------
ConnectionState ==
    {"Disconnected", "GettingToken", "Connecting", "Authenticating", "Connected"}
InterruptReason == {"waiting_for_open", "repo_interrupt", "server_kill"}

\* A token belongs to one stay of a user in the app, and each one is new.
Token == [session : Nat, serial : Nat]
NoToken == [session |-> 0, serial |-> 0]

\* A request for a token: before the work queue has looked at the user
\* (session 0), and while the token service is asked for a new one.
Fetch == [attempt : Nat, forced : BOOLEAN, session : Nat]

News(token) == [type |-> "news", token |-> token]
Fetched(attempt, token) == [type |-> "fetched", attempt |-> attempt, token |-> token]
FetchFailed(attempt) == [type |-> "failed", attempt |-> attempt]

\* A request to authenticate, and whether its answer brings back the
\* outstanding requests; a request to end it, which has no answer.
AuthRequestBare(token, restore) ==      \* not the code: the answer never brings anything back
    [type |-> "auth", token |-> token, restore |-> FALSE]
AuthRequest(token, restore) == [type |-> "auth", token |-> token, restore |-> restore]
Unauth == [type |-> "unauth"]
AuthAnswer(ok, m) == [type |-> "auth", ok |-> ok, token |-> m.token, restore |-> m.restore]

IsConnected == connectionState \in {"Authenticating", "Connected"}
CanSend == connectionState = "Connected"

Event == /\ events < MaxEvents
         /\ events' = events + 1

-----------------------------------------------------------------------------
LinkInit ==
    /\ connectionState = "Disconnected"
    /\ interruptReasons = {"waiting_for_open"}
    /\ realtime = "nil"
    /\ authToken = NoToken
    /\ forceTokenRefreshes = FALSE
    /\ currentFetchTokenAttempt = 0
    /\ scheduledRetry = "none"
    /\ user \in {NoToken, [session |-> 1, serial |-> 1]}
    /\ minted = 1
    /\ fetching = {}
    /\ inbox = <<>>
    /\ toServer = <<>>
    /\ toClient = <<>>
    /\ serverToken = NoToken
    /\ revoked = {}
    /\ events = 0
    /\ turnedDown = {}
    /\ forceLost = FALSE
    /\ overtaken = FALSE

(***************************************************************************)
(* tryScheduleReconnect, with the interrupt reasons and the wish for a new *)
(* token as the caller has just left them.  A retry that is scheduled      *)
(* already is cancelled, and with it the wish it carried.                  *)
(***************************************************************************)
TryScheduleReconnect(reasons, force) ==
    IF reasons = {}
    THEN /\ scheduledRetry' = IF force THEN "forced" ELSE "plain"
         /\ forceTokenRefreshes' = FALSE
         /\ forceLost' = (forceLost \/ (scheduledRetry = "forced" /\ ~force))
    ELSE /\ forceTokenRefreshes' = force
         /\ UNCHANGED <<scheduledRetry, forceLost>>

\* The connection is closed, by either side: onDisconnect.  What was on the
\* wire is lost, and the server's session ends with it.
Close(reasons, force) ==
    /\ connectionState' = "Disconnected"
    /\ realtime' = "nil"
    /\ toServer' = <<>>
    /\ toClient' = <<>>
    /\ serverToken' = NoToken
    /\ overtaken' = FALSE
    /\ TryScheduleReconnect(reasons, force)

\* The server will not take the token: close, and ask for a new one next time.
TokenTurnedDownQuietly(token) ==        \* not the code: nothing asks for a new one
    /\ authToken' = NoToken
    /\ turnedDown' = turnedDown \cup {token}
    /\ Close(interruptReasons, forceTokenRefreshes)
TokenTurnedDown(token) ==
    /\ authToken' = NoToken
    /\ turnedDown' = turnedDown \cup {token}
    /\ Close(interruptReasons, TRUE)

\* A new token is to be asked for, or has been and is not here yet.
ForceUnderWay == scheduledRetry = "forced" \/ \E f \in fetching : f.forced

-----------------------------------------------------------------------------
\* The delay is over: ask FIRAuth for a token.
Retry ==
    /\ scheduledRetry # "none"
    /\ scheduledRetry' = "none"
    /\ connectionState' = "GettingToken"
    /\ currentFetchTokenAttempt' = currentFetchTokenAttempt + 1
    /\ fetching' = fetching \cup {[attempt |-> currentFetchTokenAttempt + 1,
                                   forced |-> scheduledRetry = "forced", session |-> 0]}
    /\ UNCHANGED <<interruptReasons, realtime, authToken, forceTokenRefreshes,
                   user, minted, inbox, serverVars, wireVars, historyVars>>

\* FIRAuth's work queue, and a user's token service, serve requests in turn.
FirstInLine(f) == \A g \in fetching : g.session = f.session => f.attempt <= g.attempt

\* Nobody is signed in, or the token at hand is valid: answer at once.
AnswerToken(f) ==
    /\ f.session = 0
    /\ user = NoToken \/ ~f.forced
    /\ inbox' = Append(inbox, Fetched(f.attempt, user))
    /\ fetching' = fetching \ {f}
    /\ UNCHANGED <<user, minted, forceLost, events>>

\* A new token is wanted, or the one at hand has expired.
RequestToken(f) ==
    /\ f.session = 0
    /\ user # NoToken
    /\ fetching' = (fetching \ {f}) \cup {[f EXCEPT !.session = user.session]}
    /\ UNCHANGED <<user, minted, inbox, forceLost, events>>

\* The token service answers.  The news of the new token goes out before the
\* answer, if the user who asked for it is still the one signed in.
RefreshToken(f) ==
    LET token == [session |-> f.session, serial |-> minted + 1]
    IN  /\ f.session # 0
        /\ minted' = minted + 1
        /\ fetching' = fetching \ {f}
        /\ IF f.session = user.session
           THEN /\ user' = token
                /\ inbox' = inbox \o <<News(token), Fetched(f.attempt, token)>>
           ELSE /\ inbox' = Append(inbox, Fetched(f.attempt, token))
                /\ UNCHANGED user
        /\ UNCHANGED <<forceLost, events>>

\* The service does not answer, or says the user's account is no longer
\* valid, which signs the user out.
RefreshFails(f) ==
    /\ f.session # 0
    /\ Event
    /\ fetching' = fetching \ {f}
    /\ forceLost' = (forceLost \/ f.forced)
    /\ \/ /\ inbox' = Append(inbox, FetchFailed(f.attempt))
          /\ UNCHANGED user
       \/ /\ f.session = user.session
          /\ user' = NoToken
          /\ inbox' = inbox \o <<News(NoToken), FetchFailed(f.attempt)>>
    /\ UNCHANGED minted

TokenService ==
    /\ \E f \in fetching : /\ FirstInLine(f)
                           /\ \/ AnswerToken(f)
                              \/ RequestToken(f)
                              \/ RefreshToken(f)
                              \/ RefreshFails(f)
    /\ UNCHANGED <<clientVars, serverVars, wireVars, turnedDown, overtaken>>

-----------------------------------------------------------------------------
\* An answer counts if it is for the latest attempt.
IsLatestUnchecked(m) == m.attempt > 0   \* not the code: any answer counts
IsLatest(m) == m.attempt = currentFetchTokenAttempt

\* The callback of fetchContextForcingRefresh.
TokenFetched ==
    LET m == Head(inbox)
        latest == IsLatest(m)
    IN  /\ inbox # <<>> /\ m.type \in {"fetched", "failed"}
        /\ inbox' = Tail(inbox)
        /\ \/ /\ latest /\ m.type = "failed"
              /\ connectionState' = "Disconnected"
              /\ TryScheduleReconnect(interruptReasons, forceTokenRefreshes)
              /\ UNCHANGED <<realtime, authToken, overtaken>>
           \/ /\ latest /\ m.type = "fetched" /\ connectionState = "GettingToken"
              /\ connectionState' = "Connecting"
              /\ realtime' = "connecting"
              /\ authToken' = m.token
              /\ overtaken' = (m.token.session # user.session)
              /\ UNCHANGED <<scheduledRetry, forceTokenRefreshes, forceLost>>
           \/ /\ ~latest \/ (m.type = "fetched" /\ connectionState # "GettingToken")
              /\ UNCHANGED <<connectionState, realtime, authToken, overtaken,
                             scheduledRetry, forceTokenRefreshes, forceLost>>
        /\ UNCHANGED <<interruptReasons, currentFetchTokenAttempt, user, minted, fetching,
                       serverVars, wireVars, events, turnedDown>>

\* What the server is told of a new token, or of none.
WordIfSignedIn(token) ==                \* not the code: a sign-out is not passed on
    IF token = NoToken THEN <<>> ELSE <<AuthRequest(token, FALSE)>>
Word(token) == IF token = NoToken THEN <<Unauth>> ELSE <<AuthRequest(token, FALSE)>>

\* The news that the token changed: tell the server, if there is a connection.
RefreshAuthToken ==
    LET token == Head(inbox).token
    IN  /\ inbox # <<>> /\ Head(inbox).type = "news"
        /\ inbox' = Tail(inbox)
        /\ authToken' = token
        /\ toServer' = IF IsConnected THEN toServer \o Word(token) ELSE toServer
        /\ overtaken' = FALSE
        /\ UNCHANGED <<connectionState, interruptReasons, realtime, forceTokenRefreshes,
                       currentFetchTokenAttempt, scheduledRetry, user, minted, fetching,
                       serverVars, toClient, events, turnedDown, forceLost>>

\* The server says hello: restoreAuth.  Without a token the connection is
\* ready, and the outstanding requests, `restored', are sent at once.
Hello(restored) ==
    /\ realtime = "connecting"
    /\ realtime' = "connected"
    /\ IF authToken = NoToken
       THEN /\ connectionState' = "Connected"
            /\ toServer' = toServer \o restored
       ELSE /\ connectionState' = "Authenticating"
            /\ toServer' = Append(toServer, AuthRequest(authToken, TRUE))
    /\ UNCHANGED <<interruptReasons, authToken, forceTokenRefreshes,
                   currentFetchTokenAttempt, scheduledRetry, authVars, serverVars,
                   toClient, historyVars>>

\* The answer to a request to authenticate.
AuthAnswered(restored) ==
    LET m == Head(toClient)
    IN  /\ toClient # <<>> /\ m.type = "auth"
        /\ \/ /\ m.ok
              /\ connectionState' = "Connected"
              /\ toServer' = IF m.restore THEN toServer \o restored ELSE toServer
              /\ toClient' = Tail(toClient)
              /\ UNCHANGED <<realtime, authToken, forceTokenRefreshes, scheduledRetry,
                             serverToken, turnedDown, forceLost, overtaken>>
           \/ /\ ~m.ok
              /\ TokenTurnedDown(m.token)
        /\ UNCHANGED <<interruptReasons, currentFetchTokenAttempt, authVars, revoked, events>>

-----------------------------------------------------------------------------
\* The server takes the next request off the wire.
ServerAuth ==
    LET m == Head(toServer)
    IN  /\ toServer # <<>> /\ m.type \in {"auth", "unauth"}
        /\ toServer' = Tail(toServer)
        /\ \/ /\ m.type = "unauth"
              /\ serverToken' = NoToken
              /\ UNCHANGED <<toClient, revoked, events>>
           \/ /\ m.type = "auth" /\ m.token \notin revoked
              /\ serverToken' = m.token
              /\ toClient' = Append(toClient, AuthAnswer(TRUE, m))
              /\ UNCHANGED <<revoked, events>>
           \/ /\ m.type = "auth"
              /\ \/ m.token \in revoked /\ UNCHANGED events
                 \/ m.token \notin revoked /\ Event
              /\ revoked' = revoked \cup {m.token}
              /\ toClient' = Append(toClient, AuthAnswer(FALSE, m))
              /\ UNCHANGED serverToken
        /\ UNCHANGED <<clientVars, authVars, turnedDown, forceLost, overtaken>>

-----------------------------------------------------------------------------
(***************************************************************************)
(* Events from outside.                                                    *)
(***************************************************************************)
\* The socket fails, cannot be opened in time, or the server resets it.
Drop ==
    /\ realtime # "nil"
    /\ Event
    /\ Close(interruptReasons, forceTokenRefreshes)
    /\ UNCHANGED <<interruptReasons, authToken, currentFetchTokenAttempt, authVars, revoked, turnedDown>>

\* The server revokes the token it was given.
AuthRevoked ==
    /\ serverToken # NoToken
    /\ Event
    /\ revoked' = revoked \cup {serverToken}
    /\ TokenTurnedDown(serverToken)
    /\ UNCHANGED <<interruptReasons, currentFetchTokenAttempt, authVars>>

\* An attempt that is scheduled is called off.
CallOffNothing == UNCHANGED scheduledRetry    \* not the code: the retry helper is not cancelled
CallOff == scheduledRetry' = "none"

\* interruptForReason: close the connection, or give up the attempt to open it.
InterruptForReason(reason) ==
    /\ interruptReasons' = interruptReasons \cup {reason}
    /\ IF realtime # "nil"
       THEN Close(interruptReasons', forceTokenRefreshes)
       ELSE /\ connectionState' = "Disconnected"
            /\ CallOff
            /\ forceLost' = (forceLost \/ ForceUnderWay)
            /\ UNCHANGED <<realtime, wireVars, serverToken, overtaken, forceTokenRefreshes>>
    /\ UNCHANGED <<authToken, currentFetchTokenAttempt, authVars, revoked, turnedDown>>

ResumeForReason(reason) ==
    /\ reason \in interruptReasons
    /\ interruptReasons' = interruptReasons \ {reason}
    /\ IF connectionState = "Disconnected"
       THEN TryScheduleReconnect(interruptReasons', forceTokenRefreshes)
       ELSE UNCHANGED <<scheduledRetry, forceTokenRefreshes, forceLost>>
    /\ UNCHANGED <<connectionState, realtime, authToken, currentFetchTokenAttempt, authVars,
                   serverVars, wireVars, events, turnedDown, overtaken>>

\* The server shuts the connection down for good.
Kill == realtime # "nil" /\ Event /\ InterruptForReason("server_kill")

\* FIRDatabase's goOffline and goOnline.
GoOffline == /\ interruptReasons \cap {"waiting_for_open", "repo_interrupt"} = {}
             /\ Event
             /\ InterruptForReason("repo_interrupt")
GoOnline == ResumeForReason("repo_interrupt")

\* FRepo's deferredInit opens the connection.
Open == ResumeForReason("waiting_for_open")

\* The network is reachable again, or the app enters the foreground.
Nudge ==
    /\ connectionState = "Disconnected" /\ interruptReasons = {}
    /\ Event
    /\ TryScheduleReconnect(interruptReasons, forceTokenRefreshes)
    /\ UNCHANGED <<connectionState, interruptReasons, realtime, authToken,
                   currentFetchTokenAttempt, authVars, serverVars, wireVars, turnedDown, overtaken>>

\* The user signs in or out.
AccountChanges ==
    /\ Event
    /\ IF user = NoToken
       THEN /\ minted' = minted + 1
            /\ user' = [session |-> minted + 1, serial |-> minted + 1]
       ELSE /\ user' = NoToken
            /\ UNCHANGED minted
    /\ inbox' = Append(inbox, News(user'))
    /\ UNCHANGED <<fetching, clientVars, serverVars, wireVars, turnedDown, forceLost, overtaken>>

\* The app ends and is started again: only the signed-in user is kept.
LinkRelaunch ==
    /\ Event
    /\ connectionState' = "Disconnected"
    /\ interruptReasons' = {"waiting_for_open"}
    /\ realtime' = "nil"
    /\ authToken' = NoToken
    /\ forceTokenRefreshes' = FALSE
    /\ currentFetchTokenAttempt' = 0
    /\ scheduledRetry' = "none"
    /\ fetching' = {} /\ inbox' = <<>>
    /\ toServer' = <<>> /\ toClient' = <<>>
    /\ serverToken' = NoToken
    /\ forceLost' = (forceLost \/ forceTokenRefreshes \/ ForceUnderWay)
    /\ overtaken' = FALSE
    /\ UNCHANGED <<user, minted, revoked, turnedDown>>

LinkEvent == Drop \/ AuthRevoked \/ Kill \/ GoOffline \/ GoOnline \/ Open \/ Nudge \/ AccountChanges

-----------------------------------------------------------------------------
LinkTypeOK ==
    /\ connectionState \in ConnectionState
    /\ interruptReasons \subseteq InterruptReason
    /\ realtime \in {"nil", "connecting", "connected"}
    /\ authToken \in Token
    /\ forceTokenRefreshes \in BOOLEAN
    /\ currentFetchTokenAttempt \in Nat
    /\ scheduledRetry \in {"none", "plain", "forced"}
    /\ user \in Token
    /\ minted \in Nat
    /\ fetching \in SUBSET Fetch
    /\ inbox \in Seq([type : {"news"}, token : Token]
                     \cup [type : {"fetched"}, attempt : Nat, token : Token]
                     \cup [type : {"failed"}, attempt : Nat])
    /\ serverToken \in Token
    /\ revoked \in SUBSET Token
    /\ turnedDown \in SUBSET Token
    /\ events \in 0..MaxEvents
    /\ forceLost \in BOOLEAN
    /\ overtaken \in BOOLEAN
=============================================================================
