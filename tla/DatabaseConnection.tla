------------------------- MODULE DatabaseConnection -------------------------
(***************************************************************************)
(* The app's writes and reads on the database connection of DatabaseLink:  *)
(* setValue and removeValue (the heart of a recipe page, the saved lists)  *)
(* and getData (Favourites, the frequent list), through FRepo to the       *)
(* outstanding puts and gets of FPersistentConnection.                     *)
(*                                                                         *)
(* Writes and reads are numbered as they are issued.  The numbers go on    *)
(* over a relaunch of the app, which starts the code's counters again.     *)
(* The app has no listeners, no transactions and no disk persistence, so   *)
(* a write's completion is never held back and nothing survives the app.   *)
(***************************************************************************)
EXTENDS DatabaseLink, FiniteSets

CONSTANTS
    MaxPuts, MaxGets,    \* bounds: how many writes and reads the app issues
    WholeWrites          \* the writes that set the path the reads read, and not a child of it

ASSUME RequestsAssumption ==
    /\ MaxPuts \in Nat
    /\ MaxGets \in Nat
    /\ WholeWrites \subseteq 1..MaxPuts

VARIABLES
    puts,        \* per write: unissued, outstanding, ok, refused, or lost with the app
    putCount,    \* how many writes were issued
    gets,        \* per read: how it stands, and the fields of FOutstandingGet
    getCount,
    verdict,     \* the server's latest answer to each write
    position     \* the write the server took last

requestVars == <<puts, putCount, gets, getCount, verdict, position>>
vars == <<linkVars, requestVars>>

Puts == 1..MaxPuts
Gets == 1..MaxGets

PutStatus == {"unissued", "outstanding", "ok", "refused", "lost"}
Verdict == {"unseen", "ok", "refused"}

\* after: the newest write when the read was issued; seen: the newest write
\* when its answer was made; timed: the offline timer runs.
Get == [status : {"unissued", "outstanding", "local", "ok", "refused", "offline", "lost"},
        sent : BOOLEAN, timed : BOOLEAN, after : 0..MaxPuts, seen : 0..MaxPuts]

PutRequest(i) == [type |-> "put", index |-> i]
GetRequest(g) == [type |-> "get", index |-> g]
PutAnswer(i, status) == [type |-> "put", index |-> i, status |-> status]
GetAnswer(g, status) == [type |-> "get", index |-> g, status |-> status, seen |-> position]

Outstanding(i) == puts[i] = "outstanding"
Waiting(g) == gets[g].status = "outstanding"

\* The newest write that was not lost with the app, 0 for none.
Newest == LET kept == {i \in Puts : puts[i] \notin {"unissued", "lost"}}
          IN  CHOOSE i \in kept \cup {0} : \A j \in kept : j <= i

-----------------------------------------------------------------------------
Init ==
    /\ LinkInit
    /\ puts = [i \in Puts |-> "unissued"]
    /\ putCount = 0
    /\ gets = [g \in Gets |-> [status |-> "unissued", sent |-> FALSE, timed |-> FALSE,
                               after |-> 0, seen |-> 0]]
    /\ getCount = 0
    /\ verdict = [i \in Puts |-> "unseen"]
    /\ position = 0

-----------------------------------------------------------------------------
(***************************************************************************)
(* restoreState sends every outstanding write in the order of the numbers, *)
(* sent before or not, and then the reads that have not been sent yet.     *)
(***************************************************************************)
Outgoing(writes, reads) == [i \in 1..Len(writes) |-> PutRequest(writes[i])]
                           \o [i \in 1..Len(reads) |-> GetRequest(reads[i])]

\* The keys of a dictionary, sorted.
InOrder(S) == CHOOSE s \in [1..Cardinality(S) -> S] :
                \A i, j \in 1..Cardinality(S) : i < j => s[i] < s[j]

OutstandingPuts == {i \in Puts : Outstanding(i)}
UnsentGets == {g \in Gets : Waiting(g) /\ ~gets[g].sent}

RestoredReadsFirst ==    \* not the code: the reads go out before the writes
    Outgoing(<<>>, InOrder(UnsentGets)) \o Outgoing(InOrder(OutstandingPuts), <<>>)
RestoredUnsorted ==      \* not the code: the numbers are not sorted; the newest goes out first
    LET writes == InOrder(OutstandingPuts)
    IN  Outgoing([i \in 1..Len(writes) |-> writes[Len(writes) + 1 - i]], InOrder(UnsentGets))
Restored == Outgoing(InOrder(OutstandingPuts), InOrder(UnsentGets))

SentAll == [g \in Gets |-> IF Waiting(g) THEN [gets[g] EXCEPT !.sent = TRUE] ELSE gets[g]]

OnReady ==
    /\ Hello(Restored)
    /\ gets' = IF authToken = NoToken THEN SentAll ELSE gets
    /\ UNCHANGED <<puts, putCount, getCount, verdict, position>>

OnAuthAnswer ==
    /\ AuthAnswered(Restored)
    /\ gets' = IF Head(toClient).ok /\ Head(toClient).restore THEN SentAll ELSE gets
    /\ UNCHANGED <<puts, putCount, getCount, verdict, position>>

\* The repository takes requests once deferredInit has opened the connection.
IsOpen == "waiting_for_open" \notin interruptReasons

\* setValue or removeValue.
Put ==
    LET i == putCount + 1
    IN  /\ IsOpen
        /\ i \in Puts
        /\ putCount' = i
        /\ puts' = [puts EXCEPT ![i] = "outstanding"]
        /\ toServer' = IF CanSend THEN Append(toServer, PutRequest(i)) ELSE toServer
        /\ UNCHANGED <<clientVars, authVars, serverVars, toClient, historyVars,
                       gets, getCount, verdict, position>>

(***************************************************************************)
(* getData.  A pending write that sets the whole path answers the read     *)
(* from memory.  Otherwise the read is outstanding; it is sent if the      *)
(* connection is ready, and timed if there is none.                        *)
(***************************************************************************)
GetData ==
    LET g == getCount + 1
        shadowed == \E i \in WholeWrites : Outstanding(i)
    IN  /\ IsOpen
        /\ g \in Gets
        /\ getCount' = g
        /\ gets' = [gets EXCEPT ![g] =
                      IF shadowed
                      THEN [status |-> "local", sent |-> FALSE, timed |-> FALSE,
                            after |-> Newest, seen |-> Newest]
                      ELSE [status |-> "outstanding", sent |-> CanSend,
                            timed |-> ~IsConnected, after |-> Newest, seen |-> 0]]
        /\ toServer' = IF CanSend /\ ~shadowed THEN Append(toServer, GetRequest(g))
                       ELSE toServer
        /\ UNCHANGED <<clientVars, authVars, serverVars, toClient, historyVars,
                       puts, putCount, verdict, position>>

\* The offline timer of a read: it does nothing to a read that was sent.
GetTimesOutUnnamed ==    \* not the code: a status that no caller knows
    /\ \E g \in Gets : /\ Waiting(g) /\ gets[g].timed /\ ~gets[g].sent
                       /\ gets' = [gets EXCEPT ![g].status = "timeout"]
    /\ UNCHANGED <<linkVars, puts, putCount, getCount, verdict, position>>
GetTimesOut ==
    /\ \E g \in Gets :
         /\ Waiting(g) /\ gets[g].timed /\ ~gets[g].sent
         /\ gets' = [gets EXCEPT ![g].status = "offline", ![g].timed = FALSE]
    /\ UNCHANGED <<linkVars, puts, putCount, getCount, verdict, position>>

\* The answer to a write: it is no longer outstanding, and completes.
PutAnswered ==
    LET m == Head(toClient)
    IN  /\ toClient # <<>> /\ m.type = "put"
        /\ toClient' = Tail(toClient)
        /\ puts' = IF Outstanding(m.index) THEN [puts EXCEPT ![m.index] = m.status] ELSE puts
        /\ UNCHANGED <<clientVars, authVars, serverVars, toServer, historyVars,
                       putCount, gets, getCount, verdict, position>>

\* The answer to a read.
GetAnswered ==
    LET m == Head(toClient)
    IN  /\ toClient # <<>> /\ m.type = "get"
        /\ toClient' = Tail(toClient)
        /\ gets' = IF Waiting(m.index)
                   THEN [gets EXCEPT ![m.index].status = m.status, ![m.index].seen = m.seen]
                   ELSE gets
        /\ UNCHANGED <<clientVars, authVars, serverVars, toServer, historyVars,
                       puts, putCount, getCount, verdict, position>>

-----------------------------------------------------------------------------
(***************************************************************************)
(* The server takes requests in the order they were sent and answers each. *)
(* Its rules, which are not in the repository, may refuse a request.       *)
(***************************************************************************)
ServerPut ==
    LET m == Head(toServer)
    IN  /\ toServer # <<>> /\ m.type = "put"
        /\ toServer' = Tail(toServer)
        /\ \E status \in {"ok", "refused"} :
             /\ IF status = "refused" THEN Event ELSE UNCHANGED events
             /\ verdict' = [verdict EXCEPT ![m.index] = status]
             /\ toClient' = Append(toClient, PutAnswer(m.index, status))
        /\ position' = m.index
        /\ UNCHANGED <<clientVars, authVars, serverVars, turnedDown, forceLost, overtaken,
                       puts, putCount, gets, getCount>>

ServerGet ==
    LET m == Head(toServer)
    IN  /\ toServer # <<>> /\ m.type = "get"
        /\ toServer' = Tail(toServer)
        /\ \E status \in {"ok", "refused"} :
             /\ IF status = "refused" THEN Event ELSE UNCHANGED events
             /\ toClient' = Append(toClient, GetAnswer(m.index, status))
        /\ UNCHANGED <<clientVars, authVars, serverVars, turnedDown, forceLost, overtaken, requestVars>>

\* The app ends and is started again: what was outstanding is gone.
Relaunch ==
    /\ LinkRelaunch
    /\ puts' = [i \in Puts |-> IF Outstanding(i) THEN "lost" ELSE puts[i]]
    /\ gets' = [g \in Gets |-> IF Waiting(g) THEN [gets[g] EXCEPT !.status = "lost"] ELSE gets[g]]
    /\ UNCHANGED <<putCount, getCount, verdict, position>>

-----------------------------------------------------------------------------
\* Steps of the connection that leave the outstanding requests alone.
LinkStep == /\ Retry \/ TokenService \/ TokenFetched \/ RefreshAuthToken \/ ServerAuth \/ LinkEvent
            /\ UNCHANGED requestVars

Next == \/ LinkStep
        \/ OnReady \/ OnAuthAnswer
        \/ Put \/ GetData \/ GetTimesOut \/ PutAnswered \/ GetAnswered
        \/ ServerPut \/ ServerGet
        \/ Relaunch

(***************************************************************************)
(* The serial queue and the timers go on, FIRAuth answers, the server says *)
(* hello, takes requests and answers them.  Nothing is assumed of the      *)
(* user, and nothing of events, of which there are finitely many.          *)
(***************************************************************************)
Fairness ==
    /\ WF_vars(Open /\ UNCHANGED requestVars)
    /\ WF_vars(Retry /\ UNCHANGED requestVars)
    /\ WF_vars(TokenService /\ UNCHANGED requestVars)
    /\ WF_vars(TokenFetched /\ UNCHANGED requestVars)
    /\ WF_vars(RefreshAuthToken /\ UNCHANGED requestVars)
    /\ WF_vars(ServerAuth /\ UNCHANGED requestVars)
    /\ WF_vars(OnReady) /\ WF_vars(OnAuthAnswer)
    /\ WF_vars(PutAnswered) /\ WF_vars(GetAnswered) /\ WF_vars(GetTimesOut)
    /\ WF_vars(ServerPut) /\ WF_vars(ServerGet)

Spec == Init /\ [][Next]_vars /\ Fairness
-----------------------------------------------------------------------------
TypeOK ==
    /\ LinkTypeOK
    /\ puts \in [Puts -> PutStatus]
    /\ putCount \in 0..MaxPuts
    /\ gets \in [Gets -> Get]
    /\ getCount \in 0..MaxGets
    /\ verdict \in [Puts -> Verdict]
    /\ position \in 0..MaxPuts

\* A token request of the latest attempt that FIRAuth has not answered, or
\* whose answer has not been taken.
TokenAwaited ==
    \/ \E f \in fetching : f.attempt = currentFetchTokenAttempt
    \/ \E k \in 1..Len(inbox) : /\ inbox[k].type \in {"fetched", "failed"}
                                /\ inbox[k].attempt = currentFetchTokenAttempt

(***************************************************************************)
(* The assertions of FPersistentConnection, in whatever order interrupts,  *)
(* token answers and closes come.  A scheduled attempt finds the           *)
(* connection disconnected.  The answer to the latest token request finds  *)
(* it disconnected or still getting the token.  An FConnection exists      *)
(* exactly from Connecting on, and is connected when requests are sent on  *)
(* it, which it answers with an exception otherwise.                       *)
(***************************************************************************)
AssertionsHold ==
    /\ scheduledRetry # "none" => connectionState = "Disconnected"
    /\ TokenAwaited => connectionState \in {"Disconnected", "GettingToken"}
    /\ realtime = "connecting" <=> connectionState = "Connecting"
    /\ realtime = "connected" <=> IsConnected

(***************************************************************************)
(* The connection is neither left lying nor opened against an interrupt:   *)
(* with no reason to stay away an attempt is scheduled, under way (its     *)
(* token is awaited) or open; with a reason there is none of these, a      *)
(* token that arrives late included.                                       *)
(***************************************************************************)
TriesUnlessInterrupted ==
    IF interruptReasons = {}
    THEN \/ scheduledRetry # "none"
         \/ connectionState = "GettingToken" /\ TokenAwaited
         \/ realtime # "nil"
    ELSE scheduledRetry = "none" /\ connectionState = "Disconnected" /\ realtime = "nil"

(***************************************************************************)
(* A read that the server answered, or that a pending write answered, saw  *)
(* every write issued before it, writes sent again after a lost connection *)
(* included: restoreState sends the writes first.  A read is given up as   *)
(* offline only if it was never sent.                                      *)
(***************************************************************************)
ReadsFollowWrites ==
    \A g \in Gets :
      /\ gets[g].status \in {"local", "ok", "refused"} => gets[g].seen >= gets[g].after
      /\ gets[g].status = "offline" => ~gets[g].sent

(***************************************************************************)
(* The connection speaks for the user who is signed in: when the news has  *)
(* been taken and the wire holds no word of a token, the server knows the  *)
(* connection by the user's present token.  The exception: a sign-out or a *)
(* change of user whose news passed the connection by while it waited for  *)
(* a token that the service was still making for the user who left.        *)
(***************************************************************************)
LinkSpeaksForUser ==
    ( /\ CanSend
      /\ \A k \in 1..Len(inbox) : inbox[k].type # "news"
      /\ \A k \in 1..Len(toServer) : toServer[k].type \notin {"auth", "unauth"}
      /\ \A k \in 1..Len(toClient) : toClient[k].type # "auth" )
    => serverToken = user \/ overtaken

(***************************************************************************)
(* A token the server is known to refuse is not shown to it again on a new    *)
(* connection, because the next attempt asks for a new one; unless that    *)
(* request was lost: the attempt was scheduled anew, which carries no such *)
(* wish, the request failed, or the connection was interrupted meanwhile.  *)
(***************************************************************************)
RefusedTokenNotReused ==
    [][ realtime = "nil" /\ realtime' = "connecting" /\ authToken' \in turnedDown => forceLost ]_vars

\* A read the server was sent on a connection that is gone: sendGet sends no
\* read twice, and the offline timer leaves it alone because it was sent.
CutOff(g) ==
    /\ Waiting(g) /\ gets[g].sent
    /\ \A k \in 1..Len(toServer) : toServer[k] # GetRequest(g)
    /\ \A k \in 1..Len(toClient) : ~(toClient[k].type = "get" /\ toClient[k].index = g)

(***************************************************************************)
(* Once the outside leaves the connection alone, every write settles and   *)
(* every read is answered, found offline, or was cut off from its answer.  *)
(* A connection that is shut down by the server or taken offline makes no  *)
(* such promise while it is.                                               *)
(***************************************************************************)
RequestsEnd ==
    /\ \A i \in Puts : Outstanding(i) ~> (~Outstanding(i) \/ interruptReasons # {})
    /\ \A g \in Gets : Waiting(g) ~> (~Waiting(g) \/ CutOff(g) \/ interruptReasons # {})

(***************************************************************************)
(* What getData promises: its block is called with the value, or with an   *)
(* error if no such value could be retrieved.                              *)
(***************************************************************************)
EveryReadIsAnswered ==
    \A g \in Gets : Waiting(g) ~> (~Waiting(g) \/ interruptReasons # {})

-----------------------------------------------------------------------------
(***************************************************************************)
(* The writes as the app sees them: an Outbox, over lost connections,      *)
(* changes of user and relaunches.                                         *)
(***************************************************************************)
FirstOutstanding == CHOOSE i \in 1..(putCount + 1) :
                      /\ i = putCount + 1 \/ Outstanding(i)
                      /\ \A j \in 1..(i - 1) : ~Outstanding(j)

OnTheWire == {i \in Puts : \E k \in 1..Len(toServer) : toServer[k] = PutRequest(i)}

NextTaken == IF OnTheWire # {} THEN CHOOSE i \in OnTheWire : \A j \in OnTheWire : i <= j
             ELSE IF CanSend THEN putCount + 1
             ELSE FirstOutstanding

OutboxOf == INSTANCE Outbox WITH
    Limit <- MaxPuts,
    issued <- putCount,
    first <- FirstOutstanding,
    cursor <- NextTaken,
    said <- [i \in Puts |-> IF verdict[i] = "unseen" THEN "nothing" ELSE verdict[i]],
    told <- [i \in Puts |-> IF puts[i] \in {"ok", "refused"} THEN puts[i] ELSE "nothing"]

\* The writes are issued, taken by the server and settled as Outbox says.
ImplementsOutbox == OutboxOf!Spec
=============================================================================
