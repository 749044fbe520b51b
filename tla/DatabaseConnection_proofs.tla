---------------------- MODULE DatabaseConnection_proofs ----------------------
(***************************************************************************)
(* The connection's own assertions hold, and it is neither left lying nor  *)
(* opened against an interrupt, for every number of events, writes and     *)
(* reads.  The argument: each attempt to connect asks for one token and is *)
(* answered once, so that the answer to the latest attempt is awaited      *)
(* exactly until it is taken.                                              *)
(*                                                                         *)
(* On this rest, in turn: the types of the state, and what is sent again   *)
(* when a connection gets ready; that the connection speaks for the user   *)
(* (the last news is of the user, the last word of the connection's        *)
(* token); that requests follow the word which brings them back; the       *)
(* writes in order, and the outbox they implement; the reads behind the    *)
(* writes they follow; and the wish for a new token after one was turned   *)
(* down.                                                                   *)
(***************************************************************************)
EXTENDS DatabaseConnection, SequenceTheorems, FiniteSetTheorems, WellFoundedInduction, TLAPS

Letter == [type : {"news"}, token : Token]
          \cup [type : {"fetched"}, attempt : Nat, token : Token]
          \cup [type : {"failed"}, attempt : Nat]

\* The letters of the inbox that answer a request for a token.
Answers == {k \in 1..Len(inbox) : inbox[k].type \in {"fetched", "failed"}}

(***************************************************************************)
(* The requests for tokens and their answers: no attempt is from the       *)
(* future, and none is asked for twice, answered twice, or both under way  *)
(* and answered.                                                           *)
(***************************************************************************)
LineTyped ==
    /\ currentFetchTokenAttempt \in Nat
    /\ minted \in Nat
    /\ user \in Token
    /\ fetching \in SUBSET Fetch
    /\ inbox \in Seq(Letter)

AttemptsArePast ==
    /\ \A f \in fetching : f.attempt \in 0..currentFetchTokenAttempt
    /\ \A k \in Answers : inbox[k].attempt \in 0..currentFetchTokenAttempt

OneAnswerEach ==
    /\ \A f, g \in fetching : f.attempt = g.attempt => f = g
    /\ \A k, l \in Answers : inbox[k].attempt = inbox[l].attempt => k = l
    /\ \A f \in fetching, k \in Answers : f.attempt # inbox[k].attempt

LineOK == LineTyped /\ AttemptsArePast /\ OneAnswerEach

StateTyped ==
    /\ connectionState \in ConnectionState
    /\ realtime \in {"nil", "connecting", "connected"}
    /\ scheduledRetry \in {"none", "plain", "forced"}

\* Nothing is on the wire of a connection that is not up.
WireNeedsConnection == realtime # "connected" => toServer = <<>> /\ toClient = <<>>

StateOK == StateTyped /\ AssertionsHold /\ TriesUnlessInterrupted /\ WireNeedsConnection

IInv == LineOK /\ StateOK
-----------------------------------------------------------------------------
lineVars == <<currentFetchTokenAttempt, minted, user, fetching, inbox>>
stateVars == <<connectionState, interruptReasons, realtime, scheduledRetry, toServer, toClient>>

\* What leaves the requests for tokens alone leaves their order alone.
LEMMA LineKept ==
    ASSUME LineOK, UNCHANGED lineVars
    PROVE  LineOK' /\ (TokenAwaited' <=> TokenAwaited)
BY DEF LineOK, LineTyped, AttemptsArePast, OneAnswerEach, Answers, lineVars, TokenAwaited

\* What leaves the connection alone, and the latest attempt as far as it was,
\* leaves its state right.
LEMMA StateKept ==
    ASSUME StateOK, UNCHANGED stateVars, TokenAwaited' <=> TokenAwaited
    PROVE  StateOK'
BY DEF StateOK, StateTyped, AssertionsHold, TriesUnlessInterrupted, WireNeedsConnection,
       stateVars, IsConnected

\* Nothing is asked for and nothing on the wire when the app starts.
LEMMA InitEstablishesIInv == Init => IInv
<1> SUFFICES ASSUME Init
             PROVE  IInv
  OBVIOUS
<1> USE DEF Init, LinkInit
<1>1. LineTyped
  BY DEF LineTyped, Token, NoToken
<1>2. AttemptsArePast /\ OneAnswerEach
  BY DEF AttemptsArePast, OneAnswerEach, Answers
<1>3. ~TokenAwaited
  BY DEF TokenAwaited
<1>4. StateOK
  BY <1>3 DEF StateOK, StateTyped, ConnectionState, AssertionsHold, IsConnected,
              TriesUnlessInterrupted, WireNeedsConnection
<1> QED
  BY <1>1, <1>2, <1>4 DEF IInv, LineOK

-----------------------------------------------------------------------------
(* FIRAuth and the token service: requests move on, and are answered once.  *)

\* A letter that answers nothing is added.
LEMMA NewsAdded ==
    ASSUME LineOK, NEW token \in Token, inbox' = Append(inbox, News(token)),
           currentFetchTokenAttempt' = currentFetchTokenAttempt, fetching' = fetching,
           minted' \in Nat, user' \in Token
    PROVE  LineOK' /\ (TokenAwaited' <=> TokenAwaited)
<1> USE DEF LineOK
<1>1. News(token) \in Letter /\ News(token).type = "news"
  BY DEF News, Letter
<1>2. /\ inbox' \in Seq(Letter) /\ Len(inbox) \in Nat /\ Len(inbox') = Len(inbox) + 1
      /\ \A k \in 1..Len(inbox) : inbox'[k] = inbox[k]
      /\ inbox'[Len(inbox) + 1] = News(token)
  BY <1>1, AppendProperties, LenProperties DEF LineTyped
<1>3. Answers' = Answers
  BY <1>1, <1>2 DEF Answers
<1>4. \A k \in Answers : inbox'[k] = inbox[k]
  BY <1>2 DEF Answers
<1>5. LineTyped'
  BY <1>2 DEF LineTyped
<1>6. AttemptsArePast'
  BY <1>3, <1>4, Zenon DEF AttemptsArePast
<1>7. OneAnswerEach'
  <2>1. \A f, g \in fetching' : f.attempt = g.attempt => f = g
    BY DEF OneAnswerEach
  <2>2. \A k, l \in Answers' : inbox'[k].attempt = inbox'[l].attempt => k = l
    <3> TAKE k, l \in Answers'
    <3>1. inbox[k].attempt = inbox[l].attempt => k = l
      BY <1>3 DEF OneAnswerEach
    <3>2. inbox'[k] = inbox[k] /\ inbox'[l] = inbox[l]
      BY <1>3, <1>4
    <3> QED
      BY <3>1, <3>2
  <2>3. \A f \in fetching', k \in Answers' : f.attempt # inbox'[k].attempt
    <3> TAKE f \in fetching', k \in Answers'
    <3>1. f.attempt # inbox[k].attempt
      BY <1>3 DEF OneAnswerEach
    <3>2. inbox'[k] = inbox[k]
      BY <1>3, <1>4
    <3> QED
      BY <3>1, <3>2
  <2> QED
    BY <2>1, <2>2, <2>3 DEF OneAnswerEach
<1>8. TokenAwaited' <=> TokenAwaited
  BY <1>3, <1>4 DEF TokenAwaited, Answers
<1> QED
  BY <1>5, <1>6, <1>7, <1>8

\* A request is taken off the line and its answer, `m', is added as letter n.
LEMMA AnswerAdded ==
    ASSUME LineOK, NEW f \in fetching, NEW m, m.attempt = f.attempt,
           NEW n, n \notin Answers, Answers' = Answers \cup {n}, inbox'[n] = m,
           \A k \in Answers : inbox'[k] = inbox[k],
           fetching' = fetching \ {f}, inbox' \in Seq(Letter),
           currentFetchTokenAttempt' = currentFetchTokenAttempt,
           minted' \in Nat, user' \in Token
    PROVE  LineOK' /\ (TokenAwaited' <=> TokenAwaited)
<1> USE DEF LineOK
<1>1. LineTyped'
  BY DEF LineTyped
<1>2. AttemptsArePast'
  BY DEF AttemptsArePast
<1>3. OneAnswerEach'
  <2>1. \A k \in Answers : inbox[k].attempt # f.attempt
    BY DEF OneAnswerEach
  <2>2. \A g \in fetching' : g.attempt # f.attempt
    BY DEF OneAnswerEach
  <2>3. \A k, l \in Answers' : inbox'[k].attempt = inbox'[l].attempt => k = l
    <3> TAKE k, l \in Answers'
    <3>1. CASE k \in Answers /\ l \in Answers
      <4>1. inbox[k].attempt = inbox[l].attempt => k = l
        BY <3>1 DEF OneAnswerEach
      <4> QED
        BY <3>1, <4>1
    <3>2. CASE k \in Answers /\ l = n
      BY <2>1, <3>2
    <3>3. CASE k = n /\ l \in Answers
      BY <2>1, <3>3
    <3> QED
      BY <3>1, <3>2, <3>3
  <2>4. \A g \in fetching', k \in Answers' : g.attempt # inbox'[k].attempt
    <3> TAKE g \in fetching', k \in Answers'
    <3>1. CASE k \in Answers
      <4>1. g.attempt # inbox[k].attempt
        BY <3>1 DEF OneAnswerEach
      <4> QED
        BY <3>1, <4>1
    <3>2. CASE k = n
      BY <2>2, <3>2
    <3> QED
      BY <3>1, <3>2
  <2>5. \A g, h \in fetching' : g.attempt = h.attempt => g = h
    BY DEF OneAnswerEach
  <2> QED
    BY <2>3, <2>4, <2>5 DEF OneAnswerEach
<1>4. TokenAwaited' <=> TokenAwaited
  <2>1. TokenAwaited <=> \/ \E g \in fetching : g.attempt = currentFetchTokenAttempt
                         \/ \E k \in Answers : inbox[k].attempt = currentFetchTokenAttempt
    BY DEF TokenAwaited, Answers
  <2>2. TokenAwaited' <=> \/ \E g \in fetching' : g.attempt = currentFetchTokenAttempt
                          \/ \E k \in Answers' : inbox'[k].attempt = currentFetchTokenAttempt
    BY DEF TokenAwaited, Answers
  <2> QED
    BY <2>1, <2>2
<1> QED
  BY <1>1, <1>2, <1>3, <1>4

\* A request goes on from the work queue to the token service.
LEMMA RequestMoved ==
    ASSUME LineOK, NEW f \in fetching, RequestToken(f),
           currentFetchTokenAttempt' = currentFetchTokenAttempt
    PROVE  LineOK' /\ (TokenAwaited' <=> TokenAwaited)
<1> USE DEF LineOK
<1> DEFINE moved == [f EXCEPT !.session = user.session]
<1>1. /\ fetching' = (fetching \ {f}) \cup {moved}
      /\ inbox' = inbox /\ user' = user /\ minted' = minted
  BY DEF RequestToken
<1>2. moved \in Fetch /\ moved.attempt = f.attempt
  BY DEF LineTyped, Fetch, Token
<1> HIDE DEF moved
<1>3. LineTyped'
  BY <1>1, <1>2 DEF LineTyped
<1>4. AttemptsArePast' /\ OneAnswerEach'
  BY <1>1, <1>2 DEF AttemptsArePast, OneAnswerEach, Answers
<1>5. TokenAwaited' <=> TokenAwaited
  BY <1>1, <1>2 DEF TokenAwaited
<1> QED
  BY <1>3, <1>4, <1>5

\* Letters are appended, all of them news but the last.
LEMMA AnswerAppended ==
    ASSUME LineOK, NEW m \in Letter, m.type \in {"fetched", "failed"},
           \/ inbox' = Append(inbox, m)
           \/ \E token \in Token : inbox' = inbox \o <<News(token), m>>
    PROVE  /\ inbox' \in Seq(Letter) /\ Len(inbox') \notin Answers
           /\ Answers' = Answers \cup {Len(inbox')} /\ inbox'[Len(inbox')] = m
           /\ \A k \in Answers : inbox'[k] = inbox[k]
<1>1. inbox \in Seq(Letter) /\ Len(inbox) \in Nat
  BY LenProperties DEF LineOK, LineTyped
<1>2. CASE inbox' = Append(inbox, m)
  <2>1. /\ inbox' \in Seq(Letter) /\ Len(inbox') = Len(inbox) + 1
        /\ \A k \in 1..Len(inbox) : inbox'[k] = inbox[k]
        /\ inbox'[Len(inbox) + 1] = m
    BY <1>1, <1>2, AppendProperties
  <2> QED
    BY <1>1, <2>1 DEF Answers
<1>3. CASE \E token \in Token : inbox' = inbox \o <<News(token), m>>
  <2>1. PICK token \in Token : inbox' = inbox \o <<News(token), m>>
    BY <1>3
  <2>2. News(token) \in Letter /\ News(token).type = "news"
    BY DEF News, Letter
  <2> DEFINE tail == <<News(token), m>>
  <2>3. tail \in Seq(Letter) /\ Len(tail) = 2 /\ tail[1] = News(token) /\ tail[2] = m
    BY <2>2
  <2> HIDE DEF tail
  <2>4. /\ inbox' \in Seq(Letter) /\ Len(inbox') = Len(inbox) + 2
        /\ \A k \in 1..Len(inbox) + 2 :
              inbox'[k] = IF k <= Len(inbox) THEN inbox[k] ELSE tail[k - Len(inbox)]
    <3>1. inbox' = inbox \o tail
      BY <2>1 DEF tail
    <3>2. /\ inbox \o tail \in Seq(Letter)
          /\ Len(inbox \o tail) = Len(inbox) + Len(tail)
          /\ \A k \in 1..Len(inbox) + Len(tail) : (inbox \o tail)[k] =
                IF k <= Len(inbox) THEN inbox[k] ELSE tail[k - Len(inbox)]
      BY <1>1, <2>3, ConcatProperties
    <3> QED
      BY <2>3, <3>1, <3>2
  <2>5. /\ \A k \in 1..Len(inbox) : inbox'[k] = inbox[k]
        /\ inbox'[Len(inbox) + 1].type = "news" /\ inbox'[Len(inbox) + 2] = m
    BY <1>1, <2>2, <2>3, <2>4
  <2> QED
    BY <1>1, <2>4, <2>5 DEF Answers
<1> QED
  BY <1>2, <1>3

\* Authentication answers each request once, at once or from the network.
LEMMA TokenServicePreservesIInv ==
    ASSUME IInv, TokenService
    PROVE  IInv'
<1>1. LineOK /\ StateOK
  BY DEF IInv
<1>2. currentFetchTokenAttempt' = currentFetchTokenAttempt /\ UNCHANGED stateVars
  BY DEF TokenService, clientVars, wireVars, stateVars
<1>3. PICK f \in fetching : AnswerToken(f) \/ RequestToken(f) \/ RefreshToken(f) \/ RefreshFails(f)
  BY DEF TokenService
<1>4. f.attempt \in Nat /\ f.session \in Nat /\ user \in Token /\ minted \in Nat
  BY <1>1 DEF LineOK, LineTyped, Fetch
<1>5. LineOK' /\ (TokenAwaited' <=> TokenAwaited)
  <2>1. CASE AnswerToken(f)
    <3> DEFINE m == Fetched(f.attempt, user)
    <3>1. m \in Letter /\ m.type = "fetched" /\ m.attempt = f.attempt
      BY <1>4 DEF Fetched, Letter
    <3>2. /\ fetching' = fetching \ {f} /\ inbox' = Append(inbox, m)
          /\ user' = user /\ minted' = minted
      BY <2>1 DEF AnswerToken
    <3> HIDE DEF m
    <3> QED
      BY <1>1, <1>2, <1>4, <3>1, <3>2, AnswerAppended, AnswerAdded
  <2>2. CASE RequestToken(f)
    BY <1>1, <1>2, <2>2, RequestMoved
  <2>3. CASE RefreshToken(f)
    <3> DEFINE token == [session |-> f.session, serial |-> minted + 1]
               m == Fetched(f.attempt, token)
    <3>1. token \in Token
      BY <1>4 DEF Token
    <3>2. m \in Letter /\ m.type = "fetched" /\ m.attempt = f.attempt
      BY <1>4, <3>1 DEF Fetched, Letter
    <3>3. /\ fetching' = fetching \ {f} /\ minted' = minted + 1
          /\ \/ user' = token /\ inbox' = inbox \o <<News(token), m>>
             \/ user' = user /\ inbox' = Append(inbox, m)
      BY <2>3 DEF RefreshToken
    <3> HIDE DEF m, token
    <3>4. minted' \in Nat /\ user' \in Token
      BY <1>4, <3>1, <3>3
    <3> QED
      BY <1>1, <1>2, <3>1, <3>2, <3>3, <3>4, AnswerAppended, AnswerAdded
  <2>4. CASE RefreshFails(f)
    <3> DEFINE m == FetchFailed(f.attempt)
    <3>1. m \in Letter /\ m.type = "failed" /\ m.attempt = f.attempt
      BY <1>4 DEF FetchFailed, Letter
    <3>2. NoToken \in Token
      BY DEF Token, NoToken
    <3>3. /\ fetching' = fetching \ {f} /\ minted' = minted
          /\ \/ user' = NoToken /\ inbox' = inbox \o <<News(NoToken), m>>
             \/ user' = user /\ inbox' = Append(inbox, m)
      BY <2>4 DEF RefreshFails
    <3> HIDE DEF m
    <3>4. minted' \in Nat /\ user' \in Token
      BY <1>4, <3>2, <3>3
    <3> QED
      BY <1>1, <1>2, <3>1, <3>2, <3>3, <3>4, AnswerAppended, AnswerAdded
  <2> QED
    BY <1>3, <2>1, <2>2, <2>3, <2>4
<1>6. StateOK'
  BY <1>1, <1>2, <1>5, StateKept
<1> QED
  BY <1>5, <1>6 DEF IInv

-----------------------------------------------------------------------------
(* The client's callbacks.                                                  *)

\* The first letter is taken.  If it answered the latest attempt, no answer
\* to that is awaited any more.
LEMMA LetterTaken ==
    ASSUME LineOK, inbox # <<>>, inbox' = Tail(inbox),
           UNCHANGED <<currentFetchTokenAttempt, minted, user, fetching>>
    PROVE  /\ LineOK'
           /\ IF 1 \in Answers /\ inbox[1].attempt = currentFetchTokenAttempt
              THEN TokenAwaited /\ ~TokenAwaited'
              ELSE TokenAwaited' <=> TokenAwaited
<1> USE DEF LineOK
<1>1. /\ inbox' \in Seq(Letter) /\ Len(inbox) \in Nat /\ Len(inbox) > 0
      /\ Len(inbox') = Len(inbox) - 1
      /\ \A k \in 1..Len(inbox') : inbox'[k] = inbox[k + 1]
  <2>1. inbox \in Seq(Letter) /\ Len(inbox) \in Nat
    BY LenProperties DEF LineTyped
  <2>2. Len(inbox) > 0
    BY <2>1, EmptySeq
  <2> QED
    BY <2>1, <2>2, HeadTailProperties
<1>2. \A k \in Answers' : /\ k \in Nat /\ k + 1 \in Answers /\ k + 1 # 1
                          /\ inbox'[k] = inbox[k + 1]
  BY <1>1 DEF Answers
<1>3. \A k \in Answers : k = 1 \/ (k - 1 \in Answers' /\ inbox'[k - 1] = inbox[k])
  BY <1>1 DEF Answers
<1>4. LineTyped'
  BY <1>1 DEF LineTyped
<1>5. AttemptsArePast'
  <2>1. \A f \in fetching' : f.attempt \in 0..currentFetchTokenAttempt'
    BY DEF AttemptsArePast
  <2>2. \A k \in Answers' : inbox'[k].attempt \in 0..currentFetchTokenAttempt'
    <3> TAKE k \in Answers'
    <3>1. inbox[k + 1].attempt \in 0..currentFetchTokenAttempt
      BY <1>2 DEF AttemptsArePast
    <3> QED
      BY <1>2, <3>1
  <2> QED
    BY <2>1, <2>2 DEF AttemptsArePast
<1>6. OneAnswerEach'
  <2>1. \A f, g \in fetching' : f.attempt = g.attempt => f = g
    BY DEF OneAnswerEach
  <2>2. \A k, l \in Answers' : inbox'[k].attempt = inbox'[l].attempt => k = l
    <3> TAKE k, l \in Answers'
    <3>1. inbox[k + 1].attempt = inbox[l + 1].attempt => k + 1 = l + 1
      BY <1>2 DEF OneAnswerEach
    <3>2. k \in Nat /\ inbox'[k] = inbox[k + 1]
      BY <1>2
    <3>3. l \in Nat /\ inbox'[l] = inbox[l + 1]
      BY <1>2
    <3> QED
      BY <3>1, <3>2, <3>3
  <2>3. \A f \in fetching', k \in Answers' : f.attempt # inbox'[k].attempt
    <3> TAKE f \in fetching', k \in Answers'
    <3>1. f.attempt # inbox[k + 1].attempt
      BY <1>2 DEF OneAnswerEach
    <3> QED
      BY <1>2, <3>1
  <2> QED
    BY <2>1, <2>2, <2>3 DEF OneAnswerEach
<1>7. /\ TokenAwaited <=> \/ \E f \in fetching : f.attempt = currentFetchTokenAttempt
                          \/ \E k \in Answers : inbox[k].attempt = currentFetchTokenAttempt
      /\ TokenAwaited' <=> \/ \E f \in fetching : f.attempt = currentFetchTokenAttempt
                           \/ \E k \in Answers' : inbox'[k].attempt = currentFetchTokenAttempt
  BY DEF TokenAwaited, Answers
<1>8. CASE 1 \in Answers /\ inbox[1].attempt = currentFetchTokenAttempt
  <2>1. \A f \in fetching : f.attempt # currentFetchTokenAttempt
    <3> TAKE f \in fetching
    <3>1. f.attempt # inbox[1].attempt
      BY <1>8 DEF OneAnswerEach
    <3> QED
      BY <1>8, <3>1
  <2>2. \A k \in Answers' : inbox'[k].attempt # currentFetchTokenAttempt
    <3> TAKE k \in Answers'
    <3>1. inbox[k + 1].attempt # inbox[1].attempt
      BY <1>2, <1>8 DEF OneAnswerEach
    <3> QED
      BY <1>2, <1>8, <3>1
  <2> QED
    BY <1>4, <1>5, <1>6, <1>7, <1>8, <2>1, <2>2
<1>9. CASE ~(1 \in Answers /\ inbox[1].attempt = currentFetchTokenAttempt)
  <2>1. (\E k \in Answers' : inbox'[k].attempt = currentFetchTokenAttempt)
        <=> (\E k \in Answers : inbox[k].attempt = currentFetchTokenAttempt)
    <3>1. ASSUME NEW k \in Answers', inbox'[k].attempt = currentFetchTokenAttempt
          PROVE  \E l \in Answers : inbox[l].attempt = currentFetchTokenAttempt
      BY <1>2, <3>1
    <3>2. ASSUME NEW k \in Answers, inbox[k].attempt = currentFetchTokenAttempt
          PROVE  \E l \in Answers' : inbox'[l].attempt = currentFetchTokenAttempt
      <4>1. k # 1
        BY <1>9, <3>2
      <4>2. k - 1 \in Answers' /\ inbox'[k - 1] = inbox[k]
        BY <1>3, <4>1
      <4> QED
        BY <3>2, <4>2
    <3> QED
      BY <3>1, <3>2
  <2> QED
    BY <1>4, <1>5, <1>6, <1>7, <1>9, <2>1
<1> QED
  BY <1>8, <1>9

\* A new attempt: its token is awaited.
LEMMA RetryPreservesIInv ==
    ASSUME IInv, Retry
    PROVE  IInv'
<1>1. LineOK /\ StateOK
  BY DEF IInv
<1> DEFINE next == currentFetchTokenAttempt + 1
           f == [attempt |-> next, forced |-> scheduledRetry = "forced", session |-> 0]
<1>2. /\ fetching' = fetching \cup {f} /\ currentFetchTokenAttempt' = next
      /\ UNCHANGED <<minted, user, inbox>>
  BY DEF Retry, authVars
<1>3. f \in Fetch /\ f.attempt = next /\ next \in Nat /\ next > currentFetchTokenAttempt
  BY <1>1 DEF LineOK, LineTyped, Fetch
<1> HIDE DEF f
<1>4. Answers' = Answers
  BY <1>2 DEF Answers
<1>5. /\ \A g \in fetching : g.attempt \in 0..next /\ g.attempt # next
      /\ \A k \in Answers : inbox[k].attempt \in 0..next /\ inbox[k].attempt # next
  BY <1>1, <1>3 DEF LineOK, LineTyped, AttemptsArePast
<1> HIDE DEF next
<1>6. LineTyped'
  BY <1>1, <1>2, <1>3 DEF LineOK, LineTyped
<1>7. AttemptsArePast'
  BY <1>2, <1>3, <1>4, <1>5 DEF AttemptsArePast
<1>8. OneAnswerEach'
  <2>1. \A g, h \in fetching' : g.attempt = h.attempt => g = h
    BY <1>1, <1>2, <1>3, <1>5 DEF LineOK, OneAnswerEach
  <2>2. \A k, l \in Answers' : inbox'[k].attempt = inbox'[l].attempt => k = l
    BY <1>1, <1>2, <1>4 DEF LineOK, OneAnswerEach
  <2>3. \A g \in fetching', k \in Answers' : g.attempt # inbox'[k].attempt
    <3> TAKE g \in fetching', k \in Answers'
    <3>1. CASE g \in fetching
      BY <1>1, <1>2, <1>4, <3>1 DEF LineOK, OneAnswerEach
    <3>2. CASE g = f
      BY <1>2, <1>3, <1>4, <1>5, <3>2
    <3> QED
      BY <1>2, <3>1, <3>2
  <2> QED
    BY <2>1, <2>2, <2>3 DEF OneAnswerEach
<1>9. TokenAwaited'
  BY <1>2, <1>3 DEF TokenAwaited
<1>10. StateOK'
  BY <1>1, <1>9
     DEF Retry, wireVars, StateOK, StateTyped, ConnectionState, AssertionsHold, IsConnected,
         TriesUnlessInterrupted, WireNeedsConnection
<1> QED
  BY <1>6, <1>7, <1>8, <1>10 DEF IInv, LineOK

\* The answer to an attempt: only the latest one counts.
LEMMA TokenFetchedPreservesIInv ==
    ASSUME IInv, TokenFetched
    PROVE  IInv'
<1>1. LineOK /\ StateOK
  BY DEF IInv
<1> DEFINE m == Head(inbox)
<1>2. /\ inbox # <<>> /\ inbox' = Tail(inbox) /\ m.type \in {"fetched", "failed"}
      /\ UNCHANGED <<currentFetchTokenAttempt, minted, user, fetching, interruptReasons,
                     toServer, toClient>>
  BY DEF TokenFetched, wireVars
<1>3. 1 \in Answers /\ m = inbox[1]
  <2>1. Len(inbox) \in Nat /\ Len(inbox) > 0 /\ m = inbox[1]
    BY <1>1, <1>2, LenProperties, EmptySeq DEF LineOK, LineTyped
  <2> QED
    BY <1>2, <2>1 DEF Answers
<1> HIDE DEF m
<1>4. /\ LineOK'
      /\ IF m.attempt = currentFetchTokenAttempt THEN TokenAwaited /\ ~TokenAwaited'
         ELSE TokenAwaited' <=> TokenAwaited
  BY <1>1, <1>2, <1>3, LetterTaken
<1>5. \/ /\ m.attempt = currentFetchTokenAttempt
         /\ connectionState' = "Disconnected" /\ realtime' = realtime
         /\ TryScheduleReconnect(interruptReasons, forceTokenRefreshes)
      \/ /\ m.attempt = currentFetchTokenAttempt
         /\ connectionState = "GettingToken" /\ connectionState' = "Connecting"
         /\ realtime' = "connecting" /\ scheduledRetry' = scheduledRetry
      \/ /\ m.attempt = currentFetchTokenAttempt /\ connectionState # "GettingToken"
         /\ UNCHANGED <<connectionState, realtime, scheduledRetry>>
      \/ /\ m.attempt # currentFetchTokenAttempt
         /\ UNCHANGED <<connectionState, realtime, scheduledRetry>>
  BY DEF TokenFetched, IsLatest, m
<1>6. CASE m.attempt # currentFetchTokenAttempt
  <2>1. UNCHANGED stateVars /\ (TokenAwaited' <=> TokenAwaited)
    BY <1>2, <1>4, <1>5, <1>6 DEF stateVars
  <2> QED
    BY <1>1, <1>4, <2>1, StateKept DEF IInv
<1>7. CASE m.attempt = currentFetchTokenAttempt
  <2>1. TokenAwaited /\ ~TokenAwaited'
    BY <1>4, <1>7
  <2>2. connectionState \in {"Disconnected", "GettingToken"} /\ realtime = "nil"
    BY <1>1, <2>1 DEF StateOK, StateTyped, AssertionsHold, IsConnected
  <2>3. StateOK'
    <3> USE DEF StateOK, StateTyped, ConnectionState, AssertionsHold, IsConnected,
                TriesUnlessInterrupted, WireNeedsConnection
    <3>1. CASE /\ connectionState' = "Disconnected" /\ realtime' = realtime
               /\ TryScheduleReconnect(interruptReasons, forceTokenRefreshes)
      BY <1>1, <1>2, <2>1, <2>2, <3>1 DEF TryScheduleReconnect
    <3>2. CASE /\ connectionState = "GettingToken" /\ connectionState' = "Connecting"
               /\ realtime' = "connecting" /\ scheduledRetry' = scheduledRetry
      BY <1>1, <1>2, <2>1, <2>2, <3>2
    <3>3. CASE /\ connectionState # "GettingToken"
               /\ UNCHANGED <<connectionState, realtime, scheduledRetry>>
      BY <1>1, <1>2, <2>1, <2>2, <3>3
    <3> HIDE DEF StateOK
    <3> QED
      BY <1>5, <1>7, <3>1, <3>2, <3>3
  <2> QED
    BY <1>4, <2>3 DEF IInv
<1> QED
  BY <1>6, <1>7

\* What travels on the wire of a connection that is up changes nothing else.
LEMMA WireStep ==
    ASSUME IInv, UNCHANGED lineVars,
           UNCHANGED <<connectionState, interruptReasons, realtime, scheduledRetry>>,
           realtime = "connected" \/ UNCHANGED <<toServer, toClient>>
    PROVE  IInv'
<1>1. LineOK /\ StateOK
  BY DEF IInv
<1>2. LineOK' /\ (TokenAwaited' <=> TokenAwaited)
  BY <1>1, LineKept
<1>3. StateOK'
  BY <1>1, <1>2 DEF StateOK, StateTyped, AssertionsHold, IsConnected,
                    TriesUnlessInterrupted, WireNeedsConnection
<1> QED
  BY <1>2, <1>3 DEF IInv

\* A closed connection is scheduled to be opened again, or interrupted.
LEMMA ClosePreservesIInv ==
    ASSUME IInv, UNCHANGED lineVars, NEW force, Close(interruptReasons', force),
           realtime # "nil" \/ interruptReasons' = interruptReasons
    PROVE  IInv'
<1>1. LineOK /\ StateOK
  BY DEF IInv
<1>2. LineOK' /\ (TokenAwaited' <=> TokenAwaited)
  BY <1>1, LineKept
<1>3. StateOK'
  BY <1>1, <1>2 DEF Close, TryScheduleReconnect, StateOK, StateTyped, ConnectionState,
                    AssertionsHold, IsConnected, TriesUnlessInterrupted, WireNeedsConnection
<1> QED
  BY <1>2, <1>3 DEF IInv

\* News of a token are taken from the inbox and answer no attempt.
LEMMA RefreshAuthTokenPreservesIInv ==
    ASSUME IInv, RefreshAuthToken
    PROVE  IInv'
<1>1. LineOK /\ StateOK
  BY DEF IInv
<1>2. /\ inbox # <<>> /\ inbox' = Tail(inbox) /\ Head(inbox).type = "news"
      /\ UNCHANGED <<currentFetchTokenAttempt, minted, user, fetching>>
  BY DEF RefreshAuthToken
<1>3. 1 \notin Answers
  BY <1>1, <1>2 DEF Answers, LineOK, LineTyped
<1>4. LineOK' /\ (TokenAwaited' <=> TokenAwaited)
  BY <1>1, <1>2, <1>3, LetterTaken
<1>5. StateOK'
  BY <1>1, <1>4 DEF RefreshAuthToken, StateOK, StateTyped, AssertionsHold, IsConnected,
                    TriesUnlessInterrupted, WireNeedsConnection
<1> QED
  BY <1>4, <1>5 DEF IInv

\* The greeting of the server makes the connection one that is up.
LEMMA HelloPreservesIInv ==
    ASSUME IInv, NEW restored, Hello(restored)
    PROVE  IInv'
<1>1. LineOK /\ StateOK
  BY DEF IInv
<1>2. LineOK' /\ (TokenAwaited' <=> TokenAwaited)
  BY <1>1, LineKept DEF Hello, lineVars, authVars
<1>3. StateOK'
  BY <1>1, <1>2 DEF Hello, StateOK, StateTyped, ConnectionState, AssertionsHold, IsConnected,
                    TriesUnlessInterrupted, WireNeedsConnection
<1> QED
  BY <1>2, <1>3 DEF IInv

\* A token accepted is a connection that is up, a token refused one that is closed.
LEMMA AuthAnsweredPreservesIInv ==
    ASSUME IInv, NEW restored, AuthAnswered(restored)
    PROVE  IInv'
<1>1. LineOK /\ StateOK
  BY DEF IInv
<1>2. UNCHANGED lineVars /\ UNCHANGED interruptReasons /\ toClient # <<>>
  BY DEF AuthAnswered, lineVars, authVars
<1>3. realtime = "connected"
  BY <1>1, <1>2 DEF StateOK, WireNeedsConnection
<1>4. CASE Head(toClient).ok
  <2>1. LineOK' /\ (TokenAwaited' <=> TokenAwaited)
    BY <1>1, <1>2, LineKept
  <2>2. connectionState' = "Connected" /\ UNCHANGED <<realtime, scheduledRetry>>
    BY <1>4 DEF AuthAnswered
  <2>3. StateOK'
    BY <1>1, <1>2, <1>3, <2>1, <2>2
       DEF StateOK, StateTyped, ConnectionState, AssertionsHold, IsConnected,
           TriesUnlessInterrupted, WireNeedsConnection
  <2> QED
    BY <2>1, <2>3 DEF IInv
<1>5. CASE ~Head(toClient).ok
  <2>1. Close(interruptReasons', TRUE)
    BY <1>2, <1>5 DEF AuthAnswered, TokenTurnedDown, Close, TryScheduleReconnect
  <2> QED
    BY <1>2, <2>1, ClosePreservesIInv
<1> QED
  BY <1>4, <1>5

-----------------------------------------------------------------------------
(* Events from outside.                                                     *)

\* An interrupt closes the connection or takes its attempt away.
LEMMA InterruptPreservesIInv ==
    ASSUME IInv, NEW reason, InterruptForReason(reason)
    PROVE  IInv'
<1>1. LineOK /\ StateOK
  BY DEF IInv
<1>2. UNCHANGED lineVars /\ interruptReasons' # {}
  BY DEF InterruptForReason, lineVars, authVars
<1>3. CASE realtime # "nil"
  BY <1>2, <1>3, ClosePreservesIInv DEF InterruptForReason
<1>4. CASE realtime = "nil"
  <2>1. LineOK' /\ (TokenAwaited' <=> TokenAwaited)
    BY <1>1, <1>2, LineKept
  <2>2. /\ connectionState' = "Disconnected" /\ scheduledRetry' = "none"
        /\ UNCHANGED <<realtime, toServer, toClient>>
    BY <1>4 DEF InterruptForReason, CallOff, wireVars
  <2>3. StateOK'
    BY <1>1, <1>2, <1>4, <2>1, <2>2
       DEF StateOK, StateTyped, ConnectionState, AssertionsHold, IsConnected,
           TriesUnlessInterrupted, WireNeedsConnection
  <2> QED
    BY <2>1, <2>3 DEF IInv
<1> QED
  BY <1>3, <1>4

\* An attempt is scheduled, or scheduled anew, on a connection that is closed.
LEMMA ReschedulePreservesIInv ==
    ASSUME IInv, UNCHANGED lineVars, NEW force,
           UNCHANGED <<connectionState, realtime, toServer, toClient>>,
           \/ /\ connectionState = "Disconnected"
              /\ TryScheduleReconnect(interruptReasons', force)
              /\ interruptReasons' = {} \/ interruptReasons # {}
           \/ /\ connectionState # "Disconnected"
              /\ scheduledRetry' = scheduledRetry
              /\ interruptReasons # {}
    PROVE  IInv'
<1>1. LineOK /\ StateOK
  BY DEF IInv
<1>2. LineOK' /\ (TokenAwaited' <=> TokenAwaited)
  BY <1>1, LineKept
<1>3. StateOK'
  BY <1>1, <1>2
     DEF TryScheduleReconnect, StateOK, StateTyped, ConnectionState, AssertionsHold, IsConnected,
         TriesUnlessInterrupted, WireNeedsConnection
<1> QED
  BY <1>2, <1>3 DEF IInv

\* Taking back the last interrupt schedules an attempt.
LEMMA ResumePreservesIInv ==
    ASSUME IInv, NEW reason, ResumeForReason(reason)
    PROVE  IInv'
<1>1. /\ UNCHANGED lineVars /\ UNCHANGED <<connectionState, realtime, toServer, toClient>>
      /\ interruptReasons # {}
  BY DEF ResumeForReason, lineVars, authVars, wireVars
<1>2. \/ /\ connectionState = "Disconnected"
         /\ TryScheduleReconnect(interruptReasons', forceTokenRefreshes)
      \/ connectionState # "Disconnected" /\ scheduledRetry' = scheduledRetry
  BY DEF ResumeForReason
<1> QED
  BY <1>1, <1>2, ReschedulePreservesIInv

\* A change of user is a letter with news of the token.
LEMMA AccountChangesPreservesIInv ==
    ASSUME IInv, AccountChanges
    PROVE  IInv'
<1>1. LineOK /\ StateOK
  BY DEF IInv
<1>2. /\ UNCHANGED <<currentFetchTokenAttempt, fetching>> /\ UNCHANGED stateVars
      /\ inbox' = Append(inbox, News(user'))
  BY DEF AccountChanges, clientVars, wireVars, stateVars
<1>3. minted' \in Nat /\ user' \in Token
  BY <1>1 DEF AccountChanges, LineOK, LineTyped, Token, NoToken
<1>4. LineOK' /\ (TokenAwaited' <=> TokenAwaited)
  BY <1>1, <1>2, <1>3, NewsAdded
<1>5. StateOK'
  BY <1>1, <1>2, <1>4, StateKept
<1> QED
  BY <1>4, <1>5 DEF IInv

\* A new start of the app leaves nothing of the old one.
LEMMA RelaunchPreservesIInv ==
    ASSUME IInv, LinkRelaunch
    PROVE  IInv'
<1>1. /\ currentFetchTokenAttempt' = 0 /\ fetching' = {} /\ inbox' = <<>>
      /\ user' = user /\ minted' = minted
  BY DEF LinkRelaunch
<1>2. LineTyped'
  BY <1>1 DEF IInv, LineOK, LineTyped
<1>3. Answers' = {}
  BY <1>1 DEF Answers
<1>4. AttemptsArePast' /\ OneAnswerEach'
  BY <1>1, <1>3 DEF AttemptsArePast, OneAnswerEach
<1>5. ~TokenAwaited'
  BY <1>1 DEF TokenAwaited
<1>6. StateOK'
  BY <1>5 DEF LinkRelaunch, StateOK, StateTyped, ConnectionState, AssertionsHold, IsConnected,
              TriesUnlessInterrupted, WireNeedsConnection
<1> QED
  BY <1>2, <1>4, <1>6 DEF IInv, LineOK

\* Every event from outside, by cases.
LEMMA LinkEventPreservesIInv ==
    ASSUME IInv, LinkEvent
    PROVE  IInv'
<1>1. CASE Drop
  <2>1. UNCHANGED lineVars /\ interruptReasons' = interruptReasons
    BY <1>1 DEF Drop, lineVars, authVars
  <2>2. Close(interruptReasons', forceTokenRefreshes)
    BY <1>1, <2>1 DEF Drop, Close, TryScheduleReconnect
  <2> QED
    BY <2>1, <2>2, ClosePreservesIInv
<1>2. CASE AuthRevoked
  <2>1. UNCHANGED lineVars /\ interruptReasons' = interruptReasons
    BY <1>2 DEF AuthRevoked, lineVars, authVars
  <2>2. Close(interruptReasons', TRUE)
    BY <1>2, <2>1 DEF AuthRevoked, TokenTurnedDown, Close, TryScheduleReconnect
  <2> QED
    BY <2>1, <2>2, ClosePreservesIInv
<1>3. CASE Kill \/ GoOffline
  BY <1>3, InterruptPreservesIInv DEF Kill, GoOffline
<1>4. CASE GoOnline \/ Open
  BY <1>4, ResumePreservesIInv DEF GoOnline, Open
<1>5. CASE Nudge
  <2>1. /\ UNCHANGED lineVars /\ UNCHANGED <<connectionState, realtime, toServer, toClient>>
        /\ interruptReasons' = {} /\ interruptReasons' = interruptReasons
        /\ connectionState = "Disconnected"
    BY <1>5 DEF Nudge, lineVars, authVars, wireVars
  <2>2. TryScheduleReconnect(interruptReasons', forceTokenRefreshes)
    BY <1>5, <2>1 DEF Nudge, TryScheduleReconnect
  <2> QED
    BY <2>1, <2>2, ReschedulePreservesIInv
<1>6. CASE AccountChanges
  BY <1>6, AccountChangesPreservesIInv
<1> QED
  BY <1>1, <1>2, <1>3, <1>4, <1>5, <1>6 DEF LinkEvent

\* Every step of the connection itself, by cases.
LEMMA LinkStepPreservesIInv ==
    ASSUME IInv, LinkStep
    PROVE  IInv'
<1>1. CASE Retry
  BY <1>1, RetryPreservesIInv
<1>2. CASE TokenService
  BY <1>2, TokenServicePreservesIInv
<1>3. CASE TokenFetched
  BY <1>3, TokenFetchedPreservesIInv
<1>4. CASE RefreshAuthToken
  BY <1>4, RefreshAuthTokenPreservesIInv
<1>5. CASE ServerAuth
  <2>1. realtime = "connected"
    BY <1>5 DEF ServerAuth, IInv, StateOK, WireNeedsConnection
  <2>2. /\ UNCHANGED lineVars
        /\ UNCHANGED <<connectionState, interruptReasons, realtime, scheduledRetry>>
    BY <1>5 DEF ServerAuth, lineVars, clientVars, authVars
  <2> QED
    BY <2>1, <2>2, WireStep
<1>6. CASE LinkEvent
  BY <1>6, LinkEventPreservesIInv
<1> QED
  BY <1>1, <1>2, <1>3, <1>4, <1>5, <1>6 DEF LinkStep

-----------------------------------------------------------------------------
\* The writes and reads use the wire of a connection that is up, and no more.
LEMMA RequestStepPreservesIInv ==
    ASSUME IInv,
           \/ Put \/ GetData \/ GetTimesOut \/ PutAnswered \/ GetAnswered
           \/ ServerPut \/ ServerGet
    PROVE  IInv'
<1>1. UNCHANGED lineVars
  BY DEF Put, GetData, GetTimesOut, PutAnswered, GetAnswered, ServerPut, ServerGet, lineVars,
         linkVars, clientVars, authVars
<1>2. UNCHANGED <<connectionState, interruptReasons, realtime, scheduledRetry>>
  BY DEF Put, GetData, GetTimesOut, PutAnswered, GetAnswered, ServerPut, ServerGet,
         linkVars, clientVars
<1>3. StateOK
  BY DEF IInv
<1>4. CASE Put \/ GetData
  <2>1. UNCHANGED toClient /\ (CanSend \/ UNCHANGED toServer)
    BY <1>4 DEF Put, GetData
  <2>2. CanSend => realtime = "connected"
    BY <1>3 DEF StateOK, AssertionsHold, CanSend, IsConnected
  <2> QED
    BY <1>1, <1>2, <2>1, <2>2, WireStep
<1>5. CASE GetTimesOut
  BY <1>1, <1>2, <1>5, WireStep DEF GetTimesOut, linkVars, wireVars
<1>6. CASE PutAnswered \/ GetAnswered \/ ServerPut \/ ServerGet
  <2>1. toClient # <<>> \/ toServer # <<>>
    BY <1>6 DEF PutAnswered, GetAnswered, ServerPut, ServerGet
  <2>2. realtime = "connected"
    BY <1>3, <2>1 DEF StateOK, WireNeedsConnection
  <2> QED
    BY <1>1, <1>2, <2>2, WireStep
<1> QED
  BY <1>4, <1>5, <1>6

\* Every step of the specification.
LEMMA NextPreservesIInv == IInv /\ [Next]_vars => IInv'
<1> SUFFICES ASSUME IInv, [Next]_vars
             PROVE  IInv'
  OBVIOUS
<1>1. CASE LinkStep
  BY <1>1, LinkStepPreservesIInv
<1>2. CASE OnReady
  BY <1>2, HelloPreservesIInv DEF OnReady
<1>3. CASE OnAuthAnswer
  BY <1>3, AuthAnsweredPreservesIInv DEF OnAuthAnswer
<1>4. CASE Put \/ GetData \/ GetTimesOut \/ PutAnswered \/ GetAnswered \/ ServerPut \/ ServerGet
  BY <1>4, RequestStepPreservesIInv
<1>5. CASE Relaunch
  BY <1>5, RelaunchPreservesIInv DEF Relaunch
<1>6. CASE UNCHANGED vars
  <2>1. UNCHANGED lineVars /\ UNCHANGED stateVars
    BY <1>6 DEF vars, linkVars, clientVars, authVars, wireVars, lineVars, stateVars
  <2> QED
    BY <2>1, WireStep DEF stateVars
<1> QED
  BY <1>1, <1>2, <1>3, <1>4, <1>5, <1>6 DEF Next

\* Every behaviour keeps the inductive invariant.
THEOREM InductiveInvariant == Spec => []IInv
BY InitEstablishesIInv, NextPreservesIInv, PTL DEF Spec

\* In whatever order interrupts, token answers and closes come, the
\* connection's own assertions about its state hold.
THEOREM AssertionsAlwaysHold == Spec => []AssertionsHold
<1>1. IInv => AssertionsHold
  BY DEF IInv, StateOK
<1> QED
  BY <1>1, InductiveInvariant, PTL

\* With no reason to stay away an attempt is scheduled, under way or open, and
\* with one there is none.
THEOREM TriesOrIsInterrupted == Spec => []TriesUnlessInterrupted
<1>1. IInv => TriesUnlessInterrupted
  BY DEF IInv, StateOK
<1> QED
  BY <1>1, InductiveInvariant, PTL

-----------------------------------------------------------------------------
(* Sorted keys and greatest numbers.                                        *)

\* A set of natural numbers that is not empty has a least one.
LEMMA LeastNumber ==
    ASSUME NEW S, S \subseteq Nat, S # {}
    PROVE  \E n \in S : \A m \in S : n <= m
<1>1. IsWellFoundedOn({p \in Nat \X Nat : p[1] < p[2]}, Nat)
  BY NatLessThanWellFounded DEF OpToRel
<1>2. PICK n \in S : \A m \in S : ~(<<m, n>> \in {p \in Nat \X Nat : p[1] < p[2]})
  BY <1>1, WFMin
<1>3. ASSUME NEW m \in S
      PROVE  n <= m
  <2>1. ~(<<m, n>> \in {p \in Nat \X Nat : p[1] < p[2]})
    BY <1>2
  <2>2. m \in Nat /\ n \in Nat
    OBVIOUS
  <2>3. <<m, n>> \in Nat \X Nat /\ ~(m < n)
    BY <2>1, <2>2
  <2> QED
    BY <2>2, <2>3
<1> QED
  BY <1>3

\* One that is bounded has a greatest.
LEMMA GreatestNumber ==
    ASSUME NEW S, S \subseteq Nat, S # {}, NEW b \in Nat, \A m \in S : m <= b
    PROVE  \E n \in S : \A m \in S : m <= n
<1> DEFINE bounds == {u \in Nat : \A m \in S : m <= u}
<1>1. bounds \subseteq Nat /\ bounds # {}
  OBVIOUS
<1>2. PICK u \in bounds : \A v \in bounds : u <= v
  BY <1>1, LeastNumber
<1>3. CASE u \in S
  BY <1>2, <1>3
<1>4. CASE u \notin S
  <2>1. PICK m \in S : TRUE
    OBVIOUS
  <2>2. u > 0
    BY <1>2, <1>4, <2>1
  <2>3. \A k \in S : k <= u - 1
    BY <1>2, <1>4
  <2>4. u - 1 \in bounds
    BY <1>2, <2>2, <2>3
  <2> QED
    BY <1>2, <2>4
<1> QED
  BY <1>3, <1>4

\* The keys of a bounded set can be sorted.
LEMMA SortedKeysExist ==
    ASSUME NEW b \in Nat
    PROVE  \A S \in SUBSET (1..b) :
             \E s \in [1..Cardinality(S) -> S] :
               \A i, j \in 1..Cardinality(S) : i < j => s[i] < s[j]
<1> DEFINE Sortable(S) == \E s \in [1..Cardinality(S) -> S] :
                            \A i, j \in 1..Cardinality(S) : i < j => s[i] < s[j]
           bad == {n \in Nat : \E S \in SUBSET (1..b) : Cardinality(S) = n /\ ~Sortable(S)}
<1>1. \A S \in SUBSET (1..b) : IsFiniteSet(S) /\ Cardinality(S) \in Nat
  <2>1. IsFiniteSet(1..b)
    BY FS_Interval
  <2> QED
    BY <2>1, FS_Subset, FS_CardinalityType
<1> SUFFICES ASSUME bad # {}
             PROVE  FALSE
  BY <1>1
<1>2. PICK n \in bad : \A m \in bad : n <= m
  <2>1. bad \subseteq Nat
    OBVIOUS
  <2> HIDE DEF bad
  <2> QED
    BY <2>1, LeastNumber
<1>3. PICK S \in SUBSET (1..b) : Cardinality(S) = n /\ ~Sortable(S)
  BY <1>2
<1>4. CASE n = 0
  <2>1. S = {}
    BY <1>1, <1>3, <1>4, FS_EmptySet
  <2> DEFINE s == [i \in 1..0 |-> 0]
  <2>2. s \in [1..Cardinality(S) -> S] /\ \A i, j \in 1..Cardinality(S) : i < j => s[i] < s[j]
    BY <1>3, <1>4
  <2> QED
    BY <1>3, <2>2
<1>5. CASE n # 0
  <2>1. n \in Nat /\ n > 0 /\ S # {} /\ S \subseteq Nat
    BY <1>1, <1>2, <1>3, <1>5, FS_EmptySet
  <2>2. PICK m \in S : \A k \in S : k <= m
    <3>1. \A k \in S : k <= b
      OBVIOUS
    <3> QED
      BY <2>1, <3>1, GreatestNumber
  <2> DEFINE T == S \ {m}
  <2>3. T \in SUBSET (1..b) /\ Cardinality(T) = n - 1
    BY <1>1, <1>3, <2>2, FS_RemoveElement
  <2>4. Sortable(T)
    <3>1. n - 1 \notin bad /\ n - 1 \in Nat
      BY <1>2, <2>1
    <3> QED
      BY <2>3, <3>1
  <2>5. PICK t \in [1..(n - 1) -> T] : \A i, j \in 1..(n - 1) : i < j => t[i] < t[j]
    BY <2>3, <2>4
  <2> DEFINE s == [i \in 1..n |-> IF i = n THEN m ELSE t[i]]
  <2>6. s \in [1..n -> S]
    BY <2>1, <2>2, <2>5
  <2>7. \A i, j \in 1..n : i < j => s[i] < s[j]
    <3> TAKE i, j \in 1..n
    <3> HAVE i < j
    <3>1. i \in 1..(n - 1) /\ s[i] = t[i] /\ t[i] \in T
      BY <2>1, <2>5
    <3>2. CASE j = n
      <4>1. t[i] <= m /\ t[i] # m /\ t[i] \in Nat /\ m \in Nat
        BY <2>1, <2>2, <3>1
      <4> QED
        BY <3>1, <3>2, <4>1
    <3>3. CASE j # n
      BY <2>5, <3>1, <3>3
    <3> QED
      BY <3>2, <3>3
  <2> HIDE DEF s
  <2> QED
    BY <1>3, <2>6, <2>7
<1> QED
  BY <1>4, <1>5

\* What InOrder makes of a bounded set: all of it, rising.
LEMMA InOrderProperties ==
    ASSUME NEW b \in Nat, NEW S \in SUBSET (1..b)
    PROVE  /\ Len(InOrder(S)) = Cardinality(S) /\ Len(InOrder(S)) \in Nat
           /\ InOrder(S) \in Seq(S)
           /\ \A i \in 1..Len(InOrder(S)) : InOrder(S)[i] \in S
           /\ \A i, j \in 1..Len(InOrder(S)) : i < j => InOrder(S)[i] < InOrder(S)[j]
           /\ \A x \in S : \E i \in 1..Len(InOrder(S)) : InOrder(S)[i] = x
<1> DEFINE n == Cardinality(S)
           s == InOrder(S)
<1>1. IsFiniteSet(S) /\ n \in Nat
  <2>1. IsFiniteSet(1..b)
    BY FS_Interval
  <2> QED
    BY <2>1, FS_Subset, FS_CardinalityType
<1>2. s \in [1..n -> S] /\ \A i, j \in 1..n : i < j => s[i] < s[j]
  BY SortedKeysExist DEF InOrder
<1> HIDE DEF s
<1>3. s \in Seq(S) /\ Len(s) = n
  BY <1>1, <1>2
<1>4. ASSUME NEW x \in S
      PROVE  \E i \in 1..n : s[i] = x
  <2> SUFFICES ASSUME \A i \in 1..n : s[i] # x
               PROVE  FALSE
    OBVIOUS
  <2>1. s \in [1..n -> S \ {x}]
    BY <1>2
  <2>2. IsFiniteSet(S \ {x}) /\ Cardinality(S \ {x}) = n - 1
    BY <1>1, FS_RemoveElement
  <2>3. IsFiniteSet(1..n) /\ Cardinality(1..n) = n
    BY <1>1, FS_Interval
  <2> DEFINE places == 1..n
             others == S \ {x}
  <2> HIDE DEF n
  <2>4. Cardinality(others) < Cardinality(places)
    BY <1>1, <2>2, <2>3
  <2>5. IsFiniteSet(places) /\ IsFiniteSet(others) /\ s \in [places -> others]
    BY <2>1, <2>2, <2>3
  <2> HIDE DEF places, others
  <2>6. PICK i, j \in places : i # j /\ s[i] = s[j]
    BY <2>4, <2>5, FS_PigeonHole, Zenon
  <2>7. i \in 1..n /\ j \in 1..n /\ (i < j \/ j < i)
    BY <1>1, <2>6 DEF places
  <2>8. s[i] \in 1..b
    BY <1>2, <2>7
  <2> QED
    BY <1>2, <2>6, <2>7, <2>8
<1> QED
  BY <1>1, <1>2, <1>3, <1>4 DEF s

-----------------------------------------------------------------------------
(* Types: the wire, and what the connection's own invariant leaves out.     *)

\* The messages to the server, and those to the client.
ServerMessage ==
    [type : {"auth"}, token : Token, restore : BOOLEAN] \cup {Unauth}
    \cup [type : {"put"}, index : Puts] \cup [type : {"get"}, index : Gets]

ClientMessage ==
    [type : {"auth"}, ok : BOOLEAN, token : Token, restore : BOOLEAN]
    \cup [type : {"put"}, index : Puts, status : {"ok", "refused"}]
    \cup [type : {"get"}, index : Gets, status : {"ok", "refused"}, seen : 0..MaxPuts]

\* The types of the wire, the flags, the tokens and the requests.
WireTyped == toServer \in Seq(ServerMessage) /\ toClient \in Seq(ClientMessage)

FlagsTyped ==
    /\ interruptReasons \subseteq InterruptReason
    /\ forceTokenRefreshes \in BOOLEAN
    /\ events \in 0..MaxEvents
    /\ forceLost \in BOOLEAN
    /\ overtaken \in BOOLEAN

TokensTyped ==
    /\ authToken \in Token
    /\ serverToken \in Token
    /\ revoked \in SUBSET Token
    /\ turnedDown \in SUBSET Token

RequestsTyped ==
    /\ puts \in [Puts -> PutStatus]
    /\ putCount \in 0..MaxPuts
    /\ gets \in [Gets -> Get]
    /\ getCount \in 0..MaxGets
    /\ verdict \in [Puts -> Verdict]
    /\ position \in 0..MaxPuts

RestTyped == WireTyped /\ FlagsTyped /\ TokensTyped /\ RequestsTyped

\* Together with the connection's invariant that is the type invariant.
LEMMA TypesTogether == IInv /\ RestTyped => TypeOK
BY DEF IInv, LineOK, LineTyped, Letter, StateOK, StateTyped, RestTyped, FlagsTyped, TokensTyped,
       RequestsTyped, TypeOK, LinkTypeOK

\* The kinds of message to the server, by what they carry.
LEMMA ServerMessageKinds ==
    ASSUME NEW m \in ServerMessage
    PROVE  /\ m.type \in {"auth", "unauth", "put", "get"}
           /\ m.type = "auth" => m.token \in Token /\ m.restore \in BOOLEAN
           /\ m.type = "put" => m.index \in Puts /\ m = PutRequest(m.index)
           /\ m.type = "get" => m.index \in Gets /\ m = GetRequest(m.index)
           /\ m.type = "unauth" => m = Unauth
BY DEF ServerMessage, Unauth, PutRequest, GetRequest

\* The kinds of message to the client, by what they carry.
LEMMA ClientMessageKinds ==
    ASSUME NEW m \in ClientMessage
    PROVE  /\ m.type \in {"auth", "put", "get"}
           /\ m.type = "auth" => m.ok \in BOOLEAN /\ m.token \in Token /\ m.restore \in BOOLEAN
           /\ m.type = "put" => m.index \in Puts /\ m.status \in {"ok", "refused"}
           /\ m.type = "get" => /\ m.index \in Gets /\ m.status \in {"ok", "refused"}
                                /\ m.seen \in 0..MaxPuts
BY DEF ClientMessage

\* The messages that are sent are messages.
LEMMA MessagesAre ==
    /\ \A i \in Puts : /\ PutRequest(i) \in ServerMessage
                        /\ PutRequest(i).type = "put" /\ PutRequest(i).index = i
    /\ \A g \in Gets : /\ GetRequest(g) \in ServerMessage
                        /\ GetRequest(g).type = "get" /\ GetRequest(g).index = g
    /\ \A t \in Token, r \in BOOLEAN :
         /\ AuthRequest(t, r) \in ServerMessage /\ AuthRequest(t, r).type = "auth"
         /\ AuthRequest(t, r).token = t /\ AuthRequest(t, r).restore = r
    /\ Unauth \in ServerMessage /\ Unauth.type = "unauth"
    /\ \A i \in Puts, status \in {"ok", "refused"} :
         /\ PutAnswer(i, status) \in ClientMessage /\ PutAnswer(i, status).type = "put"
         /\ PutAnswer(i, status).index = i /\ PutAnswer(i, status).status = status
    /\ \A g \in Gets, status \in {"ok", "refused"} :
         /\ position \in 0..MaxPuts => GetAnswer(g, status) \in ClientMessage
         /\ GetAnswer(g, status).type = "get" /\ GetAnswer(g, status).index = g
         /\ GetAnswer(g, status).status = status /\ GetAnswer(g, status).seen = position
    /\ \A ok \in BOOLEAN, m \in ServerMessage : m.type = "auth" =>
         /\ AuthAnswer(ok, m) \in ClientMessage /\ AuthAnswer(ok, m).type = "auth"
         /\ AuthAnswer(ok, m).ok = ok /\ AuthAnswer(ok, m).token = m.token
         /\ AuthAnswer(ok, m).restore = m.restore
<1>1. \A i \in Puts : /\ PutRequest(i) \in ServerMessage
                      /\ PutRequest(i).type = "put" /\ PutRequest(i).index = i
  BY DEF PutRequest, ServerMessage
<1>2. \A g \in Gets : /\ GetRequest(g) \in ServerMessage
                      /\ GetRequest(g).type = "get" /\ GetRequest(g).index = g
  BY DEF GetRequest, ServerMessage
<1>3. \A t \in Token, r \in BOOLEAN :
        /\ AuthRequest(t, r) \in ServerMessage /\ AuthRequest(t, r).type = "auth"
        /\ AuthRequest(t, r).token = t /\ AuthRequest(t, r).restore = r
  BY DEF AuthRequest, ServerMessage
<1>4. Unauth \in ServerMessage /\ Unauth.type = "unauth"
  BY DEF Unauth, ServerMessage
<1>5. \A i \in Puts, status \in {"ok", "refused"} :
        /\ PutAnswer(i, status) \in ClientMessage /\ PutAnswer(i, status).type = "put"
        /\ PutAnswer(i, status).index = i /\ PutAnswer(i, status).status = status
  BY DEF PutAnswer, ClientMessage
<1>6. \A g \in Gets, status \in {"ok", "refused"} :
        /\ position \in 0..MaxPuts => GetAnswer(g, status) \in ClientMessage
        /\ GetAnswer(g, status).type = "get" /\ GetAnswer(g, status).index = g
        /\ GetAnswer(g, status).status = status /\ GetAnswer(g, status).seen = position
  BY DEF GetAnswer, ClientMessage
<1>7. ASSUME NEW ok \in BOOLEAN, NEW m \in ServerMessage, m.type = "auth"
      PROVE  /\ AuthAnswer(ok, m) \in ClientMessage /\ AuthAnswer(ok, m).type = "auth"
             /\ AuthAnswer(ok, m).ok = ok /\ AuthAnswer(ok, m).token = m.token
             /\ AuthAnswer(ok, m).restore = m.restore
  BY <1>7, ServerMessageKinds DEF AuthAnswer, ClientMessage
<1> QED
  BY <1>1, <1>2, <1>3, <1>4, <1>5, <1>6, <1>7

\* Newest is a write that is neither unissued nor lost, and no such write is newer.
LEMMA NewestProperties ==
    ASSUME RequestsTyped
    PROVE  /\ Newest \in 0..MaxPuts
           /\ Newest # 0 => Newest \in Puts /\ puts[Newest] \notin {"unissued", "lost"}
           /\ \A j \in Puts : puts[j] \notin {"unissued", "lost"} => j <= Newest
<1> DEFINE kept == {i \in Puts : puts[i] \notin {"unissued", "lost"}}
<1>1. MaxPuts \in Nat /\ kept \cup {0} \subseteq 0..MaxPuts
  BY RequestsAssumption DEF Puts
<1>2. Newest = CHOOSE i \in kept \cup {0} : \A j \in kept : j <= i
  BY DEF Newest
<1>3. \E i \in kept \cup {0} : \A j \in kept \cup {0} : j <= i
  <2> DEFINE all == kept \cup {0}
  <2>1. all \subseteq Nat /\ all # {} /\ \A j \in all : j <= MaxPuts
    BY <1>1
  <2> HIDE DEF all
  <2>2. \E i \in all : \A j \in all : j <= i
    BY <1>1, <2>1, GreatestNumber
  <2> QED
    BY <2>2 DEF all
<1>4. Newest \in kept \cup {0} /\ \A j \in kept : j <= Newest
  <2> HIDE DEF kept
  <2> QED
    BY <1>2, <1>3
<1> QED
  BY <1>1, <1>4

\* What restoreState sends: the outstanding writes in order, then unsent reads.
LEMMA RestoredProperties ==
    /\ Restored \in Seq(ServerMessage)
    /\ \A k \in 1..Len(Restored) :
         \/ Restored[k].type = "put" /\ Outstanding(Restored[k].index)
         \/ /\ Restored[k].type = "get"
            /\ Waiting(Restored[k].index) /\ ~gets[Restored[k].index].sent
    /\ \A k, l \in 1..Len(Restored) : Restored[k].type = "put" /\ k < l =>
         \/ Restored[l].type = "get"
         \/ Restored[l].type = "put" /\ Restored[k].index < Restored[l].index
    /\ \A k, l \in 1..Len(Restored) : Restored[k].type = "get" /\ Restored[l].type = "put" => l < k
    /\ \A i \in Puts : Outstanding(i) =>
         \E k \in 1..Len(Restored) : Restored[k] = PutRequest(i)
<1> DEFINE w == InOrder(OutstandingPuts)
           d == InOrder(UnsentGets)
           ws == [i \in 1..Len(w) |-> PutRequest(w[i])]
           ds == [i \in 1..Len(d) |-> GetRequest(d[i])]
<1>1. Restored = ws \o ds
  BY DEF Restored, Outgoing
<1>2. /\ Len(w) \in Nat /\ \A i \in 1..Len(w) : w[i] \in OutstandingPuts
      /\ \A i, j \in 1..Len(w) : i < j => w[i] < w[j]
      /\ \A x \in OutstandingPuts : \E i \in 1..Len(w) : w[i] = x
  <2>1. MaxPuts \in Nat /\ OutstandingPuts \in SUBSET (1..MaxPuts)
    BY RequestsAssumption DEF OutstandingPuts, Puts
  <2> QED
    BY <2>1, InOrderProperties
<1>3. /\ Len(d) \in Nat /\ \A i \in 1..Len(d) : d[i] \in UnsentGets
  <2>1. MaxGets \in Nat /\ UnsentGets \in SUBSET (1..MaxGets)
    BY RequestsAssumption DEF UnsentGets, Gets
  <2> QED
    BY <2>1, InOrderProperties
<1>4. /\ OutstandingPuts \subseteq Puts /\ \A i \in OutstandingPuts : Outstanding(i)
      /\ UnsentGets \subseteq Gets /\ \A g \in UnsentGets : Waiting(g) /\ ~gets[g].sent
      /\ \A i \in Puts : Outstanding(i) => i \in OutstandingPuts
  BY DEF OutstandingPuts, UnsentGets
<1> HIDE DEF w, d
<1>5. /\ ws \in Seq(ServerMessage) /\ Len(ws) = Len(w)
      /\ \A k \in 1..Len(w) : ws[k] = PutRequest(w[k]) /\ ws[k].type = "put" /\ ws[k].index = w[k]
  <2>1. \A k \in 1..Len(w) : /\ PutRequest(w[k]) \in ServerMessage
                             /\ PutRequest(w[k]).type = "put" /\ PutRequest(w[k]).index = w[k]
    BY <1>2, <1>4, MessagesAre
  <2> QED
    BY <1>2, <2>1
<1>6. /\ ds \in Seq(ServerMessage) /\ Len(ds) = Len(d)
      /\ \A k \in 1..Len(d) : ds[k].type = "get" /\ ds[k].index = d[k]
  <2>1. \A k \in 1..Len(d) : /\ GetRequest(d[k]) \in ServerMessage
                             /\ GetRequest(d[k]).type = "get" /\ GetRequest(d[k]).index = d[k]
    BY <1>3, <1>4, MessagesAre
  <2> QED
    BY <1>3, <2>1
<1> HIDE DEF ws, ds
<1>7. /\ Restored \in Seq(ServerMessage) /\ Len(Restored) = Len(w) + Len(d)
      /\ \A k \in 1..Len(w) : Restored[k] = ws[k]
      /\ \A k \in Len(w) + 1..Len(w) + Len(d) :
            Restored[k] = ds[k - Len(w)] /\ k - Len(w) \in 1..Len(d)
  <2>1. /\ ws \o ds \in Seq(ServerMessage) /\ Len(ws \o ds) = Len(ws) + Len(ds)
        /\ \A k \in 1..Len(ws) + Len(ds) :
              (ws \o ds)[k] = IF k <= Len(ws) THEN ws[k] ELSE ds[k - Len(ws)]
    <3>1. ws \in Seq(ServerMessage) /\ ds \in Seq(ServerMessage)
      BY <1>5, <1>6
    <3> QED
      BY <3>1, ConcatProperties, Zenon
  <2> QED
    BY <1>1, <1>2, <1>3, <1>5, <1>6, <2>1
<1>8. /\ \A k \in 1..Len(w) : /\ Restored[k].type = "put" /\ Restored[k].index = w[k]
                               /\ Restored[k] = PutRequest(w[k])
      /\ \A k \in Len(w) + 1..Len(w) + Len(d) :
            Restored[k].type = "get" /\ Restored[k].index \in UnsentGets
  <2>1. ASSUME NEW k \in 1..Len(w)
        PROVE  /\ Restored[k].type = "put" /\ Restored[k].index = w[k]
               /\ Restored[k] = PutRequest(w[k])
    BY <1>5, <1>7
  <2>2. ASSUME NEW k \in Len(w) + 1..Len(w) + Len(d)
        PROVE  Restored[k].type = "get" /\ Restored[k].index \in UnsentGets
    BY <1>3, <1>6, <1>7
  <2> QED
    BY <2>1, <2>2
<1>9. \A k \in 1..Len(Restored) : /\ k \in 1..Len(w) <=> Restored[k].type = "put"
                                  /\ k \in Len(w) + 1..Len(w) + Len(d) <=> Restored[k].type = "get"
                                  /\ Restored[k].type \in {"put", "get"}
  BY <1>2, <1>3, <1>7, <1>8
<1>10. \A i \in Puts : Outstanding(i) => \E k \in 1..Len(Restored) : Restored[k] = PutRequest(i)
  <2> TAKE i \in Puts
  <2> HAVE Outstanding(i)
  <2>1. PICK k \in 1..Len(w) : w[k] = i
    BY <1>2, <1>4
  <2> QED
    BY <1>2, <1>3, <1>7, <1>8, <2>1
<1>11. \A k \in 1..Len(Restored) :
         \/ Restored[k].type = "put" /\ Outstanding(Restored[k].index)
         \/ /\ Restored[k].type = "get"
            /\ Waiting(Restored[k].index) /\ ~gets[Restored[k].index].sent
  BY <1>2, <1>4, <1>8, <1>9
<1>12. ASSUME NEW k \in 1..Len(Restored), NEW l \in 1..Len(Restored),
              Restored[k].type = "put", k < l, Restored[l].type # "get"
       PROVE  Restored[l].type = "put" /\ Restored[k].index < Restored[l].index
  BY <1>2, <1>8, <1>9, <1>12
<1>13. ASSUME NEW k \in 1..Len(Restored), NEW l \in 1..Len(Restored),
              Restored[k].type = "get", Restored[l].type = "put"
       PROVE  l < k
  BY <1>2, <1>3, <1>9, <1>13
<1> QED
  BY <1>7, <1>10, <1>11, <1>12, <1>13

\* A sequence without its first element.
LEMMA FirstTaken ==
    ASSUME NEW S, NEW q \in Seq(S), q # <<>>
    PROVE  /\ Len(q) \in Nat /\ Len(q) >= 1 /\ Head(q) = q[1] /\ q[1] \in S /\ 1 \in 1..Len(q)
           /\ Tail(q) \in Seq(S) /\ Len(Tail(q)) = Len(q) - 1
           /\ \A k \in 1..Len(Tail(q)) : Tail(q)[k] = q[k + 1] /\ k + 1 \in 1..Len(q)
<1>1. Len(q) \in Nat /\ Len(q) # 0
  BY LenProperties, EmptySeq
<1>2. /\ Head(q) \in S /\ Tail(q) \in Seq(S) /\ Len(Tail(q)) = Len(q) - 1
      /\ \A k \in 1..Len(Tail(q)) : Tail(q)[k] = q[k + 1]
  BY HeadTailProperties
<1> QED
  BY <1>1, <1>2

\* A sequence of one element.
LEMMA OneElement ==
    ASSUME NEW S, NEW m \in S
    PROVE  <<m>> \in Seq(S) /\ Len(<<m>>) = 1 /\ <<m>>[1] = m
OBVIOUS

\* A sequence with one more element.
LEMMA LastAdded ==
    ASSUME NEW S, NEW q \in Seq(S), NEW m \in S
    PROVE  /\ Len(q) \in Nat /\ Append(q, m) \in Seq(S) /\ Len(Append(q, m)) = Len(q) + 1
           /\ \A k \in 1..Len(q) : Append(q, m)[k] = q[k]
           /\ Append(q, m)[Len(q) + 1] = m
           /\ \A k \in 1..Len(Append(q, m)) : k \in 1..Len(q) \/ k = Len(q) + 1
<1>1. Len(q) \in Nat
  BY LenProperties
<1>2. /\ Append(q, m) \in Seq(S) /\ Len(Append(q, m)) = Len(q) + 1
      /\ \A k \in 1..Len(q) : Append(q, m)[k] = q[k]
      /\ Append(q, m)[Len(q) + 1] = m
  BY AppendProperties
<1> QED
  BY <1>1, <1>2

\* The first message to the server, and the wire without it.
LEMMA RequestTaken ==
    ASSUME WireTyped, toServer # <<>>
    PROVE  /\ Head(toServer) \in ServerMessage /\ Tail(toServer) \in Seq(ServerMessage)
           /\ Head(toServer) = toServer[1]
BY FirstTaken DEF WireTyped

\* The first message to the client, and the wire without it.
LEMMA AnswerTaken ==
    ASSUME WireTyped, toClient # <<>>
    PROVE  /\ Head(toClient) \in ClientMessage /\ Tail(toClient) \in Seq(ClientMessage)
           /\ Head(toClient) = toClient[1]
BY FirstTaken DEF WireTyped

\* What scheduling an attempt leaves of the flags.
LEMMA ScheduleTyped ==
    ASSUME FlagsTyped, NEW reasons, NEW force \in BOOLEAN, TryScheduleReconnect(reasons, force)
    PROVE  forceTokenRefreshes' \in BOOLEAN /\ forceLost' \in BOOLEAN
<1>1. \/ forceTokenRefreshes' = FALSE \/ forceTokenRefreshes' = force
  BY DEF TryScheduleReconnect
<1>2. \/ forceLost' = (forceLost \/ (scheduledRetry = "forced" /\ ~force))
      \/ forceLost' = forceLost
  BY DEF TryScheduleReconnect
<1>3. forceTokenRefreshes' \in BOOLEAN
  BY <1>1
<1>4. forceLost' \in BOOLEAN
  BY <1>2 DEF FlagsTyped
<1> QED
  BY <1>3, <1>4

\* Closing the connection.
LEMMA CloseTyped ==
    ASSUME RestTyped, NEW reasons, NEW force \in BOOLEAN, Close(reasons, force)
    PROVE  /\ WireTyped'
           /\ forceTokenRefreshes' \in BOOLEAN /\ forceLost' \in BOOLEAN /\ overtaken' \in BOOLEAN
           /\ serverToken' \in Token
<1>1. NoToken \in Token
  BY DEF NoToken, Token
<1>2. TryScheduleReconnect(reasons, force)
  BY DEF Close
<1>3. WireTyped'
  <2>1. toServer' = <<>> /\ toClient' = <<>>
    BY DEF Close
  <2> QED
    BY <2>1, EmptySeq DEF WireTyped
<1>4. overtaken' \in BOOLEAN /\ serverToken' \in Token
  BY <1>1 DEF Close
<1> QED
  BY <1>2, <1>3, <1>4, ScheduleTyped DEF RestTyped

\* An event from outside is counted.
LEMMA EventTyped ==
    ASSUME FlagsTyped, Event
    PROVE  events' \in 0..MaxEvents
BY EventsAssumption DEF FlagsTyped, Event

-----------------------------------------------------------------------------
\* The link's own steps keep the types that its invariant leaves out.
LEMMA TokenStepsTyped ==
    ASSUME IInv, RestTyped, Retry \/ TokenService \/ TokenFetched \/ RefreshAuthToken,
           UNCHANGED requestVars
    PROVE  RestTyped'
<1>1. WireTyped /\ FlagsTyped /\ TokensTyped /\ RequestsTyped /\ LineTyped
  BY DEF RestTyped, IInv, LineOK
<1>2. RequestsTyped'
  BY <1>1 DEF RequestsTyped, requestVars
<1>3. CASE Retry
  BY <1>1, <1>2, <1>3
     DEF Retry, RestTyped, WireTyped, FlagsTyped, TokensTyped, serverVars, wireVars, historyVars
<1>4. CASE TokenService
  <2>1. /\ UNCHANGED <<interruptReasons, forceTokenRefreshes, overtaken, authToken, serverToken,
                       revoked, turnedDown, toServer, toClient>>
    BY <1>4 DEF TokenService, clientVars, serverVars, wireVars
  <2>2. PICK f \in fetching : AnswerToken(f) \/ RequestToken(f) \/ RefreshToken(f) \/ RefreshFails(f)
    BY <1>4 DEF TokenService
  <2>3. \/ UNCHANGED <<events, forceLost>>
        \/ Event /\ forceLost' = (forceLost \/ f.forced)
    BY <2>2 DEF AnswerToken, RequestToken, RefreshToken, RefreshFails
  <2>4. forceLost' \in BOOLEAN
    BY <1>1, <2>3 DEF FlagsTyped, LineTyped, Fetch
  <2>5. events' \in 0..MaxEvents
    BY <1>1, <2>3, EventTyped DEF FlagsTyped
  <2> QED
    BY <1>1, <1>2, <2>1, <2>4, <2>5 DEF RestTyped, WireTyped, FlagsTyped, TokensTyped
<1>5. CASE TokenFetched
  <2>1. /\ inbox # <<>> /\ UNCHANGED <<interruptReasons, toServer, toClient, serverToken, revoked,
                                        events, turnedDown>>
        /\ Head(inbox).type \in {"fetched", "failed"}
    BY <1>5 DEF TokenFetched, serverVars, wireVars
  <2>2. Head(inbox) \in Letter
    BY <1>1, <2>1, FirstTaken DEF LineTyped
  <2>3. \/ /\ TryScheduleReconnect(interruptReasons, forceTokenRefreshes)
           /\ UNCHANGED <<authToken, overtaken>>
        \/ /\ Head(inbox).type = "fetched" /\ authToken' = Head(inbox).token
           /\ overtaken' = (Head(inbox).token.session # user.session)
           /\ UNCHANGED <<forceTokenRefreshes, forceLost>>
        \/ UNCHANGED <<authToken, overtaken, forceTokenRefreshes, forceLost>>
    BY <1>5 DEF TokenFetched
  <2>4. authToken' \in Token
    BY <1>1, <2>2, <2>3 DEF Letter, TokensTyped
  <2>5. overtaken' \in BOOLEAN
    BY <1>1, <2>3 DEF FlagsTyped
  <2>6. forceTokenRefreshes' \in BOOLEAN /\ forceLost' \in BOOLEAN
    <3>1. forceTokenRefreshes \in BOOLEAN /\ forceLost \in BOOLEAN
      BY <1>1 DEF FlagsTyped
    <3> QED
      BY <1>1, <2>3, <3>1, ScheduleTyped
  <2> QED
    BY <1>1, <1>2, <2>1, <2>4, <2>5, <2>6 DEF RestTyped, WireTyped, FlagsTyped, TokensTyped
<1>6. CASE RefreshAuthToken
  <2> DEFINE token == Head(inbox).token
  <2>1. /\ inbox # <<>> /\ Head(inbox).type = "news" /\ authToken' = token /\ overtaken' = FALSE
        /\ toServer' = IF IsConnected THEN toServer \o Word(token) ELSE toServer
        /\ UNCHANGED <<interruptReasons, forceTokenRefreshes, toClient, serverToken, revoked,
                       events, turnedDown, forceLost>>
    BY <1>6 DEF RefreshAuthToken, serverVars
  <2>2. token \in Token
    <3>1. Head(inbox) \in Letter
      BY <1>1, <2>1, FirstTaken DEF LineTyped
    <3> QED
      BY <2>1, <3>1 DEF Letter
  <2> HIDE DEF token
  <2>3. Word(token) \in Seq(ServerMessage)
    <3>1. Unauth \in ServerMessage /\ AuthRequest(token, FALSE) \in ServerMessage
      BY <2>2, MessagesAre
    <3>2. <<Unauth>> \in Seq(ServerMessage) /\ <<AuthRequest(token, FALSE)>> \in Seq(ServerMessage)
      BY <3>1, OneElement
    <3> QED
      BY <3>2, Zenon DEF Word
  <2>4. toServer' \in Seq(ServerMessage)
    <3>1. toServer \o Word(token) \in Seq(ServerMessage)
      BY <1>1, <2>3, ConcatProperties, Zenon DEF WireTyped
    <3> QED
      BY <1>1, <2>1, <3>1 DEF WireTyped
  <2> QED
    BY <1>1, <1>2, <2>1, <2>2, <2>4 DEF RestTyped, WireTyped, FlagsTyped, TokensTyped
<1> QED
  BY <1>3, <1>4, <1>5, <1>6

\* Connection, authentication and the server's words keep the types.
LEMMA WordStepsTyped ==
    ASSUME IInv, RestTyped, ServerAuth \/ OnReady \/ OnAuthAnswer, RequestsTyped'
    PROVE  RestTyped'
<1>1. WireTyped /\ FlagsTyped /\ TokensTyped /\ RequestsTyped
  BY DEF RestTyped
<1>2. NoToken \in Token
  BY DEF NoToken, Token
<1>3. CASE ServerAuth
  <2> DEFINE m == Head(toServer)
  <2>1. /\ toServer # <<>> /\ m.type \in {"auth", "unauth"} /\ toServer' = Tail(toServer)
        /\ UNCHANGED <<interruptReasons, forceTokenRefreshes, authToken, turnedDown, forceLost,
                       overtaken>>
        /\ \/ /\ m.type = "unauth" /\ serverToken' = NoToken
              /\ UNCHANGED <<toClient, revoked, events>>
           \/ /\ m.type = "auth" /\ serverToken' = m.token
              /\ toClient' = Append(toClient, AuthAnswer(TRUE, m)) /\ UNCHANGED <<revoked, events>>
           \/ /\ m.type = "auth" /\ (UNCHANGED events \/ Event)
              /\ revoked' = revoked \cup {m.token}
              /\ toClient' = Append(toClient, AuthAnswer(FALSE, m)) /\ UNCHANGED serverToken
    BY <1>3 DEF ServerAuth, clientVars
  <2>2. m \in ServerMessage /\ Tail(toServer) \in Seq(ServerMessage)
    BY <1>1, <2>1, RequestTaken
  <2> HIDE DEF m
  <2>3. m.type = "auth" => /\ m.token \in Token
                          /\ AuthAnswer(TRUE, m) \in ClientMessage
                          /\ AuthAnswer(FALSE, m) \in ClientMessage
    BY <2>2, ServerMessageKinds DEF AuthAnswer, ClientMessage
  <2>4. toClient' \in Seq(ClientMessage)
    <3> DEFINE yes == AuthAnswer(TRUE, m)
               no == AuthAnswer(FALSE, m)
    <3>1. toClient' \in {toClient, Append(toClient, yes), Append(toClient, no)}
      BY <2>1
    <3>2. m.type = "auth" => yes \in ClientMessage /\ no \in ClientMessage
      BY <2>3
    <3>3. m.type # "auth" => toClient' = toClient
      BY <2>1
    <3> HIDE DEF yes, no
    <3>4. toClient \in Seq(ClientMessage)
      BY <1>1 DEF WireTyped
    <3>5. CASE m.type = "auth"
      <4>1. Append(toClient, yes) \in Seq(ClientMessage) /\ Append(toClient, no) \in Seq(ClientMessage)
        BY <3>2, <3>4, <3>5, LastAdded
      <4> QED
        BY <3>1, <3>4, <4>1
    <3> QED
      BY <3>3, <3>4, <3>5
  <2>5. events' \in 0..MaxEvents
    BY <1>1, <2>1, EventTyped DEF FlagsTyped
  <2>6. serverToken' \in Token /\ revoked' \in SUBSET Token
    BY <1>1, <1>2, <2>1, <2>3 DEF TokensTyped
  <2> QED
    BY <1>1, <2>1, <2>2, <2>4, <2>5, <2>6 DEF RestTyped, WireTyped, FlagsTyped, TokensTyped
<1>4. Restored \in Seq(ServerMessage)
  BY RestoredProperties
<1>5. toServer \o Restored \in Seq(ServerMessage)
  BY <1>1, <1>4, ConcatProperties, Zenon DEF WireTyped
<1>6. CASE OnReady
  <2>1. /\ UNCHANGED <<interruptReasons, forceTokenRefreshes, authToken, turnedDown, forceLost,
                       overtaken, serverToken, revoked, toClient, events>>
        /\ \/ toServer' = toServer \o Restored
           \/ toServer' = Append(toServer, AuthRequest(authToken, TRUE))
    BY <1>6 DEF OnReady, Hello, serverVars, historyVars
  <2>2. AuthRequest(authToken, TRUE) \in ServerMessage
    BY <1>1, MessagesAre DEF TokensTyped
  <2>3. toServer' \in Seq(ServerMessage)
    BY <1>1, <1>5, <2>1, <2>2, LastAdded DEF WireTyped
  <2> QED
    BY <1>1, <2>1, <2>3 DEF RestTyped, WireTyped, FlagsTyped, TokensTyped
<1>7. CASE OnAuthAnswer
  <2> DEFINE m == Head(toClient)
  <2>1. /\ toClient # <<>> /\ m.type = "auth" /\ UNCHANGED <<interruptReasons, revoked, events>>
        /\ \/ /\ toServer' = toServer \o Restored \/ toServer' = toServer
              /\ toClient' = Tail(toClient)
              /\ UNCHANGED <<authToken, forceTokenRefreshes, serverToken, turnedDown, forceLost,
                             overtaken>>
           \/ /\ authToken' = NoToken /\ turnedDown' = turnedDown \cup {m.token}
              /\ Close(interruptReasons, TRUE)
    BY <1>7 DEF OnAuthAnswer, AuthAnswered, TokenTurnedDown
  <2>2. m.token \in Token /\ Tail(toClient) \in Seq(ClientMessage)
    BY <1>1, <2>1, AnswerTaken, ClientMessageKinds
  <2> HIDE DEF m
  <2>3. CASE /\ toServer' = toServer \o Restored \/ toServer' = toServer
             /\ toClient' = Tail(toClient)
             /\ UNCHANGED <<authToken, forceTokenRefreshes, serverToken, turnedDown, forceLost,
                            overtaken>>
    BY <1>1, <1>5, <2>1, <2>2, <2>3 DEF RestTyped, WireTyped, FlagsTyped, TokensTyped
  <2>4. CASE /\ authToken' = NoToken /\ turnedDown' = turnedDown \cup {m.token}
             /\ Close(interruptReasons, TRUE)
    <3>1. /\ WireTyped' /\ forceTokenRefreshes' \in BOOLEAN /\ forceLost' \in BOOLEAN
          /\ overtaken' \in BOOLEAN /\ serverToken' \in Token
      <4> DEFINE force == TRUE
      <4>1. force \in BOOLEAN /\ Close(interruptReasons, force)
        BY <2>4
      <4> HIDE DEF force
      <4> QED
        BY <4>1, CloseTyped
    <3> QED
      BY <1>1, <1>2, <2>1, <2>2, <2>4, <3>1 DEF RestTyped, FlagsTyped, TokensTyped
  <2> QED
    BY <2>1, <2>3, <2>4
<1> QED
  BY <1>3, <1>6, <1>7

\* What comes from outside keeps the types.
LEMMA EventsTyped ==
    ASSUME IInv, RestTyped, LinkEvent \/ LinkRelaunch, RequestsTyped'
    PROVE  RestTyped'
<1>1. WireTyped /\ FlagsTyped /\ TokensTyped /\ RequestsTyped
  BY DEF RestTyped
<1>2. NoToken \in Token /\ <<>> \in Seq(ServerMessage) /\ <<>> \in Seq(ClientMessage)
  BY EmptySeq DEF NoToken, Token
<1>3. \A force \in BOOLEAN : Close(interruptReasons, force) \/ Close(interruptReasons', force) =>
        /\ WireTyped' /\ forceTokenRefreshes' \in BOOLEAN /\ forceLost' \in BOOLEAN
        /\ overtaken' \in BOOLEAN /\ serverToken' \in Token
  BY CloseTyped
<1>4. forceTokenRefreshes \in BOOLEAN /\ forceLost \in BOOLEAN
  BY <1>1 DEF FlagsTyped
<1>5. CASE Drop
  <2>1. /\ Close(interruptReasons, forceTokenRefreshes) /\ Event
        /\ UNCHANGED <<interruptReasons, authToken, revoked, turnedDown>>
    BY <1>5 DEF Drop
  <2>2. events' \in 0..MaxEvents
    BY <1>1, <2>1, EventTyped
  <2> QED
    BY <1>1, <1>3, <1>4, <2>1, <2>2 DEF RestTyped, FlagsTyped, TokensTyped
<1>6. CASE AuthRevoked
  <2>1. /\ Event /\ revoked' = revoked \cup {serverToken}
        /\ authToken' = NoToken /\ turnedDown' = turnedDown \cup {serverToken}
        /\ Close(interruptReasons, TRUE) /\ UNCHANGED interruptReasons
    BY <1>6 DEF AuthRevoked, TokenTurnedDown
  <2>2. events' \in 0..MaxEvents
    BY <1>1, <2>1, EventTyped
  <2>3. /\ WireTyped' /\ forceTokenRefreshes' \in BOOLEAN /\ forceLost' \in BOOLEAN
        /\ overtaken' \in BOOLEAN /\ serverToken' \in Token
    <3> DEFINE force == TRUE
    <3>1. force \in BOOLEAN /\ Close(interruptReasons, force)
      BY <2>1
    <3> HIDE DEF force
    <3> QED
      BY <3>1, CloseTyped
  <2> QED
    BY <1>1, <1>2, <2>1, <2>2, <2>3 DEF RestTyped, FlagsTyped, TokensTyped
<1>7. ASSUME NEW reason \in InterruptReason, InterruptForReason(reason), Event
      PROVE  RestTyped'
  <2>1. /\ interruptReasons' = interruptReasons \cup {reason}
        /\ UNCHANGED <<authToken, revoked, turnedDown>>
    BY <1>7 DEF InterruptForReason
  <2>2. events' \in 0..MaxEvents
    BY <1>1, <1>7, EventTyped
  <2>3. /\ WireTyped' /\ forceTokenRefreshes' \in BOOLEAN /\ forceLost' \in BOOLEAN
        /\ overtaken' \in BOOLEAN /\ serverToken' \in Token
    <3>1. CASE realtime # "nil"
      <4>1. Close(interruptReasons', forceTokenRefreshes)
        BY <1>7, <3>1 DEF InterruptForReason
      <4> QED
        BY <1>3, <1>4, <4>1
    <3>2. CASE realtime = "nil"
      <4>1. /\ forceLost' = (forceLost \/ ForceUnderWay)
            /\ UNCHANGED <<toServer, toClient, serverToken, overtaken, forceTokenRefreshes>>
        BY <1>7, <3>2 DEF InterruptForReason, wireVars
      <4>2. forceLost' \in BOOLEAN
        BY <4>1, <1>4
      <4> QED
        BY <1>1, <1>4, <4>1, <4>2 DEF WireTyped, FlagsTyped, TokensTyped
    <3> QED
      BY <3>1, <3>2
  <2> QED
    BY <1>1, <2>1, <2>2, <2>3 DEF RestTyped, FlagsTyped, TokensTyped
<1>8. CASE Kill \/ GoOffline
  <2>1. InterruptForReason("server_kill") \/ InterruptForReason("repo_interrupt")
    BY <1>8 DEF Kill, GoOffline
  <2>2. Event
    BY <1>8 DEF Kill, GoOffline
  <2>3. "server_kill" \in InterruptReason /\ "repo_interrupt" \in InterruptReason
    BY DEF InterruptReason
  <2> QED
    BY <1>7, <2>1, <2>2, <2>3
<1>9. ASSUME NEW reason, ResumeForReason(reason)
      PROVE  RestTyped'
  <2>1. /\ interruptReasons' = interruptReasons \ {reason}
        /\ UNCHANGED <<authToken, serverToken, revoked, toServer, toClient, events, turnedDown,
                       overtaken>>
        /\ \/ TryScheduleReconnect(interruptReasons', forceTokenRefreshes)
           \/ UNCHANGED <<forceTokenRefreshes, forceLost>>
    BY <1>9 DEF ResumeForReason, serverVars, wireVars
  <2>2. forceTokenRefreshes' \in BOOLEAN /\ forceLost' \in BOOLEAN
    BY <1>1, <1>4, <2>1, ScheduleTyped
  <2> QED
    BY <1>1, <2>1, <2>2 DEF RestTyped, WireTyped, FlagsTyped, TokensTyped
<1>10. CASE GoOnline \/ Open
  BY <1>9, <1>10 DEF GoOnline, Open
<1>11. CASE Nudge
  <2>1. /\ Event /\ TryScheduleReconnect(interruptReasons, forceTokenRefreshes)
        /\ UNCHANGED <<interruptReasons, authToken, serverToken, revoked, toServer, toClient,
                       turnedDown, overtaken>>
    BY <1>11 DEF Nudge, serverVars, wireVars
  <2>2. events' \in 0..MaxEvents
    BY <1>1, <2>1, EventTyped
  <2>3. forceTokenRefreshes' \in BOOLEAN /\ forceLost' \in BOOLEAN
    BY <1>1, <1>4, <2>1, ScheduleTyped
  <2> QED
    BY <1>1, <2>1, <2>2, <2>3 DEF RestTyped, WireTyped, FlagsTyped, TokensTyped
<1>12. CASE AccountChanges
  <2>1. events' \in 0..MaxEvents
    BY <1>1, <1>12, EventTyped DEF AccountChanges
  <2> QED
    BY <1>1, <1>12, <2>1
       DEF AccountChanges, clientVars, serverVars, wireVars, RestTyped, WireTyped, FlagsTyped, TokensTyped
<1>13. CASE LinkRelaunch
  <2>1. events' \in 0..MaxEvents
    BY <1>1, <1>13, EventTyped DEF LinkRelaunch
  <2>2. forceLost' \in BOOLEAN
    <3>1. forceLost' = (forceLost \/ forceTokenRefreshes \/ ForceUnderWay)
      BY <1>13 DEF LinkRelaunch
    <3> QED
      BY <3>1, <1>4
  <2>3. /\ interruptReasons' = {"waiting_for_open"} /\ authToken' = NoToken /\ serverToken' = NoToken
        /\ forceTokenRefreshes' = FALSE /\ overtaken' = FALSE /\ toServer' = <<>> /\ toClient' = <<>>
        /\ UNCHANGED <<revoked, turnedDown>>
    BY <1>13 DEF LinkRelaunch
  <2> QED
    BY <1>1, <1>2, <2>1, <2>2, <2>3
       DEF RestTyped, WireTyped, FlagsTyped, TokensTyped, InterruptReason
<1> QED
  BY <1>5, <1>6, <1>8, <1>10, <1>11, <1>12, <1>13 DEF LinkEvent

\* What the writes and reads do keeps the types.
LEMMA RequestStepsTyped ==
    ASSUME IInv, RestTyped,
           \/ Put \/ GetData \/ GetTimesOut \/ PutAnswered \/ GetAnswered
           \/ ServerPut \/ ServerGet
    PROVE  RestTyped'
<1>1. WireTyped /\ FlagsTyped /\ TokensTyped /\ RequestsTyped
  BY DEF RestTyped
<1>2. MaxPuts \in Nat /\ MaxGets \in Nat
  BY RequestsAssumption
<1>3. TokensTyped'
  BY <1>1 DEF Put, GetData, GetTimesOut, PutAnswered, GetAnswered, ServerPut, ServerGet,
              TokensTyped, linkVars, clientVars, serverVars, historyVars
<1>4. FlagsTyped'
  <2>1. /\ UNCHANGED <<interruptReasons, forceTokenRefreshes, forceLost, overtaken>>
        /\ Event \/ UNCHANGED events
    BY DEF Put, GetData, GetTimesOut, PutAnswered, GetAnswered, ServerPut, ServerGet,
           linkVars, clientVars, historyVars
  <2>2. events' \in 0..MaxEvents
    BY <1>1, <2>1, EventTyped DEF FlagsTyped
  <2> QED
    BY <1>1, <2>1, <2>2 DEF FlagsTyped
<1>5. CASE Put
  <2>1. /\ putCount' = putCount + 1 /\ putCount + 1 \in Puts
        /\ puts' = [puts EXCEPT ![putCount + 1] = "outstanding"]
        /\ UNCHANGED <<toClient, gets, getCount, verdict, position>>
        /\ toServer' = IF CanSend THEN Append(toServer, PutRequest(putCount + 1)) ELSE toServer
    BY <1>5 DEF Put
  <2>2. PutRequest(putCount + 1) \in ServerMessage
    BY <2>1, MessagesAre
  <2>3. WireTyped'
    BY <1>1, <2>1, <2>2, LastAdded DEF WireTyped
  <2>4. puts' \in [Puts -> PutStatus] /\ putCount' \in 0..MaxPuts
    BY <1>1, <1>2, <2>1 DEF RequestsTyped, PutStatus, Puts
  <2> QED
    BY <1>1, <1>3, <1>4, <2>1, <2>3, <2>4 DEF RestTyped, RequestsTyped
<1>6. CASE GetData
  <2> DEFINE g == getCount + 1
             shadowed == \E i \in WholeWrites : Outstanding(i)
             new == IF shadowed
                    THEN [status |-> "local", sent |-> FALSE, timed |-> FALSE,
                          after |-> Newest, seen |-> Newest]
                    ELSE [status |-> "outstanding", sent |-> CanSend,
                          timed |-> ~IsConnected, after |-> Newest, seen |-> 0]
  <2>1. /\ g \in Gets /\ getCount' = g /\ gets' = [gets EXCEPT ![g] = new]
        /\ toServer' = IF CanSend /\ ~shadowed THEN Append(toServer, GetRequest(g)) ELSE toServer
        /\ UNCHANGED <<toClient, puts, putCount, verdict, position>>
    BY <1>6 DEF GetData
  <2>2. new \in Get
    <3>1. Newest \in 0..MaxPuts /\ 0 \in 0..MaxPuts
      BY <1>1, <1>2, NewestProperties
    <3>2. CanSend \in BOOLEAN /\ (~IsConnected) \in BOOLEAN
      BY DEF CanSend, IsConnected
    <3> QED
      BY <3>1, <3>2 DEF Get
  <2>3. WireTyped'
    <3>1. GetRequest(g) \in ServerMessage
      BY <2>1, MessagesAre
    <3> HIDE DEF g, shadowed, new
    <3> QED
      BY <1>1, <2>1, <3>1, LastAdded DEF WireTyped
  <2>4. gets' \in [Gets -> Get] /\ getCount' \in 0..MaxGets
    <3> HIDE DEF new
    <3> QED
      BY <1>1, <1>2, <2>1, <2>2 DEF RequestsTyped, Gets
  <2> QED
    BY <1>1, <1>3, <1>4, <2>1, <2>3, <2>4 DEF RestTyped, RequestsTyped
<1>7. CASE GetTimesOut
  <2>1. /\ UNCHANGED <<toServer, toClient, puts, putCount, getCount, verdict, position>>
        /\ \E g \in Gets : gets' = [gets EXCEPT ![g].status = "offline", ![g].timed = FALSE]
    BY <1>7 DEF GetTimesOut, linkVars, wireVars
  <2>2. gets' \in [Gets -> Get]
    <3>1. PICK g \in Gets : gets' = [gets EXCEPT ![g].status = "offline", ![g].timed = FALSE]
      BY <2>1
    <3>2. gets[g] \in Get
      BY <1>1 DEF RequestsTyped
    <3>3. [gets[g] EXCEPT !.status = "offline", !.timed = FALSE] \in Get
      BY <3>2 DEF Get
    <3>4. gets' = [gets EXCEPT ![g] = [gets[g] EXCEPT !.status = "offline", !.timed = FALSE]]
      BY <1>1, <3>1, <3>2 DEF RequestsTyped
    <3> QED
      BY <1>1, <3>3, <3>4 DEF RequestsTyped
  <2> QED
    BY <1>1, <1>3, <1>4, <2>1, <2>2 DEF RestTyped, WireTyped, RequestsTyped
<1>8. CASE PutAnswered \/ GetAnswered
  <2> DEFINE m == Head(toClient)
  <2>1. /\ toClient # <<>> /\ toClient' = Tail(toClient) /\ toServer' = toServer
        /\ UNCHANGED <<putCount, getCount, verdict, position>>
        /\ \/ m.type = "put" /\ UNCHANGED gets
              /\ (puts' = puts \/ puts' = [puts EXCEPT ![m.index] = m.status])
           \/ m.type = "get" /\ UNCHANGED puts
              /\ (gets' = gets \/ gets' = [gets EXCEPT ![m.index].status = m.status,
                                                       ![m.index].seen = m.seen])
    BY <1>8 DEF PutAnswered, GetAnswered
  <2>2. m \in ClientMessage /\ Tail(toClient) \in Seq(ClientMessage)
    BY <1>1, <2>1, AnswerTaken
  <2> HIDE DEF m
  <2>3. puts' \in [Puts -> PutStatus]
    BY <1>1, <2>1, <2>2, ClientMessageKinds DEF RequestsTyped, PutStatus
  <2>4. gets' \in [Gets -> Get]
    <3>1. CASE gets' = [gets EXCEPT ![m.index].status = m.status, ![m.index].seen = m.seen]
               /\ m.type = "get"
      <4>1. m.index \in Gets /\ m.status \in {"ok", "refused"} /\ m.seen \in 0..MaxPuts
        BY <2>2, <3>1, ClientMessageKinds
      <4>2. gets[m.index] \in Get
        BY <1>1, <4>1 DEF RequestsTyped
      <4>3. [gets[m.index] EXCEPT !.status = m.status, !.seen = m.seen] \in Get
        BY <4>1, <4>2 DEF Get
      <4>4. gets' = [gets EXCEPT ![m.index] = [gets[m.index] EXCEPT !.status = m.status,
                                                                  !.seen = m.seen]]
        BY <1>1, <3>1, <4>1, <4>2 DEF RequestsTyped
      <4> QED
        BY <1>1, <4>1, <4>3, <4>4 DEF RequestsTyped
    <3> QED
      BY <1>1, <2>1, <3>1 DEF RequestsTyped
  <2> QED
    BY <1>1, <1>3, <1>4, <2>1, <2>2, <2>3, <2>4 DEF RestTyped, WireTyped, RequestsTyped
<1>9. CASE ServerPut
  <2> DEFINE m == Head(toServer)
  <2>1. /\ toServer # <<>> /\ m.type = "put" /\ toServer' = Tail(toServer) /\ position' = m.index
        /\ UNCHANGED <<puts, putCount, gets, getCount>>
        /\ \E status \in {"ok", "refused"} :
             /\ verdict' = [verdict EXCEPT ![m.index] = status]
             /\ toClient' = Append(toClient, PutAnswer(m.index, status))
    BY <1>9 DEF ServerPut
  <2>2. m \in ServerMessage /\ Tail(toServer) \in Seq(ServerMessage)
    BY <1>1, <2>1, RequestTaken
  <2>3. m.index \in Puts
    BY <2>1, <2>2, ServerMessageKinds
  <2> HIDE DEF m
  <2>4. WireTyped'
    BY <1>1, <2>1, <2>2, <2>3, MessagesAre, LastAdded DEF WireTyped
  <2>5. verdict' \in [Puts -> Verdict] /\ position' \in 0..MaxPuts
    BY <1>1, <1>2, <2>1, <2>3 DEF RequestsTyped, Verdict, Puts
  <2> QED
    BY <1>1, <1>3, <1>4, <2>1, <2>4, <2>5 DEF RestTyped, RequestsTyped
<1>10. CASE ServerGet
  <2> DEFINE m == Head(toServer)
  <2>1. /\ toServer # <<>> /\ m.type = "get" /\ toServer' = Tail(toServer)
        /\ UNCHANGED <<puts, putCount, gets, getCount, verdict, position>>
        /\ \E status \in {"ok", "refused"} :
             toClient' = Append(toClient, GetAnswer(m.index, status))
    BY <1>10 DEF ServerGet, requestVars
  <2>2. m \in ServerMessage /\ Tail(toServer) \in Seq(ServerMessage)
    BY <1>1, <2>1, RequestTaken
  <2>3. m.index \in Gets
    BY <2>1, <2>2, ServerMessageKinds
  <2> HIDE DEF m
  <2>4. \A status \in {"ok", "refused"} : GetAnswer(m.index, status) \in ClientMessage
    BY <1>1, <2>3, MessagesAre DEF RequestsTyped
  <2>5. WireTyped'
    BY <1>1, <2>1, <2>2, <2>4, LastAdded DEF WireTyped
  <2> QED
    BY <1>1, <1>3, <1>4, <2>1, <2>5 DEF RestTyped, RequestsTyped
<1> QED
  BY <1>5, <1>6, <1>7, <1>8, <1>9, <1>10

\* Every step keeps the types.
LEMMA NextPreservesTypes == IInv /\ RestTyped /\ [Next]_vars => RestTyped'
<1> SUFFICES ASSUME IInv, RestTyped, [Next]_vars
             PROVE  RestTyped'
  OBVIOUS
<1>1. WireTyped /\ FlagsTyped /\ TokensTyped /\ RequestsTyped
  BY DEF RestTyped
<1>2. SentAll \in [Gets -> Get]
  BY <1>1 DEF SentAll, RequestsTyped, Get
<1>3. CASE LinkStep
  <2>1. UNCHANGED requestVars
    BY <1>3 DEF LinkStep
  <2>2. RequestsTyped'
    BY <1>1, <2>1 DEF RequestsTyped, requestVars
  <2>3. CASE Retry \/ TokenService \/ TokenFetched \/ RefreshAuthToken
    BY <2>1, <2>3, TokenStepsTyped
  <2>4. CASE ServerAuth
    BY <2>2, <2>4, WordStepsTyped
  <2>5. CASE LinkEvent
    BY <2>2, <2>5, EventsTyped
  <2> QED
    BY <1>3, <2>3, <2>4, <2>5 DEF LinkStep
<1>4. CASE OnReady \/ OnAuthAnswer
  <2>1. /\ UNCHANGED <<puts, putCount, getCount, verdict, position>>
        /\ gets' = gets \/ gets' = SentAll
    BY <1>4 DEF OnReady, OnAuthAnswer
  <2>2. RequestsTyped'
    BY <1>1, <1>2, <2>1 DEF RequestsTyped
  <2> QED
    BY <1>4, <2>2, WordStepsTyped
<1>5. CASE Put \/ GetData \/ GetTimesOut \/ PutAnswered \/ GetAnswered \/ ServerPut \/ ServerGet
  BY <1>5, RequestStepsTyped
<1>6. CASE Relaunch
  <2>1. RequestsTyped'
    BY <1>1, <1>6 DEF Relaunch, RequestsTyped, PutStatus, Get
  <2> QED
    BY <1>6, <2>1, EventsTyped DEF Relaunch
<1>7. CASE UNCHANGED vars
  BY <1>1, <1>7
     DEF vars, linkVars, clientVars, authVars, serverVars, wireVars, historyVars, requestVars,
         RestTyped, WireTyped, FlagsTyped, TokensTyped, RequestsTyped
<1> QED
  BY <1>3, <1>4, <1>5, <1>6, <1>7 DEF Next

\* The types hold when the app starts.
LEMMA InitTyped == Init => RestTyped
<1> SUFFICES ASSUME Init
             PROVE  RestTyped
  OBVIOUS
<1>1. NoToken \in Token /\ MaxPuts \in Nat /\ MaxGets \in Nat /\ MaxEvents \in Nat
  BY EventsAssumption, RequestsAssumption DEF NoToken, Token
<1>2. WireTyped
  BY EmptySeq DEF Init, LinkInit, WireTyped
<1>3. FlagsTyped
  <2>1. /\ interruptReasons = {"waiting_for_open"} /\ forceTokenRefreshes = FALSE
        /\ events = 0 /\ forceLost = FALSE /\ overtaken = FALSE
    BY DEF Init, LinkInit
  <2>2. events \in 0..MaxEvents
    BY <1>1, <2>1
  <2>3. interruptReasons \subseteq InterruptReason
    BY <2>1 DEF InterruptReason
  <2>4. forceTokenRefreshes \in BOOLEAN /\ forceLost \in BOOLEAN /\ overtaken \in BOOLEAN
    BY <2>1, Zenon
  <2> QED
    BY <2>2, <2>3, <2>4 DEF FlagsTyped
<1>4. TokensTyped
  BY <1>1 DEF Init, LinkInit, TokensTyped
<1>5. RequestsTyped
  BY <1>1 DEF Init, RequestsTyped, PutStatus, Get, Verdict
<1> QED
  BY <1>2, <1>3, <1>4, <1>5 DEF RestTyped

\* The types of the connection, its writes and its reads.
THEOREM TypeCorrect == Spec => []TypeOK
<1>1. IInv /\ RestTyped /\ [Next]_vars => (IInv /\ RestTyped)'
  BY NextPreservesIInv, NextPreservesTypes
<1>2. Init => IInv /\ RestTyped
  BY InitEstablishesIInv, InitTyped
<1> QED
  BY <1>1, <1>2, TypesTogether, PTL DEF Spec

-----------------------------------------------------------------------------
(* The last of the letters or messages of some types.                       *)

\* The places of the messages of some types.
At(q, types) == {k \in 1..Len(q) : q[k].type \in types}
IsLast(k, places) == \A l \in places : l <= k

\* The first element is taken: the places move up by one.
LEMMA PlacesOfTail ==
    ASSUME NEW S, NEW q \in Seq(S), q # <<>>, NEW types
    PROVE  /\ \A k \in At(Tail(q), types) : k + 1 \in At(q, types) /\ Tail(q)[k] = q[k + 1]
           /\ \A k \in At(q, types) : k # 1 => k - 1 \in At(Tail(q), types) /\ Tail(q)[k - 1] = q[k]
           /\ 1 \in At(q, types) <=> Head(q).type \in types
           /\ At(Tail(q), types) = {} => \A k \in At(q, types) : k = 1
           /\ At(Tail(q), types) \subseteq Nat /\ At(q, types) \subseteq Nat
<1>1. /\ Len(q) \in Nat /\ Len(q) >= 1 /\ Head(q) = q[1]
      /\ Len(Tail(q)) = Len(q) - 1
      /\ \A k \in 1..Len(Tail(q)) : Tail(q)[k] = q[k + 1]
  BY FirstTaken
<1> DEFINE t == Tail(q)
<1> HIDE DEF t
<1>2. \A k \in At(t, types) : k + 1 \in At(q, types) /\ t[k] = q[k + 1]
  BY <1>1 DEF At, t
<1>3. \A k \in At(q, types) : k # 1 => k - 1 \in At(t, types) /\ t[k - 1] = q[k]
  <2> TAKE k \in At(q, types)
  <2> HAVE k # 1
  <2>1. k \in 1..Len(q) /\ k - 1 \in 1..Len(t) /\ (k - 1) + 1 = k
    BY <1>1 DEF At, t
  <2>2. t[k - 1] = q[k]
    BY <1>1, <2>1 DEF t
  <2> QED
    BY <2>1, <2>2 DEF At
<1>4. 1 \in At(q, types) <=> Head(q).type \in types
  BY <1>1 DEF At
<1>5. At(t, types) \subseteq Nat /\ At(q, types) \subseteq Nat
  BY <1>1 DEF At, t
<1> QED
  BY <1>2, <1>3, <1>4, <1>5 DEF t

\* One element is added: its place is the last.
LEMMA PlacesOfAppend ==
    ASSUME NEW S, NEW q \in Seq(S), NEW m \in S, NEW types
    PROVE  /\ m.type \in types => At(Append(q, m), types) = At(q, types) \cup {Len(q) + 1}
           /\ m.type \notin types => At(Append(q, m), types) = At(q, types)
           /\ \A k \in At(q, types) : Append(q, m)[k] = q[k] /\ k \in Nat /\ k < Len(q) + 1
           /\ Append(q, m)[Len(q) + 1] = m /\ Len(q) + 1 \in Nat
<1>1. /\ Len(q) \in Nat /\ Len(Append(q, m)) = Len(q) + 1
      /\ \A k \in 1..Len(q) : Append(q, m)[k] = q[k]
      /\ Append(q, m)[Len(q) + 1] = m
      /\ \A k \in 1..Len(Append(q, m)) : k \in 1..Len(q) \/ k = Len(q) + 1
  BY LastAdded
<1> DEFINE t == Append(q, m)
<1> HIDE DEF t
<1>2. \A k : k \in At(t, types) <=> k \in At(q, types) \/ (k = Len(q) + 1 /\ m.type \in types)
  BY <1>1 DEF At, t
<1>3. \A k \in At(q, types) : t[k] = q[k] /\ k \in Nat /\ k < Len(q) + 1
  BY <1>1 DEF At, t
<1>4. /\ m.type \in types => At(t, types) = At(q, types) \cup {Len(q) + 1}
      /\ m.type \notin types => At(t, types) = At(q, types)
  <2>1. CASE m.type \in types
    BY <1>2, <2>1
  <2>2. CASE m.type \notin types
    BY <1>2, <2>2
  <2> QED
    BY <2>1, <2>2
<1>5. t[Len(q) + 1] = m /\ Len(q) + 1 \in Nat
  BY <1>1 DEF t
<1> QED
  BY <1>3, <1>4, <1>5, Zenon DEF t

\* Elements of other types are added: the places are as they were.
LEMMA PlacesOfConcat ==
    ASSUME NEW S, NEW q \in Seq(S), NEW r \in Seq(S), NEW types,
           \A k \in 1..Len(r) : r[k].type \notin types
    PROVE  /\ At(q \o r, types) = At(q, types)
           /\ \A k \in At(q, types) : (q \o r)[k] = q[k]
<1>1. /\ Len(q \o r) = Len(q) + Len(r) /\ Len(q) \in Nat /\ Len(r) \in Nat
      /\ \A k \in 1..Len(q) + Len(r) : (q \o r)[k] = IF k <= Len(q) THEN q[k] ELSE r[k - Len(q)]
  BY ConcatProperties, LenProperties
<1> DEFINE t == q \o r
<1> HIDE DEF t
<1>2. ASSUME NEW k \in 1..Len(q)
      PROVE  k \in 1..Len(t) /\ t[k] = q[k]
  BY <1>1 DEF t
<1>3. ASSUME NEW k \in 1..Len(t), k \notin 1..Len(q)
      PROVE  t[k].type \notin types
  <2>1. k - Len(q) \in 1..Len(r) /\ t[k] = r[k - Len(q)]
    BY <1>1, <1>3 DEF t
  <2> QED
    BY <2>1
<1> QED
  BY <1>2, <1>3 DEF At, t

\* A word of one message, appended.
LEMMA ConcatOne ==
    ASSUME NEW S, NEW q \in Seq(S), NEW m \in S
    PROVE  q \o <<m>> = Append(q, m)
BY AppendIsConcat

\* Two letters, appended one after the other.
LEMMA ConcatTwo ==
    ASSUME NEW S, NEW q \in Seq(S), NEW m \in S, NEW n \in S
    PROVE  q \o <<m, n>> = Append(Append(q, m), n) /\ Append(q, m) \in Seq(S)
<1>1. <<m>> \in Seq(S) /\ <<n>> \in Seq(S) /\ Append(q, m) \in Seq(S)
  BY OneElement, AppendProperties
<1>2. Append(Append(q, m), n) = (q \o <<m>>) \o <<n>>
  BY <1>1, ConcatOne
<1>3. (q \o <<m>>) \o <<n>> = q \o (<<m>> \o <<n>>)
  BY <1>1, ConcatAssociative
<1>4. <<m>> \o <<n>> = <<m, n>>
  <2> DEFINE one == <<m>>
             other == <<n>>
             both == <<m, n>>
  <2>1. /\ one \in Seq(S) /\ other \in Seq(S) /\ both \in Seq(S)
        /\ Len(one) = 1 /\ Len(other) = 1 /\ Len(both) = 2
        /\ one[1] = m /\ other[1] = n /\ both[1] = m /\ both[2] = n
    OBVIOUS
  <2> HIDE DEF one, other, both
  <2>2. /\ one \o other \in Seq(S) /\ Len(one \o other) = Len(one) + Len(other)
        /\ \A i \in 1..Len(one) + Len(other) :
             (one \o other)[i] = IF i <= Len(one) THEN one[i] ELSE other[i - Len(one)]
    BY <2>1, ConcatProperties, Zenon
  <2>3. Len(one \o other) = Len(both) /\ \A i \in 1..2 : (one \o other)[i] = both[i]
    BY <2>1, <2>2
  <2>4. one \o other = both
    BY <2>1, <2>2, <2>3, SeqEqual
  <2> QED
    BY <2>4 DEF one, other, both
<1> QED
  BY <1>1, <1>2, <1>3, <1>4

-----------------------------------------------------------------------------
(* News of the user: the inbox ends with the user who is signed in.         *)

\* Of a queue of letters: the last news is of user u, and an answer that no
\* news follow is u's token, or that of somebody who has gone since it was
\* asked for.
NewsRight(q, u) ==
    /\ \A k \in At(q, {"news"}) : IsLast(k, At(q, {"news"})) => q[k].token = u
    /\ \A k \in At(q, {"fetched"}) :
         IsLast(k, At(q, {"news"})) => q[k].token = u \/ q[k].token.session # u.session

\* The last news is the user's, and the connection that took it has that token.
NewsOK ==
    /\ NewsRight(inbox, user)
    /\ realtime # "nil" /\ At(inbox, {"news"}) = {} => authToken = user \/ overtaken

\* News are posted.
LEMMA NewsPosted ==
    ASSUME NEW q \in Seq(Letter), NEW m \in Letter, m.type = "news"
    PROVE  NewsRight(Append(q, m), m.token) /\ At(Append(q, m), {"news"}) # {}
<1> DEFINE t == Append(q, m)
           n == Len(q) + 1
<1>1. /\ At(t, {"news"}) = At(q, {"news"}) \cup {n} /\ At(t, {"fetched"}) = At(q, {"fetched"})
      /\ \A k \in At(q, {"news"}) \cup At(q, {"fetched"}) : k \in Nat /\ k < n
      /\ t[n] = m /\ n \in Nat
  BY PlacesOfAppend
<1> HIDE DEF t, n
<1>2. \A k \in At(t, {"news"}) : IsLast(k, At(t, {"news"})) => k = n
  BY <1>1 DEF IsLast
<1>3. ASSUME NEW k \in At(t, {"fetched"}), IsLast(k, At(t, {"news"}))
      PROVE  FALSE
  <2>1. n <= k
    BY <1>1, <1>3 DEF IsLast
  <2>2. k < n /\ k \in Nat /\ n \in Nat
    BY <1>1, <1>3
  <2> QED
    BY <2>1, <2>2
<1>4. NewsRight(t, m.token) /\ At(t, {"news"}) # {}
  BY <1>1, <1>2, <1>3 DEF NewsRight
<1> QED
  BY <1>4 DEF t

\* An answer is posted.
LEMMA AnswerPosted ==
    ASSUME NEW q \in Seq(Letter), NEW m \in Letter, NEW u, NewsRight(q, u),
           \/ m.type = "failed"
           \/ m.type = "fetched" /\ (m.token = u \/ m.token.session # u.session)
    PROVE  NewsRight(Append(q, m), u) /\ At(Append(q, m), {"news"}) = At(q, {"news"})
<1> DEFINE t == Append(q, m)
           n == Len(q) + 1
<1>1. /\ At(t, {"news"}) = At(q, {"news"})
      /\ At(t, {"fetched"}) = IF m.type = "fetched" THEN At(q, {"fetched"}) \cup {n}
                              ELSE At(q, {"fetched"})
      /\ \A k \in At(q, {"news"}) \cup At(q, {"fetched"}) : t[k] = q[k]
      /\ t[n] = m
  <2>1. m.type \notin {"news"} /\ (m.type \in {"fetched"} <=> m.type = "fetched")
    OBVIOUS
  <2>2. At(t, {"news"}) = At(q, {"news"})
    BY <2>1, PlacesOfAppend
  <2>3. m.type \in {"fetched"} => At(t, {"fetched"}) = At(q, {"fetched"}) \cup {n}
    BY PlacesOfAppend
  <2>4. m.type \notin {"fetched"} => At(t, {"fetched"}) = At(q, {"fetched"})
    BY PlacesOfAppend
  <2>5. \A k \in 1..Len(q) : t[k] = q[k]
    BY LastAdded
  <2>6. At(q, {"news"}) \cup At(q, {"fetched"}) \subseteq 1..Len(q)
    BY DEF At
  <2>7. t[n] = m
    BY PlacesOfAppend
  <2> HIDE DEF t, n
  <2> QED
    BY <2>1, <2>2, <2>3, <2>4, <2>5, <2>6, <2>7
<1> HIDE DEF t, n
<1>2. ASSUME NEW k \in At(t, {"news"}), IsLast(k, At(t, {"news"}))
      PROVE  t[k].token = u
  BY <1>1, <1>2 DEF NewsRight
<1>3. ASSUME NEW k \in At(t, {"fetched"}), IsLast(k, At(t, {"news"}))
      PROVE  t[k].token = u \/ t[k].token.session # u.session
  <2>1. CASE k \in At(q, {"fetched"})
    BY <1>1, <1>3, <2>1 DEF NewsRight
  <2>2. CASE k \notin At(q, {"fetched"})
    BY <1>1, <2>2
  <2> QED
    BY <2>1, <2>2
<1>4. NewsRight(t, u)
  BY <1>2, <1>3 DEF NewsRight
<1> QED
  BY <1>1, <1>4 DEF t

\* The first letter is taken.
LEMMA LetterRead ==
    ASSUME NEW q \in Seq(Letter), q # <<>>, NEW u, NewsRight(q, u)
    PROVE  /\ NewsRight(Tail(q), u)
           /\ Head(q).type = "news" /\ At(Tail(q), {"news"}) = {} => Head(q).token = u
           /\ Head(q).type # "news" /\ At(Tail(q), {"news"}) = {} => At(q, {"news"}) = {}
           /\ Head(q).type = "fetched" /\ At(Tail(q), {"news"}) = {} =>
                Head(q).token = u \/ Head(q).token.session # u.session
<1> DEFINE t == Tail(q)
           news == At(q, {"news"})
           rest == At(t, {"news"})
<1>1. /\ \A k \in rest : k + 1 \in news /\ t[k] = q[k + 1]
      /\ \A k \in news : k # 1 => k - 1 \in rest
      /\ 1 \in news <=> Head(q).type = "news"
      /\ rest = {} => \A k \in news : k = 1
      /\ rest \subseteq Nat /\ news \subseteq Nat
  BY PlacesOfTail
<1>2. /\ \A k \in At(t, {"fetched"}) : k + 1 \in At(q, {"fetched"}) /\ t[k] = q[k + 1]
      /\ 1 \in At(q, {"fetched"}) <=> Head(q).type = "fetched"
      /\ At(t, {"fetched"}) \subseteq Nat
  BY PlacesOfTail
<1>3. Head(q) = q[1]
  BY FirstTaken
<1> HIDE DEF t
<1>4. \A k \in Nat : IsLast(k, rest) /\ k >= 1 => IsLast(k + 1, news)
  <2> HIDE DEF news, rest
  <2> TAKE k \in Nat
  <2> HAVE IsLast(k, rest) /\ k >= 1
  <2>1. ASSUME NEW l \in news
        PROVE  l <= k + 1
    <3>1. CASE l = 1
      BY <3>1
    <3>2. CASE l # 1
      <4>1. l - 1 <= k
        BY <1>1, <3>2 DEF IsLast
      <4> QED
        BY <1>1, <4>1
    <3> QED
      BY <3>1, <3>2
  <2> QED
    BY <2>1 DEF IsLast
<1>5. \A k \in At(t, {"news"}) \cup At(t, {"fetched"}) : k >= 1 /\ k \in Nat
  BY <1>1, <1>2, LenProperties DEF At
<1>6. ASSUME NEW k \in At(t, {"news"}), IsLast(k, At(t, {"news"}))
      PROVE  t[k].token = u
  <2>1. IsLast(k + 1, news) /\ k + 1 \in news /\ t[k] = q[k + 1]
    BY <1>1, <1>4, <1>5, <1>6
  <2> QED
    BY <2>1 DEF NewsRight
<1>7. ASSUME NEW k \in At(t, {"fetched"}), IsLast(k, At(t, {"news"}))
      PROVE  t[k].token = u \/ t[k].token.session # u.session
  <2>1. IsLast(k + 1, news) /\ k + 1 \in At(q, {"fetched"}) /\ t[k] = q[k + 1]
    BY <1>2, <1>4, <1>5, <1>7
  <2> QED
    BY <2>1 DEF NewsRight
<1>8. NewsRight(t, u)
  BY <1>6, <1>7 DEF NewsRight
<1>9. rest = {} => IsLast(1, news)
  BY <1>1 DEF IsLast
<1>10. Head(q).type = "news" /\ rest = {} => Head(q).token = u
  BY <1>1, <1>3, <1>9 DEF NewsRight
<1>11. Head(q).type # "news" /\ rest = {} => news = {}
  BY <1>1
<1>12. Head(q).type = "fetched" /\ rest = {} => Head(q).token = u \/ Head(q).token.session # u.session
  BY <1>2, <1>3, <1>9 DEF NewsRight
<1> QED
  BY <1>8, <1>10, <1>11, <1>12 DEF t

\* What leaves the inbox alone, and the token of a connection that stays.
LEMMA NewsKept ==
    ASSUME NewsOK, UNCHANGED <<inbox, user>>,
           \/ realtime' = "nil"
           \/ realtime # "nil" /\ UNCHANGED <<authToken, overtaken>>
    PROVE  NewsOK'
<1>1. NewsRight(inbox', user')
  BY DEF NewsOK
<1>2. At(inbox', {"news"}) = At(inbox, {"news"})
  OBVIOUS
<1> QED
  BY <1>1, <1>2 DEF NewsOK

\* FIRAuth's answers: the user of the last news, or somebody who has gone.
LEMMA TokenServicePreservesNews ==
    ASSUME LineTyped, NewsOK, TokenService
    PROVE  NewsOK'
<1>1. inbox \in Seq(Letter) /\ user \in Token /\ minted \in Nat
  BY DEF LineTyped
<1>2. NewsRight(inbox, user) /\ UNCHANGED <<realtime, authToken, overtaken>>
  BY DEF NewsOK, TokenService, clientVars
<1>3. PICK f \in fetching : AnswerToken(f) \/ RequestToken(f) \/ RefreshToken(f) \/ RefreshFails(f)
  BY DEF TokenService
<1>4. f \in Fetch /\ f.attempt \in Nat /\ f.session \in Nat
  BY DEF LineTyped, Fetch
<1>5. ASSUME NEW m \in Letter, inbox' = Append(inbox, m), user' = user,
             \/ m.type = "failed"
             \/ m.type = "fetched" /\ (m.token = user \/ m.token.session # user.session)
      PROVE  NewsOK'
  <2>1. NewsRight(inbox', user) /\ At(inbox', {"news"}) = At(inbox, {"news"})
    BY <1>1, <1>2, <1>5, AnswerPosted
  <2> QED
    BY <1>2, <1>5, <2>1 DEF NewsOK
<1>6. ASSUME NEW m \in Letter, inbox' = inbox \o <<News(user'), m>>, user' \in Token,
             m.type = "failed" \/ (m.type = "fetched" /\ m.token = user')
      PROVE  NewsOK'
  <2> DEFINE n == News(user')
             q == Append(inbox, n)
  <2>1. n \in Letter /\ n.type = "news" /\ n.token = user'
    BY <1>6 DEF News, Letter
  <2>2. inbox' = Append(q, m) /\ q \in Seq(Letter)
    <3> HIDE DEF n
    <3>1. inbox \o <<n, m>> = Append(Append(inbox, n), m) /\ Append(inbox, n) \in Seq(Letter)
      BY <1>1, <2>1, ConcatTwo
    <3> QED
      BY <1>6, <3>1 DEF n
  <2>3. NewsRight(q, user') /\ At(q, {"news"}) # {}
    <3> HIDE DEF n
    <3> QED
      BY <1>1, <2>1, NewsPosted
  <2> HIDE DEF q
  <2>4. NewsRight(inbox', user') /\ At(inbox', {"news"}) = At(q, {"news"})
    BY <1>6, <2>2, <2>3, AnswerPosted
  <2> QED
    BY <2>3, <2>4 DEF NewsOK
<1>7. CASE AnswerToken(f)
  <2> DEFINE m == Fetched(f.attempt, user)
  <2>1. m \in Letter /\ m.type = "fetched" /\ m.token = user
    BY <1>1, <1>4 DEF Fetched, Letter
  <2>2. inbox' = Append(inbox, m) /\ user' = user
    BY <1>7 DEF AnswerToken
  <2> HIDE DEF m
  <2> QED
    BY <1>5, <2>1, <2>2
<1>8. CASE RequestToken(f)
  <2>1. UNCHANGED <<inbox, user>>
    BY <1>8 DEF RequestToken
  <2>2. At(inbox', {"news"}) = At(inbox, {"news"}) /\ NewsRight(inbox', user')
    BY <1>2, <2>1
  <2> QED
    BY <1>2, <2>2, <2>1 DEF NewsOK
<1>9. CASE RefreshToken(f)
  <2> DEFINE token == [session |-> f.session, serial |-> minted + 1]
             m == Fetched(f.attempt, token)
  <2>1. token \in Token /\ token.session = f.session
    BY <1>1, <1>4 DEF Token
  <2>2. m \in Letter /\ m.type = "fetched" /\ m.token = token
    <3> HIDE DEF token
    <3> QED
      BY <1>4, <2>1 DEF Fetched, Letter
  <2>3. IF f.session = user.session
        THEN user' = token /\ inbox' = inbox \o <<News(token), m>>
        ELSE inbox' = Append(inbox, m) /\ user' = user
    BY <1>9 DEF RefreshToken
  <2> HIDE DEF m, token
  <2>4. CASE f.session = user.session
    BY <1>6, <2>1, <2>2, <2>3, <2>4
  <2>5. CASE f.session # user.session
    BY <1>5, <2>1, <2>2, <2>3, <2>5
  <2> QED
    BY <2>4, <2>5
<1>10. CASE RefreshFails(f)
  <2> DEFINE m == FetchFailed(f.attempt)
  <2>1. m \in Letter /\ m.type = "failed"
    BY <1>4 DEF FetchFailed, Letter
  <2>2. \/ inbox' = Append(inbox, m) /\ user' = user
        \/ user' = NoToken /\ inbox' = inbox \o <<News(NoToken), m>>
    BY <1>10 DEF RefreshFails
  <2>3. NoToken \in Token
    BY DEF NoToken, Token
  <2> HIDE DEF m
  <2> QED
    BY <1>5, <1>6, <2>1, <2>2, <2>3
<1> QED
  BY <1>3, <1>7, <1>8, <1>9, <1>10

\* The connection takes a token: that of the user, if no news are waiting,
\* or that of somebody who has gone, which is recorded.
LEMMA TokenFetchedPreservesNews ==
    ASSUME IInv, NewsOK, TokenFetched
    PROVE  NewsOK'
<1> DEFINE m == Head(inbox)
<1>1. inbox \in Seq(Letter)
  BY DEF IInv, LineOK, LineTyped
<1>2. /\ inbox # <<>> /\ m.type \in {"fetched", "failed"} /\ inbox' = Tail(inbox) /\ user' = user
      /\ \/ /\ realtime' = "connecting" /\ authToken' = m.token /\ m.type = "fetched"
            /\ overtaken' = (m.token.session # user.session)
         \/ UNCHANGED <<realtime, authToken, overtaken>>
  BY DEF TokenFetched
<1>3. NewsRight(inbox, user)
  BY DEF NewsOK
<1>4. /\ NewsRight(Tail(inbox), user)
      /\ At(Tail(inbox), {"news"}) = {} => At(inbox, {"news"}) = {}
      /\ m.type = "fetched" /\ At(Tail(inbox), {"news"}) = {} =>
           m.token = user \/ m.token.session # user.session
  BY <1>1, <1>2, <1>3, LetterRead
<1> HIDE DEF m
<1>5. NewsRight(inbox', user')
  BY <1>2, <1>4
<1>6. ASSUME realtime' # "nil", At(inbox', {"news"}) = {}
      PROVE  authToken' = user' \/ overtaken'
  <2>1. CASE /\ realtime' = "connecting" /\ authToken' = m.token /\ m.type = "fetched"
             /\ overtaken' = (m.token.session # user.session)
    BY <1>2, <1>4, <1>6, <2>1
  <2>2. CASE UNCHANGED <<realtime, authToken, overtaken>>
    BY <1>2, <1>4, <1>6, <2>2 DEF NewsOK
  <2> QED
    BY <1>2, <2>1, <2>2
<1> QED
  BY <1>5, <1>6 DEF NewsOK

\* The connection takes the news: the last of them is the user's token.
LEMMA RefreshAuthTokenPreservesNews ==
    ASSUME IInv, NewsOK, RefreshAuthToken
    PROVE  NewsOK'
<1> DEFINE m == Head(inbox)
<1>1. inbox \in Seq(Letter)
  BY DEF IInv, LineOK, LineTyped
<1>2. /\ inbox # <<>> /\ m.type = "news" /\ inbox' = Tail(inbox) /\ user' = user
      /\ authToken' = m.token
  BY DEF RefreshAuthToken
<1>3. NewsRight(inbox, user)
  BY DEF NewsOK
<1>4. /\ NewsRight(Tail(inbox), user)
      /\ At(Tail(inbox), {"news"}) = {} => m.token = user
  BY <1>1, <1>2, <1>3, LetterRead
<1> HIDE DEF m
<1> QED
  BY <1>2, <1>4 DEF NewsOK

\* Every step, by cases.
LEMMA NextPreservesNews ==
    ASSUME IInv, NewsOK, [Next]_vars
    PROVE  NewsOK'
<1>1. CASE LinkStep
  <2>1. CASE Retry
    <3>1. UNCHANGED <<inbox, user, realtime, authToken, overtaken>>
      BY <2>1 DEF Retry, historyVars
    <3>2. realtime = "nil" \/ realtime # "nil"
      OBVIOUS
    <3> QED
      BY <3>1, <3>2, NewsKept
  <2>2. CASE TokenService
    BY <2>2, TokenServicePreservesNews DEF IInv, LineOK
  <2>3. CASE TokenFetched
    BY <2>3, TokenFetchedPreservesNews
  <2>4. CASE RefreshAuthToken
    BY <2>4, RefreshAuthTokenPreservesNews
  <2>5. CASE ServerAuth
    <3>1. UNCHANGED <<inbox, user, realtime, authToken, overtaken>>
      BY <2>5 DEF ServerAuth, clientVars, authVars
    <3> QED
      BY <3>1, NewsKept
  <2>6. CASE Drop \/ AuthRevoked
    <3>1. UNCHANGED <<inbox, user>> /\ realtime' = "nil"
      BY <2>6 DEF Drop, AuthRevoked, TokenTurnedDown, Close, authVars
    <3> QED
      BY <3>1, NewsKept
  <2>7. ASSUME NEW reason, InterruptForReason(reason)
        PROVE  NewsOK'
    <3>1. UNCHANGED <<inbox, user>> /\ realtime' = "nil"
      BY <2>7 DEF InterruptForReason, Close, authVars
    <3> QED
      BY <3>1, NewsKept
  <2>8. ASSUME NEW reason, ResumeForReason(reason)
        PROVE  NewsOK'
    <3>1. UNCHANGED <<inbox, user, realtime, authToken, overtaken>>
      BY <2>8 DEF ResumeForReason, authVars
    <3> QED
      BY <3>1, NewsKept
  <2>9. CASE Nudge
    <3>1. UNCHANGED <<inbox, user, realtime, authToken, overtaken>>
      BY <2>9 DEF Nudge, authVars
    <3> QED
      BY <3>1, NewsKept
  <2>10. CASE AccountChanges
    <3> DEFINE n == News(user')
    <3>1. inbox \in Seq(Letter) /\ user' \in Token
      BY <2>10 DEF IInv, LineOK, LineTyped, AccountChanges, Token, NoToken
    <3>2. n \in Letter /\ n.type = "news" /\ n.token = user'
      BY <3>1 DEF News, Letter
    <3>3. inbox' = Append(inbox, n)
      BY <2>10 DEF AccountChanges
    <3> HIDE DEF n
    <3>4. NewsRight(inbox', user') /\ At(inbox', {"news"}) # {}
      BY <3>1, <3>2, <3>3, NewsPosted
    <3> QED
      BY <3>4 DEF NewsOK
  <2> QED
    BY <1>1, <2>1, <2>2, <2>3, <2>4, <2>5, <2>6, <2>7, <2>8, <2>9, <2>10
       DEF LinkStep, LinkEvent, Kill, GoOffline, GoOnline, Open
<1>2. CASE OnReady
  <2>1. UNCHANGED <<inbox, user, authToken, overtaken>> /\ realtime # "nil"
    BY <1>2 DEF OnReady, Hello, authVars, historyVars
  <2> QED
    BY <2>1, NewsKept
<1>3. CASE OnAuthAnswer
  <2>1. /\ UNCHANGED <<inbox, user>>
        /\ \/ realtime' = "nil"
           \/ UNCHANGED <<realtime, authToken, overtaken>>
    BY <1>3 DEF OnAuthAnswer, AuthAnswered, TokenTurnedDown, Close, authVars
  <2> QED
    BY <2>1, NewsKept
<1>4. CASE \/ Put \/ GetData \/ GetTimesOut \/ PutAnswered \/ GetAnswered
           \/ ServerPut \/ ServerGet
  <2>1. UNCHANGED <<inbox, user, realtime, authToken, overtaken>>
    BY <1>4 DEF Put, GetData, GetTimesOut, PutAnswered, GetAnswered, ServerPut, ServerGet,
                linkVars, clientVars, authVars, historyVars
  <2> QED
    BY <2>1, NewsKept
<1>5. CASE Relaunch
  <2>1. inbox' = <<>> /\ realtime' = "nil"
    BY <1>5 DEF Relaunch, LinkRelaunch
  <2>2. At(inbox', {"news"}) = {} /\ At(inbox', {"fetched"}) = {}
    BY <2>1 DEF At
  <2> QED
    BY <2>1, <2>2 DEF NewsOK, NewsRight
<1>6. CASE UNCHANGED vars
  <2>1. UNCHANGED <<inbox, user, realtime, authToken, overtaken>>
    BY <1>6 DEF vars, linkVars, clientVars, authVars, historyVars
  <2> QED
    BY <2>1, NewsKept
<1> QED
  BY <1>1, <1>2, <1>3, <1>4, <1>5, <1>6 DEF Next

-----------------------------------------------------------------------------
(* Words to the server: the last of them is of the connection's own token.  *)

\* The words about the user, and the token each is of.
WordTypes == {"auth", "unauth"}
WordToken(m) == IF m.type = "auth" THEN m.token ELSE NoToken

\* Of the wire to the server: the last word of a token is of this one.
WordsRight(q, token) ==
    \A k \in At(q, WordTypes) : IsLast(k, At(q, WordTypes)) => WordToken(q[k]) = token

\* Of the wire to the client: a token was refused.
Refused(q) == \E k \in At(q, {"auth"}) : ~q[k].ok

\* The server's token is the connection's, or the word of it is on the way.
WordsOK ==
    /\ realtime # "connected" => serverToken = NoToken
    /\ IsConnected =>
         /\ WordsRight(toServer, authToken)
         /\ At(toServer, WordTypes) = {} => serverToken = authToken \/ Refused(toClient)

\* A word is said.
LEMMA WordSaid ==
    ASSUME NEW q \in Seq(ServerMessage), NEW m \in ServerMessage, m.type \in WordTypes
    PROVE  WordsRight(Append(q, m), WordToken(m)) /\ At(Append(q, m), WordTypes) # {}
<1> DEFINE t == Append(q, m)
           n == Len(q) + 1
<1>1. /\ At(t, WordTypes) = At(q, WordTypes) \cup {n}
      /\ \A k \in At(q, WordTypes) : k \in Nat /\ k < n
      /\ t[n] = m /\ n \in Nat
  BY PlacesOfAppend
<1> HIDE DEF t, n
<1>2. ASSUME NEW k \in At(t, WordTypes), IsLast(k, At(t, WordTypes))
      PROVE  k = n
  <2>1. n <= k
    BY <1>1, <1>2 DEF IsLast
  <2>2. k = n \/ (k < n /\ k \in Nat /\ n \in Nat)
    BY <1>1, <1>2
  <2> QED
    BY <2>1, <2>2
<1>3. WordsRight(t, WordToken(m)) /\ At(t, WordTypes) # {}
  BY <1>1, <1>2 DEF WordsRight
<1> QED
  BY <1>3 DEF t

\* Requests are added, and no word.
LEMMA RequestsSaid ==
    ASSUME NEW q \in Seq(ServerMessage), NEW r \in Seq(ServerMessage), NEW token,
           \A k \in 1..Len(r) : r[k].type \notin WordTypes, WordsRight(q, token)
    PROVE  WordsRight(q \o r, token) /\ At(q \o r, WordTypes) = At(q, WordTypes)
<1> DEFINE t == q \o r
<1>1. At(t, WordTypes) = At(q, WordTypes) /\ \A k \in At(q, WordTypes) : t[k] = q[k]
  BY PlacesOfConcat
<1> HIDE DEF t
<1>2. WordsRight(t, token)
  BY <1>1 DEF WordsRight
<1> QED
  BY <1>1, <1>2 DEF t

\* The first message to the server is taken.
LEMMA MessageHeard ==
    ASSUME NEW q \in Seq(ServerMessage), q # <<>>, NEW token, WordsRight(q, token)
    PROVE  /\ WordsRight(Tail(q), token)
           /\ Head(q).type \in WordTypes /\ At(Tail(q), WordTypes) = {} => WordToken(Head(q)) = token
           /\ Head(q).type \notin WordTypes /\ At(Tail(q), WordTypes) = {} => At(q, WordTypes) = {}
<1> DEFINE t == Tail(q)
           words == At(q, WordTypes)
           rest == At(t, WordTypes)
<1>1. /\ \A k \in rest : k + 1 \in words /\ t[k] = q[k + 1]
      /\ \A k \in words : k # 1 => k - 1 \in rest
      /\ 1 \in words <=> Head(q).type \in WordTypes
      /\ rest = {} => \A k \in words : k = 1
      /\ rest \subseteq Nat /\ words \subseteq Nat
  BY PlacesOfTail
<1>2. Head(q) = q[1]
  BY FirstTaken
<1> HIDE DEF t
<1>3. ASSUME NEW k \in rest, IsLast(k, rest)
      PROVE  IsLast(k + 1, words)
  <2> HIDE DEF words, rest
  <2>1. k \in Nat /\ k >= 1
    BY <1>1, LenProperties DEF At, rest
  <2>2. ASSUME NEW l \in words
        PROVE  l <= k + 1
    <3>1. CASE l = 1
      BY <2>1, <3>1
    <3>2. CASE l # 1
      <4>1. l - 1 <= k
        BY <1>1, <1>3, <3>2 DEF IsLast
      <4> QED
        BY <1>1, <2>1, <4>1
    <3> QED
      BY <3>1, <3>2
  <2> QED
    BY <2>2 DEF IsLast
<1>4. ASSUME NEW k \in At(t, WordTypes), IsLast(k, At(t, WordTypes))
      PROVE  WordToken(t[k]) = token
  <2>1. IsLast(k + 1, words) /\ k + 1 \in words /\ t[k] = q[k + 1]
    BY <1>1, <1>3, <1>4
  <2> QED
    BY <2>1 DEF WordsRight
<1>5. rest = {} => IsLast(1, words)
  BY <1>1 DEF IsLast
<1>6. WordsRight(t, token)
  BY <1>4 DEF WordsRight
<1>7. Head(q).type \in WordTypes /\ rest = {} => WordToken(Head(q)) = token
  BY <1>1, <1>2, <1>5 DEF WordsRight
<1>8. Head(q).type \notin WordTypes /\ rest = {} => words = {}
  BY <1>1
<1> QED
  BY <1>6, <1>7, <1>8 DEF t

\* A refusal stays on its way until it is taken.
LEMMA RefusalWaits ==
    ASSUME NEW q \in Seq(ClientMessage)
    PROVE  /\ \A m \in ClientMessage : /\ Refused(q) => Refused(Append(q, m))
                                       /\ m.type = "auth" /\ ~m.ok => Refused(Append(q, m))
           /\ q # <<>> /\ Refused(q) /\ (Head(q).type # "auth" \/ Head(q).ok) => Refused(Tail(q))
<1>1. ASSUME NEW m \in ClientMessage
      PROVE  /\ Refused(q) => Refused(Append(q, m))
             /\ m.type = "auth" /\ ~m.ok => Refused(Append(q, m))
  <2> DEFINE t == Append(q, m)
  <2>1. /\ Len(q) \in Nat /\ Len(t) = Len(q) + 1 /\ \A k \in 1..Len(q) : t[k] = q[k]
        /\ t[Len(q) + 1] = m
    BY LastAdded
  <2> HIDE DEF t
  <2>2. Refused(q) => Refused(t)
    BY <2>1 DEF Refused, At
  <2>3. m.type = "auth" /\ ~m.ok => Refused(t)
    BY <2>1 DEF Refused, At
  <2> QED
    BY <2>2, <2>3 DEF t
<1>2. ASSUME q # <<>>, Refused(q), Head(q).type # "auth" \/ Head(q).ok
      PROVE  Refused(Tail(q))
  <2>1. PICK k \in At(q, {"auth"}) : ~q[k].ok
    BY <1>2 DEF Refused
  <2>2. k # 1
    <3>1. Head(q) = q[1]
      BY <1>2, FirstTaken
    <3> QED
      BY <1>2, <2>1, <3>1 DEF At
  <2>3. k - 1 \in At(Tail(q), {"auth"}) /\ Tail(q)[k - 1] = q[k]
    BY <1>2, <2>2, PlacesOfTail
  <2> QED
    BY <2>1, <2>3 DEF Refused
<1> QED
  BY <1>1, <1>2

\* A step that leaves the connection, its token and the server's alone keeps
\* the words right if it keeps the wire's, and takes no refusal off it.
LEMMA WordsKept ==
    ASSUME WordsOK, UNCHANGED <<connectionState, authToken, serverToken>>,
           realtime' = realtime,
           \A token : WordsRight(toServer, token) => WordsRight(toServer', token),
           At(toServer', WordTypes) = {} => At(toServer, WordTypes) = {},
           Refused(toClient) => Refused(toClient')
    PROVE  WordsOK'
BY DEF WordsOK, IsConnected

\* A connection that is down has no words, and the server knows no token.
LEMMA WordsOfNone ==
    ASSUME serverToken' = NoToken, ~IsConnected'
    PROVE  WordsOK'
BY DEF WordsOK, IsConnected

\* The server takes a word, and answers it.
LEMMA ServerAuthPreservesWords ==
    ASSUME IInv, RestTyped, WordsOK, ServerAuth
    PROVE  WordsOK'
<1> DEFINE m == Head(toServer)
<1>1. toServer \in Seq(ServerMessage) /\ toClient \in Seq(ClientMessage)
  BY DEF RestTyped, WireTyped
<1>2. /\ toServer # <<>> /\ m.type \in WordTypes /\ toServer' = Tail(toServer)
      /\ UNCHANGED <<connectionState, authToken, realtime>>
  BY DEF ServerAuth, clientVars, WordTypes
<1>3. \/ /\ m.type = "unauth" /\ serverToken' = NoToken /\ toClient' = toClient
      \/ /\ m.type = "auth" /\ serverToken' = m.token
      \/ /\ m.type = "auth" /\ toClient' = Append(toClient, AuthAnswer(FALSE, m))
         /\ serverToken' = serverToken
  BY DEF ServerAuth
<1>4. realtime = "connected" /\ IsConnected
  BY <1>2 DEF IInv, StateOK, WireNeedsConnection, AssertionsHold
<1>5. WordsRight(toServer, authToken)
  BY <1>4 DEF WordsOK
<1>6. /\ WordsRight(Tail(toServer), authToken)
      /\ At(Tail(toServer), WordTypes) = {} => WordToken(m) = authToken
  BY <1>1, <1>2, <1>5, MessageHeard
<1>7. m \in ServerMessage
  BY <1>1, <1>2, FirstTaken
<1> HIDE DEF m
<1>8. ASSUME At(toServer', WordTypes) = {}
      PROVE  serverToken' = authToken' \/ Refused(toClient')
  <2>1. CASE m.type = "unauth" /\ serverToken' = NoToken
    BY <1>2, <1>6, <1>8, <2>1 DEF WordToken
  <2>2. CASE m.type = "auth" /\ serverToken' = m.token
    BY <1>2, <1>6, <1>8, <2>2 DEF WordToken
  <2>3. CASE m.type = "auth" /\ toClient' = Append(toClient, AuthAnswer(FALSE, m))
    <3> DEFINE no == AuthAnswer(FALSE, m)
    <3>1. no \in ClientMessage /\ no.type = "auth" /\ ~no.ok
      BY <1>7, <2>3, ServerMessageKinds DEF AuthAnswer, ClientMessage
    <3>2. toClient' = Append(toClient, no)
      BY <2>3
    <3> HIDE DEF no
    <3>3. Refused(Append(toClient, no))
      BY <1>1, <3>1, RefusalWaits
    <3> QED
      BY <3>2, <3>3
  <2> QED
    BY <1>3, <2>1, <2>2, <2>3
<1>9. WordsRight(toServer', authToken')
  BY <1>2, <1>6
<1> QED
  BY <1>2, <1>4, <1>8, <1>9 DEF WordsOK, IsConnected

\* A greeted connection's first word, if it has a token, is of that token.
LEMMA OnReadyPreservesWords ==
    ASSUME IInv, RestTyped, WordsOK, OnReady
    PROVE  WordsOK'
<1>1. toServer \in Seq(ServerMessage) /\ authToken \in Token
  BY DEF RestTyped, WireTyped, TokensTyped
<1>2. /\ realtime = "connecting" /\ realtime' = "connected"
      /\ UNCHANGED <<authToken, serverToken, toClient>>
      /\ IF authToken = NoToken THEN toServer' = toServer \o Restored
         ELSE toServer' = Append(toServer, AuthRequest(authToken, TRUE))
  BY DEF OnReady, Hello, serverVars
<1>3. toServer = <<>> /\ serverToken = NoToken
  BY <1>2 DEF IInv, StateOK, WireNeedsConnection, WordsOK
<1>4. At(toServer, WordTypes) = {}
  BY <1>3 DEF At
<1>5. WordsRight(toServer, authToken)
  BY <1>4 DEF WordsRight
<1>6. CASE authToken = NoToken
  <2>1. /\ Restored \in Seq(ServerMessage)
        /\ \A k \in 1..Len(Restored) : Restored[k].type \notin WordTypes
    BY RestoredProperties DEF WordTypes
  <2>2. /\ WordsRight(toServer \o Restored, authToken)
        /\ At(toServer \o Restored, WordTypes) = At(toServer, WordTypes)
    BY <1>1, <1>5, <2>1, RequestsSaid
  <2> QED
    BY <1>2, <1>3, <1>6, <2>2 DEF WordsOK
<1>7. CASE authToken # NoToken
  <2> DEFINE m == AuthRequest(authToken, TRUE)
  <2>1. m \in ServerMessage /\ m.type \in WordTypes /\ WordToken(m) = authToken
    BY <1>1 DEF AuthRequest, ServerMessage, WordTypes, WordToken
  <2>2. toServer' = Append(toServer, m)
    BY <1>2, <1>7
  <2> HIDE DEF m
  <2>3. WordsRight(toServer', authToken) /\ At(toServer', WordTypes) # {}
    BY <1>1, <2>1, <2>2, WordSaid
  <2> QED
    BY <1>2, <2>3 DEF WordsOK
<1> QED
  BY <1>6, <1>7

\* A token accepted leaves the words as they are; one refused ends them.
LEMMA OnAuthAnswerPreservesWords ==
    ASSUME IInv, RestTyped, WordsOK, OnAuthAnswer
    PROVE  WordsOK'
<1>1. toServer \in Seq(ServerMessage) /\ toClient \in Seq(ClientMessage)
  BY DEF RestTyped, WireTyped
<1>2. toClient # <<>>
  BY DEF OnAuthAnswer, AuthAnswered
<1>3. realtime = "connected" /\ IsConnected
  BY <1>2 DEF IInv, StateOK, WireNeedsConnection, AssertionsHold
<1>4. CASE Head(toClient).ok
  <2>1. /\ toServer' = toServer \o Restored \/ toServer' = toServer
        /\ toClient' = Tail(toClient) /\ connectionState' = "Connected"
        /\ UNCHANGED <<realtime, authToken, serverToken>>
    BY <1>4 DEF OnAuthAnswer, AuthAnswered
  <2>2. WordsRight(toServer, authToken)
    BY <1>3 DEF WordsOK
  <2>3. /\ WordsRight(toServer', authToken)
        /\ At(toServer', WordTypes) = At(toServer, WordTypes)
    <3>1. /\ Restored \in Seq(ServerMessage)
          /\ \A k \in 1..Len(Restored) : Restored[k].type \notin WordTypes
      BY RestoredProperties DEF WordTypes
    <3>2. /\ WordsRight(toServer \o Restored, authToken)
          /\ At(toServer \o Restored, WordTypes) = At(toServer, WordTypes)
      BY <1>1, <2>2, <3>1, RequestsSaid
    <3>3. CASE toServer' = toServer
      BY <2>2, <3>3
    <3>4. CASE toServer' = toServer \o Restored
      BY <3>2, <3>4
    <3> QED
      BY <2>1, <3>3, <3>4
  <2>4. Refused(toClient) => Refused(toClient')
    BY <1>1, <1>2, <1>4, <2>1, RefusalWaits
  <2> QED
    BY <1>3, <2>1, <2>3, <2>4 DEF WordsOK
<1>5. CASE ~Head(toClient).ok
  <2>1. serverToken' = NoToken /\ ~IsConnected'
    BY <1>5 DEF OnAuthAnswer, AuthAnswered, TokenTurnedDown, Close, IsConnected
  <2> QED
    BY <2>1, WordsOfNone
<1> QED
  BY <1>4, <1>5

\* News of a token are the last word, if there is a connection.
LEMMA RefreshAuthTokenPreservesWords ==
    ASSUME IInv, RestTyped, WordsOK, RefreshAuthToken
    PROVE  WordsOK'
<1> DEFINE token == Head(inbox).token
<1>1. toServer \in Seq(ServerMessage)
  BY DEF RestTyped, WireTyped
<1>2. /\ inbox # <<>> /\ Head(inbox).type = "news" /\ authToken' = token
      /\ toServer' = IF IsConnected THEN toServer \o Word(token) ELSE toServer
      /\ UNCHANGED <<connectionState, realtime, serverToken>>
  BY DEF RefreshAuthToken, serverVars
<1>3. token \in Token
  <2>1. Head(inbox) \in Letter
    BY <1>2, FirstTaken DEF IInv, LineOK, LineTyped
  <2> QED
    BY <1>2, <2>1 DEF Letter
<1> HIDE DEF token
<1>4. ASSUME IsConnected
      PROVE  WordsRight(toServer', token) /\ At(toServer', WordTypes) # {}
  <2> DEFINE m == IF token = NoToken THEN Unauth ELSE AuthRequest(token, FALSE)
  <2>1. m \in ServerMessage /\ m.type \in WordTypes /\ WordToken(m) = token
    BY <1>3 DEF AuthRequest, Unauth, ServerMessage, WordTypes, WordToken
  <2>2. Word(token) = <<m>>
    BY DEF Word
  <2> HIDE DEF m
  <2>3. toServer' = Append(toServer, m)
    BY <1>1, <1>2, <1>4, <2>1, <2>2, ConcatOne
  <2> QED
    BY <1>1, <2>1, <2>3, WordSaid
<1>5. IsConnected' = IsConnected
  BY <1>2 DEF IsConnected
<1> QED
  BY <1>2, <1>4, <1>5 DEF WordsOK

\* Writes and reads are no words.
LEMMA RequestStepPreservesWords ==
    ASSUME IInv, RestTyped, WordsOK,
           \/ Put \/ GetData \/ GetTimesOut \/ PutAnswered \/ GetAnswered
           \/ ServerPut \/ ServerGet
    PROVE  WordsOK'
<1>1. toServer \in Seq(ServerMessage) /\ toClient \in Seq(ClientMessage) /\ RequestsTyped
  BY DEF RestTyped, WireTyped
<1>2. UNCHANGED <<connectionState, authToken, serverToken, realtime>>
  BY DEF Put, GetData, GetTimesOut, PutAnswered, GetAnswered, ServerPut, ServerGet,
         linkVars, clientVars, serverVars
<1>3. ASSUME NEW m \in ServerMessage, m.type \notin WordTypes,
             toServer' = toServer \/ toServer' = Append(toServer, m), toClient' = toClient
      PROVE  WordsOK'
  <2>1. CASE toServer' = Append(toServer, m)
    <3>1. <<m>> \in Seq(ServerMessage) /\ \A k \in 1..Len(<<m>>) : <<m>>[k].type \notin WordTypes
      BY <1>3, OneElement
    <3>2. toServer' = toServer \o <<m>>
      BY <1>1, <2>1, ConcatOne
    <3> DEFINE r == <<m>>
    <3> HIDE DEF r
    <3>3. \A token : WordsRight(toServer, token) => WordsRight(toServer \o r, token)
      BY <1>1, <3>1, RequestsSaid DEF r
    <3>4. At(toServer \o r, WordTypes) = At(toServer, WordTypes)
      BY <1>1, <3>1, PlacesOfConcat DEF r
    <3> QED
      BY <1>2, <1>3, <3>2, <3>3, <3>4, WordsKept DEF r
  <2>2. CASE toServer' = toServer
    BY <1>2, <1>3, <2>2, WordsKept
  <2> QED
    BY <1>3, <2>1, <2>2
<1>4. CASE Put
  <2> DEFINE i == putCount + 1
  <2>1. /\ i \in Puts /\ toClient' = toClient
        /\ toServer' = Append(toServer, PutRequest(i)) \/ toServer' = toServer
    BY <1>4 DEF Put
  <2>2. PutRequest(i) \in ServerMessage /\ PutRequest(i).type \notin WordTypes
    BY <2>1 DEF PutRequest, ServerMessage, WordTypes
  <2> HIDE DEF i
  <2> QED
    BY <1>3, <2>1, <2>2
<1>5. CASE GetData
  <2> DEFINE g == getCount + 1
  <2>1. /\ g \in Gets /\ toClient' = toClient
        /\ toServer' = Append(toServer, GetRequest(g)) \/ toServer' = toServer
    BY <1>5 DEF GetData
  <2>2. GetRequest(g) \in ServerMessage /\ GetRequest(g).type \notin WordTypes
    BY <2>1 DEF GetRequest, ServerMessage, WordTypes
  <2> HIDE DEF g
  <2> QED
    BY <1>3, <2>1, <2>2
<1>6. CASE GetTimesOut
  <2>1. UNCHANGED <<toServer, toClient>>
    BY <1>6 DEF GetTimesOut, linkVars, wireVars
  <2> QED
    BY <1>2, <2>1, WordsKept
<1>7. CASE PutAnswered \/ GetAnswered
  <2>1. /\ toClient # <<>> /\ Head(toClient).type # "auth" /\ toClient' = Tail(toClient)
        /\ toServer' = toServer
    BY <1>7 DEF PutAnswered, GetAnswered
  <2>2. Refused(toClient) => Refused(toClient')
    BY <1>1, <2>1, RefusalWaits
  <2> QED
    BY <1>2, <2>1, <2>2, WordsKept
<1>8. CASE ServerPut \/ ServerGet
  <2>1. /\ toServer # <<>> /\ Head(toServer).type \in {"put", "get"} /\ toServer' = Tail(toServer)
        /\ \E status \in {"ok", "refused"} :
             \/ /\ Head(toServer).type = "put"
                /\ toClient' = Append(toClient, PutAnswer(Head(toServer).index, status))
             \/ /\ Head(toServer).type = "get"
                /\ toClient' = Append(toClient, GetAnswer(Head(toServer).index, status))
    BY <1>8 DEF ServerPut, ServerGet
  <2>2. Head(toServer) \in ServerMessage
    BY <1>1, <2>1, FirstTaken
  <2>3. \E m \in ClientMessage : toClient' = Append(toClient, m)
    <3>1. \A status \in {"ok", "refused"} :
            /\ Head(toServer).type = "put" => PutAnswer(Head(toServer).index, status) \in ClientMessage
            /\ Head(toServer).type = "get" => GetAnswer(Head(toServer).index, status) \in ClientMessage
      BY <1>1, <2>2, ServerMessageKinds, MessagesAre DEF RequestsTyped
    <3> QED
      BY <2>1, <3>1
  <2>4. Refused(toClient) => Refused(toClient')
    BY <1>1, <2>3, RefusalWaits
  <2>5. \A token : WordsRight(toServer, token) => WordsRight(toServer', token)
    BY <1>1, <2>1, MessageHeard
  <2>6. At(toServer', WordTypes) = {} => At(toServer, WordTypes) = {}
    <3>1. 1 \notin At(toServer, WordTypes)
      BY <1>1, <2>1, FirstTaken DEF At, WordTypes
    <3>2. At(toServer', WordTypes) = {} => \A k \in At(toServer, WordTypes) : k = 1
      BY <1>1, <2>1, PlacesOfTail
    <3> QED
      BY <3>1, <3>2
  <2> QED
    BY <1>2, <2>4, <2>5, <2>6, WordsKept
<1> QED
  BY <1>4, <1>5, <1>6, <1>7, <1>8

\* Every step, by cases.
LEMMA NextPreservesWords ==
    ASSUME IInv, RestTyped, WordsOK, [Next]_vars
    PROVE  WordsOK'
<1>1. realtime = "connected" <=> IsConnected
  BY DEF IInv, StateOK, AssertionsHold
<1>2. CASE LinkStep
  <2>1. CASE Retry
    <3>1. serverToken' = serverToken /\ realtime = "nil" /\ ~IsConnected'
      BY <2>1, <1>1 DEF Retry, serverVars, IsConnected, IInv, StateOK, StateTyped, AssertionsHold
    <3> QED
      BY <3>1, WordsOfNone DEF WordsOK
  <2>2. CASE TokenService
    <3>1. UNCHANGED <<connectionState, authToken, serverToken, realtime, toServer, toClient>>
      BY <2>2 DEF TokenService, clientVars, serverVars, wireVars
    <3> QED
      BY <3>1, WordsKept
  <2>3. CASE TokenFetched
    <3>1. /\ UNCHANGED <<serverToken, toServer, toClient>>
          /\ \/ connectionState' = "Disconnected" /\ realtime' = realtime
             \/ /\ connectionState = "GettingToken" /\ connectionState' = "Connecting"
             \/ UNCHANGED <<connectionState, realtime, authToken>>
      BY <2>3 DEF TokenFetched, serverVars, wireVars
    <3>2. CASE connectionState = "GettingToken" /\ connectionState' = "Connecting"
      <4>1. ~IsConnected /\ ~IsConnected'
        BY <3>2 DEF IsConnected
      <4> QED
        BY <1>1, <3>1, <4>1, WordsOfNone DEF WordsOK
    <3>3. CASE connectionState' = "Disconnected" /\ realtime' = realtime
      BY <3>1, <3>3 DEF WordsOK, IsConnected
    <3>4. CASE UNCHANGED <<connectionState, realtime, authToken>>
      BY <3>1, <3>4, WordsKept
    <3> QED
      BY <3>1, <3>2, <3>3, <3>4
  <2>4. CASE RefreshAuthToken
    BY <2>4, RefreshAuthTokenPreservesWords
  <2>5. CASE ServerAuth
    BY <2>5, ServerAuthPreservesWords
  <2>6. CASE Drop \/ AuthRevoked
    <3>1. serverToken' = NoToken /\ ~IsConnected'
      BY <2>6 DEF Drop, AuthRevoked, TokenTurnedDown, Close, IsConnected
    <3> QED
      BY <3>1, WordsOfNone
  <2>7. ASSUME NEW reason, InterruptForReason(reason)
        PROVE  WordsOK'
    <3>1. /\ ~IsConnected'
          /\ serverToken' = NoToken \/ (serverToken' = serverToken /\ realtime = "nil")
      BY <2>7 DEF InterruptForReason, Close, IsConnected
    <3>2. serverToken' = NoToken
      BY <3>1 DEF WordsOK
    <3> QED
      BY <3>1, <3>2, WordsOfNone
  <2>8. ASSUME NEW reason, ResumeForReason(reason)
        PROVE  WordsOK'
    <3>1. UNCHANGED <<connectionState, authToken, serverToken, realtime, toServer, toClient>>
      BY <2>8 DEF ResumeForReason, serverVars, wireVars
    <3> QED
      BY <3>1, WordsKept
  <2>9. CASE Nudge \/ AccountChanges
    <3>1. UNCHANGED <<connectionState, authToken, serverToken, realtime, toServer, toClient>>
      BY <2>9 DEF Nudge, AccountChanges, clientVars, serverVars, wireVars
    <3> QED
      BY <3>1, WordsKept
  <2> QED
    BY <1>2, <2>1, <2>2, <2>3, <2>4, <2>5, <2>6, <2>7, <2>8, <2>9
       DEF LinkStep, LinkEvent, Kill, GoOffline, GoOnline, Open
<1>3. CASE OnReady
  BY <1>3, OnReadyPreservesWords
<1>4. CASE OnAuthAnswer
  BY <1>4, OnAuthAnswerPreservesWords
<1>5. CASE \/ Put \/ GetData \/ GetTimesOut \/ PutAnswered \/ GetAnswered
           \/ ServerPut \/ ServerGet
  BY <1>5, RequestStepPreservesWords
<1>6. CASE Relaunch
  <2>1. serverToken' = NoToken /\ ~IsConnected'
    BY <1>6 DEF Relaunch, LinkRelaunch, IsConnected
  <2> QED
    BY <2>1, WordsOfNone
<1>7. CASE UNCHANGED vars
  <2>1. UNCHANGED <<connectionState, authToken, serverToken, realtime, toServer, toClient>>
    BY <1>7 DEF vars, linkVars, clientVars, serverVars, wireVars
  <2> QED
    BY <2>1, WordsKept
<1> QED
  BY <1>2, <1>3, <1>4, <1>5, <1>6, <1>7 DEF Next

\* Nothing was said and nothing is known when the app starts.
LEMMA InitSpeaks == Init => NewsOK /\ WordsOK
<1> SUFFICES ASSUME Init
             PROVE  NewsOK /\ WordsOK
  OBVIOUS
<1>1. /\ inbox = <<>> /\ realtime = "nil" /\ connectionState = "Disconnected"
      /\ serverToken = NoToken
  BY DEF Init, LinkInit
<1>2. At(inbox, {"news"}) = {} /\ At(inbox, {"fetched"}) = {}
  BY <1>1 DEF At
<1>3. NewsOK
  BY <1>1, <1>2 DEF NewsOK, NewsRight
<1>4. WordsOK
  BY <1>1 DEF WordsOK, IsConnected
<1> QED
  BY <1>3, <1>4

\* When the news has been taken and no word of a token is on the wire, the
\* server knows the connection by the user's present token.
THEOREM LinkAlwaysSpeaksForUser == Spec => []LinkSpeaksForUser
<1> DEFINE Speaks == IInv /\ RestTyped /\ NewsOK /\ WordsOK
<1>1. Speaks /\ [Next]_vars => Speaks'
  BY NextPreservesIInv, NextPreservesTypes, NextPreservesNews, NextPreservesWords
<1>2. Init => Speaks
  BY InitEstablishesIInv, InitTyped, InitSpeaks
<1>3. Speaks => LinkSpeaksForUser
  <2> SUFFICES ASSUME NewsOK, WordsOK, IInv, CanSend,
                      \A k \in 1..Len(inbox) : inbox[k].type # "news",
                      \A k \in 1..Len(toServer) : toServer[k].type \notin {"auth", "unauth"},
                      \A k \in 1..Len(toClient) : toClient[k].type # "auth"
               PROVE  serverToken = user \/ overtaken
    BY DEF LinkSpeaksForUser
  <2>1. IsConnected /\ realtime = "connected"
    BY DEF CanSend, IsConnected, IInv, StateOK, AssertionsHold
  <2>2. At(inbox, {"news"}) = {} /\ At(toServer, WordTypes) = {} /\ ~Refused(toClient)
    BY DEF At, WordTypes, Refused
  <2>3. authToken = user \/ overtaken
    BY <2>1, <2>2 DEF NewsOK
  <2>4. serverToken = authToken
    BY <2>1, <2>2 DEF WordsOK
  <2> QED
    BY <2>3, <2>4
<1> HIDE DEF Speaks
<1> QED
  BY <1>1, <1>2, <1>3, PTL DEF Spec

-----------------------------------------------------------------------------
(* Requests are sent when the connection is ready, and before that the      *)
(* request to authenticate whose answer brings them back is the first.      *)

\* What the database is asked.
Requests == {"put", "get"}

\* The places of the words whose answer brings the requests back.
Restores(q) == {k \in At(q, {"auth"}) : q[k].restore}

\* Requests follow the word that brings them back, and nothing is before it.
ReadyOK ==
    /\ ~CanSend => At(toServer, Requests) = {} /\ At(toClient, Requests) = {}
    /\ CanSend => Restores(toServer) = {} /\ Restores(toClient) = {}
    /\ connectionState = "Authenticating" =>
         \/ toClient = <<>> /\ Restores(toServer) = {1}
         \/ Restores(toServer) = {} /\ Restores(toClient) = {1}

\* The first message is taken.
LEMMA RestoresOfTail ==
    ASSUME NEW S, NEW q \in Seq(S), q # <<>>
    PROVE  /\ Restores(q) = {} \/ Restores(q) = {1} => Restores(Tail(q)) = {}
           /\ 1 \in Restores(q) <=> Head(q).type = "auth" /\ Head(q).restore
<1>1. /\ \A k \in At(Tail(q), {"auth"}) : k + 1 \in At(q, {"auth"}) /\ Tail(q)[k] = q[k + 1]
      /\ 1 \in At(q, {"auth"}) <=> Head(q).type = "auth"
  BY PlacesOfTail
<1>2. Head(q) = q[1]
  BY FirstTaken
<1>3. ASSUME NEW k \in Restores(Tail(q))
      PROVE  k + 1 \in Restores(q) /\ k + 1 # 1
  <2>1. k \in At(Tail(q), {"auth"}) /\ Tail(q)[k].restore
    BY DEF Restores
  <2>2. k \in Nat /\ k >= 1
    BY <2>1, LenProperties DEF At
  <2>3. k + 1 \in At(q, {"auth"}) /\ q[k + 1].restore
    BY <1>1, <2>1
  <2> QED
    BY <2>2, <2>3 DEF Restores
<1>4. Restores(q) = {} \/ Restores(q) = {1} => Restores(Tail(q)) = {}
  BY <1>3
<1>5. 1 \in Restores(q) <=> Head(q).type = "auth" /\ Head(q).restore
  BY <1>1, <1>2 DEF Restores
<1> QED
  BY <1>4, <1>5

\* A message is added.
LEMMA RestoresOfAppend ==
    ASSUME NEW S, NEW q \in Seq(S), NEW m \in S
    PROVE  /\ m.type # "auth" \/ ~m.restore => Restores(Append(q, m)) = Restores(q)
           /\ m.type = "auth" /\ m.restore => Restores(Append(q, m)) = Restores(q) \cup {Len(q) + 1}
<1> DEFINE t == Append(q, m)
           n == Len(q) + 1
<1>1. m.type \in {"auth"} => At(t, {"auth"}) = At(q, {"auth"}) \cup {n}
  BY PlacesOfAppend
<1>2. m.type \notin {"auth"} => At(t, {"auth"}) = At(q, {"auth"})
  BY PlacesOfAppend
<1>3. t[n] = m /\ (\A k \in 1..Len(q) : t[k] = q[k]) /\ n \notin 1..Len(q)
  BY LastAdded
<1>4. At(q, {"auth"}) \subseteq 1..Len(q)
  BY DEF At
<1> HIDE DEF t, n
<1>5. m.type # "auth" \/ ~m.restore => Restores(t) = Restores(q)
  BY <1>1, <1>2, <1>3, <1>4 DEF Restores
<1>6. m.type = "auth" /\ m.restore => Restores(t) = Restores(q) \cup {n}
  BY <1>1, <1>3, <1>4 DEF Restores
<1> QED
  BY <1>5, <1>6 DEF t, n

\* Requests are added.
LEMMA RestoresOfConcat ==
    ASSUME NEW S, NEW q \in Seq(S), NEW r \in Seq(S), \A k \in 1..Len(r) : r[k].type \in Requests
    PROVE  Restores(q \o r) = Restores(q)
<1>1. \A k \in 1..Len(r) : r[k].type \notin {"auth"}
  BY DEF Requests
<1>2. /\ At(q \o r, {"auth"}) = At(q, {"auth"})
      /\ \A k \in At(q, {"auth"}) : (q \o r)[k] = q[k]
  BY <1>1, PlacesOfConcat
<1> QED
  BY <1>2 DEF Restores

\* A step that leaves the connection and the wire alone.
LEMMA ReadyKept ==
    ASSUME ReadyOK, UNCHANGED <<connectionState, toServer, toClient>>
    PROVE  ReadyOK'
BY DEF ReadyOK, CanSend

\* A connection that is down has nothing on the wire.
LEMMA ReadyOfNone ==
    ASSUME IInv', ~IsConnected'
    PROVE  ReadyOK' /\ toServer' = <<>> /\ toClient' = <<>>
<1>1. toServer' = <<>> /\ toClient' = <<>>
  BY DEF IInv, StateOK, WireNeedsConnection, AssertionsHold
<1>2. At(toServer', Requests) = {} /\ At(toClient', Requests) = {}
  BY <1>1 DEF At
<1> QED
  BY <1>1, <1>2 DEF ReadyOK, IsConnected, CanSend

\* The server takes a word, and answers it.
LEMMA ServerAuthPreservesReady ==
    ASSUME IInv, RestTyped, ReadyOK, ServerAuth
    PROVE  ReadyOK'
<1> DEFINE m == Head(toServer)
<1>1. toServer \in Seq(ServerMessage) /\ toClient \in Seq(ClientMessage)
  BY DEF RestTyped, WireTyped
<1>2. /\ toServer # <<>> /\ m.type \in {"auth", "unauth"} /\ toServer' = Tail(toServer)
      /\ connectionState' = connectionState
      /\ \/ m.type = "unauth" /\ toClient' = toClient
         \/ m.type = "auth" /\ \E ok \in BOOLEAN : toClient' = Append(toClient, AuthAnswer(ok, m))
  BY DEF ServerAuth, clientVars
<1>3. m \in ServerMessage
  BY <1>1, <1>2, FirstTaken
<1>4. IsConnected
  BY <1>2 DEF IInv, StateOK, WireNeedsConnection, AssertionsHold
<1>5. /\ Restores(toServer) = {} \/ Restores(toServer) = {1} => Restores(Tail(toServer)) = {}
      /\ 1 \in Restores(toServer) <=> m.type = "auth" /\ m.restore
  BY <1>1, <1>2, RestoresOfTail
<1>6. At(toServer, Requests) = {} => At(toServer', Requests) = {}
  BY <1>1, <1>2, PlacesOfTail
<1> HIDE DEF m
<1>7. \A ok \in BOOLEAN : m.type = "auth" =>
        /\ AuthAnswer(ok, m) \in ClientMessage /\ AuthAnswer(ok, m).type = "auth"
        /\ AuthAnswer(ok, m).restore = m.restore
  BY <1>3, MessagesAre
<1>8. At(toClient, Requests) = {} => At(toClient', Requests) = {}
  <2>1. ASSUME NEW a \in ClientMessage, a.type = "auth"
        PROVE  At(Append(toClient, a), Requests) = At(toClient, Requests)
    <3>1. a.type \notin Requests
      BY <2>1 DEF Requests
    <3> QED
      BY <1>1, <3>1, PlacesOfAppend
  <2> QED
    BY <1>2, <1>7, <2>1
<1>9. \/ m.type = "unauth" /\ Restores(toClient') = Restores(toClient) /\ toClient' = toClient
      \/ m.type = "auth" /\ ~m.restore /\ Restores(toClient') = Restores(toClient)
      \/ m.type = "auth" /\ m.restore /\ Restores(toClient') = Restores(toClient) \cup {Len(toClient) + 1}
  <2>1. ASSUME NEW a \in ClientMessage, a.type = "auth", a.restore = m.restore,
               toClient' = Append(toClient, a)
        PROVE  IF m.restore THEN Restores(toClient') = Restores(toClient) \cup {Len(toClient) + 1}
               ELSE Restores(toClient') = Restores(toClient)
    BY <1>1, <2>1, RestoresOfAppend
  <2> QED
    BY <1>2, <1>7, <2>1
<1>10. CASE CanSend
  <2>1. Restores(toServer') = {} /\ Restores(toClient') = {}
    BY <1>2, <1>5, <1>9, <1>10 DEF ReadyOK
  <2> QED
    BY <1>2, <1>10, <2>1 DEF ReadyOK, CanSend
<1>11. CASE connectionState = "Authenticating"
  <2>1. CASE toClient = <<>> /\ Restores(toServer) = {1}
    <3>1. m.type = "auth" /\ m.restore /\ Restores(toClient) = {} /\ Len(toClient) = 0
      BY <1>5, <2>1 DEF Restores, At
    <3>2. Restores(toServer') = {} /\ Restores(toClient') = {1}
      BY <1>2, <1>5, <1>9, <2>1, <3>1
    <3> QED
      BY <1>2, <1>6, <1>8, <1>11, <3>2 DEF ReadyOK, CanSend
  <2>2. CASE Restores(toServer) = {} /\ Restores(toClient) = {1}
    <3>1. Restores(toServer') = {} /\ Restores(toClient') = {1}
      BY <1>2, <1>5, <1>9, <2>2
    <3> QED
      BY <1>2, <1>6, <1>8, <1>11, <3>1 DEF ReadyOK, CanSend
  <2> QED
    BY <1>11, <2>1, <2>2 DEF ReadyOK
<1> QED
  BY <1>4, <1>10, <1>11 DEF IsConnected, CanSend

\* What restoreState sends are requests.
LEMMA RestoredAreRequests ==
    Restored \in Seq(ServerMessage) /\ \A k \in 1..Len(Restored) : Restored[k].type \in Requests
BY RestoredProperties DEF Requests

\* The greeted connection is ready, or asks to be by its first word.
LEMMA OnReadyPreservesReady ==
    ASSUME IInv, RestTyped, ReadyOK, OnReady
    PROVE  ReadyOK'
<1>1. toServer \in Seq(ServerMessage) /\ authToken \in Token
  BY DEF RestTyped, WireTyped, TokensTyped
<1>2. /\ realtime = "connecting" /\ toClient' = toClient
      /\ IF authToken = NoToken
         THEN connectionState' = "Connected" /\ toServer' = toServer \o Restored
         ELSE /\ connectionState' = "Authenticating"
              /\ toServer' = Append(toServer, AuthRequest(authToken, TRUE))
  BY DEF OnReady, Hello
<1>3. toServer = <<>> /\ toClient = <<>>
  BY <1>2 DEF IInv, StateOK, WireNeedsConnection
<1>4. Restores(toServer) = {} /\ Restores(toClient) = {} /\ Len(toServer) = 0
  BY <1>3 DEF Restores, At
<1>5. CASE authToken = NoToken
  <2>1. Restores(toServer \o Restored) = Restores(toServer)
    BY <1>1, RestoredAreRequests, RestoresOfConcat
  <2> QED
    BY <1>2, <1>4, <1>5, <2>1 DEF ReadyOK, CanSend
<1>6. CASE authToken # NoToken
  <2> DEFINE m == AuthRequest(authToken, TRUE)
  <2>1. m \in ServerMessage /\ m.type = "auth" /\ m.restore
    BY <1>1 DEF AuthRequest, ServerMessage
  <2>2. toServer' = Append(toServer, m) /\ m.type \notin Requests
    BY <1>2, <1>6 DEF AuthRequest, Requests
  <2> HIDE DEF m
  <2>3. Restores(toServer') = {1}
    <3>1. Restores(toServer') = Restores(toServer) \cup {Len(toServer) + 1}
      BY <1>1, <2>1, <2>2, RestoresOfAppend
    <3> QED
      BY <1>4, <3>1
  <2>4. At(toServer', Requests) = At(toServer, Requests)
    BY <1>1, <2>1, <2>2, PlacesOfAppend
  <2>5. At(toServer', Requests) = {} /\ At(toClient', Requests) = {}
    BY <1>2, <1>3, <2>4 DEF At
  <2> QED
    BY <1>2, <1>3, <1>6, <2>3, <2>5 DEF ReadyOK, CanSend
<1> QED
  BY <1>5, <1>6

\* The answer to the first word makes the connection ready, and only that one
\* brings the requests back.
LEMMA OnAuthAnswerPreservesReady ==
    ASSUME IInv, IInv', RestTyped, ReadyOK, OnAuthAnswer
    PROVE  /\ ReadyOK'
           /\ Head(toClient).ok =>
                /\ CanSend' /\ toClient' = Tail(toClient)
                /\ IF connectionState = "Authenticating" THEN toServer' = toServer \o Restored
                   ELSE CanSend /\ toServer' = toServer
           /\ ~Head(toClient).ok => ~IsConnected'
<1> DEFINE m == Head(toClient)
<1>1. toServer \in Seq(ServerMessage) /\ toClient \in Seq(ClientMessage)
  BY DEF RestTyped, WireTyped
<1>2. toClient # <<>> /\ m.type = "auth"
  BY DEF OnAuthAnswer, AuthAnswered
<1>3. IsConnected
  BY <1>2 DEF IInv, StateOK, WireNeedsConnection, AssertionsHold
<1>4. /\ Restores(toClient) = {} \/ Restores(toClient) = {1} => Restores(Tail(toClient)) = {}
      /\ 1 \in Restores(toClient) <=> m.restore
  BY <1>1, <1>2, RestoresOfTail
<1>5. \/ /\ m.ok /\ connectionState' = "Connected" /\ toClient' = Tail(toClient)
         /\ toServer' = IF m.restore THEN toServer \o Restored ELSE toServer
      \/ ~m.ok /\ connectionState' = "Disconnected"
  BY DEF OnAuthAnswer, AuthAnswered, TokenTurnedDown, Close
<1> HIDE DEF m
<1>6. CASE ~m.ok
  <2>1. ~IsConnected'
    BY <1>5, <1>6 DEF IsConnected
  <2> QED
    BY <1>6, <2>1, ReadyOfNone DEF m
<1>7. CASE m.ok
  <2>1. IF connectionState = "Authenticating" THEN m.restore ELSE CanSend /\ ~m.restore
    <3>1. CASE connectionState = "Authenticating"
      BY <1>2, <1>4, <3>1 DEF ReadyOK
    <3>2. CASE CanSend
      BY <1>4, <3>2 DEF ReadyOK, CanSend
    <3> QED
      BY <1>3, <3>1, <3>2 DEF IsConnected, CanSend
  <2>2. Restores(toServer) = {} /\ Restores(Tail(toClient)) = {}
    <3>1. CASE connectionState = "Authenticating"
      BY <1>2, <1>4, <3>1 DEF ReadyOK
    <3>2. CASE CanSend
      BY <1>4, <3>2 DEF ReadyOK
    <3> QED
      BY <1>3, <3>1, <3>2 DEF IsConnected, CanSend
  <2>3. Restores(toServer \o Restored) = Restores(toServer)
    BY <1>1, RestoredAreRequests, RestoresOfConcat
  <2>4. Restores(toServer') = {} /\ Restores(toClient') = {} /\ CanSend'
    BY <1>5, <1>7, <2>2, <2>3 DEF CanSend
  <2>5. ReadyOK'
    BY <2>4 DEF ReadyOK, CanSend
  <2> QED
    BY <1>5, <1>7, <2>1, <2>4, <2>5 DEF m
<1> QED
  BY <1>6, <1>7

\* A word that brings nothing back.
LEMMA RefreshAuthTokenPreservesReady ==
    ASSUME IInv, RestTyped, ReadyOK, RefreshAuthToken
    PROVE  /\ ReadyOK' /\ UNCHANGED <<connectionState, toClient>>
           /\ \/ toServer' = toServer
              \/ \E m \in ServerMessage : /\ m.type \in WordTypes
                                          /\ toServer' = Append(toServer, m)
<1> DEFINE token == Head(inbox).token
<1>1. toServer \in Seq(ServerMessage)
  BY DEF RestTyped, WireTyped
<1>2. /\ inbox # <<>> /\ Head(inbox).type = "news"
      /\ toServer' = IF IsConnected THEN toServer \o Word(token) ELSE toServer
      /\ UNCHANGED <<connectionState, toClient>>
  BY DEF RefreshAuthToken
<1>3. token \in Token
  <2>1. Head(inbox) \in Letter
    BY <1>2, FirstTaken DEF IInv, LineOK, LineTyped
  <2> QED
    BY <1>2, <2>1 DEF Letter
<1> HIDE DEF token
<1>4. CASE ~IsConnected
  <2>1. toServer' = toServer
    BY <1>2, <1>4
  <2> QED
    BY <1>2, <2>1, ReadyKept
<1>5. CASE IsConnected
  <2> DEFINE m == IF token = NoToken THEN Unauth ELSE AuthRequest(token, FALSE)
  <2>1. m \in ServerMessage /\ m.type \in WordTypes /\ (m.type # "auth" \/ ~m.restore)
    BY <1>3 DEF AuthRequest, Unauth, ServerMessage, WordTypes
  <2>2. Word(token) = <<m>>
    BY DEF Word
  <2> HIDE DEF m
  <2>3. toServer' = Append(toServer, m)
    BY <1>1, <1>2, <1>5, <2>1, <2>2, ConcatOne
  <2>4. Restores(toServer') = Restores(toServer)
    BY <1>1, <2>1, <2>3, RestoresOfAppend
  <2>5. At(toServer', Requests) = At(toServer, Requests)
    <3>1. m.type \notin Requests
      BY <2>1 DEF WordTypes, Requests
    <3> QED
      BY <1>1, <2>1, <2>3, <3>1, PlacesOfAppend
  <2>6. ReadyOK'
    BY <1>2, <2>4, <2>5 DEF ReadyOK, CanSend
  <2> QED
    BY <1>2, <2>1, <2>3, <2>6
<1> QED
  BY <1>4, <1>5

\* Writes and reads are sent, and answered, on a connection that is ready.
LEMMA RequestStepPreservesReady ==
    ASSUME IInv, RestTyped, ReadyOK,
           \/ Put \/ GetData \/ GetTimesOut \/ PutAnswered \/ GetAnswered
           \/ ServerPut \/ ServerGet
    PROVE  /\ ReadyOK' /\ connectionState' = connectionState
           /\ PutAnswered \/ GetAnswered \/ ServerPut \/ ServerGet => CanSend
<1>1. toServer \in Seq(ServerMessage) /\ toClient \in Seq(ClientMessage) /\ RequestsTyped
  BY DEF RestTyped, WireTyped
<1>2. connectionState' = connectionState
  BY DEF Put, GetData, GetTimesOut, PutAnswered, GetAnswered, ServerPut, ServerGet,
         linkVars, clientVars
<1>3. ASSUME toClient # <<>>, Head(toClient).type \in Requests
      PROVE  CanSend
  <2>1. 1 \in At(toClient, Requests)
    BY <1>1, <1>3, FirstTaken DEF At
  <2> QED
    BY <2>1 DEF ReadyOK
<1>4. ASSUME toServer # <<>>, Head(toServer).type \in Requests
      PROVE  CanSend
  <2>1. 1 \in At(toServer, Requests)
    BY <1>1, <1>4, FirstTaken DEF At
  <2> QED
    BY <2>1 DEF ReadyOK
<1>5. PutAnswered \/ GetAnswered \/ ServerPut \/ ServerGet => CanSend
  BY <1>3, <1>4 DEF PutAnswered, GetAnswered, ServerPut, ServerGet, Requests
<1>6. ASSUME NEW m \in ServerMessage, m.type \in Requests, toClient' = toClient,
             toServer' = IF CanSend THEN Append(toServer, m) ELSE toServer
      PROVE  ReadyOK'
  <2>1. CASE CanSend
    <3>1. Restores(toServer') = Restores(toServer)
      BY <1>1, <1>6, <2>1, RestoresOfAppend DEF Requests
    <3> QED
      BY <1>2, <1>6, <2>1, <3>1 DEF ReadyOK, CanSend
  <2>2. CASE ~CanSend
    BY <1>2, <1>6, <2>2, ReadyKept
  <2> QED
    BY <2>1, <2>2
<1>7. CASE Put
  <2> DEFINE i == putCount + 1
  <2>1. /\ i \in Puts /\ toClient' = toClient
        /\ toServer' = IF CanSend THEN Append(toServer, PutRequest(i)) ELSE toServer
    BY <1>7 DEF Put
  <2>2. PutRequest(i) \in ServerMessage /\ PutRequest(i).type \in Requests
    BY <2>1 DEF PutRequest, ServerMessage, Requests
  <2> HIDE DEF i
  <2>3. ReadyOK'
    BY <1>6, <2>1, <2>2
  <2> QED
    BY <1>2, <1>5, <2>3
<1>8. CASE GetData
  <2> DEFINE g == getCount + 1
  <2>1. /\ g \in Gets /\ toClient' = toClient
        /\ \/ toServer' = IF CanSend THEN Append(toServer, GetRequest(g)) ELSE toServer
           \/ toServer' = toServer
    BY <1>8 DEF GetData
  <2>2. GetRequest(g) \in ServerMessage /\ GetRequest(g).type \in Requests
    BY <2>1 DEF GetRequest, ServerMessage, Requests
  <2> HIDE DEF g
  <2>3. ReadyOK'
    BY <1>2, <1>6, <2>1, <2>2, ReadyKept
  <2> QED
    BY <1>2, <1>5, <2>3
<1>9. CASE GetTimesOut
  <2>1. UNCHANGED <<toServer, toClient>>
    BY <1>9 DEF GetTimesOut, linkVars, wireVars
  <2> QED
    BY <1>2, <1>5, <2>1, ReadyKept
<1>10. CASE PutAnswered \/ GetAnswered
  <2>1. toClient # <<>> /\ toClient' = Tail(toClient) /\ toServer' = toServer
    BY <1>10 DEF PutAnswered, GetAnswered
  <2>2. Restores(toClient) = {} => Restores(toClient') = {}
    BY <1>1, <2>1, RestoresOfTail
  <2>3. ReadyOK'
    BY <1>2, <1>5, <1>10, <2>1, <2>2 DEF ReadyOK, CanSend
  <2> QED
    BY <1>2, <1>5, <2>3
<1>11. CASE ServerPut \/ ServerGet
  <2>1. toServer # <<>> /\ toServer' = Tail(toServer)
    BY <1>11 DEF ServerPut, ServerGet
  <2>2. \E m \in ClientMessage : m.type \in Requests /\ toClient' = Append(toClient, m)
    <3>1. Head(toServer) \in ServerMessage
      BY <1>1, <2>1, FirstTaken
    <3>2. \E status \in {"ok", "refused"} :
             \/ /\ Head(toServer).type = "put"
                /\ toClient' = Append(toClient, PutAnswer(Head(toServer).index, status))
             \/ /\ Head(toServer).type = "get"
                /\ toClient' = Append(toClient, GetAnswer(Head(toServer).index, status))
      BY <1>11 DEF ServerPut, ServerGet
    <3>3. \A status \in {"ok", "refused"} :
            /\ Head(toServer).type = "put" =>
                 /\ PutAnswer(Head(toServer).index, status) \in ClientMessage
                 /\ PutAnswer(Head(toServer).index, status).type \in Requests
            /\ Head(toServer).type = "get" =>
                 /\ GetAnswer(Head(toServer).index, status) \in ClientMessage
                 /\ GetAnswer(Head(toServer).index, status).type \in Requests
      BY <1>1, <3>1, ServerMessageKinds, MessagesAre DEF RequestsTyped, Requests
    <3> QED
      BY <3>2, <3>3
  <2>3. Restores(toServer) = {} => Restores(toServer') = {}
    BY <1>1, <2>1, RestoresOfTail
  <2>4. Restores(toClient') = Restores(toClient)
    BY <1>1, <2>2, RestoresOfAppend DEF Requests
  <2>5. ReadyOK'
    BY <1>2, <1>5, <1>11, <2>3, <2>4 DEF ReadyOK, CanSend
  <2> QED
    BY <1>2, <1>5, <2>5
<1> QED
  BY <1>7, <1>8, <1>9, <1>10, <1>11

\* A step of the link itself leaves the connection as ready as it was, and the
\* wire but for words of tokens, or takes it down.
LEMMA LinkStepOnTheWire ==
    ASSUME IInv, IInv', RestTyped, ReadyOK, LinkStep
    PROVE  /\ ReadyOK'
           /\ \/ ~IsConnected' /\ (IsConnected \/ UNCHANGED <<toServer, toClient>>)
              \/ /\ connectionState' = connectionState
                 /\ \/ toServer' = toServer /\ toClient' = toClient
                    \/ RefreshAuthToken
                    \/ ServerAuth
<1>1. IsConnected \/ (toServer = <<>> /\ toClient = <<>>)
  BY DEF IInv, StateOK, WireNeedsConnection, AssertionsHold
<1>2. ASSUME ~IsConnected'
      PROVE  ReadyOK' /\ (IsConnected \/ UNCHANGED <<toServer, toClient>>)
  BY <1>1, <1>2, ReadyOfNone
<1>3. CASE Retry
  <2>1. ~IsConnected'
    BY <1>3 DEF Retry, IsConnected
  <2> QED
    BY <1>2, <2>1
<1>4. CASE TokenService
  <2>1. UNCHANGED <<connectionState, toServer, toClient>>
    BY <1>4 DEF TokenService, clientVars, wireVars
  <2> QED
    BY <2>1, ReadyKept
<1>5. CASE TokenFetched
  <2>1. /\ UNCHANGED <<toServer, toClient>>
        /\ \/ connectionState' = "Disconnected" \/ connectionState' = "Connecting"
           \/ UNCHANGED connectionState
    BY <1>5 DEF TokenFetched, wireVars
  <2>2. CASE UNCHANGED connectionState
    BY <2>1, <2>2, ReadyKept
  <2>3. CASE connectionState' = "Disconnected" \/ connectionState' = "Connecting"
    <3>1. ~IsConnected'
      BY <2>3 DEF IsConnected
    <3> QED
      BY <1>2, <3>1
  <2> QED
    BY <2>1, <2>2, <2>3
<1>6. CASE RefreshAuthToken
  BY <1>6, RefreshAuthTokenPreservesReady
<1>7. CASE ServerAuth
  <2>1. connectionState' = connectionState
    BY <1>7 DEF ServerAuth, clientVars
  <2> QED
    BY <1>7, <2>1, ServerAuthPreservesReady
<1>8. CASE Drop \/ AuthRevoked
  <2>1. ~IsConnected'
    BY <1>8 DEF Drop, AuthRevoked, TokenTurnedDown, Close, IsConnected
  <2> QED
    BY <1>2, <2>1
<1>9. CASE Kill \/ GoOffline
  <2>1. ~IsConnected'
    BY <1>9 DEF Kill, GoOffline, InterruptForReason, Close, IsConnected
  <2> QED
    BY <1>2, <2>1
<1>10. CASE GoOnline \/ Open \/ Nudge \/ AccountChanges
  <2>1. UNCHANGED <<connectionState, toServer, toClient>>
    BY <1>10 DEF GoOnline, Open, ResumeForReason, Nudge, AccountChanges, clientVars, wireVars
  <2> QED
    BY <2>1, ReadyKept
<1> QED
  BY <1>3, <1>4, <1>5, <1>6, <1>7, <1>8, <1>9, <1>10 DEF LinkStep, LinkEvent

\* Every step, by cases.
LEMMA NextPreservesReady ==
    ASSUME IInv, IInv', RestTyped, ReadyOK, [Next]_vars
    PROVE  ReadyOK'
<1>1. CASE LinkStep
  BY <1>1, LinkStepOnTheWire
<1>2. CASE OnReady
  BY <1>2, OnReadyPreservesReady
<1>3. CASE OnAuthAnswer
  BY <1>3, OnAuthAnswerPreservesReady
<1>4. CASE \/ Put \/ GetData \/ GetTimesOut \/ PutAnswered \/ GetAnswered
           \/ ServerPut \/ ServerGet
  BY <1>4, RequestStepPreservesReady
<1>5. CASE Relaunch
  <2>1. ~IsConnected'
    BY <1>5 DEF Relaunch, LinkRelaunch, IsConnected
  <2> QED
    BY <2>1, ReadyOfNone
<1>6. CASE UNCHANGED vars
  <2>1. UNCHANGED <<connectionState, toServer, toClient>>
    BY <1>6 DEF vars, linkVars, clientVars, wireVars
  <2> QED
    BY <2>1, ReadyKept
<1> QED
  BY <1>1, <1>2, <1>3, <1>4, <1>5, <1>6 DEF Next

-----------------------------------------------------------------------------
(* The writes on the wire.                                                  *)

\* The writes on a wire.
PutsOf(q) == {q[k].index : k \in At(q, {"put"})}
PutsRise(q) == \A k, l \in At(q, {"put"}) : k < l => q[k].index < q[l].index

\* Another message than a write is first, and is taken.
LEMMA OtherTaken ==
    ASSUME NEW S, NEW q \in Seq(S), q # <<>>, Head(q).type # "put"
    PROVE  PutsOf(Tail(q)) = PutsOf(q) /\ (PutsRise(q) => PutsRise(Tail(q)))
<1> DEFINE t == Tail(q)
           all == At(q, {"put"})
           rest == At(t, {"put"})
<1>1. /\ \A k \in rest : k + 1 \in all /\ t[k] = q[k + 1]
      /\ \A k \in all : k # 1 => k - 1 \in rest /\ t[k - 1] = q[k]
      /\ 1 \notin all /\ rest \subseteq Nat
  BY PlacesOfTail
<1> HIDE DEF t, all, rest
<1>2. PutsOf(t) = PutsOf(q)
  BY <1>1 DEF PutsOf, all, rest
<1>3. PutsRise(q) => PutsRise(t)
  <2> SUFFICES ASSUME PutsRise(q), NEW k \in rest, NEW l \in rest, k < l
               PROVE  t[k].index < t[l].index
    BY DEF PutsRise, rest
  <2>1. k + 1 \in all /\ l + 1 \in all /\ k + 1 < l + 1 /\ t[k] = q[k + 1] /\ t[l] = q[l + 1]
    BY <1>1
  <2> QED
    BY <2>1 DEF PutsRise, all
<1> QED
  BY <1>2, <1>3 DEF t

\* A write is first, and is taken: the least, if the writes rise.
LEMMA WriteTaken ==
    ASSUME NEW S, NEW q \in Seq(S), q # <<>>, Head(q).type = "put", PutsRise(q), PutsOf(q) \subseteq Nat
    PROVE  /\ Head(q).index \in PutsOf(q)
           /\ \A i \in PutsOf(Tail(q)) : Head(q).index < i
           /\ PutsOf(Tail(q)) = PutsOf(q) \ {Head(q).index}
           /\ PutsRise(Tail(q))
<1> DEFINE t == Tail(q)
           all == At(q, {"put"})
           rest == At(t, {"put"})
           first == Head(q).index
<1>1. /\ \A k \in rest : k + 1 \in all /\ t[k] = q[k + 1]
      /\ \A k \in all : k # 1 => k - 1 \in rest /\ t[k - 1] = q[k]
      /\ 1 \in all /\ rest \subseteq Nat
  BY PlacesOfTail
<1>2. Head(q) = q[1] /\ \A k \in rest : k >= 1
  BY FirstTaken, LenProperties DEF At
<1> HIDE DEF t, all, rest
<1>3. first \in PutsOf(q)
  BY <1>1, <1>2 DEF PutsOf, all
<1>4. ASSUME NEW k \in rest
      PROVE  first < t[k].index
  <2>1. k + 1 \in all /\ 1 < k + 1 /\ t[k] = q[k + 1]
    BY <1>1, <1>2
  <2> QED
    BY <1>1, <1>2, <2>1 DEF PutsRise, all
<1>5. \A i \in PutsOf(t) : first < i
  BY <1>4 DEF PutsOf, rest
<1>6. PutsOf(t) = PutsOf(q) \ {first}
  <2> HIDE DEF first
  <2>1. \A i \in PutsOf(t) : i \in PutsOf(q)
    BY <1>1 DEF PutsOf, all, rest
  <2>2. ASSUME NEW i \in PutsOf(q), i # first
        PROVE  i \in PutsOf(t)
    <3>1. PICK k \in all : q[k].index = i
      BY DEF PutsOf, all
    <3>2. k # 1
      BY <1>2, <2>2, <3>1 DEF first
    <3> QED
      BY <1>1, <3>1, <3>2 DEF PutsOf, rest
  <2>3. first \notin PutsOf(t)
    <3>1. first \in Nat
      BY <1>3
    <3> QED
      BY <1>5, <3>1
  <2> QED
    BY <2>1, <2>2, <2>3
<1>7. PutsRise(t)
  <2> SUFFICES ASSUME NEW k \in rest, NEW l \in rest, k < l
               PROVE  t[k].index < t[l].index
    BY DEF PutsRise, rest
  <2>1. k + 1 \in all /\ l + 1 \in all /\ k + 1 < l + 1 /\ t[k] = q[k + 1] /\ t[l] = q[l + 1]
    BY <1>1
  <2> QED
    BY <2>1 DEF PutsRise, all
<1> QED
  BY <1>3, <1>5, <1>6, <1>7 DEF t

\* Another message than a write is added.
LEMMA OtherAdded ==
    ASSUME NEW S, NEW q \in Seq(S), NEW m \in S, m.type # "put"
    PROVE  /\ PutsOf(Append(q, m)) = PutsOf(q) /\ (PutsRise(q) => PutsRise(Append(q, m)))
           /\ At(Append(q, m), {"put"}) = At(q, {"put"})
<1> DEFINE t == Append(q, m)
<1>1. m.type \notin {"put"}
  OBVIOUS
<1>2. At(t, {"put"}) = At(q, {"put"})
  BY <1>1, PlacesOfAppend
<1>3. (\A k \in 1..Len(q) : t[k] = q[k]) /\ At(q, {"put"}) \subseteq 1..Len(q)
  BY LastAdded DEF At
<1> HIDE DEF t
<1>4. PutsOf(t) = PutsOf(q)
  BY <1>2, <1>3 DEF PutsOf
<1>5. PutsRise(q) => PutsRise(t)
  BY <1>2, <1>3 DEF PutsRise
<1> QED
  BY <1>2, <1>4, <1>5 DEF t

\* A write is added: the greatest.
LEMMA WriteAdded ==
    ASSUME NEW S, NEW q \in Seq(S), NEW m \in S, m.type = "put", PutsRise(q),
           \A i \in PutsOf(q) : i < m.index
    PROVE  PutsOf(Append(q, m)) = PutsOf(q) \cup {m.index} /\ PutsRise(Append(q, m))
<1> DEFINE t == Append(q, m)
           n == Len(q) + 1
<1>1. m.type \in {"put"}
  OBVIOUS
<1>2. At(t, {"put"}) = At(q, {"put"}) \cup {n}
  BY <1>1, PlacesOfAppend
<1>3. /\ \A k \in 1..Len(q) : t[k] = q[k]
      /\ At(q, {"put"}) \subseteq 1..Len(q) /\ t[n] = m /\ Len(q) \in Nat
  BY LastAdded DEF At
<1>4. n \in Nat /\ \A k \in 1..Len(q) : k < n /\ k \in Nat
  BY <1>3
<1> HIDE DEF t, n
<1>5. PutsOf(t) = PutsOf(q) \cup {m.index}
  BY <1>2, <1>3, <1>4 DEF PutsOf
<1>6. PutsRise(t)
  <2> SUFFICES ASSUME NEW k \in At(t, {"put"}), NEW l \in At(t, {"put"}), k < l
               PROVE  t[k].index < t[l].index
    BY DEF PutsRise
  <2>1. k \in At(q, {"put"}) /\ t[k] = q[k] /\ q[k].index \in PutsOf(q)
    <3>1. k # n
      <4> SUFFICES ASSUME k = n
                   PROVE  FALSE
        OBVIOUS
      <4>1. l = n \/ l < n
        BY <1>2, <1>3, <1>4
      <4>2. l \in Nat /\ n \in Nat
        BY <1>2, <1>3, <1>4, LenProperties
      <4> QED
        BY <4>1, <4>2
    <3> QED
      BY <1>2, <1>3, <3>1 DEF PutsOf
  <2>2. CASE l = n
    BY <1>3, <2>1, <2>2
  <2>3. CASE l # n
    <3>1. l \in At(q, {"put"}) /\ t[l] = q[l]
      BY <1>2, <1>3, <2>3
    <3> QED
      BY <2>1, <3>1 DEF PutsRise
  <2> QED
    BY <2>2, <2>3
<1> QED
  BY <1>5, <1>6 DEF t

\* Places of a type that the first part of a concatenation has not.
LEMMA PlacesBeyond ==
    ASSUME NEW S, NEW q \in Seq(S), NEW r \in Seq(S), NEW types, At(q, types) = {}
    PROVE  \A k \in At(q \o r, types) :
             k - Len(q) \in At(r, types) /\ (q \o r)[k] = r[k - Len(q)] /\ k \in Nat
<1>1. /\ Len(q \o r) = Len(q) + Len(r) /\ Len(q) \in Nat /\ Len(r) \in Nat
      /\ \A k \in 1..Len(q) + Len(r) : (q \o r)[k] = IF k <= Len(q) THEN q[k] ELSE r[k - Len(q)]
  BY ConcatProperties, LenProperties
<1> DEFINE t == q \o r
<1> HIDE DEF t
<1>2. ASSUME NEW k \in At(t, types)
      PROVE  k - Len(q) \in At(r, types) /\ t[k] = r[k - Len(q)] /\ k \in Nat
  <2>1. k \in 1..Len(q) + Len(r) /\ t[k].type \in types
    BY <1>1 DEF At, t
  <2>2. k > Len(q)
    <3> SUFFICES ASSUME k <= Len(q)
                 PROVE  FALSE
      BY <1>1, <2>1
    <3>1. t[k] = q[k] /\ k \in 1..Len(q)
      BY <1>1, <2>1 DEF t
    <3> QED
      BY <2>1, <3>1 DEF At
  <2>3. k - Len(q) \in 1..Len(r) /\ t[k] = r[k - Len(q)] /\ k \in Nat
    BY <1>1, <2>1, <2>2 DEF t
  <2> QED
    BY <2>1, <2>3 DEF At
<1> QED
  BY <1>2 DEF t

\* What restoreState sends: the outstanding writes, rising, before the reads.
LEMMA WritesRestored ==
    ASSUME NEW q \in Seq(ServerMessage), At(q, Requests) = {}
    PROVE  /\ PutsOf(q \o Restored) = OutstandingPuts
           /\ PutsRise(q \o Restored)
           /\ \A k \in At(q \o Restored, {"put"}), l \in At(q \o Restored, {"get"}) : k < l
           /\ \A l \in At(q \o Restored, {"get"}) : Waiting((q \o Restored)[l].index)
<1> DEFINE t == q \o Restored
<1>1. Restored \in Seq(ServerMessage)
  BY RestoredProperties
<1>2. At(q, {"put"}) = {} /\ At(q, {"get"}) = {}
  BY DEF At, Requests
<1>3. /\ \A k \in At(t, {"put"}) : /\ k - Len(q) \in At(Restored, {"put"}) /\ k \in Nat
                                   /\ t[k] = Restored[k - Len(q)]
      /\ \A k \in At(Restored, {"put"}) : k + Len(q) \in At(t, {"put"}) /\ t[k + Len(q)] = Restored[k]
      /\ Len(q) \in Nat
  <2> DEFINE r == Restored
             put == {"put"}
  <2>1. r \in Seq(ServerMessage) /\ At(q, put) = {}
    BY <1>1, <1>2
  <2> HIDE DEF r, put
  <2>2. \A k \in At(q \o r, put) :
             k - Len(q) \in At(r, put) /\ (q \o r)[k] = r[k - Len(q)] /\ k \in Nat
    BY <2>1, PlacesBeyond
  <2>3. ASSUME NEW k \in At(r, put)
        PROVE  k + Len(q) \in At(q \o r, put) /\ (q \o r)[k + Len(q)] = r[k]
    <3> DEFINE s == q \o r
    <3>1. /\ Len(s) = Len(q) + Len(r) /\ Len(q) \in Nat /\ Len(r) \in Nat
          /\ \A l \in 1..Len(q) + Len(r) : s[l] = IF l <= Len(q) THEN q[l] ELSE r[l - Len(q)]
      BY <2>1, ConcatProperties, LenProperties
    <3> HIDE DEF s
    <3>2. k \in 1..Len(r) /\ r[k].type \in put
      BY DEF At
    <3>3. k + Len(q) \in 1..Len(s) /\ s[k + Len(q)] = r[k]
      BY <3>1, <3>2
    <3> QED
      BY <3>2, <3>3 DEF At, s
  <2>4. Len(q) \in Nat
    BY LenProperties
  <2> QED
    BY <2>2, <2>3, <2>4 DEF r, put
<1>4. \A k \in At(t, {"get"}) : /\ k - Len(q) \in At(Restored, {"get"}) /\ k \in Nat
                                /\ t[k] = Restored[k - Len(q)]
  <2> DEFINE r == Restored
             get == {"get"}
  <2>1. r \in Seq(ServerMessage) /\ At(q, get) = {}
    BY <1>1, <1>2
  <2> HIDE DEF r, get
  <2>2. \A k \in At(q \o r, get) :
             k - Len(q) \in At(r, get) /\ (q \o r)[k] = r[k - Len(q)] /\ k \in Nat
    BY <2>1, PlacesBeyond
  <2> QED
    BY <2>2 DEF r, get
<1> HIDE DEF t
<1>5. /\ At(Restored, {"put"}) \subseteq 1..Len(Restored) /\ At(Restored, {"get"}) \subseteq 1..Len(Restored)
      /\ \A k \in At(Restored, {"put"}) : Restored[k].type = "put" /\ Restored[k] \in ServerMessage
      /\ \A k \in At(Restored, {"get"}) : Restored[k].type = "get"
  BY <1>1 DEF At
<1>6. PutsOf(t) = OutstandingPuts
  <2>1. ASSUME NEW k \in At(t, {"put"})
        PROVE  t[k].index \in OutstandingPuts
    <3>1. Outstanding(t[k].index) /\ t[k].index \in Puts
      BY <1>3, <1>5, RestoredProperties, ServerMessageKinds
    <3> QED
      BY <3>1 DEF OutstandingPuts
  <2>2. ASSUME NEW i \in OutstandingPuts
        PROVE  \E k \in At(t, {"put"}) : t[k].index = i
    <3>1. i \in Puts /\ Outstanding(i)
      BY DEF OutstandingPuts
    <3>2. PICK k \in 1..Len(Restored) : Restored[k] = PutRequest(i)
      BY <3>1, RestoredProperties
    <3>3. k \in At(Restored, {"put"}) /\ Restored[k].index = i
      BY <3>2 DEF At, PutRequest
    <3> QED
      BY <1>3, <3>3
  <2> QED
    BY <2>1, <2>2 DEF PutsOf
<1>7. PutsRise(t)
  <2> SUFFICES ASSUME NEW k \in At(t, {"put"}), NEW l \in At(t, {"put"}), k < l
               PROVE  t[k].index < t[l].index
    BY DEF PutsRise
  <2>1. /\ k - Len(q) \in At(Restored, {"put"}) /\ t[k] = Restored[k - Len(q)]
        /\ l - Len(q) \in At(Restored, {"put"}) /\ t[l] = Restored[l - Len(q)]
        /\ k - Len(q) < l - Len(q)
    BY <1>3
  <2> QED
    BY <1>5, <2>1, RestoredProperties
<1>8. ASSUME NEW k \in At(t, {"put"}), NEW l \in At(t, {"get"})
      PROVE  k < l
  <2>1. k - Len(q) < l - Len(q)
    BY <1>3, <1>4, <1>5, RestoredProperties
  <2> QED
    BY <1>3, <1>4, <2>1
<1>9. ASSUME NEW l \in At(t, {"get"})
      PROVE  Waiting(t[l].index)
  BY <1>4, <1>5, RestoredProperties
<1> QED
  BY <1>6, <1>7, <1>8, <1>9 DEF t

\* Of the wire to the client: the answers to writes say what the server said.
AnswersSay(q, said) == \A k \in At(q, {"put"}) : q[k].status = said[q[k].index]

\* The writes on each wire rise, and their answers are those the server gave.
RiseOK == PutsRise(toServer) /\ PutsRise(toClient) /\ AnswersSay(toClient, verdict)

\* Writes are issued, and stop to be outstanding, in their order.
IssuedInOrder ==
    /\ \A i \in Puts : puts[i] = "unissued" <=> i > putCount
    /\ \A i, j \in Puts : Outstanding(i) /\ i < j /\ j <= putCount => Outstanding(j)

\* Those the server took are before those it will take, and all are outstanding.
WireInOrder ==
    /\ \A i \in PutsOf(toClient), j \in PutsOf(toServer) : i < j
    /\ PutsOf(toClient) \subseteq OutstandingPuts /\ PutsOf(toServer) \subseteq OutstandingPuts
    /\ CanSend => OutstandingPuts \subseteq PutsOf(toClient) \cup PutsOf(toServer)

\* What was answered was taken.
TakenBefore ==
    /\ \A i \in PutsOf(toClient) : i <= position
    /\ \A i \in Puts : puts[i] \in {"ok", "refused"} => i <= position

\* The order of the writes.
OrderOK == IssuedInOrder /\ WireInOrder /\ TakenBefore

(***************************************************************************)
(* What a step does to the writes, by the sets of those on the wire.       *)
(***************************************************************************)
writeVars == <<puts, putCount, verdict, position>>

\* The writes are left alone.
StaysSo == /\ UNCHANGED writeVars /\ CanSend' = CanSend
           /\ PutsOf(toServer') = PutsOf(toServer) /\ PutsOf(toClient') = PutsOf(toClient)

\* The connection is lost, with all that was on the wire.
GoesDown == /\ UNCHANGED writeVars /\ ~CanSend'
            /\ PutsOf(toServer') = {} /\ PutsOf(toClient') = {}

\* The connection gets ready and sends what is outstanding.
GetsReady == /\ UNCHANGED writeVars /\ ~CanSend /\ CanSend'
             /\ PutsOf(toServer') = OutstandingPuts /\ PutsOf(toClient') = {}

\* The app writes.
IsIssued == /\ putCount + 1 \in Puts /\ putCount' = putCount + 1
            /\ puts' = [puts EXCEPT ![putCount + 1] = "outstanding"]
            /\ PutsOf(toServer') = IF CanSend THEN PutsOf(toServer) \cup {putCount + 1}
                                   ELSE PutsOf(toServer)
            /\ PutsOf(toClient') = PutsOf(toClient)
            /\ CanSend' = CanSend /\ UNCHANGED <<verdict, position>>

\* The server takes a write and answers it.
IsTaken(m, status) ==
    /\ m \in PutsOf(toServer) /\ \A i \in PutsOf(toServer') : m < i
    /\ PutsOf(toServer') = PutsOf(toServer) \ {m}
    /\ PutsOf(toClient') = PutsOf(toClient) \cup {m}
    /\ verdict' = [verdict EXCEPT ![m] = status] /\ position' = m
    /\ CanSend /\ CanSend' /\ UNCHANGED <<puts, putCount>>

\* The answer to a write is handed to the app.
IsSettled(m) ==
    /\ m \in PutsOf(toClient) /\ \A i \in PutsOf(toClient') : m < i
    /\ PutsOf(toClient') = PutsOf(toClient) \ {m}
    /\ PutsOf(toServer') = PutsOf(toServer)
    /\ verdict[m] \in {"ok", "refused"}
    /\ puts' = [puts EXCEPT ![m] = verdict[m]]
    /\ CanSend /\ CanSend' /\ UNCHANGED <<putCount, verdict, position>>

\* The app is launched anew: what was outstanding is lost.
IsGivenUp == /\ puts' = [i \in Puts |-> IF Outstanding(i) THEN "lost" ELSE puts[i]]
             /\ PutsOf(toServer') = {} /\ PutsOf(toClient') = {} /\ ~CanSend'
             /\ UNCHANGED <<putCount, verdict, position>>

\* One of these.
WriteStep == \/ StaysSo \/ GoesDown \/ GetsReady \/ IsIssued
             \/ \E m \in Puts, status \in {"ok", "refused"} : IsTaken(m, status)
             \/ \E m \in Puts : IsSettled(m)
             \/ IsGivenUp

\* The writes on the wire are writes.
LEMMA PutsAreNumbers ==
    ASSUME RestTyped
    PROVE  /\ PutsOf(toServer) \subseteq Puts /\ PutsOf(toClient) \subseteq Puts
           /\ Puts \subseteq Nat /\ MaxPuts \in Nat
<1>1. toServer \in Seq(ServerMessage) /\ toClient \in Seq(ClientMessage)
  BY DEF RestTyped, WireTyped
<1>2. \A k \in At(toServer, {"put"}) : toServer[k] \in ServerMessage /\ toServer[k].type = "put"
  BY <1>1 DEF At
<1>3. \A k \in At(toClient, {"put"}) : toClient[k] \in ClientMessage /\ toClient[k].type = "put"
  BY <1>1 DEF At
<1>4. PutsOf(toServer) \subseteq Puts
  BY <1>2, ServerMessageKinds DEF PutsOf
<1>5. PutsOf(toClient) \subseteq Puts
  BY <1>3, ClientMessageKinds DEF PutsOf
<1> QED
  BY <1>4, <1>5, RequestsAssumption DEF Puts

\* Nothing on the wire.
LEMMA NothingOnWire ==
    ASSUME NEW q, q = <<>>
    PROVE  PutsOf(q) = {} /\ PutsRise(q) /\ \A said : AnswersSay(q, said)
BY DEF PutsOf, PutsRise, AnswersSay, At

\* Answers to writes as answers are taken, and as others are added.
LEMMA AnswersSayOfTail ==
    ASSUME NEW S, NEW q \in Seq(S), q # <<>>, NEW said, AnswersSay(q, said)
    PROVE  /\ AnswersSay(Tail(q), said)
           /\ Head(q).type = "put" => Head(q).status = said[Head(q).index]
<1>1. /\ \A k \in At(Tail(q), {"put"}) : k + 1 \in At(q, {"put"}) /\ Tail(q)[k] = q[k + 1]
      /\ 1 \in At(q, {"put"}) <=> Head(q).type = "put"
  BY PlacesOfTail
<1>2. Head(q) = q[1]
  BY FirstTaken
<1> QED
  BY <1>1, <1>2 DEF AnswersSay

\* A message that is not of a write leaves what the answers say right.
LEMMA AnswersSayOfOther ==
    ASSUME NEW S, NEW q \in Seq(S), NEW m \in S, m.type # "put", NEW said, AnswersSay(q, said)
    PROVE  AnswersSay(Append(q, m), said)
<1>1. At(Append(q, m), {"put"}) = At(q, {"put"})
  BY OtherAdded
<1>2. (\A k \in 1..Len(q) : Append(q, m)[k] = q[k]) /\ At(q, {"put"}) \subseteq 1..Len(q)
  BY LastAdded DEF At
<1> QED
  BY <1>1, <1>2 DEF AnswersSay

\* A connection that is down or not ready has no writes on the wire.
LEMMA NotReadyNoWrites ==
    ASSUME ReadyOK, ~CanSend
    PROVE  PutsOf(toServer) = {} /\ PutsOf(toClient) = {}
<1>1. At(toServer, {"put"}) = {} /\ At(toClient, {"put"}) = {}
  BY DEF ReadyOK, At, Requests
<1> QED
  BY <1>1 DEF PutsOf

\* The steps of the link: the writes stay as they are, or lose the wire.
LEMMA LinkStepOnWrites ==
    ASSUME IInv, IInv', RestTyped, ReadyOK, RiseOK, LinkStep
    PROVE  (StaysSo \/ GoesDown) /\ RiseOK'
<1>1. toServer \in Seq(ServerMessage) /\ toClient \in Seq(ClientMessage)
  BY DEF RestTyped, WireTyped
<1>2. UNCHANGED writeVars
  BY DEF LinkStep, requestVars, writeVars
<1>3. \/ ~IsConnected'
      \/ /\ connectionState' = connectionState
         /\ \/ toServer' = toServer /\ toClient' = toClient
            \/ RefreshAuthToken
            \/ ServerAuth
  BY LinkStepOnTheWire
<1>4. CASE ~IsConnected'
  <2>1. toServer' = <<>> /\ toClient' = <<>>
    BY <1>4, ReadyOfNone
  <2>2. ~CanSend'
    BY <1>4 DEF IsConnected, CanSend
  <2> QED
    BY <1>2, <2>1, <2>2, NothingOnWire DEF GoesDown, RiseOK
<1>5. CASE connectionState' = connectionState /\ toServer' = toServer /\ toClient' = toClient
  BY <1>2, <1>5 DEF StaysSo, RiseOK, CanSend, writeVars
<1>6. CASE RefreshAuthToken
  <2>1. /\ UNCHANGED <<connectionState, toClient>>
        /\ \/ toServer' = toServer
           \/ \E m \in ServerMessage : m.type \in WordTypes /\ toServer' = Append(toServer, m)
    BY <1>6, RefreshAuthTokenPreservesReady
  <2>2. PutsOf(toServer') = PutsOf(toServer) /\ (PutsRise(toServer) => PutsRise(toServer'))
    <3>1. CASE toServer' = toServer
      BY <3>1
    <3>2. ASSUME NEW m \in ServerMessage, m.type \in WordTypes, toServer' = Append(toServer, m)
          PROVE  PutsOf(toServer') = PutsOf(toServer) /\ (PutsRise(toServer) => PutsRise(toServer'))
      BY <1>1, <3>2, OtherAdded DEF WordTypes
    <3> QED
      BY <2>1, <3>1, <3>2
  <2> QED
    BY <1>2, <2>1, <2>2 DEF StaysSo, RiseOK, CanSend, writeVars
<1>7. CASE ServerAuth
  <2> DEFINE m == Head(toServer)
  <2>1. /\ toServer # <<>> /\ m.type # "put" /\ toServer' = Tail(toServer)
        /\ connectionState' = connectionState
        /\ \/ toClient' = toClient
           \/ m.type = "auth" /\ \E ok \in BOOLEAN : toClient' = Append(toClient, AuthAnswer(ok, m))
    BY <1>7 DEF ServerAuth, clientVars
  <2>2. m \in ServerMessage
    BY <1>1, <2>1, FirstTaken
  <2>3. PutsOf(toServer') = PutsOf(toServer) /\ (PutsRise(toServer) => PutsRise(toServer'))
    BY <1>1, <2>1, OtherTaken
  <2> HIDE DEF m
  <2>4. ASSUME NEW a \in ClientMessage, a.type # "put", toClient' = Append(toClient, a)
        PROVE  /\ PutsOf(toClient') = PutsOf(toClient) /\ (PutsRise(toClient) => PutsRise(toClient'))
               /\ AnswersSay(toClient, verdict) => AnswersSay(toClient', verdict)
    BY <1>1, <2>4, OtherAdded, AnswersSayOfOther
  <2>5. /\ PutsOf(toClient') = PutsOf(toClient) /\ (PutsRise(toClient) => PutsRise(toClient'))
        /\ AnswersSay(toClient, verdict) => AnswersSay(toClient', verdict)
    <3>1. CASE toClient' = toClient
      BY <3>1
    <3>2. CASE m.type = "auth" /\ \E ok \in BOOLEAN : toClient' = Append(toClient, AuthAnswer(ok, m))
      <4>1. PICK ok \in BOOLEAN : toClient' = Append(toClient, AuthAnswer(ok, m))
        BY <3>2
      <4>2. AuthAnswer(ok, m) \in ClientMessage /\ AuthAnswer(ok, m).type # "put"
        BY <2>2, <3>2, MessagesAre
      <4> QED
        BY <2>4, <4>1, <4>2
    <3> QED
      BY <2>1, <3>1, <3>2
  <2>6. verdict' = verdict
    BY <1>2 DEF writeVars
  <2> QED
    BY <1>2, <2>1, <2>3, <2>5, <2>6 DEF StaysSo, RiseOK, CanSend
<1> QED
  BY <1>3, <1>4, <1>5, <1>6, <1>7

\* A connection that gets ready has the outstanding writes on the wire.
LEMMA OnReadyOnWrites ==
    ASSUME IInv, RestTyped, ReadyOK, RiseOK, OnReady
    PROVE  (StaysSo \/ GetsReady) /\ RiseOK'
<1>1. toServer \in Seq(ServerMessage) /\ authToken \in Token
  BY DEF RestTyped, WireTyped, TokensTyped
<1>2. /\ realtime = "connecting" /\ toClient' = toClient
      /\ IF authToken = NoToken
         THEN connectionState' = "Connected" /\ toServer' = toServer \o Restored
         ELSE /\ connectionState' = "Authenticating"
              /\ toServer' = Append(toServer, AuthRequest(authToken, TRUE))
      /\ UNCHANGED writeVars
  BY DEF OnReady, Hello, writeVars
<1>3. toServer = <<>> /\ toClient = <<>> /\ ~CanSend
  BY <1>2 DEF IInv, StateOK, WireNeedsConnection, AssertionsHold, CanSend
<1>4. /\ PutsOf(toServer) = {} /\ PutsOf(toClient') = {}
      /\ PutsRise(toClient') /\ AnswersSay(toClient', verdict')
  BY <1>2, <1>3, NothingOnWire
<1>5. CASE authToken = NoToken
  <2>1. At(toServer, Requests) = {}
    BY <1>3 DEF ReadyOK
  <2>2. PutsOf(toServer') = OutstandingPuts /\ PutsRise(toServer')
    BY <1>1, <1>2, <1>5, <2>1, WritesRestored
  <2>3. CanSend'
    BY <1>2, <1>5 DEF CanSend
  <2> QED
    BY <1>2, <1>3, <1>4, <2>2, <2>3 DEF GetsReady, RiseOK
<1>6. CASE authToken # NoToken
  <2> DEFINE m == AuthRequest(authToken, TRUE)
  <2>1. m \in ServerMessage /\ m.type # "put"
    BY <1>1 DEF AuthRequest, ServerMessage
  <2>2. toServer' = Append(toServer, m)
    BY <1>2, <1>6
  <2> HIDE DEF m
  <2>3. PutsOf(toServer') = PutsOf(toServer) /\ PutsRise(toServer')
    BY <1>1, <2>1, <2>2, OtherAdded DEF RiseOK
  <2>4. CanSend' = CanSend
    <3>1. ~CanSend'
      BY <1>2, <1>6 DEF CanSend
    <3> QED
      BY <1>3, <3>1 DEF CanSend
  <2>5. PutsOf(toClient) = {}
    BY <1>3, NothingOnWire
  <2> QED
    BY <1>2, <1>4, <2>3, <2>4, <2>5 DEF StaysSo, RiseOK
<1> QED
  BY <1>5, <1>6

\* So has one whose token was accepted the first time.
LEMMA OnAuthAnswerOnWrites ==
    ASSUME IInv, IInv', RestTyped, ReadyOK, RiseOK, OnAuthAnswer
    PROVE  (StaysSo \/ GoesDown \/ GetsReady) /\ RiseOK'
<1>1. toServer \in Seq(ServerMessage) /\ toClient \in Seq(ClientMessage)
  BY DEF RestTyped, WireTyped
<1>2. toClient # <<>> /\ Head(toClient).type = "auth" /\ UNCHANGED writeVars
  BY DEF OnAuthAnswer, AuthAnswered, writeVars
<1>3. CASE ~Head(toClient).ok
  <2>1. ~IsConnected'
    BY <1>3, OnAuthAnswerPreservesReady
  <2>2. toServer' = <<>> /\ toClient' = <<>>
    BY <2>1, ReadyOfNone
  <2>3. ~CanSend'
    BY <2>1 DEF IsConnected, CanSend
  <2> QED
    BY <1>2, <2>2, <2>3, NothingOnWire DEF GoesDown, RiseOK
<1>4. CASE Head(toClient).ok
  <2>1. /\ CanSend' /\ toClient' = Tail(toClient)
        /\ IF connectionState = "Authenticating" THEN toServer' = toServer \o Restored
           ELSE CanSend /\ toServer' = toServer
    BY <1>4, OnAuthAnswerPreservesReady
  <2>2. /\ PutsOf(toClient') = PutsOf(toClient) /\ PutsRise(toClient')
        /\ AnswersSay(toClient', verdict')
    <3>1. PutsOf(toClient') = PutsOf(toClient) /\ PutsRise(toClient')
      BY <1>1, <1>2, <2>1, OtherTaken DEF RiseOK
    <3>2. AnswersSay(toClient', verdict)
      BY <1>1, <1>2, <2>1, AnswersSayOfTail DEF RiseOK
    <3> QED
      BY <1>2, <3>1, <3>2 DEF writeVars
  <2>3. CASE connectionState = "Authenticating"
    <3>1. ~CanSend
      BY <2>3 DEF CanSend
    <3>2. At(toServer, Requests) = {} /\ PutsOf(toClient) = {}
      BY <3>1, NotReadyNoWrites DEF ReadyOK
    <3>3. PutsOf(toServer') = OutstandingPuts /\ PutsRise(toServer')
      BY <1>1, <2>1, <2>3, <3>2, WritesRestored
    <3> QED
      BY <1>2, <2>1, <2>2, <3>1, <3>2, <3>3 DEF GetsReady, RiseOK
  <2>4. CASE connectionState # "Authenticating"
    <3>1. CanSend' = CanSend
      BY <2>1, <2>4 DEF CanSend
    <3> QED
      BY <1>2, <2>1, <2>2, <2>4, <3>1 DEF StaysSo, RiseOK
  <2> QED
    BY <2>3, <2>4
<1> QED
  BY <1>3, <1>4

\* The writes that are outstanding were issued.
LEMMA OutstandingWereIssued ==
    ASSUME RestTyped, IssuedInOrder
    PROVE  \A i \in OutstandingPuts : i \in Nat /\ i <= putCount /\ putCount \in Nat
<1>1. putCount \in Nat /\ Puts \subseteq Nat
  BY PutsAreNumbers, RequestsAssumption DEF RestTyped, RequestsTyped
<1> QED
  BY <1>1 DEF OutstandingPuts, Outstanding, IssuedInOrder

\* A write is issued, and sent if the connection is ready: the newest.
LEMMA PutOnWrites ==
    ASSUME RestTyped, RiseOK, OrderOK, Put
    PROVE  IsIssued /\ RiseOK'
<1> DEFINE i == putCount + 1
<1>1. toServer \in Seq(ServerMessage)
  BY DEF RestTyped, WireTyped
<1>2. /\ i \in Puts /\ putCount' = i /\ puts' = [puts EXCEPT ![i] = "outstanding"]
      /\ toServer' = IF CanSend THEN Append(toServer, PutRequest(i)) ELSE toServer
      /\ UNCHANGED <<toClient, verdict, position, connectionState>>
  BY DEF Put, clientVars
<1>3. /\ PutRequest(i) \in ServerMessage
      /\ PutRequest(i).type = "put" /\ PutRequest(i).index = i
  BY <1>2 DEF PutRequest, ServerMessage
<1>4. \A j \in PutsOf(toServer) : j < i
  <2>1. \A j \in PutsOf(toServer) : j \in Nat /\ j <= putCount /\ putCount \in Nat
    BY OutstandingWereIssued DEF OrderOK, WireInOrder
  <2> QED
    BY <2>1
<1> DEFINE m == PutRequest(i)
<1> HIDE DEF m
<1>5. CanSend => PutsOf(toServer') = PutsOf(toServer) \cup {i} /\ PutsRise(toServer')
  <2>1. m \in ServerMessage /\ m.type = "put" /\ m.index = i
    BY <1>3 DEF m
  <2> HIDE DEF i
  <2>2. PutsRise(toServer) /\ \A j \in PutsOf(toServer) : j < m.index
    BY <1>4, <2>1 DEF RiseOK
  <2>3. PutsOf(Append(toServer, m)) = PutsOf(toServer) \cup {m.index} /\ PutsRise(Append(toServer, m))
    BY <1>1, <2>1, <2>2, WriteAdded
  <2> QED
    BY <1>2, <2>1, <2>3 DEF m
<1> QED
  BY <1>2, <1>5 DEF IsIssued, RiseOK, CanSend

\* The server takes the oldest write on the wire, and says so.
LEMMA ServerPutOnWrites ==
    ASSUME RestTyped, ReadyOK, RiseOK, OrderOK, ServerPut
    PROVE  /\ \E m \in Puts, status \in {"ok", "refused"} : IsTaken(m, status)
           /\ RiseOK'
<1> DEFINE m == Head(toServer)
<1>1. toServer \in Seq(ServerMessage) /\ toClient \in Seq(ClientMessage) /\ verdict \in [Puts -> Verdict]
  BY DEF RestTyped, WireTyped, RequestsTyped
<1>2. PICK status \in {"ok", "refused"} :
      /\ toServer # <<>> /\ m.type = "put" /\ toServer' = Tail(toServer)
      /\ verdict' = [verdict EXCEPT ![m.index] = status]
      /\ toClient' = Append(toClient, PutAnswer(m.index, status))
      /\ position' = m.index
      /\ UNCHANGED <<connectionState, puts, putCount>>
  BY DEF ServerPut, clientVars
<1>3. m \in ServerMessage /\ m.index \in Puts
  <2>1. m \in ServerMessage
    BY <1>1, <1>2, FirstTaken
  <2> QED
    BY <1>2, <2>1, ServerMessageKinds
<1>4. PutsOf(toServer) \subseteq Nat /\ PutsRise(toServer)
  BY PutsAreNumbers DEF RiseOK
<1>5. /\ m.index \in PutsOf(toServer)
      /\ \A i \in PutsOf(toServer') : m.index < i
      /\ PutsOf(toServer') = PutsOf(toServer) \ {m.index}
      /\ PutsRise(toServer')
  BY <1>1, <1>2, <1>4, WriteTaken
<1> DEFINE a == PutAnswer(m.index, status)
<1>6. a \in ClientMessage /\ a.type = "put" /\ a.index = m.index /\ a.status = status
  BY <1>3, MessagesAre
<1>7. CanSend
  <2>1. PutsOf(toServer) # {}
    BY <1>5
  <2> QED
    BY <2>1, NotReadyNoWrites
<1>8. \A i \in PutsOf(toClient) : i < m.index
  BY <1>5 DEF OrderOK, WireInOrder
<1>9. toClient' = Append(toClient, a)
  BY <1>2
<1> HIDE DEF m, a
<1>10. PutsOf(toClient') = PutsOf(toClient) \cup {m.index} /\ PutsRise(toClient')
  <2>1. PutsOf(Append(toClient, a)) = PutsOf(toClient) \cup {a.index} /\ PutsRise(Append(toClient, a))
    BY <1>1, <1>6, <1>8, WriteAdded DEF RiseOK
  <2> QED
    BY <1>6, <1>9, <2>1
<1>11. AnswersSay(toClient', verdict')
  <2> SUFFICES ASSUME NEW k \in At(toClient', {"put"})
               PROVE  toClient'[k].status = verdict'[toClient'[k].index]
    BY DEF AnswersSay
  <2>1. /\ At(toClient', {"put"}) \subseteq 1..Len(toClient')
        /\ \A l \in 1..Len(toClient') : l \in 1..Len(toClient) \/ l = Len(toClient) + 1
        /\ \A l \in 1..Len(toClient) : toClient'[l] = toClient[l]
        /\ toClient'[Len(toClient) + 1] = a
    BY <1>1, <1>6, <1>9, LastAdded DEF At
  <2>2. CASE k = Len(toClient) + 1
    BY <1>1, <1>2, <1>3, <1>6, <2>1, <2>2
  <2>3. CASE k \in 1..Len(toClient)
    <3>1. toClient'[k] = toClient[k] /\ k \in At(toClient, {"put"})
      BY <2>1, <2>3 DEF At
    <3>2. toClient[k].status = verdict[toClient[k].index] /\ toClient[k].index \in PutsOf(toClient)
      BY <3>1 DEF RiseOK, AnswersSay, PutsOf
    <3>3. toClient[k].index # m.index /\ toClient[k].index \in Puts
      <4>1. toClient[k].index < m.index /\ m.index \in Nat
        BY <1>3, <1>8, <3>2, PutsAreNumbers
      <4> QED
        BY <3>2, <4>1, PutsAreNumbers
    <3> QED
      BY <1>1, <1>2, <3>1, <3>2, <3>3
  <2> QED
    BY <2>1, <2>2, <2>3
<1>12. IsTaken(m.index, status)
  BY <1>2, <1>5, <1>7, <1>10 DEF IsTaken, CanSend
<1> QED
  BY <1>3, <1>5, <1>10, <1>11, <1>12 DEF RiseOK

\* The oldest answer to a write settles it.
LEMMA PutAnsweredOnWrites ==
    ASSUME RestTyped, ReadyOK, RiseOK, OrderOK, PutAnswered
    PROVE  (\E m \in Puts : IsSettled(m)) /\ RiseOK'
<1> DEFINE m == Head(toClient)
<1>1. toServer \in Seq(ServerMessage) /\ toClient \in Seq(ClientMessage)
  BY DEF RestTyped, WireTyped
<1>2. /\ toClient # <<>> /\ m.type = "put" /\ toClient' = Tail(toClient)
      /\ puts' = IF Outstanding(m.index) THEN [puts EXCEPT ![m.index] = m.status] ELSE puts
      /\ UNCHANGED <<connectionState, toServer, putCount, verdict, position>>
  BY DEF PutAnswered, clientVars
<1>3. m \in ClientMessage /\ m.index \in Puts /\ m.status \in {"ok", "refused"}
  <2>1. m \in ClientMessage
    BY <1>1, <1>2, FirstTaken
  <2> QED
    BY <1>2, <2>1, ClientMessageKinds
<1>4. PutsOf(toClient) \subseteq Nat /\ PutsRise(toClient)
  BY PutsAreNumbers DEF RiseOK
<1>5. /\ m.index \in PutsOf(toClient)
      /\ \A i \in PutsOf(toClient') : m.index < i
      /\ PutsOf(toClient') = PutsOf(toClient) \ {m.index}
      /\ PutsRise(toClient')
  BY <1>1, <1>2, <1>4, WriteTaken
<1>6. AnswersSay(toClient', verdict) /\ m.status = verdict[m.index]
  BY <1>1, <1>2, AnswersSayOfTail DEF RiseOK
<1>7. CanSend
  <2>1. PutsOf(toClient) # {}
    BY <1>5
  <2> QED
    BY <2>1, NotReadyNoWrites
<1>8. Outstanding(m.index)
  BY <1>5 DEF OrderOK, WireInOrder, OutstandingPuts
<1> HIDE DEF m
<1>9. IsSettled(m.index)
  BY <1>2, <1>3, <1>5, <1>6, <1>7, <1>8 DEF IsSettled, CanSend
<1>10. RiseOK'
  BY <1>2, <1>5, <1>6 DEF RiseOK
<1> QED
  BY <1>3, <1>9, <1>10

\* What the reads do is nothing to the writes.
LEMMA ReadsOnWrites ==
    ASSUME RestTyped, RiseOK, GetData \/ GetTimesOut \/ GetAnswered \/ ServerGet
    PROVE  StaysSo /\ RiseOK'
<1>1. toServer \in Seq(ServerMessage) /\ toClient \in Seq(ClientMessage) /\ RequestsTyped
  BY DEF RestTyped, WireTyped
<1>2. UNCHANGED writeVars /\ connectionState' = connectionState
  BY DEF GetData, GetTimesOut, GetAnswered, ServerGet, writeVars, requestVars, linkVars, clientVars
<1>3. CASE GetData
  <2> DEFINE g == getCount + 1
  <2>1. /\ g \in Gets /\ toClient' = toClient
        /\ toServer' = Append(toServer, GetRequest(g)) \/ toServer' = toServer
    BY <1>3 DEF GetData
  <2>2. GetRequest(g) \in ServerMessage /\ GetRequest(g).type # "put"
    BY <2>1 DEF GetRequest, ServerMessage
  <2> DEFINE m == GetRequest(g)
  <2> HIDE DEF g, m
  <2>3. PutsOf(Append(toServer, m)) = PutsOf(toServer) /\ PutsRise(Append(toServer, m))
    BY <1>1, <2>2, OtherAdded DEF RiseOK, m
  <2>4. PutsOf(toServer') = PutsOf(toServer) /\ PutsRise(toServer')
    BY <2>1, <2>3 DEF RiseOK, m
  <2> QED
    BY <1>2, <2>1, <2>4 DEF StaysSo, RiseOK, CanSend, writeVars
<1>4. CASE GetTimesOut
  <2>1. UNCHANGED <<toServer, toClient>>
    BY <1>4 DEF GetTimesOut, linkVars, wireVars
  <2> QED
    BY <1>2, <2>1 DEF StaysSo, RiseOK, CanSend, writeVars
<1>5. CASE GetAnswered
  <2>1. /\ toClient # <<>> /\ Head(toClient).type # "put" /\ toClient' = Tail(toClient)
        /\ toServer' = toServer
    BY <1>5 DEF GetAnswered
  <2>2. PutsOf(toClient') = PutsOf(toClient) /\ PutsRise(toClient')
    BY <1>1, <2>1, OtherTaken DEF RiseOK
  <2>3. AnswersSay(toClient', verdict)
    BY <1>1, <2>1, AnswersSayOfTail DEF RiseOK
  <2> QED
    BY <1>2, <2>1, <2>2, <2>3 DEF StaysSo, RiseOK, CanSend, writeVars
<1>6. CASE ServerGet
  <2> DEFINE m == Head(toServer)
  <2>1. /\ toServer # <<>> /\ m.type = "get" /\ toServer' = Tail(toServer)
        /\ \E status \in {"ok", "refused"} : toClient' = Append(toClient, GetAnswer(m.index, status))
    BY <1>6 DEF ServerGet
  <2>2. m.index \in Gets
    BY <1>1, <2>1, FirstTaken, ServerMessageKinds
  <2>3. PutsOf(toServer') = PutsOf(toServer) /\ PutsRise(toServer')
    BY <1>1, <2>1, OtherTaken DEF RiseOK
  <2>4. PICK status \in {"ok", "refused"} : toClient' = Append(toClient, GetAnswer(m.index, status))
    BY <2>1
  <2> DEFINE a == GetAnswer(m.index, status)
  <2>5. a \in ClientMessage /\ a.type # "put"
    BY <1>1, <2>2, MessagesAre DEF RequestsTyped
  <2>6. toClient' = Append(toClient, a)
    BY <2>4
  <2> HIDE DEF m, a
  <2>7. PutsOf(toClient') = PutsOf(toClient) /\ PutsRise(toClient')
    BY <1>1, <2>5, <2>6, OtherAdded DEF RiseOK
  <2>8. AnswersSay(toClient', verdict)
    BY <1>1, <2>5, <2>6, AnswersSayOfOther DEF RiseOK
  <2> QED
    BY <1>2, <2>3, <2>7, <2>8 DEF StaysSo, RiseOK, CanSend, writeVars
<1> QED
  BY <1>3, <1>4, <1>5, <1>6

\* Every step is one of the steps of the writes, and keeps them rising.
LEMMA NextOnWrites ==
    ASSUME IInv, IInv', RestTyped, ReadyOK, RiseOK, OrderOK, [Next]_vars
    PROVE  WriteStep /\ RiseOK'
<1>1. CASE LinkStep
  BY <1>1, LinkStepOnWrites DEF WriteStep
<1>2. CASE OnReady
  BY <1>2, OnReadyOnWrites DEF WriteStep
<1>3. CASE OnAuthAnswer
  BY <1>3, OnAuthAnswerOnWrites DEF WriteStep
<1>4. CASE Put
  BY <1>4, PutOnWrites DEF WriteStep
<1>5. CASE GetData \/ GetTimesOut \/ GetAnswered \/ ServerGet
  BY <1>5, ReadsOnWrites DEF WriteStep
<1>6. CASE PutAnswered
  BY <1>6, PutAnsweredOnWrites DEF WriteStep
<1>7. CASE ServerPut
  BY <1>7, ServerPutOnWrites DEF WriteStep
<1>8. CASE Relaunch
  <2>1. /\ toServer' = <<>> /\ toClient' = <<>> /\ connectionState' = "Disconnected"
        /\ puts' = [i \in Puts |-> IF Outstanding(i) THEN "lost" ELSE puts[i]]
        /\ UNCHANGED <<putCount, verdict, position>>
    BY <1>8 DEF Relaunch, LinkRelaunch
  <2>2. IsGivenUp /\ RiseOK'
    BY <2>1, NothingOnWire DEF IsGivenUp, RiseOK, CanSend
  <2> QED
    BY <2>2 DEF WriteStep
<1>9. CASE UNCHANGED vars
  <2>1. UNCHANGED <<connectionState, toServer, toClient>> /\ UNCHANGED writeVars
    BY <1>9 DEF vars, linkVars, clientVars, wireVars, requestVars, writeVars
  <2>2. StaysSo /\ RiseOK'
    BY <2>1 DEF StaysSo, RiseOK, CanSend, writeVars
  <2> QED
    BY <2>2 DEF WriteStep
<1> QED
  BY <1>1, <1>2, <1>3, <1>4, <1>5, <1>6, <1>7, <1>8, <1>9 DEF Next

\* The numbers that the order of the writes is stated with.
LEMMA OrderedAreNumbers ==
    ASSUME RestTyped, OrderOK
    PROVE  /\ Puts = 1..MaxPuts /\ MaxPuts \in Nat
           /\ puts \in [Puts -> PutStatus] /\ verdict \in [Puts -> Verdict]
           /\ putCount \in Nat /\ putCount <= MaxPuts /\ position \in Nat
           /\ OutstandingPuts \subseteq Puts /\ \A i \in OutstandingPuts : i <= putCount
           /\ PutsOf(toServer) \subseteq OutstandingPuts /\ PutsOf(toClient) \subseteq OutstandingPuts
<1>1. RequestsTyped /\ WireInOrder
  BY DEF RestTyped, OrderOK
<1>2. Puts = 1..MaxPuts /\ MaxPuts \in Nat
  BY RequestsAssumption DEF Puts
<1>3. putCount \in Nat /\ putCount <= MaxPuts /\ position \in Nat
  BY <1>1, <1>2 DEF RequestsTyped
<1>4. \A i \in OutstandingPuts : i <= putCount
  BY OutstandingWereIssued DEF OrderOK
<1> QED
  BY <1>1, <1>2, <1>3, <1>4 DEF RequestsTyped, OutstandingPuts, WireInOrder

\* A write that is outstanding is newer than those that were settled.
LEMMA OutstandingAreNewer ==
    ASSUME RestTyped, OrderOK, NEW m \in OutstandingPuts,
           NEW i \in Puts, puts[i] \in {"ok", "refused"}
    PROVE  i < m
<1>1. /\ i \in Nat /\ m \in Nat /\ m \in Puts /\ Outstanding(m) /\ ~Outstanding(i)
      /\ puts[i] # "unissued"
  BY OrderedAreNumbers DEF OutstandingPuts, Outstanding
<1>2. i <= putCount /\ putCount \in Nat
  BY <1>1, OrderedAreNumbers DEF OrderOK, IssuedInOrder
<1>3. ~(m < i)
  BY <1>1, <1>2 DEF OrderOK, IssuedInOrder
<1>4. m # i
  BY <1>1
<1> QED
  BY <1>1, <1>3, <1>4

\* A new write is the newest.
LEMMA IssuedKeepsOrder ==
    ASSUME RestTyped, ReadyOK, OrderOK, IsIssued
    PROVE  OrderOK'
<1> DEFINE n == putCount + 1
<1>1. /\ n \in Puts /\ putCount' = n /\ puts' = [puts EXCEPT ![n] = "outstanding"]
      /\ UNCHANGED <<verdict, position>> /\ CanSend' = CanSend
      /\ PutsOf(toServer') = IF CanSend THEN PutsOf(toServer) \cup {n} ELSE PutsOf(toServer)
      /\ PutsOf(toClient') = PutsOf(toClient)
  BY DEF IsIssued
<1>2. /\ Puts \subseteq Nat /\ puts \in [Puts -> PutStatus] /\ putCount \in Nat
      /\ \A i \in OutstandingPuts : i <= putCount
      /\ PutsOf(toServer) \subseteq OutstandingPuts /\ PutsOf(toClient) \subseteq OutstandingPuts
  BY OrderedAreNumbers
<1>3. n \in Nat /\ \A i \in Puts : i <= n <=> i <= putCount \/ i = n
  BY <1>2
<1>4. /\ \A i \in Puts : puts'[i] = IF i = n THEN "outstanding" ELSE puts[i]
      /\ puts[n] = "unissued"
  <2>1. n > putCount
    BY <1>2
  <2> QED
    BY <1>1, <1>2, <2>1 DEF OrderOK, IssuedInOrder
<1>5. OutstandingPuts' = OutstandingPuts \cup {n}
  BY <1>1, <1>4 DEF OutstandingPuts, Outstanding
<1>6. \A i \in Puts : i > n <=> i > putCount /\ i # n
  BY <1>2
<1> HIDE DEF n
<1>7. IssuedInOrder'
  <2>1. ASSUME NEW i \in Puts
        PROVE  puts'[i] = "unissued" <=> i > putCount'
    <3>1. CASE i = n
      BY <1>1, <1>4, <1>6, <3>1
    <3>2. CASE i # n
      BY <1>1, <1>4, <1>6, <3>2 DEF OrderOK, IssuedInOrder
    <3> QED
      BY <3>1, <3>2
  <2>2. ASSUME NEW i \in Puts, NEW j \in Puts, Outstanding(i)', i < j, j <= putCount'
        PROVE  Outstanding(j)'
    <3>1. CASE j = n
      BY <1>4, <3>1 DEF Outstanding
    <3>2. CASE j # n
      <4>1. j <= putCount /\ j <= n
        BY <1>1, <1>3, <2>2, <3>2
      <4>2. i # n
        BY <1>2, <1>3, <2>2, <4>1
      <4>3. puts[i] = "outstanding"
        BY <1>4, <2>2, <4>2 DEF Outstanding
      <4> QED
        BY <1>4, <2>2, <3>2, <4>1, <4>3 DEF OrderOK, IssuedInOrder, Outstanding
    <3> QED
      BY <3>1, <3>2
  <2> QED
    BY <2>1, <2>2 DEF IssuedInOrder
<1>8. WireInOrder'
  <2>1. \A i \in PutsOf(toClient) : i < n
    BY <1>2, <1>3, OrderedAreNumbers DEF n
  <2> QED
    BY <1>1, <1>5, <2>1 DEF OrderOK, WireInOrder
<1>9. TakenBefore'
  BY <1>1, <1>4 DEF OrderOK, TakenBefore
<1> QED
  BY <1>7, <1>8, <1>9 DEF OrderOK

\* The server takes the oldest.
LEMMA TakenKeepsOrder ==
    ASSUME RestTyped, OrderOK, NEW m \in Puts, NEW status, IsTaken(m, status)
    PROVE  OrderOK'
<1>1. /\ m \in PutsOf(toServer) /\ \A i \in PutsOf(toServer') : m < i
      /\ PutsOf(toServer') = PutsOf(toServer) \ {m}
      /\ PutsOf(toClient') = PutsOf(toClient) \cup {m}
      /\ position' = m /\ CanSend /\ CanSend' /\ UNCHANGED <<puts, putCount>>
  BY DEF IsTaken
<1>2. /\ m \in Nat /\ OutstandingPuts \subseteq Nat
      /\ PutsOf(toServer) \subseteq OutstandingPuts /\ PutsOf(toClient) \subseteq OutstandingPuts
  BY OrderedAreNumbers
<1>3. OutstandingPuts' = OutstandingPuts /\ IssuedInOrder'
  BY <1>1 DEF OrderOK, IssuedInOrder, OutstandingPuts, Outstanding
<1>4. WireInOrder'
  BY <1>1, <1>3 DEF OrderOK, WireInOrder
<1>5. \A i \in PutsOf(toClient') : i <= position'
  <2>1. \A i \in PutsOf(toClient) : i < m /\ i \in Nat
    BY <1>1, <1>2 DEF OrderOK, WireInOrder
  <2> QED
    BY <1>1, <1>2, <2>1
<1>6. ASSUME NEW i \in Puts, puts'[i] \in {"ok", "refused"}
      PROVE  i <= position'
  <2>1. i < m /\ i \in Nat
    BY <1>1, <1>2, <1>6, OutstandingAreNewer, OrderedAreNumbers
  <2> QED
    BY <1>1, <1>2, <2>1
<1> QED
  BY <1>3, <1>4, <1>5, <1>6 DEF OrderOK, TakenBefore

\* The oldest is settled.
LEMMA OldestIsSettled ==
    ASSUME RestTyped, OrderOK, NEW m \in Puts, IsSettled(m)
    PROVE  m \in OutstandingPuts /\ \A i \in OutstandingPuts : i = m \/ m < i
<1>1. m \in OutstandingPuts
  BY DEF OrderOK, WireInOrder, IsSettled
<1>2. ASSUME NEW i \in OutstandingPuts, i # m
      PROVE  m < i
  <2>1. i \in PutsOf(toServer) \/ i \in PutsOf(toClient')
    BY <1>2 DEF OrderOK, WireInOrder, IsSettled
  <2> QED
    BY <2>1 DEF OrderOK, WireInOrder, IsSettled
<1> QED
  BY <1>1, <1>2

\* An answer that is handed to the app is of the first outstanding write.
LEMMA SettledKeepsOrder ==
    ASSUME RestTyped, OrderOK, NEW m \in Puts, IsSettled(m)
    PROVE  OrderOK'
<1>1. /\ m \in PutsOf(toClient) /\ PutsOf(toClient') = PutsOf(toClient) \ {m}
      /\ PutsOf(toServer') = PutsOf(toServer)
      /\ verdict[m] \in {"ok", "refused"} /\ puts' = [puts EXCEPT ![m] = verdict[m]]
      /\ CanSend /\ CanSend' /\ UNCHANGED <<putCount, position>>
  BY DEF IsSettled
<1>2. m \in OutstandingPuts /\ \A i \in OutstandingPuts : i = m \/ m < i
  BY OldestIsSettled
<1>3. \A i \in Puts : puts'[i] = IF i = m THEN verdict[m] ELSE puts[i]
  BY <1>1, OrderedAreNumbers
<1>4. OutstandingPuts' = OutstandingPuts \ {m}
  BY <1>1, <1>3 DEF OutstandingPuts, Outstanding
<1>5. puts[m] = "outstanding" /\ m \in Nat /\ Puts \subseteq Nat
  BY <1>2, OrderedAreNumbers DEF OutstandingPuts, Outstanding
<1>6. IssuedInOrder'
  <2>1. \A i \in Puts : puts'[i] = "unissued" <=> i > putCount'
    BY <1>1, <1>3, <1>5 DEF OrderOK, IssuedInOrder
  <2>2. ASSUME NEW i \in Puts, NEW j \in Puts, Outstanding(i)', i < j, j <= putCount'
        PROVE  Outstanding(j)'
    <3>1. i \in OutstandingPuts /\ i # m
      BY <1>1, <1>3, <2>2 DEF OutstandingPuts, Outstanding
    <3>2. m < i
      BY <1>2, <3>1
    <3>3. j # m
      BY <1>5, <2>2, <3>2
    <3>4. puts[j] = "outstanding"
      BY <1>1, <2>2, <3>1 DEF OutstandingPuts, Outstanding, OrderOK, IssuedInOrder
    <3> QED
      BY <1>3, <3>3, <3>4 DEF Outstanding
  <2> QED
    BY <2>1, <2>2 DEF IssuedInOrder
<1>7. WireInOrder'
  <2>1. m \notin PutsOf(toServer)
    BY <1>1, <1>5 DEF OrderOK, WireInOrder
  <2> QED
    BY <1>1, <1>4, <2>1 DEF OrderOK, WireInOrder
<1>8. TakenBefore'
  <2>1. m <= position
    BY <1>1 DEF OrderOK, TakenBefore
  <2> QED
    BY <1>1, <1>3, <2>1 DEF OrderOK, TakenBefore
<1> QED
  BY <1>6, <1>7, <1>8 DEF OrderOK

\* With the app the outstanding writes are given up.
LEMMA GivenUpKeepsOrder ==
    ASSUME RestTyped, OrderOK, IsGivenUp
    PROVE  OrderOK'
<1>1. /\ \A i \in Puts : puts'[i] = IF Outstanding(i) THEN "lost" ELSE puts[i]
      /\ PutsOf(toServer') = {} /\ PutsOf(toClient') = {} /\ ~CanSend'
      /\ UNCHANGED <<putCount, position>>
  BY DEF IsGivenUp
<1>2. \A i \in Puts : ~Outstanding(i)'
  BY <1>1 DEF Outstanding
<1>3. IssuedInOrder'
  <2>1. \A i \in Puts : puts'[i] = "unissued" <=> i > putCount'
    BY <1>1 DEF OrderOK, IssuedInOrder, Outstanding
  <2> QED
    BY <1>2, <2>1 DEF IssuedInOrder
<1>4. WireInOrder'
  BY <1>1 DEF WireInOrder
<1>5. TakenBefore'
  BY <1>1 DEF OrderOK, TakenBefore
<1> QED
  BY <1>3, <1>4, <1>5 DEF OrderOK

\* Every step of the writes keeps their order.
LEMMA WriteStepKeepsOrder ==
    ASSUME RestTyped, ReadyOK, OrderOK, WriteStep
    PROVE  OrderOK'
<1>1. ASSUME StaysSo \/ GoesDown \/ GetsReady
      PROVE  OrderOK'
  <2>1. UNCHANGED <<puts, putCount, position>> /\ PutsOf(toClient') \subseteq PutsOf(toClient)
    BY <1>1 DEF StaysSo, GoesDown, GetsReady, writeVars
  <2>2. OutstandingPuts' = OutstandingPuts
    BY <2>1 DEF OutstandingPuts, Outstanding
  <2>3. IssuedInOrder' /\ TakenBefore'
    BY <2>1 DEF OrderOK, IssuedInOrder, TakenBefore, Outstanding
  <2>4. WireInOrder'
    <3>1. CASE StaysSo
      <4>1. /\ CanSend' = CanSend /\ PutsOf(toServer') = PutsOf(toServer)
            /\ PutsOf(toClient') = PutsOf(toClient)
        BY <3>1 DEF StaysSo
      <4> QED
        BY <2>2, <4>1 DEF OrderOK, WireInOrder
    <3>2. CASE GoesDown
      BY <3>2 DEF GoesDown, WireInOrder
    <3>3. CASE GetsReady
      BY <2>2, <3>3 DEF GetsReady, WireInOrder
    <3> QED
      BY <1>1, <3>1, <3>2, <3>3
  <2> QED
    BY <2>3, <2>4 DEF OrderOK
<1> QED
  BY <1>1, IssuedKeepsOrder, TakenKeepsOrder, SettledKeepsOrder, GivenUpKeepsOrder DEF WriteStep

-----------------------------------------------------------------------------
(* The writes as an outbox.                                                 *)

\* The writes on the wire are those that PutsOf tells.
LEMMA OnTheWireIs ==
    ASSUME RestTyped
    PROVE  OnTheWire = PutsOf(toServer)
<1>1. toServer \in Seq(ServerMessage)
  BY DEF RestTyped, WireTyped
<1>2. ASSUME NEW i \in OnTheWire
      PROVE  i \in PutsOf(toServer)
  <2>1. PICK k \in 1..Len(toServer) : toServer[k] = PutRequest(i)
    BY DEF OnTheWire
  <2>2. k \in At(toServer, {"put"}) /\ toServer[k].index = i
    BY <2>1 DEF At, PutRequest
  <2> QED
    BY <2>2 DEF PutsOf
<1>3. ASSUME NEW i \in PutsOf(toServer)
      PROVE  i \in OnTheWire
  <2>1. PICK k \in At(toServer, {"put"}) : toServer[k].index = i
    BY DEF PutsOf
  <2>2. k \in 1..Len(toServer) /\ toServer[k] \in ServerMessage /\ toServer[k].type = "put"
    BY <1>1 DEF At
  <2>3. i \in Puts /\ toServer[k] = PutRequest(i)
    BY <2>1, <2>2, ServerMessageKinds
  <2> QED
    BY <2>2, <2>3 DEF OnTheWire
<1> QED
  BY <1>2, <1>3

\* The first outstanding write, of any numbers.
FirstOf(p, n) == CHOOSE i \in 1..(n + 1) : /\ i = n + 1 \/ p[i] = "outstanding"
                                           /\ \A j \in 1..(i - 1) : p[j] # "outstanding"

\* A number that fits is the first outstanding one.
LEMMA FirstOfIs ==
    ASSUME NEW p, NEW n \in Nat, NEW x \in 1..(n + 1), x = n + 1 \/ p[x] = "outstanding",
           \A j \in 1..(x - 1) : p[j] # "outstanding"
    PROVE  FirstOf(p, n) = x
<1> DEFINE y == FirstOf(p, n)
<1>1. /\ y \in 1..(n + 1)
      /\ y = n + 1 \/ p[y] = "outstanding"
      /\ \A j \in 1..(y - 1) : p[j] # "outstanding"
  BY DEF FirstOf
<1>2. x \in Nat /\ x >= 1 /\ x <= n + 1
  OBVIOUS
<1> HIDE DEF y
<1>3. y \in Nat /\ y >= 1 /\ y <= n + 1
  BY <1>1
<1>4. ~(x < y)
  <2> SUFFICES ASSUME x < y
               PROVE  FALSE
    OBVIOUS
  <2>1. x \in 1..(y - 1) /\ x # n + 1
    BY <1>2, <1>3
  <2> QED
    BY <1>1, <2>1
<1>5. ~(y < x)
  <2> SUFFICES ASSUME y < x
               PROVE  FALSE
    OBVIOUS
  <2>1. y \in 1..(x - 1) /\ y # n + 1
    BY <1>2, <1>3
  <2> QED
    BY <1>1, <2>1
<1>6. x = y
  BY <1>2, <1>3, <1>4, <1>5
<1> QED
  BY <1>6 DEF y

\* The write that is taken next, of any on the wire.
NextOf(w, ready, n, f) == IF w # {} THEN CHOOSE i \in w : \A j \in w : i <= j
                          ELSE IF ready THEN n + 1
                          ELSE f

\* The least on the wire is taken next.
LEMMA NextOfIs ==
    ASSUME NEW w, NEW x, NEW ready, NEW n, NEW f, w \subseteq Nat, x \in w, \A j \in w : x <= j
    PROVE  NextOf(w, ready, n, f) = x
<1> DEFINE y == CHOOSE i \in w : \A j \in w : i <= j
<1>1. y \in w /\ \A j \in w : y <= j
  OBVIOUS
<1> HIDE DEF y
<1>2. y = x
  <2>1. x \in Nat /\ y \in Nat /\ x <= y /\ y <= x
    BY <1>1
  <2> QED
    BY <2>1
<1> QED
  BY <1>2 DEF NextOf, y

\* The first and the next write of the connection are those.
LEMMA MappingIs ==
    RestTyped => /\ FirstOutstanding = FirstOf(puts, putCount)
                 /\ NextTaken = NextOf(PutsOf(toServer), CanSend, putCount, FirstOutstanding)
<1> SUFFICES ASSUME RestTyped
             PROVE  /\ FirstOutstanding = FirstOf(puts, putCount)
                    /\ NextTaken = NextOf(PutsOf(toServer), CanSend, putCount, FirstOutstanding)
  OBVIOUS
<1>1. FirstOutstanding = FirstOf(puts, putCount)
  BY DEF FirstOutstanding, FirstOf, Outstanding
<1>2. NextTaken = NextOf(PutsOf(toServer), CanSend, putCount, FirstOutstanding)
  BY OnTheWireIs DEF NextTaken, NextOf
<1> QED
  BY <1>1, <1>2

\* So it is after a step.
LEMMA MappingNext ==
    RestTyped' => /\ FirstOutstanding' = FirstOf(puts', putCount')
                  /\ NextTaken' = NextOf(PutsOf(toServer'), CanSend', putCount', FirstOutstanding')
<1>1. (RestTyped => /\ FirstOutstanding = FirstOf(puts, putCount)
                    /\ NextTaken = NextOf(PutsOf(toServer), CanSend, putCount, FirstOutstanding))'
  BY MappingIs, PTL
<1> QED
  BY <1>1

\* Where the outbox stands: the outstanding writes are those from the first on;
\* of them the server takes those on the wire next, in a connection that is
\* ready, and all of them after one that is not.
LEMMA WhereItStands ==
    ASSUME RestTyped, ReadyOK, OrderOK
    PROVE  /\ FirstOutstanding \in 1..(putCount + 1)
           /\ OutstandingPuts = FirstOutstanding..putCount
           /\ ~CanSend => PutsOf(toServer) = {} /\ NextTaken = FirstOutstanding
           /\ CanSend => /\ NextTaken \in FirstOutstanding..(putCount + 1)
                         /\ PutsOf(toServer) = NextTaken..putCount
                         /\ PutsOf(toClient) = FirstOutstanding..(NextTaken - 1)
<1> DEFINE F == FirstOutstanding
           N == NextTaken
<1>1. /\ Puts = 1..MaxPuts /\ putCount \in Nat /\ putCount <= MaxPuts /\ MaxPuts \in Nat
      /\ OutstandingPuts \subseteq Puts /\ \A i \in OutstandingPuts : i <= putCount
      /\ PutsOf(toServer) \subseteq OutstandingPuts /\ PutsOf(toClient) \subseteq OutstandingPuts
      /\ OutstandingPuts \subseteq Nat
  BY OrderedAreNumbers
<1>2. F = FirstOf(puts, putCount) /\ N = NextOf(PutsOf(toServer), CanSend, putCount, F)
  BY MappingIs
<1> HIDE DEF F, N
<1>3. ASSUME NEW x \in OutstandingPuts, NEW j \in x..putCount
      PROVE  j \in OutstandingPuts
  <2>1. x \in Puts /\ j \in Puts /\ Outstanding(x) /\ j <= putCount
    BY <1>1 DEF OutstandingPuts
  <2>2. x < j => Outstanding(j)
    BY <2>1 DEF OrderOK, IssuedInOrder
  <2>3. ~(x < j) => x = j
    BY <1>1, <2>1
  <2> QED
    BY <2>1, <2>2, <2>3 DEF OutstandingPuts
<1>4. F \in 1..(putCount + 1) /\ OutstandingPuts = F..putCount
  <2>1. CASE OutstandingPuts = {}
    <3>1. \A j \in 1..((putCount + 1) - 1) : puts[j] # "outstanding"
      BY <1>1, <2>1 DEF OutstandingPuts, Outstanding
    <3>2. F = putCount + 1
      BY <1>1, <1>2, <3>1, FirstOfIs
    <3> QED
      BY <1>1, <2>1, <3>2
  <2>2. CASE OutstandingPuts # {}
    <3>1. PICK x \in OutstandingPuts : \A j \in OutstandingPuts : x <= j
      BY <1>1, <2>2, LeastNumber
    <3>2. x \in 1..(putCount + 1) /\ puts[x] = "outstanding"
      BY <1>1 DEF OutstandingPuts, Outstanding
    <3>3. ASSUME NEW j \in 1..(x - 1)
          PROVE  puts[j] # "outstanding"
      <4>1. j \in Puts /\ ~(x <= j)
        BY <1>1, <3>2
      <4> QED
        BY <3>1, <4>1 DEF OutstandingPuts, Outstanding
    <3>4. F = x
      BY <1>1, <1>2, <3>2, <3>3, FirstOfIs
    <3>5. \A j \in OutstandingPuts : j \in x..putCount
      BY <1>1, <3>1, <3>2
    <3>6. OutstandingPuts = x..putCount
      BY <1>3, <3>5
    <3> QED
      BY <3>2, <3>4, <3>6
  <2> QED
    BY <2>1, <2>2
<1>5. ~CanSend => PutsOf(toServer) = {} /\ N = F
  BY <1>2, NotReadyNoWrites DEF NextOf
<1>6. CanSend => F..putCount = PutsOf(toClient) \cup PutsOf(toServer)
  BY <1>1, <1>4 DEF OrderOK, WireInOrder
<1>7. \A i \in PutsOf(toClient), j \in PutsOf(toServer) : i < j
  BY DEF OrderOK, WireInOrder
<1>8. ASSUME CanSend
      PROVE  /\ N \in F..(putCount + 1) /\ PutsOf(toServer) = N..putCount
             /\ PutsOf(toClient) = F..(N - 1)
  <2>1. F \in Nat /\ F >= 1 /\ F <= putCount + 1 /\ putCount \in Nat
    BY <1>1, <1>4
  <2>2. CASE PutsOf(toServer) = {}
    <3>1. N = putCount + 1
      BY <1>2, <1>8, <2>2 DEF NextOf
    <3>2. PutsOf(toClient) = F..putCount /\ N - 1 = putCount
      BY <1>6, <1>8, <2>1, <2>2, <3>1
    <3> QED
      BY <2>1, <2>2, <3>1, <3>2
  <2>3. CASE PutsOf(toServer) # {}
    <3>1. PutsOf(toServer) \subseteq Nat /\ PutsOf(toServer) \subseteq F..putCount
      BY <1>1, <1>4
    <3>2. PICK x \in PutsOf(toServer) : \A j \in PutsOf(toServer) : x <= j
      BY <2>3, <3>1, LeastNumber
    <3>3. N = x
      BY <1>2, <3>1, <3>2, NextOfIs
    <3>4. x \in F..putCount /\ x \in Nat
      BY <3>1
    <3>5. ASSUME NEW j \in x..putCount
          PROVE  j \in PutsOf(toServer)
      <4>1. j \in F..putCount /\ j \in Nat /\ x <= j
        BY <2>1, <3>4
      <4>2. j \notin PutsOf(toClient)
        BY <1>7, <3>4, <4>1
      <4> QED
        BY <1>6, <1>8, <4>1, <4>2
    <3>6. \A j \in PutsOf(toServer) : j \in x..putCount
      BY <2>1, <3>1, <3>2, <3>4
    <3>7. PutsOf(toServer) = x..putCount
      BY <3>5, <3>6
    <3>8. ASSUME NEW j \in PutsOf(toClient)
          PROVE  j \in F..(x - 1)
      <4>1. j \in F..putCount /\ j < x
        BY <1>1, <1>4, <1>7
      <4> QED
        BY <2>1, <3>4, <4>1
    <3>9. ASSUME NEW j \in F..(x - 1)
          PROVE  j \in PutsOf(toClient)
      <4>1. j \in F..putCount /\ j \notin x..putCount
        BY <2>1, <3>4
      <4> QED
        BY <1>6, <1>8, <3>7, <4>1
    <3>10. PutsOf(toClient) = F..(x - 1)
      BY <3>8, <3>9
    <3>11. x \in F..(putCount + 1)
      BY <2>1, <3>4
    <3> QED
      BY <3>3, <3>7, <3>10, <3>11
  <2> QED
    BY <2>2, <2>3
<1> QED
  BY <1>4, <1>5, <1>8 DEF F, N

\* What the server said of each write, and what the app was told.
Said == [i \in Puts |-> IF verdict[i] = "unseen" THEN "nothing" ELSE verdict[i]]
Told == [i \in Puts |-> IF puts[i] \in {"ok", "refused"} THEN puts[i] ELSE "nothing"]

\* A connection that gets lost, or ready, starts over or has nothing to take.
LEMMA LinkStepRefines ==
    ASSUME RestTyped, RestTyped', ReadyOK, OrderOK, StaysSo \/ GoesDown \/ GetsReady
    PROVE  [OutboxOf!Next]_(OutboxOf!vars)
<1>1. UNCHANGED writeVars
  BY DEF StaysSo, GoesDown, GetsReady
<1>2. putCount' = putCount /\ Said' = Said /\ Told' = Told
  BY <1>1 DEF writeVars, Said, Told
<1>3. FirstOutstanding' = FirstOutstanding
  BY <1>1, MappingIs, MappingNext DEF writeVars
<1>4. NextTaken' = NextTaken \/ NextTaken' = FirstOutstanding
  <2>1. CASE StaysSo
    BY <1>2, <1>3, <2>1, MappingIs, MappingNext DEF StaysSo
  <2>2. CASE GoesDown
    BY <1>2, <1>3, <2>2, MappingNext DEF GoesDown, NextOf
  <2>3. CASE GetsReady
    <3>1. /\ OutstandingPuts = FirstOutstanding..putCount /\ FirstOutstanding \in 1..(putCount + 1)
          /\ putCount \in Nat
      BY WhereItStands, OrderedAreNumbers
    <3>2. NextTaken' = NextOf(OutstandingPuts, CanSend', putCount, FirstOutstanding) /\ CanSend'
      BY <1>2, <1>3, <2>3, MappingNext DEF GetsReady
    <3>3. CASE OutstandingPuts = {}
      <4>1. FirstOutstanding = putCount + 1
        BY <3>1, <3>3
      <4> QED
        BY <3>2, <3>3, <4>1 DEF NextOf
    <3>4. CASE OutstandingPuts # {}
      <4>1. /\ OutstandingPuts \subseteq Nat /\ FirstOutstanding \in OutstandingPuts
            /\ \A j \in OutstandingPuts : FirstOutstanding <= j
        BY <3>1, <3>4
      <4>2. NextOf(OutstandingPuts, CanSend', putCount, FirstOutstanding) = FirstOutstanding
        BY <4>1, NextOfIs
      <4> QED
        BY <3>2, <4>2
    <3> QED
      BY <3>3, <3>4
  <2> QED
    BY <2>1, <2>2, <2>3
<1> QED
  BY <1>2, <1>3, <1>4 DEF OutboxOf!Next, OutboxOf!StartOver, OutboxOf!vars, Said, Told

\* A write that is issued is the outbox's newest.
LEMMA IssuedRefines ==
    ASSUME RestTyped, RestTyped', ReadyOK, OrderOK, IsIssued
    PROVE  OutboxOf!Issue
<1> DEFINE F == FirstOutstanding
           N == NextTaken
           n == putCount + 1
<1>1. /\ n \in Puts /\ putCount' = n /\ puts' = [puts EXCEPT ![n] = "outstanding"]
      /\ PutsOf(toServer') = IF CanSend THEN PutsOf(toServer) \cup {n} ELSE PutsOf(toServer)
      /\ CanSend' = CanSend /\ UNCHANGED <<verdict, position>>
  BY DEF IsIssued
<1>2. /\ Puts = 1..MaxPuts /\ MaxPuts \in Nat /\ putCount \in Nat /\ puts \in [Puts -> PutStatus]
  BY OrderedAreNumbers
<1>3. \A i \in Puts : puts'[i] = IF i = n THEN "outstanding" ELSE puts[i]
  BY <1>1, <1>2
<1>4. puts[n] = "unissued"
  <2>1. n > putCount
    BY <1>2
  <2> QED
    BY <1>1, <2>1 DEF OrderOK, IssuedInOrder
<1>5. /\ F \in 1..(putCount + 1) /\ OutstandingPuts = F..putCount
      /\ ~CanSend => PutsOf(toServer) = {} /\ N = F
      /\ CanSend => N \in F..(putCount + 1) /\ PutsOf(toServer) = N..putCount
  BY WhereItStands
<1>6. /\ F' = FirstOf(puts', n) /\ N' = NextOf(PutsOf(toServer'), CanSend', n, F')
  BY <1>1, MappingNext
<1> HIDE DEF F, N
<1>7. F' = F
  <2>1. F \in 1..(n + 1) /\ n \in Nat
    BY <1>2, <1>5
  <2>2. puts'[F] = "outstanding"
    <3>1. F = n \/ F \in OutstandingPuts
      BY <1>2, <1>5
    <3> QED
      BY <1>1, <1>3, <3>1 DEF OutstandingPuts, Outstanding
  <2>3. ASSUME NEW j \in 1..(F - 1)
        PROVE  puts'[j] # "outstanding"
    <3>1. j \in Puts /\ j # n /\ j \notin OutstandingPuts
      BY <1>1, <1>2, <1>5
    <3> QED
      BY <1>3, <3>1 DEF OutstandingPuts, Outstanding
  <2> HIDE DEF n
  <2> QED
    BY <1>6, <2>1, <2>2, <2>3, FirstOfIs
<1>8. N' = N
  <2>1. CASE CanSend
    <3>1. /\ PutsOf(toServer') = N..n /\ N \in PutsOf(toServer')
          /\ PutsOf(toServer') \subseteq Nat /\ \A j \in PutsOf(toServer') : N <= j
      BY <1>1, <1>2, <1>5, <2>1
    <3> HIDE DEF n
    <3> QED
      BY <1>6, <3>1, NextOfIs
  <2>2. CASE ~CanSend
    <3>1. PutsOf(toServer') = {} /\ ~CanSend' /\ N = F
      BY <1>1, <1>5, <2>2
    <3> QED
      BY <1>6, <1>7, <3>1 DEF NextOf
  <2> QED
    BY <2>1, <2>2
<1>9. Said' = Said /\ Told' = Told
  BY <1>1, <1>3, <1>4 DEF Said, Told
<1>10. putCount < MaxPuts
  BY <1>1, <1>2
<1> QED
  BY <1>1, <1>7, <1>8, <1>9, <1>10 DEF OutboxOf!Issue, Said, Told, F, N

\* A write that the server takes is the outbox's next.
LEMMA TakenRefines ==
    ASSUME RestTyped, RestTyped', ReadyOK, OrderOK,
           NEW m \in Puts, NEW status \in {"ok", "refused"}, IsTaken(m, status)
    PROVE  OutboxOf!Take
<1> DEFINE F == FirstOutstanding
           N == NextTaken
<1>1. /\ m \in PutsOf(toServer) /\ \A i \in PutsOf(toServer') : m < i
      /\ PutsOf(toServer') = PutsOf(toServer) \ {m}
      /\ verdict' = [verdict EXCEPT ![m] = status]
      /\ CanSend /\ CanSend' /\ UNCHANGED <<puts, putCount>>
  BY DEF IsTaken
<1>2. /\ Puts = 1..MaxPuts /\ MaxPuts \in Nat /\ putCount \in Nat /\ verdict \in [Puts -> Verdict]
  BY OrderedAreNumbers
<1>3. F \in 1..(putCount + 1) /\ N \in F..(putCount + 1) /\ PutsOf(toServer) = N..putCount
  BY <1>1, WhereItStands
<1>4. /\ F = FirstOf(puts, putCount) /\ F' = FirstOf(puts', putCount')
      /\ N' = NextOf(PutsOf(toServer'), CanSend', putCount', F')
  BY MappingIs, MappingNext
<1> HIDE DEF F, N
<1>5. F' = F
  BY <1>1, <1>4
<1>6. m = N /\ PutsOf(toServer') = (N + 1)..putCount /\ N \in Nat /\ N <= putCount
  <2>2. N \in Nat /\ m \in Nat /\ N <= m /\ m <= putCount
    BY <1>1, <1>2, <1>3
  <2>3. N \in PutsOf(toServer)
    BY <1>2, <1>3, <2>2
  <2>4. m = N
    <3> SUFFICES ASSUME m # N
                 PROVE  FALSE
      OBVIOUS
    <3>1. m < N
      BY <1>1, <2>3
    <3> QED
      BY <2>2, <3>1
  <2> QED
    BY <1>1, <1>2, <1>3, <2>2, <2>4
<1>7. N' = N + 1
  <2>1. CASE PutsOf(toServer') = {}
    <3>1. N = putCount
      <4> SUFFICES ASSUME N # putCount
                   PROVE  FALSE
        OBVIOUS
      <4>1. N + 1 \in (N + 1)..putCount
        BY <1>2, <1>6
      <4> QED
        BY <1>6, <2>1, <4>1
    <3> QED
      BY <1>1, <1>4, <2>1, <3>1 DEF NextOf
  <2>2. CASE PutsOf(toServer') # {}
    <3>1. /\ N + 1 \in PutsOf(toServer') /\ PutsOf(toServer') \subseteq Nat
          /\ \A j \in PutsOf(toServer') : N + 1 <= j
      BY <1>2, <1>6, <2>2
    <3> QED
      BY <1>4, <3>1, NextOfIs
  <2> QED
    BY <2>1, <2>2
<1>8. Told' = Told
  BY <1>1 DEF Told
<1>9. Said' = [Said EXCEPT ![N] = status]
  <2>1. \A i \in Puts : verdict'[i] = IF i = m THEN status ELSE verdict[i]
    BY <1>1, <1>2
  <2>2. \A i \in Puts : Said'[i] = IF i = m THEN status ELSE Said[i]
    BY <2>1 DEF Said
  <2> QED
    BY <1>6, <2>2 DEF Said
<1> QED
  BY <1>1, <1>5, <1>6, <1>7, <1>8, <1>9 DEF OutboxOf!Take, Said, Told, F, N

\* A write that is settled is the outbox's first.
LEMMA SettledRefines ==
    ASSUME RestTyped, RestTyped', ReadyOK, OrderOK, NEW m \in Puts, IsSettled(m)
    PROVE  OutboxOf!Settle
<1> DEFINE F == FirstOutstanding
           N == NextTaken
<1>1. /\ m \in PutsOf(toClient) /\ PutsOf(toServer') = PutsOf(toServer)
      /\ verdict[m] \in {"ok", "refused"} /\ puts' = [puts EXCEPT ![m] = verdict[m]]
      /\ CanSend /\ CanSend' /\ UNCHANGED <<putCount, verdict, position>>
  BY DEF IsSettled
<1>2. /\ Puts = 1..MaxPuts /\ MaxPuts \in Nat /\ putCount \in Nat /\ puts \in [Puts -> PutStatus]
  BY OrderedAreNumbers
<1>3. /\ F \in 1..(putCount + 1) /\ N \in F..(putCount + 1) /\ OutstandingPuts = F..putCount
      /\ PutsOf(toServer) = N..putCount /\ PutsOf(toClient) = F..(N - 1)
  BY <1>1, WhereItStands
<1>4. /\ F' = FirstOf(puts', putCount') /\ N' = NextOf(PutsOf(toServer'), CanSend', putCount', F')
      /\ N = NextOf(PutsOf(toServer), CanSend, putCount, F)
  BY MappingIs, MappingNext
<1>5. m \in OutstandingPuts /\ \A i \in OutstandingPuts : i = m \/ m < i
  BY OldestIsSettled
<1>6. \A i \in Puts : puts'[i] = IF i = m THEN verdict[m] ELSE puts[i]
  BY <1>1, <1>2
<1> HIDE DEF F, N
<1>7. m = F /\ F < N /\ F \in Nat /\ N \in Nat /\ F <= putCount
  <2>1. m \in F..putCount /\ m \in F..(N - 1)
    BY <1>1, <1>3, <1>5
  <2>2. F \in OutstandingPuts /\ F \in Nat /\ N \in Nat /\ m \in Nat /\ F <= m
    BY <1>2, <1>3, <2>1
  <2>3. m = F
    BY <1>5, <2>2
  <2> QED
    BY <1>2, <1>3, <2>1, <2>2, <2>3
<1>8. F' = F + 1
  <2>1. F + 1 \in 1..(putCount + 1)
    BY <1>2, <1>7
  <2>2. F + 1 = putCount + 1 \/ puts'[F + 1] = "outstanding"
    <3>1. F + 1 = putCount + 1 \/ F + 1 \in OutstandingPuts
      BY <1>2, <1>3, <1>7
    <3>2. F + 1 # m
      BY <1>7
    <3> QED
      BY <1>6, <3>1, <3>2 DEF OutstandingPuts, Outstanding
  <2>3. ASSUME NEW j \in 1..((F + 1) - 1)
        PROVE  puts'[j] # "outstanding"
    <3>1. j \in Puts /\ (j = m \/ j \notin OutstandingPuts)
      BY <1>2, <1>3, <1>5, <1>7
    <3> QED
      BY <1>1, <1>6, <3>1 DEF OutstandingPuts, Outstanding
  <2> QED
    BY <1>1, <1>2, <1>4, <2>1, <2>2, <2>3, FirstOfIs
<1>9. N' = N
  BY <1>1, <1>4 DEF NextOf
<1>10. Said' = Said /\ Said[m] = verdict[m]
  BY <1>1 DEF Said
<1>11. Told' = [Told EXCEPT ![F] = Said[F]]
  <2>1. \A i \in Puts : Told'[i] = IF i = m THEN verdict[m] ELSE Told[i]
    BY <1>1, <1>6 DEF Told
  <2> QED
    BY <1>7, <1>10, <2>1 DEF Told
<1> QED
  BY <1>1, <1>7, <1>8, <1>9, <1>10, <1>11 DEF OutboxOf!Settle, Said, Told, F, N

\* With the app the outbox gives up what is not settled.
LEMMA GivenUpRefines ==
    ASSUME RestTyped, RestTyped', ReadyOK, OrderOK, IsGivenUp
    PROVE  OutboxOf!GiveUp
<1> DEFINE F == FirstOutstanding
           N == NextTaken
<1>1. /\ \A i \in Puts : puts'[i] = IF Outstanding(i) THEN "lost" ELSE puts[i]
      /\ PutsOf(toServer') = {} /\ ~CanSend' /\ UNCHANGED <<putCount, verdict>>
  BY DEF IsGivenUp
<1>2. Puts = 1..MaxPuts /\ putCount \in Nat /\ putCount <= MaxPuts /\ MaxPuts \in Nat
  BY OrderedAreNumbers
<1>3. F' = FirstOf(puts', putCount') /\ N' = NextOf(PutsOf(toServer'), CanSend', putCount', F')
  BY MappingNext
<1> HIDE DEF F, N
<1>4. F' = putCount + 1
  <2>1. \A j \in 1..((putCount + 1) - 1) : puts'[j] # "outstanding"
    BY <1>1, <1>2 DEF Outstanding
  <2>2. putCount + 1 \in 1..(putCount + 1)
    BY <1>2
  <2> QED
    BY <1>1, <1>2, <1>3, <2>1, <2>2, FirstOfIs
<1>5. N' = putCount + 1
  BY <1>1, <1>3, <1>4 DEF NextOf
<1>6. Said' = Said /\ Told' = Told
  BY <1>1 DEF Said, Told, Outstanding
<1> QED
  BY <1>1, <1>4, <1>5, <1>6 DEF OutboxOf!GiveUp, Said, Told, F, N

\* The conjuncts that the order of the writes rests on.
Orderly == IInv /\ RestTyped /\ ReadyOK /\ RiseOK /\ OrderOK

\* Every step keeps the writes in order, and is a step of the outbox or none.
LEMMA NextPreservesOrderly == Orderly /\ [Next]_vars => Orderly' /\ [OutboxOf!Next]_(OutboxOf!vars)
<1> SUFFICES ASSUME IInv, RestTyped, ReadyOK, RiseOK, OrderOK, [Next]_vars
             PROVE  Orderly' /\ [OutboxOf!Next]_(OutboxOf!vars)
  BY DEF Orderly
<1>1. IInv' /\ RestTyped'
  BY NextPreservesIInv, NextPreservesTypes
<1>2. ReadyOK'
  BY <1>1, NextPreservesReady
<1>3. WriteStep /\ RiseOK'
  BY <1>1, NextOnWrites
<1>4. OrderOK'
  BY <1>3, WriteStepKeepsOrder
<1>5. [OutboxOf!Next]_(OutboxOf!vars)
  <2>1. CASE StaysSo \/ GoesDown \/ GetsReady
    BY <1>1, <2>1, LinkStepRefines
  <2>2. CASE IsIssued
    BY <1>1, <2>2, IssuedRefines DEF OutboxOf!Next
  <2>3. ASSUME NEW m \in Puts, NEW status \in {"ok", "refused"}, IsTaken(m, status)
        PROVE  OutboxOf!Next
    BY <1>1, <2>3, TakenRefines DEF OutboxOf!Next
  <2>4. ASSUME NEW m \in Puts, IsSettled(m)
        PROVE  OutboxOf!Next
    BY <1>1, <2>4, SettledRefines DEF OutboxOf!Next
  <2>5. CASE IsGivenUp
    BY <1>1, <2>5, GivenUpRefines DEF OutboxOf!Next
  <2> QED
    BY <1>3, <2>1, <2>2, <2>3, <2>4, <2>5 DEF WriteStep
<1> QED
  BY <1>1, <1>2, <1>3, <1>4, <1>5 DEF Orderly

\* The writes begin in order, and the outbox empty.
LEMMA InitOrderly == Init => Orderly /\ OutboxOf!Init
<1> SUFFICES ASSUME Init
             PROVE  Orderly /\ OutboxOf!Init
  OBVIOUS
<1>1. IInv /\ RestTyped
  BY InitEstablishesIInv, InitTyped
<1>2. /\ toServer = <<>> /\ toClient = <<>> /\ ~CanSend /\ connectionState = "Disconnected"
      /\ putCount = 0 /\ position = 0
      /\ puts = [i \in Puts |-> "unissued"] /\ verdict = [i \in Puts |-> "unseen"]
  BY DEF Init, LinkInit, CanSend
<1>3. Puts = 1..MaxPuts
  BY DEF Puts
<1>4. ReadyOK
  BY <1>2 DEF ReadyOK, At
<1>5. PutsOf(toServer) = {} /\ PutsOf(toClient) = {} /\ RiseOK
  BY <1>2, NothingOnWire DEF RiseOK
<1>6. OutstandingPuts = {}
  BY <1>2 DEF OutstandingPuts, Outstanding
<1>7. OrderOK
  <2>1. IssuedInOrder
    BY <1>2, <1>3, RequestsAssumption DEF IssuedInOrder, Outstanding
  <2>2. WireInOrder
    BY <1>2, <1>5, <1>6 DEF WireInOrder
  <2>3. TakenBefore
    BY <1>2, <1>5 DEF TakenBefore
  <2> QED
    BY <2>1, <2>2, <2>3 DEF OrderOK
<1>8. FirstOutstanding = 1 /\ NextTaken = 1
  <2>1. FirstOutstanding \in 1..(putCount + 1) /\ NextTaken = FirstOutstanding
    BY <1>1, <1>2, <1>4, <1>7, WhereItStands
  <2> QED
    BY <1>2, <2>1
<1>9. OutboxOf!Init
  BY <1>2, <1>3, <1>8 DEF OutboxOf!Init
<1> QED
  BY <1>1, <1>4, <1>5, <1>7, <1>9 DEF Orderly

\* The writes are issued, taken and settled as the outbox says: in the order of
\* their numbers, each with the server's latest answer, and again from the first
\* that is not settled after a connection was lost.
THEOREM WritesAreAnOutbox == Spec => ImplementsOutbox
<1>1. Orderly /\ [Next]_vars => Orderly' /\ [OutboxOf!Next]_(OutboxOf!vars)
  BY NextPreservesOrderly
<1>2. Init => Orderly /\ OutboxOf!Init
  BY InitOrderly
<1> QED
  BY <1>1, <1>2, PTL DEF Spec, ImplementsOutbox, OutboxOf!Spec

-----------------------------------------------------------------------------
(* The reads behind the writes.                                             *)

\* A read at l that follows the write a: of the writes on the wire none up to a
\* is behind it, and the server took a, or is going to before the read.
BehindWrites(q, l, a, taken) ==
    /\ \A k \in At(q, {"put"}) : q[k].index <= a => k < l
    /\ \/ a \in PutsOf(q)
       \/ a <= taken /\ \A i \in PutsOf(q) : a < i

\* Of the wire to the server: the reads on it, which are among the first n, with
\* the writes they follow.
InLine(q, after, n, taken) ==
    \A l \in At(q, {"get"}) : /\ q[l].index <= n
                              /\ BehindWrites(q, l, after[q[l].index], taken)

\* Of the wire to the client: the server saw what the reads follow.
SawThem(q, after, n) ==
    \A k \in At(q, {"get"}) : q[k].index <= n /\ after[q[k].index] <= q[k].seen

\* Another message than a write is first, and is taken.
LEMMA InLineOfTail ==
    ASSUME NEW S, NEW q \in Seq(S), q # <<>>, Head(q).type # "put",
           NEW after, NEW n, NEW taken, InLine(q, after, n, taken)
    PROVE  InLine(Tail(q), after, n, taken)
<1> DEFINE t == Tail(q)
<1>1. /\ \A k \in At(t, {"get"}) : k + 1 \in At(q, {"get"}) /\ t[k] = q[k + 1]
      /\ At(t, {"get"}) \subseteq Nat
  BY PlacesOfTail
<1>2. /\ \A k \in At(t, {"put"}) : k + 1 \in At(q, {"put"}) /\ t[k] = q[k + 1]
      /\ At(t, {"put"}) \subseteq Nat
  BY PlacesOfTail
<1>3. PutsOf(t) = PutsOf(q)
  BY OtherTaken
<1> HIDE DEF t
<1>4. ASSUME NEW l \in At(t, {"get"})
      PROVE  t[l].index <= n /\ BehindWrites(t, l, after[t[l].index], taken)
  <2>1. /\ l + 1 \in At(q, {"get"}) /\ t[l] = q[l + 1] /\ l \in Nat
        /\ q[l + 1].index <= n /\ BehindWrites(q, l + 1, after[q[l + 1].index], taken)
    BY <1>1 DEF InLine
  <2> DEFINE a == after[t[l].index]
  <2>2. BehindWrites(q, l + 1, a, taken)
    BY <2>1
  <2> HIDE DEF a
  <2>3. ASSUME NEW k \in At(t, {"put"}), t[k].index <= a
        PROVE  k < l
    <3>1. k + 1 < l + 1 /\ k \in Nat
      BY <1>2, <2>2, <2>3 DEF BehindWrites
    <3> QED
      BY <2>1, <3>1
  <2>4. BehindWrites(t, l, a, taken)
    BY <1>3, <2>2, <2>3 DEF BehindWrites
  <2> QED
    BY <2>1, <2>4 DEF a
<1> QED
  BY <1>4 DEF InLine, t

\* A write is first, and is taken.
LEMMA InLineOfWriteTaken ==
    ASSUME NEW S, NEW q \in Seq(S), q # <<>>, Head(q).type = "put", PutsRise(q), PutsOf(q) \subseteq Nat,
           NEW after, NEW n, NEW taken, InLine(q, after, n, taken),
           \A l \in At(q, {"get"}) : after[q[l].index] \in Nat
    PROVE  InLine(Tail(q), after, n, Head(q).index)
<1> DEFINE t == Tail(q)
           first == Head(q).index
<1>1. /\ \A k \in At(t, {"get"}) : k + 1 \in At(q, {"get"}) /\ t[k] = q[k + 1]
      /\ At(t, {"get"}) \subseteq Nat
  BY PlacesOfTail
<1>2. /\ \A k \in At(t, {"put"}) : k + 1 \in At(q, {"put"}) /\ t[k] = q[k + 1]
      /\ At(t, {"put"}) \subseteq Nat
  BY PlacesOfTail
<1>3. /\ first \in PutsOf(q) /\ PutsOf(t) = PutsOf(q) \ {first}
      /\ \A i \in PutsOf(t) : first < i
  BY WriteTaken
<1>4. first \in Nat
  BY <1>3
<1> HIDE DEF t, first
<1>5. ASSUME NEW l \in At(t, {"get"})
      PROVE  t[l].index <= n /\ BehindWrites(t, l, after[t[l].index], first)
  <2>1. /\ l + 1 \in At(q, {"get"}) /\ t[l] = q[l + 1] /\ l \in Nat
        /\ q[l + 1].index <= n /\ BehindWrites(q, l + 1, after[q[l + 1].index], taken)
    BY <1>1 DEF InLine
  <2> DEFINE a == after[t[l].index]
  <2>2. BehindWrites(q, l + 1, a, taken) /\ a \in Nat
    BY <2>1
  <2> HIDE DEF a
  <2>3. ASSUME NEW k \in At(t, {"put"}), t[k].index <= a
        PROVE  k < l
    <3>1. k + 1 < l + 1 /\ k \in Nat
      BY <1>2, <2>2, <2>3 DEF BehindWrites
    <3> QED
      BY <2>1, <3>1
  <2>4. a \in PutsOf(t) \/ (a <= first /\ \A i \in PutsOf(t) : a < i)
    <3>1. CASE a \in PutsOf(q)
      <4>1. CASE a = first
        BY <1>3, <1>4, <4>1
      <4>2. CASE a # first
        BY <1>3, <3>1, <4>2
      <4> QED
        BY <4>1, <4>2
    <3>2. CASE \A i \in PutsOf(q) : a < i
      BY <1>3, <1>4, <2>2, <3>2
    <3> QED
      BY <2>2, <3>1, <3>2 DEF BehindWrites
  <2>5. BehindWrites(t, l, a, first)
    BY <2>3, <2>4 DEF BehindWrites
  <2> QED
    BY <2>1, <2>5 DEF a
<1> QED
  BY <1>5 DEF InLine, t, first

\* Another message than a write is added: a read that follows the writes it
\* should, or none.
LEMMA InLineOfOther ==
    ASSUME NEW S, NEW q \in Seq(S), NEW m \in S, m.type # "put",
           NEW after, NEW n, NEW taken, InLine(q, after, n, taken),
           m.type = "get" =>
             /\ m.index <= n
             /\ \/ after[m.index] \in PutsOf(q)
                \/ after[m.index] <= taken /\ \A i \in PutsOf(q) : after[m.index] < i
    PROVE  InLine(Append(q, m), after, n, taken)
<1> DEFINE t == Append(q, m)
           last == Len(q) + 1
<1>1. At(t, {"put"}) = At(q, {"put"}) /\ PutsOf(t) = PutsOf(q)
  BY OtherAdded
<1>2. /\ \A k \in 1..Len(q) : t[k] = q[k]
      /\ At(q, {"put"}) \subseteq 1..Len(q) /\ At(q, {"get"}) \subseteq 1..Len(q)
      /\ t[last] = m /\ Len(q) \in Nat
  BY LastAdded DEF At
<1>3. /\ m.type = "get" => At(t, {"get"}) = At(q, {"get"}) \cup {last}
      /\ m.type # "get" => At(t, {"get"}) = At(q, {"get"})
  <2>1. m.type \in {"get"} <=> m.type = "get"
    OBVIOUS
  <2> QED
    BY <2>1, PlacesOfAppend
<1>4. \A k \in At(q, {"put"}) : k < last
  BY <1>2
<1> HIDE DEF t, last
<1>5. ASSUME NEW l \in At(q, {"get"})
      PROVE  t[l].index <= n /\ BehindWrites(t, l, after[t[l].index], taken)
  <2>1. t[l] = q[l] /\ q[l].index <= n /\ BehindWrites(q, l, after[q[l].index], taken)
    BY <1>2 DEF InLine
  <2> QED
    BY <1>1, <1>2, <2>1 DEF BehindWrites
<1>6. ASSUME m.type = "get"
      PROVE  t[last].index <= n /\ BehindWrites(t, last, after[t[last].index], taken)
  BY <1>1, <1>2, <1>4, <1>6 DEF BehindWrites
<1>7. ASSUME NEW l \in At(t, {"get"})
      PROVE  t[l].index <= n /\ BehindWrites(t, l, after[t[l].index], taken)
  BY <1>3, <1>5, <1>6
<1> QED
  BY <1>7 DEF InLine, t

\* A write is added that no read on the wire follows.
LEMMA InLineOfWrite ==
    ASSUME NEW S, NEW q \in Seq(S), NEW m \in S, m.type = "put", PutsRise(q),
           \A i \in PutsOf(q) : i < m.index, m.index \in Nat,
           NEW after, NEW n, NEW taken, InLine(q, after, n, taken),
           \A l \in At(q, {"get"}) : after[q[l].index] \in Nat /\ after[q[l].index] < m.index
    PROVE  InLine(Append(q, m), after, n, taken)
<1> DEFINE t == Append(q, m)
           last == Len(q) + 1
<1>1. At(t, {"put"}) = At(q, {"put"}) \cup {last} /\ At(t, {"get"}) = At(q, {"get"})
  <2>1. m.type \in {"put"} /\ m.type \notin {"get"}
    OBVIOUS
  <2> QED
    BY <2>1, PlacesOfAppend
<1>2. /\ \A k \in 1..Len(q) : t[k] = q[k]
      /\ At(q, {"put"}) \subseteq 1..Len(q) /\ At(q, {"get"}) \subseteq 1..Len(q)
      /\ t[last] = m /\ Len(q) \in Nat
  BY LastAdded DEF At
<1>3. PutsOf(t) = PutsOf(q) \cup {m.index}
  BY WriteAdded
<1> HIDE DEF t, last
<1>4. ASSUME NEW l \in At(q, {"get"})
      PROVE  t[l].index <= n /\ BehindWrites(t, l, after[t[l].index], taken)
  <2> DEFINE a == after[q[l].index]
  <2>1. /\ t[l] = q[l] /\ q[l].index <= n /\ BehindWrites(q, l, a, taken)
        /\ a \in Nat /\ a < m.index
    BY <1>2 DEF InLine
  <2> HIDE DEF a
  <2>2. ASSUME NEW k \in At(t, {"put"}), t[k].index <= a
        PROVE  k < l
    <3>1. k # last
      BY <1>2, <2>1, <2>2
    <3>2. k \in At(q, {"put"}) /\ q[k].index <= a
      BY <1>1, <1>2, <2>2, <3>1
    <3> QED
      BY <2>1, <3>2 DEF BehindWrites
  <2>3. a \in PutsOf(t) \/ (a <= taken /\ \A i \in PutsOf(t) : a < i)
    BY <1>3, <2>1 DEF BehindWrites
  <2>4. BehindWrites(t, l, a, taken)
    BY <2>2, <2>3 DEF BehindWrites
  <2> QED
    BY <2>1, <2>4 DEF a
<1> QED
  BY <1>1, <1>4 DEF InLine, t

\* More reads are issued.
LEMMA InLineOfMore ==
    ASSUME NEW q, NEW taken, NEW n \in Nat, NEW more \in Nat, NEW after, NEW later, NEW G,
           n <= more, InLine(q, after, n, taken),
           G \subseteq Nat, \A l \in At(q, {"get"}) : q[l].index \in G,
           \A g \in G : g <= n => later[g] = after[g]
    PROVE  InLine(q, later, more, taken)
<1> SUFFICES ASSUME NEW l \in At(q, {"get"})
             PROVE  q[l].index <= more /\ BehindWrites(q, l, later[q[l].index], taken)
  BY DEF InLine
<1>1. q[l].index <= n /\ q[l].index \in G /\ BehindWrites(q, l, after[q[l].index], taken)
  BY DEF InLine
<1>2. q[l].index \in Nat
  BY <1>1
<1>3. later[q[l].index] = after[q[l].index] /\ q[l].index <= more
  BY <1>1, <1>2
<1> QED
  BY <1>1, <1>3

\* The answers, as answers are taken and others are added.
LEMMA SawThemOfTail ==
    ASSUME NEW S, NEW q \in Seq(S), q # <<>>, NEW after, NEW n, SawThem(q, after, n)
    PROVE  /\ SawThem(Tail(q), after, n)
           /\ Head(q).type = "get" => Head(q).index <= n /\ after[Head(q).index] <= Head(q).seen
<1>1. /\ \A k \in At(Tail(q), {"get"}) : k + 1 \in At(q, {"get"}) /\ Tail(q)[k] = q[k + 1]
      /\ 1 \in At(q, {"get"}) <=> Head(q).type = "get"
  BY PlacesOfTail
<1>2. Head(q) = q[1]
  BY FirstTaken
<1> QED
  BY <1>1, <1>2 DEF SawThem

\* An answer that saw what it follows may be added.
LEMMA SawThemOfAdded ==
    ASSUME NEW S, NEW q \in Seq(S), NEW m \in S, NEW after, NEW n, SawThem(q, after, n),
           m.type = "get" => m.index <= n /\ after[m.index] <= m.seen
    PROVE  SawThem(Append(q, m), after, n)
<1> DEFINE t == Append(q, m)
           last == Len(q) + 1
<1>1. /\ \A k \in 1..Len(q) : t[k] = q[k]
      /\ At(q, {"get"}) \subseteq 1..Len(q) /\ t[last] = m
  BY LastAdded DEF At
<1>2. /\ m.type = "get" => At(t, {"get"}) = At(q, {"get"}) \cup {last}
      /\ m.type # "get" => At(t, {"get"}) = At(q, {"get"})
  <2>1. m.type \in {"get"} <=> m.type = "get"
    OBVIOUS
  <2> QED
    BY <2>1, PlacesOfAppend
<1> HIDE DEF t, last
<1>3. ASSUME NEW k \in At(t, {"get"})
      PROVE  t[k].index <= n /\ after[t[k].index] <= t[k].seen
  <2>1. CASE k \in At(q, {"get"})
    BY <1>1, <2>1 DEF SawThem
  <2>2. CASE k \notin At(q, {"get"})
    BY <1>1, <1>2, <2>2
  <2> QED
    BY <2>1, <2>2
<1> QED
  BY <1>3 DEF SawThem, t

\* So it is when more reads are issued.
LEMMA SawThemOfMore ==
    ASSUME NEW q, NEW n \in Nat, NEW more \in Nat, NEW after, NEW later, NEW G,
           n <= more, SawThem(q, after, n),
           G \subseteq Nat, \A l \in At(q, {"get"}) : q[l].index \in G,
           \A g \in G : g <= n => later[g] = after[g]
    PROVE  SawThem(q, later, more)
<1> SUFFICES ASSUME NEW l \in At(q, {"get"})
             PROVE  q[l].index <= more /\ later[q[l].index] <= q[l].seen
  BY DEF SawThem
<1>1. q[l].index <= n /\ q[l].index \in G /\ after[q[l].index] <= q[l].seen
  BY DEF SawThem
<1>2. q[l].index \in Nat
  BY <1>1
<1>3. later[q[l].index] = after[q[l].index] /\ q[l].index <= more
  BY <1>1, <1>2
<1> QED
  BY <1>1, <1>3

\* The newest write each read follows.
Afters == [g \in Gets |-> gets[g].after]

\* A read knows the writes it follows, and saw them if it was answered.
GetOK(g) ==
    /\ Waiting(g) => g <= getCount
    /\ Waiting(g) /\ gets[g].after # 0 => puts[gets[g].after] \in {"outstanding", "ok", "refused"}
    /\ gets[g].after <= putCount
    /\ gets[g].status \in {"local", "ok", "refused"} => gets[g].seen >= gets[g].after
    /\ gets[g].status = "offline" => ~gets[g].sent

\* Every read is of a write that was issued, and saw it.
GetsOK == \A g \in Gets : GetOK(g)

\* Reads on the wire are behind the writes they follow.
ReadsOK == /\ InLine(toServer, Afters, getCount, position)
           /\ SawThem(toClient, Afters, getCount)
           /\ GetsOK

\* The numbers of the reads.
LEMMA ReadsAreNumbers ==
    ASSUME RestTyped
    PROVE  /\ Gets = 1..MaxGets /\ MaxGets \in Nat /\ Gets \subseteq Nat
           /\ getCount \in Nat /\ gets \in [Gets -> Get]
           /\ \A g \in Gets : Afters[g] = gets[g].after /\ gets[g].after \in Nat
           /\ \A l \in At(toServer, {"get"}) : toServer[l].index \in Gets
           /\ \A k \in At(toClient, {"get"}) : toClient[k].index \in Gets
<1>1. RequestsTyped /\ WireTyped
  BY DEF RestTyped
<1>2. Gets = 1..MaxGets /\ MaxGets \in Nat /\ Gets \subseteq Nat /\ MaxPuts \in Nat
  BY RequestsAssumption DEF Gets
<1>3. getCount \in Nat /\ gets \in [Gets -> Get]
  BY <1>1, <1>2 DEF RequestsTyped
<1>4. ASSUME NEW g \in Gets
      PROVE  Afters[g] = gets[g].after /\ gets[g].after \in Nat
  <2>1. gets[g].after \in 0..MaxPuts
    BY <1>3 DEF Get
  <2> QED
    BY <1>2, <2>1 DEF Afters
<1>5. ASSUME NEW l \in At(toServer, {"get"})
      PROVE  toServer[l].index \in Gets
  <2>1. toServer[l] \in ServerMessage /\ toServer[l].type = "get"
    BY <1>1 DEF WireTyped, At
  <2> QED
    BY <2>1, ServerMessageKinds
<1>6. ASSUME NEW l \in At(toClient, {"get"})
      PROVE  toClient[l].index \in Gets
  <2>1. toClient[l] \in ClientMessage /\ toClient[l].type = "get"
    BY <1>1 DEF WireTyped, At
  <2> QED
    BY <2>1, ClientMessageKinds
<1> QED
  BY <1>2, <1>3, <1>4, <1>5, <1>6

\* Reads that are left alone, or marked as sent, and writes that go on.
LEMMA GetsKept ==
    ASSUME RestTyped, GetsOK, gets' = gets \/ gets' = SentAll, getCount' = getCount,
           putCount' \in Nat, putCount <= putCount',
           \A i \in Puts : puts[i] \in {"outstanding", "ok", "refused"}
                           => puts'[i] \in {"outstanding", "ok", "refused"}
    PROVE  GetsOK' /\ Afters' = Afters
<1>1. /\ gets \in [Gets -> Get] /\ putCount \in Nat /\ MaxPuts \in Nat /\ Puts = 1..MaxPuts
  BY RequestsAssumption DEF RestTyped, RequestsTyped, Puts
<1>2. ASSUME NEW g \in Gets
      PROVE  /\ gets'[g].status = gets[g].status /\ gets'[g].after = gets[g].after
             /\ gets'[g].seen = gets[g].seen
             /\ gets'[g].sent # gets[g].sent => gets[g].status = "outstanding"
  <2>1. CASE gets' = gets
    BY <2>1
  <2>2. CASE gets' = SentAll
    <3>1. gets'[g] = IF Waiting(g) THEN [gets[g] EXCEPT !.sent = TRUE] ELSE gets[g]
      BY <2>2 DEF SentAll
    <3>2. gets[g] \in Get
      BY <1>1
    <3> QED
      BY <3>1, <3>2 DEF Get, Waiting
  <2> QED
    BY <2>1, <2>2
<1>3. ASSUME NEW g \in Gets
      PROVE  GetOK(g)'
  <2>1. GetOK(g) /\ gets[g].after \in 0..MaxPuts
    BY <1>1 DEF GetsOK, Get
  <2>2. Waiting(g)' <=> Waiting(g)
    BY <1>2 DEF Waiting
  <2>3. gets'[g].after <= putCount'
    BY <1>1, <1>2, <2>1 DEF GetOK
  <2>4. gets[g].after # 0 => gets[g].after \in Puts
    BY <1>1, <2>1
  <2>5. Waiting(g)' /\ gets'[g].after # 0 => puts'[gets'[g].after] \in {"outstanding", "ok", "refused"}
    BY <1>2, <2>1, <2>2, <2>4 DEF GetOK
  <2>6. gets'[g].status = "offline" => ~gets'[g].sent
    BY <1>2, <2>1 DEF GetOK
  <2>7. /\ Waiting(g)' => g <= getCount'
        /\ gets'[g].status \in {"local", "ok", "refused"} => gets'[g].seen >= gets'[g].after
    BY <1>2, <2>1, <2>2 DEF GetOK
  <2> QED
    BY <2>3, <2>5, <2>6, <2>7 DEF GetOK
<1>4. Afters' = Afters
  BY <1>2 DEF Afters
<1> QED
  BY <1>3, <1>4 DEF GetsOK

\* Nothing on the wire is in line.
LEMMA NothingInLine ==
    ASSUME NEW q, q = <<>>
    PROVE  \A after, n, taken : InLine(q, after, n, taken) /\ SawThem(q, after, n)
BY DEF InLine, SawThem, At

\* The steps of the link.
LEMMA LinkStepOnReads ==
    ASSUME IInv, IInv', RestTyped, ReadyOK, ReadsOK, LinkStep
    PROVE  ReadsOK'
<1>1. toServer \in Seq(ServerMessage) /\ toClient \in Seq(ClientMessage)
  BY DEF RestTyped, WireTyped
<1>2. /\ UNCHANGED <<puts, putCount, gets, getCount, position>> /\ putCount \in Nat
  BY OrderedAreNumbers, RequestsAssumption DEF LinkStep, requestVars, RestTyped, RequestsTyped
<1>3. GetsOK' /\ Afters' = Afters
  BY <1>2, GetsKept DEF ReadsOK
<1> DEFINE A == Afters
           n == getCount
           p == position
<1>4. InLine(toServer, A, n, p) /\ SawThem(toClient, A, n)
  BY DEF ReadsOK
<1>5. ASSUME InLine(toServer', A, n, p), SawThem(toClient', A, n)
      PROVE  ReadsOK'
  BY <1>2, <1>3, <1>5 DEF ReadsOK
<1> HIDE DEF A, n, p
<1>6. \/ ~IsConnected'
      \/ /\ connectionState' = connectionState
         /\ \/ toServer' = toServer /\ toClient' = toClient
            \/ RefreshAuthToken
            \/ ServerAuth
  BY LinkStepOnTheWire
<1>7. CASE ~IsConnected'
  <2>1. toServer' = <<>> /\ toClient' = <<>>
    BY <1>7, ReadyOfNone
  <2> QED
    BY <1>5, <2>1, NothingInLine
<1>8. CASE toServer' = toServer /\ toClient' = toClient
  BY <1>4, <1>5, <1>8
<1>9. CASE RefreshAuthToken
  <2>1. /\ toClient' = toClient
        /\ \/ toServer' = toServer
           \/ \E m \in ServerMessage : m.type \in WordTypes /\ toServer' = Append(toServer, m)
    BY <1>9, RefreshAuthTokenPreservesReady
  <2>2. ASSUME NEW m \in ServerMessage, m.type \in WordTypes, toServer' = Append(toServer, m)
        PROVE  InLine(toServer', A, n, p)
    <3>1. m.type # "put" /\ m.type # "get"
      BY <2>2 DEF WordTypes
    <3> QED
      BY <1>1, <1>4, <2>2, <3>1, InLineOfOther
  <2> QED
    BY <1>4, <1>5, <2>1, <2>2
<1>10. CASE ServerAuth
  <2> DEFINE m == Head(toServer)
  <2>1. /\ toServer # <<>> /\ m.type # "put" /\ toServer' = Tail(toServer)
        /\ \/ toClient' = toClient
           \/ m.type = "auth" /\ \E ok \in BOOLEAN : toClient' = Append(toClient, AuthAnswer(ok, m))
    BY <1>10 DEF ServerAuth, clientVars
  <2>2. m \in ServerMessage
    BY <1>1, <2>1, FirstTaken
  <2>3. InLine(toServer', A, n, p)
    BY <1>1, <1>4, <2>1, InLineOfTail
  <2> HIDE DEF m
  <2>4. SawThem(toClient', A, n)
    <3>1. CASE toClient' = toClient
      BY <1>4, <3>1
    <3>2. CASE m.type = "auth" /\ \E ok \in BOOLEAN : toClient' = Append(toClient, AuthAnswer(ok, m))
      <4>1. PICK ok \in BOOLEAN : toClient' = Append(toClient, AuthAnswer(ok, m))
        BY <3>2
      <4> DEFINE a == AuthAnswer(ok, m)
      <4>2. a \in ClientMessage /\ a.type # "get"
        BY <2>2, <3>2, MessagesAre
      <4>3. toClient' = Append(toClient, a)
        BY <4>1
      <4> HIDE DEF a
      <4> QED
        BY <1>1, <1>4, <4>2, <4>3, SawThemOfAdded
    <3> QED
      BY <2>1, <3>1, <3>2
  <2> QED
    BY <1>5, <2>3, <2>4
<1> QED
  BY <1>6, <1>7, <1>8, <1>9, <1>10

\* What restoreState sends is in line: the writes first, and behind them reads
\* that wait, of which the writes they follow were sent or settled.
LEMMA RestoredInLine ==
    ASSUME RestTyped, OrderOK, GetsOK, NEW q \in Seq(ServerMessage), At(q, Requests) = {}
    PROVE  InLine(q \o Restored, Afters, getCount, position)
<1> DEFINE t == q \o Restored
<1>1. /\ PutsOf(t) = OutstandingPuts
      /\ \A k \in At(t, {"put"}), l \in At(t, {"get"}) : k < l
      /\ \A l \in At(t, {"get"}) : Waiting(t[l].index)
  BY WritesRestored
<1>2. \A l \in At(t, {"get"}) : t[l].index \in Gets
  <2>1. t \in Seq(ServerMessage)
    <3>1. Restored \in Seq(ServerMessage)
      BY RestoredProperties
    <3> QED
      BY <3>1, ConcatProperties, Zenon
  <2> HIDE DEF t
  <2>2. \A l \in At(t, {"get"}) : t[l] \in ServerMessage /\ t[l].type = "get"
    BY <2>1 DEF At
  <2> QED
    BY <2>2, ServerMessageKinds
<1> HIDE DEF t
<1>3. ASSUME NEW l \in At(t, {"get"})
      PROVE  t[l].index <= getCount /\ BehindWrites(t, l, Afters[t[l].index], position)
  <2> DEFINE g == t[l].index
             a == gets[g].after
  <2>1. g \in Gets /\ Waiting(g)
    BY <1>1, <1>2
  <2> HIDE DEF g
  <2>2. GetOK(g) /\ a \in 0..MaxPuts /\ Afters[g] = a
    BY <2>1 DEF GetsOK, RestTyped, RequestsTyped, Get, Afters
  <2>3. MaxPuts \in Nat /\ Puts = 1..MaxPuts /\ position \in Nat
    BY OrderedAreNumbers
  <2>4. a # 0 => a \in Puts /\ puts[a] \in {"outstanding", "ok", "refused"}
    BY <2>1, <2>2, <2>3 DEF GetOK
  <2> HIDE DEF a
  <2>5. a \in PutsOf(t) \/ (a <= position /\ \A i \in PutsOf(t) : a < i)
    <3>1. CASE a = 0
      <4>1. \A i \in OutstandingPuts : 0 < i
        BY <2>3 DEF OutstandingPuts
      <4> QED
        BY <1>1, <2>3, <3>1, <4>1
    <3>2. CASE a # 0 /\ puts[a] = "outstanding"
      BY <1>1, <2>4, <3>2 DEF OutstandingPuts, Outstanding
    <3>3. CASE a # 0 /\ puts[a] \in {"ok", "refused"}
      <4>1. a <= position
        BY <2>4, <3>3 DEF OrderOK, TakenBefore
      <4>2. \A i \in OutstandingPuts : a < i
        BY <2>4, <3>3, OutstandingAreNewer
      <4> QED
        BY <1>1, <4>1, <4>2
    <3> QED
      BY <2>4, <3>1, <3>2, <3>3
  <2>6. BehindWrites(t, l, a, position)
    BY <1>1, <2>5 DEF BehindWrites
  <2>7. g <= getCount
    BY <2>1, <2>2 DEF GetOK
  <2> QED
    BY <2>2, <2>6, <2>7 DEF g
<1> QED
  BY <1>3 DEF InLine, t

\* A connection that gets ready sends what is outstanding, in line.
LEMMA OnReadyOnReads ==
    ASSUME IInv, RestTyped, ReadyOK, OrderOK, ReadsOK, OnReady
    PROVE  ReadsOK'
<1>1. toServer \in Seq(ServerMessage) /\ authToken \in Token /\ putCount \in Nat
  BY OrderedAreNumbers DEF RestTyped, WireTyped, TokensTyped
<1>2. /\ realtime = "connecting" /\ toClient' = toClient
      /\ IF authToken = NoToken THEN toServer' = toServer \o Restored
         ELSE toServer' = Append(toServer, AuthRequest(authToken, TRUE))
      /\ gets' = gets \/ gets' = SentAll
      /\ UNCHANGED <<puts, putCount, getCount, position>>
  BY DEF OnReady, Hello
<1>3. GetsOK' /\ Afters' = Afters
  <2>1. putCount <= putCount' /\ putCount' \in Nat
    BY <1>1, <1>2
  <2> QED
    BY <1>2, <2>1, GetsKept DEF ReadsOK
<1>4. toServer = <<>>
  BY <1>2 DEF IInv, StateOK, WireNeedsConnection
<1>5. InLine(toServer', Afters, getCount, position)
  <2>1. CASE authToken = NoToken
    <3>1. At(toServer, Requests) = {}
      BY <1>4 DEF At
    <3> QED
      BY <1>1, <1>2, <2>1, <3>1, RestoredInLine DEF ReadsOK
  <2>2. CASE authToken # NoToken
    <3> DEFINE m == AuthRequest(authToken, TRUE)
    <3>1. m \in ServerMessage /\ m.type # "put" /\ m.type # "get"
      BY <1>1 DEF AuthRequest, ServerMessage
    <3>2. toServer' = Append(toServer, m)
      BY <1>2, <2>2
    <3> HIDE DEF m
    <3> QED
      BY <1>1, <3>1, <3>2, InLineOfOther DEF ReadsOK
  <2> QED
    BY <2>1, <2>2
<1> QED
  BY <1>2, <1>3, <1>5 DEF ReadsOK

\* So does one whose token was accepted the first time.
LEMMA OnAuthAnswerOnReads ==
    ASSUME IInv, IInv', RestTyped, ReadyOK, OrderOK, ReadsOK, OnAuthAnswer
    PROVE  ReadsOK'
<1>1. toServer \in Seq(ServerMessage) /\ toClient \in Seq(ClientMessage) /\ putCount \in Nat
  BY OrderedAreNumbers DEF RestTyped, WireTyped
<1>2. /\ toClient # <<>> /\ Head(toClient).type = "auth"
      /\ gets' = gets \/ gets' = SentAll
      /\ UNCHANGED <<puts, putCount, getCount, position>>
  BY DEF OnAuthAnswer, AuthAnswered
<1>3. GetsOK' /\ Afters' = Afters
  <2>1. putCount <= putCount' /\ putCount' \in Nat
    BY <1>1, <1>2
  <2> QED
    BY <1>2, <2>1, GetsKept DEF ReadsOK
<1>4. CASE ~Head(toClient).ok
  <2>1. ~IsConnected'
    BY <1>4, OnAuthAnswerPreservesReady
  <2>2. toServer' = <<>> /\ toClient' = <<>>
    BY <2>1, ReadyOfNone
  <2> QED
    BY <1>3, <2>2, NothingInLine DEF ReadsOK
<1>5. CASE Head(toClient).ok
  <2>1. /\ toClient' = Tail(toClient)
        /\ IF connectionState = "Authenticating" THEN toServer' = toServer \o Restored
           ELSE toServer' = toServer
    BY <1>5, OnAuthAnswerPreservesReady
  <2>2. SawThem(toClient', Afters, getCount)
    BY <1>1, <1>2, <2>1, SawThemOfTail DEF ReadsOK
  <2>3. InLine(toServer', Afters, getCount, position)
    <3>1. CASE connectionState = "Authenticating"
      <4>1. At(toServer, Requests) = {}
        BY <3>1 DEF CanSend, ReadyOK
      <4> QED
        BY <1>1, <2>1, <3>1, <4>1, RestoredInLine DEF ReadsOK
    <3>2. CASE connectionState # "Authenticating"
      BY <2>1, <3>2 DEF ReadsOK
    <3> QED
      BY <3>1, <3>2
  <2> QED
    BY <1>2, <1>3, <2>2, <2>3 DEF ReadsOK
<1> QED
  BY <1>4, <1>5

\* A new write is behind the reads, and follows none of them.
LEMMA PutOnReads ==
    ASSUME RestTyped, RiseOK, OrderOK, ReadsOK, Put
    PROVE  ReadsOK'
<1> DEFINE i == putCount + 1
           m == PutRequest(i)
<1>1. /\ i \in Puts /\ putCount' = i /\ puts' = [puts EXCEPT ![i] = "outstanding"]
      /\ toServer' = IF CanSend THEN Append(toServer, m) ELSE toServer
      /\ UNCHANGED <<toClient, gets, getCount, position>>
  BY DEF Put
<1>2. /\ toServer \in Seq(ServerMessage) /\ putCount \in Nat /\ puts \in [Puts -> PutStatus]
      /\ PutsOf(toServer) \subseteq OutstandingPuts /\ OutstandingPuts \subseteq Puts
      /\ \A j \in OutstandingPuts : j <= putCount
      /\ Puts = 1..MaxPuts /\ MaxPuts \in Nat
  BY OrderedAreNumbers DEF RestTyped, WireTyped
<1>3. GetsOK' /\ Afters' = Afters
  <2>1. putCount <= putCount' /\ putCount' \in Nat
    BY <1>1, <1>2
  <2>2. \A j \in Puts : puts[j] \in {"outstanding", "ok", "refused"}
                           => puts'[j] \in {"outstanding", "ok", "refused"}
    BY <1>1, <1>2
  <2> QED
    BY <1>1, <2>1, <2>2, GetsKept DEF ReadsOK
<1>4. m \in ServerMessage /\ m.type = "put" /\ m.index = i
  BY <1>1, MessagesAre
<1>5. \A j \in PutsOf(toServer) : j < i
  <2>1. \A j \in Puts : j <= putCount => j < i
    BY <1>2
  <2> QED
    BY <1>2, <2>1
<1>6. ASSUME NEW l \in At(toServer, {"get"})
      PROVE  Afters[toServer[l].index] \in Nat /\ Afters[toServer[l].index] < i
  <2> DEFINE g == toServer[l].index
  <2>1. g \in Gets /\ Afters[g] = gets[g].after /\ gets[g].after \in Nat
    BY ReadsAreNumbers
  <2>2. gets[g].after <= putCount
    BY <2>1 DEF ReadsOK, GetsOK, GetOK
  <2> HIDE DEF g
  <2>3. Afters[g] \in Nat /\ Afters[g] < i
    BY <1>2, <2>1, <2>2
  <2> QED
    BY <2>3 DEF g
<1>7. i \in Nat
  BY <1>2
<1> HIDE DEF m, i
<1>8. InLine(toServer', Afters, getCount, position)
  <2>1. CASE CanSend
    <3>1. InLine(Append(toServer, m), Afters, getCount, position)
      BY <1>2, <1>4, <1>5, <1>6, <1>7, InLineOfWrite DEF ReadsOK, RiseOK
    <3> QED
      BY <1>1, <2>1, <3>1
  <2>2. CASE ~CanSend
    BY <1>1, <2>2 DEF ReadsOK
  <2> QED
    BY <2>1, <2>2
<1> QED
  BY <1>1, <1>3, <1>8 DEF ReadsOK

\* The server takes the oldest write.
LEMMA ServerPutOnReads ==
    ASSUME RestTyped, RiseOK, OrderOK, ReadsOK, ServerPut
    PROVE  ReadsOK'
<1> DEFINE m == Head(toServer)
<1>1. toServer \in Seq(ServerMessage) /\ toClient \in Seq(ClientMessage) /\ putCount \in Nat
  BY OrderedAreNumbers DEF RestTyped, WireTyped
<1>2. PICK status \in {"ok", "refused"} :
      /\ toServer # <<>> /\ m.type = "put" /\ toServer' = Tail(toServer)
      /\ toClient' = Append(toClient, PutAnswer(m.index, status))
      /\ position' = m.index
      /\ UNCHANGED <<puts, putCount, gets, getCount>>
  BY DEF ServerPut
<1>3. GetsOK' /\ Afters' = Afters
  <2>1. putCount <= putCount' /\ putCount' \in Nat
    BY <1>1, <1>2
  <2> QED
    BY <1>2, <2>1, GetsKept DEF ReadsOK
<1>4. m.index \in Puts
  BY <1>1, <1>2, FirstTaken, ServerMessageKinds
<1>5. PutsOf(toServer) \subseteq Nat /\ PutsRise(toServer)
  BY PutsAreNumbers DEF RiseOK
<1>6. \A l \in At(toServer, {"get"}) : Afters[toServer[l].index] \in Nat
  BY ReadsAreNumbers
<1>7. InLine(toServer', Afters, getCount, m.index)
  BY <1>1, <1>2, <1>5, <1>6, InLineOfWriteTaken DEF ReadsOK
<1> DEFINE a == PutAnswer(m.index, status)
<1>8. a \in ClientMessage /\ a.type # "get"
  BY <1>4, MessagesAre
<1>9. toClient' = Append(toClient, a)
  BY <1>2
<1> HIDE DEF m, a
<1>10. SawThem(toClient', Afters, getCount)
  BY <1>1, <1>8, <1>9, SawThemOfAdded DEF ReadsOK
<1> QED
  BY <1>2, <1>3, <1>7, <1>10 DEF ReadsOK

\* A write is settled.
LEMMA PutAnsweredOnReads ==
    ASSUME RestTyped, OrderOK, ReadsOK, PutAnswered
    PROVE  ReadsOK'
<1> DEFINE m == Head(toClient)
<1>1. /\ toClient \in Seq(ClientMessage) /\ putCount \in Nat /\ puts \in [Puts -> PutStatus]
  BY OrderedAreNumbers DEF RestTyped, WireTyped
<1>2. /\ toClient # <<>> /\ m.type = "put" /\ toClient' = Tail(toClient)
      /\ puts' = IF Outstanding(m.index) THEN [puts EXCEPT ![m.index] = m.status] ELSE puts
      /\ UNCHANGED <<toServer, putCount, gets, getCount, position>>
  BY DEF PutAnswered
<1>3. m.status \in {"ok", "refused"}
  BY <1>1, <1>2, FirstTaken, ClientMessageKinds
<1> HIDE DEF m
<1>4. GetsOK' /\ Afters' = Afters
  <2>1. putCount <= putCount' /\ putCount' \in Nat
    BY <1>1, <1>2
  <2>2. \A j \in Puts : puts[j] \in {"outstanding", "ok", "refused"}
                           => puts'[j] \in {"outstanding", "ok", "refused"}
    BY <1>1, <1>2, <1>3
  <2> QED
    BY <1>2, <2>1, <2>2, GetsKept DEF ReadsOK
<1>5. SawThem(toClient', Afters, getCount)
  BY <1>1, <1>2, SawThemOfTail DEF ReadsOK, m
<1> QED
  BY <1>2, <1>4, <1>5 DEF ReadsOK

\* Where the newest write stands when a read of it is sent.
LEMMA NewestInLine ==
    ASSUME RestTyped, OrderOK, CanSend
    PROVE  \/ Newest \in PutsOf(toServer)
           \/ Newest <= position /\ \A i \in PutsOf(toServer) : Newest < i
<1>1. /\ MaxPuts \in Nat /\ Puts = 1..MaxPuts /\ position \in Nat
      /\ PutsOf(toServer) \subseteq OutstandingPuts /\ OutstandingPuts \subseteq Puts
      /\ puts \in [Puts -> PutStatus]
  BY OrderedAreNumbers
<1>2. /\ Newest \in 0..MaxPuts
      /\ Newest # 0 => Newest \in Puts /\ puts[Newest] \notin {"unissued", "lost"}
  BY NewestProperties DEF RestTyped
<1> DEFINE a == Newest
<1> HIDE DEF a
<1>3. CASE a = 0
  <2>1. \A i \in Puts : 0 < i
    BY <1>1
  <2>2. \A i \in PutsOf(toServer) : i \in Puts
    BY <1>1
  <2>3. \A i \in PutsOf(toServer) : a < i
    BY <1>3, <2>1, <2>2
  <2>4. a <= position
    BY <1>1, <1>3
  <2> QED
    BY <2>3, <2>4 DEF a
<1>4. CASE a # 0 /\ puts[a] = "outstanding"
  <2>1. a \in OutstandingPuts
    BY <1>2, <1>4 DEF OutstandingPuts, Outstanding, a
  <2>2. a \in PutsOf(toServer) \/ a \in PutsOf(toClient)
    BY <2>1 DEF OrderOK, WireInOrder
  <2>3. a \in PutsOf(toClient) => a <= position /\ \A i \in PutsOf(toServer) : a < i
    BY DEF OrderOK, WireInOrder, TakenBefore
  <2> QED
    BY <2>2, <2>3 DEF a
<1>5. CASE a # 0 /\ puts[a] # "outstanding"
  <2>1. a \in Puts /\ puts[a] \in {"ok", "refused"}
    BY <1>1, <1>2, <1>5 DEF PutStatus, a
  <2>2. a <= position
    BY <2>1 DEF OrderOK, TakenBefore
  <2>3. \A i \in OutstandingPuts : a < i
    BY <2>1, OutstandingAreNewer
  <2> QED
    BY <1>1, <2>2, <2>3 DEF a
<1> QED
  BY <1>3, <1>4, <1>5

\* A read that is issued follows the newest write.
LEMMA GetDataOnReads ==
    ASSUME RestTyped, OrderOK, ReadsOK, GetData
    PROVE  ReadsOK'
<1> DEFINE g == getCount + 1
           local == [status |-> "local", sent |-> FALSE, timed |-> FALSE,
                     after |-> Newest, seen |-> Newest]
           outstanding == [status |-> "outstanding", sent |-> CanSend,
                           timed |-> ~IsConnected, after |-> Newest, seen |-> 0]
<1>1. PICK new \in {local, outstanding} :
      /\ g \in Gets /\ getCount' = g /\ gets' = [gets EXCEPT ![g] = new]
      /\ \/ toServer' = toServer
         \/ CanSend /\ toServer' = Append(toServer, GetRequest(g))
      /\ UNCHANGED <<toClient, puts, putCount, position>>
  BY DEF GetData
<1>2. /\ new.after = Newest
      /\ (new.status = "local" /\ new.seen = Newest) \/ new.status = "outstanding"
  OBVIOUS
<1>3. /\ Gets = 1..MaxGets /\ MaxGets \in Nat /\ getCount \in Nat /\ gets \in [Gets -> Get]
      /\ \A h \in Gets : Afters[h] = gets[h].after /\ gets[h].after \in Nat
      /\ \A l \in At(toServer, {"get"}) : toServer[l].index \in Gets
      /\ \A k \in At(toClient, {"get"}) : toClient[k].index \in Gets
  BY ReadsAreNumbers
<1>4. /\ MaxPuts \in Nat /\ Puts = 1..MaxPuts /\ putCount \in Nat
      /\ puts \in [Puts -> PutStatus] /\ toServer \in Seq(ServerMessage)
  BY OrderedAreNumbers DEF RestTyped, WireTyped
<1>5. /\ Newest \in 0..MaxPuts /\ Newest \in Nat
      /\ Newest # 0 => Newest \in Puts /\ puts[Newest] \in {"outstanding", "ok", "refused"}
  BY <1>4, NewestProperties DEF RestTyped, PutStatus
<1>6. Newest <= putCount
  <2>1. Newest # 0 => ~(Newest > putCount)
    BY <1>5 DEF OrderOK, IssuedInOrder
  <2> QED
    BY <1>4, <1>5, <2>1
<1>7. \A h \in Gets : gets'[h] = IF h = g THEN new ELSE gets[h]
  BY <1>1, <1>3
<1>8. \A h \in Gets : h # g /\ h <= getCount + 1 => h <= getCount
  BY <1>3
<1>9. g \in Nat /\ getCount <= g /\ \A h \in Gets : h <= getCount => h # g /\ h <= g
  BY <1>3
<1> HIDE DEF g, local, outstanding
<1>10. ASSUME NEW h \in Gets
       PROVE  GetOK(h)'
  <2>1. CASE h = g
    <3>1. gets'[h] = new
      BY <1>7, <2>1
    <3>2. h <= getCount'
      BY <1>1, <1>9, <2>1
    <3> QED
      BY <1>1, <1>2, <1>5, <1>6, <3>1, <3>2 DEF GetOK, Waiting
  <2>2. CASE h # g
    <3>1. gets'[h] = gets[h] /\ GetOK(h)
      BY <1>7, <2>2 DEF ReadsOK, GetsOK
    <3>2. Waiting(h) => h <= getCount'
      BY <1>1, <1>9, <3>1 DEF GetOK
    <3> QED
      BY <1>1, <3>1, <3>2 DEF GetOK, Waiting
  <2> QED
    BY <2>1, <2>2
<1>11. Gets \subseteq Nat /\ \A h \in Gets : h <= getCount => Afters'[h] = Afters[h]
  <2>1. \A h \in Gets : Afters'[h] = gets'[h].after
    BY DEF Afters
  <2> QED
    BY <1>3, <1>7, <1>9, <2>1
<1>12. InLine(toServer, Afters', g, position) /\ SawThem(toClient, Afters', g)
  <2> DEFINE A == Afters'
  <2>1. \A h \in Gets : h <= getCount => A[h] = Afters[h]
    BY <1>11
  <2> HIDE DEF A
  <2>2. InLine(toServer, A, g, position)
    <3>1. /\ InLine(toServer, Afters, getCount, position)
          /\ getCount \in Nat /\ g \in Nat /\ getCount <= g
          /\ Gets \subseteq Nat /\ \A l \in At(toServer, {"get"}) : toServer[l].index \in Gets
      BY <1>3, <1>9, <1>11 DEF ReadsOK
    <3> QED
      BY <2>1, <3>1, InLineOfMore
  <2>3. SawThem(toClient, A, g)
    <3>1. /\ SawThem(toClient, Afters, getCount) /\ getCount \in Nat /\ g \in Nat /\ getCount <= g
          /\ Gets \subseteq Nat /\ \A k \in At(toClient, {"get"}) : toClient[k].index \in Gets
      BY <1>3, <1>9, <1>11 DEF ReadsOK
    <3> QED
      BY <2>1, <3>1, SawThemOfMore
  <2> QED
    BY <2>2, <2>3 DEF A
<1>13. InLine(toServer', Afters', g, position)
  <2>1. CASE toServer' = toServer
    BY <1>12, <2>1
  <2>2. CASE CanSend /\ toServer' = Append(toServer, GetRequest(g))
    <3> DEFINE m == GetRequest(g)
    <3>1. m \in ServerMessage /\ m.type # "put" /\ m.index = g
      BY <1>1, MessagesAre
    <3>2. Afters'[g] = Newest
      BY <1>1, <1>2, <1>7 DEF Afters
    <3>3. \/ Newest \in PutsOf(toServer)
          \/ Newest <= position /\ \A i \in PutsOf(toServer) : Newest < i
      BY <2>2, NewestInLine
    <3>4. toServer' = Append(toServer, m) /\ g <= g
      BY <1>9, <2>2
    <3> HIDE DEF m
    <3>5. \/ Afters'[m.index] \in PutsOf(toServer)
          \/ Afters'[m.index] <= position /\ \A i \in PutsOf(toServer) : Afters'[m.index] < i
      BY <3>1, <3>2, <3>3
    <3> DEFINE A == Afters'
    <3>6. InLine(toServer, A, g, position) /\ m.index <= g
      BY <1>12, <3>1, <3>4
    <3>7. \/ A[m.index] \in PutsOf(toServer)
          \/ A[m.index] <= position /\ \A i \in PutsOf(toServer) : A[m.index] < i
      BY <3>5
    <3> HIDE DEF A
    <3>8. InLine(Append(toServer, m), A, g, position)
      BY <1>4, <3>1, <3>6, <3>7, InLineOfOther
    <3> QED
      BY <3>4, <3>8 DEF A
  <2> QED
    BY <1>1, <2>1, <2>2
<1> QED
  BY <1>1, <1>10, <1>12, <1>13 DEF ReadsOK, GetsOK

\* A read of which nothing but how it stands changes.
LEMMA OneGetChanges ==
    ASSUME RestTyped, ReadsOK, UNCHANGED <<puts, putCount, getCount>>,
           NEW g \in Gets, NEW new \in Get, gets' = [gets EXCEPT ![g] = new],
           new.after = gets[g].after, new.status # "outstanding",
           new.status \in {"local", "ok", "refused"} => new.seen >= new.after,
           new.status = "offline" => ~new.sent
    PROVE  GetsOK' /\ Afters' = Afters
<1>1. /\ gets \in [Gets -> Get]
      /\ \A h \in Gets : gets'[h] = IF h = g THEN new ELSE gets[h]
  BY ReadsAreNumbers
<1>2. ASSUME NEW h \in Gets
      PROVE  GetOK(h)'
  <2>1. GetOK(h) /\ GetOK(g)
    BY DEF ReadsOK, GetsOK
  <2>2. CASE h = g
    <3>1. gets'[h] = new
      BY <1>1, <2>2
    <3> QED
      BY <2>1, <3>1 DEF GetOK, Waiting
  <2>3. CASE h # g
    <3>1. gets'[h] = gets[h]
      BY <1>1, <2>3
    <3> QED
      BY <2>1, <3>1 DEF GetOK, Waiting
  <2> QED
    BY <2>2, <2>3
<1>3. Afters' = Afters
  BY <1>1 DEF Afters
<1> QED
  BY <1>2, <1>3 DEF GetsOK

\* The offline timer finds a read that was never sent.
LEMMA GetTimesOutOnReads ==
    ASSUME RestTyped, ReadsOK, GetTimesOut
    PROVE  ReadsOK'
<1>1. PICK g \in Gets :
      /\ Waiting(g) /\ ~gets[g].sent
      /\ gets' = [gets EXCEPT ![g].status = "offline", ![g].timed = FALSE]
      /\ UNCHANGED <<toServer, toClient, puts, putCount, getCount, position>>
  BY DEF GetTimesOut, linkVars, wireVars
<1>2. gets \in [Gets -> Get] /\ gets[g] \in Get
  BY ReadsAreNumbers
<1> DEFINE new == [gets[g] EXCEPT !.status = "offline", !.timed = FALSE]
<1>3. gets' = [gets EXCEPT ![g] = new]
  BY <1>1, <1>2
<1>4. new \in Get /\ new.after = gets[g].after /\ new.status = "offline" /\ ~new.sent
  BY <1>1, <1>2 DEF Get
<1> HIDE DEF new
<1>5. GetsOK' /\ Afters' = Afters
  BY <1>1, <1>3, <1>4, OneGetChanges
<1> QED
  BY <1>1, <1>5 DEF ReadsOK

\* The answer to a read is the server's, who saw what the read follows.
LEMMA GetAnsweredOnReads ==
    ASSUME RestTyped, OrderOK, ReadsOK, GetAnswered
    PROVE  ReadsOK'
<1> DEFINE m == Head(toClient)
           g == m.index
<1>1. /\ toClient # <<>> /\ m.type = "get" /\ toClient' = Tail(toClient)
      /\ gets' = IF Waiting(g)
                 THEN [gets EXCEPT ![g].status = m.status, ![g].seen = m.seen]
                 ELSE gets
      /\ UNCHANGED <<toServer, puts, putCount, getCount, position>>
  BY DEF GetAnswered
<1>2. /\ toClient \in Seq(ClientMessage) /\ putCount \in Nat /\ gets \in [Gets -> Get]
  BY OrderedAreNumbers, ReadsAreNumbers DEF RestTyped, WireTyped
<1>3. g \in Gets /\ m.status \in {"ok", "refused"} /\ m.seen \in 0..MaxPuts
  BY <1>1, <1>2, FirstTaken, ClientMessageKinds
<1>4. SawThem(toClient', Afters, getCount) /\ Afters[g] <= m.seen
  BY <1>1, <1>2, SawThemOfTail DEF ReadsOK
<1>5. Afters[g] = gets[g].after /\ gets[g] \in Get
  BY <1>2, <1>3, ReadsAreNumbers
<1> HIDE DEF g
<1>6. GetsOK' /\ Afters' = Afters
  <2>1. CASE Waiting(g)
    <3> DEFINE new == [gets[g] EXCEPT !.status = m.status, !.seen = m.seen]
    <3>1. gets' = [gets EXCEPT ![g] = new]
      BY <1>1, <1>2, <1>3, <2>1
    <3>2. /\ new \in Get /\ new.after = gets[g].after /\ new.status \in {"ok", "refused"}
          /\ new.seen = m.seen
      BY <1>3, <1>5 DEF Get
    <3>3. new.seen >= new.after
      <4>1. gets[g].after \in Nat /\ m.seen \in Nat
        BY <1>3, ReadsAreNumbers, OrderedAreNumbers
      <4> QED
        BY <1>4, <1>5, <3>2, <4>1
    <3> HIDE DEF new
    <3> QED
      BY <1>1, <1>3, <3>1, <3>2, <3>3, OneGetChanges
  <2>2. CASE ~Waiting(g)
    <3>1. putCount <= putCount' /\ putCount' \in Nat /\ gets' = gets
      BY <1>1, <1>2, <2>2
    <3> QED
      BY <1>1, <3>1, GetsKept DEF ReadsOK
  <2> QED
    BY <2>1, <2>2
<1> QED
  BY <1>1, <1>4, <1>6 DEF ReadsOK

\* The read that the server takes is first on the wire: the writes before it
\* were taken.
LEMMA ServerGetOnReads ==
    ASSUME RestTyped, OrderOK, ReadsOK, ServerGet
    PROVE  ReadsOK'
<1> DEFINE m == Head(toServer)
           g == m.index
<1>1. PICK status \in {"ok", "refused"} :
      /\ toServer # <<>> /\ m.type = "get" /\ toServer' = Tail(toServer)
      /\ toClient' = Append(toClient, GetAnswer(g, status))
      /\ UNCHANGED <<puts, putCount, gets, getCount, position>>
  BY DEF ServerGet, requestVars
<1>2. /\ toServer \in Seq(ServerMessage) /\ toClient \in Seq(ClientMessage) /\ putCount \in Nat
      /\ position \in 0..MaxPuts
  BY OrderedAreNumbers DEF RestTyped, WireTyped, RequestsTyped
<1>3. m \in ServerMessage /\ g \in Gets
  <2>1. m \in ServerMessage
    BY <1>1, <1>2, FirstTaken
  <2> QED
    BY <1>1, <2>1, ServerMessageKinds
<1>4. GetsOK' /\ Afters' = Afters
  <2>1. putCount <= putCount' /\ putCount' \in Nat
    BY <1>1, <1>2
  <2> QED
    BY <1>1, <2>1, GetsKept DEF ReadsOK
<1>5. InLine(toServer', Afters, getCount, position)
  BY <1>1, <1>2, InLineOfTail DEF ReadsOK
<1>6. 1 \in At(toServer, {"get"}) /\ toServer[1] = m
  BY <1>1, <1>2, FirstTaken, PlacesOfTail
<1>7. g <= getCount /\ BehindWrites(toServer, 1, Afters[g], position)
  BY <1>6 DEF ReadsOK, InLine
<1>8. Afters[g] \in Nat
  BY <1>3, ReadsAreNumbers
<1>9. Afters[g] <= position
  <2>1. Afters[g] \notin PutsOf(toServer)
    <3> SUFFICES ASSUME Afters[g] \in PutsOf(toServer)
                 PROVE  FALSE
      OBVIOUS
    <3>1. PICK k \in At(toServer, {"put"}) : toServer[k].index = Afters[g]
      BY DEF PutsOf
    <3>2. k \in 1..Len(toServer) /\ toServer[k].index <= Afters[g] /\ Len(toServer) \in Nat
      BY <1>2, <1>8, <3>1, LenProperties DEF At
    <3>3. k < 1
      BY <1>7, <3>1, <3>2 DEF BehindWrites
    <3> QED
      BY <3>2, <3>3
  <2> QED
    BY <1>7, <2>1 DEF BehindWrites
<1> DEFINE a == GetAnswer(g, status)
<1>10. a \in ClientMessage /\ a.index = g /\ a.seen = position
  BY <1>2, <1>3, MessagesAre DEF GetAnswer
<1>11. toClient' = Append(toClient, a)
  BY <1>1
<1> HIDE DEF a, g, m
<1>12. SawThem(toClient', Afters, getCount)
  BY <1>2, <1>7, <1>9, <1>10, <1>11, SawThemOfAdded DEF ReadsOK
<1> QED
  BY <1>1, <1>4, <1>5, <1>12 DEF ReadsOK

\* With the app the reads that wait are given up.
LEMMA RelaunchOnReads ==
    ASSUME RestTyped, ReadsOK, Relaunch
    PROVE  ReadsOK'
<1>1. /\ toServer' = <<>> /\ toClient' = <<>>
      /\ gets' = [g \in Gets |-> IF Waiting(g) THEN [gets[g] EXCEPT !.status = "lost"] ELSE gets[g]]
      /\ UNCHANGED <<putCount, getCount, position>>
  BY DEF Relaunch, LinkRelaunch
<1>2. ASSUME NEW g \in Gets
      PROVE  GetOK(g)'
  <2>1. GetOK(g) /\ gets[g] \in Get
    BY ReadsAreNumbers DEF ReadsOK, GetsOK
  <2>2. CASE Waiting(g)
    <3>1. gets'[g] = [gets[g] EXCEPT !.status = "lost"]
      BY <1>1, <2>2
    <3>2. gets'[g].status = "lost" /\ gets'[g].after = gets[g].after
      BY <2>1, <3>1 DEF Get
    <3> QED
      BY <1>1, <2>1, <3>2 DEF GetOK, Waiting
  <2>3. CASE ~Waiting(g)
    <3>1. gets'[g] = gets[g]
      BY <1>1, <2>3
    <3> QED
      BY <1>1, <2>1, <2>3, <3>1 DEF GetOK, Waiting
  <2> QED
    BY <2>2, <2>3
<1> QED
  BY <1>1, <1>2, NothingInLine DEF ReadsOK, GetsOK

\* Every step keeps the reads behind the writes they follow.
LEMMA NextOnReads ==
    ASSUME IInv, IInv', RestTyped, ReadyOK, RiseOK, OrderOK, ReadsOK, [Next]_vars
    PROVE  ReadsOK'
<1>1. CASE LinkStep
  BY <1>1, LinkStepOnReads
<1>2. CASE OnReady
  BY <1>2, OnReadyOnReads
<1>3. CASE OnAuthAnswer
  BY <1>3, OnAuthAnswerOnReads
<1>4. CASE Put
  BY <1>4, PutOnReads
<1>5. CASE GetData
  BY <1>5, GetDataOnReads
<1>6. CASE GetTimesOut
  BY <1>6, GetTimesOutOnReads
<1>7. CASE PutAnswered
  BY <1>7, PutAnsweredOnReads
<1>8. CASE GetAnswered
  BY <1>8, GetAnsweredOnReads
<1>9. CASE ServerPut
  BY <1>9, ServerPutOnReads
<1>10. CASE ServerGet
  BY <1>10, ServerGetOnReads
<1>11. CASE Relaunch
  BY <1>11, RelaunchOnReads
<1>12. CASE UNCHANGED vars
  <2>1. UNCHANGED <<toServer, toClient, puts, putCount, gets, getCount, position>>
    BY <1>12 DEF vars, linkVars, wireVars, requestVars
  <2>2. putCount <= putCount' /\ putCount' \in Nat
    BY <2>1, OrderedAreNumbers
  <2>3. GetsOK' /\ Afters' = Afters
    BY <2>1, <2>2, GetsKept DEF ReadsOK
  <2> QED
    BY <2>1, <2>3 DEF ReadsOK
<1> QED
  BY <1>1, <1>2, <1>3, <1>4, <1>5, <1>6, <1>7, <1>8, <1>9, <1>10, <1>11, <1>12 DEF Next

\* No read is issued at first.
LEMMA InitReads == Init => ReadsOK
<1> SUFFICES ASSUME Init
             PROVE  ReadsOK
  OBVIOUS
<1>1. /\ toServer = <<>> /\ toClient = <<>> /\ putCount = 0
      /\ gets = [g \in Gets |-> [status |-> "unissued", sent |-> FALSE, timed |-> FALSE,
                                 after |-> 0, seen |-> 0]]
  BY DEF Init, LinkInit
<1>2. GetsOK
  BY <1>1 DEF GetsOK, GetOK, Waiting
<1> QED
  BY <1>1, <1>2, NothingInLine DEF ReadsOK

\* A read that is answered saw every write issued before it, whatever was lost
\* and sent again between them; one given up as offline was never sent.
THEOREM ReadsAlwaysFollowWrites == Spec => []ReadsFollowWrites
<1>1. Orderly /\ ReadsOK /\ [Next]_vars => (Orderly /\ ReadsOK)'
  BY NextPreservesOrderly, NextOnReads, NextPreservesIInv DEF Orderly
<1>2. Init => Orderly /\ ReadsOK
  BY InitOrderly, InitReads
<1>3. ReadsOK => ReadsFollowWrites
  BY DEF ReadsOK, GetsOK, GetOK, ReadsFollowWrites
<1> QED
  BY <1>1, <1>2, <1>3, PTL DEF Spec

-----------------------------------------------------------------------------
(* Tokens are of the past: a token that is made is not one that is known.   *)

\* The tokens of the messages of some types.
TokensOf(q, types) == {q[k].token : k \in At(q, types)}

\* Those in the inbox, and those on the wire.
InboxTokens == TokensOf(inbox, {"news", "fetched"})
WireTokens == TokensOf(toServer, {"auth"}) \cup TokensOf(toClient, {"auth"})

\* The tokens the app, the connection, the server and the wire hold.
KnownTokens == {user, authToken, serverToken} \cup InboxTokens \cup turnedDown \cup WireTokens

\* The server is shown, and turns down, a token: never the lack of one.
TokensArePast ==
    /\ \A t \in KnownTokens : t.serial <= minted
    /\ NoToken \notin turnedDown \cup WireTokens

\* A message that is taken takes no token along but its own.
LEMMA TokensOfTail ==
    ASSUME NEW S, NEW q \in Seq(S), q # <<>>, NEW types
    PROVE  /\ TokensOf(Tail(q), types) \subseteq TokensOf(q, types)
           /\ Head(q).type \in types => Head(q).token \in TokensOf(q, types)
<1>1. /\ \A k \in At(Tail(q), types) : k + 1 \in At(q, types) /\ Tail(q)[k] = q[k + 1]
      /\ 1 \in At(q, types) <=> Head(q).type \in types
  BY PlacesOfTail
<1>2. Head(q) = q[1]
  BY FirstTaken
<1> QED
  BY <1>1, <1>2 DEF TokensOf

\* A message that is added brings its token, if it has one.
LEMMA TokensOfAppend ==
    ASSUME NEW S, NEW q \in Seq(S), NEW m \in S, NEW types
    PROVE  /\ TokensOf(Append(q, m), types) \subseteq TokensOf(q, types) \cup {m.token}
           /\ m.type \notin types => TokensOf(Append(q, m), types) \subseteq TokensOf(q, types)
<1> DEFINE t == Append(q, m)
           n == Len(q) + 1
<1>1. m.type \in types => At(t, types) = At(q, types) \cup {n}
  BY PlacesOfAppend
<1>2. m.type \notin types => At(t, types) = At(q, types)
  BY PlacesOfAppend
<1>3. (\A k \in At(q, types) : t[k] = q[k]) /\ t[n] = m
  <2>1. \A k \in At(q, types) : t[k] = q[k]
    BY LastAdded DEF At
  <2>2. t[n] = m
    BY PlacesOfAppend
  <2> QED
    BY <2>1, <2>2
<1> HIDE DEF t, n
<1>4. m.type \in types => TokensOf(t, types) \subseteq TokensOf(q, types) \cup {m.token}
  BY <1>1, <1>3 DEF TokensOf
<1>5. m.type \notin types => TokensOf(t, types) \subseteq TokensOf(q, types)
  BY <1>2, <1>3 DEF TokensOf
<1> QED
  BY <1>4, <1>5 DEF t

\* An empty inbox or wire has none.
LEMMA TokensOfNone == \A types : TokensOf(<<>>, types) = {}
<1>1. ASSUME NEW types
      PROVE  At(<<>>, types) = {}
  BY DEF At
<1> QED
  BY <1>1 DEF TokensOf

\* The requests that are sent again have none.
LEMMA TokensOfRestored ==
    ASSUME NEW q \in Seq(ServerMessage)
    PROVE  TokensOf(q \o Restored, {"auth"}) \subseteq TokensOf(q, {"auth"})
<1>1. Restored \in Seq(ServerMessage) /\ \A k \in 1..Len(Restored) : Restored[k].type \notin {"auth"}
  BY RestoredAreRequests DEF Requests
<1>2. /\ At(q \o Restored, {"auth"}) = At(q, {"auth"})
      /\ \A k \in At(q, {"auth"}) : (q \o Restored)[k] = q[k]
  BY <1>1, PlacesOfConcat
<1> QED
  BY <1>2 DEF TokensOf

\* The tokens that a step does not make are those that were there.
LEMMA PastKept ==
    ASSUME TokensArePast, minted \in Nat, minted' \in Nat, minted <= minted',
           KnownTokens \subseteq Token,
           \A t \in KnownTokens' : t \in KnownTokens \/ t = NoToken \/ t.serial = minted',
           NoToken \notin turnedDown' \cup WireTokens'
    PROVE  TokensArePast'
<1>1. ASSUME NEW t \in KnownTokens'
      PROVE  t.serial <= minted'
  <2>1. CASE t \in KnownTokens
    <3>1. t.serial \in Nat /\ t.serial <= minted
      BY <2>1 DEF TokensArePast, Token
    <3> QED
      BY <3>1
  <2>2. CASE t = NoToken
    <3>1. t.serial = 0
      BY <2>2 DEF NoToken
    <3> QED
      BY <3>1
  <2>3. CASE t.serial = minted'
    BY <2>3
  <2> QED
    BY <2>1, <2>2, <2>3
<1> QED
  BY <1>1 DEF TokensArePast

\* What is known are tokens.
LEMMA KnownAreTokens ==
    ASSUME IInv, RestTyped
    PROVE  /\ minted \in Nat /\ KnownTokens \subseteq Token
           /\ inbox \in Seq(Letter) /\ toServer \in Seq(ServerMessage) /\ toClient \in Seq(ClientMessage)
<1>1. /\ minted \in Nat /\ user \in Token /\ authToken \in Token /\ serverToken \in Token
      /\ turnedDown \in SUBSET Token
      /\ inbox \in Seq(Letter) /\ toServer \in Seq(ServerMessage) /\ toClient \in Seq(ClientMessage)
  BY DEF IInv, LineOK, LineTyped, RestTyped, TokensTyped, WireTyped
<1>2. InboxTokens \subseteq Token
  <2>1. ASSUME NEW k \in At(inbox, {"news", "fetched"})
        PROVE  inbox[k].token \in Token
    <3>1. inbox[k] \in Letter /\ inbox[k].type \in {"news", "fetched"}
      BY <1>1 DEF At
    <3> QED
      BY <3>1 DEF Letter
  <2> QED
    BY <2>1 DEF InboxTokens, TokensOf
<1>3. WireTokens \subseteq Token
  <2>1. ASSUME NEW k \in At(toServer, {"auth"})
        PROVE  toServer[k].token \in Token
    <3>1. toServer[k] \in ServerMessage /\ toServer[k].type = "auth"
      BY <1>1 DEF At
    <3> QED
      BY <3>1, ServerMessageKinds
  <2>2. ASSUME NEW k \in At(toClient, {"auth"})
        PROVE  toClient[k].token \in Token
    <3>1. toClient[k] \in ClientMessage /\ toClient[k].type = "auth"
      BY <1>1 DEF At
    <3> QED
      BY <3>1, ClientMessageKinds
  <2> QED
    BY <2>1, <2>2 DEF WireTokens, TokensOf
<1> QED
  BY <1>1, <1>2, <1>3 DEF KnownTokens

\* FIRAuth's answers: a token that is made is the newest.
LEMMA TokenServiceKeepsPast ==
    ASSUME IInv, IInv', RestTyped, TokensArePast, TokenService
    PROVE  TokensArePast'
<1>1. /\ minted \in Nat /\ minted' \in Nat /\ KnownTokens \subseteq Token
      /\ inbox \in Seq(Letter) /\ user \in Token /\ user \in KnownTokens
  BY KnownAreTokens DEF IInv, LineOK, LineTyped, KnownTokens
<1>2. UNCHANGED <<authToken, serverToken, turnedDown, WireTokens>>
  BY DEF TokenService, clientVars, serverVars, wireVars, WireTokens
<1>3. PICK f \in fetching : AnswerToken(f) \/ RequestToken(f) \/ RefreshToken(f) \/ RefreshFails(f)
  BY DEF TokenService
<1>4. f \in Fetch /\ f.attempt \in Nat /\ f.session \in Nat
  BY DEF IInv, LineOK, LineTyped, Fetch
<1>5. ASSUME minted <= minted', user' \in {user, NoToken} \/ user'.serial = minted',
             \A t \in InboxTokens' : t \in InboxTokens \/ t \in {user, NoToken} \/ t.serial = minted'
      PROVE  TokensArePast'
  <2>1. \A t \in KnownTokens' : t \in KnownTokens \/ t = NoToken \/ t.serial = minted'
    BY <1>2, <1>5 DEF KnownTokens
  <2>2. NoToken \notin turnedDown' \cup WireTokens'
    BY <1>2 DEF TokensArePast
  <2> QED
    BY <1>1, <1>5, <2>1, <2>2, PastKept
<1>6. ASSUME NEW m \in Letter, inbox' = Append(inbox, m)
      PROVE  \A t \in InboxTokens' : t \in InboxTokens \/ (t = m.token /\ m.type = "fetched")
                                     \/ (t = m.token /\ m.type = "news")
  <2>1. /\ TokensOf(inbox', {"news", "fetched"}) \subseteq TokensOf(inbox, {"news", "fetched"}) \cup {m.token}
        /\ m.type \notin {"news", "fetched"} =>
             TokensOf(inbox', {"news", "fetched"}) \subseteq TokensOf(inbox, {"news", "fetched"})
    BY <1>1, <1>6, TokensOfAppend
  <2> QED
    BY <2>1 DEF InboxTokens
<1>7. ASSUME NEW n \in Letter, NEW m \in Letter, inbox' = inbox \o <<n, m>>, n.type = "news",
             m.type = "failed" \/ m.token = n.token
      PROVE  \A t \in InboxTokens' : t \in InboxTokens \/ t = n.token
  <2> DEFINE q == Append(inbox, n)
             types == {"news", "fetched"}
  <2>1. inbox' = Append(q, m) /\ q \in Seq(Letter)
    BY <1>1, <1>7, ConcatTwo
  <2>2. TokensOf(q, types) \subseteq TokensOf(inbox, types) \cup {n.token}
    BY <1>1, TokensOfAppend
  <2> HIDE DEF q
  <2>3. /\ TokensOf(inbox', types) \subseteq TokensOf(q, types) \cup {m.token}
        /\ m.type \notin types => TokensOf(inbox', types) \subseteq TokensOf(q, types)
    BY <2>1, TokensOfAppend
  <2>4. m.type = "failed" => m.type \notin types
    OBVIOUS
  <2> HIDE DEF types
  <2>5. TokensOf(inbox', types) \subseteq TokensOf(inbox, types) \cup {n.token}
    BY <1>7, <2>2, <2>3, <2>4
  <2> QED
    BY <2>5 DEF InboxTokens, types
<1>8. CASE AnswerToken(f)
  <2> DEFINE m == Fetched(f.attempt, user)
  <2>1. m \in Letter /\ m.token = user
    BY <1>1, <1>4 DEF Fetched, Letter
  <2>2. inbox' = Append(inbox, m) /\ user' = user /\ minted' = minted
    BY <1>8 DEF AnswerToken
  <2> HIDE DEF m
  <2>3. \A t \in InboxTokens' : t \in InboxTokens \/ t = user
    BY <1>6, <2>1, <2>2
  <2> QED
    BY <1>1, <1>5, <2>2, <2>3
<1>9. CASE RequestToken(f)
  <2>1. UNCHANGED <<inbox, user, minted>>
    BY <1>9 DEF RequestToken
  <2>2. InboxTokens' = InboxTokens
    BY <2>1 DEF InboxTokens
  <2> QED
    BY <1>1, <1>5, <2>1, <2>2
<1>10. CASE RefreshToken(f)
  <2> DEFINE token == [session |-> f.session, serial |-> minted + 1]
             n == News(token)
             m == Fetched(f.attempt, token)
  <2>1. token \in Token /\ token.serial = minted + 1
    BY <1>1, <1>4 DEF Token
  <2>2. /\ minted' = minted + 1
        /\ IF f.session = user.session
           THEN user' = token /\ inbox' = inbox \o <<n, m>>
           ELSE inbox' = Append(inbox, m) /\ user' = user
    BY <1>10 DEF RefreshToken
  <2> HIDE DEF token
  <2>3. /\ m \in Letter /\ m.type = "fetched" /\ m.token = token
        /\ n \in Letter /\ n.type = "news" /\ n.token = token
    BY <1>4, <2>1 DEF Fetched, News, Letter
  <2> HIDE DEF m, n
  <2>4. minted <= minted' /\ token.serial = minted'
    BY <1>1, <2>1, <2>2
  <2>5. CASE f.session = user.session
    <3>1. \A t \in InboxTokens' : t \in InboxTokens \/ t = token
      BY <1>7, <2>2, <2>3, <2>5
    <3> QED
      BY <1>5, <2>2, <2>4, <2>5, <3>1
  <2>6. CASE f.session # user.session
    <3>1. \A t \in InboxTokens' : t \in InboxTokens \/ t = token
      BY <1>6, <2>2, <2>3, <2>6
    <3> QED
      BY <1>5, <2>2, <2>4, <2>6, <3>1
  <2> QED
    BY <2>5, <2>6
<1>11. CASE RefreshFails(f)
  <2> DEFINE n == News(NoToken)
             m == FetchFailed(f.attempt)
  <2>1. NoToken \in Token
    BY DEF NoToken, Token
  <2>2. /\ m \in Letter /\ m.type = "failed"
        /\ n \in Letter /\ n.type = "news" /\ n.token = NoToken
    BY <1>4, <2>1 DEF FetchFailed, News, Letter
  <2>3. /\ minted' = minted
        /\ \/ inbox' = Append(inbox, m) /\ user' = user
           \/ user' = NoToken /\ inbox' = inbox \o <<n, m>>
    BY <1>11 DEF RefreshFails
  <2> HIDE DEF n, m
  <2>4. \A t \in InboxTokens' : t \in InboxTokens \/ t = NoToken
    BY <1>6, <1>7, <2>2, <2>3
  <2>5. minted <= minted'
    BY <1>1, <2>3
  <2> QED
    BY <1>5, <2>3, <2>4, <2>5
<1> QED
  BY <1>3, <1>8, <1>9, <1>10, <1>11

\* The inbox is read.
LEMMA InboxReadKeepsPast ==
    ASSUME IInv, IInv', RestTyped, TokensArePast, TokenFetched \/ RefreshAuthToken
    PROVE  TokensArePast'
<1> DEFINE m == Head(inbox)
<1>1. /\ minted \in Nat /\ KnownTokens \subseteq Token
      /\ inbox \in Seq(Letter) /\ toServer \in Seq(ServerMessage)
  BY KnownAreTokens
<1>2. /\ inbox # <<>> /\ inbox' = Tail(inbox)
      /\ UNCHANGED <<user, minted, serverToken, turnedDown, toClient>>
      /\ authToken' = authToken \/ (authToken' = m.token /\ m.type \in {"news", "fetched"})
  BY DEF TokenFetched, RefreshAuthToken, serverVars, wireVars
<1>3. /\ InboxTokens' \subseteq InboxTokens
      /\ m.type \in {"news", "fetched"} => m.token \in InboxTokens
  BY <1>1, <1>2, TokensOfTail DEF InboxTokens
<1>4. TokensOf(toServer', {"auth"}) \subseteq TokensOf(toServer, {"auth"}) \cup ({authToken'} \ {NoToken})
  <2>1. CASE toServer' = toServer
    BY <2>1
  <2>2. CASE RefreshAuthToken /\ toServer' # toServer
    <3>1. toServer' = toServer \o Word(authToken')
      BY <2>2 DEF RefreshAuthToken
    <3>2. authToken' \in Token
      <4>1. authToken' \in KnownTokens
        BY <1>2, <1>3 DEF KnownTokens
      <4> QED
        BY <1>1, <4>1
    <3>3. CASE authToken' = NoToken
      <4>1. Unauth \in ServerMessage /\ Unauth.type = "unauth"
        BY MessagesAre
      <4>2. toServer' = Append(toServer, Unauth)
        BY <1>1, <3>1, <3>3, <4>1, ConcatOne DEF Word
      <4> QED
        BY <1>1, <4>1, <4>2, TokensOfAppend
    <3>4. CASE authToken' # NoToken
      <4> DEFINE w == AuthRequest(authToken', FALSE)
      <4>1. w \in ServerMessage /\ w.token = authToken'
        BY <3>2, MessagesAre
      <4>2. toServer' = toServer \o <<w>>
        BY <3>1, <3>4 DEF Word
      <4> HIDE DEF w
      <4>3. toServer' = Append(toServer, w)
        BY <1>1, <4>1, <4>2, ConcatOne
      <4> QED
        BY <1>1, <3>4, <4>1, <4>3, TokensOfAppend
    <3> QED
      BY <3>3, <3>4
  <2> QED
    BY <2>1, <2>2 DEF TokenFetched, wireVars
<1> HIDE DEF m
<1>5. WireTokens' \subseteq WireTokens \cup ({authToken'} \ {NoToken})
  BY <1>2, <1>4 DEF WireTokens
<1>6. authToken' \in KnownTokens
  BY <1>2, <1>3 DEF KnownTokens
<1>7. \A t \in KnownTokens' : t \in KnownTokens
  BY <1>2, <1>3, <1>5, <1>6 DEF KnownTokens
<1>8. NoToken \notin turnedDown' \cup WireTokens'
  BY <1>2, <1>5 DEF TokensArePast
<1>9. minted' \in Nat /\ minted <= minted'
  BY <1>1, <1>2
<1> QED
  BY <1>1, <1>7, <1>8, <1>9, PastKept

\* The connection is told of its end: a token is turned down, or none.
LEMMA ClosedKeepsPast ==
    ASSUME IInv, RestTyped, TokensArePast, UNCHANGED <<minted, user>>,
           toServer' = <<>>, toClient' = <<>>, serverToken' \in {serverToken, NoToken},
           inbox' = inbox \/ inbox' = <<>>, authToken' \in {authToken, NoToken},
           turnedDown' \subseteq turnedDown \cup ((WireTokens \cup {serverToken}) \ {NoToken})
    PROVE  TokensArePast'
<1>1. minted \in Nat /\ KnownTokens \subseteq Token
  BY KnownAreTokens
<1>2. WireTokens' = {}
  BY TokensOfNone DEF WireTokens
<1>3. InboxTokens' \subseteq InboxTokens
  BY TokensOfNone DEF InboxTokens
<1>4. \A t \in KnownTokens' : t \in KnownTokens \/ t = NoToken
  BY <1>2, <1>3 DEF KnownTokens
<1>5. NoToken \notin turnedDown' \cup WireTokens'
  BY <1>2 DEF TokensArePast
<1>6. minted' \in Nat /\ minted <= minted'
  BY <1>1
<1> QED
  BY <1>1, <1>4, <1>5, <1>6, PastKept

\* The wire changes, and with it what the server knows.
LEMMA WireKeepsPast ==
    ASSUME IInv, RestTyped, TokensArePast, UNCHANGED <<minted, user, inbox, authToken, turnedDown>>,
           serverToken' \in {serverToken, NoToken} \cup WireTokens,
           WireTokens' \subseteq WireTokens \cup ({authToken} \ {NoToken})
    PROVE  TokensArePast'
<1>1. minted \in Nat /\ KnownTokens \subseteq Token
  BY KnownAreTokens
<1>2. InboxTokens' = InboxTokens
  BY DEF InboxTokens
<1>3. \A t \in KnownTokens' : t \in KnownTokens \/ t = NoToken
  BY <1>2 DEF KnownTokens
<1>4. NoToken \notin turnedDown' \cup WireTokens'
  BY DEF TokensArePast
<1>5. minted' \in Nat /\ minted <= minted'
  BY <1>1
<1> QED
  BY <1>1, <1>3, <1>4, <1>5, PastKept

\* The user signs in, with a token that is new, or out.
LEMMA AccountKeepsPast ==
    ASSUME IInv, IInv', RestTyped, TokensArePast, AccountChanges
    PROVE  TokensArePast'
<1>1. minted \in Nat /\ minted' \in Nat /\ KnownTokens \subseteq Token /\ inbox \in Seq(Letter) /\ user' \in Token
  BY KnownAreTokens DEF IInv, LineOK, LineTyped
<1>2. /\ UNCHANGED <<authToken, serverToken, turnedDown, WireTokens>>
      /\ inbox' = Append(inbox, News(user'))
      /\ \/ minted' = minted + 1 /\ user' = [session |-> minted + 1, serial |-> minted + 1]
         \/ user' = NoToken /\ minted' = minted
  BY DEF AccountChanges, clientVars, serverVars, wireVars, WireTokens
<1>3. minted <= minted' /\ (user' = NoToken \/ user'.serial = minted')
  BY <1>1, <1>2
<1>4. News(user') \in Letter /\ News(user').token = user'
  BY <1>1 DEF News, Letter
<1>5. InboxTokens' \subseteq InboxTokens \cup {user'}
  BY <1>1, <1>2, <1>4, TokensOfAppend DEF InboxTokens
<1>6. \A t \in KnownTokens' : t \in KnownTokens \/ t = NoToken \/ t.serial = minted'
  BY <1>2, <1>3, <1>5 DEF KnownTokens
<1>7. NoToken \notin turnedDown' \cup WireTokens'
  BY <1>2 DEF TokensArePast
<1> QED
  BY <1>1, <1>3, <1>6, <1>7, PastKept

\* Requests and their answers carry no token.
LEMMA RequestStepKeepsPast ==
    ASSUME IInv, RestTyped, TokensArePast,
           \/ Put \/ GetData \/ GetTimesOut \/ PutAnswered \/ GetAnswered
           \/ ServerPut \/ ServerGet
    PROVE  TokensArePast'
<1>1. toServer \in Seq(ServerMessage) /\ toClient \in Seq(ClientMessage) /\ RequestsTyped
  BY DEF RestTyped, WireTyped
<1>2. UNCHANGED <<minted, user, inbox, authToken, turnedDown, serverToken>>
  BY DEF Put, GetData, GetTimesOut, PutAnswered, GetAnswered, ServerPut, ServerGet,
         linkVars, clientVars, authVars, serverVars, historyVars
<1>3. ASSUME WireTokens' \subseteq WireTokens
      PROVE  TokensArePast'
  BY <1>2, <1>3, WireKeepsPast
<1>4. ASSUME NEW m \in ServerMessage, m.type # "auth", toClient' = toClient,
             toServer' = Append(toServer, m) \/ toServer' = toServer
      PROVE  TokensArePast'
  <2>1. TokensOf(toServer', {"auth"}) \subseteq TokensOf(toServer, {"auth"})
    BY <1>1, <1>4, TokensOfAppend
  <2> QED
    BY <1>3, <1>4, <2>1 DEF WireTokens
<1>5. CASE Put
  <2> DEFINE i == putCount + 1
  <2>1. /\ i \in Puts /\ toClient' = toClient
        /\ toServer' = Append(toServer, PutRequest(i)) \/ toServer' = toServer
    BY <1>5 DEF Put
  <2>2. PutRequest(i) \in ServerMessage /\ PutRequest(i).type = "put"
    BY <2>1 DEF PutRequest, ServerMessage
  <2> HIDE DEF i
  <2> QED
    BY <1>4, <2>1, <2>2
<1>6. CASE GetData
  <2> DEFINE g == getCount + 1
  <2>1. /\ g \in Gets /\ toClient' = toClient
        /\ toServer' = Append(toServer, GetRequest(g)) \/ toServer' = toServer
    BY <1>6 DEF GetData
  <2>2. GetRequest(g) \in ServerMessage /\ GetRequest(g).type = "get"
    BY <2>1 DEF GetRequest, ServerMessage
  <2> HIDE DEF g
  <2> QED
    BY <1>4, <2>1, <2>2
<1>7. CASE GetTimesOut
  <2>1. UNCHANGED <<toServer, toClient>>
    BY <1>7 DEF GetTimesOut, linkVars, wireVars
  <2> QED
    BY <1>3, <2>1 DEF WireTokens
<1>8. CASE PutAnswered \/ GetAnswered
  <2>1. toClient # <<>> /\ toClient' = Tail(toClient) /\ toServer' = toServer
    BY <1>8 DEF PutAnswered, GetAnswered
  <2>2. TokensOf(toClient', {"auth"}) \subseteq TokensOf(toClient, {"auth"})
    BY <1>1, <2>1, TokensOfTail
  <2> QED
    BY <1>3, <2>1, <2>2 DEF WireTokens
<1>9. CASE ServerPut \/ ServerGet
  <2>1. toServer # <<>> /\ toServer' = Tail(toServer)
    BY <1>9 DEF ServerPut, ServerGet
  <2>2. \E m \in ClientMessage : m.type # "auth" /\ toClient' = Append(toClient, m)
    <3>1. Head(toServer) \in ServerMessage
      BY <1>1, <2>1, FirstTaken
    <3>2. \E status \in {"ok", "refused"} :
             \/ /\ Head(toServer).type = "put"
                /\ toClient' = Append(toClient, PutAnswer(Head(toServer).index, status))
             \/ /\ Head(toServer).type = "get"
                /\ toClient' = Append(toClient, GetAnswer(Head(toServer).index, status))
      BY <1>9 DEF ServerPut, ServerGet
    <3>3. \A status \in {"ok", "refused"} :
            /\ Head(toServer).type = "put" =>
                 /\ PutAnswer(Head(toServer).index, status) \in ClientMessage
                 /\ PutAnswer(Head(toServer).index, status).type # "auth"
            /\ Head(toServer).type = "get" =>
                 /\ GetAnswer(Head(toServer).index, status) \in ClientMessage
                 /\ GetAnswer(Head(toServer).index, status).type # "auth"
      BY <1>1, <3>1, ServerMessageKinds, MessagesAre DEF RequestsTyped
    <3> QED
      BY <3>2, <3>3
  <2>3. TokensOf(toServer', {"auth"}) \subseteq TokensOf(toServer, {"auth"})
    BY <1>1, <2>1, TokensOfTail
  <2>4. TokensOf(toClient', {"auth"}) \subseteq TokensOf(toClient, {"auth"})
    BY <1>1, <2>2, TokensOfAppend
  <2> QED
    BY <1>3, <2>3, <2>4 DEF WireTokens
<1> QED
  BY <1>5, <1>6, <1>7, <1>8, <1>9

\* Words and their answers carry the connection's token, or the word's.
LEMMA WordStepKeepsPast ==
    ASSUME IInv, RestTyped, TokensArePast, ServerAuth \/ OnReady \/ OnAuthAnswer
    PROVE  TokensArePast'
<1>1. /\ toServer \in Seq(ServerMessage) /\ toClient \in Seq(ClientMessage)
      /\ authToken \in Token
  BY DEF RestTyped, WireTyped, TokensTyped
<1>2. CASE ServerAuth
  <2> DEFINE m == Head(toServer)
  <2>1. /\ toServer # <<>> /\ toServer' = Tail(toServer)
        /\ UNCHANGED <<minted, user, inbox, authToken, turnedDown>>
        /\ \/ toClient' = toClient /\ serverToken' = NoToken
           \/ /\ m.type = "auth" /\ serverToken' \in {m.token, serverToken}
              /\ \E ok \in BOOLEAN : toClient' = Append(toClient, AuthAnswer(ok, m))
    BY <1>2 DEF ServerAuth, clientVars, authVars
  <2>2. m \in ServerMessage
    BY <1>1, <2>1, FirstTaken
  <2>3. /\ TokensOf(toServer', {"auth"}) \subseteq TokensOf(toServer, {"auth"})
        /\ m.type = "auth" => m.token \in TokensOf(toServer, {"auth"})
    BY <1>1, <2>1, TokensOfTail
  <2>4. \A ok \in BOOLEAN : m.type = "auth" =>
          AuthAnswer(ok, m) \in ClientMessage /\ AuthAnswer(ok, m).token = m.token
    BY <2>2, MessagesAre
  <2> HIDE DEF m
  <2>5. CASE toClient' = toClient /\ serverToken' = NoToken
    BY <2>1, <2>3, <2>5, WireKeepsPast DEF WireTokens
  <2>6. CASE /\ m.type = "auth" /\ serverToken' \in {m.token, serverToken}
             /\ \E ok \in BOOLEAN : toClient' = Append(toClient, AuthAnswer(ok, m))
    <3>1. PICK ok \in BOOLEAN : toClient' = Append(toClient, AuthAnswer(ok, m))
      BY <2>6
    <3>2. TokensOf(toClient', {"auth"}) \subseteq TokensOf(toClient, {"auth"}) \cup {m.token}
      <4> DEFINE a == AuthAnswer(ok, m)
      <4>1. a \in ClientMessage /\ a.token = m.token /\ toClient' = Append(toClient, a)
        BY <2>4, <2>6, <3>1
      <4> HIDE DEF a
      <4> QED
        BY <1>1, <4>1, TokensOfAppend
    <3>3. WireTokens' \subseteq WireTokens /\ m.token \in WireTokens
      BY <2>3, <2>6, <3>2 DEF WireTokens
    <3> QED
      BY <2>1, <2>6, <3>3, WireKeepsPast
  <2> QED
    BY <2>1, <2>5, <2>6
<1>3. CASE OnReady
  <2>1. /\ UNCHANGED <<minted, user, inbox, authToken, turnedDown, serverToken, toClient>>
        /\ \/ toServer' = toServer \o Restored
           \/ authToken # NoToken /\ toServer' = Append(toServer, AuthRequest(authToken, TRUE))
    BY <1>3 DEF OnReady, Hello, authVars, serverVars, historyVars
  <2>2. TokensOf(toServer', {"auth"}) \subseteq TokensOf(toServer, {"auth"}) \cup ({authToken} \ {NoToken})
    <3>1. CASE toServer' = toServer \o Restored
      BY <1>1, <3>1, TokensOfRestored
    <3>2. CASE authToken # NoToken /\ toServer' = Append(toServer, AuthRequest(authToken, TRUE))
      <4> DEFINE w == AuthRequest(authToken, TRUE)
      <4>1. w \in ServerMessage /\ w.token = authToken
        BY <1>1, MessagesAre
      <4>2. toServer' = Append(toServer, w) /\ authToken # NoToken
        BY <3>2
      <4> HIDE DEF w
      <4> QED
        BY <1>1, <4>1, <4>2, TokensOfAppend
    <3> QED
      BY <2>1, <3>1, <3>2
  <2>3. WireTokens' \subseteq WireTokens \cup ({authToken} \ {NoToken})
    BY <2>1, <2>2 DEF WireTokens
  <2> QED
    BY <2>1, <2>3, WireKeepsPast
<1>4. CASE OnAuthAnswer
  <2> DEFINE m == Head(toClient)
  <2>1. /\ toClient # <<>> /\ m.type = "auth" /\ UNCHANGED <<minted, user, inbox>>
        /\ \/ /\ toServer' = toServer \o Restored \/ toServer' = toServer
              /\ toClient' = Tail(toClient)
              /\ UNCHANGED <<authToken, serverToken, turnedDown>>
           \/ /\ authToken' = NoToken /\ turnedDown' = turnedDown \cup {m.token}
              /\ toServer' = <<>> /\ toClient' = <<>> /\ serverToken' = NoToken
    BY <1>4 DEF OnAuthAnswer, AuthAnswered, TokenTurnedDown, Close, authVars
  <2>2. /\ TokensOf(Tail(toClient), {"auth"}) \subseteq TokensOf(toClient, {"auth"})
        /\ m.token \in TokensOf(toClient, {"auth"})
    BY <1>1, <2>1, TokensOfTail
  <2> HIDE DEF m
  <2>3. CASE /\ toServer' = toServer \o Restored \/ toServer' = toServer
             /\ toClient' = Tail(toClient)
             /\ UNCHANGED <<authToken, serverToken, turnedDown>>
    <3>1. TokensOf(toServer', {"auth"}) \subseteq TokensOf(toServer, {"auth"})
      BY <1>1, <2>3, TokensOfRestored
    <3>2. WireTokens' \subseteq WireTokens
      BY <2>2, <2>3, <3>1 DEF WireTokens
    <3> QED
      BY <2>1, <2>3, <3>2, WireKeepsPast
  <2>4. CASE /\ authToken' = NoToken /\ turnedDown' = turnedDown \cup {m.token}
             /\ toServer' = <<>> /\ toClient' = <<>> /\ serverToken' = NoToken
    <3>1. m.token \in WireTokens /\ m.token # NoToken
      BY <2>2 DEF WireTokens, TokensArePast
    <3> QED
      BY <2>1, <2>4, <3>1, ClosedKeepsPast
  <2> QED
    BY <2>1, <2>3, <2>4
<1> QED
  BY <1>2, <1>3, <1>4

\* Every step, by cases.
LEMMA NextKeepsPast ==
    ASSUME IInv, IInv', RestTyped, TokensArePast, [Next]_vars
    PROVE  TokensArePast'
<1>1. CASE LinkStep
  <2>1. CASE TokenService
    BY <2>1, TokenServiceKeepsPast
  <2>2. CASE TokenFetched \/ RefreshAuthToken
    BY <2>2, InboxReadKeepsPast
  <2>3. CASE ServerAuth
    BY <2>3, WordStepKeepsPast
  <2>4. ASSUME UNCHANGED <<minted, user, inbox, authToken, turnedDown, serverToken, toServer, toClient>>
        PROVE  TokensArePast'
    BY <2>4, WireKeepsPast DEF WireTokens
  <2>5. CASE Retry
    BY <2>4, <2>5 DEF Retry, serverVars, wireVars, historyVars
  <2>6. CASE Drop
    <3>1. /\ UNCHANGED <<minted, user, inbox, authToken, turnedDown>>
          /\ toServer' = <<>> /\ toClient' = <<>> /\ serverToken' = NoToken
      BY <2>6 DEF Drop, Close, authVars
    <3> QED
      BY <3>1, ClosedKeepsPast
  <2>7. CASE AuthRevoked
    <3>1. /\ UNCHANGED <<minted, user, inbox>> /\ authToken' = NoToken
          /\ turnedDown' = turnedDown \cup {serverToken} /\ serverToken # NoToken
          /\ toServer' = <<>> /\ toClient' = <<>> /\ serverToken' = NoToken
      BY <2>7 DEF AuthRevoked, TokenTurnedDown, Close, authVars
    <3> QED
      BY <3>1, ClosedKeepsPast
  <2>8. ASSUME NEW reason, InterruptForReason(reason)
        PROVE  TokensArePast'
    <3>1. /\ UNCHANGED <<minted, user, inbox, authToken, turnedDown>>
          /\ \/ toServer' = <<>> /\ toClient' = <<>> /\ serverToken' = NoToken
             \/ UNCHANGED <<toServer, toClient, serverToken>>
      BY <2>8 DEF InterruptForReason, Close, authVars, wireVars
    <3> QED
      BY <2>4, <3>1, ClosedKeepsPast
  <2>9. ASSUME NEW reason, ResumeForReason(reason)
        PROVE  TokensArePast'
    BY <2>4, <2>9 DEF ResumeForReason, authVars, serverVars, wireVars
  <2>10. CASE Nudge
    BY <2>4, <2>10 DEF Nudge, authVars, serverVars, wireVars
  <2>11. CASE AccountChanges
    BY <2>11, AccountKeepsPast
  <2> QED
    BY <1>1, <2>1, <2>2, <2>3, <2>5, <2>6, <2>7, <2>8, <2>9, <2>10, <2>11
       DEF LinkStep, LinkEvent, Kill, GoOffline, GoOnline, Open
<1>2. CASE OnReady \/ OnAuthAnswer
  BY <1>2, WordStepKeepsPast
<1>3. CASE Put \/ GetData \/ GetTimesOut \/ PutAnswered \/ GetAnswered \/ ServerPut \/ ServerGet
  BY <1>3, RequestStepKeepsPast
<1>4. CASE Relaunch
  <2>1. /\ UNCHANGED <<minted, user, turnedDown>> /\ inbox' = <<>> /\ authToken' = NoToken
        /\ toServer' = <<>> /\ toClient' = <<>> /\ serverToken' = NoToken
    BY <1>4 DEF Relaunch, LinkRelaunch
  <2> QED
    BY <2>1, ClosedKeepsPast
<1>5. CASE UNCHANGED vars
  <2>1. UNCHANGED <<minted, user, inbox, authToken, turnedDown, serverToken, toServer, toClient>>
    BY <1>5 DEF vars, linkVars, clientVars, authVars, serverVars, wireVars, historyVars
  <2> QED
    BY <2>1, WireKeepsPast DEF WireTokens
<1> QED
  BY <1>1, <1>2, <1>3, <1>4, <1>5 DEF Next

-----------------------------------------------------------------------------
(* The wish for a new token, after one was turned down.                     *)

\* The tokens that answer an attempt.
AnswersTo(q, attempt) == {q[k].token : k \in {l \in At(q, {"fetched"}) : q[l].attempt = attempt}}

\* A request for a new token of the latest attempt, from the present user.
IsWish(f) == f.attempt = currentFetchTokenAttempt /\ f.forced /\ f.session \in {0, user.session}

\* A wish waits for the interrupts to end, and for nothing else.
ForceKept == interruptReasons = {} => ~forceTokenRefreshes

\* The user's token was turned down: a new one is wished for or asked for.
Wished ==
    ~forceLost /\ user \in turnedDown =>
      \/ forceTokenRefreshes
      \/ scheduledRetry = "forced"
      \/ connectionState = "GettingToken" /\ \E f \in fetching : IsWish(f)

\* The answer that is awaited was not turned down.
FreshAwaited ==
    connectionState = "GettingToken" /\ ~forceLost =>
      \A t \in AnswersTo(inbox, currentFetchTokenAttempt) : t \notin turnedDown

\* The three together.
WishOK == ForceKept /\ Wished /\ FreshAwaited

\* An answer that is read leaves the others.
LEMMA AnswersOfTail ==
    ASSUME NEW S, NEW q \in Seq(S), q # <<>>, NEW attempt
    PROVE  AnswersTo(Tail(q), attempt) \subseteq AnswersTo(q, attempt)
<1>1. \A k \in At(Tail(q), {"fetched"}) : k + 1 \in At(q, {"fetched"}) /\ Tail(q)[k] = q[k + 1]
  BY PlacesOfTail
<1> QED
  BY <1>1 DEF AnswersTo

\* A letter that is posted answers an attempt, or leaves its answers alone.
LEMMA AnswersOfAppend ==
    ASSUME NEW S, NEW q \in Seq(S), NEW m \in S, NEW attempt
    PROVE  /\ AnswersTo(Append(q, m), attempt) \subseteq AnswersTo(q, attempt) \cup {m.token}
           /\ m.type # "fetched" \/ m.attempt # attempt =>
                AnswersTo(Append(q, m), attempt) \subseteq AnswersTo(q, attempt)
<1> DEFINE t == Append(q, m)
           n == Len(q) + 1
           types == {"fetched"}
<1>1. m.type \in types => At(t, types) = At(q, types) \cup {n}
  BY PlacesOfAppend
<1>2. m.type \notin types => At(t, types) = At(q, types)
  BY PlacesOfAppend
<1>3. \A k \in At(q, types) : t[k] = q[k]
  BY LastAdded DEF At
<1>4. t[n] = m
  BY PlacesOfAppend
<1> HIDE DEF t, n
<1>5. AnswersTo(t, attempt) \subseteq AnswersTo(q, attempt) \cup {m.token}
  BY <1>1, <1>2, <1>3, <1>4 DEF AnswersTo
<1>6. m.type # "fetched" \/ m.attempt # attempt => AnswersTo(t, attempt) \subseteq AnswersTo(q, attempt)
  BY <1>1, <1>2, <1>3, <1>4 DEF AnswersTo
<1> QED
  BY <1>5, <1>6 DEF t

\* What leaves the connection and the user alone leaves the wish alone.
LEMMA WishKept ==
    ASSUME WishOK,
           UNCHANGED <<connectionState, interruptReasons, forceTokenRefreshes, scheduledRetry,
                       currentFetchTokenAttempt, fetching, user, turnedDown, forceLost>>,
           \A t \in AnswersTo(inbox', currentFetchTokenAttempt) :
              t \in AnswersTo(inbox, currentFetchTokenAttempt)
    PROVE  WishOK'
<1>1. ForceKept' /\ Wished'
  BY DEF WishOK, ForceKept, Wished, IsWish
<1>2. FreshAwaited'
  BY DEF WishOK, FreshAwaited
<1> QED
  BY <1>1, <1>2 DEF WishOK

\* Of a connection that is being opened, or open: nothing is wished for, and
\* the user's token was not turned down.
LEMMA NoWishWhenOpen ==
    ASSUME IInv, WishOK, realtime # "nil"
    PROVE  /\ interruptReasons = {} /\ ~forceTokenRefreshes /\ scheduledRetry = "none"
           /\ connectionState \notin {"Disconnected", "GettingToken"}
           /\ forceLost \/ user \notin turnedDown
<1>1. interruptReasons = {}
  BY DEF IInv, StateOK, TriesUnlessInterrupted
<1>2. connectionState \notin {"Disconnected", "GettingToken"}
  BY DEF IInv, StateOK, StateTyped, AssertionsHold, IsConnected
<1>3. scheduledRetry = "none"
  BY <1>2 DEF IInv, StateOK, AssertionsHold
<1>4. ~forceTokenRefreshes
  BY <1>1 DEF WishOK, ForceKept
<1> QED
  BY <1>1, <1>2, <1>3, <1>4 DEF WishOK, Wished

\* A connection that is closed because a token was turned down wishes for a
\* new one; one that is closed for another reason had no token turned down.
LEMMA CloseKeepsWish ==
    ASSUME IInv, RestTyped, WishOK, NEW reasons, NEW force \in BOOLEAN, Close(reasons, force),
           interruptReasons' = reasons, user' = user,
           force \/ (realtime # "nil" /\ turnedDown' = turnedDown)
    PROVE  WishOK'
<1>1. connectionState' = "Disconnected" /\ TryScheduleReconnect(reasons, force)
  BY DEF Close
<1>2. FreshAwaited'
  BY <1>1 DEF FreshAwaited
<1>3. CASE force
  <2>1. ForceKept' /\ (forceTokenRefreshes' \/ scheduledRetry' = "forced")
    BY <1>1, <1>3 DEF TryScheduleReconnect, ForceKept
  <2> QED
    BY <1>2, <2>1 DEF WishOK, Wished
<1>4. CASE ~force
  <2>1. /\ realtime # "nil" /\ turnedDown' = turnedDown
        /\ forceLost \/ user \notin turnedDown
    BY <1>4, NoWishWhenOpen
  <2>2. ~forceTokenRefreshes' /\ (forceLost => forceLost')
    BY <1>1, <1>4 DEF TryScheduleReconnect
  <2> QED
    BY <1>2, <2>1, <2>2 DEF WishOK, Wished, ForceKept
<1> QED
  BY <1>3, <1>4

\* An attempt that is scheduled anew, of a connection that is down.
LEMMA ScheduleKeepsWish ==
    ASSUME IInv, RestTyped, WishOK, NEW reasons,
           TryScheduleReconnect(reasons, forceTokenRefreshes), interruptReasons' = reasons,
           connectionState = "Disconnected", connectionState' = "Disconnected",
           UNCHANGED <<user, turnedDown>>
    PROVE  WishOK'
<1>1. forceTokenRefreshes \in BOOLEAN /\ forceLost \in BOOLEAN
  BY DEF RestTyped, FlagsTyped
<1>2. FreshAwaited'
  BY DEF FreshAwaited
<1>3. ~forceLost /\ user \in turnedDown => forceTokenRefreshes \/ scheduledRetry = "forced"
  BY DEF WishOK, Wished
<1>4. ForceKept'
  BY DEF TryScheduleReconnect, ForceKept
<1>5. Wished'
  BY <1>1, <1>3 DEF TryScheduleReconnect, Wished
<1> QED
  BY <1>2, <1>4, <1>5 DEF WishOK

\* An attempt that begins asks for what it was scheduled to ask for.
LEMMA RetryKeepsWish ==
    ASSUME IInv, WishOK, Retry
    PROVE  WishOK'
<1>1. /\ scheduledRetry # "none" /\ connectionState' = "GettingToken"
      /\ currentFetchTokenAttempt' = currentFetchTokenAttempt + 1
      /\ UNCHANGED <<interruptReasons, forceTokenRefreshes, user, turnedDown, forceLost, inbox>>
  BY DEF Retry, historyVars
<1>2. connectionState = "Disconnected"
  BY <1>1 DEF IInv, StateOK, AssertionsHold
<1>3. PICK f : /\ f = [attempt |-> currentFetchTokenAttempt + 1,
                      forced |-> scheduledRetry = "forced", session |-> 0]
               /\ f \in fetching'
  BY DEF Retry
<1>4. ForceKept'
  BY <1>1 DEF WishOK, ForceKept
<1>5. Wished'
  <2>1. CASE scheduledRetry = "forced"
    <3>1. f.attempt = currentFetchTokenAttempt' /\ f.forced /\ f.session = 0
      BY <1>1, <1>3, <2>1
    <3>2. IsWish(f)'
      BY <3>1 DEF IsWish
    <3> QED
      BY <1>1, <1>3, <3>2 DEF Wished
  <2>2. CASE scheduledRetry # "forced"
    BY <1>1, <1>2, <2>2 DEF WishOK, Wished
  <2> QED
    BY <2>1, <2>2
<1>6. AnswersTo(inbox, currentFetchTokenAttempt') = {}
  <2>1. \A k \in At(inbox, {"fetched"}) : inbox[k].attempt \in 0..currentFetchTokenAttempt
    BY DEF At, IInv, LineOK, AttemptsArePast, Answers
  <2>2. currentFetchTokenAttempt \in Nat
    BY DEF IInv, LineOK, LineTyped
  <2>3. \A k \in At(inbox, {"fetched"}) : inbox[k].attempt # currentFetchTokenAttempt'
    BY <1>1, <2>1, <2>2
  <2> QED
    BY <2>3 DEF AnswersTo
<1>7. FreshAwaited'
  BY <1>1, <1>6 DEF FreshAwaited
<1> QED
  BY <1>4, <1>5, <1>7 DEF WishOK

\* A token that is made was not turned down, nor is that of a user who has none.
LEMMA NewTokens ==
    ASSUME IInv, RestTyped, TokensArePast
    PROVE  NoToken \notin turnedDown /\ \A t : t.serial = minted + 1 => t \notin turnedDown
<1>1. minted \in Nat /\ turnedDown \subseteq KnownTokens
  BY KnownAreTokens DEF KnownTokens
<1>2. \A t \in turnedDown : t.serial <= minted /\ t.serial \in Nat
  BY <1>1, KnownAreTokens DEF TokensArePast, Token
<1> QED
  BY <1>1, <1>2 DEF TokensArePast

\* FIRAuth's answers.  A token that was turned down answers no attempt unless
\* a new one is wished for, and a request for a new one makes it.
LEMMA TokenServiceKeepsWish ==
    ASSUME IInv, RestTyped, TokensArePast, WishOK, TokenService
    PROVE  WishOK'
<1> DEFINE latest == currentFetchTokenAttempt
<1>1. /\ UNCHANGED <<connectionState, interruptReasons, forceTokenRefreshes, scheduledRetry,
                     currentFetchTokenAttempt, turnedDown>>
      /\ inbox \in Seq(Letter) /\ user \in Token /\ minted \in Nat
      /\ forceLost \in BOOLEAN
  BY DEF TokenService, clientVars, IInv, LineOK, LineTyped, RestTyped, FlagsTyped
<1>2. PICK f \in fetching : AnswerToken(f) \/ RequestToken(f) \/ RefreshToken(f) \/ RefreshFails(f)
  BY DEF TokenService
<1>3. f \in Fetch /\ f.attempt \in Nat /\ f.session \in Nat /\ f.forced \in BOOLEAN
  BY DEF IInv, LineOK, LineTyped, Fetch
<1>4. ForceKept'
  BY <1>1 DEF WishOK, ForceKept
<1>5. NoToken \notin turnedDown /\ \A t : t.serial = minted + 1 => t \notin turnedDown
  BY NewTokens
\* What is left to show of an answer, or of none.
<1>6. ASSUME ~forceLost' => ~forceLost,
             ~forceLost' /\ user' \in turnedDown =>
               user' = user /\ \A g \in fetching : IsWish(g) => \E h \in fetching' : IsWish(h),
             connectionState = "GettingToken" /\ ~forceLost' =>
               \A t \in AnswersTo(inbox', latest) : t \in AnswersTo(inbox, latest) \/ t \notin turnedDown
      PROVE  WishOK'
  <2>1. Wished'
    <3> SUFFICES ASSUME ~forceLost', user' \in turnedDown
                 PROVE  \/ forceTokenRefreshes \/ scheduledRetry = "forced"
                        \/ connectionState = "GettingToken" /\ \E h \in fetching' : IsWish(h)'
      BY <1>1 DEF Wished
    <3>1. user' = user /\ ~forceLost
      BY <1>6
    <3>2. \A h : IsWish(h)' <=> IsWish(h)
      BY <1>1, <3>1 DEF IsWish
    <3>3. \/ forceTokenRefreshes \/ scheduledRetry = "forced"
          \/ connectionState = "GettingToken" /\ \E g \in fetching : IsWish(g)
      BY <3>1 DEF WishOK, Wished
    <3> QED
      BY <1>6, <3>2, <3>3
  <2>2. FreshAwaited'
    BY <1>1, <1>6 DEF FreshAwaited, WishOK
  <2> QED
    BY <1>4, <2>1, <2>2 DEF WishOK
<1>7. ASSUME NEW m \in Letter, inbox' = Append(inbox, m)
      PROVE  /\ \A t \in AnswersTo(inbox', latest) : t \in AnswersTo(inbox, latest) \/ t = m.token
             /\ m.type # "fetched" \/ m.attempt # latest =>
                  \A t \in AnswersTo(inbox', latest) : t \in AnswersTo(inbox, latest)
  <2> HIDE DEF latest
  <2> QED
    BY <1>1, <1>7, AnswersOfAppend
<1>8. ASSUME NEW n \in Letter, NEW m \in Letter, inbox' = inbox \o <<n, m>>, n.type = "news"
      PROVE  /\ \A t \in AnswersTo(inbox', latest) : t \in AnswersTo(inbox, latest) \/ t = m.token
             /\ m.type # "fetched" =>
                  \A t \in AnswersTo(inbox', latest) : t \in AnswersTo(inbox, latest)
  <2> DEFINE q == Append(inbox, n)
  <2> HIDE DEF latest
  <2>1. inbox' = Append(q, m) /\ q \in Seq(Letter)
    BY <1>1, <1>8, ConcatTwo
  <2>2. AnswersTo(q, latest) \subseteq AnswersTo(inbox, latest)
    BY <1>1, <1>8, AnswersOfAppend
  <2> HIDE DEF q
  <2>3. /\ AnswersTo(inbox', latest) \subseteq AnswersTo(q, latest) \cup {m.token}
        /\ m.type # "fetched" => AnswersTo(inbox', latest) \subseteq AnswersTo(q, latest)
    BY <2>1, AnswersOfAppend
  <2> QED
    BY <2>2, <2>3
<1>9. CASE AnswerToken(f)
  <2> DEFINE m == Fetched(f.attempt, user)
  <2>1. m \in Letter /\ m.token = user /\ m.attempt = f.attempt
    BY <1>1, <1>3 DEF Fetched, Letter
  <2>2. /\ inbox' = Append(inbox, m) /\ user' = user /\ fetching' = fetching \ {f}
        /\ forceLost' = forceLost /\ (user = NoToken \/ ~f.forced)
    BY <1>9 DEF AnswerToken
  <2> HIDE DEF m
  <2>3. user \in turnedDown => ~f.forced
    BY <1>5, <2>2
  <2>4. user \in turnedDown => \A g \in fetching : IsWish(g) => g \in fetching'
    BY <2>2, <2>3 DEF IsWish
  <2>5. ASSUME connectionState = "GettingToken", ~forceLost, m.attempt = latest
        PROVE  user \notin turnedDown
    <3>1. interruptReasons = {} /\ scheduledRetry # "forced"
      BY <2>5 DEF IInv, StateOK, AssertionsHold, TriesUnlessInterrupted
    <3>2. ~forceTokenRefreshes
      BY <3>1 DEF WishOK, ForceKept
    <3>3. \A g \in fetching : IsWish(g) => g = f
      BY <2>1, <2>5 DEF IsWish, IInv, LineOK, OneAnswerEach
    <3> QED
      BY <2>3, <2>5, <3>1, <3>2, <3>3 DEF WishOK, Wished, IsWish
  <2>6. connectionState = "GettingToken" /\ ~forceLost' =>
          \A t \in AnswersTo(inbox', latest) : t \in AnswersTo(inbox, latest) \/ t \notin turnedDown
    <3> HIDE DEF latest
    <3> QED
      BY <1>7, <2>1, <2>2, <2>5
  <2> HIDE DEF latest
  <2> QED
    BY <1>6, <2>2, <2>4, <2>6
<1>10. CASE RequestToken(f)
  <2> DEFINE r == [f EXCEPT !.session = user.session]
  <2>1. UNCHANGED <<inbox, user, forceLost>> /\ fetching' = (fetching \ {f}) \cup {r}
    BY <1>10 DEF RequestToken
  <2>2. r.attempt = f.attempt /\ r.forced = f.forced /\ r.session = user.session
    BY <1>3 DEF Fetch
  <2> HIDE DEF r
  <2>3. \A g \in fetching : IsWish(g) => \E h \in fetching' : IsWish(h)
    <3> SUFFICES ASSUME NEW g \in fetching, IsWish(g)
                 PROVE  \E h \in fetching' : IsWish(h)
      OBVIOUS
    <3>1. CASE g = f
      <4>1. IsWish(r) /\ r \in fetching'
        BY <2>1, <2>2, <3>1 DEF IsWish
      <4> QED
        BY <4>1
    <3>2. CASE g # f
      BY <2>1, <3>2
    <3> QED
      BY <3>1, <3>2
  <2> HIDE DEF latest
  <2> QED
    BY <1>6, <2>1, <2>3
<1>11. CASE RefreshToken(f)
  <2> DEFINE token == [session |-> f.session, serial |-> minted + 1]
             n == News(token)
             m == Fetched(f.attempt, token)
  <2>1. token \in Token /\ token.serial = minted + 1
    BY <1>1, <1>3 DEF Token
  <2>2. /\ f.session # 0 /\ fetching' = fetching \ {f} /\ forceLost' = forceLost
        /\ IF f.session = user.session
           THEN user' = token /\ inbox' = inbox \o <<n, m>>
           ELSE inbox' = Append(inbox, m) /\ user' = user
    BY <1>11 DEF RefreshToken
  <2> HIDE DEF token
  <2>3. m \in Letter /\ m.token = token /\ n \in Letter /\ n.type = "news"
    BY <1>3, <2>1 DEF Fetched, News, Letter
  <2> HIDE DEF m, n
  <2>4. token \notin turnedDown
    BY <1>5, <2>1
  <2>5. \A t \in AnswersTo(inbox', latest) : t \in AnswersTo(inbox, latest) \/ t = token
    <3> HIDE DEF latest
    <3> QED
      BY <1>7, <1>8, <2>2, <2>3
  <2>6. user' \in turnedDown =>
          user' = user /\ \A g \in fetching : IsWish(g) => g \in fetching'
    BY <2>2, <2>4 DEF IsWish
  <2> HIDE DEF latest
  <2> QED
    BY <1>6, <2>2, <2>4, <2>5, <2>6
<1>12. CASE RefreshFails(f)
  <2> DEFINE n == News(NoToken)
             m == FetchFailed(f.attempt)
  <2>1. NoToken \in Token
    BY DEF NoToken, Token
  <2>2. m \in Letter /\ m.type = "failed" /\ n \in Letter /\ n.type = "news"
    BY <1>3, <2>1 DEF FetchFailed, News, Letter
  <2>3. /\ fetching' = fetching \ {f} /\ forceLost' = (forceLost \/ f.forced)
        /\ \/ inbox' = Append(inbox, m) /\ user' = user
           \/ user' = NoToken /\ inbox' = inbox \o <<n, m>>
    BY <1>12 DEF RefreshFails
  <2> HIDE DEF n, m
  <2>4. \A t \in AnswersTo(inbox', latest) : t \in AnswersTo(inbox, latest)
    <3> HIDE DEF latest
    <3>1. m.type # "fetched"
      BY <2>2
    <3> QED
      BY <1>7, <1>8, <2>2, <2>3, <3>1
  <2>5. ~forceLost' => ~forceLost /\ ~f.forced
    BY <1>1, <1>3, <2>3
  <2>6. ~forceLost' /\ user' \in turnedDown =>
          user' = user /\ \A g \in fetching : IsWish(g) => g \in fetching'
    BY <1>5, <2>3, <2>5 DEF IsWish
  <2> HIDE DEF latest
  <2> QED
    BY <1>6, <2>4, <2>5, <2>6
<1> QED
  BY <1>2, <1>9, <1>10, <1>11, <1>12

\* The answer to the latest attempt is taken: a token that was not turned
\* down, or a failure, after which the user's token was not turned down.
LEMMA TokenFetchedKeepsWish ==
    ASSUME IInv, RestTyped, WishOK, TokenFetched
    PROVE  /\ WishOK'
           /\ realtime = "nil" /\ realtime' = "connecting" /\ authToken' \in turnedDown => forceLost
<1> DEFINE m == Head(inbox)
           latest == currentFetchTokenAttempt
<1>1. /\ inbox \in Seq(Letter) /\ forceTokenRefreshes \in BOOLEAN /\ forceLost \in BOOLEAN
  BY DEF IInv, LineOK, LineTyped, RestTyped, FlagsTyped
<1>2. /\ inbox # <<>> /\ m.type \in {"fetched", "failed"} /\ inbox' = Tail(inbox)
      /\ UNCHANGED <<interruptReasons, currentFetchTokenAttempt, user, fetching, turnedDown>>
      /\ \/ /\ m.attempt = latest /\ m.type = "failed" /\ connectionState' = "Disconnected"
            /\ TryScheduleReconnect(interruptReasons, forceTokenRefreshes)
            /\ realtime' = realtime
         \/ /\ m.attempt = latest /\ m.type = "fetched" /\ connectionState = "GettingToken"
            /\ connectionState' = "Connecting" /\ authToken' = m.token
            /\ UNCHANGED <<scheduledRetry, forceTokenRefreshes, forceLost>>
         \/ UNCHANGED <<connectionState, realtime, scheduledRetry, forceTokenRefreshes, forceLost>>
  BY DEF TokenFetched, IsLatest
<1>3. m = inbox[1] /\ m \in Letter /\ 1 \in 1..Len(inbox)
  BY <1>1, <1>2, FirstTaken
<1>4. AnswersTo(inbox', latest) \subseteq AnswersTo(inbox, latest)
  <2> HIDE DEF latest
  <2> QED
    BY <1>1, <1>2, AnswersOfTail
<1>5. ASSUME m.attempt = latest
      PROVE  \A g \in fetching : ~IsWish(g)
  <2>1. 1 \in Answers
    BY <1>2, <1>3 DEF Answers
  <2>2. \A g \in fetching : g.attempt # inbox[1].attempt
    BY <2>1 DEF IInv, LineOK, OneAnswerEach
  <2> QED
    BY <1>3, <1>5, <2>2 DEF IsWish
<1>6. CASE /\ m.attempt = latest /\ m.type = "failed" /\ connectionState' = "Disconnected"
           /\ TryScheduleReconnect(interruptReasons, forceTokenRefreshes)
           /\ realtime' = realtime
  <2>1. ~forceLost /\ user \in turnedDown => forceTokenRefreshes \/ scheduledRetry = "forced"
    BY <1>5, <1>6 DEF WishOK, Wished
  <2>2. FreshAwaited'
    BY <1>6 DEF FreshAwaited
  <2>3. ForceKept'
    BY <1>2, <1>6 DEF TryScheduleReconnect, ForceKept
  <2>4. UNCHANGED <<user, turnedDown>> /\ TryScheduleReconnect(interruptReasons, forceTokenRefreshes)
    BY <1>2, <1>6
  <2>5. Wished'
    BY <1>1, <2>1, <2>4 DEF TryScheduleReconnect, Wished
  <2> QED
    BY <1>6, <2>2, <2>3, <2>5 DEF WishOK
<1>7. CASE /\ m.attempt = latest /\ m.type = "fetched" /\ connectionState = "GettingToken"
           /\ connectionState' = "Connecting" /\ authToken' = m.token
           /\ UNCHANGED <<scheduledRetry, forceTokenRefreshes, forceLost>>
  <2>1. ~forceLost /\ user \in turnedDown => forceTokenRefreshes \/ scheduledRetry = "forced"
    BY <1>5, <1>7 DEF WishOK, Wished
  <2>2. WishOK'
    BY <1>2, <1>7, <2>1 DEF WishOK, Wished, ForceKept, FreshAwaited
  <2>3. m.token \in AnswersTo(inbox, latest)
    BY <1>3, <1>7 DEF AnswersTo, At
  <2>4. forceLost \/ m.token \notin turnedDown
    BY <1>7, <2>3 DEF WishOK, FreshAwaited
  <2> QED
    BY <1>7, <2>2, <2>4
<1>8. CASE UNCHANGED <<connectionState, realtime, scheduledRetry, forceTokenRefreshes, forceLost>>
  <2>1. WishOK'
    BY <1>2, <1>4, <1>8, WishKept
  <2> QED
    BY <1>8, <2>1
<1> QED
  BY <1>2, <1>6, <1>7, <1>8

\* An interrupt closes the connection, or gives up the request for a new token.
LEMMA InterruptKeepsWish ==
    ASSUME IInv, RestTyped, WishOK, NEW reason, InterruptForReason(reason)
    PROVE  WishOK'
<1>1. /\ UNCHANGED <<user, turnedDown>> /\ interruptReasons' # {}
      /\ forceTokenRefreshes \in BOOLEAN /\ forceLost \in BOOLEAN
  BY DEF InterruptForReason, authVars, RestTyped, FlagsTyped
<1>2. CASE realtime # "nil"
  <2> DEFINE reasons == interruptReasons'
  <2>1. Close(reasons, forceTokenRefreshes) /\ interruptReasons' = reasons
    BY <1>2 DEF InterruptForReason
  <2>2. connectionState' = "Disconnected" /\ forceTokenRefreshes' = forceTokenRefreshes /\ forceLost' = forceLost
    BY <1>1, <2>1 DEF Close, TryScheduleReconnect
  <2>3. forceLost \/ user \notin turnedDown
    BY <1>2, NoWishWhenOpen
  <2> QED
    BY <1>1, <2>2, <2>3 DEF WishOK, Wished, ForceKept, FreshAwaited
<1>3. CASE realtime = "nil"
  <2>1. /\ connectionState' = "Disconnected" /\ forceTokenRefreshes' = forceTokenRefreshes
        /\ forceLost' = (forceLost \/ ForceUnderWay)
    BY <1>3 DEF InterruptForReason
  <2>2. ~forceLost' => ~forceLost /\ scheduledRetry # "forced" /\ \A f \in fetching : ~IsWish(f)
    BY <1>1, <2>1 DEF ForceUnderWay, IsWish
  <2> QED
    BY <1>1, <2>1, <2>2 DEF WishOK, Wished, ForceKept, FreshAwaited
<1> QED
  BY <1>2, <1>3

\* The end of an interrupt finds the connection down.
LEMMA ResumeKeepsWish ==
    ASSUME IInv, RestTyped, WishOK, NEW reason, ResumeForReason(reason)
    PROVE  WishOK'
<1> DEFINE reasons == interruptReasons \ {reason}
<1>1. reason \in interruptReasons
  BY DEF ResumeForReason
<1>2. connectionState = "Disconnected"
  BY <1>1 DEF IInv, StateOK, TriesUnlessInterrupted
<1>3. /\ TryScheduleReconnect(reasons, forceTokenRefreshes) /\ interruptReasons' = reasons
      /\ UNCHANGED <<connectionState, user, turnedDown>>
  BY <1>2 DEF ResumeForReason, authVars
<1> HIDE DEF reasons
<1> QED
  BY <1>2, <1>3, ScheduleKeepsWish

\* The user signs in with a token that is new, or out.
LEMMA AccountKeepsWish ==
    ASSUME IInv, IInv', RestTyped, TokensArePast, WishOK, AccountChanges
    PROVE  WishOK'
<1>1. inbox \in Seq(Letter) /\ minted \in Nat /\ user' \in Token
  BY DEF IInv, LineOK, LineTyped
<1>2. /\ UNCHANGED <<connectionState, interruptReasons, forceTokenRefreshes, scheduledRetry,
                     currentFetchTokenAttempt, fetching, turnedDown, forceLost>>
      /\ inbox' = Append(inbox, News(user'))
      /\ user' = NoToken \/ user' = [session |-> minted + 1, serial |-> minted + 1]
  BY DEF AccountChanges, clientVars
<1>3. user' \notin turnedDown
  BY <1>2, NewTokens
<1>4. News(user') \in Letter /\ News(user').type = "news"
  BY <1>1 DEF News, Letter
<1>5. \A t \in AnswersTo(inbox', currentFetchTokenAttempt) : t \in AnswersTo(inbox, currentFetchTokenAttempt)
  BY <1>1, <1>2, <1>4, AnswersOfAppend
<1>6. ForceKept' /\ Wished'
  BY <1>2, <1>3 DEF WishOK, ForceKept, Wished
<1>7. FreshAwaited'
  BY <1>2, <1>5 DEF WishOK, FreshAwaited
<1> QED
  BY <1>6, <1>7 DEF WishOK

\* Every step, by cases.
LEMMA NextKeepsWish ==
    ASSUME IInv, IInv', RestTyped, TokensArePast, WishOK, [Next]_vars
    PROVE  /\ WishOK'
           /\ realtime = "nil" /\ realtime' = "connecting" /\ authToken' \in turnedDown => forceLost
<1>1. forceTokenRefreshes \in BOOLEAN /\ inbox \in Seq(Letter)
  BY DEF RestTyped, FlagsTyped, IInv, LineOK, LineTyped
<1>2. ASSUME UNCHANGED <<connectionState, interruptReasons, forceTokenRefreshes, scheduledRetry,
                         currentFetchTokenAttempt, fetching, user, turnedDown, forceLost, inbox>>
      PROVE  WishOK'
  BY <1>2, WishKept
<1>3. CASE LinkStep
  <2>1. CASE Retry
    <3>1. realtime' = realtime
      BY <2>1 DEF Retry
    <3> QED
      BY <2>1, <3>1, RetryKeepsWish
  <2>2. CASE TokenService
    <3>1. realtime' = realtime
      BY <2>2 DEF TokenService, clientVars
    <3> QED
      BY <2>2, <3>1, TokenServiceKeepsWish
  <2>3. CASE TokenFetched
    BY <2>3, TokenFetchedKeepsWish
  <2>4. CASE RefreshAuthToken
    <3>1. /\ UNCHANGED <<connectionState, interruptReasons, forceTokenRefreshes, scheduledRetry,
                         currentFetchTokenAttempt, fetching, user, turnedDown, forceLost, realtime>>
          /\ inbox # <<>> /\ inbox' = Tail(inbox)
      BY <2>4 DEF RefreshAuthToken
    <3>2. \A t \in AnswersTo(inbox', currentFetchTokenAttempt) : t \in AnswersTo(inbox, currentFetchTokenAttempt)
      BY <1>1, <3>1, AnswersOfTail
    <3> QED
      BY <3>1, <3>2, WishKept
  <2>5. CASE ServerAuth
    <3>1. UNCHANGED <<connectionState, interruptReasons, forceTokenRefreshes, scheduledRetry, realtime,
                      currentFetchTokenAttempt, fetching, user, turnedDown, forceLost, inbox>>
      BY <2>5 DEF ServerAuth, clientVars, authVars
    <3> QED
      BY <1>2, <3>1
  <2>6. CASE Drop
    <3>1. /\ realtime # "nil" /\ Close(interruptReasons, forceTokenRefreshes)
          /\ UNCHANGED <<interruptReasons, user, turnedDown>>
      BY <2>6 DEF Drop, authVars
    <3>2. WishOK'
      BY <1>1, <3>1, CloseKeepsWish
    <3> QED
      BY <3>1, <3>2
  <2>7. CASE AuthRevoked
    <3> DEFINE force == TRUE
    <3>1. Close(interruptReasons, force) /\ UNCHANGED <<interruptReasons, user>> /\ realtime' = "nil"
      BY <2>7 DEF AuthRevoked, TokenTurnedDown, authVars, Close
    <3>2. force \in BOOLEAN /\ force
      OBVIOUS
    <3> HIDE DEF force
    <3>3. WishOK'
      BY <3>1, <3>2, CloseKeepsWish
    <3> QED
      BY <3>1, <3>3
  <2>8. ASSUME NEW reason, InterruptForReason(reason)
        PROVE  WishOK' /\ realtime' = "nil"
    <3>1. realtime' = "nil"
      BY <2>8 DEF InterruptForReason, Close
    <3> QED
      BY <2>8, <3>1, InterruptKeepsWish
  <2>9. ASSUME NEW reason, ResumeForReason(reason)
        PROVE  WishOK' /\ realtime' = realtime
    <3>1. realtime' = realtime
      BY <2>9 DEF ResumeForReason
    <3> QED
      BY <2>9, <3>1, ResumeKeepsWish
  <2>10. CASE Nudge
    <3>1. /\ connectionState = "Disconnected"
          /\ TryScheduleReconnect(interruptReasons, forceTokenRefreshes)
          /\ UNCHANGED <<connectionState, interruptReasons, realtime, user, turnedDown>>
      BY <2>10 DEF Nudge, authVars
    <3>2. WishOK'
      BY <3>1, ScheduleKeepsWish
    <3> QED
      BY <3>1, <3>2
  <2>11. CASE AccountChanges
    <3>1. realtime' = realtime
      BY <2>11 DEF AccountChanges, clientVars
    <3> QED
      BY <2>11, <3>1, AccountKeepsWish
  <2>12. CASE Kill \/ GoOffline
    BY <2>8, <2>12 DEF Kill, GoOffline
  <2>13. CASE GoOnline \/ Open
    BY <2>9, <2>13 DEF GoOnline, Open
  <2> QED
    BY <1>3, <2>1, <2>2, <2>3, <2>4, <2>5, <2>6, <2>7, <2>10, <2>11, <2>12, <2>13
       DEF LinkStep, LinkEvent
<1>4. CASE OnReady
  <2>1. CASE authToken = NoToken
    <3>1. /\ UNCHANGED <<interruptReasons, forceTokenRefreshes, scheduledRetry, user, turnedDown, forceLost>>
          /\ realtime = "connecting" /\ connectionState' = "Connected"
      BY <1>4, <2>1 DEF OnReady, Hello, authVars, historyVars
    <3> QED
      BY <3>1, NoWishWhenOpen DEF WishOK, Wished, ForceKept, FreshAwaited
  <2>2. CASE authToken # NoToken
    <3>1. /\ UNCHANGED <<interruptReasons, forceTokenRefreshes, scheduledRetry, user, turnedDown, forceLost>>
          /\ realtime = "connecting" /\ connectionState' = "Authenticating"
      BY <1>4, <2>2 DEF OnReady, Hello, authVars, historyVars
    <3> QED
      BY <3>1, NoWishWhenOpen DEF WishOK, Wished, ForceKept, FreshAwaited
  <2> QED
    BY <2>1, <2>2
<1>5. CASE OnAuthAnswer
  <2>1. realtime # "nil"
    BY <1>5 DEF OnAuthAnswer, AuthAnswered, IInv, StateOK, WireNeedsConnection
  <2>2. CASE Head(toClient).ok
    <3>1. /\ UNCHANGED <<interruptReasons, forceTokenRefreshes, scheduledRetry, user, turnedDown, forceLost>>
          /\ connectionState' = "Connected"
      BY <1>5, <2>2 DEF OnAuthAnswer, AuthAnswered, authVars
    <3> QED
      BY <2>1, <3>1, NoWishWhenOpen DEF WishOK, Wished, ForceKept, FreshAwaited
  <2>3. CASE ~Head(toClient).ok
    <3> DEFINE force == TRUE
    <3>1. Close(interruptReasons, force) /\ UNCHANGED <<interruptReasons, user>>
      BY <1>5, <2>3 DEF OnAuthAnswer, AuthAnswered, TokenTurnedDown, authVars
    <3>2. force \in BOOLEAN /\ force
      OBVIOUS
    <3> HIDE DEF force
    <3>3. WishOK'
      BY <3>1, <3>2, CloseKeepsWish
    <3> QED
      BY <2>1, <3>3
  <2> QED
    BY <2>1, <2>2, <2>3
<1>6. CASE Put \/ GetData \/ GetTimesOut \/ PutAnswered \/ GetAnswered \/ ServerPut \/ ServerGet
  <2>1. UNCHANGED <<connectionState, interruptReasons, forceTokenRefreshes, scheduledRetry, realtime,
                    currentFetchTokenAttempt, fetching, user, turnedDown, forceLost, inbox>>
    BY <1>6 DEF Put, GetData, GetTimesOut, PutAnswered, GetAnswered, ServerPut, ServerGet,
                linkVars, clientVars, authVars, historyVars
  <2> QED
    BY <1>2, <2>1
<1>7. CASE Relaunch
  <2>1. /\ connectionState' = "Disconnected" /\ realtime' = "nil" /\ interruptReasons' # {}
        /\ UNCHANGED <<user, turnedDown>>
        /\ forceLost' = (forceLost \/ forceTokenRefreshes \/ ForceUnderWay)
    BY <1>7 DEF Relaunch, LinkRelaunch
  <2>2. ~forceLost' => /\ ~forceLost /\ ~forceTokenRefreshes /\ scheduledRetry # "forced"
                       /\ \A f \in fetching : ~IsWish(f)
    BY <2>1 DEF ForceUnderWay, IsWish
  <2> QED
    BY <2>1, <2>2 DEF WishOK, Wished, ForceKept, FreshAwaited
<1>8. CASE UNCHANGED vars
  <2>1. UNCHANGED <<connectionState, interruptReasons, forceTokenRefreshes, scheduledRetry, realtime,
                    currentFetchTokenAttempt, fetching, user, turnedDown, forceLost, inbox>>
    BY <1>8 DEF vars, linkVars, clientVars, authVars, historyVars
  <2> QED
    BY <1>2, <2>1
<1> QED
  BY <1>3, <1>4, <1>5, <1>6, <1>7, <1>8 DEF Next

\* Nothing is turned down at first.
LEMMA InitWish == Init => TokensArePast /\ WishOK
<1> SUFFICES ASSUME Init
             PROVE  TokensArePast /\ WishOK
  OBVIOUS
<1>1. /\ authToken = NoToken /\ serverToken = NoToken /\ turnedDown = {} /\ inbox = <<>>
      /\ toServer = <<>> /\ toClient = <<>> /\ minted = 1
      /\ user = NoToken \/ user = [session |-> 1, serial |-> 1]
      /\ connectionState = "Disconnected" /\ interruptReasons # {}
  BY DEF Init, LinkInit
<1>2. InboxTokens = {} /\ WireTokens = {}
  BY <1>1, TokensOfNone DEF InboxTokens, WireTokens
<1>3. user.serial <= 1 /\ NoToken.serial <= 1
  BY <1>1 DEF NoToken
<1>4. TokensArePast
  BY <1>1, <1>2, <1>3 DEF TokensArePast, KnownTokens
<1>5. WishOK
  BY <1>1 DEF WishOK, Wished, ForceKept, FreshAwaited
<1> QED
  BY <1>4, <1>5

\* A connection is not opened with a token that was turned down, unless the
\* request for a new one was given up.
THEOREM RefusedTokenIsNotReused == Spec => RefusedTokenNotReused
<1> DEFINE Inv == IInv /\ RestTyped /\ TokensArePast /\ WishOK
           Fresh == realtime = "nil" /\ realtime' = "connecting" /\ authToken' \in turnedDown => forceLost
<1>1. Inv /\ [Next]_vars => Inv' /\ Fresh
  BY NextPreservesIInv, NextPreservesTypes, NextKeepsPast, NextKeepsWish
<1>2. Init => Inv
  BY InitEstablishesIInv, InitTyped, InitWish
<1>3. Inv /\ [Next]_vars => [Fresh]_vars
  BY <1>1
<1> QED
  BY <1>1, <1>2, <1>3, PTL DEF Spec, RefusedTokenNotReused
=============================================================================
