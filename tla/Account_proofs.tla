---------------------------- MODULE Account_proofs ----------------------------
(***************************************************************************)
(* Safety of the accounts, for any number of addresses, requests, blocks   *)
(* and events.                                                             *)
(***************************************************************************)
EXTENDS Account, SequenceTheorems, TLAPS

-----------------------------------------------------------------------------
(* The blocks of the main queue, and queues of them.                       *)

\* What the kinds have for their type, and that callbacks differ by request and outcome.
LEMMA BlockParts ==
    /\ Notify.type = "notify"
    /\ \A ok : Result(ok).type = "result" /\ Result(ok).ok = ok
    /\ \A r, ok : Callback(r, ok).type = "callback" /\ Callback(r, ok).request = r /\ Callback(r, ok).ok = ok
    /\ \A p, s, h : /\ First(p, s, h).type = "first" /\ First(p, s, h).page = p
                    /\ First(p, s, h).status = s /\ First(p, s, h).heard = h
    /\ Result(TRUE).type = "result" /\ Result(TRUE).ok = TRUE
    /\ Result(FALSE).type = "result" /\ Result(FALSE).ok = FALSE
    /\ \A r : /\ Callback(r, TRUE).type = "callback" /\ Callback(r, TRUE).request = r
              /\ Callback(r, TRUE).ok = TRUE
              /\ Callback(r, FALSE).type = "callback" /\ Callback(r, FALSE).request = r
              /\ Callback(r, FALSE).ok = FALSE
BY DEF Notify, Result, Callback, First

\* A block is one of four kinds, and is what its parts say.
LEMMA BlockKinds ==
    ASSUME NEW b \in Block
    PROVE  /\ b.type \in {"notify", "callback", "result", "first"}
           /\ b.type = "notify" => b = Notify
           /\ b.type = "callback" => /\ b.request \in Requests
                                     /\ b = Callback(b.request, TRUE) \/ b = Callback(b.request, FALSE)
           /\ b.type = "result" => b = Result(TRUE) \/ b = Result(FALSE)
           /\ b.type = "first" => /\ b = First(b.page, b.status, b.heard)
                                  /\ b.page \in Page /\ b.status \in {"listening", "removed", "gone"}
                                  /\ b.heard \in Account \cup {Nobody, "nothing"}
<1>1. CASE b = Notify
  BY <1>1, BlockParts
<1>2. CASE b \in [type : {"result"}, ok : BOOLEAN]
  BY <1>2 DEF Result
<1>3. CASE b \in [type : {"callback"}, request : Requests, ok : BOOLEAN]
  BY <1>3 DEF Callback
<1>4. CASE b \in [type : {"first"}, page : Page, status : {"listening", "removed", "gone"},
                  heard : Account \cup {Nobody, "nothing"}]
  BY <1>4 DEF First
<1> QED
  BY <1>1, <1>2, <1>3, <1>4 DEF Block

\* The four kinds are blocks.
LEMMA BlocksAre ==
    /\ Notify \in Block
    /\ \A ok \in BOOLEAN : Result(ok) \in Block
    /\ \A r \in Requests, ok \in BOOLEAN : Callback(r, ok) \in Block
    /\ \A p \in Page, s \in {"listening", "removed", "gone"}, last \in Account \cup {Nobody, "nothing"} :
         First(p, s, last) \in Block
BY DEF Block, Result, Callback, First

\* A queue rewritten block by block is a queue.
LEMMA Rewriting ==
    ASSUME NEW q \in Seq(Block), NEW p, DOMAIN p = 1 .. Len(q), p = [k \in 1 .. Len(q) |-> p[k]],
           \A k \in 1 .. Len(q) : p[k] \in Block
    PROVE  p \in Seq(Block) /\ Len(p) = Len(q)
OBVIOUS

\* p is q with first calls rewritten, and with other blocks than callbacks behind.
Extends(p, q) ==
    /\ Len(p) >= Len(q)
    /\ \A k \in 1 .. Len(q) : IF q[k].type = "first" THEN p[k].type = "first" ELSE p[k] = q[k]
    /\ \A k \in Len(q) + 1 .. Len(p) : p[k].type # "callback"

\* Extending twice is extending.
LEMMA ExtendsTwice ==
    ASSUME NEW q \in Seq(Block), NEW p \in Seq(Block), NEW w \in Seq(Block),
           Extends(p, q), Extends(w, p)
    PROVE  Extends(w, q)
<1>1. Len(q) \in Nat /\ Len(p) \in Nat /\ Len(w) \in Nat
  BY LenProperties
<1>2. Len(w) >= Len(q)
  BY <1>1 DEF Extends
<1>3. ASSUME NEW k \in 1 .. Len(q)
      PROVE  IF q[k].type = "first" THEN w[k].type = "first" ELSE w[k] = q[k]
  BY <1>1 DEF Extends
<1>4. ASSUME NEW k \in Len(q) + 1 .. Len(w)
      PROVE  w[k].type # "callback"
  <2>1. CASE k <= Len(p)
    <3>1. k \in Len(q) + 1 .. Len(p) /\ k \in 1 .. Len(p)
      BY <1>1, <2>1
    <3> QED
      BY <3>1 DEF Extends
  <2>2. CASE k > Len(p)
    BY <1>1, <2>2 DEF Extends
  <2> QED
    BY <1>1, <2>1, <2>2
<1> QED
  BY <1>2, <1>3, <1>4 DEF Extends

\* A block that is no callback goes to the end.
LEMMA OneMore ==
    ASSUME NEW q \in Seq(Block), NEW b \in Block, b.type # "callback"
    PROVE  Append(q, b) \in Seq(Block) /\ Extends(Append(q, b), q)
<1>1. Len(q) \in Nat
  BY LenProperties
<1>2. /\ Append(q, b) \in Seq(Block) /\ Len(Append(q, b)) = Len(q) + 1
      /\ \A k \in 1 .. Len(q) : Append(q, b)[k] = q[k]
      /\ Append(q, b)[Len(q) + 1] = b
  BY AppendProperties
<1>3. ASSUME NEW k \in Len(q) + 1 .. Len(Append(q, b))
      PROVE  k = Len(q) + 1
  BY <1>1, <1>2
<1>4. \A k \in 1 .. Len(q) :
         IF q[k].type = "first" THEN Append(q, b)[k].type = "first" ELSE Append(q, b)[k] = q[k]
  BY <1>2
<1> QED
  BY <1>1, <1>2, <1>3, <1>4 DEF Extends

\* Two blocks go to the end, one after the other.
LEMMA TwoMore ==
    ASSUME NEW q \in Seq(Block), NEW b \in Block, NEW c \in Block
    PROVE  q \o <<b, c>> = Append(Append(q, b), c)
<1>1. <<b>> \in Seq(Block) /\ <<c>> \in Seq(Block) /\ <<b>> \o <<c>> = <<b, c>>
  <2>1. <<b>> \in Seq(Block) /\ <<c>> \in Seq(Block) /\ <<b, c>> \in Seq(Block)
    OBVIOUS
  <2>2. Len(<<b>>) = 1 /\ Len(<<c>>) = 1 /\ Len(<<b, c>>) = 2
    OBVIOUS
  <2>3. /\ <<b>> \o <<c>> \in Seq(Block) /\ Len(<<b>> \o <<c>>) = 2
        /\ (<<b>> \o <<c>>)[1] = b /\ (<<b>> \o <<c>>)[2] = c
    BY <2>1, <2>2, ConcatProperties
  <2>4. \A i \in 1 .. 2 : (<<b>> \o <<c>>)[i] = <<b, c>>[i]
    BY <2>3
  <2> QED
    BY <2>1, <2>2, <2>3, <2>4, SeqEqual
<1>2. Append(q, b) = q \o <<b>> /\ Append(q, b) \in Seq(Block)
  BY AppendIsConcat, AppendProperties
<1>3. Append(Append(q, b), c) = (q \o <<b>>) \o <<c>>
  BY <1>2, AppendIsConcat
<1>4. (q \o <<b>>) \o <<c>> = q \o (<<b>> \o <<c>>)
  BY <1>1, ConcatAssociative
<1> QED
  BY <1>1, <1>3, <1>4

\* A listener is removed, and pages go: only first calls are rewritten.
LEMMA RemovedExtends ==
    ASSUME TypeOK, NEW q \in Seq(Block), NEW page
    PROVE  /\ Removed(q, page) \in Seq(Block) /\ Len(Removed(q, page)) = Len(q)
           /\ Extends(Removed(q, page), q)
<1> DEFINE p == Removed(q, page)
<1>1. p = [k \in 1 .. Len(q) |-> p[k]]
  BY DEF Removed
<1>2. ASSUME NEW k \in 1 .. Len(q)
      PROVE  /\ p[k] \in Block
             /\ IF q[k].type = "first" THEN p[k].type = "first" ELSE p[k] = q[k]
  <2>1. q[k] \in Block
    BY ElementOfSeq
  <2>2. p[k] = IF q[k] = First(page, "listening", "nothing") THEN First(page, "removed", heard) ELSE q[k]
    BY DEF Removed
  <2>3. q[k] = First(page, "listening", "nothing") => First(page, "removed", heard) \in Block
    <3> SUFFICES ASSUME q[k] = First(page, "listening", "nothing")
                 PROVE  First(page, "removed", heard) \in Block
      OBVIOUS
    <3>1. q[k].type = "first" /\ q[k].page = page
      BY BlockParts
    <3>2. page \in Page
      BY <2>1, <3>1, BlockKinds
    <3> QED
      BY <3>2, BlocksAre DEF TypeOK
  <2> QED
    BY <2>1, <2>2, <2>3, BlockParts
<1> HIDE DEF p
<1>3. p \in Seq(Block) /\ Len(p) = Len(q)
  BY <1>1, <1>2, Rewriting
<1>4. Len(q) \in Nat
  BY LenProperties
<1>5. Extends(p, q)
  BY <1>2, <1>3, <1>4 DEF Extends
<1> QED
  BY <1>3, <1>5 DEF p

\* The same of the pages that are popped.
LEMMA GoneExtends ==
    ASSUME NEW q \in Seq(Block), NEW pages
    PROVE  /\ Gone(q, pages) \in Seq(Block) /\ Len(Gone(q, pages)) = Len(q)
           /\ Extends(Gone(q, pages), q)
<1> DEFINE p == Gone(q, pages)
<1>1. p = [k \in 1 .. Len(q) |-> p[k]]
  BY DEF Gone
<1>2. ASSUME NEW k \in 1 .. Len(q)
      PROVE  /\ p[k] \in Block
             /\ IF q[k].type = "first" THEN p[k].type = "first" ELSE p[k] = q[k]
  <2>1. q[k] \in Block
    BY ElementOfSeq
  <2>2. p[k] = IF q[k].type = "first" /\ q[k].page \in pages
               THEN [q[k] EXCEPT !.status = "gone"] ELSE q[k]
    BY DEF Gone
  <2>3. CASE q[k].type = "first"
    <3>1. /\ q[k] = First(q[k].page, q[k].status, q[k].heard) /\ q[k].page \in Page
          /\ q[k].heard \in Account \cup {Nobody, "nothing"}
      BY <2>1, <2>3, BlockKinds
    <3>2. [q[k] EXCEPT !.status = "gone"] = First(q[k].page, "gone", q[k].heard)
      BY <3>1 DEF First
    <3> QED
      BY <2>1, <2>2, <2>3, <3>1, <3>2, BlocksAre, BlockParts
  <2> QED
    BY <2>1, <2>2, <2>3
<1> HIDE DEF p
<1>3. p \in Seq(Block) /\ Len(p) = Len(q)
  BY <1>1, <1>2, Rewriting
<1>4. Len(q) \in Nat
  BY LenProperties
<1>5. Extends(p, q)
  BY <1>2, <1>3, <1>4 DEF Extends
<1> QED
  BY <1>3, <1>5 DEF p

\* The views change: the queue is rewritten, and ends with at most one more first call.
LEMMA ShowExtends ==
    ASSUME TypeOK, NEW q \in Seq(Block), NEW newTab, NEW newOpen, NEW newSheet, NEW gone,
           NEW newTop \in {"login", "settings", "profile", "list"},
           Show(newTab, newTop, newOpen, newSheet, gone, q)
    PROVE  /\ mainQueue' \in Seq(Block) /\ Extends(mainQueue', q)
           /\ heard' \in Account \cup {Nobody, "nothing"}
           /\ tab' = newTab /\ top' = newTop /\ recipeOpen' = newOpen /\ sheet' = newSheet
<1> DEFINE seen == PageSeen(newTab, newTop, newOpen, newSheet)
           same == seen = Visible /\ seen \notin gone
           after == IF same THEN q ELSE Removed(q, Visible)
           kept == Gone(after, gone)
<1>1. /\ tab' = newTab /\ top' = newTop /\ recipeOpen' = newOpen /\ sheet' = newSheet
      /\ \/ mainQueue' = kept
         \/ seen # "none" /\ mainQueue' = Append(kept, First(seen, "listening", "nothing"))
      /\ heard' = heard \/ heard' = "nothing"
  BY DEF Show
<1>2. seen \in Page \cup {"none"}
  BY DEF PageSeen, Page
<1>3. after \in Seq(Block) /\ Extends(after, q)
  <2>1. Extends(q, q)
    BY LenProperties DEF Extends
  <2> QED
    BY <2>1, RemovedExtends
<1> HIDE DEF after, seen
<1>4. kept \in Seq(Block) /\ Extends(kept, after)
  BY <1>3, GoneExtends
<1> HIDE DEF kept
<1>5. kept \in Seq(Block) /\ Extends(kept, q)
  BY <1>3, <1>4, ExtendsTwice
<1>6. mainQueue' \in Seq(Block) /\ Extends(mainQueue', q)
  <2>1. CASE mainQueue' = kept
    BY <1>5, <2>1
  <2>2. CASE seen # "none" /\ mainQueue' = Append(kept, First(seen, "listening", "nothing"))
    <3>1. First(seen, "listening", "nothing") \in Block
      BY <1>2, <2>2, BlocksAre
    <3>2. mainQueue' \in Seq(Block) /\ Extends(mainQueue', kept)
      BY <1>5, <2>2, <3>1, OneMore, BlockParts
    <3> QED
      BY <1>5, <3>2, ExtendsTwice
  <2> QED
    BY <1>1, <2>1, <2>2
<1> QED
  BY <1>1, <1>6 DEF TypeOK

-----------------------------------------------------------------------------
(* Requests and their callbacks.                                           *)

\* The queue has a callback of this request.
Has(q, r, ok) == \E k \in 1 .. Len(q) : q[k] = Callback(r, ok)

\* A callback belongs to a request that was answered; one with a new account's user, to
\* one that made the account.
CallbacksFit(q, rs, reg) ==
    \A r \in Requests :
      /\ Has(q, r, TRUE) => rs[r].stage \in {"answered", "named"}
      /\ Has(q, r, TRUE) /\ rs[r].what = "signUp" => rs[r].account \in reg
      /\ Has(q, r, FALSE) => rs[r].stage = "answered"

\* A request has one callback in the queue at a time.
OneCallback(q) ==
    \A j, k \in 1 .. Len(q) :
      q[j].type = "callback" /\ q[k].type = "callback" /\ q[j].request = q[k].request => j = k

\* A request that is under way is for an address; one that names an account made it.
RequestsFit(rs, reg) ==
    \A r \in Requests :
      /\ rs[r].what # "none" => rs[r].account \in Account
      /\ rs[r].stage \in {"asked", "answered", "naming", "named"} => rs[r].what # "none"
      /\ rs[r].stage \in {"naming", "named"} => rs[r].what = "signUp" /\ rs[r].account \in reg

\* A request that asks for a name, or will when its callback runs.
WillName(q, rs, r) ==
    /\ rs[r].what = "signUp"
    /\ rs[r].stage = "naming" \/ (rs[r].stage = "answered" /\ Has(q, r, TRUE))

\* An account without a name has a request that will ask for one, or that asked.
NameComes ==
    \A a \in registered \ named :
      \/ a \in unnamed
      \/ \E r \in Requests : requests[r].account = a /\ WillName(mainQueue, requests, r)

Fit(q, rs, reg) == CallbacksFit(q, rs, reg) /\ OneCallback(q) /\ RequestsFit(rs, reg)

\* The inductive invariant of the requests.
RInv == TypeOK /\ Fit(mainQueue, requests, registered) /\ NameComes

\* Extending a queue neither adds nor takes a callback.
LEMMA HasExtends ==
    ASSUME NEW q \in Seq(Block), NEW p \in Seq(Block), Extends(p, q), NEW r, NEW ok
    PROVE  Has(p, r, ok) <=> Has(q, r, ok)
<1>1. Len(q) \in Nat /\ Len(p) \in Nat /\ Len(p) >= Len(q)
  BY LenProperties DEF Extends
<1>2. ASSUME NEW k \in 1 .. Len(q), q[k] = Callback(r, ok)
      PROVE  Has(p, r, ok)
  <2>1. k \in 1 .. Len(p) /\ p[k] = q[k]
    BY <1>1, <1>2, BlockParts DEF Extends
  <2> QED
    BY <1>2, <2>1 DEF Has
<1>3. ASSUME NEW k \in 1 .. Len(p), p[k] = Callback(r, ok)
      PROVE  Has(q, r, ok)
  <2>1. p[k].type = "callback"
    BY <1>3, BlockParts
  <2>2. k \in 1 .. Len(q)
    BY <1>1, <2>1 DEF Extends
  <2>3. p[k] = q[k]
    BY <2>1, <2>2 DEF Extends
  <2> QED
    BY <1>3, <2>2, <2>3 DEF Has
<1> QED
  BY <1>2, <1>3 DEF Has

\* Nor does it disturb how queue and requests fit.
LEMMA FitExtends ==
    ASSUME NEW q \in Seq(Block), NEW p \in Seq(Block), Extends(p, q), NEW rs, NEW reg,
           Fit(q, rs, reg)
    PROVE  Fit(p, rs, reg)
<1>1. CallbacksFit(p, rs, reg)
  BY HasExtends DEF Fit, CallbacksFit
<1>2. OneCallback(p)
  <2>1. Len(q) \in Nat /\ Len(p) \in Nat /\ Len(p) >= Len(q)
    BY LenProperties DEF Extends
  <2>2. ASSUME NEW k \in 1 .. Len(p), p[k].type = "callback"
        PROVE  k \in 1 .. Len(q) /\ p[k] = q[k]
    <3>1. k \in 1 .. Len(q)
      BY <2>1, <2>2 DEF Extends
    <3> QED
      BY <2>2, <3>1 DEF Extends
  <2> QED
    BY <2>2 DEF Fit, OneCallback
<1> QED
  BY <1>1, <1>2 DEF Fit

\* The first block of a queue runs.
LEMMA FirstRuns ==
    ASSUME NEW q \in Seq(Block), q # <<>>
    PROVE  /\ Head(q) \in Block /\ Head(q) = q[1] /\ Tail(q) \in Seq(Block)
           /\ Len(q) \in Nat /\ Len(q) > 0 /\ Len(Tail(q)) = Len(q) - 1
           /\ \A k \in 1 .. Len(Tail(q)) : k + 1 \in 1 .. Len(q) /\ Tail(q)[k] = q[k + 1]
<1>1. /\ Head(q) \in Block /\ Tail(q) \in Seq(Block) /\ Len(Tail(q)) = Len(q) - 1
      /\ \A k \in 1 .. Len(Tail(q)) : Tail(q)[k] = q[k + 1]
  BY HeadTailProperties
<1>2. Len(q) \in Nat /\ Len(q) > 0
  BY EmptySeq
<1>3. Head(q) = q[1]
  OBVIOUS
<1> QED
  BY <1>1, <1>2, <1>3

\* A callback that is left was there, and one that was there is left if it did not run.
LEMMA HasTail ==
    ASSUME NEW q \in Seq(Block), q # <<>>, NEW r, NEW ok
    PROVE  /\ Has(Tail(q), r, ok) => Has(q, r, ok)
           /\ Has(q, r, ok) => Head(q) = Callback(r, ok) \/ Has(Tail(q), r, ok)
<1>1. /\ Head(q) = q[1] /\ Len(q) \in Nat /\ Len(q) > 0 /\ Len(Tail(q)) = Len(q) - 1
      /\ \A k \in 1 .. Len(Tail(q)) : k + 1 \in 1 .. Len(q) /\ Tail(q)[k] = q[k + 1]
  BY FirstRuns
<1>2. ASSUME NEW k \in 1 .. Len(q), q[k] = Callback(r, ok), k # 1
      PROVE  Has(Tail(q), r, ok)
  <2>1. k - 1 \in 1 .. Len(Tail(q)) /\ Tail(q)[k - 1] = q[k - 1 + 1] /\ k - 1 + 1 = k
    BY <1>1, <1>2
  <2> QED
    BY <1>2, <2>1 DEF Has
<1> QED
  BY <1>1, <1>2 DEF Has

\* What is left fits, and has no callback of the request whose callback ran.
LEMMA FitTail ==
    ASSUME NEW q \in Seq(Block), q # <<>>, NEW rs, NEW reg, Fit(q, rs, reg)
    PROVE  /\ Fit(Tail(q), rs, reg)
           /\ Head(q).type = "callback" => \A ok : ~Has(Tail(q), Head(q).request, ok)
<1>1. /\ Head(q) = q[1] /\ Len(q) \in Nat /\ Len(q) > 0 /\ Len(Tail(q)) = Len(q) - 1
      /\ \A k \in 1 .. Len(Tail(q)) : k + 1 \in 1 .. Len(q) /\ Tail(q)[k] = q[k + 1]
  BY FirstRuns
<1>2. CallbacksFit(Tail(q), rs, reg)
  BY HasTail DEF Fit, CallbacksFit
<1>3. OneCallback(Tail(q))
  <2> SUFFICES ASSUME NEW j \in 1 .. Len(Tail(q)), NEW k \in 1 .. Len(Tail(q)),
                      Tail(q)[j].type = "callback", Tail(q)[k].type = "callback",
                      Tail(q)[j].request = Tail(q)[k].request
               PROVE  j = k
    BY DEF OneCallback
  <2>1. j + 1 = k + 1
    BY <1>1 DEF Fit, OneCallback
  <2> QED
    BY <2>1
<1>4. ASSUME Head(q).type = "callback", NEW ok, Has(Tail(q), Head(q).request, ok)
      PROVE  FALSE
  <2>1. PICK k \in 1 .. Len(Tail(q)) : Tail(q)[k] = Callback(Head(q).request, ok)
    BY <1>4 DEF Has
  <2>2. q[k + 1].type = "callback" /\ q[k + 1].request = q[1].request
    BY <1>1, <2>1, BlockParts
  <2>3. 1 \in 1 .. Len(q) /\ k + 1 \in 1 .. Len(q) /\ k + 1 # 1
    BY <1>1
  <2> QED
    BY <1>1, <1>4, <2>2, <2>3 DEF Fit, OneCallback
<1> QED
  BY <1>2, <1>3, <1>4 DEF Fit

\* A callback goes to the end, of a request that has none there.
LEMMA HasCallback ==
    ASSUME NEW q \in Seq(Block), NEW r \in Requests, NEW ok \in BOOLEAN, NEW s, NEW o
    PROVE  /\ Append(q, Callback(r, ok)) \in Seq(Block)
           /\ Has(Append(q, Callback(r, ok)), s, o) <=> Has(q, s, o) \/ (s = r /\ o = ok)
<1> DEFINE p == Append(q, Callback(r, ok))
<1>1. Callback(r, ok) \in Block /\ Len(q) \in Nat
  BY BlocksAre, LenProperties
<1>2. /\ p \in Seq(Block) /\ Len(p) = Len(q) + 1
      /\ \A k \in 1 .. Len(q) : p[k] = q[k]
      /\ p[Len(q) + 1] = Callback(r, ok)
  BY <1>1, AppendProperties
<1> HIDE DEF p
<1>3. \A k \in 1 .. Len(p) : k \in 1 .. Len(q) \/ k = Len(q) + 1
  BY <1>1, <1>2
<1>4. Len(q) + 1 \in 1 .. Len(p) /\ \A k \in 1 .. Len(q) : k \in 1 .. Len(p)
  BY <1>1, <1>2
<1>5. Callback(r, ok) = Callback(s, o) <=> s = r /\ o = ok
  BY BlockParts
<1>6. Has(p, s, o) <=> Has(q, s, o) \/ (s = r /\ o = ok)
  BY <1>2, <1>3, <1>4, <1>5 DEF Has
<1> QED
  BY <1>2, <1>6 DEF p

\* It fits if the request was answered.
LEMMA FitCallback ==
    ASSUME NEW q \in Seq(Block), NEW rs, NEW reg, Fit(q, rs, reg),
           NEW r \in Requests, NEW ok \in BOOLEAN, ~Has(q, r, TRUE), ~Has(q, r, FALSE),
           rs[r].stage = "answered" \/ (ok = TRUE /\ rs[r].stage = "named"),
           ok = TRUE /\ rs[r].what = "signUp" => rs[r].account \in reg
    PROVE  Append(q, Callback(r, ok)) \in Seq(Block) /\ Fit(Append(q, Callback(r, ok)), rs, reg)
<1> DEFINE p == Append(q, Callback(r, ok))
<1>1. CallbacksFit(p, rs, reg)
  BY HasCallback DEF Fit, CallbacksFit
<1>2. OneCallback(p)
  <2>1. Callback(r, ok) \in Block /\ Len(q) \in Nat
    BY BlocksAre, LenProperties
  <2>2. /\ Len(p) = Len(q) + 1
        /\ \A k \in 1 .. Len(q) : p[k] = q[k]
        /\ p[Len(q) + 1] = Callback(r, ok)
    BY <2>1, AppendProperties
  <2> HIDE DEF p
  <2>3. \A k \in 1 .. Len(p) : k \in 1 .. Len(q) \/ k = Len(q) + 1
    BY <2>1, <2>2
  <2>4. ASSUME NEW k \in 1 .. Len(q), q[k].type = "callback", q[k].request = r
        PROVE  FALSE
    <3>1. q[k] \in Block
      BY ElementOfSeq
    <3>2. q[k] = Callback(r, TRUE) \/ q[k] = Callback(r, FALSE)
      BY <2>4, <3>1, BlockKinds
    <3> QED
      BY <3>2 DEF Has
  <2> QED
    BY <2>2, <2>3, <2>4, BlockParts DEF Fit, OneCallback
<1> QED
  BY <1>1, <1>2, HasCallback DEF Fit

\* A request without a callback in the queue changes.
LEMMA FitChange ==
    ASSUME NEW q, NEW rs, NEW reg, Fit(q, rs, reg), NEW rs2, NEW reg2, reg \subseteq reg2,
           NEW r \in Requests, ~Has(q, r, TRUE), ~Has(q, r, FALSE),
           \A s \in Requests \ {r} : rs2[s] = rs[s],
           rs2[r].what # "none" => rs2[r].account \in Account,
           rs2[r].stage \in {"asked", "answered", "naming", "named"} => rs2[r].what # "none",
           rs2[r].stage \in {"naming", "named"} => rs2[r].what = "signUp" /\ rs2[r].account \in reg2
    PROVE  Fit(q, rs2, reg2)
<1>1. CallbacksFit(q, rs2, reg2)
  <2> SUFFICES ASSUME NEW s \in Requests
               PROVE  /\ Has(q, s, TRUE) => rs2[s].stage \in {"answered", "named"}
                      /\ Has(q, s, TRUE) /\ rs2[s].what = "signUp" => rs2[s].account \in reg2
                      /\ Has(q, s, FALSE) => rs2[s].stage = "answered"
    BY DEF CallbacksFit
  <2> QED
    BY DEF Fit, CallbacksFit
<1>2. RequestsFit(rs2, reg2)
  <2> SUFFICES ASSUME NEW s \in Requests
               PROVE  /\ rs2[s].what # "none" => rs2[s].account \in Account
                      /\ rs2[s].stage \in {"asked", "answered", "naming", "named"} => rs2[s].what # "none"
                      /\ rs2[s].stage \in {"naming", "named"}
                           => rs2[s].what = "signUp" /\ rs2[s].account \in reg2
    BY DEF RequestsFit
  <2> QED
    BY DEF Fit, RequestsFit
<1> QED
  BY <1>1, <1>2 DEF Fit

\* No account gets lost that is without a name.
LEMMA NameStillComes ==
    ASSUME NameComes, registered' = registered, named \subseteq named', unnamed \subseteq unnamed',
           \A r \in Requests : WillName(mainQueue, requests, r) =>
              \/ requests[r].account \in named' \cup unnamed'
              \/ requests'[r].account = requests[r].account /\ WillName(mainQueue', requests', r)
    PROVE  NameComes'
<1> SUFFICES ASSUME NEW a \in registered \ named', a \notin unnamed'
             PROVE  \E r \in Requests : requests'[r].account = a /\ WillName(mainQueue', requests', r)
  BY DEF NameComes
<1>1. PICK r \in Requests : requests[r].account = a /\ WillName(mainQueue, requests, r)
  BY DEF NameComes
<1> QED
  BY <1>1

\* A step that makes and ends no request, and runs no callback.
LEMMA QuietStep ==
    ASSUME RInv, TypeOK', UNCHANGED <<requests, serverVars, unnamed>>,
           \/ Extends(mainQueue', mainQueue)
           \/ /\ mainQueue # <<>> /\ Head(mainQueue).type # "callback"
              /\ Extends(mainQueue', Tail(mainQueue))
    PROVE  RInv'
<1>1. mainQueue \in Seq(Block) /\ mainQueue' \in Seq(Block)
  BY DEF RInv, TypeOK
<1>2. /\ Fit(mainQueue', requests', registered')
      /\ \A r : Has(mainQueue, r, TRUE) => Has(mainQueue', r, TRUE)
  <2>1. CASE Extends(mainQueue', mainQueue)
    BY <1>1, <2>1, FitExtends, HasExtends DEF RInv, serverVars
  <2>2. CASE /\ mainQueue # <<>> /\ Head(mainQueue).type # "callback"
             /\ Extends(mainQueue', Tail(mainQueue))
    <3>1. Tail(mainQueue) \in Seq(Block) /\ Fit(Tail(mainQueue), requests, registered)
      BY <1>1, <2>2, FirstRuns, FitTail DEF RInv
    <3>2. Fit(mainQueue', requests', registered')
      BY <1>1, <2>2, <3>1, FitExtends DEF serverVars
    <3>3. ASSUME NEW r, Has(mainQueue, r, TRUE)
          PROVE  Has(mainQueue', r, TRUE)
      <4>1. Head(mainQueue) # Callback(r, TRUE)
        BY <2>2 DEF Callback
      <4>2. Has(Tail(mainQueue), r, TRUE)
        BY <1>1, <2>2, <3>3, <4>1, HasTail
      <4> QED
        BY <1>1, <2>2, <3>1, <4>2, HasExtends
    <3> QED
      BY <3>2, <3>3
  <2> QED
    BY <2>1, <2>2
<1>3. \A r \in Requests : WillName(mainQueue, requests, r) => WillName(mainQueue', requests', r)
  BY <1>2 DEF WillName
<1>4. NameComes'
  BY <1>3, NameStillComes DEF RInv, serverVars
<1> QED
  BY <1>2, <1>4 DEF RInv

-----------------------------------------------------------------------------
(* Blocks of the main queue keep the requests' invariant.                  *)

\* What a listener does keeps the types.
LEMMA HearTypes ==
    ASSUME TypeOK, NEW page \in Page, NEW status, Hear(page, status)
    PROVE  /\ pageUser' \in [Page -> Account \cup {Nobody}]
           /\ trap' \in {"none", "noName", "noError"}
BY DEF TypeOK, Hear

\* The page that is visible is a page.
LEMMA VisibleIsPage == TypeOK => Visible \in Page \cup {"none"}
BY DEF TypeOK, Visible, PageSeen, Page

\* Listeners are called: the first block goes.
LEMMA NotifiedKeepsRInv ==
    ASSUME RInv, mainQueue # <<>>, Notified
    PROVE  RInv'
<1>1. /\ mainQueue \in Seq(Block) /\ Tail(mainQueue) \in Seq(Block)
      /\ mainQueue' = Tail(mainQueue) /\ Head(mainQueue).type = "notify"
  BY FirstRuns DEF RInv, TypeOK, Notified
<1>2. /\ pageUser' \in [Page -> Account \cup {Nobody}] /\ trap' \in {"none", "noName", "noError"}
      /\ heard' \in Account \cup {Nobody, "nothing"}
  BY HearTypes, VisibleIsPage DEF RInv, TypeOK, Notified
<1>3. TypeOK'
  BY <1>1, <1>2 DEF RInv, TypeOK, Notified, serverVars, authVars, placeVars, sheetVars, historyVars
<1>4. Extends(mainQueue', Tail(mainQueue))
  BY <1>1, LenProperties DEF Extends
<1> QED
  BY <1>1, <1>3, <1>4, QuietStep DEF Notified, historyVars

\* A listener is called for the first time.
LEMMA FirstCallKeepsRInv ==
    ASSUME RInv, mainQueue # <<>>, FirstCall
    PROVE  RInv'
<1>1. /\ mainQueue \in Seq(Block) /\ Tail(mainQueue) \in Seq(Block)
      /\ mainQueue' = Tail(mainQueue) /\ Head(mainQueue).type = "first"
      /\ Head(mainQueue).page \in Page
  BY FirstRuns, BlockKinds DEF RInv, TypeOK, FirstCall
<1>2. /\ pageUser' \in [Page -> Account \cup {Nobody}] /\ trap' \in {"none", "noName", "noError"}
  <2>1. \/ Hear(Head(mainQueue).page, Head(mainQueue).status)
        \/ UNCHANGED <<pageUser, trap>>
    BY DEF FirstCall
  <2> QED
    BY <1>1, <2>1, HearTypes DEF RInv, TypeOK
<1>3. heard' \in Account \cup {Nobody, "nothing"} /\ crossed' \in BOOLEAN
  BY DEF RInv, TypeOK, FirstCall
<1>4. TypeOK'
  BY <1>1, <1>2, <1>3 DEF RInv, TypeOK, FirstCall, serverVars, authVars, placeVars, sheetVars
<1>5. Extends(mainQueue', Tail(mainQueue))
  BY <1>1, LenProperties DEF Extends
<1> QED
  BY <1>1, <1>4, <1>5, QuietStep DEF FirstCall

\* How a request is told to end: it is marked, and nothing goes behind but what a page
\* or the login page is told.
LEMMA EndTypes ==
    ASSUME TypeOK, NEW r \in Requests, NEW ok \in BOOLEAN, NEW rest \in Seq(Block),
           Finish(r, ok, rest) \/ Alert(r, rest)
    PROVE  /\ requests' = [requests EXCEPT ![r] = Ended]
           /\ mainQueue' \in Seq(Block) /\ Extends(mainQueue', rest)
           /\ heard' \in Account \cup {Nobody, "nothing"}
           /\ UNCHANGED <<tab, top, recipeOpen, covers>>
           /\ sheet' \in {sheet, "closing"} /\ outcome' \in {outcome, ok}
<1>1. CASE Finish(r, ok, rest) /\ requests[r].attached
  <2>1. /\ requests' = [requests EXCEPT ![r] = Ended] /\ outcome' = ok /\ covers' = covers
        /\ Show(tab, top, recipeOpen, "closing", {}, rest)
    BY <1>1 DEF Finish
  <2>2. top \in {"login", "settings", "profile", "list"}
    BY DEF TypeOK
  <2> QED
    BY <2>1, <2>2, ShowExtends
<1>2. CASE Finish(r, ok, rest) /\ ~requests[r].attached
  <2>1. /\ requests' = [requests EXCEPT ![r] = Ended] /\ mainQueue' = Append(rest, Result(ok))
        /\ UNCHANGED <<tab, top, recipeOpen, sheet, heard, outcome, covers>>
    BY <1>2 DEF Finish
  <2>2. Result(ok) \in Block /\ Result(ok).type # "callback"
    BY BlocksAre, BlockParts
  <2> QED
    BY <2>1, <2>2, OneMore DEF TypeOK
<1>3. CASE Alert(r, rest)
  <2>1. Extends(rest, rest)
    BY LenProperties DEF Extends
  <2> QED
    BY <1>3, <2>1 DEF Alert, placeVars, sheetVars, TypeOK
<1> QED
  BY <1>1, <1>2, <1>3

\* A request's callback runs.
LEMMA RequestCalledBackKeepsRInv ==
    ASSUME RInv, mainQueue # <<>>, RequestCalledBack
    PROVE  RInv'
<1> DEFINE m == Head(mainQueue)
           r == m.request
           rest == Tail(mainQueue)
<1>1. /\ TypeOK /\ mainQueue \in Seq(Block) /\ rest \in Seq(Block)
      /\ m.type = "callback" /\ r \in Requests
      /\ m = Callback(r, TRUE) \/ m = Callback(r, FALSE)
      /\ m = mainQueue[1] /\ 1 \in 1 .. Len(mainQueue)
  <2>1. TypeOK /\ mainQueue \in Seq(Block) /\ m.type = "callback"
    BY DEF RInv, TypeOK, RequestCalledBack
  <2>2. /\ rest \in Seq(Block) /\ m \in Block
        /\ m = mainQueue[1] /\ 1 \in 1 .. Len(mainQueue)
    BY <2>1, FirstRuns
  <2> HIDE DEF m
  <2>3. r \in Requests /\ (m = Callback(r, TRUE) \/ m = Callback(r, FALSE))
    BY <2>1, <2>2, BlockKinds
  <2> QED
    BY <2>1, <2>2, <2>3
<1>2. /\ Fit(rest, requests, registered) /\ ~Has(rest, r, TRUE) /\ ~Has(rest, r, FALSE)
  BY <1>1, FitTail DEF RInv
<1>3. UNCHANGED <<serverVars, authVars, pageUser, trap, historyVars>>
  BY DEF RequestCalledBack
<1>4. \/ /\ m.ok /\ requests[r].what = "signUp" /\ requests[r].stage = "answered"
         /\ AskForName(r, rest)
      \/ /\ m.ok /\ (requests[r].what = "signIn" \/ requests[r].stage = "named")
         /\ Finish(r, TRUE, rest)
      \/ ~m.ok /\ (Finish(r, FALSE, rest) \/ Alert(r, rest))
  BY DEF RequestCalledBack
<1>5. /\ m.ok => m = Callback(r, TRUE)
      /\ ~m.ok => m = Callback(r, FALSE)
  BY <1>1, BlockParts
<1> HIDE DEF m, r, rest
<1>6. ASSUME NEW s \in Requests, WillName(mainQueue, requests, s), s # r
      PROVE  requests[s].stage = "naming" \/ (requests[s].stage = "answered" /\ Has(rest, s, TRUE))
  <2>1. Callback(s, TRUE) # m
    <3>1. m.request = r /\ Callback(s, TRUE).request = s
      BY BlockParts DEF r
    <3> QED
      BY <1>6, <3>1
  <2> QED
    BY <1>1, <1>6, <2>1, HasTail DEF WillName, m, rest
<1>7. CASE m.ok /\ requests[r].what = "signUp" /\ requests[r].stage = "answered" /\ AskForName(r, rest)
  <2>1. /\ requests' = [requests EXCEPT ![r].stage = "naming"] /\ mainQueue' = rest
        /\ UNCHANGED <<placeVars, sheetVars, heard>>
    BY <1>7 DEF AskForName
  <2>2. requests' \in [Requests -> Request]
    BY <1>1, <2>1 DEF TypeOK, Request
  <2>3. TypeOK'
    BY <1>1, <1>3, <2>1, <2>2 DEF TypeOK, serverVars, authVars, historyVars, placeVars, sheetVars
  <2>4. /\ \A s \in Requests \ {r} : requests'[s] = requests[s]
        /\ requests'[r].stage = "naming" /\ requests'[r].what = requests[r].what
        /\ requests'[r].account = requests[r].account
    BY <1>1, <2>1 DEF TypeOK, Request
  <2>5. requests[r].account \in registered /\ registered \subseteq Account
    <3>1. Has(mainQueue, r, TRUE)
      BY <1>1, <1>5, <1>7 DEF Has
    <3> QED
      BY <1>1, <1>7, <3>1 DEF RInv, Fit, CallbacksFit, TypeOK
  <2>6. Fit(mainQueue', requests', registered')
    BY <1>1, <1>2, <1>3, <1>7, <2>1, <2>4, <2>5, FitChange DEF serverVars
  <2>7. ASSUME NEW s \in Requests, WillName(mainQueue, requests, s)
        PROVE  requests'[s].account = requests[s].account /\ WillName(mainQueue', requests', s)
    <3>1. CASE s = r
      BY <1>7, <2>4, <3>1 DEF WillName
    <3>2. CASE s # r
      BY <1>6, <2>1, <2>4, <2>7, <3>2 DEF WillName
    <3> QED
      BY <3>1, <3>2
  <2>8. NameComes'
    BY <1>3, <2>7, NameStillComes DEF RInv, serverVars, historyVars
  <2> QED
    BY <2>3, <2>6, <2>8 DEF RInv
<1>8. CASE \/ /\ m.ok /\ (requests[r].what = "signIn" \/ requests[r].stage = "named")
              /\ Finish(r, TRUE, rest)
           \/ ~m.ok /\ (Finish(r, FALSE, rest) \/ Alert(r, rest))
  <2>1. /\ requests' = [requests EXCEPT ![r] = Ended]
        /\ mainQueue' \in Seq(Block) /\ Extends(mainQueue', rest)
        /\ heard' \in Account \cup {Nobody, "nothing"}
        /\ UNCHANGED <<tab, top, recipeOpen, covers>>
        /\ sheet' \in {sheet, "closing"} /\ outcome' \in BOOLEAN
    <3>1. \E ok \in BOOLEAN : Finish(r, ok, rest) \/ Alert(r, rest)
      BY <1>8
    <3>2. outcome \in BOOLEAN
      BY <1>1 DEF TypeOK
    <3> QED
      BY <1>1, <3>1, <3>2, EndTypes
  <2>2. requests' \in [Requests -> Request]
    BY <1>1, <2>1 DEF TypeOK, Request, Ended
  <2>3. TypeOK'
    BY <1>1, <1>3, <2>1, <2>2 DEF TypeOK, serverVars, authVars, historyVars
  <2>4. /\ \A s \in Requests \ {r} : requests'[s] = requests[s]
        /\ requests'[r].stage = "done" /\ requests'[r].what = "none"
    BY <1>1, <2>1 DEF TypeOK, Ended
  <2>5. Fit(rest, requests', registered')
    BY <1>1, <1>2, <1>3, <2>4, FitChange DEF serverVars
  <2>6. Fit(mainQueue', requests', registered')
    BY <1>1, <2>1, <2>5, FitExtends
  <2>7. ~WillName(mainQueue, requests, r)
    <3>1. CASE m.ok
      BY <1>8, <3>1, <1>1 DEF WillName, RInv, Fit, RequestsFit
    <3>2. CASE ~m.ok
      <4>1. Callback(r, TRUE) # m /\ Has(mainQueue, r, FALSE)
        <5>1. m = Callback(r, FALSE) /\ Callback(r, TRUE).ok /\ ~Callback(r, FALSE).ok
          BY <1>5, <3>2, BlockParts
        <5> QED
          BY <1>1, <5>1 DEF Has
      <4>2. requests[r].stage = "answered"
        BY <1>1, <4>1 DEF RInv, Fit, CallbacksFit
      <4>3. ~Has(mainQueue, r, TRUE)
        BY <1>1, <1>2, <4>1, HasTail DEF m, rest
      <4> QED
        BY <4>2, <4>3 DEF WillName
    <3> QED
      BY <3>1, <3>2
  <2>8. ASSUME NEW s \in Requests, WillName(mainQueue, requests, s)
        PROVE  requests'[s].account = requests[s].account /\ WillName(mainQueue', requests', s)
    <3>1. s # r /\ requests'[s] = requests[s]
      BY <2>4, <2>7, <2>8
    <3> QED
      BY <1>1, <1>6, <2>1, <2>8, <3>1, HasExtends DEF WillName
  <2>9. NameComes'
    BY <1>3, <2>8, NameStillComes DEF RInv, serverVars, historyVars
  <2> QED
    BY <2>3, <2>6, <2>9 DEF RInv
<1> QED
  BY <1>4, <1>7, <1>8

\* The login page is told how the sheet closed.
LEMMA DidSignInKeepsRInv ==
    ASSUME RInv, mainQueue # <<>>, DidSignIn
    PROVE  RInv'
<1> DEFINE m == Head(mainQueue)
           rest == Tail(mainQueue)
<1>1. /\ TypeOK /\ mainQueue \in Seq(Block) /\ rest \in Seq(Block) /\ m.type = "result"
  BY FirstRuns DEF RInv, TypeOK, DidSignIn
<1>2. /\ UNCHANGED <<covers, outcome, serverVars, authVars, requests, historyVars>>
      /\ trap' \in {"none", "noError"}
  BY DEF DidSignIn
<1>3. /\ mainQueue' \in Seq(Block) /\ Extends(mainQueue', rest)
      /\ heard' \in Account \cup {Nobody, "nothing"}
      /\ tab' = tab /\ top' \in {top, "settings"} /\ recipeOpen' = recipeOpen /\ sheet' = sheet
      /\ pageUser' \in [Page -> Account \cup {Nobody}]
  <2>1. CASE /\ Show(tab, "settings", recipeOpen, sheet, {"settings", "profile"}, rest)
             /\ pageUser' = [pageUser EXCEPT !["settings"] = pageUser["login"], !["profile"] = Nobody]
    <3>1. pageUser' \in [Page -> Account \cup {Nobody}]
      BY <1>1, <2>1 DEF TypeOK, Page
    <3> QED
      BY <1>1, <2>1, <3>1, ShowExtends
  <2>2. CASE mainQueue' = rest /\ UNCHANGED <<placeVars, sheet, heard, pageUser>>
    <3>1. Extends(rest, rest)
      BY <1>1, LenProperties DEF Extends
    <3> QED
      BY <1>1, <2>2, <3>1 DEF TypeOK, placeVars
  <2> QED
    BY <2>1, <2>2 DEF DidSignIn
<1>4. TypeOK'
  BY <1>1, <1>2, <1>3 DEF TypeOK, serverVars, authVars, historyVars
<1> QED
  BY <1>1, <1>2, <1>3, <1>4, QuietStep DEF historyVars

-----------------------------------------------------------------------------
(* The answers keep it.                                                    *)

\* A sign-in or sign-up succeeds: the request is answered and its callback queued.
LEMMA BecomesUserKeepsFit ==
    ASSUME RInv, NEW r \in Requests, requests[r].stage = "asked", requests[r].what # "none",
           NEW named2 \in BOOLEAN, BecomesUser(requests[r].account, named2, r),
           requests' = [requests EXCEPT ![r].stage = "answered"],
           registered \subseteq registered',
           requests[r].what = "signUp" => requests[r].account \in registered'
    PROVE  /\ mainQueue' \in Seq(Block) /\ requests' \in [Requests -> Request]
           /\ user' \in Account \cup {Nobody} /\ userNamed' \in BOOLEAN /\ maker' \in 0 .. MaxRequests
           /\ \A s \in Requests \ {r} : requests'[s] = requests[s]
           /\ requests'[r].stage = "answered" /\ requests'[r].what = requests[r].what
           /\ requests'[r].account = requests[r].account
           /\ Fit(mainQueue', requests', registered')
           /\ \A s, ok : Has(mainQueue', s, ok) <=> Has(mainQueue, s, ok) \/ (s = r /\ ok = TRUE)
<1> DEFINE q == Append(mainQueue, Notify)
<1>1. mainQueue \in Seq(Block) /\ q \in Seq(Block) /\ Extends(q, mainQueue)
  BY OneMore, BlocksAre, BlockParts DEF RInv, TypeOK
<1>2. mainQueue' = Append(q, Callback(r, TRUE))
  BY BlocksAre, TwoMore DEF BecomesUser, RInv, TypeOK
<1>3. /\ \A s \in Requests \ {r} : requests'[s] = requests[s]
      /\ requests'[r].stage = "answered" /\ requests'[r].what = requests[r].what
      /\ requests'[r].account = requests[r].account
      /\ requests' \in [Requests -> Request]
  BY DEF RInv, TypeOK, Request
<1>4. ~Has(mainQueue, r, TRUE) /\ ~Has(mainQueue, r, FALSE)
  BY DEF RInv, Fit, CallbacksFit
<1>5. requests[r].account \in Account
  BY DEF RInv, Fit, RequestsFit
<1>6. Fit(mainQueue, requests', registered')
  BY <1>3, <1>4, <1>5, FitChange DEF RInv
<1> HIDE DEF q
<1>7. /\ Fit(q, requests', registered')
      /\ \A s, ok : Has(q, s, ok) <=> Has(mainQueue, s, ok)
  BY <1>1, <1>6, FitExtends, HasExtends
<1>8. Fit(mainQueue', requests', registered') /\ mainQueue' \in Seq(Block)
  BY <1>1, <1>2, <1>3, <1>4, <1>7, FitCallback
<1>9. \A s, ok : Has(mainQueue', s, ok) <=> Has(mainQueue, s, ok) \/ (s = r /\ ok = TRUE)
  BY <1>1, <1>2, <1>7, HasCallback
<1>10. user' \in Account \cup {Nobody} /\ userNamed' \in BOOLEAN /\ maker' \in 0 .. MaxRequests
  BY <1>5, AccountAssumption DEF BecomesUser, Requests
<1> QED
  BY <1>3, <1>8, <1>9, <1>10

\* Every answer keeps the invariant.
LEMMA AnswerKeepsRInv ==
    ASSUME RInv, NEW r \in Requests, Answer(r)
    PROVE  RInv'
<1>1. UNCHANGED <<viewVars, trap, events, forced, strayed, crossed>> /\ TypeOK
  BY DEF Answer, RInv
<1> DEFINE a == requests[r].account
<1>2. CASE SignInAnswered(r)
  <2>1. /\ requests[r].what = "signIn" /\ requests[r].stage = "asked"
        /\ BecomesUser(a, a \in named, r) /\ requests' = [requests EXCEPT ![r].stage = "answered"]
        /\ UNCHANGED <<registered, named, unnamed>>
    BY <1>2 DEF SignInAnswered
  <2>2. (a \in named) \in BOOLEAN
    OBVIOUS
  <2>3. /\ mainQueue' \in Seq(Block) /\ requests' \in [Requests -> Request]
        /\ user' \in Account \cup {Nobody} /\ userNamed' \in BOOLEAN /\ maker' \in 0 .. MaxRequests
        /\ \A s \in Requests \ {r} : requests'[s] = requests[s]
        /\ Fit(mainQueue', requests', registered')
        /\ \A s, ok : Has(mainQueue', s, ok) <=> Has(mainQueue, s, ok) \/ (s = r /\ ok = TRUE)
    BY <2>1, <2>2, BecomesUserKeepsFit
  <2>4. TypeOK'
    BY <1>1, <2>1, <2>3 DEF TypeOK, viewVars, placeVars, sheetVars
  <2>5. \A s \in Requests : WillName(mainQueue, requests, s) =>
           requests'[s].account = requests[s].account /\ WillName(mainQueue', requests', s)
    BY <2>1, <2>3 DEF WillName
  <2> QED
    BY <2>1, <2>3, <2>4, <2>5, NameStillComes DEF RInv
<1>3. CASE SignUpAnswered(r)
  <2>1. /\ requests[r].what = "signUp" /\ requests[r].stage = "asked"
        /\ registered' = registered \cup {a}
        /\ BecomesUser(a, FALSE, r) /\ requests' = [requests EXCEPT ![r].stage = "answered"]
        /\ UNCHANGED <<named, unnamed>>
    BY <1>3 DEF SignUpAnswered
  <2>2. /\ mainQueue' \in Seq(Block) /\ requests' \in [Requests -> Request]
        /\ user' \in Account \cup {Nobody} /\ userNamed' \in BOOLEAN /\ maker' \in 0 .. MaxRequests
        /\ \A s \in Requests \ {r} : requests'[s] = requests[s]
        /\ requests'[r].stage = "answered" /\ requests'[r].what = "signUp" /\ requests'[r].account = a
        /\ Fit(mainQueue', requests', registered')
        /\ \A s, ok : Has(mainQueue', s, ok) <=> Has(mainQueue, s, ok) \/ (s = r /\ ok = TRUE)
    BY <2>1, BecomesUserKeepsFit
  <2>3. a \in Account
    BY <2>1 DEF RInv, Fit, RequestsFit
  <2>4. TypeOK'
    BY <1>1, <2>1, <2>2, <2>3 DEF TypeOK, viewVars, placeVars, sheetVars
  <2>5. ASSUME NEW b \in registered' \ named', b \notin unnamed'
        PROVE  \E s \in Requests : requests'[s].account = b /\ WillName(mainQueue', requests', s)
    <3>1. CASE b = a
      BY <2>2, <3>1 DEF WillName
    <3>2. CASE b \in registered
      <4>1. PICK s \in Requests : requests[s].account = b /\ WillName(mainQueue, requests, s)
        BY <2>1, <2>5, <3>2 DEF RInv, NameComes
      <4>2. s # r
        BY <2>1, <4>1 DEF WillName
      <4>3. requests'[s].account = b /\ WillName(mainQueue', requests', s)
        BY <2>2, <4>1, <4>2 DEF WillName
      <4> QED
        BY <4>3
    <3> QED
      BY <2>1, <2>5, <3>1, <3>2
  <2>6. NameComes'
    BY <2>5 DEF NameComes
  <2> QED
    BY <2>2, <2>4, <2>6 DEF RInv
<1>4. CASE NameAnswered(r)
  <2>1. /\ requests[r].stage = "naming" /\ named' = named \cup {a}
        /\ userNamed' \in BOOLEAN
        /\ mainQueue' = Append(mainQueue, Callback(r, TRUE))
        /\ requests' = [requests EXCEPT ![r].stage = "named"]
        /\ UNCHANGED <<registered, user, maker, unnamed>>
    BY <1>1, <1>4 DEF NameAnswered, TypeOK
  <2>2. /\ requests[r].what = "signUp" /\ a \in registered /\ a \in Account
        /\ ~Has(mainQueue, r, TRUE) /\ ~Has(mainQueue, r, FALSE)
    BY <2>1 DEF RInv, Fit, RequestsFit, CallbacksFit
  <2>3. /\ \A s \in Requests \ {r} : requests'[s] = requests[s]
        /\ requests'[r].stage = "named" /\ requests'[r].what = "signUp"
        /\ requests'[r].account = a
        /\ requests' \in [Requests -> Request]
    BY <1>1, <2>1, <2>2 DEF TypeOK, Request
  <2>4. Fit(mainQueue, requests', registered')
    BY <2>1, <2>2, <2>3, FitChange DEF RInv
  <2>5. /\ Fit(mainQueue', requests', registered') /\ mainQueue' \in Seq(Block)
        /\ \A s : Has(mainQueue, s, TRUE) => Has(mainQueue', s, TRUE)
    BY <1>1, <2>1, <2>2, <2>3, <2>4, FitCallback, HasCallback DEF TypeOK
  <2>6. TypeOK'
    <3>1. named' \subseteq registered' /\ UNCHANGED <<registered, user, maker, unnamed>>
      BY <1>1, <2>1, <2>2 DEF TypeOK
    <3>2. userNamed' \in BOOLEAN
      BY <2>1
    <3> QED
      BY <1>1, <2>3, <2>5, <3>1, <3>2 DEF TypeOK, viewVars, placeVars, sheetVars
  <2>7. \A s \in Requests : WillName(mainQueue, requests, s) =>
           \/ requests[s].account \in named' \cup unnamed'
           \/ requests'[s].account = requests[s].account /\ WillName(mainQueue', requests', s)
    BY <2>1, <2>3, <2>5 DEF WillName
  <2>8. NameComes'
    BY <2>1, <2>7, NameStillComes DEF RInv
  <2> QED
    BY <2>5, <2>6, <2>8 DEF RInv
<1>5. CASE Refused(r) \/ NewAccountLost(r) \/ NameLost(r)
  <2>1. /\ requests[r].stage \in {"asked", "naming"}
        /\ mainQueue' = Append(mainQueue, Callback(r, FALSE))
        /\ requests' = [requests EXCEPT ![r].stage = "answered"]
        /\ registered' \in {registered, registered \cup {a}}
        /\ named' \in {named, named \cup {a}}
        /\ unnamed' \in {unnamed, unnamed \cup {a}}
        /\ named' # named \/ requests[r].stage = "naming" => requests[r].stage = "naming" /\ a \in unnamed'
        /\ registered' # registered => a \in unnamed'
        /\ userNamed' \in BOOLEAN /\ UNCHANGED <<user, maker>>
    <3>1. CASE Refused(r)
      BY <1>1, <3>1 DEF Refused, Fails, serverVars, authVars, TypeOK
    <3>2. CASE NewAccountLost(r)
      BY <1>1, <3>2 DEF NewAccountLost, Fails, authVars, TypeOK
    <3>3. CASE NameLost(r)
      <4>1. userNamed' \in BOOLEAN
        BY <1>1, <3>3 DEF NameLost, TypeOK
      <4> QED
        BY <3>3, <4>1 DEF NameLost, Fails
    <3> QED
      BY <1>5, <3>1, <3>2, <3>3
  <2>2. /\ requests[r].what # "none" /\ a \in Account
        /\ requests[r].stage = "naming" => a \in registered
        /\ ~Has(mainQueue, r, TRUE) /\ ~Has(mainQueue, r, FALSE)
    BY <2>1 DEF RInv, Fit, RequestsFit, CallbacksFit
  <2>3. /\ \A s \in Requests \ {r} : requests'[s] = requests[s]
        /\ requests'[r].stage = "answered" /\ requests'[r].what = requests[r].what
        /\ requests'[r].account = a
        /\ requests' \in [Requests -> Request]
    BY <1>1, <2>1 DEF TypeOK, Request
  <2>4. Fit(mainQueue, requests', registered')
    <3>1. registered \subseteq registered'
      BY <2>1
    <3> QED
      BY <2>1, <2>2, <2>3, <3>1, FitChange DEF RInv
  <2>5. /\ Fit(mainQueue', requests', registered') /\ mainQueue' \in Seq(Block)
        /\ \A s : Has(mainQueue, s, TRUE) => Has(mainQueue', s, TRUE)
    BY <1>1, <2>1, <2>2, <2>3, <2>4, FitCallback, HasCallback DEF TypeOK
  <2>6. TypeOK'
    <3>1. registered' \subseteq Account /\ named' \subseteq registered' /\ unnamed' \subseteq Account
      BY <1>1, <2>1, <2>2 DEF TypeOK
    <3>2. userNamed' \in BOOLEAN /\ UNCHANGED <<user, maker>>
      BY <2>1
    <3> QED
      BY <1>1, <2>3, <2>5, <3>1, <3>2 DEF TypeOK, viewVars, placeVars, sheetVars
  <2>7. ASSUME NEW b \in registered' \ named', b \notin unnamed'
        PROVE  \E s \in Requests : requests'[s].account = b /\ WillName(mainQueue', requests', s)
    <3>1. b \in registered \ named /\ b \notin unnamed
      BY <2>1, <2>7
    <3>2. PICK s \in Requests : requests[s].account = b /\ WillName(mainQueue, requests, s)
      BY <3>1 DEF RInv, NameComes
    <3>3. s # r
      BY <2>1, <2>7, <3>2 DEF WillName
    <3>4. requests'[s].account = b /\ WillName(mainQueue', requests', s)
      BY <2>3, <2>5, <3>2, <3>3 DEF WillName
    <3> QED
      BY <3>4
  <2>8. NameComes'
    BY <2>7 DEF NameComes
  <2> QED
    BY <2>5, <2>6, <2>8 DEF RInv
<1> QED
  BY <1>2, <1>3, <1>4, <1>5 DEF Answer

\* The server signs the user out.
LEMMA SignedOutByForceKeepsRInv ==
    ASSUME RInv, SignedOutByForce
    PROVE  RInv'
<1>1. mainQueue' \in Seq(Block) /\ Extends(mainQueue', mainQueue)
  BY OneMore, BlocksAre, BlockParts DEF RInv, TypeOK, SignedOutByForce
<1>2. TypeOK'
  <2>1. /\ events' \in 0 .. MaxEvents /\ maker' \in 0 .. MaxRequests /\ user' = Nobody
        /\ userNamed' \in BOOLEAN /\ forced' \in BOOLEAN
    <3>1. events \in 0 .. MaxEvents /\ events < MaxEvents /\ events' = events + 1 /\ maker' = 0
      BY DEF RInv, TypeOK, SignedOutByForce
    <3>2. events' \in 0 .. MaxEvents /\ maker' \in 0 .. MaxRequests
      BY <3>1, AccountAssumption
    <3> QED
      BY <3>2 DEF SignedOutByForce
  <2>2. UNCHANGED <<serverVars, requests, viewVars, trap, strayed, unnamed, crossed>>
    BY DEF SignedOutByForce
  <2> QED
    BY <1>1, <2>1, <2>2 DEF RInv, TypeOK, serverVars, viewVars, placeVars, sheetVars
<1> QED
  BY <1>1, <1>2, QuietStep DEF SignedOutByForce

-----------------------------------------------------------------------------
(* What the user does keeps it.                                            *)

\* The user goes to another tab or page.
LEMMA BrowseKeepsRInv ==
    ASSUME RInv, Browse
    PROVE  RInv'
<1>1. PICK newTab \in {"search", "account"}, newTop \in {"login", "settings", "profile", "list"},
           newOpen \in BOOLEAN, gone \in SUBSET Page :
        Show(newTab, newTop, newOpen, sheet, gone, mainQueue)
  BY DEF RInv, TypeOK, Browse, SwitchTab, OpenRecipe, CloseRecipe, OpenProfile, OpenList, GoBack, Page
<1>2. pageUser' \in [Page -> Account \cup {Nobody}]
  BY DEF RInv, TypeOK, Browse, SwitchTab, OpenRecipe, CloseRecipe, OpenProfile, OpenList, GoBack, Page
<1>3. UNCHANGED <<serverVars, authVars, requests, covers, outcome, trap, historyVars>>
  BY DEF Browse
<1>4. /\ mainQueue' \in Seq(Block) /\ Extends(mainQueue', mainQueue)
      /\ heard' \in Account \cup {Nobody, "nothing"}
      /\ tab' = newTab /\ top' = newTop /\ recipeOpen' = newOpen /\ sheet' = sheet
  BY <1>1, ShowExtends DEF RInv, TypeOK
<1>5. TypeOK'
  BY <1>2, <1>3, <1>4 DEF RInv, TypeOK, serverVars, authVars, historyVars
<1> QED
  BY <1>3, <1>4, <1>5, QuietStep DEF historyVars

\* The user signs out.
LEMMA SignOutKeepsRInv ==
    ASSUME RInv, SignOut
    PROVE  RInv'
<1> DEFINE q == IF user = Nobody THEN mainQueue ELSE Append(mainQueue, Notify)
<1>1. q \in Seq(Block) /\ Extends(q, mainQueue)
  <2>1. Extends(mainQueue, mainQueue) /\ mainQueue \in Seq(Block)
    BY LenProperties DEF Extends, RInv, TypeOK
  <2> QED
    BY <2>1, OneMore, BlocksAre, BlockParts
<1>2. /\ Show(tab, "login", recipeOpen, sheet, {"settings", "profile"}, q)
      /\ user' = Nobody /\ userNamed' = FALSE /\ maker' = 0
      /\ pageUser' = [pageUser EXCEPT !["settings"] = Nobody, !["profile"] = Nobody]
      /\ UNCHANGED <<serverVars, requests, covers, outcome, trap, historyVars>>
  BY DEF SignOut
<1> HIDE DEF q
<1>3. /\ mainQueue' \in Seq(Block) /\ Extends(mainQueue', q)
      /\ heard' \in Account \cup {Nobody, "nothing"}
      /\ tab' = tab /\ top' = "login" /\ recipeOpen' = recipeOpen /\ sheet' = sheet
  BY <1>1, <1>2, ShowExtends DEF RInv
<1>4. Extends(mainQueue', mainQueue)
  BY <1>1, <1>3, ExtendsTwice DEF RInv, TypeOK
<1>5. pageUser' \in [Page -> Account \cup {Nobody}] /\ maker' \in 0 .. MaxRequests
  BY <1>2, AccountAssumption DEF RInv, TypeOK, Page
<1>6. TypeOK'
  BY <1>2, <1>3, <1>5 DEF RInv, TypeOK, serverVars, historyVars
<1> QED
  BY <1>2, <1>4, <1>6, QuietStep DEF historyVars

\* The sheet opens.
LEMMA LoginTappedKeepsRInv ==
    ASSUME RInv, LoginTapped
    PROVE  RInv'
<1>1. Extends(mainQueue, mainQueue) /\ mainQueue \in Seq(Block)
  BY LenProperties DEF Extends, RInv, TypeOK
<1>2. mainQueue' \in Seq(Block) /\ Extends(mainQueue', mainQueue)
  BY <1>1, RemovedExtends DEF LoginTapped, RInv
<1>3. TypeOK'
  BY <1>2 DEF RInv, TypeOK, LoginTapped, serverVars, authVars, placeVars, historyVars
<1> QED
  BY <1>2, <1>3, QuietStep DEF LoginTapped, historyVars

\* The sheet is cancelled.
LEMMA CancelKeepsRInv ==
    ASSUME RInv, Cancel
    PROVE  RInv'
<1>1. /\ Show(tab, top, recipeOpen, "closing", {}, mainQueue) /\ outcome' = FALSE
      /\ UNCHANGED <<serverVars, authVars, requests, covers, pageUser, trap, historyVars>>
      /\ mainQueue \in Seq(Block) /\ TypeOK /\ top \in {"login", "settings", "profile", "list"}
  BY DEF Cancel, RInv, TypeOK
<1>2. /\ mainQueue' \in Seq(Block) /\ Extends(mainQueue', mainQueue)
      /\ heard' \in Account \cup {Nobody, "nothing"}
      /\ tab' = tab /\ top' = top /\ recipeOpen' = recipeOpen /\ sheet' = "closing"
  BY <1>1, ShowExtends
<1>3. TypeOK'
  <2>1. outcome' \in BOOLEAN
    BY <1>1
  <2> QED
    BY <1>1, <1>2, <2>1 DEF TypeOK, serverVars, authVars, historyVars
<1> QED
  BY <1>1, <1>2, <1>3, QuietStep DEF historyVars

\* The sheet is gone.
LEMMA SheetGoneKeepsRInv ==
    ASSUME RInv, SheetGone
    PROVE  RInv'
<1>1. mainQueue' \in Seq(Block) /\ Extends(mainQueue', mainQueue)
  BY OneMore, BlocksAre, BlockParts DEF SheetGone, RInv, TypeOK
<1>2. TypeOK'
  <2>1. /\ sheet' = "closed" /\ covers' \in BOOLEAN /\ outcome' \in BOOLEAN
        /\ UNCHANGED <<serverVars, authVars, requests, placeVars, heard, pageUser, trap, historyVars>>
    BY DEF SheetGone
  <2> QED
    BY <1>1, <2>1 DEF RInv, TypeOK, serverVars, authVars, placeVars, historyVars
<1> QED
  BY <1>1, <1>2, QuietStep DEF SheetGone, historyVars

\* A request is made, in a place where none was.
LEMMA SubmitKeepsRInv ==
    ASSUME RInv, Submit
    PROVE  RInv'
<1>1. PICK r \in Requests, a \in Account :
         /\ requests[r].stage = "none"
         /\ requests' = [requests EXCEPT ![r] =
                [what |-> IF a \in registered THEN "signIn" ELSE "signUp", account |-> a,
                 stage |-> "asked", attached |-> TRUE]]
  BY DEF Submit
<1>2. UNCHANGED <<serverVars, authVars, mainQueue, viewVars, trap, historyVars>>
  BY DEF Submit
<1>3. /\ \A s \in Requests \ {r} : requests'[s] = requests[s]
      /\ requests'[r].stage = "asked" /\ requests'[r].what \in {"signIn", "signUp"}
      /\ requests'[r].account \in Account
      /\ requests' \in [Requests -> Request]
  BY <1>1 DEF RInv, TypeOK, Request
<1>4. ~Has(mainQueue, r, TRUE) /\ ~Has(mainQueue, r, FALSE)
  BY <1>1 DEF RInv, Fit, CallbacksFit
<1>5. Fit(mainQueue', requests', registered')
  BY <1>2, <1>3, <1>4, FitChange DEF RInv, serverVars
<1>6. TypeOK'
  BY <1>2, <1>3 DEF RInv, TypeOK, serverVars, authVars, viewVars, placeVars, sheetVars, historyVars
<1>7. \A s \in Requests : WillName(mainQueue, requests, s) =>
         requests'[s].account = requests[s].account /\ WillName(mainQueue', requests', s)
  BY <1>1, <1>2, <1>3 DEF WillName
<1>8. NameComes'
  BY <1>2, <1>7, NameStillComes DEF RInv, serverVars, historyVars
<1> QED
  BY <1>5, <1>6, <1>8 DEF RInv

\* The requests go on without their screen.
LEMMA BackKeepsRInv ==
    ASSUME RInv, Back
    PROVE  RInv'
<1>1. /\ requests' = [r \in Requests |-> [requests[r] EXCEPT !.attached = FALSE]]
      /\ strayed' = TRUE
      /\ UNCHANGED <<serverVars, authVars, mainQueue, viewVars, trap, events, forced, unnamed, crossed>>
  BY DEF Back
<1>2. /\ requests' \in [Requests -> Request]
      /\ \A s \in Requests : /\ requests'[s].stage = requests[s].stage
                             /\ requests'[s].what = requests[s].what
                             /\ requests'[s].account = requests[s].account
  BY <1>1 DEF RInv, TypeOK, Request
<1>3. UNCHANGED <<serverVars, authVars, mainQueue, viewVars, trap, events, forced, unnamed, crossed>>
      /\ strayed' \in BOOLEAN
  BY <1>1
<1>4. Fit(mainQueue', requests', registered')
  BY <1>2, <1>3 DEF RInv, Fit, CallbacksFit, OneCallback, RequestsFit, serverVars
<1>5. TypeOK'
  BY <1>2, <1>3 DEF RInv, TypeOK, serverVars, authVars, viewVars, placeVars, sheetVars
<1>6. \A s \in Requests : WillName(mainQueue, requests, s) =>
         requests'[s].account = requests[s].account /\ WillName(mainQueue', requests', s)
  BY <1>2, <1>3 DEF WillName
<1>7. NameComes'
  BY <1>3, <1>6, NameStillComes DEF RInv, serverVars
<1> QED
  BY <1>4, <1>5, <1>7 DEF RInv

\* The app starts again: what had no name then is noted.
LEMMA RelaunchKeepsRInv ==
    ASSUME RInv, Relaunch
    PROVE  RInv'
<1> DEFINE asked(what, stage) == {requests[r].account : r \in {q \in Requests :
                                    requests[q].what = what /\ requests[q].stage = stage}}
<1>1. /\ registered' \in {registered \cup A : A \in SUBSET asked("signUp", "asked")}
      /\ named' \in {named \cup A : A \in SUBSET asked("signUp", "naming")}
      /\ unnamed' = unnamed \cup (registered' \ named') \cup asked("signUp", "naming")
      /\ requests' = [r \in Requests |-> NoRequest]
      /\ mainQueue' = <<>>
  BY DEF Relaunch
<1>2. asked("signUp", "asked") \subseteq Account /\ asked("signUp", "naming") \subseteq registered
  BY DEF RInv, Fit, RequestsFit
<1> HIDE DEF asked
<1>3. registered' \subseteq Account /\ named' \subseteq registered' /\ unnamed' \subseteq Account
  BY <1>1, <1>2 DEF RInv, TypeOK
<1>4. /\ requests' \in [Requests -> Request] /\ mainQueue' \in Seq(Block) /\ Len(mainQueue') = 0
      /\ \A r \in Requests : requests'[r].what = "none" /\ requests'[r].stage = "none"
  BY <1>1, EmptySeq DEF NoRequest, Request
<1>5. TypeOK'
  <2>1. events' \in 0 .. MaxEvents /\ maker' \in 0 .. MaxRequests
    BY AccountAssumption DEF RInv, TypeOK, Relaunch
  <2>2. pageUser' \in [Page -> Account \cup {Nobody}]
    BY DEF Relaunch
  <2>3. UNCHANGED <<user, userNamed, forced, strayed, crossed>>
    BY DEF Relaunch
  <2>4. /\ tab' = "search" /\ top' = "login" /\ recipeOpen' = FALSE
        /\ sheet' = "closed" /\ covers' = FALSE /\ outcome' = FALSE
        /\ heard' = "nothing" /\ trap' = "none"
    BY DEF Relaunch
  <2> QED
    BY <1>3, <1>4, <2>1, <2>2, <2>3, <2>4 DEF RInv, TypeOK
<1>6. Fit(mainQueue', requests', registered')
  BY <1>4 DEF Fit, CallbacksFit, OneCallback, RequestsFit, Has
<1>7. NameComes'
  BY <1>1 DEF NameComes
<1> QED
  BY <1>5, <1>6, <1>7 DEF RInv

\* The app starts with no request, and with names for all accounts.
LEMMA InitEstablishesRInv == Init => RInv
<1> SUFFICES ASSUME Init
             PROVE  RInv
  OBVIOUS
<1>1. /\ requests \in [Requests -> Request] /\ mainQueue \in Seq(Block) /\ Len(mainQueue) = 0
      /\ \A r \in Requests : requests[r].what = "none" /\ requests[r].stage = "none"
  BY EmptySeq DEF Init, NoRequest, Request
<1>2. TypeOK
  <2>1. events \in 0 .. MaxEvents /\ maker \in 0 .. MaxRequests
    BY AccountAssumption DEF Init
  <2> QED
    BY <1>1, <2>1 DEF Init, TypeOK
<1>3. Fit(mainQueue, requests, registered)
  BY <1>1 DEF Fit, CallbacksFit, OneCallback, RequestsFit, Has
<1>4. NameComes
  BY DEF Init, NameComes
<1> QED
  BY <1>2, <1>3, <1>4 DEF RInv

\* Every step of the specification.
LEMMA NextKeepsRInv == RInv /\ [Next]_vars => RInv'
<1> SUFFICES ASSUME RInv, [Next]_vars
             PROVE  RInv'
  OBVIOUS
<1>1. CASE UNCHANGED vars
  <2>1. UNCHANGED <<serverVars, authVars, requests, mainQueue, viewVars, trap, historyVars>>
    BY <1>1 DEF vars
  <2>2. TypeOK'
    BY <2>1 DEF serverVars, authVars, viewVars, placeVars, sheetVars, historyVars, RInv, TypeOK
  <2>3. Extends(mainQueue', mainQueue)
    BY <2>1, LenProperties DEF Extends, RInv, TypeOK
  <2> QED
    BY <2>1, <2>2, <2>3, QuietStep DEF historyVars
<1>2. CASE MainBlock
  BY <1>2, NotifiedKeepsRInv, FirstCallKeepsRInv, RequestCalledBackKeepsRInv, DidSignInKeepsRInv
     DEF MainBlock
<1>3. CASE Next /\ ~MainBlock
  BY <1>3, AnswerKeepsRInv, SignedOutByForceKeepsRInv, BrowseKeepsRInv, SignOutKeepsRInv,
     LoginTappedKeepsRInv, SubmitKeepsRInv, BackKeepsRInv, CancelKeepsRInv, SheetGoneKeepsRInv,
     RelaunchKeepsRInv DEF Next
<1> QED
  BY <1>1, <1>2, <1>3

\* Requests, their callbacks and the accounts they make fit in every state.
THEOREM RequestsInvariant == Spec => []RInv
BY InitEstablishesRInv, NextKeepsRInv, PTL DEF Spec

\* The types of the state: names belong to accounts, callbacks to requests.
THEOREM TypeCorrect == Spec => []TypeOK
<1>1. RInv => TypeOK
  BY DEF RInv
<1> QED
  BY <1>1, RequestsInvariant, PTL

\* An account is without a name only for a cause that was recorded, or for now.
THEOREM NamelessOnlyForCause == Spec => []NamelessHasCause
<1>1. RInv => NamelessHasCause
  BY DEF RInv, NameComes, WillName, NamelessHasCause, BetweenRequests
<1> QED
  BY <1>1, RequestsInvariant, PTL

-----------------------------------------------------------------------------
(* What the visible page was told, and is to be told.                      *)

\* This block is in the queue.
Waits(q, b) == \E k \in 1 .. Len(q) : q[k] = b

\* The only listener that is to be called first is the visible page's, as new.
Listens(q, v) ==
    \A k \in 1 .. Len(q) :
      q[k].type = "first" /\ q[k].status = "listening" => q[k] = First(v, "listening", "nothing")

\* A page that was told nothing waits for its first call, and one that was told of
\* another user, for a notification.
Hears(q, v, h, u) ==
    /\ Listens(q, v)
    /\ v # "none" /\ h = "nothing" => Waits(q, First(v, "listening", "nothing"))
    /\ v # "none" /\ h \notin {"nothing", u} => Waits(q, Notify)

\* A page that was told of a user has one, and that one if no late call came between.
Knows ==
    Running /\ Visible # "none" /\ heard \in Account
      => pageUser[Visible] \in Account /\ (~crossed => pageUser[Visible] = heard)

\* The inductive invariant of the pages.
HInv == RInv /\ Hears(mainQueue, Visible, heard, user) /\ Knows

\* A block that runs no longer waits, and the others do.
LEMMA WaitsTail ==
    ASSUME NEW q \in Seq(Block), q # <<>>, NEW b, Waits(q, b), Head(q) # b
    PROVE  Waits(Tail(q), b)
<1>1. /\ Head(q) = q[1] /\ Len(q) \in Nat /\ Len(q) > 0 /\ Len(Tail(q)) = Len(q) - 1
      /\ \A k \in 1 .. Len(Tail(q)) : k + 1 \in 1 .. Len(q) /\ Tail(q)[k] = q[k + 1]
  BY FirstRuns
<1>2. PICK k \in 1 .. Len(q) : q[k] = b
  BY DEF Waits
<1>3. k # 1
  BY <1>1, <1>2
<1>4. k - 1 \in 1 .. Len(Tail(q)) /\ Tail(q)[k - 1] = q[k - 1 + 1] /\ k - 1 + 1 = k
  BY <1>1, <1>3
<1> QED
  BY <1>2, <1>4 DEF Waits

\* The listeners that are left were there.
LEMMA ListensTail ==
    ASSUME NEW q \in Seq(Block), q # <<>>, NEW v, Listens(q, v)
    PROVE  Listens(Tail(q), v)
BY FirstRuns DEF Listens

\* A callback or the word to the login page runs, and tells the page nothing.
LEMMA HearsTail ==
    ASSUME NEW q \in Seq(Block), q # <<>>, NEW v, NEW h, NEW u, Hears(q, v, h, u),
           Head(q).type \notin {"first", "notify"}
    PROVE  Hears(Tail(q), v, h, u)
<1>1. Head(q) # First(v, "listening", "nothing") /\ Head(q) # Notify
  BY DEF First, Notify
<1> QED
  BY <1>1, ListensTail, WaitsTail DEF Hears

\* A block behind the others leaves them waiting, and waits.
LEMMA WaitsAppend ==
    ASSUME NEW q \in Seq(Block), NEW b \in Block
    PROVE  Waits(Append(q, b), b) /\ \A c : Waits(q, c) => Waits(Append(q, b), c)
<1>1. /\ Len(q) \in Nat /\ Len(Append(q, b)) = Len(q) + 1
      /\ \A k \in 1 .. Len(q) : Append(q, b)[k] = q[k]
      /\ Append(q, b)[Len(q) + 1] = b
  BY LenProperties, AppendProperties
<1>2. \A k \in 1 .. Len(q) : k \in 1 .. Len(Append(q, b))
  BY <1>1
<1>3. Len(q) + 1 \in 1 .. Len(Append(q, b))
  BY <1>1
<1> QED
  BY <1>1, <1>2, <1>3 DEF Waits

\* The listeners in a longer queue.
LEMMA ListensAppend ==
    ASSUME NEW q \in Seq(Block), NEW b \in Block, NEW v, Listens(q, v),
           b.type # "first" \/ b = First(v, "listening", "nothing")
    PROVE  Listens(Append(q, b), v)
<1>1. /\ Len(q) \in Nat /\ Len(Append(q, b)) = Len(q) + 1
      /\ \A k \in 1 .. Len(q) : Append(q, b)[k] = q[k]
      /\ Append(q, b)[Len(q) + 1] = b
  BY LenProperties, AppendProperties
<1>2. \A k \in 1 .. Len(Append(q, b)) : k \in 1 .. Len(q) \/ k = Len(q) + 1
  BY <1>1
<1> QED
  BY <1>1, <1>2 DEF Listens

\* A block goes to the end that is no first call; after a notification the user may be
\* another.
LEMMA HearsAppend ==
    ASSUME NEW q \in Seq(Block), NEW b \in Block, NEW v, NEW h, NEW u, NEW w, Hears(q, v, h, u),
           b.type # "first", u = w \/ b = Notify
    PROVE  Append(q, b) \in Seq(Block) /\ Hears(Append(q, b), v, h, w)
BY WaitsAppend, ListensAppend, AppendProperties DEF Hears

\* Once the listener of a page is removed none waits for its first call.
LEMMA RemovedListens ==
    ASSUME TypeOK, NEW q \in Seq(Block), NEW v, NEW w, Listens(q, v)
    PROVE  Listens(Removed(q, v), w)
<1>1. Len(Removed(q, v)) = Len(q)
  BY RemovedExtends
<1>2. ASSUME NEW k \in 1 .. Len(q), Removed(q, v)[k].type = "first",
             Removed(q, v)[k].status = "listening"
      PROVE  FALSE
  <2>1. Removed(q, v)[k] = IF q[k] = First(v, "listening", "nothing")
                           THEN First(v, "removed", heard) ELSE q[k]
    BY DEF Removed
  <2>2. CASE q[k] = First(v, "listening", "nothing")
    BY <1>2, <2>1, <2>2 DEF First
  <2>3. CASE q[k] # First(v, "listening", "nothing")
    BY <1>2, <2>1, <2>3 DEF Listens
  <2> QED
    BY <2>2, <2>3
<1> QED
  BY <1>1, <1>2 DEF Listens

\* The pages that go take their own first calls with them, and no others.
LEMMA GoneListens ==
    ASSUME NEW q \in Seq(Block), NEW pages, NEW v, Listens(q, v)
    PROVE  /\ Listens(Gone(q, pages), v)
           /\ v \notin pages /\ Waits(q, First(v, "listening", "nothing"))
                => Waits(Gone(q, pages), First(v, "listening", "nothing"))
<1>1. Len(Gone(q, pages)) = Len(q)
  BY GoneExtends
<1>2. ASSUME NEW k \in 1 .. Len(q)
      PROVE  Gone(q, pages)[k] = IF q[k].type = "first" /\ q[k].page \in pages
                                 THEN First(q[k].page, "gone", q[k].heard) ELSE q[k]
  <2>1. Gone(q, pages)[k] = IF q[k].type = "first" /\ q[k].page \in pages
                            THEN [q[k] EXCEPT !.status = "gone"] ELSE q[k]
    BY DEF Gone
  <2>2. CASE q[k].type = "first"
    <3>1. q[k] \in Block
      BY ElementOfSeq
    <3>2. q[k] = First(q[k].page, q[k].status, q[k].heard)
      BY <2>2, <3>1, BlockKinds
    <3>3. [q[k] EXCEPT !.status = "gone"] = First(q[k].page, "gone", q[k].heard)
      BY <3>2 DEF First
    <3> QED
      BY <2>1, <3>3
  <2> QED
    BY <2>1, <2>2
<1>3. ASSUME NEW k \in 1 .. Len(q), Gone(q, pages)[k].type = "first",
             Gone(q, pages)[k].status = "listening"
      PROVE  Gone(q, pages)[k] = First(v, "listening", "nothing")
  <2>1. CASE q[k].type = "first" /\ q[k].page \in pages
    <3>1. Gone(q, pages)[k] = First(q[k].page, "gone", q[k].heard)
      BY <1>2, <2>1
    <3>2. Gone(q, pages)[k].status = "gone"
      BY <3>1, BlockParts
    <3> QED
      BY <1>3, <3>2
  <2>2. CASE ~(q[k].type = "first" /\ q[k].page \in pages)
    BY <1>2, <1>3, <2>2 DEF Listens
  <2> QED
    BY <2>1, <2>2
<1>4. ASSUME v \notin pages, NEW k \in 1 .. Len(q), q[k] = First(v, "listening", "nothing")
      PROVE  Gone(q, pages)[k] = First(v, "listening", "nothing")
  <2>1. q[k].page = v
    BY <1>4 DEF First
  <2> QED
    BY <1>2, <1>4, <2>1
<1> QED
  BY <1>1, <1>3, <1>4 DEF Listens, Waits

\* A notification waits in a queue that is extended.
LEMMA NotifyExtends ==
    ASSUME NEW q \in Seq(Block), NEW p \in Seq(Block), Extends(p, q), Waits(q, Notify)
    PROVE  Waits(p, Notify)
<1>1. PICK k \in 1 .. Len(q) : q[k] = Notify
  BY DEF Waits
<1>2. k \in 1 .. Len(p)
  BY LenProperties DEF Extends
<1>3. p[k] = Notify
  BY <1>1, BlockParts DEF Extends
<1> QED
  BY <1>2, <1>3 DEF Waits

\* The views change: the page then visible was told nothing and waits for its first call,
\* or it is the one that was there, and hears as before.
LEMMA ShowHears ==
    ASSUME TypeOK, NEW q \in Seq(Block), NEW u, Hears(q, Visible, heard, u), covers' = covers,
           NEW newTab, NEW newOpen, NEW newSheet, NEW gone,
           NEW newTop \in {"login", "settings", "profile", "list"},
           Show(newTab, newTop, newOpen, newSheet, gone, q)
    PROVE  /\ Visible' = PageSeen(newTab, newTop, newOpen, newSheet)
           /\ Hears(mainQueue', Visible', heard', u)
           /\ heard' = "nothing" \/ (heard' = heard /\ Visible' = Visible /\ Visible \notin gone)
<1> DEFINE seen == PageSeen(newTab, newTop, newOpen, newSheet)
           same == seen = Visible /\ seen \notin gone
           after == IF same THEN q ELSE Removed(q, Visible)
           kept == Gone(after, gone)
<1>1. Visible' = seen
  BY ShowExtends DEF Visible, PageSeen
<1>2. seen \in Page \cup {"none"}
  BY DEF PageSeen, Page
<1>3. /\ same => mainQueue' = kept /\ heard' = heard
      /\ ~same => /\ heard' = "nothing"
                  /\ mainQueue' = IF seen = "none" THEN kept
                                  ELSE Append(kept, First(seen, "listening", "nothing"))
  BY DEF Show
<1>4. after \in Seq(Block) /\ Listens(after, seen)
  BY RemovedExtends, RemovedListens DEF Hears
<1> HIDE DEF after, seen
<1>5. kept \in Seq(Block) /\ Listens(kept, seen)
  BY <1>4, GoneExtends, GoneListens
<1>6. CASE same
  <2>1. mainQueue' \in Seq(Block) /\ Extends(mainQueue', q)
    BY ShowExtends
  <2>2. after = q
    BY <1>6 DEF after
  <2>3. Waits(q, First(seen, "listening", "nothing"))
           => Waits(mainQueue', First(seen, "listening", "nothing"))
    BY <1>3, <1>4, <1>6, <2>2, GoneListens
  <2>4. Waits(q, Notify) => Waits(mainQueue', Notify)
    BY <2>1, NotifyExtends
  <2>5. Listens(mainQueue', seen)
    BY <1>3, <1>5, <1>6
  <2> QED
    BY <1>1, <1>3, <1>6, <2>3, <2>4, <2>5 DEF Hears, seen
<1>7. CASE ~same
  <2> HIDE DEF kept
  <2>1. CASE seen = "none"
    BY <1>1, <1>3, <1>5, <1>7, <2>1 DEF Hears, seen
  <2>2. CASE seen # "none"
    <3>1. First(seen, "listening", "nothing") \in Block
      BY <1>2, <2>2, BlocksAre
    <3>2. mainQueue' = Append(kept, First(seen, "listening", "nothing"))
      BY <1>3, <1>7, <2>2
    <3>3. Listens(Append(kept, First(seen, "listening", "nothing")), seen)
      BY <1>5, <3>1, ListensAppend
    <3>4. Waits(mainQueue', First(seen, "listening", "nothing"))
      BY <1>5, <3>1, <3>2, WaitsAppend
    <3> QED
      BY <1>1, <1>3, <1>7, <3>2, <3>3, <3>4 DEF Hears, seen
  <2> QED
    BY <2>1, <2>2
<1> QED
  BY <1>6, <1>7

\* What each step leaves of it.
HearsNow == Hears(mainQueue, Visible, heard, user) /\ Knows

\* The visible page's listener is told the news.
LEMMA NotifiedKeepsHInv ==
    ASSUME HInv, Running, mainQueue # <<>>, Notified
    PROVE  HearsNow'
<1>1. /\ mainQueue \in Seq(Block) /\ TypeOK /\ mainQueue' = Tail(mainQueue)
      /\ Head(mainQueue).type = "notify" /\ Hears(mainQueue, Visible, heard, user)
      /\ UNCHANGED <<user, userNamed, tab, top, recipeOpen, sheet, covers, crossed>>
  BY DEF HInv, RInv, TypeOK, Notified, authVars, placeVars, sheetVars, historyVars
<1>2. Visible' = Visible /\ "nothing" # user
  BY <1>1, AccountAssumption DEF Visible, PageSeen, TypeOK
<1>3. \/ /\ Visible # "none" /\ heard # user
         /\ Hear(Visible, "listening") /\ heard' = user
      \/ Visible # "none" /\ heard = user /\ UNCHANGED <<pageUser, trap, heard>>
      \/ Visible = "none" /\ UNCHANGED <<pageUser, trap, heard>>
  BY DEF Notified, IsNews
<1>4. Hears(mainQueue', Visible', heard', user')
  <2>1. Listens(mainQueue', Visible')
    BY <1>1, <1>2, ListensTail DEF Hears
  <2> QED
    BY <1>1, <1>2, <1>3, <2>1 DEF Hears
<1>5. Knows'
  <2> SUFFICES ASSUME Running', Visible # "none", heard' \in Account
               PROVE  pageUser'[Visible] \in Account /\ (~crossed => pageUser'[Visible] = heard')
    BY <1>1, <1>2 DEF Knows
  <2>1. CASE heard # user /\ Hear(Visible, "listening") /\ heard' = user
    <3>1. user # Nobody
      BY <2>1, AccountAssumption
    <3>2. pageUser' = [pageUser EXCEPT ![Visible] = user]
      BY <2>1, <3>1 DEF Hear, Running
    <3> QED
      BY <1>1, <2>1, <3>1, <3>2, VisibleIsPage DEF TypeOK
  <2>2. CASE UNCHANGED <<pageUser, trap, heard>>
    BY <2>2 DEF HInv, Knows, Running
  <2> QED
    BY <1>3, <2>1, <2>2
<1> QED
  BY <1>4, <1>5 DEF HearsNow

\* A listener is called for the first time: the page's own, or one removed meanwhile.
LEMMA FirstCallKeepsHInv ==
    ASSUME HInv, Running, mainQueue # <<>>, FirstCall
    PROVE  HearsNow'
<1> DEFINE m == Head(mainQueue)
           last == IF m.status = "listening" THEN heard ELSE m.heard
<1>1. /\ mainQueue \in Seq(Block) /\ TypeOK /\ mainQueue' = Tail(mainQueue)
      /\ m.type = "first" /\ Hears(mainQueue, Visible, heard, user) /\ Knows
      /\ UNCHANGED <<user, userNamed, tab, top, recipeOpen, sheet, covers>>
      /\ crossed' = (crossed \/ Crosses(m))
      /\ heard' = IF m.status = "listening" THEN user ELSE heard
      /\ IF last # user THEN Hear(m.page, m.status) ELSE UNCHANGED <<pageUser, trap>>
  BY DEF HInv, RInv, TypeOK, FirstCall, authVars, placeVars, sheetVars, IsNews
<1>2. /\ m \in Block /\ m = mainQueue[1] /\ 1 \in 1 .. Len(mainQueue) /\ m.page \in Page
      /\ Listens(mainQueue', Visible)
  <2>1. m \in Block /\ m = mainQueue[1] /\ 1 \in 1 .. Len(mainQueue)
    BY <1>1, FirstRuns
  <2>2. m.page \in Page
    BY <1>1, <2>1, BlockKinds
  <2> QED
    BY <1>1, <2>1, <2>2, ListensTail DEF Hears
<1>3. Visible' = Visible /\ "nothing" # user /\ Visible \in Page \cup {"none"}
  BY <1>1, AccountAssumption, VisibleIsPage DEF Visible, PageSeen, TypeOK
<1>4. \/ UNCHANGED <<pageUser, trap>> /\ (last = user \/ user = Nobody)
      \/ trap' = "noName"
      \/ UNCHANGED pageUser /\ m.status = "gone"
      \/ user # Nobody /\ m.status # "gone" /\ pageUser' = [pageUser EXCEPT ![m.page] = user]
  BY <1>1 DEF Hear
<1> HIDE DEF m
<1>5. CASE m.status = "listening"
  <2>1. m = First(Visible, "listening", "nothing")
    BY <1>1, <1>2, <1>5 DEF Hears, Listens
  <2>2. m.page = Visible
    BY <2>1, BlockParts
  <2>3. Hears(mainQueue', Visible', heard', user')
    BY <1>1, <1>2, <1>3, <1>5 DEF Hears
  <2>4. Knows'
    <3> SUFFICES ASSUME Running', Visible # "none", heard' \in Account
                 PROVE  pageUser'[Visible] \in Account /\ (~crossed' => pageUser'[Visible] = heard')
      BY <1>3 DEF Knows
    <3>1. user # Nobody /\ heard' = user /\ trap' = "none"
      BY <1>1, <1>5, AccountAssumption DEF Running
    <3>2. CASE pageUser' = [pageUser EXCEPT ![m.page] = user]
      BY <1>1, <1>2, <2>2, <3>1, <3>2 DEF TypeOK
    <3>3. CASE UNCHANGED <<pageUser, trap>> /\ last = user
      BY <1>1, <1>5, <3>1, <3>3 DEF Knows, Running
    <3> QED
      BY <1>4, <1>5, <3>1, <3>2, <3>3
  <2> QED
    BY <2>3, <2>4 DEF HearsNow
<1>6. CASE m.status # "listening"
  <2>1. m # First(Visible, "listening", "nothing") /\ m # Notify
    BY <1>1, <1>6 DEF First, Notify
  <2>2. Hears(mainQueue', Visible', heard', user')
    BY <1>1, <1>2, <1>3, <1>6, <2>1, WaitsTail DEF Hears, m
  <2>3. Knows'
    <3> SUFFICES ASSUME Running', Visible # "none", heard \in Account
                 PROVE  pageUser'[Visible] \in Account /\ (~crossed' => pageUser'[Visible] = heard)
      BY <1>1, <1>3, <1>6 DEF Knows
    <3>1. pageUser[Visible] \in Account /\ (~crossed => pageUser[Visible] = heard) /\ trap' = "none"
      BY <1>1 DEF Knows, Running
    <3>2. CASE pageUser'[Visible] = pageUser[Visible]
      BY <1>1, <3>1, <3>2
    <3>3. CASE /\ user # Nobody /\ m.status # "gone" /\ m.page = Visible
               /\ pageUser' = [pageUser EXCEPT ![m.page] = user]
      <4>1. m.status = "removed"
        BY <1>1, <1>2, <1>6, <3>3, BlockKinds
      <4>2. ~crossed' => heard = user
        BY <1>1, <3>3, <4>1, AccountAssumption DEF Crosses
      <4>3. pageUser'[Visible] = user /\ user \in Account
        BY <1>1, <1>2, <3>3 DEF TypeOK
      <4> QED
        BY <4>2, <4>3
    <3> QED
      <4>1. Visible \in Page
        BY <1>3
      <4>2. CASE UNCHANGED pageUser
        BY <3>2, <4>2
      <4>3. CASE /\ user # Nobody /\ m.status # "gone"
                 /\ pageUser' = [pageUser EXCEPT ![m.page] = user]
        <5>1. CASE m.page = Visible
          BY <3>3, <4>3, <5>1
        <5>2. CASE m.page # Visible
          BY <1>1, <1>2, <3>2, <4>1, <4>3, <5>2 DEF TypeOK
        <5> QED
          BY <5>1, <5>2
      <4>4. trap' # "noName"
        BY <3>1
      <4> QED
        BY <1>4, <4>2, <4>3, <4>4
  <2> QED
    BY <2>2, <2>3 DEF HearsNow
<1> QED
  BY <1>5, <1>6

\* The page that is told of a user stays the one that was.
LEMMA KnowsStays ==
    ASSUME Knows, trap' \in {trap, "noError"} \/ Running, crossed' = crossed,
           heard' = "nothing" \/ (heard' = heard /\ Visible' = Visible),
           heard' # "nothing" /\ Visible # "none" => pageUser'[Visible] = pageUser[Visible]
    PROVE  Knows'
<1> QED
  BY AccountAssumption DEF Knows, Running

\* A request's callback runs: the sheet closes, or nothing is seen of it.
LEMMA RequestCalledBackKeepsHInv ==
    ASSUME HInv, Running, mainQueue # <<>>, RequestCalledBack
    PROVE  HearsNow'
<1> DEFINE r == Head(mainQueue).request
           rest == Tail(mainQueue)
<1>1. /\ mainQueue \in Seq(Block) /\ rest \in Seq(Block) /\ TypeOK /\ Head(mainQueue).type = "callback"
      /\ Hears(rest, Visible, heard, user) /\ Knows
      /\ UNCHANGED <<user, pageUser, trap, crossed>>
  BY FirstRuns, HearsTail DEF HInv, RInv, TypeOK, RequestCalledBack, authVars, historyVars
<1>2. \/ AskForName(r, rest) \/ Alert(r, rest)
      \/ \E ok \in BOOLEAN : Finish(r, ok, rest)
  BY DEF RequestCalledBack
<1> HIDE DEF r, rest
<1>3. CASE AskForName(r, rest) \/ Alert(r, rest)
  <2>1. mainQueue' = rest /\ UNCHANGED <<placeVars, sheetVars, heard>>
    BY <1>3 DEF AskForName, Alert
  <2>2. Visible' = Visible
    BY <2>1 DEF Visible, PageSeen, placeVars, sheetVars
  <2> QED
    BY <1>1, <2>1, <2>2, KnowsStays DEF HearsNow
<1>4. CASE \E ok \in BOOLEAN : Finish(r, ok, rest)
  <2>1. PICK ok \in BOOLEAN : Finish(r, ok, rest)
    BY <1>4
  <2>2. CASE requests[r].attached
    <3>1. Show(tab, top, recipeOpen, "closing", {}, rest) /\ covers' = covers
      BY <2>1, <2>2 DEF Finish
    <3>2. top \in {"login", "settings", "profile", "list"}
      BY <1>1 DEF TypeOK
    <3>3. /\ Hears(mainQueue', Visible', heard', user)
          /\ heard' = "nothing" \/ (heard' = heard /\ Visible' = Visible)
      BY <1>1, <3>1, <3>2, ShowHears
    <3> QED
      BY <1>1, <3>3, KnowsStays DEF HearsNow
  <2>3. CASE ~requests[r].attached
    <3>1. mainQueue' = Append(rest, Result(ok)) /\ UNCHANGED <<tab, top, recipeOpen, sheet, covers, heard>>
      BY <2>1, <2>3 DEF Finish
    <3>2. Visible' = Visible
      BY <3>1 DEF Visible, PageSeen
    <3>3. Result(ok) \in Block /\ Result(ok).type # "first"
      BY BlocksAre, BlockParts
    <3>4. Hears(mainQueue', Visible, heard, user)
      BY <1>1, <3>1, <3>3, HearsAppend
    <3> QED
      BY <1>1, <3>1, <3>2, <3>4, KnowsStays DEF HearsNow
  <2> QED
    BY <2>2, <2>3
<1> QED
  BY <1>2, <1>3, <1>4

\* The login page gives way to the settings page, which is new.
LEMMA DidSignInKeepsHInv ==
    ASSUME HInv, Running, mainQueue # <<>>, DidSignIn
    PROVE  HearsNow'
<1> DEFINE rest == Tail(mainQueue)
<1>1. /\ mainQueue \in Seq(Block) /\ rest \in Seq(Block) /\ TypeOK /\ Head(mainQueue).type = "result"
      /\ Hears(rest, Visible, heard, user) /\ Knows
      /\ UNCHANGED <<user, covers, crossed>>
  BY FirstRuns, HearsTail DEF HInv, RInv, TypeOK, DidSignIn, authVars, historyVars
<1>2. \/ /\ Show(tab, "settings", recipeOpen, sheet, {"settings", "profile"}, rest)
         /\ pageUser' = [pageUser EXCEPT !["settings"] = pageUser["login"], !["profile"] = Nobody]
      \/ mainQueue' = rest /\ UNCHANGED <<placeVars, sheet, heard, pageUser>>
  BY DEF DidSignIn
<1>3. trap' \in {trap, "noError"}
  BY DEF DidSignIn, Running
<1> HIDE DEF rest
<1>4. CASE /\ Show(tab, "settings", recipeOpen, sheet, {"settings", "profile"}, rest)
           /\ pageUser' = [pageUser EXCEPT !["settings"] = pageUser["login"], !["profile"] = Nobody]
  <2>1. /\ Hears(mainQueue', Visible', heard', user)
        /\ heard' = "nothing" \/ (heard' = heard /\ Visible' = Visible /\ Visible \notin {"settings", "profile"})
    BY <1>1, <1>4, ShowHears
  <2>2. Visible \notin {"none", "settings", "profile"} => pageUser'[Visible] = pageUser[Visible]
    BY <1>1, <1>4, VisibleIsPage DEF TypeOK
  <2> QED
    BY <1>1, <1>3, <2>1, <2>2, KnowsStays DEF HearsNow
<1>5. CASE mainQueue' = rest /\ UNCHANGED <<placeVars, sheet, heard, pageUser>>
  <2>1. Visible' = Visible
    BY <1>1, <1>5 DEF Visible, PageSeen, placeVars
  <2> QED
    BY <1>1, <1>3, <1>5, <2>1, KnowsStays DEF HearsNow
<1> QED
  BY <1>2, <1>4, <1>5

\* Only these change what the page hears, and whether it is called.
LEMMA QuietHears ==
    ASSUME HInv, Hears(mainQueue', Visible, heard, user'),
           UNCHANGED <<placeVars, sheet, covers, heard, pageUser, trap, crossed>>
    PROVE  HearsNow'
<1>1. Visible' = Visible
  BY DEF Visible, PageSeen, placeVars
<1>2. Knows'
  BY <1>1, KnowsStays DEF HInv
<1> QED
  BY <1>1, <1>2 DEF HearsNow

\* FIRAuth's work queue has a block for the main queue.
LEMMA AnswerKeepsHInv ==
    ASSUME HInv, NEW r \in Requests, Answer(r)
    PROVE  HearsNow'
<1>1. /\ TypeOK /\ mainQueue \in Seq(Block) /\ Hears(mainQueue, Visible, heard, user)
      /\ UNCHANGED <<placeVars, sheet, covers, heard, pageUser, trap, crossed>>
  BY DEF HInv, RInv, TypeOK, Answer, viewVars, sheetVars
<1>2. /\ \A ok \in BOOLEAN : Callback(r, ok) \in Block /\ Callback(r, ok).type # "first"
      /\ Notify \in Block /\ Notify.type # "first"
  BY BlocksAre, BlockParts
<1>3. \/ \E a, hasName : BecomesUser(a, hasName, r)
      \/ \E ok \in BOOLEAN : mainQueue' = Append(mainQueue, Callback(r, ok)) /\ user' = user
  BY DEF Answer, SignInAnswered, SignUpAnswered, NameAnswered, Refused,
         NewAccountLost, NameLost, Fails, authVars
<1>4. CASE \E a, hasName : BecomesUser(a, hasName, r)
  <2>1. mainQueue' = Append(Append(mainQueue, Notify), Callback(r, TRUE))
    BY <1>1, <1>2, <1>4, TwoMore DEF BecomesUser
  <2>2. /\ Append(mainQueue, Notify) \in Seq(Block)
        /\ Hears(Append(mainQueue, Notify), Visible, heard, user')
    BY <1>1, <1>2, HearsAppend
  <2>3. Hears(mainQueue', Visible, heard, user')
    BY <1>2, <2>1, <2>2, HearsAppend
  <2> QED
    BY <1>1, <2>3, QuietHears
<1>5. CASE \E ok \in BOOLEAN : mainQueue' = Append(mainQueue, Callback(r, ok)) /\ user' = user
  <2>1. Hears(mainQueue', Visible, heard, user')
    BY <1>1, <1>2, <1>5, HearsAppend
  <2> QED
    BY <1>1, <2>1, QuietHears
<1> QED
  BY <1>3, <1>4, <1>5

\* The page is to hear that nobody is signed in.
LEMMA SignedOutByForceKeepsHInv ==
    ASSUME HInv, SignedOutByForce
    PROVE  HearsNow'
<1>1. /\ mainQueue \in Seq(Block) /\ Hears(mainQueue, Visible, heard, user)
      /\ mainQueue' = Append(mainQueue, Notify)
      /\ UNCHANGED <<placeVars, sheet, covers, heard, pageUser, trap, crossed>>
  BY DEF HInv, RInv, TypeOK, SignedOutByForce, viewVars, sheetVars
<1>2. Notify \in Block /\ Notify.type # "first"
  BY BlocksAre, BlockParts
<1>3. Hears(mainQueue', Visible, heard, user')
  BY <1>1, <1>2, HearsAppend
<1> QED
  BY <1>1, <1>3, QuietHears

\* Another page comes into sight, or the one in sight stays as it is.
LEMMA BrowseKeepsHInv ==
    ASSUME HInv, Browse
    PROVE  HearsNow'
<1>1. /\ TypeOK /\ mainQueue \in Seq(Block) /\ Hears(mainQueue, Visible, heard, user) /\ Knows
      /\ UNCHANGED <<user, covers, trap, crossed>>
  BY DEF HInv, RInv, TypeOK, Browse, authVars, historyVars
<1>2. PICK newTab, newTop, newOpen, gone :
        /\ newTop \in {"login", "settings", "profile", "list"}
        /\ Show(newTab, newTop, newOpen, sheet, gone, mainQueue)
        /\ \A p \in Page \ gone : pageUser'[p] = pageUser[p]
  <2>1. top \in {"login", "settings", "profile", "list"} /\ pageUser \in [Page -> Account \cup {Nobody}]
    BY <1>1 DEF TypeOK
  <2>2. CASE SwitchTab \/ OpenRecipe
    <3>1. \A p \in Page \ {} : pageUser'[p] = pageUser[p]
      BY <2>2 DEF SwitchTab, OpenRecipe
    <3>2. CASE SwitchTab
      <4>1. PICK t \in {"search", "account"} \ {tab} : Show(t, top, recipeOpen, sheet, {}, mainQueue)
        BY <3>2 DEF SwitchTab
      <4> QED
        BY <2>1, <3>1, <4>1
    <3>3. CASE OpenRecipe
      <4> DEFINE open == TRUE
      <4>1. Show(tab, top, open, sheet, {}, mainQueue)
        BY <3>3 DEF OpenRecipe
      <4> HIDE DEF open
      <4> QED
        BY <2>1, <3>1, <4>1
    <3> QED
      BY <2>2, <3>2, <3>3
  <2>3. CASE OpenProfile \/ OpenList
    BY <2>1, <2>3 DEF OpenProfile, OpenList
  <2>4. CASE CloseRecipe
    <3>1. \A p \in Page \ {"recipe"} : pageUser'[p] = pageUser[p]
      BY <2>1, <2>4 DEF CloseRecipe, Page
    <3> DEFINE open == FALSE
    <3>2. Show(tab, top, open, sheet, {"recipe"}, mainQueue)
      BY <2>4 DEF CloseRecipe
    <3> HIDE DEF open
    <3> QED
      BY <2>1, <3>1, <3>2
  <2>5. CASE GoBack
    <3>1. \A p \in Page \ {"profile"} : pageUser'[p] = pageUser[p]
      BY <2>1, <2>5 DEF GoBack, Page
    <3> QED
      BY <2>1, <2>5, <3>1 DEF GoBack
  <2> QED
    BY <2>2, <2>3, <2>4, <2>5 DEF Browse
<1>3. /\ Hears(mainQueue', Visible', heard', user')
      /\ heard' = "nothing" \/ (heard' = heard /\ Visible' = Visible /\ Visible \notin gone)
  BY <1>1, <1>2, ShowHears
<1>4. heard' # "nothing" /\ Visible # "none" => pageUser'[Visible] = pageUser[Visible]
  BY <1>1, <1>2, <1>3, VisibleIsPage
<1> QED
  BY <1>1, <1>3, <1>4, KnowsStays DEF HearsNow

\* The settings page goes, and the login page hears anew.
LEMMA SignOutKeepsHInv ==
    ASSUME HInv, SignOut
    PROVE  HearsNow'
<1> DEFINE q == IF user = Nobody THEN mainQueue ELSE Append(mainQueue, Notify)
<1>1. /\ TypeOK /\ mainQueue \in Seq(Block) /\ Hears(mainQueue, Visible, heard, user) /\ Knows
      /\ UNCHANGED <<covers, trap, crossed>>
      /\ Visible = "settings" /\ user' = Nobody
      /\ Show(tab, "login", recipeOpen, sheet, {"settings", "profile"}, q)
  BY DEF HInv, RInv, TypeOK, SignOut, historyVars
<1>2. Notify \in Block /\ Notify.type # "first"
  BY BlocksAre, BlockParts
<1>3. q \in Seq(Block) /\ Hears(q, Visible, heard, user')
  <2>1. CASE user = Nobody
    BY <1>1, <2>1
  <2>2. CASE user # Nobody
    BY <1>1, <1>2, <2>2, HearsAppend
  <2> QED
    BY <2>1, <2>2
<1> HIDE DEF q
<1>4. /\ Hears(mainQueue', Visible', heard', user')
      /\ heard' = "nothing" \/ Visible \notin {"settings", "profile"}
  BY <1>1, <1>3, ShowHears
<1> QED
  BY <1>1, <1>4, KnowsStays DEF HearsNow

\* The sheet is in front of the login page, or instead of it.
LEMMA LoginTappedKeepsHInv ==
    ASSUME HInv, LoginTapped
    PROVE  HearsNow'
<1>1. /\ TypeOK /\ mainQueue \in Seq(Block) /\ Hears(mainQueue, Visible, heard, user) /\ Knows
      /\ UNCHANGED <<user, tab, top, recipeOpen, pageUser, trap, crossed>>
      /\ Visible = "login" /\ sheet = "closed" /\ sheet' = "form" /\ covers' \in BOOLEAN
      /\ IF covers' THEN heard' = "nothing" /\ mainQueue' = Removed(mainQueue, "login")
         ELSE UNCHANGED <<heard, mainQueue>>
  BY DEF HInv, RInv, TypeOK, LoginTapped, historyVars, authVars, placeVars
<1>2. tab = "account" /\ top = "login"
  BY <1>1 DEF Visible, PageSeen, TypeOK
<1>3. Visible' = IF covers' THEN "none" ELSE "login"
  BY <1>1, <1>2 DEF Visible, PageSeen
<1>4. CASE covers'
  <2>1. Listens(mainQueue', "none")
    BY <1>1, <1>4, RemovedListens DEF Hears
  <2> QED
    BY <1>1, <1>3, <1>4, <2>1, KnowsStays DEF HearsNow, Hears
<1>5. CASE ~covers'
  BY <1>1, <1>3, <1>5, KnowsStays DEF HearsNow
<1> QED
  BY <1>4, <1>5

\* The sheet closes; the page that it hid hears anew.
LEMMA CancelKeepsHInv ==
    ASSUME HInv, Cancel
    PROVE  HearsNow'
<1>1. /\ TypeOK /\ mainQueue \in Seq(Block) /\ Hears(mainQueue, Visible, heard, user) /\ Knows
      /\ UNCHANGED <<user, covers, pageUser, trap, crossed>>
      /\ Show(tab, top, recipeOpen, "closing", {}, mainQueue)
      /\ top \in {"login", "settings", "profile", "list"}
  BY DEF HInv, RInv, TypeOK, Cancel, historyVars, authVars
<1>2. /\ Hears(mainQueue', Visible', heard', user')
      /\ heard' = "nothing" \/ (heard' = heard /\ Visible' = Visible)
  BY <1>1, ShowHears
<1> QED
  BY <1>1, <1>2, KnowsStays DEF HearsNow

\* The sheet is gone, and the login page is to be told.
LEMMA SheetGoneKeepsHInv ==
    ASSUME HInv, SheetGone
    PROVE  HearsNow'
<1>1. /\ TypeOK /\ mainQueue \in Seq(Block) /\ Hears(mainQueue, Visible, heard, user) /\ Knows
      /\ UNCHANGED <<user, tab, top, recipeOpen, heard, pageUser, trap, crossed>>
      /\ sheet = "closing" /\ sheet' = "closed" /\ outcome \in BOOLEAN
      /\ mainQueue' = Append(mainQueue, Result(outcome))
  BY DEF HInv, RInv, TypeOK, SheetGone, historyVars, authVars, placeVars
<1>2. Visible' = Visible
  BY <1>1 DEF Visible, PageSeen
<1>3. Result(outcome) \in Block /\ Result(outcome).type # "first"
  BY <1>1, BlocksAre, BlockParts
<1>4. Hears(mainQueue', Visible, heard, user)
  BY <1>1, <1>3, HearsAppend
<1> QED
  BY <1>1, <1>2, <1>4, KnowsStays DEF HearsNow

\* A request is made, or left alone; the pages see nothing of it.
LEMMA SubmitAndBackKeepHInv ==
    ASSUME HInv, Submit \/ Back
    PROVE  HearsNow'
<1>1. UNCHANGED <<mainQueue, user, placeVars, sheet, covers, heard, pageUser, trap, crossed>>
  BY DEF Submit, Back, authVars, viewVars, sheetVars, historyVars
<1> QED
  BY <1>1, QuietHears DEF HInv

\* The app starts anew, with no page in sight.
LEMMA StartsUnheard ==
    ASSUME mainQueue = <<>>, tab = "search", recipeOpen = FALSE, heard = "nothing"
    PROVE  HearsNow
<1>1. Visible = "none"
  BY DEF Visible, PageSeen
<1>2. Listens(mainQueue, Visible)
  BY DEF Listens
<1> QED
  BY <1>1, <1>2 DEF HearsNow, Hears, Knows

\* The pages' invariant holds when the app starts for the first time.
LEMMA InitEstablishesHInv == Init => HInv
<1>1. Init => RInv
  BY InitEstablishesRInv
<1>2. Init => HearsNow
  BY StartsUnheard DEF Init
<1> QED
  BY <1>1, <1>2 DEF HInv, HearsNow

\* The pages' invariant is kept by every step.
LEMMA NextKeepsHInv == HInv /\ [Next]_vars => HInv'
<1> SUFFICES ASSUME HInv, [Next]_vars
             PROVE  HInv'
  OBVIOUS
<1>1. RInv'
  BY NextKeepsRInv DEF HInv
<1>2. CASE UNCHANGED vars
  <2>1. UNCHANGED <<mainQueue, user, placeVars, sheet, covers, heard, pageUser, trap, crossed>>
    BY <1>2 DEF vars, authVars, viewVars, sheetVars, historyVars
  <2>2. HearsNow'
    BY <2>1, QuietHears DEF HInv
  <2> QED
    BY <1>1, <2>2 DEF HInv, HearsNow
<1>3. CASE MainBlock
  <2>1. HearsNow'
    BY <1>3, NotifiedKeepsHInv, FirstCallKeepsHInv, RequestCalledBackKeepsHInv, DidSignInKeepsHInv
       DEF MainBlock
  <2> QED
    BY <1>1, <2>1 DEF HInv, HearsNow
<1>4. CASE Relaunch
  <2>1. HearsNow'
    <3>1. mainQueue' = <<>> /\ tab' = "search" /\ recipeOpen' = FALSE /\ heard' = "nothing"
      BY <1>4 DEF Relaunch
    <3>2. Visible' = "none"
      BY <3>1 DEF Visible, PageSeen
    <3>3. Listens(mainQueue', Visible')
      BY <3>1 DEF Listens
    <3> QED
      BY <3>2, <3>3 DEF HearsNow, Hears, Knows
  <2> QED
    BY <1>1, <2>1 DEF HInv, HearsNow
<1>5. CASE Next /\ ~MainBlock /\ ~Relaunch
  <2>1. HearsNow'
    BY <1>5, AnswerKeepsHInv, SignedOutByForceKeepsHInv, BrowseKeepsHInv, SignOutKeepsHInv,
       LoginTappedKeepsHInv, SubmitAndBackKeepHInv, CancelKeepsHInv, SheetGoneKeepsHInv DEF Next
  <2> QED
    BY <1>1, <2>1 DEF HInv, HearsNow
<1> QED
  BY <1>2, <1>3, <1>4, <1>5

\* What the visible page heard, and waits to hear, in every state.
THEOREM PagesInvariant == Spec => []HInv
BY InitEstablishesHInv, NextKeepsHInv, PTL DEF Spec

\* A page that is visible, with no word of FIRAuth's under way to it, has the user who is
\* signed in, unless the late first call of a removed listener came between.
THEOREM PagesKnowTheUser == Spec => []PageKnowsUser
<1>1. HInv => PageKnowsUser
  <2> SUFFICES ASSUME HInv, Running, Visible # "none", user # Nobody, ~NewsWaiting, ~crossed
               PROVE  pageUser[Visible] = user
    BY DEF PageKnowsUser
  <2>1. ~Waits(mainQueue, Notify) /\ ~Waits(mainQueue, First(Visible, "listening", "nothing"))
    BY DEF NewsWaiting, Waits
  <2>2. heard = user /\ user \in Account
    BY <2>1 DEF HInv, Hears, RInv, TypeOK
  <2> QED
    BY <2>2 DEF HInv, Knows
<1> QED
  BY <1>1, PagesInvariant, PTL

-----------------------------------------------------------------------------
(* Why the login page has heard of the user when it is told of the sheet.  *)

\* Every block of the one set has a block of the other in front of it.
Led(q, blocks, leaders) ==
    \A k \in 1 .. Len(q) : q[k] \in blocks => \E i \in 1 .. k - 1 : q[i] \in leaders

\* Requests that succeeded, word that one did, and first calls of the login page's
\* listeners that were never told of a user.
Successes == {Callback(r, TRUE) : r \in Requests}
SignedIn == {Result(TRUE)}
LoginCalls == {First("login", "listening", "nothing"), First("login", "removed", "nothing"),
               First("login", "removed", Nobody)}

\* The queue has none of these.
Lacks(q, blocks) == \A k \in 1 .. Len(q) : q[k] \notin blocks

UnderWay(rs, r) == rs[r].stage \notin {"none", "done"}

\* One request at most has its screen, the form, and is not done.
OnItsForm(rs, atSheet) ==
    \A r \in Requests : rs[r].attached =>
      UnderWay(rs, r) /\ atSheet = "form" /\ \A s \in Requests \ {r} : ~rs[s].attached

\* The sheet is in front of the account tab, where the login page stays until it has a user.
Places ==
    /\ sheet # "closed" => tab = "account"
    /\ pageUser["login"] = Nobody => top = "login"
    /\ OnItsForm(requests, sheet)
    /\ ~strayed => \A r \in Requests : UnderWay(requests, r) => requests[r].attached

Untold == Running /\ ~strayed /\ ~forced /\ pageUser["login"] = Nobody

\* Somebody is signed in if a request succeeded.
SomebodyIs(q, rs, closesWell, u) ==
    \/ u # Nobody
    \/ /\ Lacks(q, Successes) /\ Lacks(q, SignedIn)
       /\ \A r \in Requests : rs[r].stage \notin {"naming", "named"}
       /\ ~closesWell

\* A login page in sight gets its notification before the request's callback; a hidden one
\* is called first when the sheet goes, before it is told of it.
Leads(q, rs, covered, closesWell) ==
    /\ covered \/ Led(q, Successes, {Notify})
    /\ covered \/ \A r \in Requests : rs[r].stage \notin {"naming", "named"}
    /\ Led(q, SignedIn, LoginCalls)
    /\ closesWell => Waits(q, First("login", "listening", "nothing"))

ClosesWell == sheet = "closing" /\ outcome

\* The inductive invariant of the sheet.
EInv ==
    /\ HInv
    /\ Places
    /\ NoErrorHasCause
    /\ Untold => /\ SomebodyIs(mainQueue, requests, ClosesWell, user)
                 /\ Leads(mainQueue, requests, covers, ClosesWell)

\* What is left of the invariant beside the pages'.
SheetNow ==
    /\ Places
    /\ NoErrorHasCause
    /\ Untold => /\ SomebodyIs(mainQueue, requests, ClosesWell, user)
                 /\ Leads(mainQueue, requests, covers, ClosesWell)

\* The kinds of the blocks that follow and lead.
LEMMA LeadKinds ==
    /\ \A b \in Successes : b.type = "callback" /\ b.ok = TRUE
    /\ \A b \in SignedIn : b.type = "result" /\ b.ok = TRUE
    /\ \A b \in LoginCalls : b.type = "first" /\ b.page = "login"
    /\ \A b \in {Notify} : b.type = "notify"
<1>1. ASSUME NEW b \in Successes
      PROVE  b.type = "callback" /\ b.ok = TRUE
  <2>1. PICK r \in Requests : b = Callback(r, TRUE)
    BY DEF Successes
  <2> QED
    BY <2>1, BlockParts
<1>2. \A b \in SignedIn : b.type = "result" /\ b.ok = TRUE
  BY BlockParts DEF SignedIn
<1>3. \A b \in LoginCalls : b.type = "first" /\ b.page = "login"
  BY BlockParts DEF LoginCalls
<1>4. \A b \in {Notify} : b.type = "notify"
  BY BlockParts
<1> QED
  BY <1>1, <1>2, <1>3, <1>4

\* A block runs that leads nothing.
LEMMA LedTail ==
    ASSUME NEW q \in Seq(Block), q # <<>>, NEW T, NEW S
    PROVE  /\ Lacks(q, T) => Lacks(Tail(q), T)
           /\ Led(q, T, S) /\ Head(q) \notin S => Led(Tail(q), T, S)
<1>1. /\ Head(q) = q[1] /\ Len(q) \in Nat /\ Len(q) > 0 /\ Len(Tail(q)) = Len(q) - 1
      /\ \A k \in 1 .. Len(Tail(q)) : k + 1 \in 1 .. Len(q) /\ Tail(q)[k] = q[k + 1]
  BY FirstRuns
<1>2. Lacks(q, T) => Lacks(Tail(q), T)
  BY <1>1 DEF Lacks
<1>3. ASSUME Led(q, T, S), Head(q) \notin S, NEW k \in 1 .. Len(Tail(q)), Tail(q)[k] \in T
      PROVE  \E i \in 1 .. k - 1 : Tail(q)[i] \in S
  <2>1. PICK i \in 1 .. k + 1 - 1 : q[i] \in S
    BY <1>1, <1>3 DEF Led
  <2>2. i # 1
    BY <1>1, <1>3, <2>1
  <2>3. i - 1 \in 1 .. k - 1 /\ i - 1 \in 1 .. Len(Tail(q)) /\ i - 1 + 1 = i
    BY <1>1, <2>2
  <2> QED
    BY <1>1, <2>1, <2>3
<1> QED
  BY <1>2, <1>3 DEF Led

\* A first block is led by none.
LEMMA LedHead ==
    ASSUME NEW q \in Seq(Block), q # <<>>, NEW T, NEW S, Head(q) \in T
    PROVE  ~Lacks(q, T) /\ ~Led(q, T, S)
<1>1. Head(q) = q[1] /\ 1 \in 1 .. Len(q)
  BY FirstRuns
<1>2. ~ \E i \in 1 .. 1 - 1 : q[i] \in S
  OBVIOUS
<1> QED
  BY <1>1, <1>2 DEF Led, Lacks

\* A block goes to the end: one that needs no leader, or that has one.
LEMMA LedAppend ==
    ASSUME NEW q \in Seq(Block), NEW b \in Block, NEW T, NEW S
    PROVE  /\ Lacks(q, T) /\ b \notin T => Lacks(Append(q, b), T)
           /\ Led(q, T, S) /\ (b \notin T \/ ~Lacks(q, S)) => Led(Append(q, b), T, S)
           /\ b \in S => ~Lacks(Append(q, b), S)
<1>1. /\ Len(q) \in Nat /\ Len(Append(q, b)) = Len(q) + 1
      /\ \A k \in 1 .. Len(q) : Append(q, b)[k] = q[k]
      /\ Append(q, b)[Len(q) + 1] = b
  BY LenProperties, AppendProperties
<1>2. \A k \in 1 .. Len(Append(q, b)) : k \in 1 .. Len(q) \/ k = Len(q) + 1
  BY <1>1
<1>3. Len(q) + 1 \in 1 .. Len(Append(q, b)) /\ Len(q) + 1 - 1 = Len(q)
  BY <1>1
<1>4. ASSUME Led(q, T, S), b \notin T \/ ~Lacks(q, S),
             NEW k \in 1 .. Len(Append(q, b)), Append(q, b)[k] \in T
      PROVE  \E i \in 1 .. k - 1 : Append(q, b)[i] \in S
  <2>1. CASE k \in 1 .. Len(q)
    <3>1. PICK i \in 1 .. k - 1 : q[i] \in S
      BY <1>1, <1>4, <2>1 DEF Led
    <3>2. i \in 1 .. Len(q)
      BY <1>1, <2>1
    <3> QED
      BY <1>1, <3>1, <3>2
  <2>2. CASE k = Len(q) + 1
    <3>1. PICK i \in 1 .. Len(q) : q[i] \in S
      BY <1>1, <1>4, <2>2 DEF Lacks
    <3> QED
      BY <1>1, <1>3, <2>2, <3>1
  <2> QED
    BY <1>2, <2>1, <2>2
<1> QED
  BY <1>1, <1>2, <1>3, <1>4 DEF Led, Lacks

\* First calls are rewritten, and lead where they did.
LEMMA LedRewritten ==
    ASSUME NEW q \in Seq(Block), NEW p \in Seq(Block), Extends(p, q), Len(p) = Len(q), NEW T, NEW S,
           \A b \in T : b.type # "first",
           \A k \in 1 .. Len(q) : q[k] \in S => p[k] \in S
    PROVE  /\ Lacks(q, T) => Lacks(p, T)
           /\ Led(q, T, S) => Led(p, T, S)
<1>1. Len(q) \in Nat
  BY LenProperties
<1>2. ASSUME NEW k \in 1 .. Len(q), p[k] \in T
      PROVE  q[k] \in T
  BY <1>2 DEF Extends
<1>3. ASSUME Led(q, T, S), NEW k \in 1 .. Len(q), p[k] \in T
      PROVE  \E i \in 1 .. k - 1 : p[i] \in S
  <2>1. PICK i \in 1 .. k - 1 : q[i] \in S
    BY <1>2, <1>3 DEF Led
  <2>2. i \in 1 .. Len(q)
    BY <1>1
  <2> QED
    BY <2>1, <2>2
<1> QED
  BY <1>2, <1>3 DEF Led, Lacks

\* A page's listener that was told of nobody is removed, and other pages than the login page
\* are popped.
LEMMA RemovedLeads ==
    ASSUME TypeOK, NEW q \in Seq(Block), NEW page, page = "login" => heard \notin Account,
           NEW T \in {Successes, SignedIn}, NEW S \in {{Notify}, LoginCalls}
    PROVE  /\ Lacks(q, T) => Lacks(Removed(q, page), T)
           /\ Led(q, T, S) => Led(Removed(q, page), T, S)
<1> DEFINE p == Removed(q, page)
<1>1. p \in Seq(Block) /\ Len(p) = Len(q) /\ Extends(p, q)
  BY RemovedExtends
<1>2. \A b \in T : b.type # "first"
  BY LeadKinds
<1>3. ASSUME NEW k \in 1 .. Len(q), q[k] \in S
      PROVE  p[k] \in S
  <2>1. p[k] = IF q[k] = First(page, "listening", "nothing") THEN First(page, "removed", heard) ELSE q[k]
    BY DEF Removed
  <2>2. CASE q[k] = First(page, "listening", "nothing")
    <3>1. q[k].type = "first" /\ q[k].page = page
      BY <2>2, BlockParts
    <3>2. S = LoginCalls /\ page = "login"
      BY <1>3, <3>1, LeadKinds
    <3>3. heard \in {Nobody, "nothing"}
      BY <3>2 DEF TypeOK
    <3> QED
      BY <2>1, <2>2, <3>2, <3>3 DEF LoginCalls
  <2>3. CASE q[k] # First(page, "listening", "nothing")
    BY <1>3, <2>1, <2>3
  <2> QED
    BY <2>2, <2>3
<1> HIDE DEF p
<1>4. /\ Lacks(q, T) => Lacks(p, T)
      /\ Led(q, T, S) => Led(p, T, S)
  BY <1>1, <1>2, <1>3, LedRewritten
<1> QED
  BY <1>4 DEF p

\* Pages are popped, but never the login page.
LEMMA GoneLeads ==
    ASSUME NEW q \in Seq(Block), NEW pages, "login" \notin pages,
           NEW T \in {Successes, SignedIn}, NEW S \in {{Notify}, LoginCalls}
    PROVE  /\ Lacks(q, T) => Lacks(Gone(q, pages), T)
           /\ Led(q, T, S) => Led(Gone(q, pages), T, S)
<1> DEFINE p == Gone(q, pages)
<1>1. p \in Seq(Block) /\ Len(p) = Len(q) /\ Extends(p, q)
  BY GoneExtends
<1>2. \A b \in T : b.type # "first"
  BY LeadKinds
<1>3. ASSUME NEW k \in 1 .. Len(q), q[k] \in S
      PROVE  p[k] \in S
  <2>1. p[k] = IF q[k].type = "first" /\ q[k].page \in pages THEN [q[k] EXCEPT !.status = "gone"] ELSE q[k]
    BY DEF Gone
  <2>2. ~(q[k].type = "first" /\ q[k].page \in pages)
    BY <1>3, LeadKinds
  <2> QED
    BY <1>3, <2>1, <2>2
<1> HIDE DEF p
<1>4. /\ Lacks(q, T) => Lacks(p, T)
      /\ Led(q, T, S) => Led(p, T, S)
  BY <1>1, <1>2, <1>3, LedRewritten
<1> QED
  BY <1>4 DEF p

\* The views change while the login page was told of nobody: the leaders stay in front.
LEMMA ShowLeads ==
    ASSUME TypeOK, NEW q \in Seq(Block), NEW newTab, NEW newOpen, NEW newSheet, NEW gone,
           NEW newTop \in {"login", "settings", "profile", "list"},
           Show(newTab, newTop, newOpen, newSheet, gone, q), "login" \notin gone,
           Visible = "login" => heard \notin Account,
           NEW T \in {Successes, SignedIn}, NEW S \in {{Notify}, LoginCalls}
    PROVE  /\ Lacks(q, T) => Lacks(mainQueue', T)
           /\ Led(q, T, S) => Led(mainQueue', T, S)
<1> DEFINE seen == PageSeen(newTab, newTop, newOpen, newSheet)
           same == seen = Visible /\ seen \notin gone
           after == IF same THEN q ELSE Removed(q, Visible)
           kept == Gone(after, gone)
<1>1. \/ mainQueue' = kept
      \/ seen # "none" /\ mainQueue' = Append(kept, First(seen, "listening", "nothing"))
  BY DEF Show
<1>2. seen \in Page \cup {"none"}
  BY DEF PageSeen, Page
<1>3. after \in Seq(Block) /\ (Lacks(q, T) => Lacks(after, T)) /\ (Led(q, T, S) => Led(after, T, S))
  <2>1. CASE same
    BY <2>1
  <2>2. CASE ~same
    BY <2>2, RemovedLeads, RemovedExtends
  <2> QED
    BY <2>1, <2>2
<1> HIDE DEF after, seen
<1>4. kept \in Seq(Block) /\ (Lacks(q, T) => Lacks(kept, T)) /\ (Led(q, T, S) => Led(kept, T, S))
  BY <1>3, GoneLeads, GoneExtends
<1> HIDE DEF kept
<1>5. CASE seen # "none" /\ mainQueue' = Append(kept, First(seen, "listening", "nothing"))
  <2>1. First(seen, "listening", "nothing") \in Block
    BY <1>2, <1>5, BlocksAre
  <2>2. First(seen, "listening", "nothing") \notin T
    BY LeadKinds, BlockParts
  <2> QED
    BY <1>4, <1>5, <2>1, <2>2, LedAppend
<1> QED
  BY <1>1, <1>4, <1>5

\* No request is under way: none has succeeded that is to be called back.
LEMMA NoSuccess ==
    ASSUME RInv, \A r \in Requests : ~UnderWay(requests, r)
    PROVE  Lacks(mainQueue, Successes) /\ \A r \in Requests : requests[r].stage \notin {"naming", "named"}
<1>1. ASSUME NEW k \in 1 .. Len(mainQueue), mainQueue[k] \in Successes
      PROVE  FALSE
  <2>1. PICK r \in Requests : mainQueue[k] = Callback(r, TRUE)
    BY <1>1 DEF Successes
  <2>2. Has(mainQueue, r, TRUE)
    BY <2>1 DEF Has
  <2>3. requests[r].stage \in {"answered", "named"}
    BY <2>2 DEF RInv, Fit, CallbacksFit
  <2> QED
    BY <2>3 DEF UnderWay
<1> QED
  BY <1>1 DEF Lacks, UnderWay

\* A login page that was told of nobody and is in sight has heard of nobody.
LEMMA UntoldHeard ==
    ASSUME HInv, Untold
    PROVE  Visible = "login" => heard \notin Account
BY AccountAssumption DEF HInv, Knows, Untold

\* Nothing has succeeded, and so nothing is to be led.
LEMMA NothingToLead ==
    ASSUME NEW q, NEW rs, NEW c, NEW w, NEW u, Lacks(q, Successes), Lacks(q, SignedIn), ~w,
           \A r \in Requests : rs[r].stage \notin {"naming", "named"}
    PROVE  SomebodyIs(q, rs, w, u) /\ Leads(q, rs, c, w)
BY DEF SomebodyIs, Leads, Led, Lacks

\* A page that hears something keeps its user, or has another.
LEMMA HearTells ==
    ASSUME TypeOK, NEW page \in Page, NEW status, Hear(page, status)
    PROVE  /\ trap' \in {trap, "noName"}
           /\ pageUser'["login"] = Nobody => pageUser["login"] = Nobody
           /\ user # Nobody /\ page = "login" /\ status # "gone"
                => trap' = "noName" \/ pageUser'["login"] = user
BY AccountAssumption DEF Hear, TypeOK, Page

\* The sheet's invariant is kept: the visible page's listener is told the news.
LEMMA NotifiedKeepsEInv ==
    ASSUME EInv, Running, mainQueue # <<>>, Notified
    PROVE  SheetNow'
<1>1. /\ mainQueue \in Seq(Block) /\ TypeOK /\ RInv /\ HInv /\ mainQueue' = Tail(mainQueue)
      /\ Head(mainQueue).type = "notify" /\ user \in Account \cup {Nobody}
      /\ UNCHANGED <<user, requests, tab, top, recipeOpen, sheet, covers, outcome, forced, strayed>>
  BY DEF EInv, HInv, RInv, TypeOK, Notified, authVars, placeVars, sheetVars, historyVars
<1>2. /\ trap' \in {trap, "noName"}
      /\ pageUser'["login"] = Nobody => pageUser["login"] = Nobody
      /\ Visible = "login" /\ user # Nobody /\ heard # user => trap' = "noName" \/ pageUser'["login"] = user
  <2>1. Visible # "none" => Visible \in Page
    BY <1>1, VisibleIsPage
  <2>2. CASE Visible # "none" /\ IsNews(heard)
    <3>1. Hear(Visible, "listening")
      BY <2>2 DEF Notified
    <3> QED
      BY <1>1, <2>1, <2>2, <3>1, HearTells
  <2>3. CASE ~(Visible # "none" /\ IsNews(heard))
    BY <2>3 DEF Notified, IsNews
  <2> QED
    BY <2>2, <2>3
<1>3. Places'
  BY <1>1, <1>2 DEF EInv, Places
<1>4. NoErrorHasCause'
  BY <1>2 DEF NoErrorHasCause, Running
<1>5. ASSUME Untold'
      PROVE  /\ SomebodyIs(mainQueue', requests', ClosesWell', user')
             /\ Leads(mainQueue', requests', covers', ClosesWell')
  <2>1. /\ Untold /\ SomebodyIs(mainQueue, requests, ClosesWell, user)
        /\ Leads(mainQueue, requests, covers, ClosesWell) /\ ClosesWell' = ClosesWell
    BY <1>1, <1>2, <1>5 DEF Untold, EInv, ClosesWell
  <2>2. CASE user = Nobody
    BY <1>1, <2>1, <2>2, LedTail, NothingToLead DEF SomebodyIs
  <2>3. CASE user # Nobody
    <3>1. ~(Visible = "login" /\ heard # user) /\ trap' = "none"
      BY <1>2, <1>5, <2>3 DEF Untold, Running
    <3>2. Visible # "login"
      BY <1>1, <2>1, <2>3, <3>1, UntoldHeard
    <3>3. /\ top = "login" /\ (sheet # "closed" => tab = "account")
          /\ \A r \in Requests : UnderWay(requests, r) => sheet = "form"
      BY <2>1 DEF EInv, Places, Untold, OnItsForm
    <3>4. covers \/ Lacks(mainQueue, Successes)
      <4>1. CASE sheet = "form"
        BY <3>2, <3>3, <4>1 DEF Visible, PageSeen
      <4>2. CASE sheet # "form"
        BY <1>1, <3>3, <4>2, NoSuccess
      <4> QED
        BY <4>1, <4>2
    <3>5. Head(mainQueue) \notin LoginCalls /\ Head(mainQueue) # First("login", "listening", "nothing")
      BY <1>1, LeadKinds, BlockParts
    <3>6. covers \/ Led(mainQueue', Successes, {Notify})
      BY <1>1, <3>4, LedTail DEF Lacks, Led
    <3>7. Led(mainQueue', SignedIn, LoginCalls)
      BY <1>1, <2>1, <3>5, LedTail DEF Leads
    <3>8. ClosesWell => Waits(mainQueue', First("login", "listening", "nothing"))
      BY <1>1, <2>1, <3>5, WaitsTail DEF Leads
    <3> QED
      BY <1>1, <2>1, <2>3, <3>6, <3>7, <3>8 DEF Leads, SomebodyIs
  <2> QED
    BY <2>2, <2>3
<1> QED
  BY <1>3, <1>4, <1>5 DEF SheetNow

\* A first call tells the login page of the user, or was of another page.
LEMMA FirstCallKeepsEInv ==
    ASSUME EInv, Running, mainQueue # <<>>, FirstCall
    PROVE  SheetNow'
<1> DEFINE m == Head(mainQueue)
           last == IF m.status = "listening" THEN heard ELSE m.heard
<1>1. /\ mainQueue \in Seq(Block) /\ TypeOK /\ RInv /\ HInv /\ mainQueue' = Tail(mainQueue)
      /\ m.type = "first" /\ user \in Account \cup {Nobody}
      /\ IF last # user THEN Hear(m.page, m.status) ELSE UNCHANGED <<pageUser, trap>>
      /\ UNCHANGED <<user, requests, tab, top, recipeOpen, sheet, covers, outcome, forced, strayed>>
  BY DEF EInv, HInv, RInv, TypeOK, FirstCall, authVars, placeVars, sheetVars, IsNews
<1>2. m \in Block /\ m.page \in Page /\ m = mainQueue[1] /\ 1 \in 1 .. Len(mainQueue)
  <2>1. m \in Block /\ m = mainQueue[1] /\ 1 \in 1 .. Len(mainQueue)
    BY <1>1, FirstRuns
  <2> QED
    BY <1>1, <2>1, BlockKinds
<1>3. /\ trap' \in {trap, "noName"}
      /\ pageUser'["login"] = Nobody => pageUser["login"] = Nobody
      /\ m.page = "login" /\ m.status # "gone" /\ user # Nobody /\ last # user
           => trap' = "noName" \/ pageUser'["login"] = user
  BY <1>1, <1>2, HearTells
<1>4. Places'
  BY <1>1, <1>3 DEF EInv, Places
<1>5. NoErrorHasCause'
  BY <1>3 DEF NoErrorHasCause, Running
<1>6. ASSUME Untold'
      PROVE  /\ SomebodyIs(mainQueue', requests', ClosesWell', user')
             /\ Leads(mainQueue', requests', covers', ClosesWell')
  <2>1. /\ Untold /\ SomebodyIs(mainQueue, requests, ClosesWell, user)
        /\ Leads(mainQueue, requests, covers, ClosesWell) /\ ClosesWell' = ClosesWell
    BY <1>1, <1>3, <1>6 DEF Untold, EInv, ClosesWell
  <2>2. CASE user = Nobody
    BY <1>1, <2>1, <2>2, LedTail, NothingToLead DEF SomebodyIs
  <2>3. CASE user # Nobody
    <3>1. ~(m.page = "login" /\ m.status # "gone" /\ last # user)
      BY <1>3, <1>6, <2>3 DEF Untold, Running
    <3>2. ASSUME m \in LoginCalls
          PROVE  FALSE
      <4>1. m.page = "login" /\ m.status \in {"listening", "removed"}
        BY <3>2, BlockParts DEF LoginCalls
      <4>2. CASE m.status = "listening"
        <5>1. m = First(Visible, "listening", "nothing")
          BY <1>1, <1>2, <4>2 DEF HInv, Hears, Listens
        <5>2. Visible = "login"
          BY <4>1, <5>1, BlockParts
        <5> QED
          BY <1>1, <2>1, <2>3, <3>1, <4>1, <4>2, <5>2, UntoldHeard
      <4>3. CASE m.status = "removed"
        <5>1. m.heard \in {Nobody, "nothing"}
          BY <3>2, <4>3, BlockParts DEF LoginCalls
        <5> QED
          BY <1>1, <2>3, <3>1, <4>1, <4>3, <5>1, AccountAssumption
      <4> QED
        BY <4>1, <4>2, <4>3
    <3>3. m # First("login", "listening", "nothing") /\ m \notin {Notify}
      BY <1>1, <3>2, LeadKinds DEF LoginCalls
    <3> HIDE DEF m
    <3>4. covers \/ Led(mainQueue', Successes, {Notify})
      BY <1>1, <2>1, <3>3, LedTail DEF Leads, m
    <3>5. Led(mainQueue', SignedIn, LoginCalls)
      BY <1>1, <2>1, <3>2, LedTail DEF Leads, m
    <3>6. ClosesWell => Waits(mainQueue', First("login", "listening", "nothing"))
      BY <1>1, <2>1, <3>3, WaitsTail DEF Leads, m
    <3> QED
      BY <1>1, <2>1, <2>3, <3>4, <3>5, <3>6 DEF Leads, SomebodyIs
  <2> QED
    BY <2>2, <2>3
<1> QED
  BY <1>4, <1>5, <1>6 DEF SheetNow

\* A request's callback runs: it was led by its notification, or the sheet hid the login
\* page, which is now called first.
LEMMA RequestCalledBackKeepsEInv ==
    ASSUME EInv, Running, mainQueue # <<>>, RequestCalledBack
    PROVE  SheetNow'
<1> DEFINE m == Head(mainQueue)
           r == m.request
           rest == Tail(mainQueue)
<1>1. /\ mainQueue \in Seq(Block) /\ rest \in Seq(Block) /\ TypeOK /\ RInv /\ HInv
      /\ Places /\ m.type = "callback" /\ m \in Block
      /\ requests \in [Requests -> Request] /\ outcome \in BOOLEAN
      /\ top \in {"login", "settings", "profile", "list"}
      /\ UNCHANGED <<user, pageUser, trap, forced, strayed>>
  BY FirstRuns DEF EInv, HInv, RInv, TypeOK, RequestCalledBack, authVars, historyVars
<1>2. /\ r \in Requests /\ (m = Callback(r, TRUE) \/ m = Callback(r, FALSE)) /\ m.ok \in BOOLEAN
      /\ UnderWay(requests, r)
  <2>1. r \in Requests /\ (m = Callback(r, TRUE) \/ m = Callback(r, FALSE))
    BY <1>1, BlockKinds
  <2>2. Has(mainQueue, r, TRUE) \/ Has(mainQueue, r, FALSE)
    <3>1. m = mainQueue[1] /\ 1 \in 1 .. Len(mainQueue)
      BY <1>1, FirstRuns
    <3> QED
      BY <2>1, <3>1 DEF Has
  <2>3. requests[r].stage \in {"answered", "named"}
    BY <1>1, <2>1, <2>2 DEF RInv, Fit, CallbacksFit
  <2>4. m.ok \in BOOLEAN
    <3>1. PICK x : m = Callback(x, TRUE) \/ m = Callback(x, FALSE)
      BY <2>1
    <3>2. m.ok = TRUE \/ m.ok = FALSE
      BY <3>1, BlockParts
    <3> QED
      BY <3>2, Zenon
  <2>5. UnderWay(requests, r)
    BY <2>3 DEF UnderWay
  <2> QED
    BY <2>1, <2>4, <2>5
<1>3. NoErrorHasCause'
  BY <1>1 DEF NoErrorHasCause, Running
<1>4. \/ m.ok /\ AskForName(r, rest)
      \/ Alert(r, rest)
      \/ m.ok /\ Finish(r, TRUE, rest)
      \/ ~m.ok /\ Finish(r, FALSE, rest)
  BY DEF RequestCalledBack
<1>5. ~strayed => /\ requests[r].attached /\ sheet = "form" /\ tab = "account"
                  /\ \A s \in Requests \ {r} : ~UnderWay(requests, s)
  BY <1>1, <1>2 DEF Places, OnItsForm
<1>6. /\ Lacks(mainQueue, SignedIn) => Lacks(rest, SignedIn)
      /\ Led(mainQueue, Successes, {Notify}) => Led(rest, Successes, {Notify})
      /\ Led(mainQueue, SignedIn, LoginCalls) => Led(rest, SignedIn, LoginCalls)
  <2>1. m \notin {Notify} /\ m \notin LoginCalls
    BY <1>1, LeadKinds
  <2> QED
    BY <1>1, <2>1, LedTail
<1>7. ASSUME Untold
      PROVE  /\ SomebodyIs(mainQueue, requests, ClosesWell, user)
             /\ Leads(mainQueue, requests, covers, ClosesWell)
             /\ m.ok => covers /\ user # Nobody
             /\ ~ClosesWell /\ ~strayed
  <2>1. /\ SomebodyIs(mainQueue, requests, ClosesWell, user)
        /\ Leads(mainQueue, requests, covers, ClosesWell)
    BY <1>7 DEF EInv
  <2>2. ~ClosesWell /\ ~strayed
    BY <1>5, <1>7 DEF Untold, ClosesWell
  <2>3. m.ok => m \in Successes
    BY <1>2, BlockParts DEF Successes
  <2>4. m.ok => ~Lacks(mainQueue, Successes) /\ ~Led(mainQueue, Successes, {Notify})
    BY <1>1, <2>3, LedHead
  <2> QED
    BY <2>1, <2>2, <2>4 DEF SomebodyIs, Leads
<1> HIDE DEF m, r, rest
<1>8. CASE m.ok /\ AskForName(r, rest)
  <2>1. /\ mainQueue' = rest /\ requests' = [requests EXCEPT ![r].stage = "naming"]
        /\ UNCHANGED <<tab, top, sheet, covers, outcome>>
    BY <1>8 DEF AskForName, placeVars, sheetVars
  <2>2. /\ requests'[r].attached = requests[r].attached /\ requests'[r].stage = "naming"
        /\ \A s \in Requests \ {r} : requests'[s] = requests[s]
    BY <1>1, <1>2, <2>1 DEF Request
  <2>3. Places'
    BY <1>1, <1>5, <2>1, <2>2 DEF Places, OnItsForm, UnderWay
  <2>4. ASSUME Untold'
        PROVE  /\ SomebodyIs(mainQueue', requests', ClosesWell', user')
               /\ Leads(mainQueue', requests', covers', ClosesWell')
    <3>1. Untold /\ ClosesWell' = ClosesWell
      BY <1>1, <2>1, <2>4 DEF Untold, Running, ClosesWell
    <3>2. SomebodyIs(mainQueue', requests', ClosesWell', user')
      BY <1>1, <1>7, <1>8, <3>1 DEF SomebodyIs
    <3>3. Leads(mainQueue', requests', covers', ClosesWell')
      BY <1>6, <1>7, <1>8, <2>1, <3>1 DEF Leads
    <3> QED
      BY <3>2, <3>3
  <2> QED
    BY <1>3, <2>3, <2>4 DEF SheetNow
<1>9. ASSUME requests' = [requests EXCEPT ![r] = Ended]
      PROVE  /\ \A s \in Requests \ {r} : requests'[s] = requests[s]
             /\ requests'[r].stage = "done" /\ requests'[r].attached = FALSE
             /\ ~strayed => \A s \in Requests : ~UnderWay(requests', s)
  BY <1>1, <1>2, <1>5, <1>9 DEF Ended, UnderWay
<1>10. CASE Alert(r, rest)
  <2>1. /\ mainQueue' = rest /\ requests' = [requests EXCEPT ![r] = Ended]
        /\ UNCHANGED <<tab, top, sheet, covers, outcome>>
    BY <1>10 DEF Alert, placeVars, sheetVars
  <2>2. Places'
    <3>1. OnItsForm(requests', sheet')
      BY <1>1, <1>9, <2>1 DEF Places, OnItsForm, UnderWay
    <3> QED
      BY <1>1, <1>9, <2>1, <3>1 DEF Places
  <2>3. ASSUME Untold'
        PROVE  /\ SomebodyIs(mainQueue', requests', ClosesWell', user')
               /\ Leads(mainQueue', requests', covers', ClosesWell')
    <3>1. Untold /\ ClosesWell' = ClosesWell
      BY <1>1, <2>1, <2>3 DEF Untold, Running, ClosesWell
    <3>2. \A s \in Requests : requests'[s].stage \notin {"naming", "named"}
      BY <1>7, <1>9, <2>1, <3>1 DEF UnderWay
    <3>3. Lacks(mainQueue, Successes) => Lacks(rest, Successes)
      BY <1>1, LedTail DEF rest
    <3>4. SomebodyIs(mainQueue', requests', ClosesWell', user')
      BY <1>1, <1>6, <1>7, <2>1, <3>1, <3>2, <3>3 DEF SomebodyIs
    <3>5. Leads(mainQueue', requests', covers', ClosesWell')
      BY <1>6, <1>7, <2>1, <3>1, <3>2 DEF Leads
    <3> QED
      BY <3>4, <3>5
  <2> QED
    BY <1>3, <2>2, <2>3 DEF SheetNow
<1>11. CASE \E ok \in BOOLEAN : Finish(r, ok, rest) /\ m.ok = ok
  <2>1. PICK ok \in BOOLEAN : Finish(r, ok, rest) /\ m.ok = ok
    BY <1>11
  <2>2. requests' = [requests EXCEPT ![r] = Ended] /\ covers' = covers
    BY <2>1 DEF Finish
  <2>3. CASE strayed
    <3>1. /\ (sheet' # "closed" => tab' = "account") /\ top' = top
          /\ OnItsForm(requests', sheet')
      <4>1. CASE requests[r].attached
        <5>1. PICK x : x = "closing" /\ Show(tab, top, recipeOpen, x, {}, rest)
          BY <2>1, <4>1 DEF Finish
        <5>2. sheet # "closed"
          BY <1>1, <1>2, <4>1 DEF Places, OnItsForm
        <5>3. \A s \in Requests : ~requests'[s].attached
          BY <1>1, <1>2, <1>9, <2>2, <4>1 DEF Places, OnItsForm
        <5> QED
          BY <1>1, <5>1, <5>2, <5>3, ShowExtends DEF Places, OnItsForm
      <4>2. CASE ~requests[r].attached
        <5>1. UNCHANGED <<tab, top, recipeOpen, sheet>>
          BY <2>1, <4>2 DEF Finish
        <5>2. OnItsForm(requests', sheet')
          BY <1>1, <1>9, <2>2, <5>1 DEF Places, OnItsForm, UnderWay
        <5> QED
          BY <1>1, <5>1, <5>2 DEF Places
      <4> QED
        BY <4>1, <4>2
    <3> QED
      BY <1>1, <1>3, <2>3, <3>1 DEF SheetNow, Places, Untold
  <2>4. CASE ~strayed
    <3>1. /\ Show(tab, top, recipeOpen, "closing", {}, rest) /\ outcome' = ok
      BY <1>5, <2>1, <2>4 DEF Finish
    <3>2. tab' = tab /\ top' = top /\ sheet' = "closing"
      BY <3>1 DEF Show
    <3>3. Places'
      BY <1>1, <1>5, <1>9, <2>2, <2>4, <3>2 DEF Places, OnItsForm
    <3>4. ASSUME Untold'
          PROVE  /\ SomebodyIs(mainQueue', requests', ClosesWell', user')
                 /\ Leads(mainQueue', requests', covers', ClosesWell')
      <4>1. Untold
        BY <1>1, <3>4 DEF Untold, Running
      <4>2. \A s \in Requests : requests'[s].stage \notin {"naming", "named"}
        BY <1>9, <2>2, <2>4 DEF UnderWay
      <4>3. Visible = "login" => heard \notin Account
        BY <1>1, <4>1, UntoldHeard
      <4>4. /\ Lacks(rest, SignedIn) => Lacks(mainQueue', SignedIn)
            /\ Lacks(rest, Successes) => Lacks(mainQueue', Successes)
            /\ Led(rest, SignedIn, LoginCalls) => Led(mainQueue', SignedIn, LoginCalls)
            /\ Led(rest, Successes, {Notify}) => Led(mainQueue', Successes, {Notify})
        BY <1>1, <3>1, <4>3, ShowLeads
      <4>5. Lacks(mainQueue, Successes) => Lacks(rest, Successes)
        BY <1>1, LedTail DEF rest
      <4>6. SomebodyIs(mainQueue', requests', ClosesWell', user')
        BY <1>1, <1>6, <1>7, <2>1, <3>1, <4>1, <4>2, <4>4, <4>5 DEF SomebodyIs, ClosesWell
      <4>7. ASSUME ok
            PROVE  Waits(mainQueue', First("login", "listening", "nothing"))
        <5>1. covers /\ top = "login" /\ sheet = "form" /\ tab = "account"
          BY <1>1, <1>5, <1>7, <2>1, <2>4, <4>1, <4>7 DEF Places, Untold
        <5>2. Visible = "none" /\ PageSeen(tab, top, recipeOpen, "closing") = "login"
          BY <5>1 DEF Visible, PageSeen
        <5>3. mainQueue' = Append(Gone(Removed(rest, Visible), {}), First("login", "listening", "nothing"))
          BY <3>1, <5>2 DEF Show
        <5>4. Gone(Removed(rest, Visible), {}) \in Seq(Block)
          BY <1>1, RemovedExtends, GoneExtends
        <5>5. First("login", "listening", "nothing") \in Block
          BY BlocksAre DEF Page
        <5> QED
          BY <5>3, <5>4, <5>5, WaitsAppend
      <4>8. Leads(mainQueue', requests', covers', ClosesWell')
        BY <1>6, <1>7, <2>2, <3>1, <4>1, <4>2, <4>4, <4>7 DEF Leads, ClosesWell
      <4> QED
        BY <4>6, <4>8
    <3> QED
      BY <1>3, <3>3, <3>4 DEF SheetNow
  <2> QED
    BY <2>3, <2>4
<1> QED
  BY <1>2, <1>4, <1>8, <1>10, <1>11

\* The login page is told that somebody signed in: its listener was called before.
LEMMA DidSignInKeepsEInv ==
    ASSUME EInv, Running, mainQueue # <<>>, DidSignIn
    PROVE  SheetNow'
<1> DEFINE m == Head(mainQueue)
           rest == Tail(mainQueue)
<1>1. /\ mainQueue \in Seq(Block) /\ rest \in Seq(Block) /\ TypeOK /\ RInv /\ HInv /\ Places
      /\ m.type = "result" /\ m \in Block
      /\ pageUser \in [Page -> Account \cup {Nobody}]
      /\ UNCHANGED <<user, requests, covers, outcome, forced, strayed>>
  BY FirstRuns DEF EInv, HInv, RInv, TypeOK, DidSignIn, authVars, historyVars
<1>2. m = Result(TRUE) \/ m = Result(FALSE)
  BY <1>1, BlockKinds
<1>3. ASSUME m.ok, pageUser["login"] = Nobody
      PROVE  strayed \/ forced
  <2>1. m \in SignedIn
    BY <1>2, <1>3, BlockParts DEF SignedIn
  <2>2. ~Led(mainQueue, SignedIn, LoginCalls)
    BY <1>1, <2>1, LedHead
  <2> QED
    BY <1>3, <2>2 DEF EInv, Untold, Leads
<1>4. CASE m.ok /\ pageUser["login"] # Nobody
  <2>1. /\ Show(tab, "settings", recipeOpen, sheet, {"settings", "profile"}, rest)
        /\ pageUser'["login"] = pageUser["login"] /\ trap' = "none"
    BY <1>1, <1>4 DEF DidSignIn, Page
  <2>2. tab' = tab /\ sheet' = sheet
    BY <2>1 DEF Show
  <2>3. Places' /\ NoErrorHasCause' /\ ~Untold'
    BY <1>1, <1>4, <2>1, <2>2 DEF Places, NoErrorHasCause, Untold
  <2> QED
    BY <2>3 DEF SheetNow
<1>5. CASE ~(m.ok /\ pageUser["login"] # Nobody)
  <2>1. /\ mainQueue' = rest /\ UNCHANGED <<tab, top, recipeOpen, sheet, pageUser>>
        /\ trap' = "none" \/ (trap' = "noError" /\ m.ok /\ pageUser["login"] = Nobody)
    BY <1>5 DEF DidSignIn, placeVars
  <2>2. Places' /\ NoErrorHasCause'
    BY <1>1, <1>3, <2>1 DEF Places, NoErrorHasCause
  <2>3. ASSUME Untold'
        PROVE  /\ SomebodyIs(mainQueue', requests', ClosesWell', user')
               /\ Leads(mainQueue', requests', covers', ClosesWell')
    <3>1. /\ Untold /\ SomebodyIs(mainQueue, requests, ClosesWell, user)
          /\ Leads(mainQueue, requests, covers, ClosesWell) /\ ClosesWell' = ClosesWell
      BY <1>1, <2>1, <2>3 DEF Untold, EInv, ClosesWell
    <3>2. m \notin {Notify} /\ m \notin LoginCalls /\ m # First("login", "listening", "nothing")
      BY <1>1, LeadKinds, BlockParts
    <3>3. /\ Lacks(mainQueue, SignedIn) => Lacks(rest, SignedIn)
          /\ Lacks(mainQueue, Successes) => Lacks(rest, Successes)
          /\ Led(mainQueue, Successes, {Notify}) => Led(rest, Successes, {Notify})
          /\ Led(mainQueue, SignedIn, LoginCalls) => Led(rest, SignedIn, LoginCalls)
          /\ Waits(mainQueue, First("login", "listening", "nothing"))
               => Waits(rest, First("login", "listening", "nothing"))
      BY <1>1, <3>2, LedTail, WaitsTail
    <3> HIDE DEF m, rest
    <3> QED
      BY <1>1, <2>1, <3>1, <3>3 DEF SomebodyIs, Leads
  <2> QED
    BY <2>2, <2>3 DEF SheetNow
<1> QED
  BY <1>4, <1>5

\* A success is queued behind its notification, or while the sheet hides the page.
LEMMA AnswerKeepsEInv ==
    ASSUME EInv, NEW r \in Requests, Answer(r)
    PROVE  SheetNow'
<1>1. /\ mainQueue \in Seq(Block) /\ TypeOK /\ RInv /\ HInv /\ Places /\ Running
      /\ requests \in [Requests -> Request]
      /\ UNCHANGED <<tab, top, recipeOpen, sheet, covers, outcome, pageUser, trap, forced, strayed>>
  BY DEF EInv, HInv, RInv, TypeOK, Answer, viewVars, placeVars, sheetVars
<1>2. NoErrorHasCause'
  BY <1>1 DEF EInv, NoErrorHasCause
<1>3. \/ BecomesUser(requests[r].account, requests[r].account \in named, r)
      \/ BecomesUser(requests[r].account, FALSE, r)
      \/ /\ requests[r].stage = "naming" /\ user' = user
         /\ mainQueue' = Append(mainQueue, Callback(r, TRUE))
      \/ mainQueue' = Append(mainQueue, Callback(r, FALSE)) /\ user' = user
  BY DEF Answer, SignInAnswered, SignUpAnswered, NameAnswered, Refused,
         NewAccountLost, NameLost, Fails, authVars
<1>4. /\ \E x \in {"answered", "named"} : requests' = [requests EXCEPT ![r].stage = x]
      /\ requests[r].stage \in {"asked", "naming"}
      /\ requests[r].stage = "asked" => requests'[r].stage = "answered"
      /\ requests[r].account \in Account
  <2>1. /\ \E x \in {"answered", "named"} : requests' = [requests EXCEPT ![r].stage = x]
        /\ requests[r].stage \in {"asked", "naming"}
        /\ requests[r].stage = "asked" => requests'[r].stage = "answered"
    BY <1>1 DEF Answer, SignInAnswered, SignUpAnswered, NameAnswered, Refused,
           NewAccountLost, NameLost, Fails, Request
  <2> QED
    BY <1>1, <2>1 DEF RInv, Fit, RequestsFit
<1>5. /\ \A s \in Requests : requests'[s].attached = requests[s].attached
      /\ \A s \in Requests : UnderWay(requests', s) <=> UnderWay(requests, s)
      /\ \A s \in Requests : requests'[s].stage \in {"naming", "named"}
                               => requests[s].stage \in {"naming", "named"}
  BY <1>1, <1>4 DEF UnderWay, Request
<1>6. Places'
  BY <1>1, <1>5 DEF Places, OnItsForm
<1>7. ASSUME Untold'
      PROVE  /\ SomebodyIs(mainQueue', requests', ClosesWell', user')
             /\ Leads(mainQueue', requests', covers', ClosesWell')
  <2>1. /\ Untold /\ SomebodyIs(mainQueue, requests, ClosesWell, user)
        /\ Leads(mainQueue, requests, covers, ClosesWell) /\ ClosesWell' = ClosesWell
    BY <1>1, <1>7 DEF Untold, EInv, ClosesWell
  <2>2. /\ Callback(r, TRUE) \in Block /\ Callback(r, FALSE) \in Block /\ Notify \in Block
        /\ Notify \notin Successes /\ Callback(r, FALSE) \notin Successes
        /\ Notify \notin SignedIn /\ Callback(r, FALSE) \notin SignedIn
        /\ Callback(r, TRUE) \notin SignedIn /\ Notify \in {Notify}
    BY BlocksAre, BlockParts, LeadKinds
  <2>3. CASE user' = requests[r].account /\ mainQueue' = mainQueue \o <<Notify, Callback(r, TRUE)>>
    <3> DEFINE q == Append(mainQueue, Notify)
    <3>1. mainQueue' = Append(q, Callback(r, TRUE)) /\ q \in Seq(Block)
      BY <1>1, <2>2, <2>3, TwoMore, AppendProperties
    <3>2. /\ Led(mainQueue, Successes, {Notify}) => Led(q, Successes, {Notify})
          /\ Led(mainQueue, SignedIn, LoginCalls) => Led(q, SignedIn, LoginCalls)
          /\ ~Lacks(q, {Notify})
          /\ \A b : Waits(mainQueue, b) => Waits(q, b)
      BY <1>1, <2>2, LedAppend, WaitsAppend
    <3> HIDE DEF q
    <3>3. /\ Led(q, Successes, {Notify}) => Led(mainQueue', Successes, {Notify})
          /\ Led(q, SignedIn, LoginCalls) => Led(mainQueue', SignedIn, LoginCalls)
          /\ \A b : Waits(q, b) => Waits(mainQueue', b)
      BY <2>2, <3>1, <3>2, LedAppend, WaitsAppend
    <3>4. user' # Nobody
      BY <1>4, <2>3, AccountAssumption
    <3> QED
      BY <1>1, <1>5, <2>1, <3>2, <3>3, <3>4 DEF SomebodyIs, Leads
  <2>4. CASE /\ requests[r].stage = "naming" /\ user' = user
             /\ mainQueue' = Append(mainQueue, Callback(r, TRUE))
    <3>1. user # Nobody /\ covers
      BY <2>1, <2>4 DEF SomebodyIs, Leads
    <3>2. /\ Led(mainQueue, SignedIn, LoginCalls) => Led(mainQueue', SignedIn, LoginCalls)
          /\ \A b : Waits(mainQueue, b) => Waits(mainQueue', b)
      BY <1>1, <2>2, <2>4, LedAppend, WaitsAppend
    <3> QED
      BY <1>1, <2>1, <2>4, <3>1, <3>2 DEF SomebodyIs, Leads
  <2>5. CASE mainQueue' = Append(mainQueue, Callback(r, FALSE)) /\ user' = user
    <3>1. /\ Lacks(mainQueue, SignedIn) => Lacks(mainQueue', SignedIn)
          /\ Lacks(mainQueue, Successes) => Lacks(mainQueue', Successes)
          /\ Led(mainQueue, Successes, {Notify}) => Led(mainQueue', Successes, {Notify})
          /\ Led(mainQueue, SignedIn, LoginCalls) => Led(mainQueue', SignedIn, LoginCalls)
          /\ \A b : Waits(mainQueue, b) => Waits(mainQueue', b)
      BY <1>1, <2>2, <2>5, LedAppend, WaitsAppend
    <3> QED
      BY <1>1, <1>5, <2>1, <2>5, <3>1 DEF SomebodyIs, Leads
  <2> QED
    BY <1>3, <2>3, <2>4, <2>5 DEF BecomesUser
<1> QED
  BY <1>2, <1>6, <1>7 DEF SheetNow

\* The views change, and the sheet does not close on a success.
LEMMA ViewsKeepEInv ==
    ASSUME EInv, NEW newTab, NEW newOpen, NEW newSheet, NEW gone,
           NEW newTop \in {"login", "settings", "profile", "list"},
           Show(newTab, newTop, newOpen, newSheet, gone, mainQueue), "login" \notin gone,
           UNCHANGED <<user, requests, covers, trap, forced, strayed>>,
           pageUser'["login"] = pageUser["login"],
           newSheet # "closed" => newTab = "account",
           pageUser["login"] = Nobody => newTop = "login",
           newSheet = sheet \/ \A r \in Requests : ~requests[r].attached,
           ~(newSheet = "closing" /\ outcome')
    PROVE  SheetNow'
<1>1. mainQueue \in Seq(Block) /\ TypeOK /\ HInv /\ Places
  BY DEF EInv, HInv, RInv, TypeOK
<1>2. tab' = newTab /\ top' = newTop /\ sheet' = newSheet
  BY <1>1, ShowExtends
<1>3. Places'
  BY <1>1, <1>2 DEF Places, OnItsForm
<1>4. NoErrorHasCause'
  BY DEF EInv, NoErrorHasCause
<1>5. ASSUME Untold'
      PROVE  /\ SomebodyIs(mainQueue', requests', ClosesWell', user')
             /\ Leads(mainQueue', requests', covers', ClosesWell')
  <2>1. /\ Untold /\ SomebodyIs(mainQueue, requests, ClosesWell, user)
        /\ Leads(mainQueue, requests, covers, ClosesWell)
    BY <1>5 DEF Untold, EInv, Running
  <2>2. Visible = "login" => heard \notin Account
    BY <1>1, <2>1, UntoldHeard
  <2>3. /\ Lacks(mainQueue, SignedIn) => Lacks(mainQueue', SignedIn)
        /\ Lacks(mainQueue, Successes) => Lacks(mainQueue', Successes)
        /\ Led(mainQueue, SignedIn, LoginCalls) => Led(mainQueue', SignedIn, LoginCalls)
        /\ Led(mainQueue, Successes, {Notify}) => Led(mainQueue', Successes, {Notify})
    BY <1>1, <2>2, ShowLeads
  <2>4. ~ClosesWell'
    BY <1>2 DEF ClosesWell
  <2> QED
    BY <2>1, <2>3, <2>4 DEF SomebodyIs, Leads
<1> QED
  BY <1>3, <1>4, <1>5 DEF SheetNow

\* The server signs the user out: from then on anything may follow.
LEMMA SignedOutByForceKeepsEInv ==
    ASSUME EInv, SignedOutByForce
    PROVE  SheetNow'
<1>1. /\ UNCHANGED <<requests, tab, top, recipeOpen, sheet, pageUser, trap, strayed>> /\ forced' = TRUE
  BY DEF SignedOutByForce, viewVars, placeVars, sheetVars
<1> QED
  BY <1>1 DEF EInv, SheetNow, Places, NoErrorHasCause, Untold

\* Other pages come and go, when the login page has a user or is left where it is.
LEMMA BrowseKeepsEInv ==
    ASSUME EInv, Browse
    PROVE  SheetNow'
<1>1. /\ TypeOK /\ Places /\ UNCHANGED <<user, requests, covers, outcome, trap, forced, strayed>>
      /\ sheet # "closing" /\ top \in {"login", "settings", "profile", "list"}
      /\ pageUser \in [Page -> Account \cup {Nobody}] /\ "login" \in Page
  BY DEF EInv, HInv, RInv, TypeOK, Browse, Tap, authVars, historyVars, Page
<1>2. ~(sheet = "closing" /\ outcome')
  BY <1>1
<1>3. CASE SwitchTab
  <2>1. PICK t \in {"search", "account"} \ {tab} : Show(t, top, recipeOpen, sheet, {}, mainQueue)
    BY <1>3 DEF SwitchTab
  <2>2. sheet = "closed" /\ pageUser' = pageUser
    BY <1>3 DEF SwitchTab
  <2> QED
    BY <1>1, <1>2, <2>1, <2>2, ViewsKeepEInv DEF Places
<1>4. CASE OpenRecipe
  <2> DEFINE open == TRUE
  <2>1. Show(tab, top, open, sheet, {}, mainQueue) /\ pageUser' = pageUser
    BY <1>4 DEF OpenRecipe
  <2> HIDE DEF open
  <2> QED
    BY <1>1, <1>2, <2>1, ViewsKeepEInv DEF Places
<1>5. CASE CloseRecipe
  <2> DEFINE open == FALSE
  <2>1. Show(tab, top, open, sheet, {"recipe"}, mainQueue)
    BY <1>5 DEF CloseRecipe
  <2>2. pageUser'["login"] = pageUser["login"]
    BY <1>1, <1>5 DEF CloseRecipe
  <2> HIDE DEF open
  <2> QED
    BY <1>1, <1>2, <2>1, <2>2, ViewsKeepEInv DEF Places
<1>6. CASE OpenProfile \/ OpenList
  <2>1. top = "settings" /\ sheet = "closed" /\ pageUser' = pageUser
    BY <1>6 DEF OpenProfile, OpenList, Visible, PageSeen
  <2>2. PICK p \in {"profile", "list"} : Show(tab, p, recipeOpen, sheet, {}, mainQueue)
    BY <1>6 DEF OpenProfile, OpenList
  <2> QED
    BY <1>1, <1>2, <2>1, <2>2, ViewsKeepEInv DEF Places
<1>7. CASE GoBack
  <2>1. /\ top # "login" /\ sheet = "closed"
        /\ Show(tab, "settings", recipeOpen, sheet, {"profile"}, mainQueue)
    BY <1>7 DEF GoBack
  <2>2. pageUser'["login"] = pageUser["login"]
    BY <1>1, <1>7 DEF GoBack
  <2> QED
    BY <1>1, <1>2, <2>1, <2>2, ViewsKeepEInv DEF Places
<1> QED
  BY <1>3, <1>4, <1>5, <1>6, <1>7 DEF Browse

\* The settings page, left by signing out, was opened by a login page that had a user.
LEMMA SignOutKeepsEInv ==
    ASSUME EInv, SignOut
    PROVE  SheetNow'
<1>1. /\ Places /\ UNCHANGED <<requests, trap, strayed>> /\ sheet = "closed" /\ Visible = "settings"
      /\ pageUser \in [Page -> Account \cup {Nobody}] /\ "login" \in Page
      /\ pageUser' = [pageUser EXCEPT !["settings"] = Nobody, !["profile"] = Nobody]
      /\ top' = "login" /\ sheet' = sheet
  BY DEF EInv, HInv, RInv, TypeOK, SignOut, historyVars, Page, Show
<1>2. pageUser["login"] # Nobody
  BY <1>1 DEF Places, Visible, PageSeen
<1>3. pageUser'["login"] = pageUser["login"]
  BY <1>1
<1>4. Places' /\ ~Untold'
  BY <1>1, <1>2, <1>3 DEF Places, Untold
<1>5. NoErrorHasCause'
  BY <1>1 DEF SignOut, Tap, Running, NoErrorHasCause
<1> QED
  BY <1>4, <1>5 DEF SheetNow

\* The sheet comes, with no request under way.
LEMMA LoginTappedKeepsEInv ==
    ASSUME EInv, LoginTapped
    PROVE  SheetNow'
<1>1. /\ TypeOK /\ RInv /\ HInv /\ Places /\ mainQueue \in Seq(Block) /\ Running
      /\ UNCHANGED <<user, requests, tab, top, recipeOpen, pageUser, trap, forced, strayed>>
      /\ Visible = "login" /\ sheet = "closed" /\ sheet' = "form" /\ covers' \in BOOLEAN
      /\ mainQueue' = Removed(mainQueue, "login") \/ mainQueue' = mainQueue
  BY DEF EInv, HInv, RInv, TypeOK, LoginTapped, Tap, historyVars, authVars, placeVars
<1>2. tab = "account" /\ \A r \in Requests : ~requests[r].attached
  BY <1>1 DEF TypeOK, Visible, PageSeen, Places, OnItsForm
<1>3. Places'
  BY <1>1, <1>2 DEF Places, OnItsForm
<1>4. NoErrorHasCause'
  BY <1>1 DEF NoErrorHasCause, Running
<1>5. ASSUME Untold'
      PROVE  /\ SomebodyIs(mainQueue', requests', ClosesWell', user')
             /\ Leads(mainQueue', requests', covers', ClosesWell')
  <2>1. /\ Untold /\ SomebodyIs(mainQueue, requests, ClosesWell, user)
        /\ Leads(mainQueue, requests, covers, ClosesWell) /\ ~ClosesWell'
    BY <1>1, <1>5 DEF Untold, EInv, Running, ClosesWell
  <2>2. heard \notin Account
    BY <1>1, <2>1, UntoldHeard
  <2>3. /\ Lacks(mainQueue, Successes)
        /\ \A r \in Requests : requests[r].stage \notin {"naming", "named"}
    <3>1. \A r \in Requests : ~UnderWay(requests, r)
      BY <1>1, <1>2, <2>1 DEF Places, Untold
    <3> QED
      BY <1>1, <3>1, NoSuccess
  <2>4. /\ Lacks(mainQueue, SignedIn) => Lacks(mainQueue', SignedIn)
        /\ Lacks(mainQueue, Successes) => Lacks(mainQueue', Successes)
        /\ Led(mainQueue, SignedIn, LoginCalls) => Led(mainQueue', SignedIn, LoginCalls)
    BY <1>1, <2>2, RemovedLeads
  <2>5. Led(mainQueue', Successes, {Notify})
    BY <2>3, <2>4 DEF Led, Lacks
  <2> QED
    BY <1>1, <2>1, <2>3, <2>4, <2>5 DEF SomebodyIs, Leads
<1> QED
  BY <1>3, <1>4, <1>5 DEF SheetNow

\* The sheet closes on no success.
LEMMA CancelKeepsEInv ==
    ASSUME EInv, Cancel
    PROVE  SheetNow'
<1>1. /\ Places /\ UNCHANGED <<user, requests, covers, pageUser, trap, forced, strayed>>
      /\ Show(tab, top, recipeOpen, "closing", {}, mainQueue) /\ outcome' = FALSE
      /\ sheet = "form" /\ ~Busy /\ top \in {"login", "settings", "profile", "list"}
  BY DEF EInv, HInv, RInv, TypeOK, Cancel, historyVars, authVars
<1>2. \A r \in Requests : ~requests[r].attached
  BY <1>1 DEF Places, OnItsForm, Busy, UnderWay
<1> QED
  BY <1>1, <1>2, ViewsKeepEInv DEF Places

\* A request is made, on its form.
LEMMA SubmitKeepsEInv ==
    ASSUME EInv, Submit
    PROVE  SheetNow'
<1>1. /\ Places /\ RInv /\ Running /\ sheet = "form" /\ ~Busy /\ requests \in [Requests -> Request]
      /\ UNCHANGED <<user, mainQueue, tab, top, recipeOpen, sheet, covers, outcome, pageUser, trap,
                     forced, strayed>>
  BY DEF EInv, HInv, RInv, TypeOK, Submit, Tap, authVars, viewVars, placeVars, sheetVars, historyVars
<1>2. \A s \in Requests : ~requests[s].attached
  BY <1>1 DEF Places, OnItsForm, Busy, UnderWay
<1>3. PICK r \in Requests :
        /\ requests[r].stage = "none"
        /\ requests'[r].stage = "asked" /\ requests'[r].attached = TRUE
        /\ \A s \in Requests \ {r} : requests'[s] = requests[s]
  <2>1. PICK r \in Requests, a \in Account :
          /\ requests[r].stage = "none"
          /\ requests' = [requests EXCEPT ![r] =
               [what |-> IF a \in registered THEN "signIn" ELSE "signUp", account |-> a,
                stage |-> "asked", attached |-> TRUE]]
    BY DEF Submit
  <2>2. requests'[r].stage = "asked" /\ requests'[r].attached = TRUE
    BY <1>1, <2>1
  <2>3. \A s \in Requests \ {r} : requests'[s] = requests[s]
    BY <1>1, <2>1
  <2> QED
    BY <2>1, <2>2, <2>3
<1>4. Places'
  <2>1. OnItsForm(requests', sheet')
    BY <1>1, <1>2, <1>3 DEF OnItsForm, UnderWay
  <2>2. ~strayed => \A s \in Requests : UnderWay(requests', s) => requests'[s].attached
    BY <1>1, <1>2, <1>3 DEF Places, UnderWay
  <2> QED
    BY <1>1, <2>1, <2>2 DEF Places
<1>5. NoErrorHasCause'
  BY <1>1 DEF NoErrorHasCause, Running
<1>6. ASSUME Untold'
      PROVE  /\ SomebodyIs(mainQueue', requests', ClosesWell', user')
             /\ Leads(mainQueue', requests', covers', ClosesWell')
  <2>1. /\ Untold /\ SomebodyIs(mainQueue, requests, ClosesWell, user)
        /\ Leads(mainQueue, requests, covers, ClosesWell) /\ ClosesWell' = ClosesWell
    BY <1>1, <1>6 DEF Untold, EInv, Running, ClosesWell
  <2>2. \A s \in Requests : requests'[s].stage \in {"naming", "named"}
                              => requests[s].stage \in {"naming", "named"}
    BY <1>3
  <2> QED
    BY <1>1, <2>1, <2>2 DEF SomebodyIs, Leads
<1> QED
  BY <1>4, <1>5, <1>6 DEF SheetNow

\* A request goes on without its screen: from then on anything may follow.
LEMMA BackKeepsEInv ==
    ASSUME EInv, Back
    PROVE  SheetNow'
<1>1. /\ Places /\ Running /\ UNCHANGED <<tab, top, sheet, pageUser, trap>> /\ strayed' = TRUE
      /\ requests \in [Requests -> Request]
      /\ requests' = [r \in Requests |-> [requests[r] EXCEPT !.attached = FALSE]]
  BY DEF EInv, HInv, RInv, TypeOK, Back, Tap, viewVars, placeVars, sheetVars
<1>2. \A r \in Requests : ~requests'[r].attached
  BY <1>1 DEF Request
<1> QED
  BY <1>1, <1>2 DEF SheetNow, Places, OnItsForm, NoErrorHasCause, Untold, Running

\* The sheet is gone: the word that somebody signed in is queued behind the first call.
LEMMA SheetGoneKeepsEInv ==
    ASSUME EInv, SheetGone
    PROVE  SheetNow'
<1>1. /\ mainQueue \in Seq(Block) /\ Places /\ RInv /\ Running /\ sheet = "closing" /\ outcome \in BOOLEAN
      /\ mainQueue' = Append(mainQueue, Result(outcome)) /\ sheet' = "closed"
      /\ UNCHANGED <<user, requests, tab, top, recipeOpen, pageUser, trap, forced, strayed>>
  BY DEF EInv, HInv, RInv, TypeOK, SheetGone, authVars, placeVars, historyVars
<1>2. \A r \in Requests : ~requests[r].attached
  BY <1>1 DEF Places, OnItsForm
<1>3. Places'
  BY <1>1, <1>2 DEF Places, OnItsForm
<1>4. NoErrorHasCause'
  BY <1>1 DEF NoErrorHasCause, Running
<1>5. ASSUME Untold'
      PROVE  /\ SomebodyIs(mainQueue', requests', ClosesWell', user')
             /\ Leads(mainQueue', requests', covers', ClosesWell')
  <2>1. /\ Untold /\ SomebodyIs(mainQueue, requests, ClosesWell, user)
        /\ Leads(mainQueue, requests, covers, ClosesWell)
        /\ ~ClosesWell' /\ (ClosesWell <=> outcome)
    BY <1>1, <1>5 DEF Untold, EInv, Running, ClosesWell
  <2>2. /\ Lacks(mainQueue, Successes)
        /\ \A r \in Requests : requests[r].stage \notin {"naming", "named"}
    <3>1. \A r \in Requests : ~UnderWay(requests, r)
      BY <1>1, <1>2, <2>1 DEF Places, Untold
    <3> QED
      BY <1>1, <3>1, NoSuccess
  <2>3. Result(outcome) \in Block /\ Result(outcome) \notin Successes
    BY <1>1, BlocksAre, BlockParts, LeadKinds
  <2>4. Lacks(mainQueue', Successes)
    BY <1>1, <2>2, <2>3, LedAppend
  <2>5. Led(mainQueue', Successes, {Notify})
    BY <2>4 DEF Led, Lacks
  <2>6. CASE outcome
    <3>1. ~Lacks(mainQueue, LoginCalls)
      BY <2>1, <2>6 DEF Leads, Waits, Lacks, LoginCalls
    <3>2. Led(mainQueue', SignedIn, LoginCalls)
      BY <1>1, <2>1, <2>3, <3>1, LedAppend DEF Leads
    <3>3. user # Nobody
      BY <2>1, <2>6 DEF SomebodyIs
    <3> QED
      BY <1>1, <2>1, <2>2, <2>5, <3>2, <3>3 DEF SomebodyIs, Leads
  <2>7. CASE ~outcome
    <3>1. Result(outcome) \notin SignedIn
      BY <2>7, LeadKinds, BlockParts
    <3>2. /\ Lacks(mainQueue, SignedIn) => Lacks(mainQueue', SignedIn)
          /\ Led(mainQueue', SignedIn, LoginCalls)
      BY <1>1, <2>1, <2>3, <3>1, LedAppend DEF Leads
    <3> QED
      BY <1>1, <2>1, <2>2, <2>4, <2>5, <3>2 DEF SomebodyIs, Leads
  <2> QED
    BY <2>6, <2>7
<1> QED
  BY <1>3, <1>4, <1>5 DEF SheetNow

\* An empty queue and no request: nothing has succeeded.
LEMMA NothingAtStart ==
    ASSUME NEW rs, \A r \in Requests : rs[r] = NoRequest, NEW c, NEW u
    PROVE  SomebodyIs(<<>>, rs, FALSE, u) /\ Leads(<<>>, rs, c, FALSE)
<1>1. Lacks(<<>>, Successes) /\ Lacks(<<>>, SignedIn)
  BY DEF Lacks
<1>2. \A r \in Requests : rs[r].stage \notin {"naming", "named"}
  BY DEF NoRequest
<1>3. Led(<<>>, Successes, {Notify}) /\ Led(<<>>, SignedIn, LoginCalls)
  BY <1>1 DEF Led, Lacks
<1> QED
  BY <1>1, <1>2, <1>3 DEF SomebodyIs, Leads

\* The app starts anew.
LEMMA RelaunchKeepsEInv ==
    ASSUME Relaunch
    PROVE  SheetNow'
<1>1. /\ sheet' = "closed" /\ top' = "login" /\ trap' = "none" /\ mainQueue' = <<>>
      /\ \A r \in Requests : requests'[r] = NoRequest
  BY DEF Relaunch
<1>2. Places' /\ NoErrorHasCause'
  BY <1>1 DEF Places, NoErrorHasCause, OnItsForm, UnderWay, NoRequest
<1>3. ClosesWell' = FALSE
  BY <1>1 DEF ClosesWell
<1> QED
  BY <1>1, <1>2, <1>3, NothingAtStart DEF SheetNow

\* The sheet's invariant holds when the app starts for the first time.
LEMMA InitEstablishesEInv == Init => EInv
<1> SUFFICES ASSUME Init
             PROVE  EInv
  OBVIOUS
<1>1. HInv
  BY InitEstablishesHInv
<1>2. /\ sheet = "closed" /\ top = "login" /\ trap = "none" /\ mainQueue = <<>>
      /\ \A r \in Requests : requests[r] = NoRequest
  BY DEF Init
<1>3. Places /\ NoErrorHasCause
  BY <1>2 DEF Places, NoErrorHasCause, OnItsForm, UnderWay, NoRequest
<1>4. ClosesWell = FALSE
  BY <1>2 DEF ClosesWell
<1> QED
  BY <1>1, <1>2, <1>3, <1>4, NothingAtStart DEF EInv

\* The sheet's invariant is kept by every step.
LEMMA NextKeepsEInv == EInv /\ [Next]_vars => EInv'
<1> SUFFICES ASSUME EInv, [Next]_vars
             PROVE  EInv'
  OBVIOUS
<1>1. HInv'
  BY NextKeepsHInv DEF EInv
<1>2. CASE UNCHANGED vars
  <2>1. UNCHANGED <<mainQueue, requests, user, tab, top, recipeOpen, sheet, covers, outcome, pageUser,
                    trap, forced, strayed>>
    BY <1>2 DEF vars, authVars, viewVars, placeVars, sheetVars, historyVars
  <2>2. ClosesWell' = ClosesWell /\ Untold' = Untold /\ Places' = Places
        /\ NoErrorHasCause' = NoErrorHasCause
    BY <2>1 DEF ClosesWell, Untold, Running, Places, NoErrorHasCause
  <2> QED
    BY <1>1, <2>1, <2>2 DEF EInv
<1>3. CASE MainBlock
  <2>1. SheetNow'
    BY <1>3, NotifiedKeepsEInv, FirstCallKeepsEInv, RequestCalledBackKeepsEInv, DidSignInKeepsEInv
       DEF MainBlock
  <2> QED
    BY <1>1, <2>1 DEF EInv, SheetNow
<1>4. CASE Next /\ ~MainBlock
  <2>1. SheetNow'
    BY <1>4, AnswerKeepsEInv, SignedOutByForceKeepsEInv, BrowseKeepsEInv, SignOutKeepsEInv,
       LoginTappedKeepsEInv, SubmitKeepsEInv, BackKeepsEInv, CancelKeepsEInv, SheetGoneKeepsEInv,
       RelaunchKeepsEInv DEF Next
  <2> QED
    BY <1>1, <2>1 DEF EInv, SheetNow
<1> QED
  BY <1>2, <1>3, <1>4

\* What leads the callbacks and the sheet's end, in every state.
THEOREM SheetInvariant == Spec => []EInv
BY InitEstablishesEInv, NextKeepsEInv, PTL DEF Spec

\* The login page ends the app on `error!' only when a request outlived its screen, or the
\* server signed the user out.
THEOREM NoErrorOnlyForCause == Spec => []NoErrorHasCause
<1>1. EInv => NoErrorHasCause
  BY DEF EInv
<1> QED
  BY <1>1, SheetInvariant, PTL

-----------------------------------------------------------------------------
(* Why the user has no name yet.                                           *)

\* The request that made the user asks for the name, or will.
Naming == /\ maker \in Requests /\ requests[maker].account = user
          /\ WillName(mainQueue, requests, maker)

\* Whoever signs in has an account; an account that is new has no name; and a user
\* without one gets it, or its sign-up was cut off.
CauseNow ==
    /\ \A r \in Requests : requests[r].what = "signIn" => requests[r].account \in registered
    /\ ~strayed => \A r \in Requests :
         requests[r].what = "signUp" /\ requests[r].stage = "answered" /\ Has(mainQueue, r, TRUE)
           => requests[r].account \notin named
    /\ ~strayed /\ user # Nobody /\ ~userNamed => user \in unnamed \/ Naming
    /\ NoNameHasCause

\* The inductive invariant of the user's name.
NInv == EInv /\ CauseNow

\* Until Back is tapped, there is one request at a time.
LEMMA OneUnderWay ==
    ASSUME EInv, ~strayed, NEW r \in Requests, NEW s \in Requests,
           UnderWay(requests, r), UnderWay(requests, s)
    PROVE  r = s
BY DEF EInv, Places, OnItsForm

\* The trap of a user without a name has a cause.
LEMMA NameTrapHasCause ==
    ASSUME NInv, UNCHANGED <<requests, user, unnamed, strayed>>,
           trap' = "noName" => user # Nobody /\ ~userNamed
    PROVE  NoNameHasCause'
<1> SUFFICES ASSUME trap' = "noName", ~strayed, user \notin unnamed
             PROVE  BetweenRequests(user)'
  BY DEF NoNameHasCause
<1>1. Naming
  BY DEF NInv, CauseNow
<1> QED
  BY <1>1 DEF Naming, WillName, BetweenRequests

\* A step of the running app that neither makes nor ends a request, and runs no callback.
LEMMA QuietCause ==
    ASSUME NInv, UNCHANGED <<requests, serverVars, unnamed, strayed>>,
           user' = Nobody \/ UNCHANGED authVars,
           trap' = "noName" => UNCHANGED user /\ user # Nobody /\ ~userNamed,
           \A r : Has(mainQueue', r, TRUE) <=> Has(mainQueue, r, TRUE)
    PROVE  CauseNow'
<1>1. NoNameHasCause'
  <2>1. CASE trap' = "noName"
    BY <2>1, NameTrapHasCause
  <2> QED
    BY <2>1 DEF NoNameHasCause
<1>2. ASSUME ~strayed, user' # Nobody, ~userNamed', user' \notin unnamed'
      PROVE  Naming'
  <2>1. UNCHANGED <<user, userNamed, maker>>
    BY <1>2 DEF authVars
  <2>2. Naming
    BY <1>2, <2>1 DEF NInv, CauseNow
  <2> QED
    BY <2>1, <2>2 DEF Naming, WillName
<1> QED
  BY <1>1, <1>2 DEF NInv, CauseNow, serverVars

\* Extending the queue, or running a block that is no callback, leaves the callbacks.
LEMMA CallbacksStay ==
    ASSUME TypeOK, mainQueue' \in Seq(Block),
           \/ Extends(mainQueue', mainQueue)
           \/ /\ mainQueue # <<>> /\ Head(mainQueue).type # "callback"
              /\ Extends(mainQueue', Tail(mainQueue))
    PROVE  \A r : Has(mainQueue', r, TRUE) <=> Has(mainQueue, r, TRUE)
<1>1. mainQueue \in Seq(Block)
  BY DEF TypeOK
<1>2. CASE Extends(mainQueue', mainQueue)
  BY <1>1, <1>2, HasExtends
<1>3. CASE /\ mainQueue # <<>> /\ Head(mainQueue).type # "callback"
           /\ Extends(mainQueue', Tail(mainQueue))
  <2> SUFFICES ASSUME NEW r
               PROVE  Has(mainQueue', r, TRUE) <=> Has(mainQueue, r, TRUE)
    OBVIOUS
  <2>1. Head(mainQueue) # Callback(r, TRUE) /\ Tail(mainQueue) \in Seq(Block)
    <3>1. Tail(mainQueue) \in Seq(Block)
      BY <1>1, <1>3, FirstRuns
    <3> QED
      BY <1>3, <3>1 DEF Callback
  <2>2. Has(Tail(mainQueue), r, TRUE) <=> Has(mainQueue, r, TRUE)
    BY <1>1, <1>3, <2>1, HasTail
  <2> QED
    BY <1>3, <2>1, <2>2, HasExtends
<1> QED
  BY <1>2, <1>3

\* A listener traps only on a user without a name.
LEMMA HearTraps ==
    ASSUME Running, NEW page, NEW status, Hear(page, status)
    PROVE  trap' = "noName" => user # Nobody /\ ~userNamed
BY DEF Running, Hear

\* Listeners are called.
LEMMA ListenersKeepCause ==
    ASSUME NInv, Running, mainQueue # <<>>, Notified \/ FirstCall
    PROVE  CauseNow'
<1>1. TypeOK /\ mainQueue \in Seq(Block)
  BY DEF NInv, EInv, HInv, RInv, TypeOK
<1>2. /\ mainQueue' = Tail(mainQueue) /\ Head(mainQueue).type # "callback"
      /\ UNCHANGED <<requests, serverVars, authVars, unnamed, strayed>>
  BY DEF Notified, FirstCall, historyVars
<1>3. trap' = "noName" => user # Nobody /\ ~userNamed
  <2>1. (\E page, status : Hear(page, status)) \/ UNCHANGED trap
    BY DEF Notified, FirstCall
  <2> QED
    BY <2>1, HearTraps DEF Running
<1>4. mainQueue' \in Seq(Block) /\ Extends(mainQueue', Tail(mainQueue))
  <2>1. Tail(mainQueue) \in Seq(Block)
    BY <1>1, FirstRuns
  <2> QED
    BY <1>2, <2>1, LenProperties DEF Extends
<1>5. \A r : Has(mainQueue', r, TRUE) <=> Has(mainQueue, r, TRUE)
  BY <1>1, <1>2, <1>4, CallbacksStay
<1> QED
  BY <1>2, <1>3, <1>5, QuietCause DEF authVars

\* The login page is told how the sheet closed.
LEMMA DidSignInKeepsCause ==
    ASSUME NInv, mainQueue # <<>>, DidSignIn
    PROVE  CauseNow'
<1> DEFINE rest == Tail(mainQueue)
<1>1. /\ TypeOK /\ mainQueue \in Seq(Block) /\ rest \in Seq(Block)
      /\ Head(mainQueue).type # "callback"
  BY FirstRuns DEF NInv, EInv, HInv, RInv, TypeOK, DidSignIn
<1>2. /\ UNCHANGED <<requests, serverVars, authVars, unnamed, strayed>>
      /\ trap' \in {"none", "noError"}
  BY DEF DidSignIn, historyVars
<1>3. mainQueue' \in Seq(Block) /\ Extends(mainQueue', rest)
  <2>1. CASE Show(tab, "settings", recipeOpen, sheet, {"settings", "profile"}, rest)
    BY <1>1, <2>1, ShowExtends
  <2>2. CASE mainQueue' = rest
    BY <1>1, <2>2, LenProperties DEF Extends
  <2> QED
    BY <2>1, <2>2 DEF DidSignIn
<1>4. \A r : Has(mainQueue', r, TRUE) <=> Has(mainQueue, r, TRUE)
  BY <1>1, <1>3, CallbacksStay
<1> QED
  BY <1>2, <1>4, QuietCause

\* What the user does with the pages and the sheet, and the end of a sign-in.
LEMMA ViewsKeepCause ==
    ASSUME NInv, Browse \/ SignOut \/ LoginTapped \/ Cancel \/ SheetGone \/ SignedOutByForce
    PROVE  CauseNow'
<1>1. TypeOK /\ mainQueue \in Seq(Block) /\ top \in {"login", "settings", "profile", "list"}
  BY DEF NInv, EInv, HInv, RInv, TypeOK
<1>2. /\ UNCHANGED <<requests, serverVars, unnamed, strayed>> /\ trap' = "none"
      /\ user' = Nobody \/ UNCHANGED authVars
  BY DEF Browse, SignOut, LoginTapped, Cancel, SheetGone, SignedOutByForce, Tap, Running, historyVars, viewVars
<1>3. Extends(mainQueue, mainQueue)
  BY <1>1, LenProperties DEF Extends
<1>4. mainQueue' \in Seq(Block) /\ Extends(mainQueue', mainQueue)
  <2>1. CASE Browse
    <3>1. PICK newTab \in {"search", "account"}, newTop \in {"login", "settings", "profile", "list"},
               newOpen \in BOOLEAN, gone \in SUBSET Page :
            Show(newTab, newTop, newOpen, sheet, gone, mainQueue)
      BY <1>1, <2>1 DEF TypeOK, Browse, SwitchTab, OpenRecipe, CloseRecipe, OpenProfile, OpenList,
         GoBack, Page
    <3> QED
      BY <1>1, <3>1, ShowExtends
  <2>2. CASE SignOut
    <3> DEFINE q == IF user = Nobody THEN mainQueue ELSE Append(mainQueue, Notify)
    <3>1. q \in Seq(Block) /\ Extends(q, mainQueue)
      BY <1>1, <1>3, OneMore, BlocksAre, BlockParts
    <3>2. Show(tab, "login", recipeOpen, sheet, {"settings", "profile"}, q)
      BY <2>2 DEF SignOut
    <3> HIDE DEF q
    <3> QED
      BY <1>1, <3>1, <3>2, ShowExtends, ExtendsTwice
  <2>3. CASE LoginTapped
    BY <1>1, <1>3, <2>3, RemovedExtends DEF LoginTapped
  <2>4. CASE Cancel
    BY <1>1, <2>4, ShowExtends DEF Cancel
  <2>5. CASE SheetGone
    BY <1>1, <2>5, OneMore, BlocksAre, BlockParts DEF SheetGone, TypeOK
  <2>6. CASE SignedOutByForce
    BY <1>1, <2>6, OneMore, BlocksAre, BlockParts DEF SignedOutByForce
  <2> QED
    BY <2>1, <2>2, <2>3, <2>4, <2>5, <2>6
<1>5. \A r : Has(mainQueue', r, TRUE) <=> Has(mainQueue, r, TRUE)
  BY <1>1, <1>4, CallbacksStay
<1> QED
  BY <1>2, <1>5, QuietCause

\* A callback runs: a new account's asks for the name, another ends a request that does not.
LEMMA RequestCalledBackKeepsCause ==
    ASSUME NInv, Running, mainQueue # <<>>, RequestCalledBack
    PROVE  CauseNow'
<1> DEFINE m == Head(mainQueue)
           r == m.request
           rest == Tail(mainQueue)
<1>1. /\ TypeOK /\ RInv /\ mainQueue \in Seq(Block) /\ rest \in Seq(Block) /\ m \in Block
      /\ requests \in [Requests -> Request]
      /\ m = mainQueue[1] /\ 1 \in 1 .. Len(mainQueue) /\ m.type = "callback"
  BY FirstRuns DEF NInv, EInv, HInv, RInv, TypeOK, RequestCalledBack
<1>2. /\ r \in Requests
      /\ m.ok => m = Callback(r, TRUE)
      /\ ~m.ok => m = Callback(r, FALSE)
  <2> HIDE DEF m
  <2>1. r \in Requests /\ (m = Callback(r, TRUE) \/ m = Callback(r, FALSE))
    BY <1>1, BlockKinds
  <2> QED
    BY <2>1, BlockParts
<1>3. UNCHANGED <<serverVars, authVars, trap, unnamed, strayed>>
  BY DEF RequestCalledBack, historyVars
<1>4. \/ /\ m.ok /\ requests[r].what = "signUp" /\ requests[r].stage = "answered"
         /\ AskForName(r, rest)
      \/ /\ m.ok /\ (requests[r].what = "signIn" \/ requests[r].stage = "named")
         /\ Finish(r, TRUE, rest)
      \/ ~m.ok /\ (Finish(r, FALSE, rest) \/ Alert(r, rest))
  BY DEF RequestCalledBack
<1>5. Fit(rest, requests, registered) /\ ~Has(rest, r, TRUE) /\ ~Has(rest, r, FALSE)
  BY <1>1, FitTail DEF RInv
<1>6. NoNameHasCause'
  BY <1>3 DEF NoNameHasCause, Running
<1> HIDE DEF m, r, rest
<1>7. ASSUME NEW s \in Requests, s # r
      PROVE  Has(rest, s, TRUE) <=> Has(mainQueue, s, TRUE)
  <2>1. m # Callback(s, TRUE)
    <3>1. m.request = r /\ Callback(s, TRUE).request = s
      BY BlockParts DEF r
    <3> QED
      BY <1>7, <3>1
  <2> QED
    BY <1>1, <2>1, HasTail DEF m, rest
<1>8. CASE m.ok /\ requests[r].what = "signUp" /\ requests[r].stage = "answered" /\ AskForName(r, rest)
  <2>1. /\ mainQueue' = rest
        /\ \A s \in Requests \ {r} : requests'[s] = requests[s]
        /\ requests'[r].stage = "naming" /\ requests'[r].what = "signUp"
        /\ requests'[r].account = requests[r].account
    BY <1>1, <1>2, <1>8 DEF AskForName, Request
  <2>2. Naming => Naming'
    BY <1>3, <1>7, <2>1 DEF Naming, WillName, authVars
  <2> QED
    BY <1>3, <1>6, <1>7, <2>1, <2>2 DEF NInv, CauseNow, serverVars, authVars
<1>9. CASE \/ /\ m.ok /\ (requests[r].what = "signIn" \/ requests[r].stage = "named")
              /\ Finish(r, TRUE, rest)
           \/ ~m.ok /\ (Finish(r, FALSE, rest) \/ Alert(r, rest))
  <2>1. /\ requests' = [requests EXCEPT ![r] = Ended]
        /\ mainQueue' \in Seq(Block) /\ Extends(mainQueue', rest)
    <3>1. \E ok \in BOOLEAN : Finish(r, ok, rest) \/ Alert(r, rest)
      BY <1>9
    <3> QED
      BY <1>1, <1>2, <3>1, EndTypes
  <2>2. /\ \A s \in Requests \ {r} : requests'[s] = requests[s]
        /\ requests'[r].what = "none"
    BY <1>1, <1>2, <2>1 DEF Ended
  <2>3. ~WillName(mainQueue, requests, r)
    <3>1. CASE m.ok
      BY <1>1, <1>2, <1>9, <3>1 DEF WillName, RInv, Fit, RequestsFit
    <3>2. CASE ~m.ok
      <4>1. Callback(r, TRUE) # m /\ Has(mainQueue, r, FALSE)
        <5>1. m = Callback(r, FALSE) /\ Callback(r, TRUE).ok /\ ~Callback(r, FALSE).ok
          BY <1>2, <3>2, BlockParts
        <5> QED
          BY <1>1, <5>1 DEF Has
      <4>2. requests[r].stage = "answered"
        BY <1>1, <1>2, <4>1 DEF RInv, Fit, CallbacksFit
      <4>3. ~Has(mainQueue, r, TRUE)
        BY <1>1, <1>5, <4>1, HasTail DEF m, rest
      <4> QED
        BY <4>2, <4>3 DEF WillName
    <3> QED
      BY <3>1, <3>2
  <2>4. \A s \in Requests \ {r} : Has(mainQueue', s, TRUE) <=> Has(mainQueue, s, TRUE)
    BY <1>1, <1>7, <2>1, HasExtends
  <2>5. Naming => Naming'
    BY <1>3, <2>2, <2>3, <2>4 DEF Naming, WillName, authVars
  <2> QED
    BY <1>3, <1>6, <2>2, <2>4, <2>5 DEF NInv, CauseNow, serverVars, authVars
<1> QED
  BY <1>4, <1>8, <1>9

\* Each answer: what it does to the request that made the user, and to the account's name.
LEMMA AnswerKeepsCause ==
    ASSUME NInv, NEW r \in Requests, Answer(r)
    PROVE  CauseNow'
<1> DEFINE a == requests[r].account
<1>1. /\ TypeOK /\ RInv /\ EInv /\ mainQueue \in Seq(Block) /\ requests \in [Requests -> Request]
      /\ trap' = "none" /\ UNCHANGED strayed
  BY DEF NInv, EInv, HInv, RInv, TypeOK, Answer, Running
<1>2. NoNameHasCause'
  BY <1>1 DEF NoNameHasCause
<1>3. ~strayed => \A s \in Requests \ {r} : ~UnderWay(requests, r) \/ ~UnderWay(requests, s)
  BY <1>1, OneUnderWay
<1>4. \A s \in Requests : WillName(mainQueue, requests, s) => UnderWay(requests, s)
  BY DEF WillName, UnderWay
<1>5. /\ Callback(r, TRUE) \in Block /\ Callback(r, FALSE) \in Block /\ Notify \in Block
      /\ Notify.type # "callback"
  BY BlocksAre, BlockParts
<1>6. ASSUME NEW named2 \in BOOLEAN, BecomesUser(a, named2, r)
      PROVE  \A s : Has(mainQueue', s, TRUE) <=> Has(mainQueue, s, TRUE) \/ s = r
  <2>1. mainQueue' = Append(Append(mainQueue, Notify), Callback(r, TRUE))
    BY <1>1, <1>5, <1>6, TwoMore DEF BecomesUser
  <2>2. /\ Append(mainQueue, Notify) \in Seq(Block)
        /\ \A s : Has(Append(mainQueue, Notify), s, TRUE) <=> Has(mainQueue, s, TRUE)
    BY <1>1, <1>5, OneMore, HasExtends
  <2> QED
    BY <2>1, <2>2, HasCallback
<1>7. CASE SignInAnswered(r)
  <2>1. /\ requests[r].what = "signIn" /\ requests[r].stage = "asked" /\ a \in registered
        /\ user' = a /\ userNamed' = (a \in named)
        /\ UNCHANGED <<registered, named, unnamed>>
        /\ \A s \in Requests \ {r} : requests'[s] = requests[s]
        /\ requests'[r].what = "signIn" /\ requests'[r].account = a
    BY <1>1, <1>7 DEF SignInAnswered, BecomesUser, NInv, CauseNow, Request
  <2>2. \A s : Has(mainQueue', s, TRUE) <=> Has(mainQueue, s, TRUE) \/ s = r
    <3>1. BecomesUser(a, a \in named, r) /\ (a \in named) \in BOOLEAN
      BY <1>7 DEF SignInAnswered
    <3> QED
      BY <1>6, <3>1
  <2>3. ASSUME ~strayed, ~userNamed'
        PROVE  user' \in unnamed'
    <3>1. a \in registered \ named
      BY <2>1, <2>3
    <3>2. \A s \in Requests : ~WillName(mainQueue, requests, s)
      BY <1>3, <1>4, <2>1, <2>3 DEF UnderWay, WillName
    <3> QED
      BY <1>1, <2>1, <3>1, <3>2 DEF RInv, NameComes
  <2> QED
    BY <1>1, <1>2, <2>1, <2>2, <2>3 DEF NInv, CauseNow
<1>8. CASE SignUpAnswered(r)
  <2>1. /\ requests[r].what = "signUp" /\ requests[r].stage = "asked" /\ a \notin registered
        /\ registered' = registered \cup {a}
        /\ user' = a /\ maker' = r
        /\ UNCHANGED <<named, unnamed>>
        /\ \A s \in Requests \ {r} : requests'[s] = requests[s]
        /\ requests'[r].what = "signUp" /\ requests'[r].account = a /\ requests'[r].stage = "answered"
    BY <1>1, <1>8 DEF SignUpAnswered, BecomesUser, Request
  <2>2. \A s : Has(mainQueue', s, TRUE) <=> Has(mainQueue, s, TRUE) \/ s = r
    BY <1>6, <1>8 DEF SignUpAnswered
  <2>3. a \notin named
    BY <1>1, <2>1 DEF TypeOK
  <2>4. Naming'
    BY <2>1, <2>2 DEF Naming, WillName
  <2> QED
    BY <1>1, <1>2, <2>1, <2>2, <2>3, <2>4 DEF NInv, CauseNow
<1>9. CASE NameAnswered(r)
  <2>1. /\ requests[r].stage = "naming" /\ named' = named \cup {a}
        /\ userNamed' = (userNamed \/ (user # Nobody /\ maker = r))
        /\ UNCHANGED <<registered, user, maker, unnamed>>
        /\ \A s \in Requests \ {r} : requests'[s] = requests[s]
        /\ requests'[r].what = requests[r].what /\ requests'[r].account = a
        /\ requests'[r].stage = "named"
        /\ mainQueue' = Append(mainQueue, Callback(r, TRUE))
    BY <1>1, <1>9 DEF NameAnswered, Request
  <2>2. \A s : Has(mainQueue', s, TRUE) <=> Has(mainQueue, s, TRUE) \/ s = r
    <3> SUFFICES ASSUME NEW s
                 PROVE  Has(mainQueue', s, TRUE) <=> Has(mainQueue, s, TRUE) \/ s = r
      OBVIOUS
    <3>1. Has(Append(mainQueue, Callback(r, TRUE)), s, TRUE) <=> Has(mainQueue, s, TRUE) \/ s = r
      BY <1>1, HasCallback
    <3> QED
      BY <2>1, <3>1
  <2>3. ASSUME ~strayed, NEW s \in Requests, requests'[s].stage = "answered"
        PROVE  FALSE
    BY <1>3, <2>1, <2>3 DEF UnderWay
  <2>4. ASSUME user' # Nobody, ~userNamed', Naming
        PROVE  Naming'
    <3>1. maker # r
      BY <2>1, <2>4
    <3> QED
      BY <2>1, <2>2, <2>4, <3>1 DEF Naming, WillName
  <2>5. ~userNamed' => ~userNamed
    BY <2>1
  <2> QED
    BY <1>1, <1>2, <2>1, <2>3, <2>4, <2>5 DEF NInv, CauseNow
<1>10. CASE Refused(r) \/ NewAccountLost(r) \/ NameLost(r)
  <2>1. /\ requests[r].stage \in {"asked", "naming"}
        /\ mainQueue' = Append(mainQueue, Callback(r, FALSE))
        /\ \A s \in Requests \ {r} : requests'[s] = requests[s]
        /\ requests'[r].what = requests[r].what /\ requests'[r].account = a
        /\ registered \subseteq registered' /\ unnamed \subseteq unnamed'
        /\ requests[r].stage = "naming" => a \in unnamed'
        /\ named' # named => requests[r].stage = "naming"
        /\ UNCHANGED <<user, maker>>
    BY <1>1, <1>10 DEF Refused, NewAccountLost, NameLost, Fails, serverVars, authVars, Request
  <2>2. \A s : Has(mainQueue', s, TRUE) <=> Has(mainQueue, s, TRUE)
    BY <1>1, <1>5, <2>1, HasCallback
  <2>3. ~Has(mainQueue, r, TRUE)
    BY <1>1, <2>1 DEF RInv, Fit, CallbacksFit
  <2>4. ~userNamed' => ~userNamed
    BY <1>10 DEF Refused, NewAccountLost, NameLost, authVars
  <2>5. ASSUME Naming, user' \notin unnamed'
        PROVE  Naming'
    <3>1. maker # r
      BY <2>1, <2>5 DEF Naming, WillName
    <3> QED
      BY <2>1, <2>2, <2>5, <3>1 DEF Naming, WillName
  <2>6. ASSUME ~strayed, NEW s \in Requests, requests'[s].what = "signUp",
               requests'[s].stage = "answered", Has(mainQueue', s, TRUE)
        PROVE  requests'[s].account \notin named'
    <3>1. s # r /\ requests'[s] = requests[s]
      BY <2>1, <2>2, <2>3, <2>6
    <3>2. FALSE
      BY <1>3, <2>1, <2>6, <3>1 DEF UnderWay
    <3> QED
      BY <3>2
  <2>7. ASSUME ~strayed, user' # Nobody, ~userNamed'
        PROVE  user' \in unnamed' \/ Naming'
    BY <2>1, <2>4, <2>5, <2>7 DEF NInv, CauseNow
  <2>8. \A s \in Requests : requests'[s].what = "signIn" => requests'[s].account \in registered'
    BY <2>1 DEF NInv, CauseNow
  <2> QED
    BY <1>1, <1>2, <2>6, <2>7, <2>8 DEF CauseNow
<1> QED
  BY <1>7, <1>8, <1>9, <1>10 DEF Answer

\* A request is made: to sign in, for an account that is there.
LEMMA SubmitKeepsCause ==
    ASSUME NInv, Submit
    PROVE  CauseNow'
<1>1. PICK r \in Requests, a \in Account :
         /\ requests[r].stage = "none"
         /\ requests' = [requests EXCEPT ![r] =
                [what |-> IF a \in registered THEN "signIn" ELSE "signUp", account |-> a,
                 stage |-> "asked", attached |-> TRUE]]
  BY DEF Submit
<1>2. /\ UNCHANGED <<serverVars, authVars, mainQueue, unnamed, strayed>> /\ trap' = "none"
      /\ requests \in [Requests -> Request]
  BY DEF Submit, Tap, Running, historyVars, NInv, EInv, HInv, RInv, TypeOK
<1>3. /\ \A s \in Requests \ {r} : requests'[s] = requests[s]
      /\ requests'[r].stage = "asked" /\ requests'[r].account = a
      /\ requests'[r].what = "signIn" => a \in registered
  BY <1>1, <1>2
<1>4. Naming => Naming'
  BY <1>1, <1>2, <1>3 DEF Naming, WillName, authVars
<1>5. NoNameHasCause'
  BY <1>2 DEF NoNameHasCause
<1> QED
  BY <1>2, <1>3, <1>4, <1>5 DEF NInv, CauseNow, serverVars, authVars

\* Back is tapped.
LEMMA BackKeepsCause ==
    ASSUME NInv, Back
    PROVE  CauseNow'
<1>1. /\ strayed' = TRUE /\ registered' = registered
      /\ \A s \in Requests : /\ requests'[s].what = requests[s].what
                             /\ requests'[s].account = requests[s].account
  BY DEF Back, serverVars, NInv, EInv, HInv, RInv, TypeOK, Request
<1> QED
  BY <1>1 DEF NInv, CauseNow, NoNameHasCause

\* The app starts again: a name that was not given yet may never be.
LEMMA RelaunchKeepsCause ==
    ASSUME NInv, Relaunch
    PROVE  CauseNow'
<1> DEFINE asked(what, stage) == {requests[r].account : r \in {q \in Requests :
                                    requests[q].what = what /\ requests[q].stage = stage}}
<1>1. /\ registered \subseteq registered'
      /\ named' \in {named \cup A : A \in SUBSET asked("signUp", "naming")}
      /\ unnamed' = unnamed \cup (registered' \ named') \cup asked("signUp", "naming")
      /\ requests' = [r \in Requests |-> NoRequest]
      /\ trap' = "none" /\ UNCHANGED <<user, userNamed, strayed>>
  BY DEF Relaunch
<1>2. ASSUME ~strayed, user # Nobody, ~userNamed
      PROVE  user \in unnamed'
  <2>1. CASE user \in unnamed
    BY <1>1, <2>1
  <2>2. CASE Naming /\ requests[maker].stage = "naming"
    <3>1. user \in asked("signUp", "naming")
      BY <2>2 DEF Naming, WillName
    <3> QED
      BY <1>1, <3>1
  <2>3. CASE Naming /\ requests[maker].stage = "answered"
    <3>1. user \in registered \ named
      BY <1>2, <2>3 DEF Naming, WillName, NInv, CauseNow, EInv, HInv, RInv, Fit, CallbacksFit
    <3> HIDE DEF asked
    <3> QED
      BY <1>1, <3>1
  <2> QED
    BY <1>2, <2>1, <2>2, <2>3 DEF NInv, CauseNow, Naming, WillName
<1>3. \A r \in Requests : requests'[r].what = "none"
  BY <1>1 DEF NoRequest
<1> HIDE DEF asked
<1> QED
  BY <1>1, <1>2, <1>3 DEF CauseNow, NoNameHasCause

\* Every step of the specification.
LEMMA NextKeepsNInv == NInv /\ [Next]_vars => NInv'
<1> SUFFICES ASSUME NInv, [Next]_vars
             PROVE  NInv'
  OBVIOUS
<1>1. EInv' /\ RInv'
  BY NextKeepsEInv DEF NInv, EInv, HInv
<1>2. CASE UNCHANGED vars
  <2>1. UNCHANGED <<requests, mainQueue, registered, named, user, userNamed, maker, unnamed, strayed, trap>>
    BY <1>2 DEF vars, serverVars, authVars, historyVars
  <2>2. Naming' = Naming /\ NoNameHasCause' = NoNameHasCause
    BY <2>1 DEF Naming, NoNameHasCause, BetweenRequests
  <2> QED
    BY <1>1, <2>1, <2>2 DEF NInv, CauseNow
<1>3. CASE MainBlock
  BY <1>1, <1>3, ListenersKeepCause, RequestCalledBackKeepsCause, DidSignInKeepsCause
     DEF MainBlock, NInv
<1>4. CASE Next /\ ~MainBlock
  BY <1>1, <1>4, AnswerKeepsCause, ViewsKeepCause, SubmitKeepsCause, BackKeepsCause, RelaunchKeepsCause
     DEF Next, NInv
<1> QED
  BY <1>2, <1>3, <1>4

\* The user has a name, or a cause for having none, in every state.
THEOREM NameInvariant == Spec => []NInv
<1>1. Init => NInv
  <2>1. ASSUME Init
        PROVE  CauseNow
    <3>1. \A r \in Requests : requests[r].what = "none"
      BY <2>1 DEF Init, NoRequest
    <3>2. user = Nobody /\ NoNameHasCause
      BY <2>1 DEF Init, NoNameHasCause
    <3> QED
      BY <3>1, <3>2 DEF CauseNow
  <2> QED
    BY <2>1, InitEstablishesEInv DEF NInv
<1> QED
  BY <1>1, NextKeepsNInv, PTL DEF Spec

\* displayName! ends the app only while the sign-up that made the user is between its two
\* requests, or when it was cut off, or after Back was tapped over a request.
THEOREM NoNameOnlyForCause == Spec => []NoNameHasCause
<1>1. NInv => NoNameHasCause
  BY DEF NInv, CauseNow
<1> QED
  BY <1>1, NameInvariant, PTL
=============================================================================
