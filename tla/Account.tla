------------------------------- MODULE Account -------------------------------
(***************************************************************************)
(* Who is signed in, and who the pages think it is: LoginViewController    *)
(* with the sign-in sheet of FirebaseUI, SettingsViewController,           *)
(* ProfileViewController and RecipeDetailViewController, each with its     *)
(* copy of the user and its listener, over FIRAuth.                        *)
(*                                                                         *)
(* A page listens while it is visible: viewWillAppear adds its listener,   *)
(* viewWillDisappear removes it, and so at most one page listens.  Blocks  *)
(* of the main queue run in order, one at a time, with the user's taps in  *)
(* between; FIRAuth's work queue and the server answer at any time.  A     *)
(* request goes on when the user leaves the screen it was made from.       *)
(***************************************************************************)
EXTENDS Integers, Sequences

CONSTANTS
    Account,        \* e-mail addresses
    Nobody,
    MaxRequests,    \* bound: requests to sign in or up between two starts of the app
    MaxBlocks,      \* bound: blocks in the main queue when the user taps
    MaxEvents       \* bound: ends of the app, and sign-outs by the server

ASSUME AccountAssumption ==
    /\ Nobody \notin Account
    /\ "nothing" \notin Account \cup {Nobody}    \* what a listener heard before its first call
    /\ MaxRequests \in Nat /\ MaxBlocks \in Nat /\ MaxEvents \in Nat

VARIABLES
    registered, named,          \* the server's accounts, and those with a display name
    user, userNamed, maker,     \* FIRAuth's current user, whether it has its name, the request it came from
    requests,                   \* per request: what, for whom, how far, and whether its screen is there
    mainQueue,
    tab, top, recipeOpen,       \* the tab in front, the login tab's top page, the search tab's recipe page
    sheet, covers, outcome,     \* the sign-in sheet, whether it hides the page below, how it closes
    heard,                      \* what the visible page's listener heard last
    pageUser,                   \* per page, its currentUser or currentUid
    trap,
    events, forced, strayed, unnamed, crossed    \* history

serverVars == <<registered, named>>
authVars == <<user, userNamed, maker>>
sheetVars == <<sheet, covers, outcome>>
placeVars == <<tab, top, recipeOpen>>
viewVars == <<placeVars, sheetVars, heard, pageUser>>
historyVars == <<events, forced, strayed, unnamed, crossed>>
vars == <<serverVars, authVars, requests, mainQueue, viewVars, trap, historyVars>>

Page == {"login", "settings", "profile", "recipe"}
NeedsName == {"login", "profile"}    \* pages whose listener unwraps displayName
Requests == 1..MaxRequests

Request == [what : {"none", "signIn", "signUp"}, account : Account \cup {Nobody},
            stage : {"none", "asked", "answered", "naming", "named", "done"},
            attached : BOOLEAN]
Ended == [what |-> "none", account |-> Nobody, stage |-> "done", attached |-> FALSE]
NoRequest == [what |-> "none", account |-> Nobody, stage |-> "none", attached |-> FALSE]

\* The blocks of the main queue.  A listener is first called in a block of
\* its own, which runs even if the listener was removed, or its page popped,
\* before it did: `status'.
Notify == [type |-> "notify"]
First(page, status, last) == [type |-> "first", page |-> page, status |-> status, heard |-> last]
Callback(r, ok) == [type |-> "callback", request |-> r, ok |-> ok]
Result(ok) == [type |-> "result", ok |-> ok]
Block == {Notify} \cup [type : {"callback"}, request : Requests, ok : BOOLEAN]
         \cup [type : {"result"}, ok : BOOLEAN]
         \cup [type : {"first"}, page : Page, status : {"listening", "removed", "gone"},
               heard : Account \cup {Nobody, "nothing"}]

Running == trap = "none"
Busy == \E r \in Requests : requests[r].attached /\ requests[r].stage \notin {"none", "done"}

\* The page that is visible, and listens, with these views in place.
PageSeen(atTab, atTop, open, atSheet) ==
    IF atTab = "search" THEN IF open THEN "recipe" ELSE "none"
    ELSE IF (atSheet = "form" /\ covers) \/ atTop = "list" THEN "none" ELSE atTop
Visible == PageSeen(tab, top, recipeOpen, sheet)

-----------------------------------------------------------------------------
Init ==
    /\ registered \in SUBSET Account /\ named = registered
    /\ user = Nobody /\ userNamed = FALSE /\ maker = 0
    /\ requests = [r \in Requests |-> NoRequest]
    /\ mainQueue = <<>>
    /\ tab = "search" /\ top = "login" /\ recipeOpen = FALSE
    /\ sheet = "closed" /\ covers = FALSE /\ outcome = FALSE
    /\ heard = "nothing"
    /\ pageUser = [p \in Page |-> Nobody]
    /\ trap = "none"
    /\ events = 0 /\ forced = FALSE /\ strayed = FALSE /\ unnamed = {}
    /\ crossed = FALSE

(***************************************************************************)
(* The views change to these.  A page that goes out of sight removes its   *)
(* listener; one that comes into sight adds one, and FIRAuth queues its    *)
(* first call.  `gone' are the pages popped, or left under a new one.      *)
(***************************************************************************)
Removed(queue, page) ==
    [k \in 1..Len(queue) |->
        IF queue[k] = First(page, "listening", "nothing") THEN First(page, "removed", heard)
        ELSE queue[k]]
Gone(queue, pages) ==
    [k \in 1..Len(queue) |->
        IF queue[k].type = "first" /\ queue[k].page \in pages THEN [queue[k] EXCEPT !.status = "gone"]
        ELSE queue[k]]

Show(newTab, newTop, newOpen, newSheet, gone, queue) ==
    LET seen == PageSeen(newTab, newTop, newOpen, newSheet)
        same == seen = Visible /\ seen \notin gone
        kept == Gone(IF same THEN queue ELSE Removed(queue, Visible), gone)
    IN  /\ tab' = newTab /\ top' = newTop /\ recipeOpen' = newOpen /\ sheet' = newSheet
        /\ IF same
           THEN mainQueue' = kept /\ UNCHANGED heard
           ELSE /\ mainQueue' = IF seen = "none" THEN kept
                                ELSE Append(kept, First(seen, "listening", "nothing"))
                /\ heard' = "nothing"

-----------------------------------------------------------------------------
(***************************************************************************)
(* The listeners.  addAuthStateDidChangeListener calls a listener the      *)
(* first time, and then when the user id is another one.  The pages ignore *)
(* that nobody is signed in.                                               *)
(***************************************************************************)
IsNewsOnce(last) == last = "nothing"    \* not the code: only the first call is made
IsNews(last) == last # user

Hear(page, status) ==
    IF user = Nobody THEN UNCHANGED <<pageUser, trap>>
    ELSE IF page \in NeedsName /\ ~userNamed THEN trap' = "noName" /\ UNCHANGED pageUser
    ELSE /\ pageUser' = IF status = "gone" THEN pageUser ELSE [pageUser EXCEPT ![page] = user]
         /\ UNCHANGED trap

Notified ==
    /\ Head(mainQueue).type = "notify"
    /\ mainQueue' = Tail(mainQueue)
    /\ IF Visible # "none" /\ IsNews(heard)
       THEN Hear(Visible, "listening") /\ heard' = user
       ELSE UNCHANGED <<pageUser, trap, heard>>
    /\ UNCHANGED <<serverVars, authVars, requests, placeVars, sheetVars, historyVars>>

\* History: the late first call of a removed listener tells the page, which is in
\* sight again, of a user whom the listener the page has now is yet to hear of.
Crosses(m) == /\ m.status = "removed" /\ m.page = Visible
              /\ user # Nobody /\ heard \notin {"nothing", user}

FirstCall ==
    LET m == Head(mainQueue)
        last == IF m.status = "listening" THEN heard ELSE m.heard
    IN  /\ m.type = "first"
        /\ mainQueue' = Tail(mainQueue)
        /\ IF IsNews(last) THEN Hear(m.page, m.status) ELSE UNCHANGED <<pageUser, trap>>
        /\ heard' = IF m.status = "listening" THEN user ELSE heard
        /\ crossed' = (crossed \/ Crosses(m))
        /\ UNCHANGED <<serverVars, authVars, requests, placeVars, sheetVars,
                       events, forced, strayed, unnamed>>

-----------------------------------------------------------------------------
(***************************************************************************)
(* The callbacks.  A new account has no name until a second request gives  *)
(* it one.  At the end the sheet is dismissed, which then tells the login  *)
(* page; if the screen is gone already, it is told at once.                *)
(***************************************************************************)
Finish(r, ok, rest) ==
    /\ requests' = [requests EXCEPT ![r] = Ended]
    /\ IF requests[r].attached
       THEN /\ Show(tab, top, recipeOpen, "closing", {}, rest)
            /\ outcome' = ok
       ELSE /\ mainQueue' = Append(rest, Result(ok))
            /\ UNCHANGED <<tab, top, recipeOpen, sheet, heard, outcome>>
    /\ UNCHANGED covers

\* An error that the sheet has words for is shown on it, and nothing else.
Alert(r, rest) ==
    /\ requests' = [requests EXCEPT ![r] = Ended]
    /\ mainQueue' = rest
    /\ UNCHANGED <<placeVars, sheetVars, heard>>

\* Not the code: no name is asked for when the screen is gone.
AskForNameIfThere(r, rest) ==
    /\ requests' = [requests EXCEPT ![r] = IF @.attached THEN [@ EXCEPT !.stage = "naming"] ELSE Ended]
    /\ mainQueue' = rest
    /\ UNCHANGED <<placeVars, sheetVars, heard>>

\* commitChanges, with the name.
AskForName(r, rest) ==
    /\ requests' = [requests EXCEPT ![r].stage = "naming"]
    /\ mainQueue' = rest
    /\ UNCHANGED <<placeVars, sheetVars, heard>>

RequestCalledBack ==
    LET m == Head(mainQueue)
        r == m.request
        rest == Tail(mainQueue)
    IN  /\ m.type = "callback"
        /\ \/ m.ok /\ requests[r].what = "signUp" /\ requests[r].stage = "answered" /\ AskForName(r, rest)
           \/ m.ok /\ (requests[r].what = "signIn" \/ requests[r].stage = "named") /\ Finish(r, TRUE, rest)
           \/ ~m.ok /\ Finish(r, FALSE, rest)
           \/ ~m.ok /\ Alert(r, rest)
        /\ UNCHANGED <<serverVars, authVars, pageUser, trap, historyVars>>

\* didSignIn: with no error and no user it prints the error, which traps.
DidSignIn ==
    LET m == Head(mainQueue)
        rest == Tail(mainQueue)
    IN  /\ m.type = "result"
        /\ IF m.ok /\ pageUser["login"] # Nobody
           THEN /\ Show(tab, "settings", recipeOpen, sheet, {"settings", "profile"}, rest)
                /\ pageUser' = [pageUser EXCEPT !["settings"] = pageUser["login"],
                                                 !["profile"] = Nobody]
           ELSE /\ mainQueue' = rest
                /\ UNCHANGED <<placeVars, sheet, heard, pageUser>>
        /\ trap' = IF m.ok /\ pageUser["login"] = Nobody THEN "noError" ELSE "none"
        /\ UNCHANGED <<covers, outcome, serverVars, authVars, requests, historyVars>>

MainBlock == /\ Running /\ mainQueue # <<>>
             /\ Notified \/ FirstCall \/ RequestCalledBack \/ DidSignIn

-----------------------------------------------------------------------------
(***************************************************************************)
(* FIRAuth's work queue, and the server.                                   *)
(***************************************************************************)
\* Not the code: the callback without the notification.
BecomesUserSilently(a, hasName, r) ==
    /\ user' = a /\ userNamed' = hasName /\ maker' = r
    /\ mainQueue' = Append(mainQueue, Callback(r, TRUE))

\* updateCurrentUser and its notification, then the callback.
BecomesUser(a, hasName, r) ==
    /\ user' = a /\ userNamed' = hasName /\ maker' = r
    /\ mainQueue' = mainQueue \o <<Notify, Callback(r, TRUE)>>

\* Not the code: the user is taken without the look-up of its profile.
SignInAnsweredUnnamed(r) ==
    LET a == requests[r].account
    IN  /\ requests[r].what = "signIn" /\ requests[r].stage = "asked"
        /\ BecomesUser(a, FALSE, r)
        /\ requests' = [requests EXCEPT ![r].stage = "answered"]
        /\ UNCHANGED <<registered, named, unnamed>>

SignInAnswered(r) ==
    LET a == requests[r].account
    IN  /\ requests[r].what = "signIn" /\ requests[r].stage = "asked"
        /\ BecomesUser(a, a \in named, r)
        /\ requests' = [requests EXCEPT ![r].stage = "answered"]
        /\ UNCHANGED <<registered, named, unnamed>>

\* Not the code: the account is used but was never made.
SignUpAnsweredUnmade(r) ==
    LET a == requests[r].account
    IN  /\ requests[r].what = "signUp" /\ requests[r].stage = "asked" /\ a \notin registered
        /\ BecomesUser(a, FALSE, r)
        /\ requests' = [requests EXCEPT ![r].stage = "answered"]
        /\ UNCHANGED <<serverVars, unnamed>>

SignUpAnswered(r) ==
    LET a == requests[r].account
    IN  /\ requests[r].what = "signUp" /\ requests[r].stage = "asked" /\ a \notin registered
        /\ registered' = registered \cup {a}
        /\ BecomesUser(a, FALSE, r)
        /\ requests' = [requests EXCEPT ![r].stage = "answered"]
        /\ UNCHANGED <<named, unnamed>>

\* The name goes to the user that the request made, if it is still the current one.
NameAnswered(r) ==
    /\ requests[r].stage = "naming"
    /\ named' = named \cup {requests[r].account}
    /\ userNamed' = (userNamed \/ (user # Nobody /\ maker = r))
    /\ mainQueue' = Append(mainQueue, Callback(r, TRUE))
    /\ requests' = [requests EXCEPT ![r].stage = "named"]
    /\ UNCHANGED <<registered, user, maker, unnamed>>

\* The callback with an error.
Fails(r) ==
    /\ mainQueue' = Append(mainQueue, Callback(r, FALSE))
    /\ requests' = [requests EXCEPT ![r].stage = "answered"]

\* The server, or the network, says no, and nothing was done.
Refused(r) ==
    /\ requests[r].stage \in {"asked", "naming"}
    /\ Fails(r)
    /\ unnamed' = IF requests[r].stage = "naming" THEN unnamed \cup {requests[r].account} ELSE unnamed
    /\ UNCHANGED <<serverVars, authVars>>

\* The server has made the account, and the answer is lost, or the look-up of the new
\* user that comes after it fails.
NewAccountLost(r) ==
    /\ requests[r].what = "signUp" /\ requests[r].stage = "asked"
    /\ requests[r].account \notin registered
    /\ Fails(r)
    /\ registered' = registered \cup {requests[r].account}
    /\ unnamed' = unnamed \cup {requests[r].account}
    /\ UNCHANGED <<named, authVars>>

\* The server has the name, and the answer is lost; or it came, and the keychain does
\* not take the user with the name.
NameLost(r) ==
    /\ requests[r].stage = "naming"
    /\ Fails(r)
    /\ named' = named \cup {requests[r].account}
    /\ unnamed' = unnamed \cup {requests[r].account}
    /\ userNamed' \in {userNamed, userNamed \/ (user # Nobody /\ maker = r)}
    /\ UNCHANGED <<registered, user, maker>>

Answer(r) ==
    /\ Running
    /\ \/ SignInAnswered(r) \/ SignUpAnswered(r) \/ NameAnswered(r)
       \/ Refused(r) \/ NewAccountLost(r) \/ NameLost(r)
    /\ UNCHANGED <<viewVars, trap, events, forced, strayed, crossed>>

\* The server no longer knows the account or its token: the user is signed out.
SignedOutByForce ==
    /\ Running /\ user # Nobody
    /\ events < MaxEvents /\ events' = events + 1
    /\ forced' = TRUE
    /\ user' = Nobody /\ userNamed' = FALSE /\ maker' = 0
    /\ mainQueue' = Append(mainQueue, Notify)
    /\ UNCHANGED <<serverVars, requests, viewVars, trap, strayed, unnamed, crossed>>

-----------------------------------------------------------------------------
(***************************************************************************)
(* The user.                                                               *)
(***************************************************************************)
Tap == Running /\ Len(mainQueue) <= MaxBlocks /\ sheet # "closing"

\* The other tab, which a sheet is in front of; a recipe page of the search tab.
SwitchTab == /\ sheet = "closed"
             /\ \E t \in {"search", "account"} \ {tab} : Show(t, top, recipeOpen, sheet, {}, mainQueue)
             /\ UNCHANGED pageUser
OpenRecipe == /\ tab = "search" /\ ~recipeOpen
              /\ Show(tab, top, TRUE, sheet, {}, mainQueue)
              /\ UNCHANGED pageUser
CloseRecipe == /\ tab = "search" /\ recipeOpen
               /\ Show(tab, top, FALSE, sheet, {"recipe"}, mainQueue)
               /\ pageUser' = [pageUser EXCEPT !["recipe"] = Nobody]

\* The profile page and the two lists, from the settings page and back.
OpenProfile == /\ Visible = "settings" /\ sheet = "closed"
               /\ Show(tab, "profile", recipeOpen, sheet, {}, mainQueue)
               /\ UNCHANGED pageUser
OpenList == /\ Visible = "settings" /\ sheet = "closed"
            /\ Show(tab, "list", recipeOpen, sheet, {}, mainQueue)
            /\ UNCHANGED pageUser
GoBack == /\ tab = "account" /\ top \in {"profile", "list"} /\ sheet = "closed"
          /\ Show(tab, "settings", recipeOpen, sheet, {"profile"}, mainQueue)
          /\ pageUser' = [pageUser EXCEPT !["profile"] = Nobody]

Browse == /\ Tap
          /\ SwitchTab \/ OpenRecipe \/ CloseRecipe \/ OpenProfile \/ OpenList \/ GoBack
          /\ UNCHANGED <<serverVars, authVars, requests, covers, outcome, trap, historyVars>>

\* unwindToLogin: signOut, which says nothing if nobody is signed in.
SignOut ==
    /\ Tap /\ Visible = "settings" /\ sheet = "closed"
    /\ user' = Nobody /\ userNamed' = FALSE /\ maker' = 0
    /\ pageUser' = [pageUser EXCEPT !["settings"] = Nobody, !["profile"] = Nobody]
    /\ Show(tab, "login", recipeOpen, sheet, {"settings", "profile"},
            IF user = Nobody THEN mainQueue ELSE Append(mainQueue, Notify))
    /\ UNCHANGED <<serverVars, requests, covers, outcome, trap, historyVars>>

\* loginTapped, from viewDidLoad or the button: the sheet, over the page or hiding it.
LoginTapped ==
    /\ Tap /\ Visible = "login" /\ sheet = "closed"
    /\ covers' \in BOOLEAN
    /\ sheet' = "form"
    /\ IF covers'
       THEN heard' = "nothing" /\ mainQueue' = Removed(mainQueue, "login")
       ELSE UNCHANGED <<heard, mainQueue>>
    /\ UNCHANGED <<serverVars, authVars, requests, placeVars, outcome, pageUser, trap, historyVars>>

\* The sheet asks which accounts there are and signs in or up accordingly.
Submit ==
    /\ Tap /\ sheet = "form" /\ ~Busy
    /\ \E r \in Requests, a \in Account :
         /\ requests[r].stage = "none" /\ \A q \in 1..(r - 1) : requests[q].stage # "none"
         /\ requests' = [requests EXCEPT ![r] =
                [what |-> IF a \in registered THEN "signIn" ELSE "signUp", account |-> a,
                 stage |-> "asked", attached |-> TRUE]]
    /\ UNCHANGED <<serverVars, authVars, mainQueue, viewVars, trap, historyVars>>

\* Back to the sheet's first screen: the request goes on without its screen.
Back ==
    /\ Tap /\ sheet = "form" /\ Busy
    /\ requests' = [r \in Requests |-> [requests[r] EXCEPT !.attached = FALSE]]
    /\ strayed' = TRUE
    /\ UNCHANGED <<serverVars, authVars, mainQueue, viewVars, trap, events, forced, unnamed, crossed>>

\* cancelAuthorization, on the first screen.
Cancel ==
    /\ Tap /\ sheet = "form" /\ ~Busy
    /\ Show(tab, top, recipeOpen, "closing", {}, mainQueue)
    /\ outcome' = FALSE
    /\ UNCHANGED <<serverVars, authVars, requests, covers, pageUser, trap, historyVars>>

\* Not the code: the delegate of a sheet that hid the page is not told.
SheetGoneUntold ==
    /\ Running /\ sheet = "closing"
    /\ sheet' = "closed"
    /\ mainQueue' = IF covers THEN mainQueue ELSE Append(mainQueue, Result(outcome))
    /\ covers' = FALSE /\ outcome' = FALSE
    /\ UNCHANGED <<serverVars, authVars, requests, placeVars, heard, pageUser, trap, historyVars>>

\* The sheet is gone: the delegate is told.
SheetGone ==
    /\ Running /\ sheet = "closing"
    /\ sheet' = "closed"
    /\ mainQueue' = Append(mainQueue, Result(outcome))
    /\ covers' = FALSE /\ outcome' = FALSE
    /\ UNCHANGED <<serverVars, authVars, requests, placeVars, heard, pageUser, trap, historyVars>>

(***************************************************************************)
(* The app ends, by a trap or otherwise, and is started again.  FIRAuth    *)
(* keeps its user; the server may still do what it was asked.              *)
(***************************************************************************)
Relaunch ==
    LET asked(what, stage) == {requests[r].account : r \in {q \in Requests :
                                 requests[q].what = what /\ requests[q].stage = stage}}
    IN  /\ events < MaxEvents /\ events' = events + 1
        /\ registered' \in {registered \cup A : A \in SUBSET asked("signUp", "asked")}
        /\ named' \in {named \cup A : A \in SUBSET asked("signUp", "naming")}
        /\ unnamed' = unnamed \cup (registered' \ named') \cup asked("signUp", "naming")
        /\ maker' = 0
        /\ requests' = [r \in Requests |-> NoRequest]
        /\ mainQueue' = <<>>
        /\ tab' = "search" /\ top' = "login" /\ recipeOpen' = FALSE
        /\ sheet' = "closed" /\ covers' = FALSE /\ outcome' = FALSE
        /\ heard' = "nothing"
        /\ pageUser' = [p \in Page |-> Nobody]
        /\ trap' = "none"
        /\ UNCHANGED <<user, userNamed, forced, strayed, crossed>>

-----------------------------------------------------------------------------
Next == \/ MainBlock
        \/ \E r \in Requests : Answer(r)
        \/ SignedOutByForce
        \/ Browse \/ SignOut \/ LoginTapped \/ Submit \/ Back \/ Cancel \/ SheetGone
        \/ Relaunch

\* Blocks run, requests are answered in their time limits, the sheet goes away.
Fairness == /\ WF_vars(MainBlock) /\ WF_vars(SheetGone)
            /\ \A r \in Requests : WF_vars(Answer(r))

Spec == Init /\ [][Next]_vars /\ Fairness

-----------------------------------------------------------------------------
TypeOK ==
    /\ named \subseteq registered /\ registered \subseteq Account
    /\ user \in Account \cup {Nobody} /\ userNamed \in BOOLEAN /\ maker \in 0..MaxRequests
    /\ requests \in [Requests -> Request]
    /\ mainQueue \in Seq(Block)
    /\ tab \in {"search", "account"} /\ top \in {"login", "settings", "profile", "list"}
    /\ recipeOpen \in BOOLEAN
    /\ sheet \in {"closed", "form", "closing"} /\ covers \in BOOLEAN /\ outcome \in BOOLEAN
    /\ heard \in Account \cup {Nobody, "nothing"}
    /\ pageUser \in [Page -> Account \cup {Nobody}]
    /\ trap \in {"none", "noName", "noError"}
    /\ events \in 0..MaxEvents /\ forced \in BOOLEAN /\ strayed \in BOOLEAN
    /\ unnamed \subseteq Account /\ crossed \in BOOLEAN

(***************************************************************************)
(* The login page ends the app on `error!' only when a request outlived    *)
(* the screen it was made from, or the server signed the user out while    *)
(* the sheet was closing: otherwise its listener has heard of the user     *)
(* before didSignIn is called, whether the sheet hid the page or not.      *)
(***************************************************************************)
NoErrorHasCause == trap = "noError" => strayed \/ forced

\* The visible page is to hear of something yet.
NewsWaiting == \E k \in 1..Len(mainQueue) :
                 mainQueue[k] \in {Notify, First(Visible, "listening", "nothing")}

(***************************************************************************)
(* A page that is visible, with no word of FIRAuth's under way to it, has  *)
(* the user who is signed in: the lists and the heart work on that user's  *)
(* data, through every change of account, tab and page.  Not so only if    *)
(* the first call of a removed listener came between what the page's own   *)
(* listener was told and what it is yet to be told: when the account then  *)
(* changes back, the listener takes that for no change.                    *)
(***************************************************************************)
PageKnowsUser ==
    Running /\ Visible # "none" /\ user # Nobody /\ ~NewsWaiting /\ ~crossed
      => pageUser[Visible] = user

\* The sign-up of this account has an answer to its first request, and none yet to the
\* second.
BetweenRequests(a) == \E r \in Requests : /\ requests[r].what = "signUp" /\ requests[r].account = a
                                          /\ requests[r].stage \in {"answered", "naming"}

(***************************************************************************)
(* An account is without a name only while a request is about to give it   *)
(* one, or when its sign-up was cut off: the first answer was lost, the    *)
(* second request failed, or the app ended before it was done.             *)
(***************************************************************************)
NamelessHasCause ==
    Running => \A a \in registered \ named :
      BetweenRequests(a) \/ a \in unnamed

(***************************************************************************)
(* displayName! ends the app for three reasons only: the sign-up that made *)
(* the user is between its two requests, or was cut off, or Back was       *)
(* tapped while a request was under way.  Nobody else who signs in, up or  *)
(* out, or finds a user kept from an earlier start, is without a name.     *)
(***************************************************************************)
NoNameHasCause ==
    trap = "noName" => BetweenRequests(user) \/ user \in unnamed \/ strayed

(***************************************************************************)
(* Whoever signs in on the sheet comes to the settings page, unless the    *)
(* app ends.                                                               *)
(***************************************************************************)
SignInOpensSettings ==
    (sheet = "closing" /\ outcome)
      ~> (top = "settings" \/ trap # "none" \/ \A r \in Requests : requests[r].stage = "none")
=============================================================================
