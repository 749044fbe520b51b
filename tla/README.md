# Pocket Chef: a verification project

TLA+ specifications of the Pocket Chef iPhone app and its Apple Watch companion
(`Pocket-Chef/` in the repository), and of the parts of Firebase in `Pods/` that
decide what the app's writes, reads and sign-ins come to; the TLC configurations that check them on
small instances, and TLAPS proofs of what matters most for instances of any
size.

Contents: 1 the system, 2 the modules, 3 what each run checks, 4 fairness,
5 what is proved, 6 what the runs found, 7 what is not modelled, 8 the plan.

## 1. The system

An iPhone app of view controllers and a watch app of two screens. There is no
layer between the pages and the outside: each page keeps its own state, starts
its own requests, and talks to Core Data, to Firebase or to `WCSession`
directly. Four kinds of thread run its code.

- The *main thread* runs view callbacks, actions, and blocks queued with
  `DispatchQueue.main.async`.
- *`URLSession.shared`'s delegate queue*, which is serial, runs the completion
  handlers of requests. They write the page's properties without a lock, while
  the main thread may read them, and end by queueing a block on the main thread.
- *`WCSession`'s queue* runs the session's delegate methods, on both devices.
- Firebase has two serial queues, one for the *database connection* and one for
  *authentication*. Both tell the app through blocks on the main queue.

Nothing in the app waits for anything else, so what can go wrong is order:
which answer comes first, what a handler finds when it runs, what was already
done when the app ends.

| Component | State it keeps | Operations | What makes it correct |
|---|---|---|---|
| Watch step display (`InterfaceController`) | the array of steps, the index, two labels, two buttons | awake, message received, Previous, Next | buttons stay in the array; number, text and index belong together; what is received is shown |
| Instruction pages (`InstructionTableViewController`) | its recipe's steps; a saved row for each visit; the message it sends | open, answer, save, send | what is sent is saved, in the order sent; a page comes to its end |
| Phone and watch together | both of the above and the messages under way | message delivered or lost, either app ended and started | the watch only shows steps that are on the phone's disk, and never goes back |
| Search page (`SearchResultsViewController`) | two parallel arrays, the selected index, the large photo | search, answer, select, tap on the photo | the arrays stay in step; the recipe opened is one result, and the one shown |
| Ingredients page (`IngredientsViewController`) | the list, and check marks that live in table cells | load, toggle, scroll, add to the shopping list | what a tap saves is what is checked, also when a save fails half way |
| Instructions tab (`InstructionsViewController`) | the saved rows, an index, title and table | load, page back and forth, send | paging stays in range; title and table agree |
| Core Data stack (`AppDelegate`) | the saved rows | `saveContext`, which succeeds or ends the app | modelled inside the pages that call it |
| Featured recipes (`ViewController`) | four random recipes, selected index | load, select, open | as the search page, with one request |
| Database connection (`FPersistentConnection`, its retry helper, `FConnection`, `FRepo`) | connection state, interrupt reasons, the token, the attempt counter, outstanding writes and reads | open, interrupt, resume, token fetched, authenticated, closed, put, get | writes settle in order, reads see them, a refused token is replaced, the connection speaks for the user signed in, and keeps trying |
| Authentication (`FIRAuth`, `FIRUser`, the token service) | the current user, its name, its token | sign in, sign up and name, sign out, refresh | every listener hears of every change |
| Sign-in sheet (FirebaseUI) | its screen and the request made from it | submit, back, cancel, dismiss | the delegate is told once, after the user is known |
| Recipe page (`RecipeDetailViewController`) | the recipe, the user id last seen | heart, page switch | acts for the user signed in |
| Login, Settings, Profile | each page's copy of the user, its auth listener | sign in, sign up, sign out, edit | the copy is the user signed in when it is used |
| Shopping tab, frequent list, favourites | lists on disk and in Firebase | load, save, clear, delete | a save replaces the list as a whole |
| Watch timer (`TimerInterfaceController`) | a duration and a flag | start, stop, runs out | the flag says whether the timer runs |

How they interact: a recipe page, reached from the featured recipes or the
search page, embeds the ingredients page and the instruction page of its
recipe. The ingredients page writes `ItemToBuy` rows for the shopping tab, the
instruction page writes `Instruction` rows for the instructions tab and sends
the steps to the watch, and the instructions tab sends rows again. The user's id
comes from Firebase's auth listeners, to each page by itself: `viewWillAppear` adds a
listener and `viewWillDisappear` removes it. The heart of the recipe page and the
saved lists are written with `setValue` and `removeValue` and nobody waits for
the outcome; they go to the one database connection, which asks authentication
for the user's token and tells the server of each change of it.

The behaviours that are hard to test, line by line, are the hazards of
`PROJECT.json`. They come down to seven: handlers of two threads interleaving on
the watch (`InterfaceController.swift:27-32` against `:50-82`); answers arriving
in another order than the requests; state of an earlier array, search or recipe
that is still there when a later one comes; the app ending between two effects
that belong together; messages that are lost without anyone resending them; token
answers, interrupts and closes that cross on the database connection
(`FPersistentConnection.m:438-533`); and callbacks of a sign-in whose screen or
whose user is gone.

## 2. The modules

| Module | Models | State and actions in terms of the code |
|---|---|---|
| `WatchSteps` | `InterfaceController` | The variables are the properties and outlets, by name. `main` and `rx` are the next statement of the tap handler and of `didReceiveMessage`; every statement that touches shared state is an action (`Receive`, `RxStepNum`, `RxDetail`, `RxCheck`; `Tap`, `MainStepNum`, `MainDetail`, `MainCheck`). `CheckButtons` is `checkButtons()`, which both threads run: its two enabling calls, and its two tests apart from the `setEnabled(false)` each guards. `MainDetailTraps` is the index out of range. |
| `InstructionFeed` | `InstructionTableViewController`, `saveContext`, `WCSession`'s queue | `phase` is how far each page's request and block are. `Open` is `viewDidLoad`, `AnswerRefused` / `AnswerParsed` / `AnswerTraps` the ways the completion handler ends, `Save` / `SaveFails` and `Send` the two halves of the block it queues. `Stop` and `Relaunch` end and start the app at any step. |
| `RecipeShelf` | the abstract promise | Recipes are put on a shelf and stay there; the watch shows the steps of one, and moves only to one shelved later. |
| `WatchLink` | the two above composed | The phone's and the watch's actions interleave; `Deliver` is the phone's message leaving the link *and* the watch's `Receive`, in one step. |
| `SearchResults` | `SearchResultsViewController` | `AppendCard` and `AppendUrl` are separate because a photo download lies between them (`RecipeCard`'s initialiser). Each may race with a read of the main thread, at any time. `ShowResults` is the queued block, `Select` `didSelectItemAt`, `ImageTapped` the tap and `prepare(for:sender:)`. |
| `IngredientPicker` | `IngredientsViewController` | `checked` is the set of rows on screen whose cell has a check mark; there is no other record of it. `AddToShopping`, `AddRow`, `AddRowFails`, `SkipRow` are the loop, one row a step, because each row is saved by itself. |
| `InstructionPager` | `InstructionsViewController` | `ViewDidLoad`, the block it queues (`ShowLast`), the two taps. `title`, `listed` and `index` are kept apart because the code sets them apart. `ViewDidLoadTraps` is what ends the app while the page loads: no context, a fetch that fails, an empty store. |
| `DatabaseLink` | `FPersistentConnection` without its requests, `FIRRetryHelper`, `FConnection`, the context provider, token refresh in `FIRAuth` | The client variables are the properties, by name; `realtime` is the `FConnection` (nil, connecting, connected), `scheduledRetry` the retry helper's block and the `forceRefresh` it captured. `fetching` and `inbox` are the requests for a token and what is posted back through the main queue. One action a callback: `Retry`, `TokenFetched`, `RefreshAuthToken`, `Hello`, `AuthAnswered`, `Drop`, `AuthRevoked`, `Kill`, `GoOffline`, `GoOnline`, `Open`, `Nudge`; `Close` is `onDisconnect` with the reconnect it schedules. |
| `DatabaseConnection` | its outstanding writes and reads, through `FRepo` | `puts` and `gets` are the two dictionaries, `InOrder` the sorting of their keys; `Put`, `GetData`, `PutAnswered`, `GetAnswered`, `GetTimesOut` the methods and callbacks; `Restored` is what `restoreState` sends; `ServerPut`, `ServerGet` the server. |
| `Outbox` | the abstract promise to the app | Writes are numbered, taken in order, settled in order; after a lost connection the server is shown the unsettled ones again from the first on; the end of the app gives them up. |
| `Account` | the login, settings, profile and recipe pages, the sign-in sheet, `FIRAuth` | `mainQueue` holds the blocks posted to the main queue: notifications, a listener's first call, callbacks of requests, the delegate's call. `Show` is every change of page with the listeners it removes and adds. `heard` is the `previousUserID` of the visible page's listener, `pageUser` the pages' copies. `AskForName` and `NameAnswered` are the second request of a sign-up. `Refused` is an error answer: to a request the server turned down, or (`NewAccountLost`, `NameLost`) to one it carried out and whose answer was lost. `trap` is where the app ended: `displayName!` or `error!`. |
| `WatchSteps_proofs`, `InstructionFeed_proofs`, `WatchLink_proofs`, `InstructionPager_proofs`, `SearchResults_proofs`, `IngredientPicker_proofs`, `DatabaseConnection_proofs`, `Account_proofs` | | the theorems of section 5 |
| `MC...` | | the values of the constants for TLC |

What the modules abstract. A recipe, its steps, a search result or an ingredient
is a model value or a number; only identity and emptiness matter to the
properties. A trap (index out of range, a forced `nil`, `fatalError`) ends the
app. A data race, which is undefined in Swift, is a choice: the racing step
takes effect, or it ends the app.

`DatabaseLink` and `DatabaseConnection` keep every step of the connection's serial
queue; they leave out how long a retry waits, statistics, and what the app never
asks of the connection: listens (and with them writes whose completion waits for
a listen), transactions, onDisconnect requests, disk persistence, App Check. A
token is the stay of a user it was made for and a serial number. Writes are
numbered over a restart of the app where the code's counter starts again, so that
`Outbox` can speak of all of them. `goOffline` and `goOnline` are public operations
of the connection that the app does not call; they are kept because they are the
interrupt that can be taken back. `Account` merges the sheet's
e-mail and password screens into one form, lets it submit once at a time from a
screen, and leaves out the edits of the profile page.

Variables marked "history" in the modules are not in the code. They say
why something happened, so that a property can name the cause, and no guard
of an action other than the bound on taps reads them.

What is assumed of code outside the repository: `WCSession` delivers messages in
the order sent and may lose any of them (`sendMessage` promises an ordered,
not a certain, delivery; the app's `errorHandler` only prints). `URLSession`
answers every request or times it out after the 10 seconds the code asks for,
and runs the handlers one at a time. UIKit sends no tap to a disabled button and
runs one handler at a time on the main thread; a table keeps a cell while its
row is on screen. The database server takes requests in the order sent on a
connection, answers each, may refuse any, and knows nothing of an earlier
connection. Authentication's server answers every request or it times out; it may
do what it was asked although the answer is lost: the app then sees an error
(`Account!NewAccountLost`, `NameLost`), or has ended meanwhile (`Relaunch`).

`InstructionPager` has a constant `ContextSet`. No line of the project assigns
`InstructionsViewController.managedContext`, so as the repository stands the tab
ends the app when it loads (run `InstructionPagerAsBuilt`, `ContextSet = FALSE`).
The passing run supplies that one assignment, `ContextSet = TRUE`, and checks the
paging that is behind it. The model is otherwise the same.

## 3. What each run checks

| Run | Bounds | Shows |
|---|---|---|
| `WatchSteps` | arrays of 1, 2 and 4 steps, and the empty one; any number of messages, taps, restarts | `CrashHasCause`: the app traps only after its two handlers overlapped, or an array came without a step at the index. `ButtonsMatchUnlessClashed`: after a handler that ran alone the buttons allow exactly the moves that stay in the array. Handlers that overlap can leave them wrong at rest, when one thread's `setEnabled(false)` follows a test that the other has made stale; the property adds that the next handler that runs alone puts them right. `LabelsAgreeUnlessClashed`: the same of number and text, which are of one step. `ReceivedIsShown`: an array received is shown, unless a newer one comes or the app traps. |
| `InstructionFeed` | 3 pages, 2 recipes | `LinkFollowsCache`: every message under way repeats a row on disk, in the order saved. `EveryPageSettles`: a page saves and sends, or its request failed, or the app ended. |
| `WatchLink` | 2 pages, 2 recipes of 1 and 2 steps | `ImplementsShelf`: the composition implements `RecipeShelf`. `LinkAheadOfWatch`: the invariant that makes each delivery a step of the shelf. |
| `SearchResults` | 3 searches of up to 2 results | `UrlsPairWithCards`, `OpenedIsOneResult`: the arrays stay in step across overlapping searches, because handlers are serial. `OutOfRangeHasCause`: what reads past an end, and when. `TapOpensHighlightInOneSearch`: photo and index agree until a second search's results come. `EverySearchSettles`. |
| `IngredientPicker` | 4 ingredients, a screen of 2, 2 taps on Add | `TapSavesWhatIsChecked`: a tap saves the rows checked on screen, once each and in order. `FailureLeavesInitialPart`: a save that fails leaves the first of them. `MarksAreWishesUnlessScrolled`: only scrolling loses the user's choice. `IngredientsSettle`. |
| `InstructionPager` | up to 4 rows, any of them without steps | `TrapsOnlyInLoading`: only loading the page can end the app; afterwards no tap reads a title out of range. `TitleMatchesOnceTapped`: title, table and index are of one row. Both wherever the queued block falls between the taps. |
| `DatabaseConnection` | 2 writes, the second of which sets the whole path that is read, 1 read, 2 events from outside | `ImplementsOutbox`: the writes are issued, taken and settled as `Outbox` says, over lost connections, changes of user and restarts. `ReadsFollowWrites`: an answered read saw every write issued before it. `TriesUnlessInterrupted`: the connection is never left lying, and never opened against an interrupt, late tokens included. `AssertionsHold`: the code's own assertions on its state. `LinkSpeaksForUser`: at rest the server knows the connection by the present user's token, or by none, with one named exception. `RefusedTokenNotReused`, with the ways the wish for a new token is lost. `RequestsEnd`. |
| `Account` | 2 addresses, 2 requests between two starts, 1 block waiting when the user taps, 1 end of the app or sign-out by the server | `PageKnowsUser`: a visible page with no word under way has the user who is signed in, if somebody is, through every change of account, tab and page, with one named exception that takes more requests than the run has (section 6). It says nothing of a page whose user has signed out: the pages keep the old uid. `NoErrorHasCause`: `error!` ends the app only after a request outlived its screen or a forced sign-out; the usual sign-in is safe whether the sheet hides the page or not. `NamelessHasCause`: which accounts are left without a name: those whose sign-up was cut off between its two requests, lost answers included. `NoNameHasCause`: when `displayName!` ends the app: while the sign-up that made the user is between its requests, after it was cut off, or after Back was tapped over a request. `SignInOpensSettings`: whoever signs in on the sheet comes to the settings page, or the app ends. |
| `WatchLabel`, `SearchTap`, `InstructionPagerAsBuilt`, `DatabaseGet` | as above; 2 rows for the third; 1 write, 1 read, 1 event for the last | violations, section 6 |

Every module also has one type invariant. It says more than types where the code
does: that `checked` is within the rows on screen, that a page waits for the main
thread once, that an index is not below zero but on the way to a trap.

Why the bounds are enough. On the watch, arrays of 1, 2 and 4 steps allow each
relation of an old index to a new array: in range, one past the end, further
past. Three pages or searches are the fewest with one that overtakes two
others, and two recipes make one of the three a repeat. Two results for a search
give an entry that is not the first. Four ingredients on a screen of two have a
row above, on and below it. The numbers of pages (`Page`), searches (`Search`),
results (`MaxHits`), rows (`MaxRows`) and taps on Add (`MaxTaps`) are the only
bounds of those runs; in `WatchSteps` nothing is bounded. In `DatabaseConnection`
`MaxEvents` bounds the events from outside (a drop, a refusal, an interrupt, a nudge,
a change of user, a failed refresh, a restart): two of them give a fault in the
middle of the recovery from another, and the safety properties were also checked with
three (3,260,632 states, too many for a regular run). Two writes are the fewest with
an order; the second is a whole write and the first is not, so that a read is
answered from memory or by the server. In `Account` two addresses and two requests
are what a change of account takes, and a request that is overtaken by another.
`MaxBlocks` bounds the main queue only when the user taps: with one block waiting
each tap still falls before or after each kind of block. Its invariants
were also checked with two events, the two addresses being interchangeable
(2,874,100 states up to a swap of them). No run uses symmetry.

Deadlock is checked in the runs in which the app is started again (`WatchSteps`,
`InstructionFeed`, `WatchLink`). The others have `CHECK_DEADLOCK FALSE`,
because a trap is the end of their behaviour, or, in `DatabaseConnection` and
`Account`, because their requests and events are bounded.

## 4. Fairness

Only what the system drives is fair, never the user or the peer. `WatchSteps`: a
thread with a statement to run runs it (`WF` of `RxStep`, of `MainStep`).
`InstructionFeed` and `SearchResults`: a request is answered or times out, and
queued blocks run (`WF`). `IngredientPicker`: the same; the two queued
blocks have strong fairness, because the loop of `addToShopping` holds the main
thread again and again, and a block that is queued waits but is served in between.
`DatabaseConnection`: the serial queue runs what is on it, the retry and offline
timers fire, the token service and the server answer, FRepo opens the connection
(`WF` of each). Going online again after `goOffline`, and every event, is not fair, so
`RequestsEnd` excuses an interrupted connection. `Account`: blocks of the main queue
run, requests are answered within their time limits, the sheet's dismissal ends
(`WF`). `WatchLink` and `InstructionPager` are safety only and assume none. The user need
not tap, open a page or restart an app; the phone need not send; a message need
not arrive.

## 5. What is proved

| Theorem | Says |
|---|---|
| `WatchSteps_proofs!TypeCorrect`, `CrashesHaveACause`, `ButtonsMatch`, `LabelsAgree` | the four safety properties of the watch, for any set of arrays of any length |
| `InstructionFeed_proofs!TypeCorrect`, `SentIsSaved` | the safety properties of the pages, for any number of pages and recipes |
| `DatabaseConnection_proofs!TypeCorrect`, `AssertionsAlwaysHold`, `TriesOrIsInterrupted` | the connection's types and its own assertions, and that it keeps trying exactly when it should, for any number of events, writes and reads |
| `DatabaseConnection_proofs!LinkAlwaysSpeaksForUser`, `RefusedTokenIsNotReused` | at rest the server knows the connection by the present user; a refused token is not offered again; each but for the named ways |
| `DatabaseConnection_proofs!WritesAreAnOutbox`, `ReadsAlwaysFollowWrites` | the connection implements `Outbox`; an answered read saw the writes before it |
| `InstructionPager_proofs!TypeCorrect`, `PagingNeverTraps`, `TitleMatches` | the safety properties of the instructions tab, for any number of rows |
| `SearchResults_proofs!TypeCorrect`, `UrlsPair`, `OpenedResultIsOne`, `OutOfRangeReadsHaveACause`, `PhotoOpensWhatItShows` | those of the search page, for any set of searches with any number of results |
| `IngredientPicker_proofs!TypeCorrect`, `MarksAreWishes`, `FailureIsPrefix`, `TapSavesChecked` | those of the ingredients page, for any number of ingredients, rows on screen and taps |
| `Account_proofs!TypeCorrect`, `NamelessOnlyForCause`, `PagesKnowTheUser`, `NoErrorOnlyForCause`, `NoNameOnlyForCause` | those of pages, sheet and authentication, for any number of addresses, requests, waiting blocks and events |
| `WatchLink_proofs!WatchIsBehind`, `Implements` | phone and watch implement `RecipeShelf`, for any number of pages, recipes and steps |

The assumptions are those of the modules: the empty array is not a recipe
(`ListAssumption`, `RecipeAssumption`, `LinkAssumption`), and a recipe has at least
one step; the numbers of events and writes are natural numbers
(`EventsAssumption`, `RequestsAssumption`), as are the bounds of the pages
(`PagerAssumption`, `PickerAssumption`, `SearchAssumption`, `AccountAssumption`), of
which the ingredients, the rows of a screen and the results of a search are at least
one; nobody is no account. All are evaluated by TLC too.

*The watch.* None of the three properties is inductive: each speaks of the app
at rest or after a trap, and a handler passes through states in which labels,
index and buttons disagree. `WatchSteps!IInv` adds what holds in between.
`SafeWhenCalm`: without an overlap and without a short array the index stays in
range. `TakeTurns`: two active handlers are recorded as a clash, so a handler for
which none is recorded has had the page to itself since its first statement.
`ButtonsInPass`: how much of `checkButtons()` such a handler has done, and that its
tests are still true when their calls run. `LabelsInPass`: how far it has got with
the two labels. Whatever an earlier overlap left behind is overwritten by both,
which is why nothing need be known of it. The proof has a lemma for each group of
actions.

*The pages.* `LinkFollowsCache` needs to know that the message about to be sent
repeats the last row. `QueueInOrder` says that only the first page in the queue
can be between save and send; `SavedIsLastRow` that its row is the last one and not
yet on the link. `RemoveAtPlaces` and `ShrinkingLink` say what losing a message
leaves of the order.

*The refinement.* `shelf` is the phone's `cache`, `shown` the watch's
`instructions`, `place` the history variable `at`, the row whose steps were
delivered. A save is `Shelve`, a delivery `Show`, a restart of the watch
`Restart`, and everything else stutters. `Show` must move *up* the shelf, so the
invariant says that every message under way is of a later row than the watch's
(`LinkAheadOfWatch`) and that an unsent row is later still (`UnsentIsAhead`). The
pages' invariant is taken over from `InstructionFeed_proofs`.

*The database connection* has layers of its own, each proved from those before.
In all of them an order on the wire is stated by the places of the messages of a
type (`At`), and lemmas say what an append and a tail do to the places.

- The link. `AssertionsHold` and `TriesUnlessInterrupted` both speak of an answer that
  is awaited (`GettingToken`), and what awaits it is spread over the requests at the
  token service and the letters on their way back, in which answers to attempts
  long given up may still be found. The invariant therefore says that no attempt is
  from the future (`AttemptsArePast`) and that each is asked for once, answered once,
  and never both under way and answered (`OneAnswerEach`): so the latest attempt is
  awaited exactly until its answer is taken, and a late answer to another disturbs
  nothing. `WireNeedsConnection` is what makes an answer of the server a sign that
  the connection is up. One lemma a callback follows the connection.
- The types (`RestTyped`). What a restored connection sends is the sorted keys of two
  dictionaries, `InOrder`, a `CHOOSE` among sequences: that there is such a sequence,
  and what it contains, is proved by a least counterexample
  (`NatLessThanWellFounded`), as the library's induction cannot be used.
- The user. `NewsOK`: the last news in the inbox is the user's. `WordsOK`: the last
  word about the user on the wire is the connection's token, or the server has it,
  or a refusal is on its way. At rest both queues are empty, which leaves
  `LinkSpeaksForUser`.
- The writes. `ReadyOK`: before requests may be sent none is on the wire, and the
  answer that lets them be sent is the first. `RiseOK`, `OrderOK`: writes are on the
  wire in their order, those answered before those not yet taken, and when requests
  may be sent every outstanding write is on a wire. `WriteStep` names the seven
  things a step can do to the writes, and two lemmas take each of them to the
  invariant and to a step of `Outbox`: the writes outstanding there are those from
  the first unsettled to the newest, and the next one the server takes is the least
  on the wire to it.
- The reads. `ReadsOK`: a read on the wire is behind each write it follows, or the
  server took it.
- The refused token. `TokensArePast`: a token that is made is none that anybody holds.
  `WishOK`: after the user's token was turned down, either the wish for a new one is
  kept, or a request for one is under way, and its answer was not turned down; but
  for the ways in which the wish is lost.

*The instructions tab.* `TrapsOnlyInLoading` needs the index in range, and that the buttons
follow it (`ButtonsFollowIndex`) at every moment at which a tap may come, before the
queued block and after it.

*The search page.* A handler runs beside the main queue, so the two arrays differ
between two appends (`ArraysInStep`), of one handler at a time (`OneAppends`).
`TapOpensHighlightInOneSearch` counts searches: a block that moves the highlight
is of a search that is finished, and another than the one that set it
(`EachQueuedOnce`, `HighlightIsOfFinished`), so two have finished.

*The ingredients page.* `SavedInOrder` and `LoopCoversTable` are about the middle of a
save: the rows saved so far are the checked ones among those passed so far.

*The accounts* have four layers. `RInv` follows the requests: each has one callback
at most in the queue, which fits its stage, and a nameless account one that will
name it. `HInv` follows the listeners: the visible page's is owed a call if it was
told nothing, or of somebody who is not the user (`Hears`), and the page has whom
its listener was told of (`Knows`). `EInv` follows the sheet: the success of a
request is preceded in the queue by the word of who signed in, to the page in
front (`Leads`), and one request at a time belongs to its screen (`OnItsForm`).
`NInv` follows the name: until Back is tapped over a request they go one at a time,
so a user without a name is being named by the request that made it, or its sign-up
was cut off (`Naming`).

Only model-checked: the liveness properties, because the prover has no rule for
fairness: `ReceivedIsShown` (`WatchSteps`), `EveryPageSettles` (`InstructionFeed`),
`EverySearchSettles`, `IngredientsSettle`, `RequestsEnd` (`DatabaseConnection`) and
`SignInOpensSettings` (`Account`). Every other property of a passing run, action
properties and both refinements included, is stated by a theorem above.
The modules have no recursive operators.

## 6. What the runs found

- `WatchLabel`. `didReceiveMessage` shows step 1 but leaves `stepIndex` where the
  last recipe had it. The label reads Step 1, Next goes to Step 4, or past the end
  of a shorter array. `CrashHasCause` names this as one of the two causes of a
  trap, and the theorem says there is no third.
- `SearchTap`. A later search puts result 0 in the large photo and leaves
  `selectedIndex` on the item chosen before, so the photo opens another recipe.
- `InstructionPagerAsBuilt`. The instructions tab reads a context nobody sets.
- `DatabaseGet`. A read that was sent on a connection which is then lost is never
  answered: `sendGet` returns at once because it was sent (`FPersistentConnection.m:766`),
  nothing clears the mark when the connection closes, and the offline timer leaves
  a sent read alone. `getData`'s block is never called, where its header promises
  the value or an error. `RequestsEnd` says that this is the only way a request
  stays open on a connection that is not interrupted.

The passing runs say by which ways a thing goes wrong, and that there is no other:

- A token the server refused is offered again if the attempt that was to ask for a
  new one is scheduled anew (the app comes to the foreground meanwhile), fails, or
  is interrupted: `tryScheduleReconnect` clears `forceTokenRefreshes` when it
  schedules (`RefusedTokenNotReused`, history variable `forceLost`).
- A user who signs out while the connection waits for a token that is still being
  made is the one the connection is then opened for (`LinkSpeaksForUser`, history
  variable `overtaken`), until the next news of a token.
- A sign-up with a sheet that does not hide the login page ends the app on
  `displayName!`: the new user is announced before the name is committed. The
  account is then left without a name, and every later visit of the login page
  ends the app again. `trap = "noName"` is a reachable state of `Account`.
  `NoNameHasCause` says in which states it comes to it, and `NamelessHasCause` how
  accounts are left without a name: an answer of either request was lost, the
  naming was refused, or the app ended in between.
- An answer that comes after Back was tapped on its screen ends the app on `error!`
  if no user is known by then, as does a sign-out by the server while the sheet
  closes; nothing else does (`NoErrorHasCause`).

One was found by the proof and not by a run:

- A page can keep a user who is gone, with no word under way (`PageKnowsUser`, history
  variable `crossed`). A listener's first call is posted to the main queue and comes
  even if the listener was removed meanwhile; it tells the page whoever is then
  signed in. If the page is back in sight by then with a new listener that had heard
  of a user before, and the users change once more to that one, the new listener
  takes it for no news (`previousUserID`) while the page has the other user. It takes
  three requests that outlived their screens, for two accounts, answered while the
  recipe page goes and comes back: 33 steps, with `MaxRequests = 3` and
  `MaxBlocks = 4`, beyond the run's bounds. Without such a call (`Crosses`) the theorem
  holds for any bounds.

## 7. What is not modelled

- *Shopping tab.* `viewDidLoad` calls `loadShoppingList()` (`:64`) before it sets
  `managedContext` (`:68`), which ends the app: no other operation is reached.
- *Frequent list.* Its only writer besides itself is the shopping tab, so the list
  it loads is empty, and its own Save ends on `0...list.count-1`. Delete and Clear
  end it too (`deleteRows` before the row is removed; a selector that does not
  exist). What its reads and writes come to is `DatabaseConnection`.
- *Favourites.* The heart button is never selected, so it only removes.
- *The profile page's edits* of name, address and password: each is one request
  whose outcome the page ignores. *The heart's write* is a `Put` of
  `DatabaseConnection`; `Account` has the uid it is made with.
- *Featured recipes*: one request, without the overlaps that make the search page
  hard. *The watch timer*: a flag and a timer on one thread.
- *The rest of Firebase's database*: listens and the sync tree's views, transactions,
  onDisconnect requests, persistence, App Check, which the app does not use. *Of
  authentication*: the automatic refresh timer, other providers, e-mail links,
  password recovery, anonymous upgrade.
- *Store loading*, its failure, and the fifteen nutrition labels, which are one
  value here. *Table layout* but for rows on and off screen.
- *Template code* (scene, extension and complication delegates), model types,
  storyboards.
- *The other pods*: Firestore, gRPC, BoringSSL, leveldb, abseil, the Facebook and
  Google SDKs and so on. They are linked and the app calls none of them. They are
  also nearly all of the repository's C and C++ (some 718,000 lines), so that the
  share of it that is modelled is very small, and will stay so: the app itself has
  some 2,100 lines of Swift, most of which the modules do cover.
- `watchReady`, the message the watch sends at activation: nothing on the phone
  receives it.

## 8. The plan

Done: `WatchSteps`, `InstructionFeed`, `RecipeShelf`, `WatchLink` first, because
the instructions on the watch are what the app is for; then the pages with two
threads; then the database connection with `Outbox`, and `Account`; then the
proofs of all that is not liveness. What is left, in order:

1. `Account` over `DatabaseLink`: the uid of a page's write against the user the
   server knows the connection by when it takes it.
2. The refinement extended to the instructions tab, which sends old rows again, so
   that the watch may go back: a weaker shelf.
3. `FeaturedRecipes` and `WatchTimer`, for completeness.
