--------------------------- MODULE InstructionFeed ---------------------------
(***************************************************************************)
(* The phone's instruction pages: InstructionTableViewController, the Core *)
(* Data rows of entity Instruction they leave behind, and the messages     *)
(* they hand to WCSession for the watch.                                   *)
(*                                                                         *)
(* A page starts a request when it opens.  Its completion handler, on      *)
(* URLSession's serial queue, parses the answer and queues a block on the  *)
(* main thread, which saves the steps and then sends them.  The closures   *)
(* hold the page, so a page the user has left still saves and sends, and   *)
(* several pages may be under way at once.                                 *)
(*                                                                         *)
(* The steps of a recipe are known by the recipe.  EmptyList stands for no *)
(* steps.  The row's id attribute is left out: nothing reads it.           *)
(***************************************************************************)
EXTENDS Integers, SequencesExt

CONSTANTS
    Page,        \* the pages opened in a behaviour: a bound on their number
    Recipe,      \* the recipes, each with at least one step
    EmptyList    \* no steps

ASSUME RecipeAssumption == EmptyList \notin Recipe

VARIABLES
    phase,       \* how far each page is
    recipe,      \* the recipe each page was opened for
    steps,       \* the page's instructions
    mainQueue,   \* pages whose block waits on, or holds, the main thread
    cache,       \* the saved Instruction rows
    session,     \* WCSession.default's activation state
    link,        \* messages handed to WCSession and not yet delivered
    alive        \* the app is running

vars == <<phase, recipe, steps, mainQueue, cache, session, link, alive>>
pages == <<phase, recipe, steps, mainQueue>>

Steps   == Recipe \cup {EmptyList}
Phase   == {"new", "loading", "parsed", "saved", "done"}
Row     == [title : Recipe, steps : Steps]
\* row is history: the number of the row saved just before the message was sent.
Message == [steps : Steps, row : Nat \ {0}]

\* A page's block holds the main thread from its save to its send.
MainFree == \A p \in Page : phase[p] # "saved"

-----------------------------------------------------------------------------
Init ==
    /\ phase = [p \in Page |-> "new"]
    /\ recipe \in [Page -> Recipe]
    /\ steps = [p \in Page |-> EmptyList]
    /\ mainQueue = <<>> /\ cache = <<>> /\ link = <<>>
    /\ session = "notActivated" /\ alive = TRUE

\* viewDidLoad: starts the request and activates the session, which is shared by
\* all pages.  The recipe was set before, by the page that leads here.
Open(p) ==
    /\ alive /\ MainFree /\ phase[p] = "new"
    /\ phase' = [phase EXCEPT ![p] = "loading"]
    /\ session' = IF session = "activated" THEN session ELSE "activating"
    /\ UNCHANGED <<recipe, steps, mainQueue, cache, link, alive>>

\* The session's answers to activate(); the page's three delegate methods are empty,
\* so a session that was deactivated stays so until the next page opens.
SessionChanges ==
    /\ alive
    /\ \/ session = "activating" /\ session' \in {"activated", "notActivated"}
       \/ session = "activated" /\ session' = "notActivated"
    /\ UNCHANGED <<pages, cache, link, alive>>

-----------------------------------------------------------------------------
(* The completion handler of the page's request.                           *)

\* An error, a status other than 200, or a first element without "steps".
AnswerRefused(p) ==
    /\ alive /\ phase[p] = "loading"
    /\ phase' = [phase EXCEPT ![p] = "done"]
    /\ UNCHANGED <<recipe, steps, mainQueue, cache, session, link, alive>>

\* A handler that queues its block twice.
AnswerParsedTwice(p) ==
    /\ alive /\ phase[p] = "loading"
    /\ phase' = [phase EXCEPT ![p] = "parsed"]
    /\ \E l \in {recipe[p], EmptyList} : steps' = [steps EXCEPT ![p] = l]
    /\ mainQueue' = mainQueue \o <<p, p>>
    /\ UNCHANGED <<recipe, cache, session, link, alive>>

\* The steps, or none: an analysis without steps, and also a body that is not JSON
\* or not an array, which goes on to the block with what the page has.
AnswerParsed(p) ==
    /\ alive /\ phase[p] = "loading"
    /\ phase' = [phase EXCEPT ![p] = "parsed"]
    /\ \E l \in {recipe[p], EmptyList} : steps' = [steps EXCEPT ![p] = l]
    /\ mainQueue' = Append(mainQueue, p)
    /\ UNCHANGED <<recipe, cache, session, link, alive>>

\* json[0] of an empty array, which is the answer for a recipe not analysed; or the
\* table's first layout reads instructions while the handler appends to it.
AnswerTraps(p) ==
    /\ alive /\ phase[p] = "loading"
    /\ alive' = FALSE
    /\ UNCHANGED <<pages, cache, session, link>>

Answer(p) == AnswerRefused(p) \/ AnswerParsed(p) \/ AnswerTraps(p)

-----------------------------------------------------------------------------
(* The block on the main thread: save, then send.                          *)

\* A save that replaces the row of a recipe saved before.
SaveReplacing ==
    LET p == Head(mainQueue) IN
    /\ alive /\ mainQueue # <<>> /\ phase[p] = "parsed"
    /\ cache' = Append(SelectSeq(cache, LAMBDA r : r.title # recipe[p]),
                       [title |-> recipe[p], steps |-> steps[p]])
    /\ phase' = [phase EXCEPT ![p] = "saved"]
    /\ UNCHANGED <<recipe, steps, mainQueue, session, link, alive>>

Save ==
    LET p == Head(mainQueue) IN
    /\ alive /\ mainQueue # <<>> /\ phase[p] = "parsed"
    /\ cache' = Append(cache, [title |-> recipe[p], steps |-> steps[p]])
    /\ phase' = [phase EXCEPT ![p] = "saved"]
    /\ UNCHANGED <<recipe, steps, mainQueue, session, link, alive>>

\* saveContext() ends the app when the store refuses.
SaveFails ==
    /\ alive /\ mainQueue # <<>> /\ phase[Head(mainQueue)] = "parsed"
    /\ alive' = FALSE
    /\ UNCHANGED <<pages, cache, session, link>>

\* A send with no way out when the session cannot take the message.
SendBlocking ==
    LET p == Head(mainQueue) IN
    /\ alive /\ mainQueue # <<>> /\ phase[p] = "saved"
    /\ session = "activated"
    /\ link' = Append(link, [steps |-> steps[p], row |-> Len(cache)])
    /\ phase' = [phase EXCEPT ![p] = "done"]
    /\ mainQueue' = Tail(mainQueue)
    /\ UNCHANGED <<recipe, steps, cache, session, alive>>

\* sendInstruction: to an activated session whose watch is reachable, and to no
\* other.  Empty steps are sent too, and nothing is kept for later.
Send ==
    LET p == Head(mainQueue) IN
    /\ alive /\ mainQueue # <<>> /\ phase[p] = "saved"
    /\ \/ /\ session = "activated"
          /\ link' = Append(link, [steps |-> steps[p], row |-> Len(cache)])
       \/ UNCHANGED link
    /\ phase' = [phase EXCEPT ![p] = "done"]
    /\ mainQueue' = Tail(mainQueue)
    /\ UNCHANGED <<recipe, steps, cache, session, alive>>

-----------------------------------------------------------------------------
(* What happens to the app and to its messages.                            *)

\* The app is ended from outside, at any moment.
Stop ==
    /\ alive
    /\ alive' = FALSE
    /\ UNCHANGED <<pages, cache, session, link>>

\* A store that had not written the last row when the app ended.
RelaunchLosingLast ==
    /\ ~alive
    /\ alive' = TRUE
    /\ phase' = [p \in Page |-> IF phase[p] = "new" THEN "new" ELSE "done"]
    /\ mainQueue' = <<>> /\ session' = "notActivated"
    /\ cache' = SubSeq(cache, 1, Len(cache) - 1)
    /\ UNCHANGED <<recipe, steps, link>>

\* Pages, requests and the session's state are gone; the rows are not.
Relaunch ==
    /\ ~alive
    /\ alive' = TRUE
    /\ phase' = [p \in Page |-> IF phase[p] = "new" THEN "new" ELSE "done"]
    /\ mainQueue' = <<>> /\ session' = "notActivated"
    /\ UNCHANGED <<recipe, steps, cache, link>>

\* WCSession delivers messages in the order sent, and may lose any of them.
Deliver == link # <<>> /\ link' = Tail(link) /\ UNCHANGED <<pages, cache, session, alive>>

Lose ==
    /\ \E i \in 1 .. Len(link) : link' = RemoveAt(link, i)
    /\ UNCHANGED <<pages, cache, session, alive>>

PhoneStep ==
    \/ \E p \in Page : Open(p) \/ Answer(p)
    \/ SessionChanges
    \/ Save \/ SaveFails \/ Send
    \/ Stop \/ Relaunch

Next == PhoneStep \/ Deliver \/ Lose

\* A request is answered or times out after 10 seconds, and the main thread runs the
\* blocks queued on it.  The user need not open a page or start the app again.
Fairness ==
    /\ \A p \in Page : WF_vars(Answer(p))
    /\ WF_vars(Save \/ SaveFails \/ Send)

Spec == Init /\ [][Next]_vars /\ Fairness

-----------------------------------------------------------------------------
\* The state's types; a page waits for the main thread at most once.
TypeOK ==
    /\ phase \in [Page -> Phase]
    /\ recipe \in [Page -> Recipe]
    /\ steps \in [Page -> Steps]
    /\ mainQueue \in Seq(Page) /\ IsInjective(mainQueue)
    /\ cache \in Seq(Row)
    /\ session \in {"notActivated", "activating", "activated"}
    /\ link \in Seq(Message)
    /\ alive \in BOOLEAN

\* Every message under way repeats a row that is on disk, whatever stopped the app
\* since, and the messages are in the order their rows were saved in: saveContext()
\* comes before sendInstruction() in one block.
LinkFollowsCache ==
    /\ \A i \in 1 .. Len(link) :
          link[i].row \in 1 .. Len(cache) /\ cache[link[i].row].steps = link[i].steps
    /\ \A i, j \in 1 .. Len(link) : i < j => link[i].row < link[j].row

\* A page that opened comes to its end, saved and sent or not, or the app stops.
EveryPageSettles == \A p \in Page : phase[p] = "loading" ~> phase[p] = "done" \/ ~alive

-----------------------------------------------------------------------------
(* The inductive invariant behind LinkFollowsCache.                        *)

\* The pages queued on the main thread are between their answer and their send, and
\* only the first can have begun.
QueueInOrder ==
    /\ \A i \in 1 .. Len(mainQueue) : phase[mainQueue[i]] \in {"parsed", "saved"}
    /\ \A p \in Page : phase[p] = "saved" => mainQueue # <<>> /\ p = mainQueue[1]

\* Between save and send the last row is the page's own, and not sent yet.
SavedIsLastRow ==
    \A p \in Page : phase[p] = "saved" =>
        /\ cache # <<>> /\ cache[Len(cache)].steps = steps[p]
        /\ \A i \in 1 .. Len(link) : link[i].row < Len(cache)

IInv == TypeOK /\ LinkFollowsCache /\ QueueInOrder /\ SavedIsLastRow
=============================================================================
