---------------------------- MODULE FriendsPage ----------------------------
(***************************************************************************)
(* FriendsView: the three lists of GET /friends, the actions on them, the   *)
(* dialog that confirms two of these, and the search for the receiver of a  *)
(* request.  Every action is an async function that waits for its request   *)
(* and then for a refresh; the user goes on clicking meanwhile, or leaves   *)
(* the page, which stops none of them.                                      *)
(***************************************************************************)
EXTENDS Account

CONSTANTS
  Slots,                        \* slots for async functions under way
  None,                         \* no dialog, no user, an empty text
  Unknown,                      \* texts that are nobody's name
  MaxClicks,                    \* bound: what the user does, on any page
  MaxFailures                   \* bound: requests that fail on the way

ASSUME FriendsPageAssumption ==
  None \notin Others \cup Unknown /\ MaxClicks \in Nat /\ MaxFailures \in Nat

VARIABLES
  onFriends,                    \* the page is mounted
  shown, loading, error,        \* the lists, the spinner, the error panel
  tab,                          \* activeTab
  confirmOpen, dialog,          \* the dialog and what its title speaks of
  confirmAction,                \* what it will do
  sendLoading,
  recipient, results,           \* the text and the users found
  searchLoading, showDropdown,
  timer, searches,              \* the text that waits for its 250 ms; those asked,
                                \* and whether each is the newest (history)
  job,                          \* [Slots -> one async function]
  clicks, failures,             \* counters for the bounds
  stale,                        \* history: the lists were read before the last
                                \* change that this page did not itself make
  overlapped,                   \* history: the dialog was opened while an action
                                \* confirmed before was still running
  stray                         \* history: the last answer was not the newest search's

viewVars == <<onFriends, shown, loading, error, tab>>
dialogVars == <<confirmOpen, dialog, confirmAction, overlapped>>
searchVars == <<recipient, results, searchLoading, showDropdown, timer, searches, stray>>
friendsPageVars == <<viewVars, dialogVars, searchVars, sendLoading, job, clicks,
                     failures, stale>>

Texts == Others \cup Unknown \cup {None}
Searches == [text : Others \cup Unknown, newest : BOOLEAN]
ListNames == {"friends", "incoming", "outgoing"}
Lists == [friends : SUBSET Others, incoming : SUBSET Others, outgoing : SUBSET Others]
NoLists == [friends |-> {}, incoming |-> {}, outgoing |-> {}]
ServerLists == [friends |-> friends, incoming |-> incoming, outgoing |-> outgoing]
Confirmed == {"reject", "remove"}
Dialogs == [kind : Confirmed, who : Others] \cup {None}

\* parts: the lists that have been read.  here: the page that started it is still
\* mounted.
Jobs == [kind : {"none", "load", "send", "accept", "reject", "remove"}, who : Texts,
         pc : {"idle", "call", "ok", "refused", "get", "reply", "failed"},
         lists : Lists, parts : SUBSET ListNames, fresh : BOOLEAN, here : BOOLEAN]
Idle == [kind |-> "none", who |-> None, pc |-> "idle", lists |-> NoLists,
         parts |-> {}, fresh |-> TRUE, here |-> TRUE]

FriendsPageTypeOK ==
  /\ onFriends \in BOOLEAN /\ shown \in Lists /\ loading \in BOOLEAN /\ error \in BOOLEAN
  /\ tab \in ListNames
  /\ confirmOpen \in BOOLEAN /\ dialog \in Dialogs /\ confirmAction \in Dialogs
  /\ recipient \in Texts /\ results \subseteq Others /\ timer \in Texts
  /\ searches \subseteq Searches
  /\ searchLoading \in BOOLEAN /\ showDropdown \in BOOLEAN /\ sendLoading \in BOOLEAN
  /\ job \in [Slots -> Jobs]
  /\ clicks \in 0..MaxClicks /\ failures \in 0..MaxFailures
  /\ stale \in BOOLEAN /\ overlapped \in BOOLEAN /\ stray \in BOOLEAN

FriendsPageInit ==
  /\ onFriends = FALSE /\ shown = NoLists /\ loading = TRUE /\ error = FALSE
  /\ tab = "friends"
  /\ confirmOpen = FALSE /\ dialog = None /\ confirmAction = None /\ overlapped = FALSE
  /\ recipient = None /\ results = {} /\ searchLoading = FALSE /\ showDropdown = FALSE
  /\ timer = None /\ searches = {} /\ stray = FALSE
  /\ sendLoading = FALSE
  /\ job = [s \in Slots |-> Idle]
  /\ clicks = 0 /\ failures = 0 /\ stale = FALSE

Click == onFriends /\ clicks < MaxClicks /\ clicks' = clicks + 1
Running == {s \in Slots : job[s].pc # "idle"}
Begin(s, kind, who, pc) ==
  /\ job[s].pc = "idle"
  /\ job' = [job EXCEPT ![s] = [Idle EXCEPT !.kind = kind, !.who = who, !.pc = pc]]
\* refresh() up to its await.
StartRefresh == loading' = TRUE /\ error' = FALSE

-----------------------------------------------------------------------------
(* What the page offers.  The dialog's overlay covers everything else.      *)

OffersPanels == onFriends /\ ~confirmOpen
OffersLists == OffersPanels /\ ~loading
OffersRemove(u) == OffersLists /\ tab = "friends" /\ u \in shown.friends
OffersAnswer(u) == OffersLists /\ tab = "incoming" /\ u \in shown.incoming
Tabs == {"friends"} \cup {t \in {"incoming", "outgoing"} : shown[t] # {}}
OffersTab(t) == OffersLists /\ t \in Tabs /\ Cardinality(Tabs) > 1

pickTab(t) ==
  /\ OffersTab(t) /\ t # tab /\ Click
  /\ tab' = t
  /\ UNCHANGED <<accountVars, onFriends, shown, loading, error, dialogVars, searchVars,
                 sendLoading, job, failures, stale>>

-----------------------------------------------------------------------------
(* The dialog.                                                              *)

openConfirm(kind, u) ==
  /\ Click
  /\ dialog' = [kind |-> kind, who |-> u] /\ confirmAction' = dialog'
  /\ confirmOpen' = TRUE
  /\ overlapped' = (\E s \in Running : job[s].here /\ job[s].kind \in Confirmed)
  /\ UNCHANGED <<accountVars, viewVars, searchVars, sendLoading, job, failures, stale>>

onRemoveConfirm(u) == OffersRemove(u) /\ openConfirm("remove", u)
onRejectConfirm(u) == OffersAnswer(u) /\ openConfirm("reject", u)

\* The action is forgotten when it has ended (EndConfirmed), not now.
handleConfirm(s) ==
  /\ onFriends /\ confirmOpen /\ Click
  /\ confirmOpen' = FALSE
  /\ IF confirmAction # None
     THEN Begin(s, confirmAction.kind, confirmAction.who, "call")
     ELSE UNCHANGED job
  /\ UNCHANGED <<accountVars, viewVars, dialog, confirmAction, overlapped, searchVars,
                 sendLoading, failures, stale>>

handleCancel ==
  /\ onFriends /\ confirmOpen /\ Click
  /\ confirmOpen' = FALSE /\ confirmAction' = None
  /\ UNCHANGED <<accountVars, viewVars, dialog, overlapped, searchVars, sendLoading, job,
                 failures, stale>>

\* Mutant: the end of any action forgets the dialog's.
EndAny(s) == confirmAction' = None
EndConfirmed(s) ==
  confirmAction' = IF job[s].kind \in Confirmed THEN None ELSE confirmAction

-----------------------------------------------------------------------------
(* The search.                                                              *)

\* A text that is emptied or searched for leaves the searches under way behind.
Superseded == {[q EXCEPT !.newest = FALSE] : q \in searches}

\* Mutant: nothing is asked while an answer is awaited.
onInputBusy(text) ==
  /\ showDropdown' = TRUE
  /\ timer' = IF searches = {} THEN text ELSE None
  /\ searchLoading' = (text # None)
  /\ results' = IF text = None THEN {} ELSE results
  /\ stray' = (stray /\ text # None)
  /\ searches' = IF text = None THEN Superseded ELSE searches

\* The watcher on recipient.  A search asked for an earlier text goes on.
onInput(text) ==
  /\ showDropdown' = TRUE
  /\ timer' = text
  /\ searchLoading' = (text # None)
  /\ results' = IF text = None THEN {} ELSE results
  /\ stray' = (stray /\ text # None)
  /\ searches' = IF text = None THEN Superseded ELSE searches

type(text) ==
  /\ OffersPanels /\ text # recipient /\ Click
  /\ recipient' = text
  /\ onInput(text)
  /\ UNCHANGED <<accountVars, viewVars, dialogVars, sendLoading, job, failures, stale>>

searchUsers ==
  /\ timer # None
  /\ searches' = Superseded \cup {[text |-> timer, newest |-> TRUE]}
  /\ timer' = None
  /\ UNCHANGED <<accountVars, viewVars, dialogVars, recipient, results, searchLoading,
                 showDropdown, stray, sendLoading, job, clicks, failures, stale>>

\* The users whose name matches; none, if the request fails.  The answer is taken
\* whatever the text is by now.
Found(q, found) ==
  /\ q \in searches /\ found \in {{}, {q.text} \cap Others}
  /\ searches' = searches \ {q}
  /\ results' = found
  /\ searchLoading' = FALSE
  /\ stray' = ~q.newest
  /\ UNCHANGED <<accountVars, viewVars, dialogVars, recipient, showDropdown, timer,
                 sendLoading, job, clicks, failures, stale>>

selectUser(u) ==
  /\ OffersPanels /\ showDropdown /\ u \in results /\ Click
  /\ recipient' = u
  /\ IF u = recipient
     THEN showDropdown' = FALSE /\ UNCHANGED <<timer, searchLoading>>
     ELSE showDropdown' = TRUE /\ timer' = u /\ searchLoading' = TRUE
  /\ results' = {} /\ stray' = FALSE
  /\ UNCHANGED <<accountVars, viewVars, dialogVars, searches, sendLoading, job, failures,
                 stale>>

focus ==
  /\ OffersPanels /\ ~showDropdown /\ Click
  /\ showDropdown' = TRUE
  /\ UNCHANGED <<accountVars, viewVars, dialogVars, recipient, results, searchLoading,
                 timer, searches, stray, sendLoading, job, failures, stale>>

onClickOutside ==
  /\ onFriends /\ showDropdown /\ Click
  /\ showDropdown' = FALSE
  /\ UNCHANGED <<accountVars, viewVars, dialogVars, recipient, results, searchLoading,
                 timer, searches, stray, sendLoading, job, failures, stale>>

-----------------------------------------------------------------------------
(* The actions and the refresh.                                             *)

onSendRequest(s) ==
  /\ OffersPanels /\ ~sendLoading /\ recipient # None /\ Click
  /\ sendLoading' = TRUE /\ showDropdown' = FALSE
  /\ Begin(s, "send", recipient, "call")
  /\ UNCHANGED <<accountVars, viewVars, dialogVars, recipient, results, searchLoading,
                 timer, searches, stray, failures, stale>>

onAccept(s, u) ==
  /\ OffersAnswer(u) /\ Click
  /\ Begin(s, "accept", u, "call")
  /\ UNCHANGED <<accountVars, viewVars, dialogVars, searchVars, sendLoading, failures,
                 stale>>

retry(s) ==
  /\ OffersPanels /\ error /\ Click
  /\ StartRefresh
  /\ Begin(s, "load", None, "get")
  /\ UNCHANGED <<accountVars, onFriends, shown, tab, dialogVars, searchVars, sendLoading,
                 failures, stale>>

\* The state of a page that is set up anew; a page that is left has lost its own.
NewPage ==
  /\ shown' = NoLists /\ tab' = "friends"
  /\ StartRefresh
  /\ confirmOpen' = FALSE /\ dialog' = None /\ confirmAction' = None /\ overlapped' = FALSE
  /\ recipient' = None /\ results' = {} /\ searchLoading' = FALSE /\ showDropdown' = FALSE
  /\ timer' = None /\ searches' = {} /\ stray' = FALSE
  /\ sendLoading' = FALSE /\ stale' = FALSE
  /\ UNCHANGED <<accountVars, failures>>

mountFriends(s) ==
  /\ ~onFriends /\ onFriends' = TRUE
  /\ NewPage
  /\ Begin(s, "load", None, "get")

\* The requests on the way are still executed.
unmountFriends ==
  /\ OffersPanels /\ onFriends' = FALSE
  /\ NewPage
  /\ job' = [s \in Slots |-> IF job[s].pc = "call" THEN [job[s] EXCEPT !.here = FALSE] ELSE Idle]

Outdated(jobs) ==
  [s \in Slots |-> [jobs[s] EXCEPT !.fresh = @ /\ jobs[s].parts = {}]]

Execute(j, ok) ==
  /\ CASE j.kind = "send" -> sendFriendRequest(j.who, ok)
       [] j.kind = "accept" -> acceptFriendRequest(j.who, ok)
       [] j.kind = "reject" -> rejectFriendRequest(j.who, ok)
       [] j.kind = "remove" -> removeFriend(j.who, ok)
  /\ UNCHANGED <<asked, sharingVars, events>>

\* heard: the answer reaches the page.  Its action refreshes the lists after
\* the answer it waits for, and after no other.
serve(s, ok, heard) ==
  /\ job[s].pc = "call"
  /\ heard \/ failures < MaxFailures
  /\ failures' = IF heard THEN failures ELSE failures + 1
  /\ Execute(job[s], ok)
  /\ LET jobs == IF listVars' = listVars THEN job ELSE Outdated(job)
     IN  job' = [jobs EXCEPT ![s] =
                   IF job[s].here
                   THEN [@ EXCEPT !.pc = IF ok /\ heard THEN "ok" ELSE "refused"]
                   ELSE Idle]
  /\ stale' = (stale \/ (listVars' # listVars /\ ~(job[s].here /\ heard)))
  /\ UNCHANGED <<viewVars, dialogVars, searchVars, sendLoading, clicks>>

\* getFriendsComposite: three queries at once.
getFriendsComposite(s, list) ==
  /\ job[s].pc = "get" /\ list \notin job[s].parts
  /\ LET parts == job[s].parts \cup {list} IN
       job' = [job EXCEPT ![s].parts = parts, ![s].lists[list] = ServerLists[list],
                          ![s].pc = IF parts = ListNames THEN "reply" ELSE "get"]
  /\ UNCHANGED <<accountVars, viewVars, dialogVars, searchVars, sendLoading, clicks,
                 failures, stale>>

\* The request is lost before it is executed, or a query of it fails.
lose(s) ==
  /\ job[s].pc \in {"call", "get"} /\ failures < MaxFailures
  /\ failures' = failures + 1
  /\ job' = [job EXCEPT ![s] = IF job[s].here
                               THEN [job[s] EXCEPT !.pc = IF @ = "call" THEN "refused"
                                                          ELSE "failed"]
                               ELSE Idle]
  /\ UNCHANGED <<accountVars, viewVars, dialogVars, searchVars, sendLoading, clicks, stale>>

\* Mutant: an accepted request is not followed by a refresh.
answeredQuietly(s) ==
  /\ job[s].pc = "ok"
  /\ job' = [job EXCEPT ![s] = IF job[s].kind = "accept" THEN Idle ELSE [@ EXCEPT !.pc = "get"]]
  /\ UNCHANGED <<accountVars, viewVars, dialogVars, searchVars, sendLoading, clicks,
                 failures, stale>>

\* A sent request empties the search: the watcher opens its dropdown again.
answered(s) ==
  /\ job[s].pc = "ok"
  /\ job' = [job EXCEPT ![s].pc = "get"]
  /\ StartRefresh
  /\ IF job[s].kind = "send"
     THEN /\ recipient' = None
          /\ IF recipient # None
             THEN onInput(None)
             ELSE /\ results' = {} /\ stray' = FALSE
                  /\ UNCHANGED <<timer, searches, searchLoading, showDropdown>>
     ELSE UNCHANGED searchVars
  /\ UNCHANGED <<accountVars, onFriends, shown, tab, dialogVars, sendLoading, clicks,
                 failures, stale>>

Finish(s) ==
  /\ job' = [job EXCEPT ![s] = Idle]
  /\ EndConfirmed(s)
  /\ sendLoading' = (sendLoading /\ job[s].kind # "send")
  /\ UNCHANGED <<accountVars, onFriends, tab, confirmOpen, dialog, overlapped, searchVars,
                 clicks, failures>>

\* Sending has an error text of its own.
refused(s) ==
  /\ job[s].pc = "refused"
  /\ error' = (error \/ job[s].kind # "send")
  /\ UNCHANGED <<shown, loading, stale>>
  /\ Finish(s)

refreshed(s) ==
  /\ job[s].pc = "reply"
  /\ shown' = job[s].lists /\ loading' = FALSE
  /\ stale' = ~job[s].fresh
  /\ UNCHANGED error
  /\ Finish(s)

notRefreshed(s) ==
  /\ job[s].pc = "failed"
  /\ error' = TRUE /\ loading' = FALSE
  /\ UNCHANGED <<shown, stale>>
  /\ Finish(s)

\* Another user changes the lists: only a later refresh shows it.
OthersAct ==
  /\ OtherActs
  /\ job' = Outdated(job)
  /\ stale' = TRUE
  /\ UNCHANGED <<viewVars, dialogVars, searchVars, sendLoading, clicks, failures>>

-----------------------------------------------------------------------------
FriendsClicks(s) ==
  \/ handleConfirm(s) \/ onSendRequest(s) \/ retry(s)
  \/ \E u \in Others : onAccept(s, u)

FriendsSteps(s) ==
  \/ lose(s) \/ \E list \in ListNames : getFriendsComposite(s, list)
  \/ answered(s) \/ refused(s) \/ refreshed(s) \/ notRefreshed(s)
  \/ \E ok, heard \in BOOLEAN : serve(s, ok, heard)

FriendsSearch ==
  \/ searchUsers \/ focus \/ onClickOutside
  \/ \E text \in Texts : type(text)
  \/ \E u \in Others : selectUser(u)
  \/ \E q \in searches, found \in SUBSET Others : Found(q, found)

FriendsPageNext ==
  \/ \E s \in Slots : FriendsClicks(s) \/ FriendsSteps(s)
  \/ FriendsSearch
  \/ \E t \in ListNames : pickTab(t)
  \/ \E u \in Others : onRemoveConfirm(u) \/ onRejectConfirm(u)
  \/ handleCancel
  \/ OthersAct

-----------------------------------------------------------------------------
(* Properties.                                                              *)

\* The dialog does what its text says (openConfirm, handleConfirm).  It does
\* nothing, though it looks the same, when it was opened while an action
\* confirmed before still ran: that one clears confirmAction when it ends.
DialogDoesItsAction ==
  onFriends /\ confirmOpen =>
    confirmAction = dialog \/ (confirmAction = None /\ overlapped)

\* When nothing is under way and no error is shown, the lists are the server's
\* but for what others did since, an action whose answer was lost, one of a
\* page left before, and a refresh overtaken by a later one (refresh, and the
\* actions that end in it).
ListsSettle ==
  onFriends /\ ~loading /\ ~error /\ ~stale /\ Running = {} => shown = ServerLists

\* When no search is waited for, the dropdown's users were found for the text in the
\* input, unless the newest search was answered before an older one, or the text was
\* emptied before the answer: searches are not cancelled, and answers are taken in any
\* order (onInput, its timer, selectUser).
ResultsFit ==
  onFriends /\ ~stray /\ timer = None /\ searches = {} => results \subseteq {recipient}
=============================================================================
