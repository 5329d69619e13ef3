----------------------------- MODULE PagesProofs -----------------------------
(***************************************************************************)
(* The Friends and Settings pages for any number of other users, of async   *)
(* functions under way, of clicks and of failures: what the dialog does,    *)
(* and what lists, search results and settings show once all is answered.   *)
(***************************************************************************)
EXTENDS Pages, FunctionTheorems, TLAPS

-----------------------------------------------------------------------------
(* The Friends page.                                                        *)

Requests == {"send", "accept", "reject", "remove"}

(* A function whose page was left has its request on the way and does       *)
(* nothing after it; every other one belongs to the page that is there.     *)
JobInv(s) ==
  /\ job[s].pc = "call" => job[s].kind \in Requests
  /\ job[s].pc = "reply" => job[s].parts = ListNames
  /\ ~job[s].here => job[s].pc = "call"

(* Whatever can take the action of the open dialog was running when it was   *)
(* opened.                                                                  *)
ConfirmedRuns == \E s \in Running : job[s].here /\ job[s].kind \in Confirmed
DialogInv ==
  confirmOpen =>
    /\ confirmAction = dialog \/ (confirmAction = None /\ overlapped)
    /\ ConfirmedRuns => overlapped

(* What a refresh has read is what the server has, while it is fresh.        *)
ReadInv(s) ==
  job[s].fresh => \A list \in job[s].parts : job[s].lists[list] = ServerLists[list]

(* The page shows the server's lists, or a refresh is still to come: it is   *)
(* under way, or the answer that starts it has arrived.                      *)
Announced == \E s \in Slots : job[s].pc = "ok"
ShownInv ==
  onFriends /\ ~loading /\ ~error /\ ~stale => shown = ServerLists \/ Announced

(* The text that waits is the one in the input; the newest search is for the *)
(* text in the input, unless that one still waits.  Users found for another  *)
(* text are there only while a text waits or the newest search is asked.     *)
ResultsInv ==
  /\ timer # None => timer = recipient
  /\ \A q \in searches : q.newest => timer # None \/ q.text = recipient
  /\ timer = None /\ ~stray /\ (\A q \in searches : ~q.newest) => results \subseteq {recipient}

FriendsInv ==
  /\ FriendsPageTypeOK
  /\ \A s \in Slots : JobInv(s) /\ ReadInv(s)
  /\ DialogInv /\ ShownInv /\ ResultsInv

-----------------------------------------------------------------------------
(* The Settings page.                                                       *)

(* One save at a time, and none before the page has loaded.                  *)
SavesInv ==
  /\ \A v, w \in saves : v.here /\ w.here => v = w
  /\ ~Offers => ~saving
  /\ \A v \in saves : v.kind = "list" => v.mode \in ListModes

(* What the load has read still holds, but for the saves of earlier visits   *)
(* and the friendships that ended.                                          *)
LoadInv ==
  Loading =>
    /\ ~pageError
    /\ ~overtaken => /\ "mode" \in load.parts => load.mode = serverMode
                     /\ \A m \in ListModes \cap load.parts : load.picked[m] = ServerPicks[m]
    /\ "friends" \in load.parts /\ ~lapsed => load.friends \subseteq friends

(* What the user has not changed since is what the server has, or what a     *)
(* save under way is about to give it, and that save takes what is shown.    *)
Unsettled(v) == v.here /\ v.pc # "ok"
ModeInv ==
  Offers /\ ~overtaken /\ "mode" \notin edited =>
    /\ pageMode = serverMode \/ \E v \in saves : Unsettled(v)
    /\ \A v \in saves : v.here /\ v.pc = "call" => pageMode = v.mode
PickedInv ==
  Offers /\ ~overtaken =>
    \A m \in ListModes \ edited :
      /\ \/ picked[m] = ServerPicks[m]
         \/ \E v \in saves : Unsettled(v) /\ v.kind = "list" /\ v.mode = m
      /\ \A v \in saves :
           v.here /\ v.pc = "call" /\ v.kind = "list" /\ v.mode = m => picked[m] = v.ids

(* A checkbox stands for a friend, unless a friendship ended meanwhile.      *)
MissingInv ==
  onSettings =>
    /\ pageLoading \/ pageError => pageFriends = {} /\ missing = {}
    /\ ~lapsed => pageFriends \subseteq friends /\ missing \cap pageFriends = {}

(* Whoever is named anywhere is a friend or was one.                         *)
Met(ids) == ids \subseteq friends \cup former
FormerInv ==
  /\ Met(selected) /\ Met(except)
  /\ Met(pageFriends) /\ \A m \in ListModes : Met(picked[m])
  /\ Met(load.friends) /\ \A m \in ListModes : Met(load.picked[m])
  /\ \A v \in saves : Met(v.ids)
  /\ missing \subseteq former

(* Of the users without a checkbox, the page and the save that takes its     *)
(* choice name those the server names.                                      *)
BlockInv ==
  Offers /\ ~overtaken =>
    \A m \in ListModes :
      /\ picked[m] \ pageFriends = ServerPicks[m] \ pageFriends
      /\ \A v \in saves :
           v.here /\ v.pc = "call" /\ v.kind = "list" /\ v.mode = m =>
             v.ids \ pageFriends = ServerPicks[m] \ pageFriends

SettingsInv ==
  /\ SettingsPageTypeOK
  /\ SavesInv /\ LoadInv /\ ModeInv /\ PickedInv /\ MissingInv /\ FormerInv /\ BlockInv

PagesInv == AccountTypeOK /\ FriendsInv /\ SettingsInv

-----------------------------------------------------------------------------
(* The async functions of the Friends page.                                 *)

LEMMA IdleJob ==
  /\ Idle \in Jobs /\ Idle.pc = "idle" /\ Idle.kind = "none" /\ Idle.here /\ Idle.fresh
  /\ Idle.parts = {}
<1>1. NoLists \in Lists
  BY DEF NoLists, Lists
<1> QED BY <1>1 DEF Idle, Jobs, Texts

LEMMA Begun ==
  ASSUME FriendsPageTypeOK, NEW s \in Slots, NEW kind \in Requests \cup {"load"},
         NEW who \in Texts, NEW pc \in {"call", "get"}, Begin(s, kind, who, pc)
  PROVE  /\ job[s].pc = "idle"
         /\ job' \in [Slots -> Jobs]
         /\ \A r \in Slots \ {s} : job'[r] = job[r]
         /\ job'[s].kind = kind /\ job'[s].who = who /\ job'[s].pc = pc
         /\ job'[s].fresh /\ job'[s].here /\ job'[s].parts = {}
<1>1. PICK j : j = [Idle EXCEPT !.kind = kind, !.who = who, !.pc = pc]
  OBVIOUS
<1>2. /\ j \in Jobs /\ j.kind = kind /\ j.who = who /\ j.pc = pc /\ j.fresh /\ j.here
      /\ j.parts = {}
  BY <1>1, IdleJob DEF Jobs, Requests
<1>3. job' = [job EXCEPT ![s] = j] /\ job[s].pc = "idle"
  BY <1>1 DEF Begin
<1> QED BY <1>2, <1>3 DEF FriendsPageTypeOK

LEMMA OutdatedJobs ==
  ASSUME NEW jobs \in [Slots -> Jobs]
  PROVE  /\ Outdated(jobs) \in [Slots -> Jobs]
         /\ \A s \in Slots :
              /\ Outdated(jobs)[s].kind = jobs[s].kind /\ Outdated(jobs)[s].who = jobs[s].who
              /\ Outdated(jobs)[s].pc = jobs[s].pc /\ Outdated(jobs)[s].here = jobs[s].here
              /\ Outdated(jobs)[s].lists = jobs[s].lists
              /\ Outdated(jobs)[s].parts = jobs[s].parts
              /\ Outdated(jobs)[s].fresh => jobs[s].parts = {}
<1> DEFINE fresh(s) == jobs[s].fresh /\ jobs[s].parts = {}
           j(s) == [jobs[s] EXCEPT !.fresh = fresh(s)]
<1>1. ASSUME NEW s \in Slots
      PROVE  /\ j(s) \in Jobs /\ j(s).kind = jobs[s].kind /\ j(s).who = jobs[s].who
             /\ j(s).pc = jobs[s].pc /\ j(s).here = jobs[s].here
             /\ j(s).lists = jobs[s].lists /\ j(s).parts = jobs[s].parts
             /\ j(s).fresh = fresh(s)
  <2>1. jobs[s] \in Jobs
    OBVIOUS
  <2>2. fresh(s) \in BOOLEAN
    BY <2>1 DEF Jobs
  <2> HIDE DEF fresh
  <2> QED BY <2>1, <2>2 DEF Jobs
<1>2. Outdated(jobs) = [s \in Slots |-> j(s)]
  BY DEF Outdated
<1> HIDE DEF j
<1> QED BY <1>1, <1>2

-----------------------------------------------------------------------------
(* What keeps the parts of FriendsInv.                                      *)

LEMMA DialogKept ==
  ASSUME DialogInv, UNCHANGED dialogVars,
         \A s \in Slots :
           job'[s].pc # "idle" /\ job'[s].here /\ job'[s].kind \in Confirmed =>
             job[s].pc # "idle" /\ job[s].here /\ job[s].kind \in Confirmed
  PROVE  DialogInv'
<1>1. ConfirmedRuns' => ConfirmedRuns
  BY DEF ConfirmedRuns, Running
<1> QED BY <1>1 DEF DialogInv, dialogVars

LEMMA ResultsKept ==
  ASSUME ResultsInv, UNCHANGED searchVars
  PROVE  ResultsInv'
BY DEF ResultsInv, searchVars

LEMMA ShownKept ==
  ASSUME ShownInv, UNCHANGED <<onFriends, shown, listVars>>,
         loading => loading', error => error', stale => stale', Announced => Announced'
  PROVE  ShownInv'
BY DEF ShownInv, ServerLists, listVars

LEMMA Clicked ==
  ASSUME FriendsPageTypeOK, clicks < MaxClicks, clicks' = clicks + 1
  PROVE  clicks' \in 0..MaxClicks
BY FriendsPageAssumption DEF FriendsPageTypeOK

LEMMA Failed ==
  ASSUME FriendsPageTypeOK, failures < MaxFailures, failures' = failures + 1
  PROVE  failures' \in 0..MaxFailures
BY FriendsPageAssumption DEF FriendsPageTypeOK

\* The part of FriendsPageTypeOK on the search.
SearchTypeOK ==
  /\ recipient \in Texts /\ results \subseteq Others /\ timer \in Texts
  /\ searches \subseteq Searches
  /\ searchLoading \in BOOLEAN /\ showDropdown \in BOOLEAN /\ stray \in BOOLEAN

LEMMA SupersededSearches ==
  ASSUME searches \subseteq Searches
  PROVE  /\ Superseded \subseteq Searches
         /\ \A q \in Superseded : ~q.newest
<1>1. ASSUME NEW q \in searches
      PROVE  [q EXCEPT !.newest = FALSE] \in Searches /\ ~[q EXCEPT !.newest = FALSE].newest
  BY DEF Searches
<1> QED BY <1>1 DEF Superseded

\* A text that is typed waits, and a text that is emptied leaves no newest search.
LEMMA OnInputInv ==
  ASSUME FriendsInv, NEW text \in Texts, onInput(text), recipient' = text
  PROVE  SearchTypeOK' /\ ResultsInv'
<1> USE DEF FriendsInv, FriendsPageTypeOK, SearchTypeOK, ResultsInv, onInput
<1>1. CASE text = None
  BY <1>1, SupersededSearches
<1>2. CASE text # None
  BY <1>2
<1> QED BY <1>1, <1>2

\* The page's own steps that start and end nothing: the tabs and the search.
LEMMA SearchInv ==
  ASSUME FriendsInv,
         \/ FriendsSearch
         \/ \E t \in ListNames : pickTab(t)
  PROVE  FriendsInv' /\ UNCHANGED accountVars
<1> USE DEF FriendsInv
<1>1. /\ UNCHANGED <<accountVars, onFriends, shown, loading, error, dialogVars,
                     sendLoading, job, failures, stale>>
      /\ clicks' \in 0..MaxClicks
      /\ tab' \in ListNames
      /\ UNCHANGED searchVars \/ tab' = tab
  BY Clicked
  DEF FriendsSearch, searchUsers, focus, onClickOutside, type, selectUser, Found, pickTab,
      Click, viewVars, searchVars, FriendsPageTypeOK
<1>2. SearchTypeOK' /\ ResultsInv'
  <2> USE DEF FriendsPageTypeOK, SearchTypeOK, ResultsInv
  <2>1. CASE searchUsers
    <3>1. PICK q : q = [text |-> timer, newest |-> TRUE]
      OBVIOUS
    <3>2. q \in Searches /\ q.text = timer /\ q.newest
      BY <2>1, <3>1 DEF searchUsers, Texts, Searches
    <3>3. searches' = Superseded \cup {q} /\ timer' = None
      BY <2>1, <3>1 DEF searchUsers
    <3>4. Superseded \subseteq Searches /\ \A r \in Superseded : ~r.newest
      BY SupersededSearches
    <3> QED BY <2>1, <3>2, <3>3, <3>4 DEF searchUsers, Texts
  <2>2. CASE focus \/ onClickOutside
    BY <2>2 DEF focus, onClickOutside
  <2>3. ASSUME NEW text \in Texts, type(text)
        PROVE  SearchTypeOK' /\ ResultsInv'
    BY <2>3, OnInputInv DEF type
  <2>4. ASSUME NEW u \in Others, selectUser(u)
        PROVE  SearchTypeOK' /\ ResultsInv'
    BY <2>4, FriendsPageAssumption DEF selectUser, Texts
  <2>5. ASSUME NEW q \in searches, NEW found \in SUBSET Others, Found(q, found)
        PROVE  SearchTypeOK' /\ ResultsInv'
    BY <2>5 DEF Found, Searches
  <2>6. CASE \E t \in ListNames : pickTab(t)
    BY <2>6 DEF pickTab, searchVars
  <2> QED BY <2>1, <2>2, <2>3, <2>4, <2>5, <2>6 DEF FriendsSearch
<1>3. FriendsPageTypeOK'
  BY <1>1, <1>2 DEF FriendsPageTypeOK, SearchTypeOK, dialogVars
<1>4. \A s \in Slots : JobInv(s)' /\ ReadInv(s)'
  BY <1>1 DEF JobInv, ReadInv, ServerLists, accountVars, listVars
<1>5. DialogInv'
  BY <1>1, DialogKept
<1>6. ShownInv'
  BY <1>1 DEF ShownInv, ServerLists, Announced, accountVars, listVars
<1> QED BY <1>1, <1>2, <1>3, <1>4, <1>5, <1>6

-----------------------------------------------------------------------------
(* The dialog, and the functions that are started.                          *)

LEMMA OpenConfirmInv ==
  ASSUME FriendsInv, NEW u \in Others, onRemoveConfirm(u) \/ onRejectConfirm(u)
  PROVE  FriendsInv' /\ UNCHANGED accountVars
<1> USE DEF FriendsInv
<1>1. PICK kind \in Confirmed : openConfirm(kind, u)
  BY DEF onRemoveConfirm, onRejectConfirm, Confirmed
<1>2. /\ UNCHANGED <<accountVars, viewVars, searchVars, sendLoading, job, failures, stale>>
      /\ dialog' = [kind |-> kind, who |-> u] /\ confirmAction' = dialog'
      /\ confirmOpen' = TRUE
  BY <1>1 DEF openConfirm
<1>3. clicks' \in 0..MaxClicks
  BY <1>1, Clicked DEF openConfirm, Click
<1>4. overlapped' = ConfirmedRuns /\ overlapped' \in BOOLEAN
  BY <1>1 DEF openConfirm, ConfirmedRuns
<1>5. dialog' \in Dialogs
  BY <1>2 DEF Dialogs
<1>6. FriendsPageTypeOK'
  BY <1>2, <1>3, <1>4, <1>5 DEF FriendsPageTypeOK, viewVars, searchVars
<1>7. \A s \in Slots : JobInv(s)' /\ ReadInv(s)'
  BY <1>2 DEF JobInv, ReadInv, ServerLists, accountVars, listVars
<1>8. DialogInv'
  BY <1>2, <1>4 DEF DialogInv, ConfirmedRuns, Running
<1>9. ShownInv' /\ ResultsInv'
  BY <1>2, ResultsKept DEF ShownInv, ServerLists, Announced, accountVars, listVars, viewVars
<1> QED BY <1>2, <1>6, <1>7, <1>8, <1>9

LEMMA HandleCancelInv ==
  ASSUME FriendsInv, handleCancel
  PROVE  FriendsInv' /\ UNCHANGED accountVars
<1> USE DEF FriendsInv
<1>1. /\ UNCHANGED <<accountVars, viewVars, dialog, overlapped, searchVars, sendLoading, job,
                     failures, stale>>
      /\ confirmOpen' = FALSE /\ confirmAction' = None
  BY DEF handleCancel
<1>2. clicks' \in 0..MaxClicks
  BY Clicked DEF handleCancel, Click
<1>3. FriendsPageTypeOK'
  BY <1>1, <1>2 DEF FriendsPageTypeOK, viewVars, searchVars, Dialogs
<1>4. \A s \in Slots : JobInv(s)' /\ ReadInv(s)'
  BY <1>1 DEF JobInv, ReadInv, ServerLists, accountVars, listVars
<1>5. DialogInv'
  BY <1>1 DEF DialogInv
<1>6. ShownInv' /\ ResultsInv'
  BY <1>1, ResultsKept DEF ShownInv, ServerLists, Announced, accountVars, listVars, viewVars
<1> QED BY <1>1, <1>3, <1>4, <1>5, <1>6

\* A function that has been started has read nothing yet.
LEMMA BegunInv ==
  ASSUME FriendsInv, NEW s \in Slots, NEW kind \in Requests \cup {"load"},
         NEW who \in Texts, NEW pc \in {"call", "get"}, Begin(s, kind, who, pc),
         pc = "call" => kind \in Requests,
         UNCHANGED listVars
  PROVE  /\ job' \in [Slots -> Jobs]
         /\ \A r \in Slots : JobInv(r)' /\ ReadInv(r)'
         /\ Announced' = Announced
         /\ \A r \in Slots : r # s => job'[r] = job[r]
         /\ job'[s].kind = kind
<1> USE DEF FriendsInv
<1>1. /\ job[s].pc = "idle"
      /\ job' \in [Slots -> Jobs]
      /\ \A r \in Slots \ {s} : job'[r] = job[r]
      /\ job'[s].kind = kind /\ job'[s].who = who /\ job'[s].pc = pc
      /\ job'[s].fresh /\ job'[s].here /\ job'[s].parts = {}
  BY Begun
<1>2. \A r \in Slots : JobInv(r)'
  BY <1>1 DEF JobInv
<1>3. \A r \in Slots : ReadInv(r)'
  BY <1>1 DEF ReadInv, ServerLists, listVars
<1>4. Announced' = Announced
  BY <1>1 DEF Announced
<1> QED BY <1>1, <1>2, <1>3, <1>4

LEMMA FriendsClicksInv ==
  ASSUME FriendsInv, NEW s \in Slots, FriendsClicks(s)
  PROVE  FriendsInv' /\ UNCHANGED accountVars
<1> USE DEF FriendsInv
<1>1. UNCHANGED <<accountVars, listVars, onFriends, shown, tab, dialog, overlapped, failures, stale>>
  BY DEF FriendsClicks, handleConfirm, onSendRequest, retry, onAccept, accountVars, viewVars,
         dialogVars
<1>2. clicks' \in 0..MaxClicks
  BY Clicked DEF FriendsClicks, handleConfirm, onSendRequest, retry, onAccept, Click
<1>3. CASE handleConfirm(s)
  <2>1. /\ UNCHANGED <<viewVars, confirmAction, searchVars, sendLoading>>
        /\ confirmOpen' = FALSE
    BY <1>3 DEF handleConfirm
  <2>2. CASE confirmAction # None
    <3>1. PICK kind, who : kind = confirmAction.kind /\ who = confirmAction.who
      OBVIOUS
    <3>2. kind \in Confirmed /\ kind \in Requests /\ who \in Others /\ who \in Texts
      BY <2>2, <3>1 DEF FriendsPageTypeOK, Dialogs, Confirmed, Requests, Texts
    <3>3. Begin(s, kind, who, "call")
      BY <1>3, <2>2, <3>1 DEF handleConfirm
    <3>4. /\ job' \in [Slots -> Jobs]
          /\ \A r \in Slots : JobInv(r)' /\ ReadInv(r)'
          /\ Announced' = Announced
      BY <1>1, <3>2, <3>3, BegunInv
    <3>5. FriendsPageTypeOK'
      BY <1>1, <1>2, <2>1, <3>4 DEF FriendsPageTypeOK, viewVars, searchVars
    <3>6. DialogInv'
      BY <2>1 DEF DialogInv
    <3>7. ShownInv' /\ ResultsInv'
      BY <1>1, <2>1, <3>4, ResultsKept DEF ShownInv, ServerLists, listVars, viewVars
    <3> QED BY <1>1, <3>4, <3>5, <3>6, <3>7
  <2>3. CASE confirmAction = None
    <3>1. UNCHANGED job
      BY <1>3, <2>3 DEF handleConfirm
    <3>2. FriendsPageTypeOK'
      BY <1>1, <1>2, <2>1, <3>1 DEF FriendsPageTypeOK, viewVars, searchVars
    <3>3. \A r \in Slots : JobInv(r)' /\ ReadInv(r)'
      BY <1>1, <3>1 DEF JobInv, ReadInv, ServerLists, listVars
    <3>4. DialogInv'
      BY <2>1 DEF DialogInv
    <3>5. ShownInv' /\ ResultsInv'
      BY <1>1, <2>1, <3>1, ResultsKept DEF ShownInv, ServerLists, Announced, listVars, viewVars
    <3> QED BY <1>1, <3>2, <3>3, <3>4, <3>5
  <2> QED BY <2>2, <2>3
<1>4. CASE onSendRequest(s)
  <2>1. /\ Begin(s, "send", recipient, "call") /\ recipient \in Texts
        /\ UNCHANGED <<viewVars, dialogVars, recipient, results, searchLoading, timer,
                       searches, stray>>
        /\ sendLoading' = TRUE /\ showDropdown' = FALSE
    BY <1>4 DEF onSendRequest, FriendsPageTypeOK, Texts
  <2>2. "send" \in Requests /\ recipient \in Texts
    BY <2>1 DEF Requests, Texts
  <2>3. PICK who : who = recipient
    OBVIOUS
  <2>4. /\ job' \in [Slots -> Jobs]
        /\ \A r \in Slots : JobInv(r)' /\ ReadInv(r)'
        /\ Announced' = Announced
        /\ \A r \in Slots : r # s => job'[r] = job[r]
        /\ job'[s].kind = "send"
    BY <1>1, <2>1, <2>2, <2>3, BegunInv
  <2>5. FriendsPageTypeOK'
    BY <1>1, <1>2, <2>1, <2>4 DEF FriendsPageTypeOK, viewVars, dialogVars
  <2>6. DialogInv'
    BY <2>1, <2>4, DialogKept DEF Confirmed
  <2>7. ShownInv' /\ ResultsInv'
    BY <1>1, <2>1, <2>4 DEF ShownInv, ResultsInv, ServerLists, listVars, viewVars
  <2> QED BY <1>1, <2>4, <2>5, <2>6, <2>7
<1>5. ASSUME NEW u \in Others, onAccept(s, u)
      PROVE  FriendsInv'
  <2>1. /\ Begin(s, "accept", u, "call")
        /\ UNCHANGED <<viewVars, dialogVars, searchVars, sendLoading>>
    BY <1>5 DEF onAccept
  <2>2. "accept" \in Requests /\ u \in Texts
    BY DEF Requests, Texts
  <2>3. /\ job' \in [Slots -> Jobs]
        /\ \A r \in Slots : JobInv(r)' /\ ReadInv(r)'
        /\ Announced' = Announced
        /\ \A r \in Slots : r # s => job'[r] = job[r]
        /\ job'[s].kind = "accept"
    BY <1>1, <2>1, <2>2, BegunInv
  <2>4. FriendsPageTypeOK'
    BY <1>1, <1>2, <2>1, <2>3 DEF FriendsPageTypeOK, viewVars, dialogVars, searchVars
  <2>5. DialogInv'
    BY <2>1, <2>3, DialogKept DEF Confirmed
  <2>6. ShownInv' /\ ResultsInv'
    BY <1>1, <2>1, <2>3, ResultsKept DEF ShownInv, ServerLists, listVars, viewVars
  <2> QED BY <2>3, <2>4, <2>5, <2>6
<1>6. CASE retry(s)
  <2>1. /\ Begin(s, "load", None, "get") /\ loading' = TRUE /\ error' = FALSE
        /\ UNCHANGED <<dialogVars, searchVars, sendLoading>>
    BY <1>6 DEF retry, StartRefresh
  <2>2. None \in Texts /\ "load" \notin Requests
    BY DEF Requests, Texts
  <2>3. /\ job' \in [Slots -> Jobs]
        /\ \A r \in Slots : JobInv(r)' /\ ReadInv(r)'
        /\ Announced' = Announced
        /\ \A r \in Slots : r # s => job'[r] = job[r]
        /\ job'[s].kind = "load"
    BY <1>1, <2>1, <2>2, BegunInv
  <2>4. FriendsPageTypeOK'
    BY <1>1, <1>2, <2>1, <2>3 DEF FriendsPageTypeOK, dialogVars, searchVars
  <2>5. DialogInv'
    BY <2>1, <2>3, DialogKept DEF Confirmed
  <2>6. ShownInv' /\ ResultsInv'
    BY <2>1, ResultsKept DEF ShownInv
  <2> QED BY <1>1, <2>3, <2>4, <2>5, <2>6
<1> QED BY <1>1, <1>3, <1>4, <1>5, <1>6 DEF FriendsClicks

-----------------------------------------------------------------------------
(* The functions under way.                                                 *)

\* One function goes on, and the lists are the server's as before.
LEMMA JobGoesOn ==
  ASSUME FriendsInv, NEW s \in Slots, NEW j \in Jobs, job' = [job EXCEPT ![s] = j],
         UNCHANGED <<listVars, viewVars, dialogVars, searchVars, sendLoading, stale>>,
         clicks' \in 0..MaxClicks, failures' \in 0..MaxFailures,
         j.pc = "idle" \/ (j.kind = job[s].kind /\ j.who = job[s].who /\ j.here = job[s].here),
         job[s].pc \notin {"idle", "ok"},
         j.pc \in {"idle", "refused", "get", "reply", "failed"},
         j.pc \in {"idle", "refused", "failed"} \/ job[s].here,
         ~j.here => j.pc = "call",
         j.pc = "idle" => j.kind = "none",
         j.pc = "reply" => j.parts = ListNames,
         j.fresh => \A list \in j.parts : j.lists[list] = ServerLists[list]
  PROVE  FriendsInv'
<1> USE DEF FriendsInv
<1>1. /\ job' \in [Slots -> Jobs] /\ job'[s] = j
      /\ \A r \in Slots \ {s} : job'[r] = job[r]
  BY DEF FriendsPageTypeOK
<1>2. FriendsPageTypeOK'
  BY <1>1 DEF FriendsPageTypeOK, viewVars, dialogVars, searchVars
<1>3. \A r \in Slots : JobInv(r)'
  BY <1>1 DEF JobInv, Requests
<1>4. \A r \in Slots : ReadInv(r)'
  BY <1>1 DEF ReadInv, ServerLists, listVars
<1>5. DialogInv'
  <2>1. \A r \in Slots :
           job'[r].pc # "idle" /\ job'[r].here /\ job'[r].kind \in Confirmed =>
             job[r].pc # "idle" /\ job[r].here /\ job[r].kind \in Confirmed
    BY <1>1
  <2> QED BY <2>1, DialogKept
<1>6. Announced' = Announced
  BY <1>1 DEF Announced
<1>7. ShownInv' /\ ResultsInv'
  BY <1>6, ShownKept, ResultsKept DEF viewVars
<1> QED BY <1>2, <1>3, <1>4, <1>5, <1>7

LEMMA ReadsInv ==
  ASSUME AccountTypeOK, FriendsInv, NEW s \in Slots,
         lose(s) \/ \E list \in ListNames : getFriendsComposite(s, list)
  PROVE  FriendsInv' /\ UNCHANGED accountVars
<1> USE DEF FriendsInv
<1>1. job[s] \in Jobs /\ job[s].lists \in Lists /\ JobInv(s) /\ ReadInv(s)
  BY DEF FriendsPageTypeOK, Jobs
<1>2. clicks \in 0..MaxClicks /\ failures \in 0..MaxFailures
  BY DEF FriendsPageTypeOK
<1>3. ASSUME NEW list \in ListNames, getFriendsComposite(s, list)
      PROVE  FriendsInv' /\ UNCHANGED accountVars
  <2>1. PICK l : l = [job[s].lists EXCEPT ![list] = ServerLists[list]]
    OBVIOUS
  <2>2. /\ l \in Lists /\ l[list] = ServerLists[list]
        /\ \A other \in ListNames \ {list} : l[other] = job[s].lists[other]
    <3>1. PICK lists \in Lists : lists = job[s].lists
      BY <1>1
    <3>2. l = [lists EXCEPT ![list] = ServerLists[list]]
      BY <2>1, <3>1
    <3>3. /\ l \in Lists /\ l[list] = ServerLists[list]
          /\ \A other \in ListNames \ {list} : l[other] = lists[other]
      <4> USE DEF Lists, ListNames, ServerLists, AccountTypeOK
      <4>1. CASE list = "friends"
        BY <3>2, <4>1
      <4>2. CASE list = "incoming"
        BY <3>2, <4>2
      <4>3. CASE list = "outgoing"
        BY <3>2, <4>3
      <4> QED BY <4>1, <4>2, <4>3
    <3> QED BY <3>1, <3>3
  <2>3. PICK parts : parts = job[s].parts \cup {list}
    OBVIOUS
  <2>4. parts \subseteq ListNames
    BY <1>1, <2>3 DEF Jobs
  <2>5. PICK pc \in {"get", "reply"} : pc = IF parts = ListNames THEN "reply" ELSE "get"
    OBVIOUS
  <2>6. PICK j : j = [job[s] EXCEPT !.parts = parts, !.lists = l, !.pc = pc]
    OBVIOUS
  <2>7. /\ j \in Jobs /\ j.pc = pc /\ j.lists = l /\ j.parts = parts
        /\ j.kind = job[s].kind /\ j.who = job[s].who /\ j.here = job[s].here
        /\ j.fresh = job[s].fresh
    BY <1>1, <2>2, <2>4, <2>6 DEF Jobs
  <2>8. job' = [job EXCEPT ![s] = j]
    BY <1>1, <1>3, <2>1, <2>3, <2>5, <2>6 DEF getFriendsComposite, FriendsPageTypeOK, Jobs
  <2>9. job[s].pc = "get" /\ job[s].here
    BY <1>1, <1>3 DEF getFriendsComposite, JobInv
  <2>10. UNCHANGED <<accountVars, listVars, viewVars, dialogVars, searchVars, sendLoading, clicks,
                     failures, stale>>
    BY <1>3 DEF getFriendsComposite, accountVars
  <2>11. j.fresh => \A other \in j.parts : j.lists[other] = ServerLists[other]
    BY <1>1, <2>2, <2>3, <2>4, <2>7 DEF ReadInv
  <2> QED BY <1>2, <2>5, <2>7, <2>8, <2>9, <2>10, <2>11, JobGoesOn
<1>5. CASE lose(s)
  <2>1. PICK pc \in {"refused", "failed"} : pc = IF job[s].pc = "call" THEN "refused" ELSE "failed"
    OBVIOUS
  <2>2. PICK j : j = IF job[s].here THEN [job[s] EXCEPT !.pc = pc] ELSE Idle
    OBVIOUS
  <2>3. /\ j \in Jobs /\ j.here
        /\ \/ j.pc = "idle" /\ j.kind = "none"
              /\ j.parts = {}
           \/ /\ j.pc = pc /\ j.kind = job[s].kind /\ j.who = job[s].who
              /\ j.here = job[s].here /\ j.fresh = job[s].fresh
              /\ j.parts = job[s].parts /\ j.lists = job[s].lists
    BY <1>1, <2>1, <2>2, IdleJob DEF Jobs
  <2>4. job' = [job EXCEPT ![s] = j]
    BY <1>1, <1>5, <2>1, <2>2 DEF lose, FriendsPageTypeOK, Jobs
  <2>5. job[s].pc \in {"call", "get"}
    BY <1>5 DEF lose
  <2>6. failures' \in 0..MaxFailures
    BY <1>5, Failed DEF lose
  <2>7. UNCHANGED <<accountVars, listVars, viewVars, dialogVars, searchVars, sendLoading, clicks,
                    stale>>
    BY <1>5 DEF lose, accountVars
  <2>8. j.fresh => \A list \in j.parts : j.lists[list] = ServerLists[list]
    BY <1>1, <2>3 DEF ReadInv
  <2> QED BY <1>2, <2>1, <2>3, <2>4, <2>5, <2>6, <2>7, <2>8, JobGoesOn
<1> QED BY <1>3, <1>5

\* The answer to an action starts a refresh.
LEMMA AnsweredInv ==
  ASSUME FriendsInv, NEW s \in Slots, answered(s)
  PROVE  FriendsInv' /\ UNCHANGED accountVars
<1> USE DEF FriendsInv
<1>1. /\ job[s].pc = "ok" /\ loading' = TRUE /\ error' = FALSE
      /\ job' = [job EXCEPT ![s].pc = "get"]
      /\ UNCHANGED <<accountVars, listVars, onFriends, shown, tab, dialogVars, sendLoading,
                     clicks, failures, stale>>
  BY DEF answered, StartRefresh, accountVars
<1>2. PICK j : j = [job[s] EXCEPT !.pc = "get"]
  OBVIOUS
<1>3. job[s] \in Jobs /\ JobInv(s)
  BY DEF FriendsPageTypeOK
<1>4. /\ j \in Jobs /\ j.pc = "get" /\ j.kind = job[s].kind /\ j.who = job[s].who
      /\ j.here = job[s].here /\ j.fresh = job[s].fresh /\ j.parts = job[s].parts
      /\ j.lists = job[s].lists
  BY <1>2, <1>3 DEF Jobs
<1>5. job' = [job EXCEPT ![s] = j]
  BY <1>1, <1>2 DEF FriendsPageTypeOK
<1>6. /\ job' \in [Slots -> Jobs] /\ job'[s] = j
      /\ \A r \in Slots \ {s} : job'[r] = job[r]
  BY <1>4, <1>5 DEF FriendsPageTypeOK
<1>7. \A r \in Slots : JobInv(r)' /\ ReadInv(r)'
  <2>1. \A r \in Slots : JobInv(r)'
    BY <1>1, <1>3, <1>4, <1>6 DEF JobInv
  <2>2. \A r \in Slots : ReadInv(r)'
    BY <1>1, <1>4, <1>6 DEF ReadInv, ServerLists, listVars
  <2> QED BY <2>1, <2>2
<1>8. SearchTypeOK' /\ ResultsInv'
  <2>1. CASE job[s].kind = "send" /\ recipient # None
    BY <2>1, OnInputInv DEF answered, Texts
  <2>2. CASE job[s].kind = "send" /\ recipient = None
    BY <2>2 DEF answered, FriendsPageTypeOK, SearchTypeOK, ResultsInv
  <2>3. CASE job[s].kind # "send"
    BY <2>3 DEF answered, FriendsPageTypeOK, SearchTypeOK, ResultsInv, searchVars
  <2> QED BY <2>1, <2>2, <2>3
<1>9. FriendsPageTypeOK'
  BY <1>1, <1>6, <1>8 DEF FriendsPageTypeOK, SearchTypeOK, dialogVars
<1>10. DialogInv'
  <2>1. \A r \in Slots :
           job'[r].pc # "idle" /\ job'[r].here /\ job'[r].kind \in Confirmed =>
             job[r].pc # "idle" /\ job[r].here /\ job[r].kind \in Confirmed
    BY <1>1, <1>4, <1>6
  <2> QED BY <1>1, <2>1, DialogKept
<1>11. ShownInv'
  BY <1>1 DEF ShownInv
<1> QED BY <1>1, <1>7, <1>8, <1>9, <1>10, <1>11

\* A function that ends takes the dialog's action only if it ran when the dialog
\* was opened.
LEMMA FinishInv ==
  ASSUME FriendsInv, NEW s \in Slots, job[s].pc \in {"refused", "reply", "failed"},
         Finish(s), shown' \in Lists, loading' \in BOOLEAN, error' \in BOOLEAN,
         stale' \in BOOLEAN, ShownInv'
  PROVE  FriendsInv'
<1> USE DEF FriendsInv
<1>1. /\ job' = [job EXCEPT ![s] = Idle]
      /\ confirmAction' = IF job[s].kind \in Confirmed THEN None ELSE confirmAction
      /\ sendLoading' = (sendLoading /\ job[s].kind # "send")
      /\ UNCHANGED <<accountVars, listVars, onFriends, tab, confirmOpen, dialog, overlapped,
                     searchVars, clicks, failures>>
  BY DEF Finish, EndConfirmed, accountVars
<1>2. /\ job' \in [Slots -> Jobs] /\ job'[s] = Idle
      /\ \A r \in Slots \ {s} : job'[r] = job[r]
  BY <1>1, IdleJob DEF FriendsPageTypeOK
<1>3. sendLoading' \in BOOLEAN /\ confirmAction' \in Dialogs
  BY <1>1 DEF FriendsPageTypeOK, Dialogs
<1>4. FriendsPageTypeOK'
  BY <1>1, <1>2, <1>3 DEF FriendsPageTypeOK, searchVars
<1>5. \A r \in Slots : JobInv(r)'
  BY <1>2, IdleJob DEF JobInv, Requests
<1>6. \A r \in Slots : ReadInv(r)'
  BY <1>1, <1>2, IdleJob DEF ReadInv, ServerLists, listVars
<1>7. DialogInv'
  <2>1. ConfirmedRuns' => ConfirmedRuns
    BY <1>2, IdleJob DEF ConfirmedRuns, Running
  <2>2. job[s].kind \in Confirmed => ConfirmedRuns
    BY DEF ConfirmedRuns, Running, JobInv
  <2> QED BY <1>1, <2>1, <2>2 DEF DialogInv
<1>8. ResultsInv'
  BY <1>1, ResultsKept
<1> QED BY <1>4, <1>5, <1>6, <1>7, <1>8

LEMMA EndsInv ==
  ASSUME AccountTypeOK, FriendsInv, NEW s \in Slots,
         refused(s) \/ refreshed(s) \/ notRefreshed(s)
  PROVE  FriendsInv' /\ UNCHANGED accountVars
<1> USE DEF FriendsInv
<1>1. /\ job' = [job EXCEPT ![s] = Idle]
      /\ UNCHANGED <<accountVars, listVars, onFriends>>
      /\ Finish(s) /\ job[s].pc \in {"refused", "reply", "failed"}
  BY DEF refused, refreshed, notRefreshed, Finish, accountVars
<1>2. job[s].pc # "ok" => (Announced => Announced')
  BY <1>1 DEF Announced, FriendsPageTypeOK
<1>3. shown' \in Lists /\ loading' \in BOOLEAN /\ error' \in BOOLEAN /\ stale' \in BOOLEAN
  <2>1. job[s].lists \in Lists /\ job[s].fresh \in BOOLEAN
    BY DEF FriendsPageTypeOK, Jobs
  <2> QED BY <2>1 DEF refused, refreshed, notRefreshed, FriendsPageTypeOK
<1>4. ShownInv'
  <2>1. CASE refused(s)
    <3>1. /\ UNCHANGED <<shown, loading, stale>> /\ (error => error')
      BY <2>1 DEF refused, FriendsPageTypeOK
    <3> QED BY <1>1, <1>2, <3>1, ShownKept
  <2>2. CASE refreshed(s)
    <3>1. ~stale' => shown' = ServerLists
      <4>1. job[s].lists \in Lists /\ job[s].parts = ListNames
        BY <2>2 DEF refreshed, FriendsPageTypeOK, Jobs, JobInv
      <4>2. job[s].fresh => job[s].lists = ServerLists
        BY <4>1 DEF ReadInv, Lists, ListNames, ServerLists
      <4> QED BY <2>2, <4>2 DEF refreshed
    <3> QED BY <1>1, <3>1 DEF ShownInv, ServerLists, listVars
  <2>3. CASE notRefreshed(s)
    BY <2>3 DEF notRefreshed, ShownInv
  <2> QED BY <2>1, <2>2, <2>3
<1> QED BY <1>1, <1>3, <1>4, FinishInv

-----------------------------------------------------------------------------
(* The account: what its user and the others do to the lists.                *)

(* Friends become former friends, and stay it.                               *)
NoneForgotten == friends \cup former \subseteq friends' \cup former' /\ former \subseteq former'

LEMMA Executed ==
  ASSUME AccountTypeOK, NEW j \in Jobs, j.kind \in Requests,
         NEW ok \in BOOLEAN, Execute(j, ok)
  PROVE  /\ AccountTypeOK' /\ UNCHANGED sharingVars /\ (listVars' # listVars => ok)
         /\ NoneForgotten
<1> USE DEF AccountTypeOK, sharingVars, listVars, NoneForgotten
<1>1. UNCHANGED <<asked, serverMode, selected, except, events>>
  BY DEF Execute
<1>2. CASE j.kind = "send"
  <2>1. sendFriendRequest(j.who, ok)
    BY <1>2 DEF Execute
  <2> QED BY <1>1, <2>1 DEF sendFriendRequest, Known
<1>3. CASE j.kind = "accept"
  <2>1. acceptFriendRequest(j.who, ok)
    BY <1>3 DEF Execute
  <2> QED BY <1>1, <2>1 DEF acceptFriendRequest
<1>4. CASE j.kind = "reject"
  <2>1. rejectFriendRequest(j.who, ok)
    BY <1>4 DEF Execute
  <2> QED BY <1>1, <2>1 DEF rejectFriendRequest
<1>5. CASE j.kind = "remove"
  <2>1. removeFriend(j.who, ok)
    BY <1>5 DEF Execute
  <2> QED BY <1>1, <2>1 DEF removeFriend
<1> QED BY <1>2, <1>3, <1>4, <1>5 DEF Requests

LEMMA OtherActsTyped ==
  ASSUME AccountTypeOK, OtherActs
  PROVE  AccountTypeOK' /\ UNCHANGED sharingVars /\ NoneForgotten
<1> USE DEF AccountTypeOK, sharingVars, NoneForgotten
<1>1. events' \in 0..MaxEvents
  BY AccountAssumption DEF OtherActs
<1>2. UNCHANGED <<serverMode, selected, except>>
  BY DEF OtherActs
<1>3. PICK u \in Others : OtherSends(u) \/ OtherAnswers(u) \/ OtherRemoves(u)
  BY DEF OtherActs
<1>4. CASE OtherSends(u)
  BY <1>1, <1>2, <1>4 DEF OtherSends, Known
<1>5. CASE OtherAnswers(u)
  BY <1>1, <1>2, <1>5 DEF OtherAnswers
<1>6. CASE OtherRemoves(u)
  BY <1>1, <1>2, <1>6 DEF OtherRemoves, removeFriend
<1> QED BY <1>3, <1>4, <1>5, <1>6

\* Refreshes that have begun to read are outdated by every change of the lists.
LEMMA JobsAfterChange ==
  ASSUME FriendsInv, NEW jobs,
         jobs = IF listVars' = listVars THEN job ELSE Outdated(job)
  PROVE  /\ jobs \in [Slots -> Jobs]
         /\ \A s \in Slots :
              /\ jobs[s].kind = job[s].kind /\ jobs[s].who = job[s].who
              /\ jobs[s].pc = job[s].pc /\ jobs[s].here = job[s].here
              /\ jobs[s].parts = job[s].parts
              /\ jobs[s].fresh =>
                   \A list \in jobs[s].parts : jobs[s].lists[list] = ServerLists'[list]
<1> USE DEF FriendsInv
<1>1. CASE listVars' = listVars
  BY <1>1 DEF FriendsPageTypeOK, ReadInv, ServerLists, listVars
<1>2. CASE listVars' # listVars
  BY <1>2, OutdatedJobs DEF FriendsPageTypeOK
<1> QED BY <1>1, <1>2

LEMMA ServeInv ==
  ASSUME AccountTypeOK, FriendsInv, NEW s \in Slots, NEW ok \in BOOLEAN,
         NEW heard \in BOOLEAN, serve(s, ok, heard)
  PROVE  FriendsInv' /\ AccountTypeOK' /\ UNCHANGED sharingVars /\ NoneForgotten
<1> USE DEF FriendsInv
<1>1. job[s] \in Jobs /\ job[s].pc = "call" /\ job[s].kind \in Requests
  BY DEF serve, FriendsPageTypeOK, JobInv
<1>2. /\ AccountTypeOK' /\ UNCHANGED sharingVars /\ (listVars' # listVars => ok)
      /\ NoneForgotten
  BY <1>1, Executed DEF serve
<1>3. PICK jobs : jobs = IF listVars' = listVars THEN job ELSE Outdated(job)
  OBVIOUS
<1>4. /\ jobs \in [Slots -> Jobs]
      /\ \A r \in Slots :
           /\ jobs[r].kind = job[r].kind /\ jobs[r].who = job[r].who
           /\ jobs[r].pc = job[r].pc /\ jobs[r].here = job[r].here
           /\ jobs[r].parts = job[r].parts
           /\ jobs[r].fresh =>
                \A list \in jobs[r].parts : jobs[r].lists[list] = ServerLists'[list]
  BY <1>3, JobsAfterChange
<1>5. PICK pc \in {"ok", "refused"} : pc = IF ok /\ heard THEN "ok" ELSE "refused"
  OBVIOUS
<1>6. PICK j : j = IF job[s].here THEN [jobs[s] EXCEPT !.pc = pc] ELSE Idle
  OBVIOUS
<1>7. /\ j \in Jobs /\ j.here
      /\ \/ ~job[s].here /\ j.pc = "idle" /\ j.kind = "none" /\ j.parts = {}
         \/ /\ job[s].here /\ j.pc = pc /\ j.kind = job[s].kind /\ j.who = job[s].who
            /\ j.parts = jobs[s].parts /\ j.lists = jobs[s].lists /\ j.fresh = jobs[s].fresh
  BY <1>4, <1>6, IdleJob DEF Jobs
<1>8. /\ job' = [jobs EXCEPT ![s] = j]
      /\ stale' = (stale \/ (listVars' # listVars /\ ~(job[s].here /\ heard)))
      /\ failures' = IF heard THEN failures ELSE failures + 1
      /\ heard \/ failures < MaxFailures
      /\ UNCHANGED <<viewVars, dialogVars, searchVars, sendLoading, clicks>>
  BY <1>3, <1>4, <1>5, <1>6 DEF serve
<1>9. /\ job' \in [Slots -> Jobs] /\ job'[s] = j
      /\ \A r \in Slots \ {s} : job'[r] = jobs[r]
  BY <1>4, <1>7, <1>8
<1>10. FriendsPageTypeOK'
  <2>1. failures' \in 0..MaxFailures
    BY <1>8, Failed DEF FriendsPageTypeOK
  <2>2. stale' \in BOOLEAN
    BY <1>8 DEF FriendsPageTypeOK
  <2> QED BY <1>8, <1>9, <2>1, <2>2 DEF FriendsPageTypeOK, viewVars, dialogVars, searchVars
<1>11. \A r \in Slots : JobInv(r)'
  BY <1>1, <1>4, <1>7, <1>9 DEF JobInv, Requests
<1>12. \A r \in Slots : ReadInv(r)'
  BY <1>4, <1>7, <1>9 DEF ReadInv
<1>13. DialogInv'
  <2>1. \A r \in Slots :
           job'[r].pc # "idle" /\ job'[r].here /\ job'[r].kind \in Confirmed =>
             job[r].pc # "idle" /\ job[r].here /\ job[r].kind \in Confirmed
    BY <1>1, <1>4, <1>7, <1>9
  <2> QED BY <1>8, <2>1, DialogKept
<1>14. ShownInv'
  <2>1. Announced => Announced'
    BY <1>1, <1>4, <1>9 DEF Announced
  <2>2. CASE listVars' = listVars
    BY <1>8, <2>1, <2>2 DEF ShownInv, ServerLists, listVars, viewVars, FriendsPageTypeOK
  <2>3. CASE listVars' # listVars
    <3>1. ~stale' => job'[s].pc = "ok"
      BY <1>2, <1>5, <1>7, <1>8, <1>9, <2>3
    <3> QED BY <3>1 DEF ShownInv, Announced
  <2> QED BY <2>2, <2>3
<1>15. ResultsInv'
  BY <1>8, ResultsKept
<1> QED BY <1>2, <1>10, <1>11, <1>12, <1>13, <1>14, <1>15

LEMMA OthersActInv ==
  ASSUME AccountTypeOK, FriendsInv, OthersAct
  PROVE  FriendsInv' /\ AccountTypeOK' /\ UNCHANGED sharingVars /\ NoneForgotten
<1> USE DEF FriendsInv
<1>1. AccountTypeOK' /\ UNCHANGED sharingVars /\ NoneForgotten
  BY OtherActsTyped DEF OthersAct
<1>2. /\ job' = Outdated(job) /\ stale' = TRUE
      /\ UNCHANGED <<viewVars, dialogVars, searchVars, sendLoading, clicks, failures>>
  BY DEF OthersAct
<1>3. /\ job' \in [Slots -> Jobs]
      /\ \A s \in Slots :
           /\ job'[s].kind = job[s].kind /\ job'[s].who = job[s].who
           /\ job'[s].pc = job[s].pc /\ job'[s].here = job[s].here
           /\ job'[s].parts = job[s].parts /\ (job'[s].fresh => job'[s].parts = {})
  BY <1>2, OutdatedJobs DEF FriendsPageTypeOK
<1>4. FriendsPageTypeOK'
  BY <1>2, <1>3 DEF FriendsPageTypeOK, viewVars, dialogVars, searchVars
<1>5. \A s \in Slots : JobInv(s)'
  BY <1>3 DEF JobInv
<1>6. \A s \in Slots : ReadInv(s)'
  BY <1>3 DEF ReadInv
<1>7. DialogInv'
  BY <1>2, <1>3, DialogKept
<1>8. ShownInv' /\ ResultsInv'
  BY <1>2, ResultsKept DEF ShownInv
<1> QED BY <1>1, <1>4, <1>5, <1>6, <1>7, <1>8

LEMMA FriendsPageStep ==
  ASSUME AccountTypeOK, FriendsInv, FriendsPageNext
  PROVE  FriendsInv' /\ AccountTypeOK' /\ UNCHANGED sharingVars /\ NoneForgotten
<1>1. ASSUME UNCHANGED accountVars
      PROVE  AccountTypeOK' /\ UNCHANGED sharingVars /\ NoneForgotten
  BY <1>1 DEF accountVars, listVars, sharingVars, AccountTypeOK, NoneForgotten
<1>2. CASE FriendsSearch \/ \E t \in ListNames : pickTab(t)
  BY <1>1, <1>2, SearchInv
<1>3. CASE \E u \in Others : onRemoveConfirm(u) \/ onRejectConfirm(u)
  BY <1>1, <1>3, OpenConfirmInv
<1>4. CASE handleCancel
  BY <1>1, <1>4, HandleCancelInv
<1>5. CASE OthersAct
  BY <1>5, OthersActInv
<1>6. CASE \E s \in Slots : FriendsClicks(s)
  BY <1>1, <1>6, FriendsClicksInv
<1>7. CASE \E s \in Slots : FriendsSteps(s)
  BY <1>1, <1>7, ReadsInv, AnsweredInv, EndsInv, ServeInv DEF FriendsSteps
<1> QED BY <1>2, <1>3, <1>4, <1>5, <1>6, <1>7 DEF FriendsPageNext

-----------------------------------------------------------------------------
(* From one page to the other.                                              *)

LEMMA MountFriendsInv ==
  ASSUME FriendsInv, NEW s \in Slots, mountFriends(s), OneClick
  PROVE  FriendsInv' /\ UNCHANGED accountVars
<1> USE DEF FriendsInv
<1>1. /\ Begin(s, "load", None, "get") /\ loading' = TRUE /\ error' = FALSE
      /\ UNCHANGED <<accountVars, listVars, failures>>
      /\ onFriends' = TRUE /\ shown' = NoLists /\ tab' = "friends"
      /\ confirmOpen' = FALSE /\ dialog' = None /\ confirmAction' = None
      /\ overlapped' = FALSE
      /\ recipient' = None /\ results' = {} /\ searchLoading' = FALSE
      /\ showDropdown' = FALSE /\ timer' = None /\ searches' = {} /\ stray' = FALSE
      /\ sendLoading' = FALSE /\ stale' = FALSE
  BY DEF mountFriends, NewPage, StartRefresh, accountVars
<1>2. None \in Texts /\ None \in Dialogs /\ "load" \notin Requests /\ NoLists \in Lists
  BY DEF Requests, Texts, Dialogs, NoLists, Lists
<1>3. job' \in [Slots -> Jobs] /\ \A r \in Slots : JobInv(r)' /\ ReadInv(r)'
  BY <1>1, <1>2, BegunInv
<1>4. clicks' \in 0..MaxClicks
  BY Clicked DEF OneClick
<1>5. FriendsPageTypeOK'
  BY <1>1, <1>2, <1>3, <1>4 DEF FriendsPageTypeOK, ListNames
<1>6. DialogInv' /\ ShownInv' /\ ResultsInv'
  BY <1>1 DEF DialogInv, ShownInv, ResultsInv
<1> QED BY <1>1, <1>3, <1>5, <1>6

LEMMA UnmountFriendsInv ==
  ASSUME FriendsInv, unmountFriends, OneClick
  PROVE  FriendsInv' /\ UNCHANGED accountVars
<1> USE DEF FriendsInv
<1> DEFINE gone(s) == [job[s] EXCEPT !.here = FALSE]
           j(s) == IF job[s].pc = "call" THEN gone(s) ELSE Idle
<1>1. /\ job' = [s \in Slots |-> j(s)] /\ loading' = TRUE /\ error' = FALSE
      /\ UNCHANGED <<accountVars, listVars, failures>>
      /\ onFriends' = FALSE /\ shown' = NoLists /\ tab' = "friends"
      /\ confirmOpen' = FALSE /\ dialog' = None /\ confirmAction' = None
      /\ overlapped' = FALSE
      /\ recipient' = None /\ results' = {} /\ searchLoading' = FALSE
      /\ showDropdown' = FALSE /\ timer' = None /\ searches' = {} /\ stray' = FALSE
      /\ sendLoading' = FALSE /\ stale' = FALSE
  BY DEF unmountFriends, NewPage, StartRefresh, accountVars
<1>2. ASSUME NEW s \in Slots
      PROVE  /\ j(s) \in Jobs
             /\ \/ j(s).pc = "idle" /\ j(s).kind = "none" /\ j(s).here
                \/ /\ j(s).pc = "call" /\ job[s].pc = "call" /\ j(s).kind = job[s].kind
                   /\ j(s).who = job[s].who /\ j(s).fresh = job[s].fresh
                   /\ j(s).parts = job[s].parts /\ j(s).lists = job[s].lists
             /\ j(s).pc = "idle" => j(s).parts = {}
  <2>1. job[s] \in Jobs
    BY DEF FriendsPageTypeOK
  <2>2. gone(s) \in Jobs /\ gone(s).pc = job[s].pc /\ gone(s).kind = job[s].kind
        /\ gone(s).who = job[s].who /\ gone(s).fresh = job[s].fresh
        /\ gone(s).parts = job[s].parts /\ gone(s).lists = job[s].lists
    BY <2>1 DEF Jobs
  <2> HIDE DEF gone
  <2> QED BY <2>2, IdleJob
<1> HIDE DEF j
<1>3. \A s \in Slots : job'[s] = j(s)
  BY <1>1
<1>4. job' \in [Slots -> Jobs]
  BY <1>1, <1>2
<1>5. clicks' \in 0..MaxClicks
  BY Clicked DEF OneClick
<1>6. FriendsPageTypeOK'
  <2>1. None \in Texts /\ None \in Dialogs /\ NoLists \in Lists
    BY DEF Texts, Dialogs, NoLists, Lists
  <2> QED BY <1>1, <1>4, <1>5, <2>1 DEF FriendsPageTypeOK, ListNames
<1>7. \A s \in Slots : JobInv(s)' /\ ReadInv(s)'
  BY <1>1, <1>2, <1>3 DEF JobInv, ReadInv, Requests, ServerLists, listVars
<1>8. DialogInv' /\ ShownInv' /\ ResultsInv'
  BY <1>1 DEF DialogInv, ShownInv, ResultsInv
<1> QED BY <1>1, <1>4, <1>6, <1>7, <1>8

\* What happens on the Settings page does not concern the Friends page.
LEMMA FriendsKept ==
  ASSUME FriendsInv, UNCHANGED <<otherPageVars, listVars>>,
         clicks' \in 0..MaxClicks, failures' \in 0..MaxFailures
  PROVE  FriendsInv'
<1> USE DEF FriendsInv, otherPageVars, viewVars, dialogVars
<1>1. FriendsPageTypeOK'
  BY DEF FriendsPageTypeOK, searchVars
<1>2. \A s \in Slots : JobInv(s)' /\ ReadInv(s)'
  BY DEF JobInv, ReadInv, ServerLists, listVars
<1>3. DialogInv'
  BY DialogKept
<1>4. ShownInv' /\ ResultsInv'
  BY ResultsKept DEF ShownInv, ServerLists, Announced, listVars
<1> QED BY <1>1, <1>2, <1>3, <1>4

-----------------------------------------------------------------------------
(* The load of the Settings page.                                           *)

LEMMA NoLoadTyped ==
  /\ NoLoad \in Loads /\ NoLoad.parts = {} /\ NoLoad.picked \in Picks /\ NoLoad.friends = {}
  /\ \A m \in ListModes : NoLoad.picked[m] = {}
BY DEF NoLoad, Loads, Picks, Modes

\* A load that starts has read nothing, and no save is under way.
LEMMA StartLoadInv ==
  ASSUME SettingsInv, StartLoad, onSettings', \A v \in saves : ~v.here,
         UNCHANGED saves, pageMode' \in Modes, picked' \in Picks, pageFriends' = {},
         picked' = picked \/ picked' = NoLoad.picked
  PROVE  SettingsInv'
<1> USE DEF SettingsInv
<1>1. /\ pageLoading' = TRUE /\ pageError' = FALSE /\ load' = NoLoad
      /\ edited' = {} /\ overtaken' = FALSE /\ missing' = {} /\ lapsed' = FALSE
  BY DEF StartLoad
<1>2. SettingsPageTypeOK'
  BY <1>1, NoLoadTyped DEF SettingsPageTypeOK
<1>3. SavesInv'
  BY <1>1 DEF SavesInv, saving
<1>4. LoadInv'
  BY <1>1, NoLoadTyped DEF LoadInv
<1>5. ModeInv' /\ PickedInv'
  BY <1>1 DEF ModeInv, PickedInv, Offers
<1>6. MissingInv'
  BY <1>1 DEF MissingInv
<1>7. FormerInv'
  BY <1>1, NoLoadTyped DEF FormerInv, Met, StartLoad, accountVars, listVars, sharingVars
<1>8. BlockInv'
  BY <1>1 DEF BlockInv, Offers
<1> QED BY <1>2, <1>3, <1>4, <1>5, <1>6, <1>7, <1>8

LEMMA MountSettingsInv ==
  ASSUME SettingsInv, mountSettings
  PROVE  SettingsInv' /\ UNCHANGED accountVars
<1>1. \A v \in saves : ~v.here
  BY DEF SettingsInv, SavesInv, mountSettings, Offers, saving
<1>2. "EVERYONE" \in Modes
  BY DEF Modes
<1> QED BY <1>1, <1>2, StartLoadInv, NoLoadTyped DEF mountSettings, NewSettings, StartLoad

LEMMA ReloadInv ==
  ASSUME SettingsInv, reload
  PROVE  SettingsInv' /\ UNCHANGED accountVars
<1>1. \A v \in saves : ~v.here
  BY DEF SettingsInv, SavesInv, reload, Offers, saving
<1>2. pageFriends = {}
  BY DEF SettingsInv, MissingInv, reload
<1> QED BY <1>1, <1>2, StartLoadInv DEF reload, StartLoad, SettingsInv, SettingsPageTypeOK

LEMMA UnmountSettingsInv ==
  ASSUME SettingsInv, unmountSettings
  PROVE  SettingsInv' /\ UNCHANGED accountVars
<1> USE DEF SettingsInv
<1> DEFINE gone(v) == [v EXCEPT !.here = FALSE]
<1>1. /\ onSettings' = FALSE /\ load' = NoLoad /\ missing' = {}
      /\ saves' = {gone(v) : v \in {w \in saves : w.pc = "call"}}
      /\ pageLoading' = TRUE /\ pageError' = FALSE /\ pageMode' = "EVERYONE"
      /\ pageFriends' = {} /\ picked' = NoLoad.picked
      /\ edited' = {} /\ overtaken' = FALSE /\ lapsed' = FALSE
      /\ UNCHANGED accountVars
  BY DEF unmountSettings, NewSettings, StartLoad
<1>2. ASSUME NEW v \in saves
      PROVE  /\ gone(v) \in Saves /\ ~gone(v).here /\ gone(v).kind = v.kind
             /\ gone(v).mode = v.mode /\ gone(v).ids = v.ids
  <2>1. v \in Saves
    BY DEF SettingsPageTypeOK
  <2> QED BY <2>1 DEF Saves
<1> HIDE DEF gone
<1>3. \A v \in saves' : /\ v \in Saves /\ ~v.here
                        /\ v.kind = "list" => v.mode \in ListModes
                        /\ Met(v.ids)
  BY <1>1, <1>2 DEF SavesInv, FormerInv
<1>4. SettingsPageTypeOK'
  BY <1>1, <1>3, NoLoadTyped DEF SettingsPageTypeOK, Modes
<1>5. SavesInv'
  BY <1>3 DEF SavesInv, saving
<1>6. LoadInv' /\ ModeInv' /\ PickedInv' /\ MissingInv'
  BY <1>1 DEF LoadInv, Loading, ModeInv, PickedInv, MissingInv, Offers
<1>7. FormerInv'
  BY <1>1, <1>3, NoLoadTyped DEF FormerInv, Met, accountVars, listVars, sharingVars
<1>8. BlockInv'
  BY <1>1 DEF BlockInv, Offers
<1> QED BY <1>1, <1>4, <1>5, <1>6, <1>7, <1>8

\* The answers of the load.
LEMMA ReadPartsInv ==
  ASSUME AccountTypeOK, SettingsInv,
         readPageFriends \/ \E field \in Fields : readSharing(field)
  PROVE  SettingsInv' /\ UNCHANGED accountVars
<1> USE DEF SettingsInv
<1>1. /\ Loading
      /\ UNCHANGED <<accountVars, onSettings, pageLoading, pageError, pageMode, pageFriends,
                     picked, saves, edited, overtaken, missing>>
  BY DEF readSharing, readPageFriends
<1>2. UNCHANGED <<serverMode, selected, except, friends, former>>
  BY <1>1 DEF accountVars, sharingVars, listVars
<1>3. load \in Loads
  BY DEF SettingsPageTypeOK
<1>4. ~Offers /\ ~Offers' /\ pageFriends = {} /\ missing = {}
  BY <1>1 DEF Offers, Loading, MissingInv
<1>5. SavesInv' /\ ModeInv' /\ PickedInv' /\ MissingInv' /\ BlockInv'
  BY <1>1, <1>4 DEF SavesInv, saving, ModeInv, PickedInv, MissingInv, BlockInv
<1>6. ASSUME NEW field \in Fields, readSharing(field)
      PROVE  SettingsInv'
  <2>1. PICK mode : mode = IF field = "mode" THEN serverMode ELSE load.mode
    OBVIOUS
  <2>2. PICK ids : ids = [m \in ListModes |-> IF m = field THEN ServerPicks[m] ELSE load.picked[m]]
    OBVIOUS
  <2>3. PICK p, l : /\ p = load.parts \cup {field}
                    /\ l = [load EXCEPT !.parts = p, !.mode = mode, !.picked = ids]
    OBVIOUS
  <2>4. mode \in Modes /\ (field = "mode" => mode = serverMode)
                      /\ (field # "mode" => mode = load.mode)
    BY <1>3, <2>1 DEF Loads, AccountTypeOK
  <2>5. /\ ids \in Picks
        /\ \A m \in ListModes : ids[m] = IF m = field THEN ServerPicks[m] ELSE load.picked[m]
    BY <1>3, <2>2 DEF ServerPicks, Picks, Loads, AccountTypeOK
  <2>6. p \in SUBSET (Fields \cup {"friends"})
    BY <1>3, <2>3 DEF Loads
  <2>7. /\ l \in Loads /\ l.parts = p /\ l.mode = mode /\ l.picked = ids
        /\ l.friends = load.friends
    BY <1>3, <2>3, <2>4, <2>5, <2>6 DEF Loads
  <2>8. load' = l /\ UNCHANGED lapsed
    BY <1>3, <1>6, <2>1, <2>2, <2>3 DEF readSharing, Loads
  <2>9. SettingsPageTypeOK'
    BY <1>1, <2>7, <2>8 DEF SettingsPageTypeOK
  <2>10. LoadInv'
    <3> SUFFICES ASSUME Loading
                 PROVE  /\ ~overtaken =>
                             /\ "mode" \in p => mode = serverMode
                             /\ \A m \in ListModes \cap p : ids[m] = ServerPicks[m]
                        /\ "friends" \in p /\ ~lapsed => load.friends \subseteq friends
      BY <1>1, <1>2, <2>7, <2>8 DEF LoadInv, ServerPicks, Loading
    <3>1. ~overtaken /\ "mode" \in p => mode = serverMode
      BY <2>3, <2>4 DEF LoadInv
    <3>2. ~overtaken => \A m \in ListModes \cap p : ids[m] = ServerPicks[m]
      BY <2>3, <2>5 DEF LoadInv
    <3>3. "friends" \in p => "friends" \in load.parts
      BY <2>3 DEF Fields, ListModes
    <3> QED BY <3>1, <3>2, <3>3 DEF LoadInv
  <2>11. FormerInv'
    <3>1. \A m \in ListModes : Met(ids[m])
      BY <2>5 DEF FormerInv, ServerPicks
    <3> QED BY <1>1, <1>2, <2>7, <2>8, <3>1 DEF FormerInv, Met
  <2> QED BY <1>5, <2>9, <2>10, <2>11
<1>7. CASE readPageFriends
  <2>1. PICK p, l : /\ p = load.parts \cup {"friends"}
                    /\ l = [load EXCEPT !.parts = p, !.friends = friends]
    OBVIOUS
  <2>2. p \in SUBSET (Fields \cup {"friends"})
    BY <1>3, <2>1 DEF Loads
  <2>3. /\ l \in Loads /\ l.parts = load.parts \cup {"friends"} /\ l.mode = load.mode
        /\ l.picked = load.picked /\ l.friends = friends
    BY <1>3, <2>1, <2>2 DEF Loads, AccountTypeOK
  <2>4. load' = l /\ lapsed' = FALSE
    BY <1>3, <1>7, <2>1 DEF readPageFriends, Loads
  <2>5. SettingsPageTypeOK'
    BY <1>1, <2>3, <2>4 DEF SettingsPageTypeOK
  <2>6. LoadInv'
    BY <1>1, <1>2, <2>3, <2>4 DEF LoadInv, ServerPicks, Loading, ListModes
  <2>7. FormerInv'
    BY <1>1, <1>2, <2>3, <2>4 DEF FormerInv, Met
  <2> QED BY <1>1, <1>5, <2>5, <2>6, <2>7
<1> QED BY <1>1, <1>6, <1>7

LEMMA LoadedInv ==
  ASSUME SettingsInv, loaded \/ notLoaded
  PROVE  SettingsInv' /\ UNCHANGED accountVars
<1> USE DEF SettingsInv
<1>1. /\ Loading /\ pageLoading' = FALSE /\ load' = NoLoad
      /\ UNCHANGED <<accountVars, onSettings, saves, edited, overtaken, missing, lapsed>>
  BY DEF loaded, notLoaded
<1>2. UNCHANGED <<serverMode, selected, except, friends, former>>
  BY <1>1 DEF accountVars, sharingVars, listVars
<1>3. \A v \in saves : ~v.here
  BY <1>1 DEF SavesInv, Offers, saving, Loading
<1>4. SavesInv' /\ LoadInv'
  BY <1>1, <1>3, NoLoadTyped DEF SavesInv, LoadInv, Loading, saving
<1>5. pageFriends = {} /\ missing = {} /\ onSettings
  BY <1>1 DEF MissingInv, Loading
<1>6. CASE loaded
  <2>1. /\ load.parts = Fields \cup {"friends"} /\ UNCHANGED pageError
        /\ pageMode' = load.mode /\ picked' = load.picked /\ pageFriends' = load.friends
    BY <1>6 DEF loaded
  <2>2. SettingsPageTypeOK'
    BY <1>1, <2>1, NoLoadTyped DEF SettingsPageTypeOK, Loads
  <2>3. ~overtaken => /\ pageMode' = serverMode
                      /\ \A m \in ListModes : picked'[m] = ServerPicks[m]
    BY <1>1, <2>1 DEF LoadInv, Fields
  <2>4. ModeInv' /\ PickedInv'
    BY <1>1, <1>2, <1>3, <2>3 DEF ModeInv, PickedInv, ServerPicks
  <2>5. ~pageError
    BY <1>1 DEF LoadInv, Loading
  <2>6. MissingInv'
    BY <1>1, <1>2, <1>5, <2>1, <2>5 DEF MissingInv, LoadInv
  <2>7. FormerInv'
    BY <1>1, <1>2, <2>1, NoLoadTyped DEF FormerInv, Met
  <2>8. BlockInv'
    BY <1>1, <1>2, <1>3, <2>3 DEF BlockInv, ServerPicks
  <2> QED BY <1>1, <1>4, <2>2, <2>4, <2>6, <2>7, <2>8
<1>7. CASE notLoaded
  <2>1. pageError' = TRUE /\ UNCHANGED <<pageMode, picked, pageFriends>>
    BY <1>7 DEF notLoaded
  <2>2. SettingsPageTypeOK'
    BY <1>1, <2>1, NoLoadTyped DEF SettingsPageTypeOK
  <2>3. ModeInv' /\ PickedInv'
    BY <2>1 DEF ModeInv, PickedInv, Offers
  <2>4. MissingInv'
    BY <1>1, <1>5, <2>1 DEF MissingInv
  <2>5. FormerInv'
    BY <1>1, <1>2, <2>1, NoLoadTyped DEF FormerInv, Met
  <2>6. BlockInv'
    BY <2>1 DEF BlockInv, Offers
  <2> QED BY <1>1, <1>4, <2>2, <2>3, <2>4, <2>5, <2>6
<1> QED BY <1>6, <1>7

-----------------------------------------------------------------------------
(* Editing and saving.                                                      *)

LEMMA EditInv ==
  ASSUME SettingsInv,
         \/ \E m \in Modes : pickMode(m)
         \/ \E u \in Others : toggleFriend(u)
  PROVE  SettingsInv' /\ UNCHANGED accountVars
<1> USE DEF SettingsInv
<1>1. /\ Offers
      /\ UNCHANGED <<accountVars, onSettings, pageLoading, pageError, pageFriends, load,
                     saves, overtaken, missing, lapsed>>
  BY DEF pickMode, toggleFriend
<1>2. UNCHANGED <<serverMode, selected, except, friends, former>>
  BY <1>1 DEF accountVars, sharingVars, listVars
<1>3. SavesInv' /\ LoadInv' /\ MissingInv'
  BY <1>1, <1>2 DEF SavesInv, LoadInv, MissingInv, saving, Offers, Loading, ServerPicks
<1>4. ASSUME NEW m \in Modes, pickMode(m)
      PROVE  SettingsPageTypeOK' /\ ModeInv' /\ PickedInv' /\ FormerInv' /\ BlockInv'
  <2>1. pageMode' = m /\ edited' = edited \cup {"mode"} /\ UNCHANGED picked
    BY <1>4 DEF pickMode
  <2>2. SettingsPageTypeOK'
    BY <1>1, <2>1 DEF SettingsPageTypeOK, Fields
  <2>3. ModeInv'
    BY <2>1 DEF ModeInv
  <2>4. PickedInv'
    BY <1>1, <1>2, <2>1 DEF PickedInv, ServerPicks, Unsettled, Offers
  <2>5. FormerInv' /\ BlockInv'
    BY <1>1, <1>2, <2>1 DEF FormerInv, Met, BlockInv, ServerPicks, Offers
  <2> QED BY <2>2, <2>3, <2>4, <2>5
<1>5. ASSUME NEW u \in Others, toggleFriend(u)
      PROVE  SettingsPageTypeOK' /\ ModeInv' /\ PickedInv' /\ FormerInv' /\ BlockInv'
  <2>1. PICK ids : ids = (picked[pageMode] \ {u}) \cup ({u} \ picked[pageMode])
    OBVIOUS
  <2>2. pageMode \in ListModes /\ UNCHANGED pageMode /\ edited' = edited \cup {pageMode}
    BY <1>5 DEF toggleFriend, supportsCheckboxList
  <2>3. picked' = [picked EXCEPT ![pageMode] = ids]
    BY <1>5, <2>1 DEF toggleFriend, SettingsPageTypeOK, Picks
  <2>4. ids \subseteq Others
    BY <2>1, <2>2 DEF SettingsPageTypeOK, Picks
  <2>5. picked' \in Picks /\ \A m \in ListModes \ {pageMode} : picked'[m] = picked[m]
    BY <2>3, <2>4 DEF SettingsPageTypeOK, Picks
  <2>6. SettingsPageTypeOK'
    BY <1>1, <2>2, <2>5 DEF SettingsPageTypeOK, Fields
  <2>7. ModeInv'
    BY <1>1, <1>2, <2>2 DEF ModeInv, Unsettled, Offers
  <2>8. PickedInv'
    BY <1>1, <1>2, <2>2, <2>5 DEF PickedInv, ServerPicks, Unsettled, Offers
  <2>9. u \in pageFriends /\ picked'[pageMode] = ids
    BY <1>5, <2>2, <2>3 DEF toggleFriend, SettingsPageTypeOK, Picks
  <2>10. FormerInv'
    <3>1. \A m \in ListModes : Met(picked'[m])
      BY <2>1, <2>2, <2>5, <2>9 DEF FormerInv, Met
    <3> QED BY <1>1, <1>2, <3>1 DEF FormerInv, Met
  <2>11. BlockInv'
    <3>1. \A m \in ListModes : picked'[m] \ pageFriends = picked[m] \ pageFriends
      BY <2>1, <2>2, <2>5, <2>9
    <3> QED BY <1>1, <1>2, <3>1 DEF BlockInv, ServerPicks, Offers
  <2> QED BY <2>6, <2>7, <2>8, <2>10, <2>11
<1> QED BY <1>1, <1>3, <1>4, <1>5

\* A save that starts takes what is shown; the last refusal is forgotten.
LEMMA SaveInv ==
  ASSUME SettingsInv, saveMode \/ saveList
  PROVE  SettingsInv' /\ UNCHANGED accountVars
<1> USE DEF SettingsInv
<1>1. PICK kind \in {"mode", "list"}, ids \in SUBSET Others, fields \in SUBSET Fields :
        /\ Save(kind, ids, fields) /\ Met(ids) /\ "mode" \in fields
        /\ kind = "list" => /\ pageMode \in ListModes /\ ids = picked[pageMode]
                            /\ pageMode \in fields
        /\ kind = "mode" => fields = {"mode"}
        /\ kind = "list" => fields = {"mode", pageMode}
  <2>1. CASE saveMode
    BY <2>1 DEF saveMode, Fields, Met
  <2>2. CASE saveList
    <3>1. pageMode \in ListModes /\ Save("list", picked[pageMode], {"mode", pageMode})
      BY <2>2 DEF saveList, supportsCheckboxList
    <3>2. picked[pageMode] \in SUBSET Others /\ {"mode", pageMode} \in SUBSET Fields
      BY <3>1 DEF SettingsPageTypeOK, Picks, Fields
    <3>3. Met(picked[pageMode])
      BY <3>1 DEF FormerInv
    <3> QED BY <3>1, <3>2, <3>3
  <2> QED BY <2>1, <2>2
<1>2. PICK w : w = [kind |-> kind, mode |-> pageMode, ids |-> ids, pc |-> "call", here |-> TRUE]
  OBVIOUS
<1>3. /\ Offers /\ ~saving /\ saves' = saves \cup {w} /\ edited' = edited \ fields
      /\ missing' = {}
      /\ UNCHANGED <<accountVars, onSettings, pageLoading, pageError, pageMode, pageFriends,
                     picked, load, overtaken, lapsed>>
  BY <1>1, <1>2 DEF Save
<1>4. UNCHANGED <<serverMode, selected, except, friends, former>>
  BY <1>3 DEF accountVars, sharingVars, listVars
<1>5. /\ w \in Saves /\ w.kind = kind /\ w.mode = pageMode /\ w.ids = ids /\ w.pc = "call"
      /\ w.here
  BY <1>2 DEF Saves, SettingsPageTypeOK
<1>6. \A v \in saves : ~v.here
  BY <1>3 DEF saving
<1>7. SettingsPageTypeOK'
  BY <1>3, <1>5 DEF SettingsPageTypeOK
<1>8. SavesInv'
  BY <1>1, <1>3, <1>5, <1>6 DEF SavesInv, saving, Offers
<1>9. LoadInv'
  BY <1>3, <1>4 DEF LoadInv, Loading, ServerPicks
<1>10. ModeInv'
  <2> SUFFICES ASSUME ~overtaken
               PROVE  /\ \E v \in saves' : Unsettled(v)
                      /\ \A v \in saves' : v.here /\ v.pc = "call" => pageMode = v.mode
    BY <1>3 DEF ModeInv, Unsettled
  <2> QED BY <1>3, <1>5, <1>6 DEF Unsettled
<1>11. PickedInv'
  <2> SUFFICES ASSUME ~overtaken, NEW m \in ListModes \ edited'
               PROVE  /\ \/ picked[m] = ServerPicks[m]
                         \/ \E v \in saves' : Unsettled(v) /\ v.kind = "list" /\ v.mode = m
                      /\ \A v \in saves' : v.here /\ v.pc = "call" /\ v.kind = "list"
                                           /\ v.mode = m => picked[m] = v.ids
    BY <1>3, <1>4 DEF PickedInv, Unsettled, ServerPicks
  <2>1. \A v \in saves' : v.here => v = w
    BY <1>3, <1>6
  <2>2. CASE kind = "list" /\ m = pageMode
    <3>1. w \in saves' /\ Unsettled(w) /\ w.kind = "list" /\ w.mode = m
      BY <1>3, <1>5, <2>2 DEF Unsettled
    <3>2. picked[m] = w.ids
      BY <1>1, <1>5, <2>2
    <3> QED BY <2>1, <3>1, <3>2
  <2>3. CASE ~(kind = "list" /\ m = pageMode)
    <3>1. m \notin edited
      BY <1>1, <1>3, <2>3 DEF ListModes
    <3>2. picked[m] = ServerPicks[m]
      BY <1>3, <1>6, <3>1 DEF PickedInv, Unsettled
    <3> QED BY <1>5, <2>1, <2>3, <3>2
  <2> QED BY <2>2, <2>3
<1>12. MissingInv'
  BY <1>3, <1>4 DEF MissingInv, Offers
<1>13. FormerInv'
  BY <1>1, <1>3, <1>4, <1>5 DEF FormerInv, Met
<1>14. BlockInv'
  <2>1. \A v \in saves' : v.here => v = w
    BY <1>3, <1>6
  <2> QED BY <1>1, <1>3, <1>4, <1>5, <2>1 DEF BlockInv, ServerPicks, Offers
<1> QED BY <1>3, <1>7, <1>8, <1>9, <1>10, <1>11, <1>12, <1>13, <1>14

\* A save that gets nowhere: lost on its way to the server, or refused there.
LEMMA StoppedSaveInv ==
  ASSUME SettingsInv, NEW v \in saves, NEW w, v.pc = "call",
         w = [v EXCEPT !.pc = "refused"],
         saves' = (saves \ {v}) \cup IF v.here THEN {w} ELSE {},
         UNCHANGED <<friends, former, sharingVars, onSettings, pageLoading, pageError,
                     pageMode, pageFriends, picked, load, edited, overtaken, lapsed>>,
         missing' = missing \/ (v.here /\ missing' = v.ids \ friends)
  PROVE  SettingsInv'
<1> USE DEF SettingsInv, sharingVars
<1>1. /\ w \in Saves /\ w.kind = v.kind /\ w.mode = v.mode /\ w.ids = v.ids
      /\ w.pc = "refused" /\ w.here = v.here
  BY DEF SettingsPageTypeOK, Saves
<1>2. SettingsPageTypeOK'
  <2>1. v.ids \subseteq Others
    BY DEF SettingsPageTypeOK, Saves
  <2> QED BY <1>1, <2>1 DEF SettingsPageTypeOK
<1>3. SavesInv'
  BY <1>1 DEF SavesInv, saving, Offers
<1>4. LoadInv'
  BY DEF LoadInv, Loading, ServerPicks
<1>5. ASSUME NEW x \in saves, Unsettled(x)
      PROVE  \E y \in saves' : Unsettled(y) /\ y.kind = x.kind /\ y.mode = x.mode
  BY <1>1, <1>5 DEF Unsettled
<1>6. \A x \in saves' : x.here /\ x.pc = "call" => x \in saves
  BY <1>1
<1>7. ModeInv'
  BY <1>5, <1>6 DEF ModeInv, Offers, Unsettled
<1>8. PickedInv'
  <2> SUFFICES ASSUME Offers, ~overtaken, NEW m \in ListModes \ edited
               PROVE  /\ \/ picked[m] = ServerPicks[m]
                         \/ \E x \in saves' : Unsettled(x) /\ x.kind = "list" /\ x.mode = m
                      /\ \A x \in saves' : x.here /\ x.pc = "call" /\ x.kind = "list"
                                           /\ x.mode = m => picked[m] = x.ids
    BY DEF PickedInv, Offers, ServerPicks, Unsettled
  <2> QED BY <1>5, <1>6 DEF PickedInv
<1>9. MissingInv'
  <2>1. missing' # missing => Offers
    BY DEF SavesInv, saving
  <2> QED BY <2>1 DEF MissingInv, Offers
<1>10. FormerInv'
  BY <1>1 DEF FormerInv, Met
<1>11. BlockInv'
  BY <1>6 DEF BlockInv, ServerPicks, Offers
<1> QED BY <1>2, <1>3, <1>4, <1>7, <1>8, <1>9, <1>10, <1>11

\* A save that is executed makes what the page shows the server's, or belongs to an
\* earlier visit and overtakes the load of this one.
LEMMA ExecutedSaveInv ==
  ASSUME AccountTypeOK, SettingsInv, NEW v \in saves, NEW heard \in BOOLEAN,
         v.pc = "call", serveSave(v, TRUE, heard)
  PROVE  SettingsInv' /\ AccountTypeOK'
<1> USE DEF SettingsInv
<1>1. PICK pc \in {"ok", "refused"} : pc = IF heard THEN "ok" ELSE "refused"
  OBVIOUS
<1>2. PICK w : w = [v EXCEPT !.pc = pc]
  OBVIOUS
<1>3. /\ v \in Saves /\ v.mode \in Modes /\ v.ids \subseteq Others
      /\ v.kind \in {"mode", "list"} /\ v.here \in BOOLEAN
      /\ v.kind = "list" => v.mode \in ListModes
  BY DEF SettingsPageTypeOK, Saves, SavesInv
<1>4. /\ w \in Saves /\ w.kind = v.kind /\ w.mode = v.mode /\ w.pc = pc /\ w.here = v.here
      /\ w.ids = v.ids
  BY <1>1, <1>2, <1>3 DEF Saves
<1>5. /\ saves' = (saves \ {v}) \cup IF v.here THEN {w} ELSE {}
      /\ missing' = missing /\ overtaken' = (overtaken \/ ~v.here)
      /\ UNCHANGED <<friends, incoming, outgoing, asked, former, events, onSettings,
                     pageLoading, pageError, pageMode, pageFriends, picked, load, edited,
                     lapsed>>
  BY <1>1, <1>2 DEF serveSave, listVars
<1>6. /\ serverMode' = v.mode /\ selected' \subseteq Others /\ except' \subseteq Others
      /\ v.kind = "list" => ServerPicks'[v.mode] = v.ids
      /\ \A m \in ListModes :
           ~(v.kind = "list" /\ m = v.mode) => ServerPicks'[m] = ServerPicks[m]
  <2>1. CASE v.kind = "mode"
    BY <2>1 DEF serveSave, updateSharingMode, ServerPicks, ListModes, AccountTypeOK
  <2>2. CASE v.kind = "list"
    BY <1>3, <2>2 DEF serveSave, setFriends, ServerPicks, ListModes, AccountTypeOK
  <2> QED BY <1>3, <2>1, <2>2
<1>7. AccountTypeOK'
  BY <1>3, <1>5, <1>6 DEF AccountTypeOK
<1>8. SettingsPageTypeOK'
  BY <1>4, <1>5 DEF SettingsPageTypeOK
<1>9. SavesInv'
  BY <1>4, <1>5 DEF SavesInv, saving, Offers
<1>10. MissingInv' /\ FormerInv'
  <2>1. MissingInv'
    BY <1>5 DEF MissingInv
  <2>2. Met(selected') /\ Met(except')
    <3>1. Met(ServerPicks["SELECTED"]) /\ Met(ServerPicks["EXCEPT_SELECTED"]) /\ Met(v.ids)
      BY DEF FormerInv, ServerPicks, ListModes
    <3> QED BY <1>6, <3>1 DEF ServerPicks, ListModes
  <2>3. FormerInv'
    BY <1>4, <1>5, <2>2 DEF FormerInv, Met
  <2> QED BY <2>1, <2>3
<1>11. CASE ~v.here
  <2>1. LoadInv' /\ ModeInv' /\ PickedInv' /\ BlockInv'
    BY <1>5, <1>11 DEF LoadInv, Loading, ModeInv, PickedInv, BlockInv
  <2> QED BY <1>7, <1>8, <1>9, <1>10, <2>1
<1>12. CASE v.here
  <2>1. Offers /\ \A x \in saves : x.here => x = v
    BY <1>12 DEF SavesInv, saving
  <2>2. \A x \in saves' : x.here => x = w
    BY <1>5, <2>1
  <2>3. LoadInv'
    BY <1>5, <2>1 DEF LoadInv, Loading, Offers
  <2>4. ModeInv'
    <3>1. Offers /\ ~overtaken /\ "mode" \notin edited => pageMode = v.mode
      BY <1>12 DEF ModeInv
    <3>2. \A x \in saves' : x.here => x.pc # "call"
      BY <1>4, <2>2
    <3>3. Offers' = Offers /\ (overtaken => overtaken')
      BY <1>5 DEF Offers, SettingsPageTypeOK
    <3> QED BY <1>5, <1>6, <3>1, <3>2, <3>3 DEF ModeInv
  <2>5. PickedInv'
    <3> SUFFICES ASSUME ~overtaken, NEW m \in ListModes \ edited
                 PROVE  picked[m] = ServerPicks'[m]
      BY <1>4, <1>5, <2>2 DEF PickedInv
    <3>1. CASE v.kind = "list" /\ m = v.mode
      BY <1>6, <1>12, <2>1, <3>1 DEF PickedInv
    <3>2. CASE ~(v.kind = "list" /\ m = v.mode)
      BY <1>6, <2>1, <3>2 DEF PickedInv, Unsettled
    <3> QED BY <3>1, <3>2
  <2>6. BlockInv'
    <3> SUFFICES ASSUME ~overtaken, NEW m \in ListModes
                 PROVE  picked[m] \ pageFriends = ServerPicks'[m] \ pageFriends
      BY <1>4, <1>5, <2>2 DEF BlockInv
    <3>1. CASE v.kind = "list" /\ m = v.mode
      BY <1>6, <1>12, <2>1, <3>1 DEF BlockInv
    <3>2. CASE ~(v.kind = "list" /\ m = v.mode)
      BY <1>6, <2>1, <3>2 DEF BlockInv
    <3> QED BY <3>1, <3>2
  <2> QED BY <1>7, <1>8, <1>9, <1>10, <2>3, <2>4, <2>5, <2>6
<1> QED BY <1>3, <1>11, <1>12

LEMMA SavesStepInv ==
  ASSUME AccountTypeOK, SettingsInv, NEW v \in saves,
         loseSave(v) \/ \E ok, heard \in BOOLEAN : serveSave(v, ok, heard)
  PROVE  SettingsInv' /\ AccountTypeOK' /\ UNCHANGED listVars
<1>1. PICK w : w = [v EXCEPT !.pc = "refused"]
  OBVIOUS
<1>2. CASE loseSave(v)
  <2>1. /\ v.pc = "call" /\ saves' = (saves \ {v}) \cup IF v.here THEN {w} ELSE {}
        /\ UNCHANGED <<accountVars, onSettings, pageLoading, pageError, pageMode,
                       pageFriends, picked, load, edited, overtaken, missing, lapsed>>
    BY <1>1, <1>2 DEF loseSave
  <2>2. UNCHANGED <<friends, former, sharingVars, listVars, asked, events>>
    BY <2>1 DEF accountVars, listVars
  <2> QED BY <1>1, <2>1, <2>2, StoppedSaveInv DEF AccountTypeOK, listVars, sharingVars
<1>3. ASSUME NEW heard \in BOOLEAN, serveSave(v, TRUE, heard)
      PROVE  SettingsInv' /\ AccountTypeOK' /\ UNCHANGED listVars
  BY <1>3, ExecutedSaveInv DEF serveSave
<1>4. ASSUME NEW heard \in BOOLEAN, serveSave(v, FALSE, heard)
      PROVE  SettingsInv' /\ AccountTypeOK' /\ UNCHANGED listVars
  <2>1. /\ v.pc = "call" /\ saves' = (saves \ {v}) \cup IF v.here THEN {w} ELSE {}
        /\ v.kind # "mode" /\ setFriends(v.mode, v.ids, FALSE)
        /\ missing' = IF v.here THEN v.ids \ friends ELSE missing
        /\ overtaken' = (overtaken \/ FALSE)
        /\ UNCHANGED <<listVars, asked, former, events, onSettings, pageLoading, pageError,
                       pageMode, pageFriends, picked, load, edited, lapsed>>
    BY <1>1, <1>4 DEF serveSave
  <2>2. UNCHANGED <<friends, sharingVars, overtaken>>
    BY <2>1 DEF listVars, setFriends, SettingsInv, SettingsPageTypeOK
  <2>3. missing' = missing \/ (v.here /\ missing' = v.ids \ friends)
    BY <2>1
  <2> QED BY <1>1, <2>1, <2>2, <2>3, StoppedSaveInv DEF AccountTypeOK, listVars, sharingVars
<1> QED BY <1>2, <1>3, <1>4

\* The answer to a save: after a refusal what was saved counts as not saved.
LEMMA SavedInv ==
  ASSUME SettingsInv, NEW v \in saves, saved(v)
  PROVE  SettingsInv' /\ UNCHANGED accountVars
<1> USE DEF SettingsInv
<1>1. /\ v.pc # "call" /\ saves' = saves \ {v}
      /\ edited' = IF v.pc = "ok" THEN edited
                   ELSE edited \cup {"mode"} \cup IF v.kind = "list" THEN {v.mode} ELSE {}
      /\ UNCHANGED <<accountVars, onSettings, pageLoading, pageError, pageMode, pageFriends,
                     picked, load, overtaken, missing, lapsed>>
  BY DEF saved
<1>2. UNCHANGED <<serverMode, selected, except, friends, former>>
  BY <1>1 DEF accountVars, sharingVars, listVars
<1>3. v \in Saves /\ (v.kind = "list" => v.mode \in ListModes)
  BY DEF SettingsPageTypeOK, SavesInv
<1>4. edited \subseteq edited' /\ edited' \subseteq Fields
  BY <1>1, <1>3 DEF SettingsPageTypeOK, Fields
<1>5. SettingsPageTypeOK'
  BY <1>1, <1>4 DEF SettingsPageTypeOK
<1>6. SavesInv' /\ LoadInv' /\ MissingInv'
  BY <1>1, <1>2 DEF SavesInv, LoadInv, MissingInv, saving, Offers, Loading, ServerPicks
<1>7. ModeInv'
  <2> SUFFICES ASSUME Offers, ~overtaken, "mode" \notin edited'
               PROVE  /\ pageMode = serverMode \/ \E x \in saves' : Unsettled(x)
                      /\ \A x \in saves' : x.here /\ x.pc = "call" => pageMode = x.mode
    BY <1>1, <1>2 DEF ModeInv, Offers, Unsettled
  <2>1. v.pc = "ok" /\ "mode" \notin edited
    BY <1>1
  <2> QED BY <1>1, <2>1 DEF ModeInv, Unsettled
<1>8. PickedInv'
  <2> SUFFICES ASSUME Offers, ~overtaken, NEW m \in ListModes \ edited'
               PROVE  /\ \/ picked[m] = ServerPicks[m]
                         \/ \E x \in saves' : Unsettled(x) /\ x.kind = "list" /\ x.mode = m
                      /\ \A x \in saves' : x.here /\ x.pc = "call" /\ x.kind = "list"
                                           /\ x.mode = m => picked[m] = x.ids
    BY <1>1, <1>2 DEF PickedInv, Offers, ServerPicks, Unsettled
  <2>1. m \in ListModes \ edited
    BY <1>4
  <2>2. v.pc # "ok" => ~(v.kind = "list" /\ v.mode = m)
    BY <1>1
  <2> QED BY <1>1, <2>1, <2>2 DEF PickedInv, Unsettled
<1>9. FormerInv' /\ BlockInv'
  BY <1>1, <1>2 DEF FormerInv, Met, BlockInv, ServerPicks, Offers
<1> QED BY <1>1, <1>5, <1>6, <1>7, <1>8, <1>9

\* What the others do to the lists, the page does not notice.
LEMMA UnnoticedInv ==
  ASSUME SettingsInv, Unnoticed, UNCHANGED sharingVars, NoneForgotten
  PROVE  SettingsInv'
<1> USE DEF SettingsInv, sharingVars
<1>1. /\ lapsed' = (lapsed \/ ~(friends \subseteq friends'))
      /\ UNCHANGED <<onSettings, pageLoading, pageError, pageMode, pageFriends, picked, load,
                     saves, edited, overtaken, missing>>
  BY DEF Unnoticed
<1>2. lapsed' \in BOOLEAN /\ (~lapsed' => ~lapsed /\ friends \subseteq friends')
  BY <1>1 DEF SettingsPageTypeOK
<1>3. SettingsPageTypeOK'
  BY <1>1, <1>2 DEF SettingsPageTypeOK
<1>4. SavesInv'
  BY <1>1 DEF SavesInv, saving, Offers
<1>5. LoadInv' /\ MissingInv'
  BY <1>1, <1>2 DEF LoadInv, MissingInv, Loading, ServerPicks
<1>6. ModeInv' /\ PickedInv'
  BY <1>1 DEF ModeInv, PickedInv, Offers, ServerPicks, Unsettled
<1>7. FormerInv'
  BY <1>1 DEF FormerInv, Met, NoneForgotten
<1>8. BlockInv'
  BY <1>1 DEF BlockInv, Offers, ServerPicks
<1> QED BY <1>3, <1>4, <1>5, <1>6, <1>7, <1>8

LEMMA SettingsKept ==
  ASSUME SettingsInv, UNCHANGED <<accountVars, settingsVars>>
  PROVE  SettingsInv'
<1>1. Unnoticed /\ UNCHANGED sharingVars /\ NoneForgotten
  BY DEF Unnoticed, NoneForgotten, settingsVars, accountVars, listVars, SettingsInv,
         SettingsPageTypeOK
<1> QED BY <1>1, UnnoticedInv

-----------------------------------------------------------------------------
(* The two pages together.                                                  *)

LEMMA PagesInitInv == PagesInit => PagesInv
<1> SUFFICES ASSUME PagesInit
             PROVE  PagesInv
  OBVIOUS
<1> USE DEF PagesInit
<1>1. AccountTypeOK
  BY AccountAssumption DEF AccountInit, AccountTypeOK
<1>2. FriendsInv
  <2> USE DEF FriendsPageInit
  <2>1. job \in [Slots -> Jobs] /\ \A s \in Slots : job[s] = Idle
    BY IdleJob
  <2>2. None \in Texts /\ None \in Dialogs /\ NoLists \in Lists
    BY DEF Texts, Dialogs, NoLists, Lists
  <2>3. 0 \in 0..MaxClicks /\ 0 \in 0..MaxFailures
    BY FriendsPageAssumption
  <2>4. FriendsPageTypeOK
    BY <2>1, <2>2, <2>3 DEF FriendsPageTypeOK, ListNames
  <2>5. \A s \in Slots : JobInv(s) /\ ReadInv(s)
    BY <2>1, IdleJob DEF JobInv, ReadInv, Requests
  <2>6. DialogInv /\ ShownInv /\ ResultsInv
    BY DEF DialogInv, ShownInv, ResultsInv
  <2> QED BY <2>4, <2>5, <2>6 DEF FriendsInv
<1>3. SettingsInv
  <2> USE DEF SettingsPageInit
  <2>1. SettingsPageTypeOK
    BY NoLoadTyped DEF SettingsPageTypeOK, Picks, Modes
  <2>2. SavesInv /\ LoadInv /\ ModeInv /\ PickedInv /\ MissingInv /\ BlockInv
    BY DEF SavesInv, saving, LoadInv, Loading, ModeInv, PickedInv, Offers, MissingInv, BlockInv
  <2>3. FormerInv
    BY NoLoadTyped DEF FormerInv, Met, AccountInit
  <2> QED BY <2>1, <2>2, <2>3 DEF SettingsInv
<1> QED BY <1>1, <1>2, <1>3 DEF PagesInv

LEMMA SettingsPageStep ==
  ASSUME AccountTypeOK, SettingsInv,
         SettingsClicks \/ SettingsFailures \/ SettingsSteps
  PROVE  SettingsInv' /\ AccountTypeOK' /\ UNCHANGED listVars
<1>1. ASSUME UNCHANGED accountVars
      PROVE  AccountTypeOK' /\ UNCHANGED listVars
  BY <1>1 DEF accountVars, listVars, sharingVars, AccountTypeOK
<1>2. CASE SettingsClicks
  BY <1>1, <1>2, ReloadInv, SaveInv, EditInv DEF SettingsClicks
<1>3. CASE SettingsFailures
  BY <1>1, <1>3, LoadedInv, SavesStepInv DEF SettingsFailures
<1>4. CASE SettingsSteps
  <2>1. CASE readPageFriends \/ \E field \in Fields : readSharing(field)
    BY <1>1, <2>1, ReadPartsInv
  <2>2. CASE loaded
    BY <1>1, <2>2, LoadedInv
  <2>3. ASSUME NEW v \in saves, saved(v)
        PROVE  SettingsInv' /\ AccountTypeOK' /\ UNCHANGED listVars
    BY <1>1, <2>3, SavedInv
  <2>4. ASSUME NEW v \in saves, NEW ok \in BOOLEAN, serveSave(v, ok, TRUE)
        PROVE  SettingsInv' /\ AccountTypeOK' /\ UNCHANGED listVars
    BY <2>4, SavesStepInv
  <2> QED BY <1>4, <2>1, <2>2, <2>3, <2>4 DEF SettingsSteps
<1> QED BY <1>2, <1>3, <1>4

LEMMA PagesStep == PagesInv /\ [PagesNext]_pagesVars => PagesInv'
<1> SUFFICES ASSUME PagesInv, [PagesNext]_pagesVars
             PROVE  PagesInv'
  OBVIOUS
<1> USE DEF PagesInv
<1>1. /\ clicks \in 0..MaxClicks /\ failures \in 0..MaxFailures
      /\ OneClick => clicks' \in 0..MaxClicks
      /\ OneFailure => failures' \in 0..MaxFailures
  BY Clicked, Failed DEF FriendsInv, FriendsPageTypeOK, OneClick, OneFailure
<1>2. CASE FriendsPageNext /\ Unnoticed
  BY <1>2, FriendsPageStep, UnnoticedInv
<1>3. ASSUME NEW s \in Slots, goToFriends(s)
      PROVE  PagesInv'
  <2>1. FriendsInv' /\ UNCHANGED accountVars
    BY <1>3, MountFriendsInv DEF goToFriends
  <2>2. SettingsInv'
    BY <1>3, <2>1, UnmountSettingsInv, SettingsKept DEF goToFriends
  <2> QED BY <2>1, <2>2 DEF AccountTypeOK, accountVars, listVars, sharingVars
<1>4. CASE goToSettings
  <2>1. SettingsInv' /\ UNCHANGED <<accountVars, listVars>>
    BY <1>4, MountSettingsInv DEF goToSettings, accountVars
  <2>2. FriendsInv'
    <3>1. CASE onFriends
      BY <1>4, <3>1, UnmountFriendsInv DEF goToSettings
    <3>2. CASE ~onFriends
      BY <1>1, <1>4, <2>1, <3>2, FriendsKept DEF goToSettings
    <3> QED BY <3>1, <3>2
  <2> QED BY <2>1, <2>2 DEF AccountTypeOK, accountVars, listVars, sharingVars
<1>5. CASE \/ OneClick /\ SettingsClicks /\ UNCHANGED <<otherPageVars, failures>>
           \/ OneFailure /\ SettingsFailures /\ UNCHANGED <<otherPageVars, clicks>>
           \/ SettingsSteps /\ UNCHANGED <<otherPageVars, clicks, failures>>
  <2>1. SettingsInv' /\ AccountTypeOK' /\ UNCHANGED listVars
    BY <1>5, SettingsPageStep
  <2>2. clicks' \in 0..MaxClicks /\ failures' \in 0..MaxFailures /\ UNCHANGED otherPageVars
    BY <1>1, <1>5
  <2> QED BY <2>1, <2>2, FriendsKept
<1>6. CASE UNCHANGED pagesVars
  <2>1. UNCHANGED <<accountVars, listVars, settingsVars, otherPageVars, clicks, failures>>
    BY <1>6 DEF pagesVars, friendsPageVars, otherPageVars, accountVars
  <2>2. SettingsInv'
    BY <2>1, SettingsKept
  <2>3. FriendsInv'
    BY <1>1, <2>1, FriendsKept
  <2> QED BY <2>1, <2>2, <2>3 DEF AccountTypeOK, accountVars, listVars, sharingVars
<1> QED BY <1>2, <1>3, <1>4, <1>5, <1>6 DEF PagesNext

LEMMA PagesInvariant == PagesSpec => []PagesInv
BY PagesInitInv, PagesStep, PTL DEF PagesSpec

\* Both pages and the account keep their types; nobody is in two of the three lists.
THEOREM PagesTypeCorrect == PagesSpec => []PagesTypeOK
<1>1. PagesInv => PagesTypeOK
  BY DEF PagesInv, FriendsInv, SettingsInv, PagesTypeOK
<1> QED BY <1>1, PagesInvariant, PTL

\* A dialog does what its title says, or nothing, and the latter only when an action
\* confirmed before was still running when it was opened.
THEOREM DialogsDoTheirAction == PagesSpec => []DialogDoesItsAction
<1>1. PagesInv => DialogDoesItsAction
  BY DEF PagesInv, FriendsInv, DialogInv, DialogDoesItsAction
<1> QED BY <1>1, PagesInvariant, PTL

\* Once everything is answered the lists are the server's, whatever the order of the
\* actions, the refreshes and their answers, but for the changes the page cannot know.
THEOREM ListsSettleInTheEnd == PagesSpec => []ListsSettle
<1>1. PagesInv => ListsSettle
  BY DEF PagesInv, FriendsInv, ShownInv, Announced, Running, ListsSettle
<1> QED BY <1>1, PagesInvariant, PTL

\* The users in the dropdown were found for the text in the input, unless a search
\* for an earlier text answered last.
THEOREM ResultsFitTheText == PagesSpec => []ResultsFit
<1>1. PagesInv => ResultsFit
  BY DEF PagesInv, FriendsInv, ResultsInv, ResultsFit
<1> QED BY <1>1, PagesInvariant, PTL

\* What the user has not changed since is what the server has, after any sequence of
\* edits, saves, refusals, lost answers and visits.
THEOREM SettingsAgree == PagesSpec => []PageAgrees
<1>1. PagesInv => PageAgrees
  BY DEF PagesInv, SettingsInv, ModeInv, PickedInv, PageAgrees, Unsettled, saving
<1> QED BY <1>1, PagesInvariant, PTL

\* A save is refused for former friends only, and for one with a checkbox only when
\* that friendship ended since the page was loaded.
THEOREM RefusalsAreHidden == PagesSpec => []RefusalIsHidden
<1>1. PagesInv => RefusalIsHidden
  BY DEF PagesInv, SettingsInv, MissingInv, FormerInv, RefusalIsHidden
<1> QED BY <1>1, PagesInvariant, PTL

LEMMA SaveNamesFormer ==
  ASSUME PagesInv, NEW v \in saves, NEW ok \in BOOLEAN, NEW heard \in BOOLEAN,
         serveSave(v, ok, heard), NEW m \in ListModes, ServerPicks'[m] # ServerPicks[m],
         ~overtaken'
  PROVE  ServerPicks[m] \ friends \subseteq pageFriends
<1>1. /\ v.pc = "call" /\ ok /\ v.here /\ ~overtaken
      /\ v.kind = "list" /\ v.mode = m /\ v.ids \subseteq friends
  <2>1. v \in Saves
    BY DEF PagesInv, SettingsInv, SettingsPageTypeOK
  <2>2. v.kind # "mode" /\ setFriends(v.mode, v.ids, ok)
    BY DEF serveSave, updateSharingMode, ServerPicks
  <2>3. ok /\ v.ids \subseteq friends /\ v.mode = m
    BY <2>2 DEF setFriends, ServerPicks, ListModes, sharingVars
  <2> QED BY <2>1, <2>2, <2>3 DEF serveSave, Saves
<1>2. Offers
  BY <1>1 DEF PagesInv, SettingsInv, SavesInv, saving
<1>3. v.ids \ pageFriends = ServerPicks[m] \ pageFriends
  BY <1>1, <1>2 DEF PagesInv, SettingsInv, BlockInv
<1> QED BY <1>1, <1>3

\* As long as a former friend without a checkbox is in a list, no save changes that
\* list: the page always sends him along, and the server always refuses him.
THEOREM FormerFriendsBlockSaves == PagesSpec => FormerFriendsBlock
<1> DEFINE Blocked ==
      \A m \in ListModes : ServerPicks'[m] # ServerPicks[m] /\ ~overtaken' =>
        ServerPicks[m] \ friends \subseteq pageFriends
<1>1. PagesInv /\ [PagesNext]_pagesVars => [Blocked]_<<accountVars, settingsVars>>
  <2> SUFFICES ASSUME PagesInv, [PagesNext]_pagesVars
               PROVE  Blocked
    OBVIOUS
  <2>1. ASSUME UNCHANGED sharingVars
        PROVE  Blocked
    BY <2>1 DEF sharingVars, ServerPicks
  <2>2. ASSUME NEW v \in saves, NEW ok \in BOOLEAN, NEW heard \in BOOLEAN,
               serveSave(v, ok, heard)
        PROVE  Blocked
    BY <2>2, SaveNamesFormer
  <2>3. CASE FriendsPageNext /\ Unnoticed
    BY <2>1, <2>3, FriendsPageStep DEF PagesInv
  <2>4. ASSUME NEW s \in Slots, goToFriends(s)
        PROVE  Blocked
    BY <2>1, <2>4 DEF goToFriends, mountFriends, NewPage, accountVars
  <2>5. CASE goToSettings
    BY <2>1, <2>5 DEF goToSettings, mountSettings, NewSettings, StartLoad, accountVars
  <2>6. CASE SettingsClicks
    BY <2>1, <2>6
    DEF SettingsClicks, reload, StartLoad, saveMode, saveList, Save, pickMode, toggleFriend,
        accountVars
  <2>7. CASE SettingsFailures
    BY <2>1, <2>2, <2>7 DEF SettingsFailures, notLoaded, loseSave, accountVars
  <2>8. CASE SettingsSteps
    BY <2>1, <2>2, <2>8
    DEF SettingsSteps, readPageFriends, loaded, readSharing, saved, accountVars
  <2>9. CASE UNCHANGED pagesVars
    BY <2>1, <2>9 DEF pagesVars, accountVars
  <2> QED BY <2>3, <2>4, <2>5, <2>6, <2>7, <2>8, <2>9 DEF PagesNext
<1> QED BY <1>1, PagesInvariant, PTL DEF PagesSpec, FormerFriendsBlock
==============================================================================
