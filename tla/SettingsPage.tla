---------------------------- MODULE SettingsPage ---------------------------
(***************************************************************************)
(* SettingsView: the mode and the two lists are loaded once, edited locally *)
(* and saved by two buttons.  Only the friends of the load have a checkbox; *)
(* the lists keep former friends too, whom no checkbox can remove.          *)
(***************************************************************************)
EXTENDS Account

VARIABLES
  onSettings,                   \* the page is mounted
  pageLoading, pageError,
  pageMode, pageFriends, picked, \* the mode, the checkboxes, [Lists -> the ids picked]
  load,                         \* the two parallel requests of load()
  saves,                        \* the saves under way
  edited,                       \* history: what the user changed and did not save
  overtaken,                    \* history: a save of an earlier visit came after the load
  missing,                      \* history: the ids the last save was refused for
  lapsed                        \* history: a friendship ended since the friends were read

settingsVars == <<onSettings, pageLoading, pageError, pageMode, pageFriends, picked, load,
                  saves, edited, overtaken, missing, lapsed>>

ListModes == {"SELECTED", "EXCEPT_SELECTED"}
Fields == {"mode"} \cup ListModes
Picks == [ListModes -> SUBSET Others]
ServerPicks == [m \in ListModes |-> IF m = "SELECTED" THEN selected ELSE except]

\* parts: the answers that have been read.
Loads == [parts : SUBSET (Fields \cup {"friends"}), mode : Modes, picked : Picks,
          friends : SUBSET Others]
NoLoad == [parts |-> {}, mode |-> "EVERYONE", picked |-> [m \in ListModes |-> {}],
           friends |-> {}]
Saves == [kind : {"mode", "list"}, mode : Modes, ids : SUBSET Others,
          pc : {"call", "ok", "refused"}, here : BOOLEAN]
saving == \E v \in saves : v.here
supportsCheckboxList == pageMode \in ListModes

SettingsPageTypeOK ==
  /\ onSettings \in BOOLEAN /\ pageLoading \in BOOLEAN /\ pageError \in BOOLEAN
  /\ pageMode \in Modes /\ pageFriends \subseteq Others /\ picked \in Picks
  /\ load \in Loads /\ saves \subseteq Saves
  /\ edited \subseteq Fields /\ overtaken \in BOOLEAN
  /\ missing \subseteq Others /\ lapsed \in BOOLEAN

SettingsPageInit ==
  /\ onSettings = FALSE /\ pageLoading = TRUE /\ pageError = FALSE
  /\ pageMode = "EVERYONE" /\ pageFriends = {} /\ picked = [m \in ListModes |-> {}]
  /\ load = NoLoad /\ saves = {}
  /\ edited = {} /\ overtaken = FALSE /\ missing = {} /\ lapsed = FALSE

Offers == onSettings /\ ~pageLoading /\ ~pageError

-----------------------------------------------------------------------------
(* load().                                                                  *)

StartLoad ==
  /\ pageLoading' = TRUE /\ pageError' = FALSE
  /\ load' = NoLoad
  /\ edited' = {} /\ overtaken' = FALSE /\ missing' = {} /\ lapsed' = FALSE
  /\ UNCHANGED accountVars

\* The state of a page that is set up anew; a page that is left has lost its own.
NewSettings ==
  /\ StartLoad
  /\ pageMode' = "EVERYONE" /\ pageFriends' = {} /\ picked' = NoLoad.picked

mountSettings == ~onSettings /\ onSettings' = TRUE /\ NewSettings /\ UNCHANGED saves

reload ==
  /\ onSettings /\ pageError
  /\ StartLoad
  /\ UNCHANGED <<onSettings, pageMode, pageFriends, picked, saves>>

\* A save under way is still executed; nothing waits for its answer.
unmountSettings ==
  /\ onSettings /\ onSettings' = FALSE
  /\ NewSettings
  /\ saves' = {[v EXCEPT !.here = FALSE] : v \in {w \in saves : w.pc = "call"}}

Loading == onSettings /\ pageLoading
\* getSettings reads the mode first, then the two lists at once.
readSharing(field) ==
  /\ Loading /\ field \notin load.parts
  /\ field # "mode" => "mode" \in load.parts
  /\ load' = [load EXCEPT !.parts = @ \cup {field},
                          !.mode = IF field = "mode" THEN serverMode ELSE @,
                          !.picked = [m \in ListModes |->
                                        IF m = field THEN ServerPicks[m] ELSE @[m]]]
  /\ UNCHANGED <<accountVars, onSettings, pageLoading, pageError, pageMode, pageFriends,
                 picked, saves, edited, overtaken, missing, lapsed>>

\* Mutant: the checkboxes include the users of the open requests.
readKnown ==
  /\ Loading /\ "friends" \notin load.parts
  /\ load' = [load EXCEPT !.parts = @ \cup {"friends"}, !.friends = Known]
  /\ lapsed' = FALSE
  /\ UNCHANGED <<accountVars, onSettings, pageLoading, pageError, pageMode, pageFriends,
                 picked, saves, edited, overtaken, missing>>
readPageFriends ==
  /\ Loading /\ "friends" \notin load.parts
  /\ load' = [load EXCEPT !.parts = @ \cup {"friends"}, !.friends = friends]
  /\ lapsed' = FALSE
  /\ UNCHANGED <<accountVars, onSettings, pageLoading, pageError, pageMode, pageFriends,
                 picked, saves, edited, overtaken, missing>>

loaded ==
  /\ Loading /\ load.parts = Fields \cup {"friends"}
  /\ pageMode' = load.mode /\ picked' = load.picked /\ pageFriends' = load.friends
  /\ pageLoading' = FALSE /\ load' = NoLoad
  /\ UNCHANGED <<accountVars, onSettings, pageError, saves, edited, overtaken, missing,
                 lapsed>>

\* One of the two requests fails.
notLoaded ==
  /\ Loading /\ load.parts # Fields \cup {"friends"}
  /\ pageError' = TRUE /\ pageLoading' = FALSE /\ load' = NoLoad
  /\ UNCHANGED <<accountVars, onSettings, pageMode, pageFriends, picked, saves, edited,
                 overtaken, missing, lapsed>>

-----------------------------------------------------------------------------
(* Editing.  Nothing is disabled while a save is under way but the buttons. *)

pickMode(m) ==
  /\ Offers /\ m # pageMode
  /\ pageMode' = m
  /\ edited' = edited \cup {"mode"}
  /\ UNCHANGED <<accountVars, onSettings, pageLoading, pageError, pageFriends, picked, load,
                 saves, overtaken, missing, lapsed>>

toggleFriend(u) ==
  /\ Offers /\ supportsCheckboxList /\ u \in pageFriends
  /\ picked' = [picked EXCEPT ![pageMode] = (@ \ {u}) \cup ({u} \ @)]
  /\ edited' = edited \cup {pageMode}
  /\ UNCHANGED <<accountVars, onSettings, pageLoading, pageError, pageMode, pageFriends,
                 load, saves, overtaken, missing, lapsed>>

-----------------------------------------------------------------------------
(* Saving.                                                                  *)

Save(kind, ids, fields) ==
  /\ Offers /\ ~saving
  /\ saves' = saves \cup {[kind |-> kind, mode |-> pageMode, ids |-> ids, pc |-> "call",
                           here |-> TRUE]}
  /\ edited' = edited \ fields
  /\ missing' = {}
  /\ UNCHANGED <<accountVars, onSettings, pageLoading, pageError, pageMode, pageFriends,
                 picked, load, overtaken, lapsed>>

saveMode == Save("mode", {}, {"mode"})

\* Mutant: only the ids that have a checkbox are saved.
saveShown ==
  /\ supportsCheckboxList
  /\ Save("list", picked[pageMode] \cap pageFriends, {"mode", pageMode})
\* Mutant: the list of the allowed friends is saved in either mode.
saveSelected ==
  supportsCheckboxList /\ Save("list", picked["SELECTED"], {"mode", pageMode})
\* The server takes the mode from the list.
saveList ==
  supportsCheckboxList /\ Save("list", picked[pageMode], {"mode", pageMode})

\* heard: the answer reaches the page.
serveSave(v, ok, heard) ==
  /\ v \in saves /\ v.pc = "call"
  /\ IF v.kind = "mode"
     THEN ok /\ updateSharingMode(v.mode)
     ELSE setFriends(v.mode, v.ids, ok)
  /\ saves' = (saves \ {v}) \cup
       IF v.here THEN {[v EXCEPT !.pc = IF ok /\ heard THEN "ok" ELSE "refused"]} ELSE {}
  /\ missing' = IF v.here /\ ~ok THEN v.ids \ friends ELSE missing
  /\ overtaken' = (overtaken \/ (ok /\ ~v.here))
  /\ UNCHANGED <<listVars, asked, former, events, onSettings, pageLoading, pageError,
                 pageMode, pageFriends, picked, load, edited, lapsed>>

loseSave(v) ==
  /\ v \in saves /\ v.pc = "call"
  /\ saves' = (saves \ {v}) \cup IF v.here THEN {[v EXCEPT !.pc = "refused"]} ELSE {}
  /\ UNCHANGED <<accountVars, onSettings, pageLoading, pageError, pageMode, pageFriends,
                 picked, load, edited, overtaken, missing, lapsed>>

\* A refused save leaves the page as it is, with an error text.
saved(v) ==
  /\ v \in saves /\ v.pc # "call"
  /\ saves' = saves \ {v}
  /\ edited' = IF v.pc = "ok" THEN edited
               ELSE edited \cup {"mode"} \cup IF v.kind = "list" THEN {v.mode} ELSE {}
  /\ UNCHANGED <<accountVars, onSettings, pageLoading, pageError, pageMode, pageFriends,
                 picked, load, overtaken, missing, lapsed>>

\* What the page notices of the other users: nothing.
Unnoticed ==
  /\ lapsed' = (lapsed \/ ~(friends \subseteq friends'))
  /\ UNCHANGED <<onSettings, pageLoading, pageError, pageMode, pageFriends, picked, load,
                 saves, edited, overtaken, missing>>

-----------------------------------------------------------------------------
SettingsClicks ==
  \/ reload \/ saveMode \/ saveList
  \/ \E m \in Modes : pickMode(m)
  \/ \E u \in Others : toggleFriend(u)

SettingsFailures ==
  \/ notLoaded
  \/ \E v \in saves : loseSave(v) \/ \E ok \in BOOLEAN : serveSave(v, ok, FALSE)

SettingsSteps ==
  \/ readPageFriends \/ loaded
  \/ \E field \in Fields : readSharing(field)
  \/ \E v \in saves : saved(v) \/ \E ok \in BOOLEAN : serveSave(v, ok, TRUE)

-----------------------------------------------------------------------------
(* Properties.                                                              *)

\* When nothing is under way, the mode and the lists on the page that the user
\* has not changed are the server's, unless a save of an earlier visit was
\* executed after this visit's load (load, saveMode, saveList).
PageAgrees ==
  Offers /\ ~saving /\ ~overtaken =>
    /\ "mode" \notin edited => pageMode = serverMode
    /\ \A m \in ListModes \ edited : picked[m] = ServerPicks[m]

\* A list is refused for users that were friends once and for nobody else, and for one
\* whose checkbox the page shows only when that friendship ended meanwhile (load,
\* toggleFriend, saveList, assertConfirmedFriends).
RefusalIsHidden ==
  onSettings => missing \subseteq former /\ (~lapsed => missing \cap pageFriends = {})

\* A former friend in a list who has no checkbox keeps that list as it is: every save of
\* it names him and is refused, whatever the user picks, as long as the two are no
\* friends again (removeFriendship leaves his row; load, toggleFriend, saveList).  A save
\* of an earlier visit that comes after the load is the exception.
FormerFriendsBlock ==
  [][\A m \in ListModes : ServerPicks'[m] # ServerPicks[m] /\ ~overtaken' =>
       ServerPicks[m] \ friends \subseteq pageFriends]_<<accountVars, settingsVars>>
=============================================================================
