------------------------------- MODULE Pages -------------------------------
(***************************************************************************)
(* The two pages over one account.  The user goes from one to the other; a  *)
(* page that is left is unmounted and forgets its state, its requests go on.*)
(***************************************************************************)
EXTENDS FriendsPage, SettingsPage

otherPageVars == <<viewVars, dialogVars, searchVars, sendLoading, job, stale>>
pagesVars == <<accountVars, friendsPageVars, settingsVars>>

PagesInit == AccountInit /\ FriendsPageInit /\ SettingsPageInit

PagesTypeOK == AccountTypeOK /\ FriendsPageTypeOK /\ SettingsPageTypeOK

OneClick == clicks < MaxClicks /\ clicks' = clicks + 1
OneFailure == failures < MaxFailures /\ failures' = failures + 1

\* A link of the layout; the dialog covers it.
goToFriends(s) ==
  /\ ~onFriends /\ OneClick
  /\ mountFriends(s)
  /\ IF onSettings THEN unmountSettings ELSE UNCHANGED settingsVars

goToSettings ==
  /\ ~onSettings /\ OneClick
  /\ IF onFriends
     THEN unmountFriends
     ELSE UNCHANGED <<accountVars, otherPageVars, failures>>
  /\ mountSettings

PagesNext ==
  \/ FriendsPageNext /\ Unnoticed
  \/ \E s \in Slots : goToFriends(s)
  \/ goToSettings
  \/ OneClick /\ SettingsClicks /\ UNCHANGED <<otherPageVars, failures>>
  \/ OneFailure /\ SettingsFailures /\ UNCHANGED <<otherPageVars, clicks>>
  \/ SettingsSteps /\ UNCHANGED <<otherPageVars, clicks, failures>>

PagesSpec == PagesInit /\ [][PagesNext]_pagesVars
=============================================================================
