---------------------------- MODULE ContentScript ----------------------------
(***************************************************************************)
(* The content script (src/src/autofill/content.ts) on a page with one     *)
(* login form, and the autofill messages of router.ts it lives on: the     *)
(* icon and the menu that follow the focus, filling, and the bar that      *)
(* offers to save a submitted login.                                       *)
(*                                                                         *)
(* What the script does between two awaits is one action.  A task is a     *)
(* promise that waits for the worker: the worker reads the vault and the   *)
(* preferences at one time, and its answer arrives at a later one, in any  *)
(* order with other answers and with the broadcasts of a lock.             *)
(*                                                                         *)
(* What stands for what.  The form has a user name and a password field,   *)
(* and is taken out of the page and put back as a whole.  A submission is  *)
(* a number, which also stands for its password.  All are of one user, of  *)
(* whom Firefox has an older password, number 0, that the options page can *)
(* import.  The site's logins are the passwords of the vault's records.    *)
(* Where overlays are drawn, and the sizes they report, are left out; but  *)
(* they are drawn in the page, so drawing one sets off the observer of the *)
(* page's changes as well.                                                 *)
(***************************************************************************)
EXTENDS Integers, Sequences, FiniteSets

CONSTANTS
  Tasks,         \* promises under way at once
  Modes,         \* the values of the inlineMenu setting in use
  MaxEvents      \* bound: what the user, the page and the vault do

ASSUME ScriptAssumption == MaxEvents \in Nat

VARIABLES
  form, active,  \* the page: is the form there, and document.activeElement
  state,         \* the script: what it knows of forms, matches, mode, lock and focus
  ui,            \* the script: button and menu
  pending, bar,  \* the script: the captured submission, the one the bar asks about
  dom, blur,     \* the script: the timers of observeDom and of focusout
  task, news,    \* promises under way, and broadcasts on their way to the tab
  vault,         \* the worker: lock, preferences and the site's logins
  \* History: an answer from before a lock came after it; the user chose a login,
  \* with no other focus to be dealt with; a verdict, a save or an import overlapped one; the
  \* form went with the focus in it, which no focusout told since; what was captured
  \* was captured again.
  late, chosen, rushed, lost, again,
  captures, events

script == <<state, ui, dom, blur>>
saving == <<pending, bar, rushed, again, captures>>
vars == <<form, active, script, saving, task, news, vault, late, chosen, lost, events>>

Fields == {"username", "password"}
None == "none"
NoMenu == [field |-> None, shows |-> "nothing"]
NoCapture == 0
NoBar == [cap |-> NoCapture, existing |-> FALSE]
Unread == [open |-> FALSE, mode |-> "on", fills |-> FALSE, never |-> FALSE, logins |-> <<>>]
Idle == [kind |-> "idle", field |-> None, fill |-> FALSE, bar |-> NoBar, answer |-> "none", saw |-> Unread]

Init ==
  /\ form = FALSE /\ active = None
  /\ state = [forms |-> FALSE, matches |-> FALSE, unlocked |-> FALSE, mode |-> "on", focused |-> None]
  /\ ui = [button |-> None, menu |-> NoMenu]
  /\ pending = NoCapture /\ bar = NoBar /\ rushed = FALSE /\ again = FALSE /\ captures = 0
  /\ dom = TRUE /\ blur = FALSE
  /\ task = [t \in Tasks |-> Idle] /\ news = <<>>
  /\ vault \in [open: {TRUE}, mode: Modes, fills: BOOLEAN, never: {FALSE}, logins: {<<>>, <<0>>}]
  /\ late = FALSE /\ chosen = FALSE /\ lost = FALSE /\ events = 0

-----------------------------------------------------------------------------
\* Button and menu.

\* The overlays are elements of the page that observeDom watches.
Redrawn == ui' # ui

\* observeDom sees it, and sets its timer.
Redraws == dom' = (dom \/ Redrawn)

TeardownMenu(u) == [u EXCEPT !.menu = NoMenu]
TeardownButton(u) == [button |-> None, menu |-> NoMenu]

MountButton(u, field) == IF u.button = field THEN u ELSE [button |-> field, menu |-> NoMenu]

\* placeButton: on the focused field, else on the form's first.
PlaceButton(s, u) ==
  IF ~s.forms THEN TeardownButton(u)
  ELSE MountButton(u, IF s.focused \in Fields THEN s.focused ELSE "username")

OpenMenu(s, u, field) ==
  IF ~s.forms \/ u.menu.field = field THEN u
  ELSE [u EXCEPT !.menu = [field |-> field, shows |-> "loading"]]

ShouldOpenOnFocus(s) == s.mode # "off" /\ s.unlocked /\ s.matches

\* A faulty variant: what the filling focuses counts as the user's focus.
FocusRest_Reopens(s, u, field, fill) ==
  IF s.focused # field \/ field \notin Fields \/ ~s.forms THEN u
  ELSE IF ShouldOpenOnFocus(s) THEN OpenMenu(s, MountButton(u, field), field)
  ELSE TeardownMenu(MountButton(u, field))

\* fieldFocused after its refresh.
FocusRest(s, u, field, fill) ==
  IF s.focused # field \/ field \notin Fields \/ ~s.forms THEN u
  ELSE IF ~fill /\ ShouldOpenOnFocus(s) THEN OpenMenu(s, MountButton(u, field), field)
  ELSE TeardownMenu(MountButton(u, field))

\* The menu page: a note when locked or when there are none, else the logins.
Listing(s) == IF s.unlocked /\ s.matches THEN "logins" ELSE "note"

\* It is told what the script knows when the page has loaded.
MenuLoads ==
  /\ ui.menu.shows = "loading"
  /\ ui' = [ui EXCEPT !.menu.shows = Listing(state)]
  /\ Redraws
  /\ UNCHANGED <<form, active, state, blur, saving, task, news, vault, late, chosen, lost, events>>

-----------------------------------------------------------------------------
\* What the user does.

Event == events < MaxEvents /\ events' = events + 1
Free(t) == task[t] = Idle
Put(t, w) == task' = [task EXCEPT ![t] = w]
Asking(kind, field, fill) == [Idle EXCEPT !.kind = kind, !.field = field, !.fill = fill]

\* refresh up to its await; without a form it is over.  It is asked for by a change
\* of the page (no field), or by the focus of a field.
Detects == state' = [state EXCEPT !.forms = @ \/ form]

\* focusin, and the focusout before it.
Focus(t, field) ==
  /\ Event /\ Free(t) /\ active # field
  /\ field \in Fields => form
  /\ active' = field /\ blur' = (blur \/ active # None)
  /\ state' = [state EXCEPT !.forms = @ \/ form, !.focused = field]
  /\ IF form THEN Put(t, Asking("query", field, FALSE)) /\ UNCHANGED ui
     ELSE ui' = TeardownButton(ui) /\ UNCHANGED task
  /\ Redraws
  /\ chosen' = FALSE /\ UNCHANGED lost
  /\ UNCHANGED <<form, saving, news, vault, late>>

\* The focus goes to the page, which says focusout.
Leave ==
  /\ Event /\ active # None
  /\ active' = None /\ blur' = TRUE
  /\ chosen' = FALSE /\ UNCHANGED lost
  /\ UNCHANGED <<form, state, ui, dom, saving, task, news, vault, late>>

\* A click on the icon moves the focus into an overlay; browsers differ in whether
\* the page sees a focusin of its host.
ClickButton ==
  /\ Event /\ ui.button # None
  /\ active' = "overlay" /\ blur' = (blur \/ (active # None /\ active # "overlay"))
  /\ \E focused \in {state.focused, None} : state' = [state EXCEPT !.focused = focused]
  /\ ui' = IF ui.menu.field = ui.button THEN TeardownMenu(ui) ELSE OpenMenu(state, ui, ui.button)
  /\ Redraws
  /\ chosen' = FALSE /\ UNCHANGED lost
  /\ UNCHANGED <<form, saving, task, news, vault, late>>

\* Escape, in the page or in the menu.
Escape ==
  /\ Event /\ ui.menu # NoMenu
  /\ ui' = TeardownMenu(ui)
  /\ Redraws
  /\ UNCHANGED <<form, active, state, blur, saving, task, news, vault, late, chosen, lost>>

\* menu/fill.
Choose(t) ==
  /\ Event /\ Free(t) /\ ui.menu.shows = "logins"
  /\ active' = "overlay" /\ blur' = (blur \/ (active # None /\ active # "overlay"))
  /\ Put(t, Asking("reveal", None, FALSE))
  /\ chosen' = FALSE /\ UNCHANGED lost
  /\ UNCHANGED <<form, state, ui, dom, saving, news, vault, late>>

\* The form comes or goes.  A focus in it goes without a focusout.
FormChanges ==
  /\ Event
  /\ form' = ~form /\ dom' = TRUE
  /\ active' = IF active \in Fields THEN None ELSE active
  /\ lost' = (lost \/ active \in Fields)
  /\ UNCHANGED <<state, ui, blur, saving, task, news, vault, late, chosen>>

-----------------------------------------------------------------------------
\* The timers, and broadcasts.

DomTimer(t) ==
  /\ dom /\ Free(t)
  /\ Detects
  /\ IF form THEN Put(t, Asking("query", None, FALSE)) /\ UNCHANGED ui
     ELSE ui' = TeardownButton(ui) /\ UNCHANGED task
  /\ dom' = Redrawn
  /\ UNCHANGED <<form, active, blur, saving, news, vault, late, chosen, lost, events>>

\* A faulty variant: focus in an overlay counts as focus that left.
BlurTimer_Overlay ==
  /\ blur /\ blur' = FALSE
  /\ UNCHANGED <<state, ui, dom>>
  /\ UNCHANGED <<form, active, saving, task, news, vault, late, chosen, lost, events>>

BlurTimer ==
  /\ blur /\ blur' = FALSE
  /\ IF active = "overlay" \/ (active \in Fields /\ state.forms)
       THEN UNCHANGED <<state, ui, lost>>
       ELSE /\ state' = [state EXCEPT !.focused = None]
            /\ ui' = PlaceButton(state', TeardownMenu(ui))
            /\ lost' = FALSE
  /\ Redraws
  /\ UNCHANGED <<form, active, saving, task, news, vault, late, chosen, events>>

Lock ==
  /\ Event /\ vault.open
  /\ vault' = [vault EXCEPT !.open = FALSE] /\ news' = Append(news, "locked")
  /\ UNCHANGED <<form, active, script, saving, task, late, chosen, lost>>

Unlock ==
  /\ Event /\ ~vault.open
  /\ vault' = [vault EXCEPT !.open = TRUE] /\ news' = Append(news, "unlocked")
  /\ UNCHANGED <<form, active, script, saving, task, late, chosen, lost>>

SetMode(mode) ==
  /\ Event /\ vault.mode # mode
  /\ vault' = [vault EXCEPT !.mode = mode]
  /\ UNCHANGED <<form, active, script, saving, task, news, late, chosen, lost>>

\* A faulty variant: the menu goes, what it showed stays.
HearLocked_MenuOnly ==
  /\ news # <<>> /\ Head(news) = "locked" /\ news' = Tail(news)
  /\ ui' = TeardownMenu(ui)
  /\ Redraws
  /\ late' = FALSE
  /\ UNCHANGED <<form, active, state, blur, saving, task, vault, chosen, lost, events>>

HearLocked ==
  /\ news # <<>> /\ Head(news) = "locked" /\ news' = Tail(news)
  /\ state' = [state EXCEPT !.unlocked = FALSE, !.matches = FALSE]
  /\ ui' = TeardownMenu(ui)
  /\ Redraws
  /\ late' = FALSE
  /\ UNCHANGED <<form, active, blur, saving, task, vault, chosen, lost, events>>

HearUnlocked(t) ==
  /\ news # <<>> /\ Head(news) = "unlocked" /\ news' = Tail(news) /\ Free(t)
  /\ Detects
  /\ IF form THEN Put(t, Asking("query", None, FALSE)) /\ UNCHANGED ui
     ELSE ui' = TeardownButton(ui) /\ UNCHANGED task
  /\ Redraws
  /\ UNCHANGED <<form, active, blur, saving, vault, late, chosen, lost, events>>

-----------------------------------------------------------------------------
\* The worker.

\* It reads the vault and the preferences; a locked vault refuses to reveal or save.
\* A query that finds no worker fails, and an import that finds no bridge.
Answer(t) ==
  /\ task[t].kind # "idle" /\ task[t].answer = "none"
  /\ LET w == task[t]
         needsKey == w.kind \in {"reveal", "autofill", "save", "import"}
         answer == [w EXCEPT !.answer = IF needsKey /\ ~vault.open THEN "failed" ELSE "given", !.saw = vault]
     IN \/ Put(t, answer)
        \/ w.kind \in {"query", "import"} /\ Put(t, [w EXCEPT !.answer = "failed"])
  /\ vault' = IF task'[t].answer = "failed" THEN vault
              ELSE IF task[t].kind = "never" THEN [vault EXCEPT !.never = TRUE]
              ELSE IF task[t].kind # "save" THEN vault
              ELSE IF task[t].bar.existing THEN [vault EXCEPT !.logins[1] = task[t].bar.cap]
              ELSE [vault EXCEPT !.logins = Append(@, task[t].bar.cap)]
  /\ UNCHANGED <<form, active, script, saving, news, late, chosen, lost, events>>

-----------------------------------------------------------------------------
\* What the script does with the answers.

Fails(t) ==
  /\ task[t].answer = "failed"
  /\ Put(t, Idle)
  /\ ui' = IF task[t].kind = "query" /\ task[t].field # None
             THEN FocusRest(state, ui, task[t].field, task[t].fill)
             ELSE ui
  /\ Redraws
  /\ UNCHANGED <<form, active, state, blur, saving, news, vault, late, chosen, lost, events>>

Given(t, kind) == task[t].kind = kind /\ task[t].answer = "given"

\* refresh after its await: button, filling without being asked, and the rest of
\* fieldFocused.
Refreshed(t) ==
  /\ Given(t, "query")
  /\ LET w == task[t]
         saw == w.saw
         matches == saw.open /\ saw.logins # <<>>
         s == [state EXCEPT !.matches = matches, !.unlocked = saw.open, !.mode = saw.mode]
         u == IF saw.mode = "off" THEN TeardownButton(ui) ELSE PlaceButton(s, ui)
     IN /\ state' = s
        /\ late' = (late \/ (saw.open /\ ~vault.open /\ ~(\E k \in DOMAIN news : news[k] = "locked")))
        /\ IF saw.fills /\ saw.open /\ Len(saw.logins) = 1 /\ saw.mode # "off"
             THEN ui' = u /\ Put(t, [Asking("autofill", w.field, w.fill) EXCEPT !.saw = Unread])
             ELSE /\ ui' = IF w.field = None THEN u ELSE FocusRest(s, u, w.field, w.fill)
                  /\ Put(t, Idle)
  /\ Redraws
  /\ UNCHANGED <<form, active, blur, saving, news, vault, chosen, lost, events>>

\* Filling focuses user name and password in turn, and the password keeps it.
Filled(s) == [s EXCEPT !.forms = TRUE, !.focused = "password"]

\* fillById after its await.  Each focus says focusin and refreshes; both ask the
\* same, and only the second, whose field keeps the focus, is followed.
Fill(t) ==
  /\ Given(t, "reveal") \/ Given(t, "autofill")
  /\ LET w == task[t]
         fills == form /\ w.saw.logins # <<>>
         s == IF fills THEN Filled(state) ELSE state
     IN /\ state' = s
        /\ active' = (IF fills THEN "password" ELSE active)
        /\ blur' = (blur \/ fills)
        /\ ui' = IF w.kind = "reveal" THEN TeardownMenu(ui)
                 ELSE IF w.field = None THEN ui
                 ELSE FocusRest(s, ui, w.field, w.fill)
        /\ Put(t, IF fills THEN Asking("query", "password", TRUE) ELSE Idle)
        /\ chosen' = (w.kind = "reveal" /\ \A u \in Tasks \ {t} : task[u] = Idle)
  /\ Redraws /\ UNCHANGED lost
  /\ UNCHANGED <<form, saving, news, vault, late, events>>

-----------------------------------------------------------------------------
\* Saving.

\* rememberSubmission reads the forms the script knows.  One that is gone from the
\* page is among them until others are found, and keeps its values.
Captures == state.forms /\ (form \/ captures > 0)

\* A submit, Enter or a click on a button.
Submit ==
  /\ Event /\ Captures
  /\ captures' = (IF form THEN captures + 1 ELSE captures) /\ pending' = captures'
  /\ again' = (again \/ ~form)
  /\ UNCHANGED <<form, active, script, bar, rushed, task, news, vault, late, chosen, lost>>

Saving(t) == task[t].kind \in {"captured", "save", "import"}
Rush == rushed' = (rushed \/ \E t \in Tasks : Saving(t))
SavingOnly ==
  /\ dom' = (dom \/ bar' # bar)
  /\ UNCHANGED <<form, active, state, ui, blur, news, vault, late, chosen, lost>>

\* A faulty variant: the capture is kept until the verdict.
Prompt_Keeps(t) ==
  /\ pending # NoCapture /\ Free(t)
  /\ (~form /\ UNCHANGED events) \/ Event
  /\ Put(t, [Asking("captured", None, FALSE) EXCEPT !.bar = [NoBar EXCEPT !.cap = pending]])
  /\ Rush
  /\ UNCHANGED <<pending, bar, again, captures>> /\ SavingOnly

\* maybePromptToSave up to its await: the password field is gone, or the page is.
Prompt(t) ==
  /\ pending # NoCapture /\ Free(t)
  /\ (~form /\ UNCHANGED events) \/ Event
  /\ pending' = NoCapture
  /\ Put(t, [Asking("captured", None, FALSE) EXCEPT !.bar = [NoBar EXCEPT !.cap = pending]])
  /\ Rush
  /\ UNCHANGED <<bar, again, captures>> /\ SavingOnly

\* A faulty variant: a changed password is saved as another login.
Verdict_New(saw, cap) ==
  IF saw.never \/ ~saw.open \/ (saw.logins # <<>> /\ saw.logins[1] = cap) THEN NoBar
  ELSE [cap |-> cap, existing |-> FALSE]

\* autofill/captured.
Verdict(saw, cap) ==
  IF saw.never \/ ~saw.open \/ (saw.logins # <<>> /\ saw.logins[1] = cap) THEN NoBar
  ELSE [cap |-> cap, existing |-> saw.logins # <<>>]

Prompted(t) ==
  /\ Given(t, "captured")
  /\ LET verdict == Verdict(task[t].saw, task[t].bar.cap) IN
     bar' = IF verdict = NoBar THEN bar ELSE verdict
  /\ Put(t, Idle)
  /\ UNCHANGED <<pending, rushed, again, captures, events>> /\ SavingOnly

\* The bar's page, and its buttons.
BarAsks == bar # NoBar

BarSave(t) ==
  /\ Event /\ BarAsks /\ Free(t)
  /\ Put(t, [Asking("save", None, FALSE) EXCEPT !.bar = bar])
  /\ Rush
  /\ UNCHANGED <<pending, bar, again, captures>> /\ SavingOnly

BarNever(t) ==
  /\ Event /\ BarAsks /\ Free(t)
  /\ Put(t, [Asking("never", None, FALSE) EXCEPT !.bar = bar])
  /\ UNCHANGED saving /\ SavingOnly

\* Whichever bar is there by then is dismissed.
Saved(t) ==
  /\ Given(t, "save") \/ Given(t, "never")
  /\ bar' = NoBar
  /\ Put(t, Idle)
  /\ UNCHANGED <<pending, rushed, again, captures, events>> /\ SavingOnly

BarDismiss ==
  /\ Event /\ BarAsks
  /\ bar' = NoBar
  /\ UNCHANGED <<pending, rushed, again, captures, task>> /\ SavingOnly

\* The options page imports the login that Firefox has; a bar that asks was judged
\* before.
Import(t) ==
  /\ Event /\ Free(t)
  /\ Put(t, Asking("import", None, FALSE))
  /\ rushed' = (rushed \/ bar # NoBar \/ \E u \in Tasks : Saving(u))
  /\ UNCHANGED <<pending, bar, again, captures>> /\ SavingOnly

\* importFromFirefox after it listed the vault: what the list lacked is added.
Imports(t) ==
  /\ Given(t, "import")
  /\ vault' = IF task[t].saw.logins = <<>> /\ vault.open
                 THEN [vault EXCEPT !.logins = Append(@, 0)] ELSE vault
  /\ Put(t, Idle)
  /\ UNCHANGED <<form, active, script, saving, news, late, chosen, lost, events>>

Runs(t) ==
  \/ DomTimer(t) \/ HearUnlocked(t) \/ Answer(t) \/ Fails(t) \/ Refreshed(t) \/ Fill(t) \/ Prompted(t) \/ Saved(t)
  \/ Imports(t)

Next ==
  \/ \E t \in Tasks : \/ \E field \in Fields \cup {"other"} : Focus(t, field)
                      \/ Choose(t) \/ Runs(t) \/ Prompt(t) \/ BarSave(t) \/ BarNever(t)
                      \/ Import(t)
  \/ MenuLoads \/ Leave \/ ClickButton \/ Escape \/ FormChanges \/ BlurTimer
  \/ Lock \/ Unlock \/ HearLocked \/ Submit \/ BarDismiss
  \/ \E mode \in Modes : SetMode(mode)

Spec == Init /\ [][Next]_vars

-----------------------------------------------------------------------------
\* Properties.

Bars == [cap: 0..MaxEvents, existing: BOOLEAN]
Vaults == [open: BOOLEAN, mode: Modes \cup {"on"}, fills: BOOLEAN, never: BOOLEAN, logins: Seq(0..MaxEvents)]
Places == Fields \cup {None, "other", "overlay"}

\* The values of the variables; a menu is on the button's field, for both are torn
\* down together.
TypeOK ==
  /\ {form, dom, blur, late, chosen, rushed, lost, again} \subseteq BOOLEAN /\ active \in Places
  /\ state \in [forms: BOOLEAN, matches: BOOLEAN, unlocked: BOOLEAN, mode: Modes \cup {"on"}, focused: Places]
  /\ ui.button \in Fields \cup {None} /\ ui.menu.shows \in {"nothing", "loading", "note", "logins"}
  /\ ui.menu.field \in {None, ui.button} /\ (ui.menu.field = None <=> ui.menu.shows = "nothing")
  /\ pending \in 0..MaxEvents /\ bar \in Bars /\ captures \in 0..MaxEvents /\ events \in 0..MaxEvents
  /\ task \in [Tasks -> [kind: {"idle", "query", "reveal", "autofill", "captured", "save", "never", "import"},
                         field: Places, fill: BOOLEAN, bar: Bars, answer: {"none", "failed", "given"},
                         saw: Vaults]]
  /\ news \in Seq({"locked", "unlocked"}) /\ vault \in Vaults

\* A locked vault's logins are neither known to the script nor in the menu, once the
\* lock was heard, unless an answer from before it came after (content.ts:116).
LockedPageForgets ==
  ~vault.open /\ news = <<>> /\ ~late
    => ~state.matches /\ ~state.unlocked /\ ui.menu.shows # "logins"

Settled == ~dom /\ ~blur /\ news = <<>> /\ \A t \in Tasks : task[t] = Idle

\* When nothing is under way, a menu is on the field that has the focus, or the
\* focus is in an overlay (content.ts:492-499), or the form was taken out of the page
\* meanwhile, which no focusout tells.
MenuFollowsFocus ==
  Settled /\ ~lost => ui.menu = NoMenu \/ active \in {ui.menu.field, "overlay"}

\* Filling the login the user chose does not open the menu again, though it focuses
\* the fields and each focus asks anew (content.ts:272-276).
ChosenStaysShut == chosen => ui.menu = NoMenu

\* A submission is waiting, judged or in the bar, not several of them at once, though
\* the page's end and the form's can both ask (content.ts:361-376); unless a click
\* captured it again from the form that was gone.
AskedOnce ==
  again \/ \A t \in Tasks : task[t].kind = "captured" =>
    /\ task[t].bar.cap \notin {pending, bar.cap}
    /\ \A u \in Tasks \ {t} : task[u].kind = "captured" => task[u].bar.cap # task[t].bar.cap

\* A user's submissions, and what is imported, make one login, updated by later ones,
\* unless a verdict, a save or an import overlapped another (router.ts:260-270 and
\* 435-449, content.ts:409-419).
SavedOnce == rushed \/ Len(vault.logins) <= 1

\* The menu is where the user is and gone when the user has chosen, however answers,
\* focus events and changes of the page are ordered (content.ts:272-276, 492-499).
MenuFollowsUser == TypeOK /\ MenuFollowsFocus /\ ChosenStaysShut

=============================================================================
