----------------------------- MODULE ScriptProofs -----------------------------
(***************************************************************************)
(* The content script, for any number of promises and events: a locked     *)
(* page forgets, the menu follows the user, and a submission is asked      *)
(* about and saved once.                                                   *)
(***************************************************************************)
EXTENDS ContentScript, TLAPS

\* The values of the variables.
State == [forms: BOOLEAN, matches: BOOLEAN, unlocked: BOOLEAN, mode: Modes \cup {"on"}, focused: Places]
Menu == [field: Fields \cup {None}, shows: {"nothing", "loading", "note", "logins"}]
Ui == [button: Fields \cup {None}, menu: Menu]
Kinds == {"idle", "query", "reveal", "autofill", "captured", "save", "never", "import"}
Task == [kind: Kinds, field: Places, fill: BOOLEAN, bar: Bars, answer: {"none", "failed", "given"}, saw: Vaults]

\* A menu is on the button's field.
OnButton(u) == u.menu.field \in {None, u.button} /\ (u.menu.field = None <=> u.menu.shows = "nothing")

PageTypes ==
  /\ form \in BOOLEAN /\ dom \in BOOLEAN /\ blur \in BOOLEAN /\ active \in Places
  /\ state \in State /\ ui \in Ui /\ OnButton(ui)
HistoryTypes ==
  late \in BOOLEAN /\ chosen \in BOOLEAN /\ rushed \in BOOLEAN /\ lost \in BOOLEAN /\ again \in BOOLEAN
WorkTypes == task \in [Tasks -> Task] /\ news \in Seq({"locked", "unlocked"}) /\ vault \in Vaults
CaptureTypes ==
  /\ pending \in 0..MaxEvents /\ bar \in Bars
  /\ captures \in 0..MaxEvents /\ events \in 0..MaxEvents /\ captures <= events

Types == PageTypes /\ HistoryTypes /\ WorkTypes /\ CaptureTypes

\* Once the vault is locked, a lock is on its way to the script, or what it knew is gone.
Forgets ==
  ~vault.open /\ ~late /\ (\A k \in DOMAIN news : news[k] # "locked")
    => ~state.matches /\ ~state.unlocked /\ ui.menu.shows # "logins"

\* The script knows the field that has the focus; focus that left it is in an overlay or
\* the timer of focusout runs.
Tracks ==
  /\ active \in Fields => state.forms /\ state.focused = active
  /\ ~lost /\ state.focused \in Fields => blur \/ active \in {state.focused, "overlay"}

\* A menu is where the focus is, or the script will see that it is not: by the timer of
\* focusout, or by the answer that the newly focused field waits for.
Follows(t, field) == task[t].kind = "query" /\ task[t].field = field
MenuTracks ==
  ~lost /\ ui.menu # NoMenu =>
    \/ active = "overlay" \/ active = ui.menu.field
    \/ active \notin Fields /\ blur
    \/ active \in Fields /\ \E t \in Tasks : Follows(t, active)

\* Once the user has chosen, only the filling's own focus is being answered.
Stays == chosen => ui.menu = NoMenu /\ \A t \in Tasks : task[t].field \in Fields => task[t].fill

MenuInv == Tracks /\ MenuTracks /\ Stays

\* Captured submissions are numbered; the one that waits, the one in the bar and those
\* being judged are different ones.
Numbered ==
  /\ pending <= captures /\ bar.cap <= captures
  /\ \A t \in Tasks : task[t].bar.cap <= captures /\ (task[t].kind = "captured" => task[t].bar.cap # NoCapture)
Apart == ~again => AskedOnce /\ (pending # NoCapture => pending # bar.cap)
AskInv == Numbered /\ Apart

\* While nothing is rushed, one verdict, save or import runs at a time, and what it has
\* read of the vault, and what the bar says of it, is true.
Empty == vault.logins = <<>>
Judged(t) == task[t].kind \in {"captured", "import"} /\ task[t].answer = "given"
Stored(t) == task[t].kind = "save" /\ task[t].answer = "given"
OneAtATime == \A t, u \in Tasks : Saving(t) /\ Saving(u) => t = u
AnswersHold ==
  \A t \in Tasks :
    /\ Judged(t) => (task[t].saw.logins = <<>> <=> Empty)
    /\ task[t].kind = "import" => bar = NoBar
    /\ task[t].kind = "save" /\ task[t].answer = "none" => (task[t].bar.existing <=> ~Empty)
BarHolds == bar # NoBar /\ (\A t \in Tasks : ~Stored(t)) => (bar.existing <=> ~Empty)
SaveInv == ~rushed => Len(vault.logins) <= 1 /\ OneAtATime /\ AnswersHold /\ BarHolds

-----------------------------------------------------------------------------
\* Button and menu.

\* A menu that is there is on a field.
LEMMA MenuIsOnField ==
  ASSUME NEW u \in Ui, OnButton(u)
  PROVE  u.menu = NoMenu \/ u.menu.field \in Fields
<1>1. u.menu \in Menu
  BY DEF Ui
<1>2. u.menu.field = None => u.menu = NoMenu
  BY <1>1 DEF OnButton, Menu, NoMenu
<1> QED BY <1>1, <1>2 DEF Menu

\* Drawing the overlays: what becomes of a menu that is there.
LEMMA Overlays ==
  ASSUME NEW u \in Ui, OnButton(u), NEW s \in State, NEW field \in Fields
  PROVE  /\ TeardownMenu(u) \in Ui /\ OnButton(TeardownMenu(u))
         /\ TeardownMenu(u).menu = NoMenu /\ TeardownMenu(u).button = u.button
         /\ TeardownButton(u) \in Ui /\ OnButton(TeardownButton(u))
         /\ TeardownButton(u).menu = NoMenu
         /\ MountButton(u, field) \in Ui /\ OnButton(MountButton(u, field))
         /\ MountButton(u, field).menu \in {u.menu, NoMenu} /\ MountButton(u, field).button = field
         /\ PlaceButton(s, u) \in Ui /\ OnButton(PlaceButton(s, u))
         /\ PlaceButton(s, u).menu \in {u.menu, NoMenu}
         /\ s.forms /\ s.focused \in Fields => PlaceButton(s, u).button = s.focused
<1>1. NoMenu \in Menu /\ NoMenu.field = None /\ NoMenu.shows = "nothing"
  BY DEF NoMenu, Menu
<1>2. /\ TeardownMenu(u) \in Ui /\ OnButton(TeardownMenu(u))
      /\ TeardownMenu(u).menu = NoMenu /\ TeardownMenu(u).button = u.button
  BY <1>1 DEF TeardownMenu, Ui, OnButton
<1>3. /\ TeardownButton(u) \in Ui /\ OnButton(TeardownButton(u))
      /\ TeardownButton(u).menu = NoMenu
  BY <1>1 DEF TeardownButton, Ui, OnButton
<1>4. ASSUME NEW f \in Fields
      PROVE  /\ MountButton(u, f) \in Ui /\ OnButton(MountButton(u, f))
             /\ MountButton(u, f).menu \in {u.menu, NoMenu} /\ MountButton(u, f).button = f
  BY <1>1, <1>4 DEF MountButton, Ui, OnButton
<1>5. "username" \in Fields
  BY DEF Fields
<1>6. /\ PlaceButton(s, u) \in Ui /\ OnButton(PlaceButton(s, u))
      /\ PlaceButton(s, u).menu \in {u.menu, NoMenu}
      /\ s.forms /\ s.focused \in Fields => PlaceButton(s, u).button = s.focused
  <2>1. CASE ~s.forms
    BY <1>3, <2>1 DEF PlaceButton
  <2>2. CASE s.forms /\ s.focused \in Fields
    BY <1>4, <2>2 DEF PlaceButton
  <2>3. CASE s.forms /\ s.focused \notin Fields
    BY <1>4, <1>5, <2>3 DEF PlaceButton
  <2> QED BY <2>1, <2>2, <2>3
<1> QED BY <1>2, <1>3, <1>4, <1>6

\* Opening the menu of the button.
LEMMA Opens ==
  ASSUME NEW u \in Ui, OnButton(u), NEW s \in State, NEW field \in Fields, u.button = field
  PROVE  /\ OpenMenu(s, u, field) \in Ui /\ OnButton(OpenMenu(s, u, field))
         /\ OpenMenu(s, u, field).menu \in {u.menu, [field |-> field, shows |-> "loading"]}
<1>1. [field |-> field, shows |-> "loading"] \in Menu /\ field # None
  BY DEF Menu, Fields, None
<1>2. u \in [button: Fields \cup {None}, menu: Menu]
  BY DEF Ui
<1>3. CASE ~s.forms \/ u.menu.field = field
  BY <1>3 DEF OpenMenu
<1>4. CASE s.forms /\ u.menu.field # field
  <2> DEFINE m == [field |-> field, shows |-> "loading"]
  <2>1. OpenMenu(s, u, field) = [u EXCEPT !.menu = m]
    BY <1>4 DEF OpenMenu
  <2>2. m.field = field /\ m.shows = "loading" /\ m \in Menu
    BY <1>1
  <2> HIDE DEF m
  <2>3. LET v == [u EXCEPT !.menu = m] IN v \in Ui /\ v.menu = m /\ v.button = field
    BY <1>2, <2>2 DEF Ui
  <2> QED BY <1>1, <2>1, <2>2, <2>3 DEF OnButton, m
<1> QED BY <1>3, <1>4

\* What follows the focus of a field closes the menu, leaves it, or opens it there for
\* the user's own focus.
LEMMA Rests ==
  ASSUME NEW u \in Ui, OnButton(u), NEW s \in State, NEW place \in Places, NEW fill \in BOOLEAN,
         NEW v, v = FocusRest(s, u, place, fill)
  PROVE  /\ v \in Ui /\ OnButton(v)
         /\ \/ v.menu \in {u.menu, NoMenu}
            \/ /\ ~fill /\ place \in Fields /\ s.focused = place
               /\ v.menu = [field |-> place, shows |-> "loading"]
         /\ place \in Fields /\ s.focused = place /\ s.forms => v.menu.field \in {None, place}
<1>1. CASE s.focused # place \/ place \notin Fields \/ ~s.forms
  BY <1>1 DEF FocusRest
<1>2. CASE s.focused = place /\ place \in Fields /\ s.forms
  <2> DEFINE b == MountButton(u, place)
  <2>1. b \in Ui /\ OnButton(b) /\ b.menu \in {u.menu, NoMenu} /\ b.button = place
    BY <1>2, Overlays
  <2>2. CASE ~fill /\ ShouldOpenOnFocus(s)
    <3>1. v = OpenMenu(s, b, place)
      BY <1>2, <2>2 DEF FocusRest
    <3> HIDE DEF b
    <3>2. v \in Ui /\ OnButton(v) /\ v.menu \in {b.menu, [field |-> place, shows |-> "loading"]}
      BY <1>2, <2>1, <3>1, Opens
    <3>3. v.menu.field \in {None, place}
      BY <2>1, <3>2 DEF OnButton
    <3> QED BY <1>2, <2>1, <2>2, <3>2, <3>3
  <2>3. CASE ~(~fill /\ ShouldOpenOnFocus(s))
    <3>1. v = TeardownMenu(b)
      BY <1>2, <2>3 DEF FocusRest
    <3> HIDE DEF b
    <3>2. v \in Ui /\ OnButton(v) /\ v.menu = NoMenu
      BY <1>2, <2>1, <3>1, Overlays
    <3> QED BY <3>2 DEF NoMenu
  <2> QED BY <2>2, <2>3
<1> QED BY <1>1, <1>2

-----------------------------------------------------------------------------
\* Promises.

\* An idle promise, an empty bar and what was not read yet are values of their kinds.
LEMMA Blank ==
  /\ Idle \in Task /\ NoBar \in Bars /\ Unread \in Vaults
  /\ Idle.kind = "idle" /\ Idle.field = None /\ Idle.fill = FALSE /\ Idle.bar = NoBar /\ Idle.answer = "none"
  /\ NoBar.cap = NoCapture /\ NoBar.existing = FALSE
<1>1. NoBar \in Bars /\ NoBar.cap = NoCapture /\ NoBar.existing = FALSE
  BY ScriptAssumption DEF NoBar, Bars, NoCapture
<1>2. <<>> \in Seq(0..MaxEvents)
  OBVIOUS
<1>3. Unread \in Vaults
  BY <1>2 DEF Unread, Vaults
<1>4. None \in Places /\ "idle" \in Kinds
  BY DEF Places, Kinds
<1>5. /\ Idle \in Task
      /\ Idle.kind = "idle" /\ Idle.field = None /\ Idle.fill = FALSE /\ Idle.bar = NoBar /\ Idle.answer = "none"
  BY <1>1, <1>3, <1>4 DEF Idle, Task
<1> QED BY <1>1, <1>3, <1>5

\* A promise that was just made.
LEMMA NewTask ==
  ASSUME NEW kind \in Kinds, NEW field \in Places
  PROVE  /\ LET w == Asking(kind, field, FALSE) IN
              /\ w \in Task /\ w.kind = kind /\ w.field = field /\ w.fill = FALSE
              /\ w.bar = NoBar /\ w.answer = "none"
         /\ LET w == Asking(kind, field, TRUE) IN
              /\ w \in Task /\ w.kind = kind /\ w.field = field /\ w.fill = TRUE
              /\ w.bar = NoBar /\ w.answer = "none"
BY Blank DEF Asking, Task

\* A promise made for another's sake.
LEMMA NextTask ==
  ASSUME NEW kind \in Kinds, NEW v \in Task
  PROVE  LET w == [Asking(kind, v.field, v.fill) EXCEPT !.saw = Unread] IN
           /\ w \in Task /\ w.kind = kind /\ w.field = v.field /\ w.fill = v.fill
           /\ w.bar = NoBar /\ w.answer = "none"
<1> DEFINE a == Asking(kind, v.field, v.fill)
<1>1. a = [Idle EXCEPT !.kind = kind, !.field = v.field, !.fill = v.fill]
  BY DEF Asking
<1>2. /\ a \in Task /\ a.kind = kind /\ a.field = v.field /\ a.fill = v.fill
      /\ a.bar = NoBar /\ a.answer = "none"
  BY <1>1, Blank DEF Task
<1> HIDE DEF a
<1>3. LET w == [a EXCEPT !.saw = Unread] IN
        /\ w \in Task /\ w.kind = kind /\ w.field = v.field /\ w.fill = v.fill
        /\ w.bar = NoBar /\ w.answer = "none"
  BY <1>2, Blank DEF Task
<1> QED BY <1>3 DEF a

\* A promise about a submission.
About(kind, b) == [Asking(kind, None, FALSE) EXCEPT !.bar = b]

\* It holds the submission.
LEMMA AboutTask ==
  ASSUME NEW kind \in Kinds, NEW b \in Bars
  PROVE  LET w == About(kind, b) IN
           /\ w \in Task /\ w.kind = kind /\ w.field = None /\ w.fill = FALSE
           /\ w.bar = b /\ w.answer = "none"
<1> DEFINE a == Asking(kind, None, FALSE)
<1>1. a = [Idle EXCEPT !.kind = kind, !.field = None, !.fill = FALSE] /\ None \in Places
  BY DEF Asking, Places
<1>2. a \in Task /\ a.kind = kind /\ a.field = None /\ a.fill = FALSE /\ a.answer = "none"
  BY <1>1, Blank DEF Task
<1>3. About(kind, b) = [a EXCEPT !.bar = b]
  BY DEF About
<1> HIDE DEF a
<1> QED BY <1>2, <1>3 DEF Task

\* One promise becomes another.
LEMMA Puts ==
  ASSUME task \in [Tasks -> Task], NEW t \in Tasks, NEW w \in Task, Put(t, w)
  PROVE  task' \in [Tasks -> Task] /\ task'[t] = w /\ \A u \in Tasks \ {t} : task'[u] = task[u]
BY DEF Put

\* Whether the overlays changed is a truth value.
LEMMA Draws ==
  ASSUME dom \in BOOLEAN, Redraws
  PROVE  dom' \in BOOLEAN
<1>1. dom' = (dom \/ Redrawn)
  BY DEF Redraws
<1>2. (dom \/ Redrawn) \in BOOLEAN
  OBVIOUS
<1> QED BY <1>1, <1>2

-----------------------------------------------------------------------------
(***************************************************************************)
(* Most steps are about the page or about saving, and not both.            *)
(***************************************************************************)

\* A step that is not about the page.
Aside ==
  /\ UNCHANGED <<form, active, state, ui, blur, news, late, chosen, lost>> /\ vault'.open = vault.open
  /\ \A u \in Tasks :
       \/ task'[u].kind = task[u].kind /\ task'[u].field = task[u].field /\ task'[u].fill = task[u].fill
       \/ task[u].kind # "query" /\ task'[u].field = None

\* A step that is not about saving.
Saves(w) == w.kind \in {"captured", "save", "import"}
Quiet ==
  /\ UNCHANGED <<pending, bar, rushed, again, captures>> /\ vault'.logins = vault.logins
  /\ \A u \in Tasks : \/ task'[u] = task[u]
                      \/ ~Saves(task[u]) /\ ~Saves(task'[u]) /\ task'[u].bar \in {NoBar, bar, task[u].bar}

\* The first forgets and follows as before.
LEMMA AsideKeeps ==
  ASSUME Forgets, MenuInv, Aside
  PROVE  Forgets' /\ MenuInv'
<1>1. Forgets'
  BY DEF Aside, Forgets
<1>2. Tracks'
  BY DEF Aside, MenuInv, Tracks
<1>3. None \notin Fields
  BY DEF None, Fields
<1>4. \A u \in Tasks : active \in Fields /\ Follows(u, active) => Follows(u, active)'
  BY <1>3 DEF Aside, Follows
<1>5. MenuTracks'
  BY <1>4 DEF Aside, MenuInv, MenuTracks
<1>6. Stays'
  BY <1>3 DEF Aside, MenuInv, Stays
<1> QED BY <1>1, <1>2, <1>5, <1>6 DEF MenuInv

\* The second asks and saves as before.
LEMMA QuietKeeps ==
  ASSUME CaptureTypes, AskInv, SaveInv, Quiet
  PROVE  AskInv' /\ SaveInv'
<1>1. /\ UNCHANGED <<pending, bar, rushed, again, captures>> /\ vault'.logins = vault.logins
      /\ \A u \in Tasks : \/ task'[u] = task[u]
                          \/ ~Saves(task[u]) /\ ~Saves(task'[u]) /\ task'[u].bar \in {NoBar, bar, task[u].bar}
  BY DEF Quiet
<1>2. \A u \in Tasks : task'[u] = task[u] \/ ~Saves(task'[u])
  BY <1>1
<1>3. Numbered'
  <2>1. \A u \in Tasks : task'[u].bar.cap <= captures
    <3>1. NoBar.cap <= captures
      BY Blank DEF CaptureTypes, NoCapture
    <3> QED BY <1>1, <3>1 DEF AskInv, Numbered
  <2> QED BY <1>1, <2>1 DEF AskInv, Numbered, Saves
<1>4. Apart'
  <2>1. \A u \in Tasks : task'[u].kind = "captured" => task'[u] = task[u]
    BY <1>2 DEF Saves
  <2> QED BY <1>1, <2>1 DEF AskInv, Apart, AskedOnce
<1>5. \A u \in Tasks : task'[u] = task[u] \/ (~Saves(task[u]) /\ ~Saves(task'[u]))
  BY <1>1
<1>6. SaveInv'
  <2>1. \A u \in Tasks : (Saving(u) <=> Saving(u)') /\ (Stored(u) <=> Stored(u)') /\ (Judged(u) <=> Judged(u)')
    BY <1>5 DEF Saving, Stored, Judged, Saves
  <2>2. Empty' <=> Empty
    BY <1>1 DEF Empty
  <2>3. SaveInv /\ ~rushed => AnswersHold'
    <3>1. \A u \in Tasks : Saves(task'[u]) => task'[u] = task[u]
      BY <1>2
    <3> QED BY <1>1, <2>1, <2>2, <3>1 DEF SaveInv, AnswersHold, Saves, Judged
  <2>4. SaveInv /\ ~rushed => OneAtATime' /\ BarHolds'
    BY <1>1, <2>1, <2>2 DEF SaveInv, OneAtATime, BarHolds
  <2> QED BY <1>1, <2>3, <2>4 DEF SaveInv
<1> QED BY <1>3, <1>4, <1>6 DEF AskInv

-----------------------------------------------------------------------------
\* Steps that are about saving.

\* Events are counted.
LEMMA Counts ==
  ASSUME CaptureTypes, Event
  PROVE  events' \in 0..MaxEvents /\ events' = events + 1 /\ captures <= events' /\ captures < MaxEvents
BY ScriptAssumption DEF CaptureTypes, Event

\* What is left alone keeps its type.
LEMMA SavingTypes ==
  ASSUME Types, SavingOnly, rushed' \in BOOLEAN, again' \in BOOLEAN, task' \in [Tasks -> Task], CaptureTypes'
  PROVE  Types'
<1>1. UNCHANGED <<form, active, state, ui, blur, news, vault, late, chosen, lost>> /\ dom' = (dom \/ bar' # bar)
  BY DEF SavingOnly
<1>2. dom' \in BOOLEAN
  BY <1>1
<1>3. PageTypes'
  BY <1>1, <1>2 DEF Types, PageTypes, OnButton
<1>4. HistoryTypes'
  BY <1>1 DEF Types, HistoryTypes
<1>5. WorkTypes'
  BY <1>1 DEF Types, WorkTypes
<1> QED BY <1>3, <1>4, <1>5 DEF Types

\* A submission is captured, perhaps once more.
LEMMA SubmitStep ==
  ASSUME Types, AskInv, SaveInv, Submit
  PROVE  Types' /\ Aside /\ AskInv' /\ SaveInv'
<1>1. /\ captures' = (IF form THEN captures + 1 ELSE captures) /\ pending' = captures'
      /\ again' = (again \/ ~form)
      /\ UNCHANGED <<form, active, state, ui, dom, blur, bar, rushed, task, news, vault, late, chosen, lost>>
  BY DEF Submit, script
<1>2. CaptureTypes /\ captures \in Nat /\ pending \in Nat /\ bar.cap \in Nat /\ events \in Nat
  BY ScriptAssumption DEF Types, CaptureTypes, Bars
<1>3. CaptureTypes'
  <2>1. events' \in 0..MaxEvents /\ events' = events + 1 /\ captures < MaxEvents
    BY <1>2, Counts DEF Submit
  <2> QED BY <1>1, <1>2, <2>1, ScriptAssumption DEF CaptureTypes
<1>4. again' \in BOOLEAN /\ (~again' => ~again /\ form)
  BY <1>1
<1>5. Types'
  BY <1>1, <1>3, <1>4 DEF Types, PageTypes, OnButton, HistoryTypes, WorkTypes
<1>6. \A t \in Tasks : task[t] \in Task /\ task[t].bar.cap \in Nat
  BY ScriptAssumption DEF Types, WorkTypes, Task, Bars
<1>7. Numbered'
  BY <1>1, <1>2, <1>6 DEF AskInv, Numbered
<1>8. Apart'
  <2>1. SUFFICES ASSUME ~again' PROVE AskedOnce' /\ (pending' # NoCapture => pending' # bar'.cap)
    BY DEF Apart
  <2>2. /\ pending' = captures + 1 /\ bar.cap <= captures /\ \A t \in Tasks : task[t].bar.cap <= captures
        /\ \A t \in Tasks : task[t].kind = "captured" =>
             /\ task[t].bar.cap # bar.cap
             /\ \A u \in Tasks \ {t} : task[u].kind = "captured" => task[u].bar.cap # task[t].bar.cap
    BY <1>1, <1>4, <2>1 DEF AskInv, Apart, Numbered, AskedOnce
  <2>3. \A t \in Tasks : task[t].bar.cap # pending'
    BY <1>2, <1>6, <2>2
  <2> QED BY <1>1, <1>2, <2>2, <2>3 DEF AskedOnce
<1>9. SaveInv'
  BY <1>1 DEF SaveInv, OneAtATime, AnswersHold, BarHolds, Saving, Judged, Stored, Empty
<1> QED BY <1>1, <1>5, <1>7, <1>8, <1>9 DEF Aside, AskInv

\* A verdict, a save or an import that begins alone.
LEMMA BeginsAlone ==
  ASSUME NEW t \in Tasks, task[t] = Idle, \A u \in Tasks : ~Saving(u),
         \A u \in Tasks \ {t} : task'[u] = task[u]
  PROVE  OneAtATime' /\ \A u \in Tasks \ {t} : ~Saving(u)' /\ ~Judged(u)' /\ ~Stored(u)'
BY DEF OneAtATime, Saving, Judged, Stored

\* maybePromptToSave asks for a verdict on what waits.
LEMMA PromptStep ==
  ASSUME Types, AskInv, SaveInv, NEW t \in Tasks, Prompt(t)
  PROVE  Types' /\ Aside /\ AskInv' /\ SaveInv'
<1> DEFINE b == [NoBar EXCEPT !.cap = pending]
           w == About("captured", b)
<1>1. /\ pending # NoCapture /\ task[t] = Idle /\ pending' = NoCapture /\ Put(t, w)
      /\ rushed' = (rushed \/ \E u \in Tasks : Saving(u))
      /\ UNCHANGED <<bar, again, captures>> /\ SavingOnly
      /\ UNCHANGED events \/ Event
  BY DEF Prompt, Free, Rush, About
<1>2. /\ UNCHANGED <<form, active, state, ui, blur, news, vault, late, chosen, lost>>
  BY <1>1 DEF SavingOnly
<1>3. CaptureTypes /\ captures \in Nat /\ pending \in Nat /\ events \in Nat /\ task \in [Tasks -> Task]
  BY DEF Types, CaptureTypes, WorkTypes
<1>4. b \in Bars /\ b.cap = pending
  BY <1>3, Blank DEF CaptureTypes, Bars
<1>5. w \in Task /\ w.kind = "captured" /\ w.field = None /\ w.bar = b /\ w.answer = "none"
  <2> HIDE DEF b
  <2>1. "captured" \in Kinds
    BY DEF Kinds
  <2> QED BY <1>4, <2>1, AboutTask
<1> HIDE DEF b, w
<1>6. task' \in [Tasks -> Task] /\ task'[t] = w /\ \A u \in Tasks \ {t} : task'[u] = task[u]
  BY <1>1, <1>3, <1>5, Puts
<1>7. rushed' \in BOOLEAN /\ again' \in BOOLEAN /\ (~rushed' => ~rushed /\ \A u \in Tasks : ~Saving(u))
  BY <1>1 DEF Types, HistoryTypes
<1>8. CaptureTypes'
  <2>1. events' \in 0..MaxEvents /\ captures <= events'
    BY <1>1, <1>3, Counts DEF CaptureTypes
  <2> QED BY <1>1, <1>3, <2>1, ScriptAssumption DEF CaptureTypes, NoCapture
<1>9. Types'
  BY <1>1, <1>6, <1>7, <1>8, SavingTypes
<1>10. Aside
  BY <1>1, <1>2, <1>5, <1>6, Blank DEF Aside
<1>11. Numbered'
  <2>1. pending <= captures /\ bar.cap <= captures /\ \A u \in Tasks : task[u].bar.cap <= captures
    BY DEF AskInv, Numbered
  <2>2. pending' <= captures'
    BY <1>1, <1>3 DEF NoCapture
  <2> QED BY <1>1, <1>4, <1>5, <1>6, <2>1, <2>2 DEF AskInv, Numbered
<1>12. Apart'
  <2>1. SUFFICES ASSUME ~again PROVE AskedOnce' /\ (pending' # NoCapture => pending' # bar'.cap)
    BY <1>1 DEF Apart
  <2>2. \A u \in Tasks : task[u].kind = "captured" =>
             /\ task[u].bar.cap \notin {pending, bar.cap} /\ task[u].bar.cap # NoCapture
             /\ \A v \in Tasks \ {u} : task[v].kind = "captured" => task[v].bar.cap # task[u].bar.cap
    BY <2>1 DEF AskInv, Apart, AskedOnce, Numbered
  <2>3. pending # bar.cap
    BY <1>1, <2>1 DEF AskInv, Apart
  <2>4. ASSUME NEW u \in Tasks, task'[u].kind = "captured"
        PROVE  /\ task'[u].bar.cap \notin {pending', bar'.cap}
               /\ \A v \in Tasks \ {u} : task'[v].kind = "captured" => task'[v].bar.cap # task'[u].bar.cap
    <3>1. CASE u = t
      BY <1>1, <1>4, <1>5, <1>6, <2>2, <2>3, <3>1
    <3>2. CASE u # t
      BY <1>1, <1>4, <1>5, <1>6, <2>2, <2>4, <3>2
    <3> QED BY <3>1, <3>2
  <2> QED BY <1>1, <2>4 DEF AskedOnce
<1>13. SaveInv'
  <2>1. SUFFICES ASSUME ~rushed' PROVE Len(vault'.logins) <= 1 /\ OneAtATime' /\ AnswersHold' /\ BarHolds'
    BY DEF SaveInv
  <2>2. Len(vault.logins) <= 1 /\ BarHolds /\ \A u \in Tasks : ~Saving(u)
    BY <1>7, <2>1 DEF SaveInv
  <2>3. OneAtATime' /\ \A u \in Tasks \ {t} : ~Saving(u)' /\ ~Judged(u)' /\ ~Stored(u)'
    BY <1>1, <1>6, <2>2, BeginsAlone
  <2>4. AnswersHold'
    BY <1>5, <1>6, <2>3 DEF AnswersHold, Judged, Saving
  <2>5. \A u \in Tasks : ~Stored(u)
    BY <2>2 DEF Stored, Saving
  <2>6. BarHolds'
    BY <1>1, <1>2, <2>2, <2>5 DEF BarHolds, Empty
  <2> QED BY <1>2, <2>2, <2>3, <2>4, <2>6
<1> QED BY <1>9, <1>10, <1>11, <1>12, <1>13 DEF AskInv

\* The verdict may put the bar.
LEMMA PromptedStep ==
  ASSUME Types, AskInv, SaveInv, NEW t \in Tasks, Prompted(t)
  PROVE  Types' /\ Aside /\ AskInv' /\ SaveInv'
<1> DEFINE w == task[t]
           verdict == Verdict(w.saw, w.bar.cap)
<1>1. /\ w.kind = "captured" /\ w.answer = "given" /\ bar' = (IF verdict = NoBar THEN bar ELSE verdict)
      /\ Put(t, Idle) /\ UNCHANGED <<pending, rushed, again, captures, events>> /\ SavingOnly
  BY DEF Prompted, Given
<1>2. UNCHANGED <<form, active, state, ui, blur, news, vault, late, chosen, lost>>
  BY <1>1 DEF SavingOnly
<1>3. CaptureTypes /\ task \in [Tasks -> Task] /\ w \in Task
  BY DEF Types, CaptureTypes, WorkTypes
<1>4. task' \in [Tasks -> Task] /\ task'[t] = Idle /\ \A u \in Tasks \ {t} : task'[u] = task[u]
  BY <1>1, <1>3, Blank, Puts
<1>5. \/ bar' = bar
      \/ bar' \in Bars /\ bar'.cap = w.bar.cap /\ (bar'.existing <=> w.saw.logins # <<>>)
  <2>1. verdict = NoBar \/ verdict = [cap |-> w.bar.cap, existing |-> w.saw.logins # <<>>]
    BY DEF Verdict
  <2>2. w.bar.cap \in 0..MaxEvents /\ (w.saw.logins # <<>>) \in BOOLEAN
    BY <1>3 DEF Task, Bars
  <2> DEFINE e == w.saw.logins # <<>>
  <2> HIDE DEF verdict
  <2>3. verdict = NoBar \/ verdict = [cap |-> w.bar.cap, existing |-> e]
    BY <2>1
  <2>4. e \in BOOLEAN
    BY <2>2
  <2> HIDE DEF e
  <2>5. verdict = NoBar \/ (verdict \in Bars /\ verdict.cap = w.bar.cap /\ verdict.existing = e)
    BY <2>2, <2>3, <2>4 DEF Bars
  <2> QED BY <1>1, <2>5 DEF e
<1> HIDE DEF verdict, w
<1>6. CaptureTypes'
  BY <1>1, <1>3, <1>5 DEF CaptureTypes
<1>7. Types'
  BY <1>1, <1>4, <1>6, SavingTypes DEF Types, HistoryTypes
<1>8. Aside
  BY <1>1, <1>2, <1>4, Blank DEF Aside, w
<1>9. Numbered'
  BY <1>1, <1>3, <1>4, <1>5, Blank DEF AskInv, Numbered, w, CaptureTypes, NoCapture
<1>10. Apart'
  <2>1. SUFFICES ASSUME ~again PROVE AskedOnce' /\ (pending' # NoCapture => pending' # bar'.cap)
    BY <1>1 DEF Apart
  <2>2. \A u \in Tasks : task[u].kind = "captured" =>
             /\ task[u].bar.cap \notin {pending, bar.cap}
             /\ \A v \in Tasks \ {u} : task[v].kind = "captured" => task[v].bar.cap # task[u].bar.cap
    BY <2>1 DEF AskInv, Apart, AskedOnce
  <2>3. pending # NoCapture => pending # bar.cap
    BY <2>1 DEF AskInv, Apart
  <2>4. bar'.cap \in {bar.cap, w.bar.cap}
    BY <1>5
  <2>5. ASSUME NEW u \in Tasks, task'[u].kind = "captured"
        PROVE  /\ task'[u].bar.cap \notin {pending', bar'.cap}
               /\ \A v \in Tasks \ {u} : task'[v].kind = "captured" => task'[v].bar.cap # task'[u].bar.cap
    <3>1. u # t /\ task'[u] = task[u]
      BY <1>4, <2>5, Blank
    <3>2. task[u].bar.cap # w.bar.cap
      BY <1>1, <2>2, <2>5, <3>1 DEF w
    <3>3. ASSUME NEW v \in Tasks \ {u}, task'[v].kind = "captured"
          PROVE  task'[v].bar.cap # task'[u].bar.cap
      <4>1. task'[v] = task[v]
        BY <1>4, <3>3, Blank
      <4> QED BY <2>2, <2>5, <3>1, <3>3, <4>1
    <3> QED BY <1>1, <2>2, <2>4, <2>5, <3>1, <3>2, <3>3
  <2>6. pending # NoCapture => pending # bar'.cap
    BY <1>1, <2>2, <2>3, <2>4 DEF w
  <2> QED BY <1>1, <2>5, <2>6 DEF AskedOnce
<1>11. SaveInv'
  <2>1. SUFFICES ASSUME ~rushed PROVE Len(vault'.logins) <= 1 /\ OneAtATime' /\ AnswersHold' /\ BarHolds'
    BY <1>1 DEF SaveInv
  <2>2. Len(vault.logins) <= 1 /\ BarHolds /\ OneAtATime /\ (w.saw.logins = <<>> <=> Empty)
    BY <1>1, <2>1 DEF SaveInv, AnswersHold, Judged, w
  <2>3. \A u \in Tasks : ~Saving(u)'
    BY <1>1, <1>4, <2>2, Blank DEF OneAtATime, Saving, w
  <2>4. \A u \in Tasks : ~Stored(u)
    BY <1>1, <2>2 DEF OneAtATime, Saving, Stored, w
  <2>5. BarHolds'
    BY <1>2, <1>5, <2>2, <2>4 DEF BarHolds, Empty
  <2> QED BY <1>2, <2>2, <2>3, <2>5 DEF OneAtATime, AnswersHold, Saving, Judged
<1> QED BY <1>7, <1>8, <1>9, <1>10, <1>11 DEF AskInv

\* The bar's save goes to the worker.
LEMMA BarSaveStep ==
  ASSUME Types, AskInv, SaveInv, NEW t \in Tasks, BarSave(t)
  PROVE  Types' /\ Aside /\ AskInv' /\ SaveInv'
<1> DEFINE w == About("save", bar)
<1>1. /\ Event /\ bar # NoBar /\ task[t] = Idle /\ Put(t, w)
      /\ rushed' = (rushed \/ \E u \in Tasks : Saving(u))
      /\ UNCHANGED <<pending, bar, again, captures>> /\ SavingOnly
  BY DEF BarSave, BarAsks, Free, Rush, About
<1>2. UNCHANGED <<form, active, state, ui, blur, news, vault, late, chosen, lost>>
  BY <1>1 DEF SavingOnly
<1>3. CaptureTypes /\ bar \in Bars /\ task \in [Tasks -> Task] /\ "save" \in Kinds
  BY DEF Types, CaptureTypes, WorkTypes, Kinds
<1>4. w \in Task /\ w.kind = "save" /\ w.field = None /\ w.bar = bar /\ w.answer = "none"
  BY <1>3, AboutTask
<1> HIDE DEF w
<1>5. task' \in [Tasks -> Task] /\ task'[t] = w /\ \A u \in Tasks \ {t} : task'[u] = task[u]
  BY <1>1, <1>3, <1>4, Puts
<1>6. rushed' \in BOOLEAN /\ again' \in BOOLEAN /\ (~rushed' => ~rushed /\ \A u \in Tasks : ~Saving(u))
  BY <1>1 DEF Types, HistoryTypes
<1>7. CaptureTypes'
  BY <1>1, <1>3, Counts DEF CaptureTypes
<1>8. Types'
  BY <1>1, <1>5, <1>6, <1>7, SavingTypes
<1>9. Aside
  BY <1>1, <1>2, <1>4, <1>5, Blank DEF Aside
<1>10. AskInv'
  <2>1. Numbered'
    BY <1>1, <1>4, <1>5 DEF AskInv, Numbered
  <2>2. Apart'
    BY <1>1, <1>4, <1>5 DEF AskInv, Apart, AskedOnce
  <2> QED BY <2>1, <2>2 DEF AskInv
<1>11. SaveInv'
  <2>1. SUFFICES ASSUME ~rushed' PROVE Len(vault'.logins) <= 1 /\ OneAtATime' /\ AnswersHold' /\ BarHolds'
    BY DEF SaveInv
  <2>2. Len(vault.logins) <= 1 /\ BarHolds /\ \A u \in Tasks : ~Saving(u)
    BY <1>6, <2>1 DEF SaveInv
  <2>3. OneAtATime' /\ \A u \in Tasks \ {t} : ~Saving(u)' /\ ~Judged(u)' /\ ~Stored(u)'
    BY <1>1, <1>5, <2>2, BeginsAlone
  <2>4. bar.existing <=> ~Empty
    BY <1>1, <2>2 DEF BarHolds, Stored, Saving
  <2>5. AnswersHold'
    BY <1>1, <1>2, <1>4, <1>5, <2>3, <2>4 DEF AnswersHold, Judged, Saving, Empty
  <2>6. BarHolds'
    BY <1>1, <1>2, <2>4 DEF BarHolds, Empty
  <2> QED BY <1>2, <2>2, <2>3, <2>5, <2>6
<1> QED BY <1>8, <1>9, <1>10, <1>11

\* So does its never, which nothing waits for.
LEMMA BarNeverStep ==
  ASSUME Types, AskInv, SaveInv, NEW t \in Tasks, BarNever(t)
  PROVE  Types' /\ Aside /\ AskInv' /\ SaveInv'
<1> DEFINE w == About("never", bar)
<1>1. /\ Event /\ task[t] = Idle /\ Put(t, w)
      /\ UNCHANGED <<pending, bar, rushed, again, captures>> /\ SavingOnly
  BY DEF BarNever, Free, About, saving
<1>2. UNCHANGED <<form, active, state, ui, blur, news, vault, late, chosen, lost>>
  BY <1>1 DEF SavingOnly
<1>3. CaptureTypes /\ bar \in Bars /\ task \in [Tasks -> Task] /\ "never" \in Kinds
  BY DEF Types, CaptureTypes, WorkTypes, Kinds
<1>4. w \in Task /\ w.kind = "never" /\ w.field = None /\ w.bar = bar
  BY <1>3, AboutTask
<1> HIDE DEF w
<1>5. task' \in [Tasks -> Task] /\ task'[t] = w /\ \A u \in Tasks \ {t} : task'[u] = task[u]
  BY <1>1, <1>3, <1>4, Puts
<1>6. CaptureTypes'
  BY <1>1, <1>3, Counts DEF CaptureTypes
<1>7. Types'
  BY <1>1, <1>5, <1>6, SavingTypes DEF Types, HistoryTypes
<1>8. Aside
  BY <1>1, <1>2, <1>4, <1>5, Blank DEF Aside
<1>9. Quiet
  BY <1>1, <1>2, <1>4, <1>5, Blank DEF Quiet, Saves
<1> QED BY <1>3, <1>7, <1>8, <1>9, QuietKeeps

\* The bar goes.
LEMMA BarGoes ==
  ASSUME Types, AskInv, SaveInv, bar' = NoBar, UNCHANGED <<pending, rushed, again, captures>>,
         vault' = vault, task' \in [Tasks -> Task],
         \A u \in Tasks : task'[u] = task[u] \/ task'[u] = Idle
  PROVE  AskInv' /\ SaveInv'
<1>1. /\ NoBar.cap = 0 /\ captures \in Nat
  BY Blank DEF Types, CaptureTypes, NoCapture
<1>2. \A u \in Tasks : task'[u] = task[u] \/ (task'[u].kind = "idle" /\ task'[u].bar.cap = 0)
  BY <1>1, Blank
<1>3. Numbered'
  BY <1>1, <1>2 DEF AskInv, Numbered
<1>4. Apart'
  BY <1>1, <1>2 DEF AskInv, Apart, AskedOnce, Numbered, NoCapture
<1>5. SaveInv'
  <2>1. \A u \in Tasks : task'[u] = task[u] \/ (~Saving(u)' /\ ~Judged(u)')
    BY <1>2 DEF Saving, Judged
  <2>2. OneAtATime => OneAtATime'
    BY <2>1 DEF OneAtATime, Saving
  <2>3. AnswersHold => AnswersHold'
    BY <2>1 DEF AnswersHold, Judged, Saving, Empty
  <2>4. BarHolds'
    BY DEF BarHolds
  <2> QED BY <2>2, <2>3, <2>4 DEF SaveInv
<1> QED BY <1>3, <1>4, <1>5 DEF AskInv

\* When the worker has answered, or the user has dismissed it.
LEMMA BarGoesSteps ==
  ASSUME Types, AskInv, SaveInv, BarDismiss \/ \E t \in Tasks : Saved(t)
  PROVE  Types' /\ Aside /\ AskInv' /\ SaveInv'
<1>1. /\ bar' = NoBar /\ UNCHANGED <<pending, rushed, again, captures>> /\ SavingOnly
      /\ UNCHANGED events \/ Event
  BY DEF BarDismiss, Saved
<1>2. UNCHANGED <<form, active, state, ui, blur, news, vault, late, chosen, lost>>
  BY <1>1 DEF SavingOnly
<1>3. task' \in [Tasks -> Task] /\ \A u \in Tasks : task'[u] = task[u] \/ (task'[u] = Idle /\ task[u].kind # "query")
  <2>1. task \in [Tasks -> Task]
    BY DEF Types, WorkTypes
  <2>2. CASE BarDismiss
    BY <2>1, <2>2 DEF BarDismiss
  <2>3. ASSUME NEW t \in Tasks, Saved(t)
        PROVE  task' \in [Tasks -> Task]
               /\ \A u \in Tasks : task'[u] = task[u] \/ (task'[u] = Idle /\ task[u].kind # "query")
    <3>1. Put(t, Idle) /\ task[t].kind \in {"save", "never"}
      BY <2>3 DEF Saved, Given
    <3> QED BY <2>1, <3>1, Puts, Blank
  <2> QED BY <2>2, <2>3
<1>4. CaptureTypes'
  <2>1. CaptureTypes
    BY DEF Types
  <2>2. events' \in 0..MaxEvents /\ captures <= events'
    BY <1>1, <2>1, Counts DEF CaptureTypes
  <2> QED BY <1>1, <2>1, <2>2, Blank DEF CaptureTypes
<1>5. Types'
  BY <1>1, <1>3, <1>4, SavingTypes DEF Types, HistoryTypes
<1>6. Aside
  BY <1>2, <1>3, Blank DEF Aside
<1> QED BY <1>1, <1>2, <1>3, <1>5, <1>6, BarGoes

\* An import begins, with no bar that was judged before.
LEMMA ImportStep ==
  ASSUME Types, AskInv, SaveInv, NEW t \in Tasks, Import(t)
  PROVE  Types' /\ Aside /\ AskInv' /\ SaveInv'
<1> DEFINE w == Asking("import", None, FALSE)
<1>1. /\ Event /\ task[t] = Idle /\ Put(t, w)
      /\ rushed' = (rushed \/ bar # NoBar \/ \E u \in Tasks : Saving(u))
      /\ UNCHANGED <<pending, bar, again, captures>> /\ SavingOnly
  BY DEF Import, Free
<1>2. UNCHANGED <<form, active, state, ui, blur, news, vault, late, chosen, lost>>
  BY <1>1 DEF SavingOnly
<1>3. CaptureTypes /\ bar \in Bars /\ task \in [Tasks -> Task] /\ "import" \in Kinds /\ None \in Places
  BY DEF Types, CaptureTypes, WorkTypes, Kinds, Places
<1>4. w \in Task /\ w.kind = "import" /\ w.field = None /\ w.bar = NoBar /\ w.answer = "none"
  BY <1>3, NewTask
<1> HIDE DEF w
<1>5. task' \in [Tasks -> Task] /\ task'[t] = w /\ \A u \in Tasks \ {t} : task'[u] = task[u]
  BY <1>1, <1>3, <1>4, Puts
<1>6. /\ rushed' \in BOOLEAN /\ again' \in BOOLEAN
      /\ ~rushed' => ~rushed /\ bar = NoBar /\ \A u \in Tasks : ~Saving(u)
  BY <1>1 DEF Types, HistoryTypes
<1>7. CaptureTypes'
  BY <1>1, <1>3, Counts DEF CaptureTypes
<1>8. Types'
  BY <1>1, <1>5, <1>6, <1>7, SavingTypes
<1>9. Aside
  BY <1>1, <1>2, <1>4, <1>5, Blank DEF Aside
<1>10. AskInv'
  <2>1. Numbered'
    BY <1>1, <1>3, <1>4, <1>5, Blank DEF AskInv, Numbered, CaptureTypes, NoCapture
  <2>2. Apart'
    BY <1>1, <1>4, <1>5 DEF AskInv, Apart, AskedOnce
  <2> QED BY <2>1, <2>2 DEF AskInv
<1>11. SaveInv'
  <2>1. SUFFICES ASSUME ~rushed' PROVE Len(vault'.logins) <= 1 /\ OneAtATime' /\ AnswersHold' /\ BarHolds'
    BY DEF SaveInv
  <2>2. Len(vault.logins) <= 1 /\ bar = NoBar /\ \A u \in Tasks : ~Saving(u)
    BY <1>6, <2>1 DEF SaveInv
  <2>3. OneAtATime' /\ \A u \in Tasks \ {t} : ~Saving(u)' /\ ~Judged(u)' /\ ~Stored(u)'
    BY <1>1, <1>5, <2>2, BeginsAlone
  <2>4. AnswersHold'
    BY <1>1, <1>4, <1>5, <2>2, <2>3 DEF AnswersHold, Judged, Saving
  <2>5. BarHolds'
    BY <1>1, <2>2 DEF BarHolds
  <2> QED BY <1>2, <2>2, <2>3, <2>4, <2>5
<1> QED BY <1>8, <1>9, <1>10, <1>11

\* One more login, or one changed, in a list of them.
LEMMA Logins ==
  ASSUME NEW s \in Seq(0..MaxEvents), NEW cap \in 0..MaxEvents
  PROVE  /\ Append(s, cap) \in Seq(0..MaxEvents) /\ Append(s, cap) # <<>> /\ Len(Append(s, cap)) = Len(s) + 1
         /\ [s EXCEPT ![1] = cap] \in Seq(0..MaxEvents) /\ Len([s EXCEPT ![1] = cap]) = Len(s)
         /\ [s EXCEPT ![1] = cap] = <<>> <=> s = <<>>
         /\ Len(s) \in Nat /\ (Len(s) = 0 <=> s = <<>>)
<1>1. /\ Append(s, cap) \in Seq(0..MaxEvents) /\ Append(s, cap) # <<>> /\ Len(Append(s, cap)) = Len(s) + 1
      /\ Len(s) \in Nat /\ (Len(s) = 0 <=> s = <<>>)
  OBVIOUS
<1>2. CASE s = <<>>
  <2>1. [s EXCEPT ![1] = cap] = <<>>
    BY <1>2
  <2> QED BY <1>1, <1>2, <2>1
<1>3. CASE s # <<>>
  <2>1. Len(s) \in Nat /\ Len(s) # 0
    BY <1>1, <1>3
  <2>2. 1 \in 1..Len(s)
    BY <2>1
  <2>3. [s EXCEPT ![1] = cap] \in Seq(0..MaxEvents) /\ Len([s EXCEPT ![1] = cap]) = Len(s)
    BY <2>2
  <2>4. [s EXCEPT ![1] = cap] # <<>>
    BY <2>1, <2>3
  <2> QED BY <1>1, <1>3, <2>3, <2>4
<1> QED BY <1>2, <1>3

\* What imports ends with.
LEMMA ImportsStep ==
  ASSUME Types, AskInv, SaveInv, NEW t \in Tasks, Imports(t)
  PROVE  Types' /\ Aside /\ AskInv' /\ SaveInv'
<1> DEFINE more == Append(vault.logins, 0)
<1>1. /\ task[t].kind = "import" /\ task[t].answer = "given" /\ Put(t, Idle)
      /\ UNCHANGED <<form, active, state, ui, dom, blur, pending, bar, rushed, again, captures,
                     news, late, chosen, lost, events>>
      /\ vault' = IF task[t].saw.logins = <<>> /\ vault.open THEN [vault EXCEPT !.logins = more] ELSE vault
  BY DEF Imports, Given, script, saving
<1>2. /\ vault \in Vaults /\ vault.logins \in Seq(0..MaxEvents) /\ task \in [Tasks -> Task] /\ 0 \in 0..MaxEvents
  BY ScriptAssumption DEF Types, WorkTypes, Vaults
<1>3. more \in Seq(0..MaxEvents) /\ more # <<>> /\ Len(more) = Len(vault.logins) + 1
  BY <1>2, Logins
<1> HIDE DEF more
<1>4. /\ vault' \in Vaults /\ vault'.open = vault.open
      /\ vault'.logins = (IF task[t].saw.logins = <<>> /\ vault.open THEN more ELSE vault.logins)
  <2>1. LET v == [vault EXCEPT !.logins = more] IN v \in Vaults /\ v.open = vault.open /\ v.logins = more
    BY <1>2, <1>3 DEF Vaults
  <2> QED BY <1>1, <1>2, <2>1
<1>5. task' \in [Tasks -> Task] /\ task'[t] = Idle /\ \A u \in Tasks \ {t} : task'[u] = task[u]
  BY <1>1, <1>2, Blank, Puts
<1>6. Types'
  BY <1>1, <1>4, <1>5 DEF Types, PageTypes, OnButton, HistoryTypes, WorkTypes, CaptureTypes
<1>7. Aside
  BY <1>1, <1>4, <1>5, Blank DEF Aside
<1>8. AskInv'
  <2>1. Numbered'
    BY <1>1, <1>5, Blank DEF AskInv, Numbered, NoCapture, Types, CaptureTypes
  <2>2. Apart'
    BY <1>1, <1>5, Blank DEF AskInv, Apart, AskedOnce
  <2> QED BY <2>1, <2>2 DEF AskInv
<1>9. SaveInv'
  <2>1. SUFFICES ASSUME ~rushed PROVE Len(vault'.logins) <= 1 /\ OneAtATime' /\ AnswersHold' /\ BarHolds'
    BY <1>1 DEF SaveInv
  <2>2. Len(vault.logins) <= 1 /\ OneAtATime /\ (task[t].saw.logins = <<>> <=> vault.logins = <<>>) /\ bar = NoBar
    BY <1>1, <2>1 DEF SaveInv, AnswersHold, Judged, Empty
  <2>3. \A u \in Tasks : ~Saving(u)'
    BY <1>1, <1>5, <2>2, Blank DEF OneAtATime, Saving
  <2>4. Len(vault'.logins) <= 1
    BY <1>2, <1>3, <1>4, <2>2
  <2> QED BY <1>1, <2>2, <2>3, <2>4 DEF OneAtATime, AnswersHold, BarHolds, Saving, Judged
<1> QED BY <1>6, <1>7, <1>8, <1>9

\* What the worker does to the vault for one promise.
LEMMA VaultAnswers ==
  ASSUME vault \in Vaults, NEW t \in Tasks, task[t] \in Task, NEW a \in Task,
         vault' = IF a.answer = "failed" THEN vault
                  ELSE IF task[t].kind = "never" THEN [vault EXCEPT !.never = TRUE]
                  ELSE IF task[t].kind # "save" THEN vault
                  ELSE IF task[t].bar.existing THEN [vault EXCEPT !.logins[1] = task[t].bar.cap]
                  ELSE [vault EXCEPT !.logins = Append(@, task[t].bar.cap)]
  PROVE  /\ vault' \in Vaults /\ vault'.open = vault.open
         /\ a.answer = "failed" \/ task[t].kind # "save" => vault'.logins = vault.logins
         /\ task[t].kind = "save" => Len(vault'.logins) <= Len(vault.logins) + 1
         /\ task[t].kind = "save" /\ task[t].bar.existing =>
              Len(vault'.logins) = Len(vault.logins) /\ (vault'.logins = <<>> <=> vault.logins = <<>>)
<1> DEFINE cap == task[t].bar.cap
           changed == [vault.logins EXCEPT ![1] = cap]
           more == Append(vault.logins, cap)
<1>1. vault.logins \in Seq(0..MaxEvents) /\ cap \in 0..MaxEvents
  BY DEF Vaults, Task, Bars
<1>2. /\ changed \in Seq(0..MaxEvents) /\ Len(changed) = Len(vault.logins) /\ (changed = <<>> <=> vault.logins = <<>>)
      /\ more \in Seq(0..MaxEvents) /\ Len(more) = Len(vault.logins) + 1 /\ Len(vault.logins) \in Nat
  BY <1>1, Logins
<1>3. \/ vault' = vault /\ (a.answer = "failed" \/ task[t].kind # "save")
      \/ vault' = [vault EXCEPT !.never = TRUE] /\ task[t].kind = "never"
      \/ vault' = [vault EXCEPT !.logins = changed] /\ task[t].kind = "save" /\ task[t].bar.existing /\ a.answer # "failed"
      \/ vault' = [vault EXCEPT !.logins = more] /\ task[t].kind = "save" /\ ~task[t].bar.existing /\ a.answer # "failed"
  OBVIOUS
<1> HIDE DEF changed, more
<1>4. CASE vault' = vault /\ (a.answer = "failed" \/ task[t].kind # "save")
  <2>1. vault'.open = vault.open /\ vault'.logins = vault.logins
    BY <1>4
  <2>2. Len(vault.logins) <= Len(vault.logins) + 1
    BY <1>2
  <2> QED BY <1>4, <2>1, <2>2
<1>5. CASE vault' = [vault EXCEPT !.never = TRUE] /\ task[t].kind = "never"
  BY <1>5 DEF Vaults
<1>6. CASE vault' = [vault EXCEPT !.logins = changed] /\ task[t].kind = "save" /\ task[t].bar.existing /\ a.answer # "failed"
  <2>1. vault' \in Vaults /\ vault'.open = vault.open /\ vault'.logins = changed
    BY <1>2, <1>6 DEF Vaults
  <2> QED BY <1>2, <1>6, <2>1
<1>7. CASE vault' = [vault EXCEPT !.logins = more] /\ task[t].kind = "save" /\ ~task[t].bar.existing /\ a.answer # "failed"
  <2>1. vault' \in Vaults /\ vault'.open = vault.open /\ vault'.logins = more
    BY <1>2, <1>7 DEF Vaults
  <2> QED BY <1>2, <1>7, <2>1
<1> QED BY <1>3, <1>4, <1>5, <1>6, <1>7

\* The worker answers: what it read stays true while nothing is rushed.
LEMMA AnswerStep ==
  ASSUME Types, AskInv, SaveInv, NEW t \in Tasks, Answer(t)
  PROVE  Types' /\ Aside /\ AskInv' /\ SaveInv'
<1> DEFINE w == task[t]
<1>1. /\ w.answer = "none"
      /\ UNCHANGED <<form, active, state, ui, dom, blur, pending, bar, rushed, again, captures,
                     news, late, chosen, lost, events>>
  BY DEF Answer, script, saving
<1>2. task \in [Tasks -> Task] /\ w \in Task /\ vault \in Vaults
  BY DEF Types, WorkTypes
<1>3. PICK answer \in {"failed", "given"} :
        Put(t, [w EXCEPT !.answer = answer, !.saw = vault]) \/ (answer = "failed" /\ Put(t, [w EXCEPT !.answer = answer]))
  BY DEF Answer
<1>4. PICK a \in Task :
        /\ Put(t, a) /\ a.kind = w.kind /\ a.field = w.field /\ a.fill = w.fill /\ a.bar = w.bar
        /\ a.answer = answer /\ (answer = "given" => a.saw = vault)
  <2> DEFINE read == [w EXCEPT !.answer = answer, !.saw = vault]
             unread == [w EXCEPT !.answer = answer]
  <2>1. /\ read \in Task /\ read.kind = w.kind /\ read.field = w.field /\ read.fill = w.fill
        /\ read.bar = w.bar /\ read.answer = answer /\ read.saw = vault
    BY <1>2 DEF Task
  <2>2. /\ unread \in Task /\ unread.kind = w.kind /\ unread.field = w.field /\ unread.fill = w.fill
        /\ unread.bar = w.bar /\ unread.answer = answer
    BY <1>2 DEF Task
  <2>3. Put(t, read) \/ (answer = "failed" /\ Put(t, unread))
    BY <1>3
  <2> HIDE DEF read, unread
  <2>4. CASE Put(t, read)
    BY <2>1, <2>4
  <2>5. CASE answer = "failed" /\ Put(t, unread)
    BY <2>2, <2>5
  <2> QED BY <2>3, <2>4, <2>5
<1>5. task' \in [Tasks -> Task] /\ task'[t] = a /\ \A u \in Tasks \ {t} : task'[u] = task[u]
  BY <1>2, <1>4, Puts
<1>6. /\ vault' \in Vaults /\ vault'.open = vault.open
      /\ answer = "failed" \/ w.kind # "save" => vault'.logins = vault.logins
      /\ w.kind = "save" => Len(vault'.logins) <= Len(vault.logins) + 1
      /\ w.kind = "save" /\ w.bar.existing =>
           Len(vault'.logins) = Len(vault.logins) /\ (vault'.logins = <<>> <=> vault.logins = <<>>)
  <2>1. vault' = IF a.answer = "failed" THEN vault
                  ELSE IF task[t].kind = "never" THEN [vault EXCEPT !.never = TRUE]
                  ELSE IF task[t].kind # "save" THEN vault
                  ELSE IF task[t].bar.existing THEN [vault EXCEPT !.logins[1] = task[t].bar.cap]
                  ELSE [vault EXCEPT !.logins = Append(@, task[t].bar.cap)]
    BY <1>5 DEF Answer
  <2> QED BY <1>2, <1>4, <2>1, VaultAnswers
<1>7. Types'
  BY <1>1, <1>5, <1>6 DEF Types, PageTypes, OnButton, HistoryTypes, WorkTypes, CaptureTypes
<1>8. Aside
  BY <1>1, <1>4, <1>5, <1>6 DEF Aside
<1>9. AskInv'
  <2>1. \A u \in Tasks : task'[u].kind = task[u].kind /\ task'[u].bar = task[u].bar
    BY <1>4, <1>5
  <2> QED BY <1>1, <2>1 DEF AskInv, Numbered, Apart, AskedOnce
<1>10. SaveInv'
  <2>1. SUFFICES ASSUME ~rushed PROVE Len(vault'.logins) <= 1 /\ OneAtATime' /\ AnswersHold' /\ BarHolds'
    BY <1>1 DEF SaveInv
  <2>2. /\ \A u \in Tasks : Saving(u)' <=> Saving(u)
        /\ \A u \in Tasks \ {t} : Stored(u)' <=> Stored(u)
    BY <1>4, <1>5 DEF Saving, Stored
  <2>3. OneAtATime'
    BY <2>1, <2>2 DEF SaveInv, OneAtATime
  <2>4. vault.logins \in Seq(0..MaxEvents) /\ Len(vault.logins) \in Nat /\ (Len(vault.logins) = 0 <=> vault.logins = <<>>)
    <3>1. vault.logins \in Seq(0..MaxEvents)
      BY <1>2 DEF Vaults
    <3> QED BY <3>1
  <2>5. CASE w.kind = "save" /\ answer = "given"
    <3>1. \A u \in Tasks \ {t} : ~Saving(u)' /\ ~Judged(u)'
      BY <1>4, <1>5, <2>3, <2>5 DEF OneAtATime, Saving, Judged
    <3>2. w.bar.existing <=> ~Empty
      BY <1>1, <2>1, <2>5 DEF SaveInv, AnswersHold
    <3>3. Len(vault'.logins) <= 1
      <4>1. CASE w.bar.existing
        BY <1>6, <2>1, <2>5, <4>1 DEF SaveInv
      <4>2. CASE ~w.bar.existing
        BY <1>6, <2>4, <2>5, <3>2, <4>2 DEF Empty
      <4> QED BY <4>1, <4>2
    <3>4. AnswersHold'
      BY <1>4, <1>5, <2>5, <3>1 DEF AnswersHold, Saving, Judged
    <3>5. Stored(t)'
      BY <1>4, <1>5, <2>5 DEF Stored
    <3> QED BY <2>3, <3>3, <3>4, <3>5 DEF BarHolds
  <2>6. CASE ~(w.kind = "save" /\ answer = "given")
    <3>1. vault'.logins = vault.logins /\ (Stored(t)' <=> Stored(t))
      BY <1>1, <1>3, <1>4, <1>5, <1>6, <2>6 DEF Stored
    <3>2. AnswersHold'
      <4>1. ASSUME NEW u \in Tasks
            PROVE  /\ Judged(u)' => (task'[u].saw.logins = <<>> <=> vault'.logins = <<>>)
                   /\ task'[u].kind = "import" => bar' = NoBar
                   /\ task'[u].kind = "save" /\ task'[u].answer = "none" => (task'[u].bar.existing <=> vault'.logins # <<>>)
        <5>1. CASE u = t
          BY <1>1, <1>4, <1>5, <2>1, <3>1, <5>1 DEF SaveInv, AnswersHold, Judged
        <5>2. CASE u # t
          <6>1. task'[u] = task[u]
            BY <1>5, <5>2
          <6> QED BY <1>1, <2>1, <3>1, <6>1 DEF SaveInv, AnswersHold, Judged, Empty
        <5> QED BY <5>1, <5>2
      <4> QED BY <4>1 DEF AnswersHold, Empty
    <3>3. BarHolds'
      BY <1>1, <2>1, <2>2, <3>1 DEF SaveInv, BarHolds, Empty
    <3> QED BY <2>1, <2>3, <3>1, <3>2, <3>3 DEF SaveInv
  <2> QED BY <2>5, <2>6
<1> QED BY <1>7, <1>8, <1>9, <1>10

\* A promise that failed is over; nothing was stored for it.
LEMMA FailsSaves ==
  ASSUME Types, AskInv, SaveInv, NEW t \in Tasks, Fails(t)
  PROVE  AskInv' /\ SaveInv'
<1>1. /\ task[t].answer = "failed" /\ Put(t, Idle)
      /\ UNCHANGED <<pending, bar, rushed, again, captures, vault>>
  BY DEF Fails, saving
<1>2. task \in [Tasks -> Task]
  BY DEF Types, WorkTypes
<1>3. task' \in [Tasks -> Task] /\ task'[t] = Idle /\ \A u \in Tasks \ {t} : task'[u] = task[u]
  BY <1>1, <1>2, Blank, Puts
<1>4. AskInv'
  <2>1. Numbered'
    BY <1>1, <1>3, Blank DEF AskInv, Numbered, NoCapture, Types, CaptureTypes
  <2>2. Apart'
    BY <1>1, <1>3, Blank DEF AskInv, Apart, AskedOnce
  <2> QED BY <2>1, <2>2 DEF AskInv
<1>5. SaveInv'
  <2>1. \A u \in Tasks : task'[u] = task[u] \/ (~Saving(u)' /\ ~Judged(u)' /\ u = t)
    BY <1>3, Blank DEF Saving, Judged
  <2>2. OneAtATime => OneAtATime'
    BY <2>1 DEF OneAtATime, Saving
  <2>3. AnswersHold => AnswersHold'
    BY <1>1, <2>1 DEF AnswersHold, Judged, Saving, Empty
  <2>4. \A u \in Tasks : Stored(u)' <=> Stored(u)
    BY <1>1, <1>3, Blank DEF Stored
  <2>5. BarHolds => BarHolds'
    BY <1>1, <2>4 DEF BarHolds, Empty
  <2> QED BY <1>1, <2>2, <2>3, <2>5 DEF SaveInv
<1> QED BY <1>4, <1>5

-----------------------------------------------------------------------------
\* Steps that are about the page.

\* What is left alone keeps its type.
LEMMA PageStepTypes ==
  ASSUME Types, UNCHANGED <<pending, bar, captures>>, UNCHANGED events \/ Event,
         PageTypes', HistoryTypes', WorkTypes'
  PROVE  Types'
<1>1. CaptureTypes'
  BY Counts DEF Types, CaptureTypes
<1> QED BY <1>1 DEF Types

\* What the script knows, when a part of it changes.
LEMMA Knows ==
  ASSUME NEW s \in State, NEW place \in Places
  PROVE  /\ LET k == [s EXCEPT !.focused = place] IN
              /\ k \in State /\ k.focused = place /\ k.forms = s.forms
              /\ k.matches = s.matches /\ k.unlocked = s.unlocked
         /\ LET k == [s EXCEPT !.unlocked = FALSE, !.matches = FALSE] IN
              /\ k \in State /\ k.focused = s.focused /\ k.forms = s.forms
              /\ k.matches = FALSE /\ k.unlocked = FALSE
         /\ LET k == Filled(s) IN
              /\ k \in State /\ k.focused = "password" /\ k.forms = TRUE
              /\ k.matches = s.matches /\ k.unlocked = s.unlocked
BY DEF State, Filled, Places, Fields

\* What it knows after a look at the forms of the page, and with another focus.
Looked(s) == [s EXCEPT !.forms = @ \/ form]
LookedAt(s, place) == [s EXCEPT !.forms = @ \/ form, !.focused = place]

\* Nothing else of it changes.
LEMMA Looks ==
  ASSUME NEW s \in State, form \in BOOLEAN
  PROVE  /\ Looked(s) \in State /\ (Looked(s).forms <=> s.forms \/ form) /\ Looked(s).focused = s.focused
         /\ Looked(s).matches = s.matches /\ Looked(s).unlocked = s.unlocked
         /\ \A place \in Places :
              /\ LookedAt(s, place) \in State /\ (LookedAt(s, place).forms <=> s.forms \/ form)
              /\ LookedAt(s, place).focused = place
              /\ LookedAt(s, place).matches = s.matches /\ LookedAt(s, place).unlocked = s.unlocked
<1> DEFINE forms == s.forms \/ form
<1>1. forms \in BOOLEAN
  BY DEF State
<1>2. Looked(s) = [s EXCEPT !.forms = forms] /\ \A place : LookedAt(s, place) = [s EXCEPT !.forms = forms, !.focused = place]
  BY DEF Looked, LookedAt
<1> HIDE DEF forms
<1>3. /\ Looked(s) \in State /\ Looked(s).forms = forms /\ Looked(s).focused = s.focused
      /\ Looked(s).matches = s.matches /\ Looked(s).unlocked = s.unlocked
  BY <1>1, <1>2 DEF State
<1>4. ASSUME NEW place \in Places
      PROVE  /\ LookedAt(s, place) \in State /\ LookedAt(s, place).forms = forms
             /\ LookedAt(s, place).focused = place
             /\ LookedAt(s, place).matches = s.matches /\ LookedAt(s, place).unlocked = s.unlocked
  <2>1. LookedAt(s, place) = [s EXCEPT !.forms = forms, !.focused = place]
    BY <1>2
  <2> QED BY <1>1, <2>1 DEF State
<1> QED BY <1>3, <1>4 DEF forms

\* A lock is remembered while what the script knows stays, and no list of logins opens.
LEMMA StillForgets ==
  ASSUME Forgets, UNCHANGED <<late, news>>, vault'.open = vault.open,
         state'.matches = state.matches, state'.unlocked = state.unlocked,
         ui'.menu.shows = "logins" => ui.menu.shows = "logins"
  PROVE  Forgets'
BY DEF Forgets

\* The menu's page has loaded.
LEMMA MenuLoadsStep ==
  ASSUME Types, Forgets, MenuInv, MenuLoads
  PROVE  Types' /\ Quiet /\ Forgets' /\ MenuInv'
<1>1. /\ ui.menu.shows = "loading" /\ Redraws
      /\ ui' = [ui EXCEPT !.menu.shows = Listing(state)]
      /\ UNCHANGED <<form, active, state, blur, pending, bar, rushed, again, captures, task, news, vault,
                     late, chosen, lost, events>>
  BY DEF MenuLoads, saving
<1>2. ui \in Ui /\ OnButton(ui) /\ ui.menu \in Menu /\ state \in State
  BY DEF Types, PageTypes, Ui
<1>3. Listing(state) \in {"logins", "note"} /\ (Listing(state) = "logins" => state.unlocked /\ state.matches)
  BY DEF Listing
<1> DEFINE m == [ui.menu EXCEPT !.shows = Listing(state)]
<1>4. m \in Menu /\ m.shows = Listing(state) /\ m.field = ui.menu.field
  BY <1>2, <1>3 DEF Menu
<1>5. ui' = [ui EXCEPT !.menu = m]
  BY <1>1
<1> HIDE DEF m
<1>6. ui' \in Ui /\ ui'.button = ui.button /\ ui'.menu = m
  BY <1>2, <1>4, <1>5 DEF Ui
<1>7. OnButton(ui)'
  BY <1>1, <1>2, <1>3, <1>4, <1>6 DEF OnButton
<1>8. dom' \in BOOLEAN
  BY <1>1, Draws DEF Types, PageTypes
<1>9. Types'
  BY <1>1, <1>6, <1>7, <1>8, PageStepTypes DEF Types, PageTypes, HistoryTypes, WorkTypes
<1>10. Quiet
  BY <1>1 DEF Quiet
<1>11. Forgets'
  BY <1>1, <1>3, <1>4, <1>6 DEF Forgets
<1>12. ui.menu # NoMenu
  BY <1>1 DEF NoMenu
<1>13. MenuInv'
  <2>1. Tracks'
    BY <1>1 DEF MenuInv, Tracks
  <2>2. MenuTracks'
    BY <1>1, <1>4, <1>6, <1>12 DEF MenuInv, MenuTracks, Follows
  <2>3. Stays'
    BY <1>1, <1>12 DEF MenuInv, Stays
  <2> QED BY <2>1, <2>2, <2>3 DEF MenuInv
<1> QED BY <1>9, <1>10, <1>11, <1>13

\* The focus comes to a place.
LEMMA FocusStep ==
  ASSUME Types, Forgets, MenuInv, NEW t \in Tasks, NEW field \in Fields \cup {"other"}, Focus(t, field)
  PROVE  Types' /\ Quiet /\ Forgets' /\ MenuInv'
<1> DEFINE w == Asking("query", field, FALSE)
<1>1. /\ Event /\ task[t] = Idle /\ active # field /\ (field \in Fields => form)
      /\ active' = field /\ blur' = (blur \/ active # None)
      /\ state' = [state EXCEPT !.forms = @ \/ form, !.focused = field]
      /\ \/ form /\ Put(t, w) /\ ui' = ui
         \/ ~form /\ ui' = TeardownButton(ui) /\ task' = task
      /\ Redraws /\ chosen' = FALSE
      /\ UNCHANGED <<form, pending, bar, rushed, again, captures, news, vault, late, lost>>
  BY DEF Focus, Free, saving
<1>2. /\ ui \in Ui /\ OnButton(ui) /\ state \in State /\ form \in BOOLEAN /\ active \in Places
      /\ task \in [Tasks -> Task] /\ field \in Places /\ "query" \in Kinds
  BY DEF Types, PageTypes, WorkTypes, Places, Fields, Kinds
<1>3. w \in Task /\ w.kind = "query" /\ w.field = field /\ w.bar = NoBar
  BY <1>2, NewTask
<1> HIDE DEF w
<1>4. /\ state' \in State /\ (state'.forms <=> state.forms \/ form) /\ state'.focused = field
      /\ state'.matches = state.matches /\ state'.unlocked = state.unlocked
  <2>1. state' = LookedAt(state, field)
    BY <1>1 DEF LookedAt
  <2> QED BY <1>2, <2>1, Looks
<1>5. ui' \in Ui /\ OnButton(ui)' /\ ui'.menu \in {ui.menu, NoMenu}
  <2>1. CASE ui' = ui
    BY <1>2, <2>1 DEF OnButton
  <2>2. CASE ui' = TeardownButton(ui)
    <3>1. "username" \in Fields
      BY DEF Fields
    <3> QED BY <1>2, <2>2, <3>1, Overlays DEF OnButton
  <2> QED BY <1>1, <2>1, <2>2
<1>6. /\ task' \in [Tasks -> Task]
      /\ \A u \in Tasks : task'[u] = task[u] \/ (task[u] = Idle /\ task'[u] = w)
      /\ form => task'[t] = w
  BY <1>1, <1>2, <1>3, Puts
<1>7. dom' \in BOOLEAN /\ blur' \in BOOLEAN
  BY <1>1, Draws DEF Types, PageTypes
<1>8. Types'
  <2>1. PageTypes'
    BY <1>1, <1>2, <1>4, <1>5, <1>7 DEF PageTypes
  <2>2. HistoryTypes' /\ WorkTypes'
    BY <1>1, <1>6 DEF Types, HistoryTypes, WorkTypes
  <2> QED BY <1>1, <2>1, <2>2, PageStepTypes
<1>9. Quiet
  BY <1>1, <1>3, <1>6, Blank DEF Quiet, Saves
<1>10. Forgets'
  BY <1>1, <1>4, <1>5, StillForgets DEF NoMenu
<1>11. MenuInv'
  <2>1. Tracks'
    BY <1>1, <1>4 DEF Tracks
  <2>2. MenuTracks'
    <3>1. SUFFICES ASSUME ~lost, ui'.menu # NoMenu
                   PROVE  \/ active' \notin Fields /\ blur'
                          \/ active' \in Fields /\ \E u \in Tasks : Follows(u, active)'
      BY <1>1 DEF MenuTracks
    <3>2. CASE field \in Fields
      BY <1>1, <1>3, <1>6, <3>2 DEF Follows
    <3>3. CASE field \notin Fields
      <4>1. ui'.menu = ui.menu /\ ui.menu # NoMenu /\ ui.menu.field \in Fields
        BY <1>2, <1>5, <3>1, MenuIsOnField
      <4>2. blur \/ active # None
        BY <3>1, <4>1 DEF MenuInv, MenuTracks, None, Fields
      <4> QED BY <1>1, <3>3, <4>2
    <3> QED BY <3>2, <3>3
  <2>3. Stays'
    BY <1>1 DEF Stays
  <2> QED BY <2>1, <2>2, <2>3 DEF MenuInv
<1> QED BY <1>8, <1>9, <1>10, <1>11

\* The menu closes or stays, the focus stays, and no field that waits for its answer is
\* given up.
LEMMA MenuKept ==
  ASSUME MenuInv, UNCHANGED <<active, blur, lost>>, chosen' = chosen \/ chosen' = FALSE,
         state.forms => state'.forms, state'.focused = state.focused,
         ui'.menu \in {ui.menu, NoMenu},
         \A u \in Tasks : task'[u] = task[u] \/ (task[u].kind # "query" /\ task'[u].field = None)
  PROVE  MenuInv'
<1>1. Tracks'
  BY DEF MenuInv, Tracks
<1>2. None \notin Fields
  BY DEF None, Fields
<1>3. \A u \in Tasks : Follows(u, active) => Follows(u, active)'
  BY DEF Follows
<1>4. MenuTracks'
  BY <1>3 DEF MenuInv, MenuTracks
<1>5. Stays'
  BY <1>2 DEF MenuInv, Stays
<1> QED BY <1>1, <1>4, <1>5 DEF MenuInv

\* The page changed, or the vault was unlocked: the script looks at the forms and asks.
LEMMA RefreshSteps ==
  ASSUME Types, Forgets, MenuInv, NEW t \in Tasks, DomTimer(t) \/ HearUnlocked(t)
  PROVE  Types' /\ Quiet /\ Forgets' /\ MenuInv'
<1> DEFINE w == Asking("query", None, FALSE)
<1>1. /\ task[t] = Idle /\ state' = Looked(state)
      /\ \/ form /\ Put(t, w) /\ ui' = ui
         \/ ~form /\ ui' = TeardownButton(ui) /\ task' = task
      /\ dom' = (dom \/ Redrawn) \/ dom' = Redrawn
      /\ news' = news \/ (news # <<>> /\ Head(news) = "unlocked" /\ news' = Tail(news))
      /\ UNCHANGED <<form, active, blur, pending, bar, rushed, again, captures, vault, late, chosen, lost, events>>
  BY DEF DomTimer, HearUnlocked, Detects, Looked, Free, saving, Redraws
<1>2. /\ ui \in Ui /\ OnButton(ui) /\ state \in State /\ form \in BOOLEAN
      /\ task \in [Tasks -> Task] /\ None \in Places /\ "query" \in Kinds /\ news \in Seq({"locked", "unlocked"})
  BY DEF Types, PageTypes, WorkTypes, Places, Kinds
<1>3. w \in Task /\ w.kind = "query" /\ w.field = None /\ w.bar = NoBar
  BY <1>2, NewTask
<1> HIDE DEF w
<1>4. /\ state' \in State /\ (state'.forms <=> state.forms \/ form) /\ state'.focused = state.focused
      /\ state'.matches = state.matches /\ state'.unlocked = state.unlocked
  BY <1>1, <1>2, Looks
<1>5. ui' \in Ui /\ OnButton(ui)' /\ ui'.menu \in {ui.menu, NoMenu}
  <2>1. CASE ui' = ui
    BY <1>2, <2>1 DEF OnButton
  <2>2. CASE ui' = TeardownButton(ui)
    <3>1. "username" \in Fields
      BY DEF Fields
    <3> QED BY <1>2, <2>2, <3>1, Overlays DEF OnButton
  <2> QED BY <1>1, <2>1, <2>2
<1>6. /\ task' \in [Tasks -> Task]
      /\ \A u \in Tasks : task'[u] = task[u] \/ (task[u] = Idle /\ task'[u] = w)
  BY <1>1, <1>2, <1>3, Puts
<1>7. dom' \in BOOLEAN
  <2>1. (dom \/ Redrawn) \in BOOLEAN /\ Redrawn \in BOOLEAN
    BY DEF Redrawn
  <2> QED BY <1>1, <2>1
<1>8. news' \in Seq({"locked", "unlocked"})
  BY <1>1, <1>2
<1>9. Types'
  <2>1. PageTypes'
    BY <1>1, <1>4, <1>5, <1>7 DEF Types, PageTypes
  <2>2. HistoryTypes' /\ WorkTypes'
    BY <1>1, <1>6, <1>8 DEF Types, HistoryTypes, WorkTypes
  <2> QED BY <1>1, <2>1, <2>2, PageStepTypes
<1>10. Quiet
  BY <1>1, <1>3, <1>6, Blank DEF Quiet, Saves
<1>11. Forgets'
  <2>1. ASSUME NEW k \in DOMAIN news, news[k] = "locked"
        PROVE  \E i \in DOMAIN news' : news'[i] = "locked"
    <3>1. CASE news' = news
      BY <2>1, <3>1
    <3>2. CASE news # <<>> /\ Head(news) = "unlocked" /\ news' = Tail(news)
      <4>1. k \in 1..Len(news) /\ k # 1
        BY <1>2, <2>1, <3>2
      <4>2. k - 1 \in DOMAIN news' /\ news'[k - 1] = news[k]
        BY <1>2, <3>2, <4>1
      <4> QED BY <2>1, <4>2
    <3> QED BY <1>1, <3>1, <3>2
  <2> QED BY <1>1, <1>4, <1>5, <2>1 DEF Forgets, NoMenu
<1>12. MenuInv'
  BY <1>1, <1>3, <1>4, <1>5, <1>6, Blank, MenuKept
<1> QED BY <1>9, <1>10, <1>11, <1>12

\* Escape closes the menu.
LEMMA EscapeStep ==
  ASSUME Types, Forgets, MenuInv, Escape
  PROVE  Types' /\ Quiet /\ Forgets' /\ MenuInv'
<1>1. /\ Event /\ ui' = TeardownMenu(ui) /\ Redraws
      /\ UNCHANGED <<form, active, state, blur, pending, bar, rushed, again, captures, task, news, vault,
                     late, chosen, lost>>
  BY DEF Escape, saving
<1>2. ui \in Ui /\ OnButton(ui) /\ state \in State /\ "username" \in Fields
  BY DEF Types, PageTypes, Fields
<1>3. ui' \in Ui /\ OnButton(ui)' /\ ui'.menu = NoMenu
  BY <1>1, <1>2, Overlays DEF OnButton
<1>4. dom' \in BOOLEAN
  BY <1>1, Draws DEF Types, PageTypes
<1>5. Types'
  BY <1>1, <1>3, <1>4, PageStepTypes DEF Types, PageTypes, HistoryTypes, WorkTypes
<1>6. Quiet
  BY <1>1 DEF Quiet
<1>7. Forgets'
  BY <1>1, <1>3, StillForgets DEF NoMenu
<1>8. MenuInv'
  BY <1>1, <1>3, MenuKept
<1> QED BY <1>5, <1>6, <1>7, <1>8

\* The script hears of the lock: the menu closes and what it knew is gone.
LEMMA HearLockedStep ==
  ASSUME Types, Forgets, MenuInv, HearLocked
  PROVE  Types' /\ Quiet /\ Forgets' /\ MenuInv'
<1>1. /\ news # <<>> /\ news' = Tail(news) /\ Redraws /\ late' = FALSE
      /\ state' = [state EXCEPT !.unlocked = FALSE, !.matches = FALSE]
      /\ ui' = TeardownMenu(ui)
      /\ UNCHANGED <<form, active, blur, pending, bar, rushed, again, captures, task, vault, chosen, lost, events>>
  BY DEF HearLocked, saving
<1>2. /\ ui \in Ui /\ OnButton(ui) /\ state \in State /\ "username" \in Fields /\ None \in Places
      /\ news \in Seq({"locked", "unlocked"})
  BY DEF Types, PageTypes, WorkTypes, Fields, Places
<1>3. ui' \in Ui /\ OnButton(ui)' /\ ui'.menu = NoMenu
  BY <1>1, <1>2, Overlays DEF OnButton
<1>4. /\ state' \in State /\ state'.forms = state.forms /\ state'.focused = state.focused
      /\ state'.matches = FALSE /\ state'.unlocked = FALSE
  BY <1>1, <1>2, Knows
<1>5. dom' \in BOOLEAN /\ news' \in Seq({"locked", "unlocked"})
  BY <1>1, <1>2, Draws DEF Types, PageTypes
<1>6. Types'
  BY <1>1, <1>3, <1>4, <1>5, PageStepTypes DEF Types, PageTypes, HistoryTypes, WorkTypes
<1>7. Quiet
  BY <1>1 DEF Quiet
<1>8. Forgets'
  BY <1>3, <1>4 DEF Forgets, NoMenu
<1>9. MenuInv'
  BY <1>1, <1>3, <1>4, MenuKept
<1> QED BY <1>6, <1>7, <1>8, <1>9

\* The focus goes to the page.
LEMMA LeaveStep ==
  ASSUME Types, Forgets, MenuInv, Leave
  PROVE  Types' /\ Quiet /\ Forgets' /\ MenuInv'
<1>1. /\ Event /\ active' = None /\ blur' = TRUE /\ chosen' = FALSE
      /\ UNCHANGED <<form, state, ui, dom, pending, bar, rushed, again, captures, task, news, vault, late, lost>>
  BY DEF Leave, saving
<1>2. None \in Places /\ None \notin Fields
  BY DEF None, Places, Fields
<1>3. Types'
  BY <1>1, <1>2, PageStepTypes DEF Types, PageTypes, OnButton, HistoryTypes, WorkTypes
<1>4. Quiet
  BY <1>1 DEF Quiet
<1>5. Forgets'
  BY <1>1, StillForgets
<1>6. MenuInv'
  BY <1>1, <1>2 DEF MenuInv, Tracks, MenuTracks, Stays
<1> QED BY <1>3, <1>4, <1>5, <1>6

\* The form comes or goes, and the focus in it goes untold.
LEMMA FormChangesStep ==
  ASSUME Types, Forgets, MenuInv, FormChanges
  PROVE  Types' /\ Quiet /\ Forgets' /\ MenuInv'
<1>1. /\ Event /\ form' = ~form /\ dom' = TRUE
      /\ active' = IF active \in Fields THEN None ELSE active
      /\ lost' = (lost \/ active \in Fields)
      /\ UNCHANGED <<state, ui, blur, pending, bar, rushed, again, captures, task, news, vault, late, chosen>>
  BY DEF FormChanges, saving
<1>2. None \in Places /\ None \notin Fields /\ (~form) \in BOOLEAN /\ (lost \/ active \in Fields) \in BOOLEAN
  BY DEF None, Places, Fields
<1>3. Types'
  <2>1. form' \in BOOLEAN /\ lost' \in BOOLEAN
    BY <1>1, <1>2
  <2> QED BY <1>1, <1>2, <2>1, PageStepTypes DEF Types, PageTypes, OnButton, HistoryTypes, WorkTypes
<1>4. Quiet
  BY <1>1 DEF Quiet
<1>5. Forgets'
  BY <1>1, StillForgets
<1>6. MenuInv'
  <2>1. active' \notin Fields /\ (~lost' => ~lost /\ active' = active)
    BY <1>1, <1>2
  <2> QED BY <1>1, <2>1 DEF MenuInv, Tracks, MenuTracks, Stays
<1> QED BY <1>3, <1>4, <1>5, <1>6

\* The vault is locked or unlocked, or the menu's setting changes.
LEMMA VaultSteps ==
  ASSUME Types, Forgets, MenuInv, Lock \/ Unlock \/ \E mode \in Modes : SetMode(mode)
  PROVE  Types' /\ Quiet /\ Forgets' /\ MenuInv'
<1>1. /\ Event
      /\ UNCHANGED <<form, active, state, ui, dom, blur, pending, bar, rushed, again, captures, task,
                     late, chosen, lost>>
  BY DEF Lock, Unlock, SetMode, script, saving
<1>2. vault \in Vaults /\ news \in Seq({"locked", "unlocked"})
  BY DEF Types, WorkTypes
<1>3. \/ vault' = [vault EXCEPT !.open = FALSE] /\ news' = Append(news, "locked")
      \/ vault' = [vault EXCEPT !.open = TRUE] /\ news' = Append(news, "unlocked")
      \/ \E mode \in Modes : vault' = [vault EXCEPT !.mode = mode] /\ news' = news
  BY DEF Lock, Unlock, SetMode
<1>4. /\ vault' \in Vaults /\ vault'.logins = vault.logins /\ news' \in Seq({"locked", "unlocked"})
      /\ \/ vault'.open = vault.open /\ news' = news
         \/ vault'.open
         \/ news' = Append(news, "locked")
  <2>1. CASE vault' = [vault EXCEPT !.open = FALSE] /\ news' = Append(news, "locked")
    <3>1. vault' \in Vaults /\ vault'.logins = vault.logins /\ vault'.open = FALSE
      BY <1>2, <2>1 DEF Vaults
    <3>2. news' \in Seq({"locked", "unlocked"})
      BY <1>2, <2>1
    <3> QED BY <2>1, <3>1, <3>2
  <2>2. CASE vault' = [vault EXCEPT !.open = TRUE] /\ news' = Append(news, "unlocked")
    <3>1. vault' \in Vaults /\ vault'.logins = vault.logins /\ vault'.open = TRUE
      BY <1>2, <2>2 DEF Vaults
    <3>2. news' \in Seq({"locked", "unlocked"})
      BY <1>2, <2>2
    <3> QED BY <2>2, <3>1, <3>2
  <2>3. CASE \E mode \in Modes : vault' = [vault EXCEPT !.mode = mode] /\ news' = news
    BY <1>2, <2>3 DEF Vaults
  <2> QED BY <1>3, <2>1, <2>2, <2>3
<1>5. Types'
  BY <1>1, <1>4, PageStepTypes DEF Types, PageTypes, OnButton, HistoryTypes, WorkTypes
<1>6. Quiet
  BY <1>1, <1>4 DEF Quiet
<1>7. Forgets'
  <2>1. CASE vault'.open = vault.open /\ news' = news
    BY <1>1, <2>1 DEF Forgets
  <2>2. CASE vault'.open
    BY <2>2 DEF Forgets
  <2>3. CASE news' = Append(news, "locked")
    <3>1. Len(news) + 1 \in DOMAIN news' /\ news'[Len(news) + 1] = "locked"
      BY <1>2, <2>3
    <3> QED BY <3>1 DEF Forgets
  <2> QED BY <1>4, <2>1, <2>2, <2>3
<1>8. MenuInv'
  BY <1>1, MenuKept
<1> QED BY <1>5, <1>6, <1>7, <1>8

\* The user chooses a login in the menu.
LEMMA ChooseStep ==
  ASSUME Types, Forgets, MenuInv, NEW t \in Tasks, Choose(t)
  PROVE  Types' /\ Quiet /\ Forgets' /\ MenuInv'
<1> DEFINE w == Asking("reveal", None, FALSE)
<1>1. /\ Event /\ task[t] = Idle /\ Put(t, w) /\ chosen' = FALSE
      /\ active' = "overlay" /\ blur' = (blur \/ (active # None /\ active # "overlay"))
      /\ UNCHANGED <<form, state, ui, dom, pending, bar, rushed, again, captures, news, vault, late, lost>>
  BY DEF Choose, Free, saving
<1>2. "overlay" \in Places /\ "overlay" \notin Fields /\ None \in Places /\ "reveal" \in Kinds
  BY DEF Places, Fields, Kinds
<1>3. w \in Task /\ w.kind = "reveal" /\ w.bar = NoBar
  BY <1>2, NewTask
<1> HIDE DEF w
<1>4. /\ task' \in [Tasks -> Task]
      /\ \A u \in Tasks : task'[u] = task[u] \/ (task[u] = Idle /\ task'[u] = w)
  BY <1>1, <1>3, Puts DEF Types, WorkTypes
<1>5. Types'
  <2>1. blur' \in BOOLEAN
    BY <1>1 DEF Types, PageTypes
  <2> QED BY <1>1, <1>2, <1>4, <2>1, PageStepTypes DEF Types, PageTypes, OnButton, HistoryTypes, WorkTypes
<1>6. Quiet
  BY <1>1, <1>3, <1>4, Blank DEF Quiet, Saves
<1>7. Forgets'
  BY <1>1, StillForgets
<1>8. MenuInv'
  BY <1>1, <1>2 DEF MenuInv, Tracks, MenuTracks, Stays
<1> QED BY <1>5, <1>6, <1>7, <1>8

\* A click on the icon opens the menu or closes it.
LEMMA ClickButtonStep ==
  ASSUME Types, Forgets, MenuInv, ClickButton
  PROVE  Types' /\ Quiet /\ Forgets' /\ MenuInv'
<1>1. /\ Event /\ ui.button # None /\ Redraws /\ chosen' = FALSE
      /\ active' = "overlay" /\ blur' = (blur \/ (active # None /\ active # "overlay"))
      /\ ui' = TeardownMenu(ui) \/ ui' = OpenMenu(state, ui, ui.button)
      /\ UNCHANGED <<form, pending, bar, rushed, again, captures, task, news, vault, late, lost>>
  BY DEF ClickButton, saving
<1>2. PICK focused \in {state.focused, None} : state' = [state EXCEPT !.focused = focused]
  BY DEF ClickButton
<1>3. /\ ui \in Ui /\ OnButton(ui) /\ state \in State /\ "overlay" \in Places /\ "overlay" \notin Fields
      /\ ui.button \in Fields /\ focused \in Places
  BY <1>1, <1>2 DEF Types, PageTypes, Places, Fields, Ui, State
<1>4. /\ state' \in State /\ state'.matches = state.matches /\ state'.unlocked = state.unlocked
  BY <1>2, <1>3, Knows
<1>5. ui' \in Ui /\ OnButton(ui)' /\ (ui'.menu.shows = "logins" => ui.menu.shows = "logins")
  <2>1. CASE ui' = TeardownMenu(ui)
    BY <1>3, <2>1, Overlays DEF OnButton, NoMenu
  <2>2. CASE ui' = OpenMenu(state, ui, ui.button)
    BY <1>3, <2>2, Opens DEF OnButton
  <2> QED BY <1>1, <2>1, <2>2
<1>6. dom' \in BOOLEAN /\ blur' \in BOOLEAN
  BY <1>1, Draws DEF Types, PageTypes
<1>7. Types'
  BY <1>1, <1>3, <1>4, <1>5, <1>6, PageStepTypes DEF Types, PageTypes, HistoryTypes, WorkTypes
<1>8. Quiet
  BY <1>1 DEF Quiet
<1>9. Forgets'
  BY <1>1, <1>4, <1>5, StillForgets
<1>10. MenuInv'
  BY <1>1, <1>3 DEF MenuInv, Tracks, MenuTracks, Stays
<1> QED BY <1>7, <1>8, <1>9, <1>10

\* The timer of focusout: the focus is in the form or an overlay, or the menu goes.
LEMMA BlurTimerStep ==
  ASSUME Types, Forgets, MenuInv, BlurTimer
  PROVE  Types' /\ Quiet /\ Forgets' /\ MenuInv'
<1> DEFINE stays == active = "overlay" \/ (active \in Fields /\ state.forms)
<1>1. /\ blur' = FALSE /\ Redraws
      /\ \/ stays /\ UNCHANGED <<state, ui, lost>>
         \/ ~stays /\ state' = [state EXCEPT !.focused = None] /\ ui' = PlaceButton(state', TeardownMenu(ui)) /\ lost' = FALSE
      /\ UNCHANGED <<form, active, pending, bar, rushed, again, captures, task, news, vault, late, chosen, events>>
  BY DEF BlurTimer, saving
<1>2. /\ ui \in Ui /\ OnButton(ui) /\ state \in State /\ "username" \in Fields
      /\ None \in Places /\ None \notin Fields
  BY DEF Types, PageTypes, Places, Fields, None
<1>3. dom' \in BOOLEAN
  BY <1>1, Draws DEF Types, PageTypes
<1>4. Quiet
  BY <1>1 DEF Quiet
<1>5. CASE stays /\ UNCHANGED <<state, ui, lost>>
  <2>1. Types'
    BY <1>1, <1>3, <1>5, PageStepTypes DEF Types, PageTypes, OnButton, HistoryTypes, WorkTypes
  <2>2. Forgets'
    BY <1>1, <1>5, StillForgets
  <2>3. MenuInv'
    <3>1. Tracks'
      BY <1>1, <1>5 DEF MenuInv, Tracks
    <3>2. MenuTracks'
      BY <1>1, <1>5 DEF MenuInv, MenuTracks, Follows
    <3>3. Stays'
      BY <1>1, <1>5 DEF MenuInv, Stays
    <3> QED BY <3>1, <3>2, <3>3 DEF MenuInv
  <2> QED BY <1>4, <2>1, <2>2, <2>3
<1>6. CASE ~stays /\ state' = [state EXCEPT !.focused = None] /\ ui' = PlaceButton(state', TeardownMenu(ui)) /\ lost' = FALSE
  <2>0. /\ state' \in State /\ state'.focused = None
        /\ state'.matches = state.matches /\ state'.unlocked = state.unlocked
    BY <1>2, <1>6 DEF State
  <2> DEFINE v == TeardownMenu(ui)
  <2>1. v \in Ui /\ OnButton(v) /\ v.menu = NoMenu
    BY <1>2, Overlays
  <2> HIDE DEF v
  <2>2. PlaceButton(state', v) \in Ui /\ OnButton(PlaceButton(state', v)) /\ PlaceButton(state', v).menu = NoMenu
    BY <1>2, <2>0, <2>1, Overlays
  <2>3. ui' \in Ui /\ OnButton(ui)' /\ ui'.menu = NoMenu
    BY <1>6, <2>2 DEF OnButton, v
  <2>4. Types'
    BY <1>1, <1>3, <1>6, <2>0, <2>3, PageStepTypes DEF Types, PageTypes, HistoryTypes, WorkTypes
  <2>5. Forgets'
    BY <1>1, <1>6, <2>0, <2>3, StillForgets DEF NoMenu
  <2>6. MenuInv'
    <3>1. active \notin Fields
      BY <1>6 DEF MenuInv, Tracks
    <3> QED BY <1>1, <1>2, <1>6, <2>0, <2>3, <3>1 DEF MenuInv, Tracks, MenuTracks, Stays
  <2> QED BY <1>4, <2>4, <2>5, <2>6
<1> QED BY <1>1, <1>5, <1>6

\* What follows the focus once its answer is there: the menu is where the focus is.
LEMMA RestKeeps ==
  ASSUME PageTypes, MenuInv, task \in [Tasks -> Task], NEW t \in Tasks,
         NEW u \in Ui, OnButton(u), u.menu \in {ui.menu, NoMenu},
         state' \in State, state'.forms = state.forms, state'.focused = state.focused,
         UNCHANGED <<active, blur, lost>>, chosen' = chosen \/ chosen' = FALSE,
         ui' = FocusRest(state', u, task[t].field, task[t].fill),
         task'[t] = Idle, \A v \in Tasks \ {t} : task'[v] = task[v]
  PROVE  /\ ui' \in Ui /\ OnButton(ui)' /\ (ui'.menu.shows = "logins" => ui.menu.shows = "logins")
         /\ MenuInv'
<1> DEFINE place == task[t].field
           fill == task[t].fill
<1>1. place \in Places /\ fill \in BOOLEAN
  BY DEF Task
<1>2. ui' = FocusRest(state', u, place, fill)
  OBVIOUS
<1> HIDE DEF place, fill
<1>3. /\ ui' \in Ui /\ OnButton(ui')
      /\ \/ ui'.menu \in {u.menu, NoMenu}
         \/ /\ ~fill /\ place \in Fields /\ state'.focused = place
            /\ ui'.menu = [field |-> place, shows |-> "loading"]
      /\ place \in Fields /\ state'.focused = place /\ state'.forms => ui'.menu.field \in {None, place}
  BY <1>1, <1>2, Rests
<1>4. ui'.menu = NoMenu \/ ui'.menu.field \in Fields
  BY <1>3, MenuIsOnField
<1>5. Tracks'
  BY DEF MenuInv, Tracks
<1>6. MenuTracks'
  <2>1. SUFFICES ASSUME ~lost, ui'.menu # NoMenu
                 PROVE  \/ active = "overlay" \/ active = ui'.menu.field
                        \/ active \notin Fields /\ blur
                        \/ active \in Fields /\ \E v \in Tasks : Follows(v, active)'
    BY DEF MenuTracks
  <2>2. CASE place \in Fields /\ state.focused = place /\ ui'.menu = [field |-> place, shows |-> "loading"]
    <3>1. blur \/ active \in {place, "overlay"}
      BY <2>1, <2>2 DEF MenuInv, Tracks
    <3>2. active \in Fields => active = place
      BY <2>2 DEF MenuInv, Tracks
    <3> QED BY <2>2, <3>1, <3>2
  <2>3. CASE ui'.menu = ui.menu
    <3>1. CASE active \in Fields /\ Follows(t, active)
      <4>1. state'.forms /\ state'.focused = active /\ place = active
        BY <3>1 DEF MenuInv, Tracks, Follows, place
      <4> QED BY <1>3, <1>4, <2>1, <3>1, <4>1 DEF None, Fields
    <3>2. CASE active \in Fields /\ \E v \in Tasks \ {t} : Follows(v, active)
      BY <3>2 DEF Follows
    <3> QED BY <2>1, <2>3, <3>1, <3>2 DEF MenuInv, MenuTracks
  <2> QED BY <1>3, <2>1, <2>2, <2>3
<1>7. Stays'
  <2>1. SUFFICES ASSUME chosen' PROVE ui'.menu = NoMenu /\ \A v \in Tasks : task'[v].field \in Fields => task'[v].fill
    BY DEF Stays
  <2>2. chosen /\ ui.menu = NoMenu /\ \A v \in Tasks : task[v].field \in Fields => task[v].fill
    BY <2>1 DEF MenuInv, Stays
  <2>3. place \in Fields => fill
    BY <2>2 DEF place, fill
  <2>4. Idle.field \notin Fields
    BY Blank DEF None, Fields
  <2> QED BY <1>3, <2>2, <2>3, <2>4
<1> QED BY <1>3, <1>5, <1>6, <1>7 DEF MenuInv, OnButton, NoMenu

\* A failed query is followed up as an answered one is.
LEMMA FailsStep ==
  ASSUME Types, Forgets, MenuInv, AskInv, SaveInv, NEW t \in Tasks, Fails(t)
  PROVE  Types' /\ AskInv' /\ SaveInv' /\ Forgets' /\ MenuInv'
<1>1. /\ Put(t, Idle) /\ Redraws
      /\ UNCHANGED <<form, active, state, blur, pending, bar, rushed, again, captures, news, vault,
                     late, chosen, lost, events>>
  BY DEF Fails, saving
<1>2. /\ ui \in Ui /\ OnButton(ui) /\ state \in State /\ task \in [Tasks -> Task] /\ PageTypes
  BY DEF Types, PageTypes, WorkTypes
<1>3. task' \in [Tasks -> Task] /\ task'[t] = Idle /\ \A u \in Tasks \ {t} : task'[u] = task[u]
  BY <1>1, <1>2, Blank, Puts
<1>4. /\ ui' \in Ui /\ OnButton(ui)' /\ (ui'.menu.shows = "logins" => ui.menu.shows = "logins")
      /\ MenuInv'
  <2>1. CASE task[t].kind = "query" /\ task[t].field # None
    <3>1. ui' = FocusRest(state', ui, task[t].field, task[t].fill)
      BY <1>1, <2>1 DEF Fails
    <3> QED BY <1>1, <1>2, <1>3, <3>1, RestKeeps
  <2>2. CASE task[t].kind = "query" /\ task[t].field = None
    <3>1. ui' = ui /\ None \notin Fields
      BY <2>2 DEF Fails, None, Fields
    <3>2. ui' = FocusRest(state', ui, task[t].field, task[t].fill)
      BY <2>2, <3>1 DEF FocusRest
    <3> QED BY <1>1, <1>2, <1>3, <3>2, RestKeeps
  <2>3. CASE task[t].kind # "query"
    <3>1. ui' = ui
      BY <2>3 DEF Fails
    <3>2. MenuInv'
      BY <1>1, <1>3, <2>3, <3>1, Blank, MenuKept
    <3> QED BY <1>2, <3>1, <3>2 DEF OnButton
  <2> QED BY <2>1, <2>2, <2>3
<1>5. dom' \in BOOLEAN
  BY <1>1, Draws DEF Types, PageTypes
<1>6. Types'
  BY <1>1, <1>3, <1>4, <1>5, PageStepTypes DEF Types, PageTypes, HistoryTypes, WorkTypes
<1>7. Forgets'
  BY <1>1, <1>4, StillForgets
<1> QED BY <1>4, <1>6, <1>7, FailsSaves

\* The answer of a query: what the vault said, the button, and what follows the focus.
LEMMA RefreshedStep ==
  ASSUME Types, Forgets, MenuInv, NEW t \in Tasks, Refreshed(t)
  PROVE  Types' /\ Quiet /\ Forgets' /\ MenuInv'
<1> DEFINE w == task[t]
           saw == w.saw
           matches == saw.open /\ saw.logins # <<>>
           s == [state EXCEPT !.matches = matches, !.unlocked = saw.open, !.mode = saw.mode]
           u == IF saw.mode = "off" THEN TeardownButton(ui) ELSE PlaceButton(s, ui)
           fills == saw.fills /\ saw.open /\ Len(saw.logins) = 1 /\ saw.mode # "off"
           x == [Asking("autofill", w.field, w.fill) EXCEPT !.saw = Unread]
<1>1. /\ w.kind = "query" /\ state' = s /\ Redraws
      /\ late' = (late \/ (saw.open /\ ~vault.open /\ ~(\E k \in DOMAIN news : news[k] = "locked")))
      /\ \/ fills /\ ui' = u /\ Put(t, x)
         \/ /\ ~fills /\ Put(t, Idle)
            /\ ui' = IF w.field = None THEN u ELSE FocusRest(s, u, w.field, w.fill)
      /\ UNCHANGED <<form, active, blur, pending, bar, rushed, again, captures, news, vault, chosen, lost, events>>
  BY DEF Refreshed, Given, saving
<1>2. /\ ui \in Ui /\ OnButton(ui) /\ state \in State /\ task \in [Tasks -> Task] /\ w \in Task
      /\ saw \in Vaults /\ "autofill" \in Kinds /\ "username" \in Fields /\ PageTypes
  BY DEF Types, PageTypes, WorkTypes, Task, Kinds, Fields
<1>3. matches \in BOOLEAN /\ saw.open \in BOOLEAN /\ saw.mode \in Modes \cup {"on"}
  BY <1>2 DEF Vaults
<1>4. /\ s \in State /\ s.forms = state.forms /\ s.focused = state.focused
      /\ s.matches = matches /\ s.unlocked = saw.open
  <2> HIDE DEF matches, saw
  <2> QED BY <1>2, <1>3 DEF State
<1>5. x \in Task /\ x.kind = "autofill" /\ x.field = w.field /\ x.fill = w.fill /\ x.bar = NoBar
  BY <1>2, NextTask
<1> HIDE DEF s, x
<1>6. /\ u \in Ui /\ OnButton(u) /\ u.menu \in {ui.menu, NoMenu}
      /\ saw.mode # "off" /\ s.forms /\ s.focused \in Fields => u.button = s.focused
  <2>1. CASE saw.mode = "off"
    BY <1>2, <1>4, <2>1, Overlays
  <2>2. CASE saw.mode # "off"
    BY <1>2, <1>4, <2>2, Overlays
  <2> QED BY <2>1, <2>2
<1> HIDE DEF u
<1>7. dom' \in BOOLEAN /\ late' \in BOOLEAN
  <2>1. (late \/ (saw.open /\ ~vault.open /\ ~(\E k \in DOMAIN news : news[k] = "locked"))) \in BOOLEAN
    OBVIOUS
  <2> QED BY <1>1, <2>1, Draws DEF Types, PageTypes
<1>8. /\ task' \in [Tasks -> Task] /\ ui' \in Ui /\ OnButton(ui)'
      /\ \A v \in Tasks : task'[v] = task[v] \/ (v = t /\ task'[v] \in {Idle, x})
      /\ ui'.menu.shows = "logins" => ui.menu.shows = "logins"
      /\ MenuInv'
  <2>1. CASE fills /\ ui' = u /\ Put(t, x)
    <3>1. task' \in [Tasks -> Task] /\ task'[t] = x /\ \A v \in Tasks \ {t} : task'[v] = task[v]
      BY <1>2, <1>5, <2>1, Puts
    <3>2. Tracks'
      BY <1>1, <1>4 DEF MenuInv, Tracks
    <3>3. MenuTracks'
      <4>1. SUFFICES ASSUME ~lost, u.menu # NoMenu
                     PROVE  \/ active = "overlay" \/ active = u.menu.field
                            \/ active \notin Fields /\ blur
                            \/ active \in Fields /\ \E v \in Tasks : Follows(v, active)'
        BY <1>1, <2>1 DEF MenuTracks
      <4>2. u.menu = ui.menu /\ u.menu.field \in Fields
        BY <1>6, <4>1, MenuIsOnField
      <4>3. CASE active \in Fields /\ Follows(t, active)
        <5>1. s.forms /\ s.focused = active
          BY <1>4, <4>3 DEF MenuInv, Tracks
        <5>2. u.button = active
          BY <1>6, <2>1, <4>3, <5>1
        <5> QED BY <1>6, <4>2, <4>3, <5>2 DEF OnButton, None, Fields
      <4>4. CASE active \in Fields /\ \E v \in Tasks \ {t} : Follows(v, active)
        BY <1>1, <3>1, <4>4 DEF Follows
      <4> QED BY <4>1, <4>2, <4>3, <4>4 DEF MenuInv, MenuTracks
    <3>4. Stays'
      BY <1>1, <1>5, <1>6, <2>1, <3>1 DEF MenuInv, Stays
    <3> QED BY <1>6, <2>1, <3>1, <3>2, <3>3, <3>4 DEF MenuInv, OnButton, NoMenu
  <2>2. CASE /\ ~fills /\ Put(t, Idle)
             /\ ui' = IF w.field = None THEN u ELSE FocusRest(s, u, w.field, w.fill)
    <3>1. task' \in [Tasks -> Task] /\ task'[t] = Idle /\ \A v \in Tasks \ {t} : task'[v] = task[v]
      BY <1>2, <2>2, Blank, Puts
    <3>2. ui' = FocusRest(state', u, task[t].field, task[t].fill)
      <4>1. CASE w.field = None
        <5>1. None \notin Fields
          BY DEF None, Fields
        <5> QED BY <2>2, <4>1, <5>1 DEF FocusRest
      <4>2. CASE w.field # None
        BY <1>1, <2>2, <4>2
      <4> QED BY <4>1, <4>2
    <3>3. state' \in State /\ state'.forms = state.forms /\ state'.focused = state.focused
      BY <1>1, <1>4
    <3>4. UNCHANGED <<active, blur, lost>> /\ chosen' = chosen
      BY <1>1
    <3> QED BY <1>2, <1>6, <3>1, <3>2, <3>3, <3>4, RestKeeps
  <2> QED BY <1>1, <2>1, <2>2
<1>9. Types'
  BY <1>1, <1>4, <1>7, <1>8, PageStepTypes DEF Types, PageTypes, HistoryTypes, WorkTypes
<1>10. Quiet
  BY <1>1, <1>5, <1>8, Blank DEF Quiet, Saves
<1>11. Forgets'
  BY <1>1, <1>4, <1>8 DEF Forgets
<1> QED BY <1>8, <1>9, <1>10, <1>11

\* A login is filled in, and its focus asks anew.
LEMMA FillStep ==
  ASSUME Types, Forgets, MenuInv, NEW t \in Tasks, Fill(t)
  PROVE  Types' /\ Quiet /\ Forgets' /\ MenuInv'
<1> DEFINE w == task[t]
           fills == form /\ w.saw.logins # <<>>
           x == Asking("query", "password", TRUE)
<1>1. /\ w.kind \in {"reveal", "autofill"} /\ Redraws /\ lost' = lost
      /\ state' = IF fills THEN Filled(state) ELSE state
      /\ active' = (IF fills THEN "password" ELSE active) /\ blur' = (blur \/ fills)
      /\ ui' = IF w.kind = "reveal" THEN TeardownMenu(ui)
               ELSE IF w.field = None THEN ui
               ELSE FocusRest(state', ui, w.field, w.fill)
      /\ Put(t, IF fills THEN x ELSE Idle)
      /\ chosen' = (w.kind = "reveal" /\ \A u \in Tasks \ {t} : task[u] = Idle)
      /\ UNCHANGED <<form, pending, bar, rushed, again, captures, news, vault, late, events>>
  BY DEF Fill, Given, saving
<1>2. /\ ui \in Ui /\ OnButton(ui) /\ state \in State /\ task \in [Tasks -> Task] /\ w \in Task
      /\ "password" \in Fields /\ "password" \in Places /\ "query" \in Kinds /\ PageTypes
      /\ w.field \in Places /\ w.fill \in BOOLEAN
  BY DEF Types, PageTypes, WorkTypes, Task, Kinds, Fields, Places
<1>3. x \in Task /\ x.kind = "query" /\ x.field = "password" /\ x.fill = TRUE /\ x.bar = NoBar
  BY <1>2, NewTask
<1> HIDE DEF x
<1>4. /\ task' \in [Tasks -> Task] /\ \A u \in Tasks \ {t} : task'[u] = task[u]
      /\ task'[t] = IF fills THEN x ELSE Idle
  BY <1>1, <1>2, <1>3, Blank, Puts
<1>5. /\ state' \in State /\ state'.matches = state.matches /\ state'.unlocked = state.unlocked
      /\ fills => state'.focused = "password" /\ state'.forms = TRUE
      /\ ~fills => state' = state
  BY <1>1, <1>2, Knows
<1>6. /\ ui' \in Ui /\ OnButton(ui)' /\ (ui'.menu.shows = "logins" => ui.menu.shows = "logins")
      /\ w.kind = "reveal" => ui'.menu = NoMenu
      /\ w.kind # "reveal" => ui' = FocusRest(state', ui, w.field, w.fill)
  <2>1. CASE w.kind = "reveal"
    BY <1>1, <1>2, <2>1, Overlays DEF OnButton, NoMenu
  <2>2. CASE w.kind # "reveal"
    <3>1. ui' = FocusRest(state', ui, w.field, w.fill)
      <4>1. CASE w.field = None
        <5>1. None \notin Fields
          BY DEF None, Fields
        <5> QED BY <1>1, <2>2, <4>1, <5>1 DEF FocusRest
      <4>2. CASE w.field # None
        BY <1>1, <2>2, <4>2
      <4> QED BY <4>1, <4>2
    <3>2. /\ ui' \in Ui /\ OnButton(ui')
          /\ \/ ui'.menu \in {ui.menu, NoMenu}
             \/ ui'.menu = [field |-> w.field, shows |-> "loading"]
      BY <1>2, <1>5, <3>1, Rests
    <3> QED BY <2>2, <3>1, <3>2 DEF OnButton, NoMenu
  <2> QED BY <2>1, <2>2
<1>7. dom' \in BOOLEAN /\ blur' \in BOOLEAN /\ chosen' \in BOOLEAN
  <2>1. (blur \/ fills) \in BOOLEAN /\ (w.kind = "reveal" /\ \A u \in Tasks \ {t} : task[u] = Idle) \in BOOLEAN
    OBVIOUS
  <2> QED BY <1>1, <2>1, Draws DEF Types, PageTypes
<1>8. Types'
  BY <1>1, <1>2, <1>4, <1>5, <1>6, <1>7, PageStepTypes DEF Types, PageTypes, HistoryTypes, WorkTypes
<1>9. Quiet
  BY <1>1, <1>3, <1>4, Blank DEF Quiet, Saves
<1>10. Forgets'
  BY <1>1, <1>5, <1>6, StillForgets
<1>11. MenuInv'
  <2>1. CASE w.kind # "reveal" /\ ~fills
    <3>1. UNCHANGED <<state, active, lost>> /\ task'[t] = Idle
      BY <1>1, <1>4, <1>5, <2>1
    <3>2. chosen' = FALSE
      BY <1>1, <2>1
    <3>3. blur' = blur
      BY <1>1, <2>1 DEF Types, PageTypes
    <3>4. ui' = FocusRest(state', ui, task[t].field, task[t].fill)
      BY <1>6, <2>1
    <3> QED BY <1>2, <1>4, <1>5, <3>1, <3>2, <3>3, <3>4, RestKeeps
  <2>2. CASE w.kind = "reveal" \/ fills
    <3>1. Tracks'
      <4>1. CASE fills
        BY <1>1, <1>2, <1>5, <4>1 DEF Tracks
      <4>2. CASE ~fills
        BY <1>1, <1>5, <4>2 DEF MenuInv, Tracks
      <4> QED BY <4>1, <4>2
    <3>2. MenuTracks'
      <4>1. CASE w.kind = "reveal"
        BY <1>6, <4>1 DEF MenuTracks
      <4>2. CASE fills
        <5>1. Follows(t, "password")' /\ active' = "password"
          BY <1>1, <1>3, <1>4, <4>2 DEF Follows
        <5> QED BY <1>2, <5>1 DEF MenuTracks, Follows
      <4> QED BY <2>2, <4>1, <4>2
    <3>3. Stays'
      <4>1. SUFFICES ASSUME w.kind = "reveal", \A u \in Tasks \ {t} : task[u] = Idle
                     PROVE  ui'.menu = NoMenu /\ \A u \in Tasks : task'[u].field \in Fields => task'[u].fill
        BY <1>1 DEF Stays
      <4>2. Idle.field \notin Fields
        BY Blank DEF None, Fields
      <4> QED BY <1>3, <1>4, <1>6, <4>1, <4>2
    <3> QED BY <3>1, <3>2, <3>3 DEF MenuInv
  <2> QED BY <2>1, <2>2
<1> QED BY <1>8, <1>9, <1>10, <1>11

-----------------------------------------------------------------------------
(***************************************************************************)
(* The invariant, and what it shows.                                       *)
(***************************************************************************)

Inv == Types /\ Forgets /\ MenuInv /\ AskInv /\ SaveInv

\* The script starts knowing nothing.
LEMMA ScriptStart == Init => Inv
<1> SUFFICES ASSUME Init PROVE Inv
  OBVIOUS
<1>1. /\ form = FALSE /\ active = None /\ dom = TRUE /\ blur = FALSE
      /\ state = [forms |-> FALSE, matches |-> FALSE, unlocked |-> FALSE, mode |-> "on", focused |-> None]
      /\ ui = [button |-> None, menu |-> NoMenu]
      /\ pending = NoCapture /\ bar = NoBar /\ rushed = FALSE /\ again = FALSE /\ captures = 0
      /\ task = [t \in Tasks |-> Idle] /\ news = <<>> /\ late = FALSE /\ chosen = FALSE /\ lost = FALSE /\ events = 0
      /\ vault \in [open: {TRUE}, mode: Modes, fills: BOOLEAN, never: {FALSE}, logins: {<<>>, <<0>>}]
  BY DEF Init
<1>2. vault.open = TRUE /\ vault.logins \in {<<>>, <<0>>}
  BY <1>1
<1>3. 0 \in 0..MaxEvents /\ 0 \in Nat
  BY ScriptAssumption
<1>4. <<>> \in Seq(0..MaxEvents) /\ <<0>> \in Seq(0..MaxEvents)
  BY <1>3
<1>5. None \in Places /\ None \notin Fields
  BY DEF None, Places, Fields
<1>6. Types
  <2>1. state \in State
    BY <1>1, <1>5 DEF State
  <2>2. NoMenu \in Menu /\ NoMenu.field = None /\ NoMenu.shows = "nothing"
    BY DEF NoMenu, Menu
  <2>3. ui \in Ui /\ OnButton(ui)
    BY <1>1, <2>2 DEF Ui, OnButton
  <2>4. vault \in Vaults
    BY <1>1, <1>4 DEF Vaults
  <2>5. task \in [Tasks -> Task] /\ news \in Seq({"locked", "unlocked"})
    BY <1>1, Blank
  <2>6. CaptureTypes
    BY <1>1, <1>3, Blank DEF CaptureTypes, NoCapture
  <2> QED BY <1>1, <1>5, <2>1, <2>3, <2>4, <2>5, <2>6 DEF Types, PageTypes, HistoryTypes, WorkTypes
<1>7. Forgets
  BY <1>2 DEF Forgets
<1>8. MenuInv
  BY <1>1, <1>5 DEF MenuInv, Tracks, MenuTracks, Stays
<1>9. \A t \in Tasks : task[t] = Idle
  BY <1>1
<1>10. AskInv
  <2>1. Numbered
    BY <1>1, <1>9, Blank DEF Numbered, NoCapture
  <2>2. Apart
    BY <1>1, <1>9, Blank DEF Apart, AskedOnce
  <2> QED BY <2>1, <2>2 DEF AskInv
<1>11. SaveInv
  <2>1. Len(vault.logins) <= 1
    <3>1. Len(<<>>) <= 1 /\ Len(<<0>>) <= 1
      OBVIOUS
    <3> QED BY <1>2, <3>1
  <2>2. OneAtATime /\ AnswersHold /\ BarHolds
    BY <1>1, <1>9, Blank DEF OneAtATime, AnswersHold, BarHolds, Saving, Judged
  <2> QED BY <2>1, <2>2 DEF SaveInv
<1> QED BY <1>6, <1>7, <1>8, <1>10, <1>11 DEF Inv

\* Every step keeps it.
LEMMA ScriptStep == Inv /\ [Next]_vars => Inv'
<1> SUFFICES ASSUME Inv, [Next]_vars PROVE Inv'
  OBVIOUS
<1>1. Types /\ Forgets /\ MenuInv /\ AskInv /\ SaveInv /\ CaptureTypes
  BY DEF Inv, Types
<1>2. ASSUME Types' /\ Aside /\ AskInv' /\ SaveInv'
      PROVE  Inv'
  BY <1>1, <1>2, AsideKeeps DEF Inv
<1>3. ASSUME Types' /\ Quiet /\ Forgets' /\ MenuInv'
      PROVE  Inv'
  BY <1>1, <1>3, QuietKeeps DEF Inv
<1>4. CASE UNCHANGED vars
  <2>1. UNCHANGED <<form, active, state, ui, dom, blur, pending, bar, rushed, again, captures, task, news, vault,
                    late, chosen, lost, events>>
    BY <1>4 DEF vars, script, saving
  <2>2. Types'
    BY <1>1, <2>1 DEF Types, PageTypes, OnButton, HistoryTypes, WorkTypes, CaptureTypes
  <2>3. Forgets'
    BY <1>1, <2>1, StillForgets
  <2>4. MenuInv'
    BY <1>1, <2>1, MenuKept
  <2>5. Quiet
    BY <2>1 DEF Quiet
  <2> QED BY <1>3, <2>2, <2>3, <2>4, <2>5
<1>5. ASSUME NEW t \in Tasks,
             \/ \E field \in Fields \cup {"other"} : Focus(t, field)
             \/ Choose(t) \/ Runs(t) \/ Prompt(t) \/ BarSave(t) \/ BarNever(t) \/ Import(t)
      PROVE  Inv'
  <2>1. ASSUME NEW field \in Fields \cup {"other"}, Focus(t, field) PROVE Inv'
    BY <1>1, <1>3, <2>1, FocusStep
  <2>2. CASE Choose(t)
    BY <1>1, <1>3, <2>2, ChooseStep
  <2>3. CASE DomTimer(t) \/ HearUnlocked(t)
    BY <1>1, <1>3, <2>3, RefreshSteps
  <2>4. CASE Answer(t)
    BY <1>1, <1>2, <2>4, AnswerStep
  <2>5. CASE Fails(t)
    BY <1>1, <2>5, FailsStep DEF Inv
  <2>6. CASE Refreshed(t)
    BY <1>1, <1>3, <2>6, RefreshedStep
  <2>7. CASE Fill(t)
    BY <1>1, <1>3, <2>7, FillStep
  <2>8. CASE Prompted(t)
    BY <1>1, <1>2, <2>8, PromptedStep
  <2>9. CASE Saved(t)
    BY <1>1, <1>2, <2>9, BarGoesSteps
  <2>10. CASE Imports(t)
    BY <1>1, <1>2, <2>10, ImportsStep
  <2>11. CASE Prompt(t)
    BY <1>1, <1>2, <2>11, PromptStep
  <2>12. CASE BarSave(t)
    BY <1>1, <1>2, <2>12, BarSaveStep
  <2>13. CASE BarNever(t)
    BY <1>1, <1>2, <2>13, BarNeverStep
  <2>14. CASE Import(t)
    BY <1>1, <1>2, <2>14, ImportStep
  <2> QED BY <1>5, <2>1, <2>2, <2>3, <2>4, <2>5, <2>6, <2>7, <2>8, <2>9, <2>10, <2>11, <2>12, <2>13, <2>14 DEF Runs
<1>6. CASE MenuLoads
  BY <1>1, <1>3, <1>6, MenuLoadsStep
<1>7. CASE Leave
  BY <1>1, <1>3, <1>7, LeaveStep
<1>8. CASE ClickButton
  BY <1>1, <1>3, <1>8, ClickButtonStep
<1>9. CASE Escape
  BY <1>1, <1>3, <1>9, EscapeStep
<1>10. CASE FormChanges
  BY <1>1, <1>3, <1>10, FormChangesStep
<1>11. CASE BlurTimer
  BY <1>1, <1>3, <1>11, BlurTimerStep
<1>12. CASE Lock \/ Unlock \/ \E mode \in Modes : SetMode(mode)
  BY <1>1, <1>3, <1>12, VaultSteps
<1>13. CASE HearLocked
  BY <1>1, <1>3, <1>13, HearLockedStep
<1>14. CASE Submit
  BY <1>1, <1>2, <1>14, SubmitStep
<1>15. CASE BarDismiss
  BY <1>1, <1>2, <1>15, BarGoesSteps
<1> QED BY <1>4, <1>5, <1>6, <1>7, <1>8, <1>9, <1>10, <1>11, <1>12, <1>13, <1>14, <1>15 DEF Next

\* The script knows the focus, has heard of a lock or will, and asks about one
\* submission at a time.
THEOREM ScriptInvariant == Spec => []Inv
BY ScriptStart, ScriptStep, PTL DEF Spec

\* A locked vault's logins are neither known to the script nor in the menu, once the
\* lock was heard.
THEOREM PageForgetsAlways == Spec => []LockedPageForgets
<1>1. Inv => LockedPageForgets
  <2> SUFFICES ASSUME Forgets, news = <<>> PROVE LockedPageForgets
    BY DEF Inv, LockedPageForgets
  <2> QED BY DEF Forgets, LockedPageForgets
<1> QED BY <1>1, ScriptInvariant, PTL

\* When nothing is under way the menu is where the user is, and it is gone when the
\* user has chosen.
THEOREM MenuFollowsAlways == Spec => []MenuFollowsUser
<1>1. Inv => TypeOK
  <2> SUFFICES ASSUME Types PROVE TypeOK
    BY DEF Inv
  <2>1. {form, dom, blur, late, chosen, rushed, lost, again} \subseteq BOOLEAN
    BY DEF Types, PageTypes, HistoryTypes
  <2>2. ui \in Ui /\ OnButton(ui) /\ ui.menu \in Menu
    BY DEF Types, PageTypes, Ui
  <2>3. /\ ui.button \in Fields \cup {None} /\ ui.menu.shows \in {"nothing", "loading", "note", "logins"}
        /\ ui.menu.field \in {None, ui.button} /\ (ui.menu.field = None <=> ui.menu.shows = "nothing")
    BY <2>2 DEF Ui, Menu, OnButton
  <2> QED BY <2>1, <2>3 DEF Types, PageTypes, WorkTypes, CaptureTypes, State, Task, Kinds, TypeOK
<1>2. Inv => MenuFollowsFocus
  <2> SUFFICES ASSUME MenuTracks, Settled, ~lost PROVE ui.menu = NoMenu \/ active \in {ui.menu.field, "overlay"}
    BY DEF Inv, MenuInv, MenuFollowsFocus
  <2>1. ~blur /\ \A t \in Tasks : task[t].kind # "query"
    BY Blank DEF Settled
  <2> QED BY <2>1 DEF MenuTracks, Follows
<1>3. Inv => ChosenStaysShut
  BY DEF Inv, MenuInv, Stays, ChosenStaysShut
<1> QED BY <1>1, <1>2, <1>3, ScriptInvariant, PTL DEF MenuFollowsUser

\* A submission is waiting, judged or in the bar, not several of them at once.
THEOREM AskedOnceAlways == Spec => []AskedOnce
<1>1. Inv => AskedOnce
  BY DEF Inv, AskInv, Apart, AskedOnce
<1> QED BY <1>1, ScriptInvariant, PTL

\* A user's submissions, and what is imported, make one login.
THEOREM SavedOnceAlways == Spec => []SavedOnce
<1>1. Inv => SavedOnce
  BY DEF Inv, SaveInv, SavedOnce
<1> QED BY <1>1, ScriptInvariant, PTL

=============================================================================
