----------------------------- MODULE FormDetector -----------------------------
(***************************************************************************)
(* The forms of a page (autofill/detector.ts) and what is written into and *)
(* read from them (autofill/filler.ts, autofill/content.ts).               *)
(*                                                                         *)
(* What stands for what.  A page is the sequence of its fillable inputs in *)
(* document order.  An input has a form, a type ("other" is a box or a     *)
(* button), at most one token of autocomplete, and the classes of words    *)
(* the regular expressions find in its name, label and placeholder.  A     *)
(* detected form holds places on the page, or Nothing.                     *)
(***************************************************************************)
EXTENDS Integers, Sequences, SequencesExt, FiniteSetsExt

Nothing == 0
NoToken == "none"
Usernames == {"username", "email"}

FirstOf(places) == IF places = {} THEN Nothing ELSE Min(places)

-----------------------------------------------------------------------------
\* One field.  Tokens win outright, then the type, then the words.

PasswordKind(words) ==
  IF "confirm" \in words THEN "confirm-password"
  ELSE IF "new" \in words THEN "new-password" ELSE "current-password"

TextKind(type, words) ==
  IF "otp" \in words THEN "totp"
  ELSE IF "negative" \in words /\ "username" \notin words THEN "unknown"
  ELSE IF type = "email" THEN "email"
  ELSE IF "username" \in words THEN "username" ELSE "unknown"

Kind(field) ==
  IF field.autocomplete # NoToken
    THEN IF field.autocomplete = "one-time-code" THEN "totp" ELSE field.autocomplete
  ELSE IF field.type = "password" THEN PasswordKind(field.words)
  ELSE IF field.type = "other" THEN "unknown" ELSE TextKind(field.type, field.words)

\* The score of a user name or an address; no other is compared.
Score(field) ==
  CASE field.autocomplete = "username" -> 100
    [] field.autocomplete = "email" -> 90
    [] field.autocomplete = NoToken -> IF field.type = "email" THEN 65 ELSE 60

\* The first of the places with the best score.
Best(places, score) == FirstOf({i \in places : \A j \in places : score[j] <= score[i]})

-----------------------------------------------------------------------------
\* One form: its fields are the places of the page that belong to it.

OfKind(page, fields, kinds) == {i \in fields : Kind(page[i]) \in kinds}
Passwords(page, fields) == {i \in fields : page[i].type = "password"}

\* A faulty variant: a single password field is a login unless it is called new.
classifyFormKind_NotNew(page, fields) ==
  LET among(kind) == OfKind(page, Passwords(page, fields), {kind})
      some(kind) == among(kind) # {} IN
  CASE Cardinality(Passwords(page, fields)) = 0 -> "totp"
    [] Cardinality(Passwords(page, fields)) = 1 -> IF some("new-password") THEN "signup" ELSE "login"
    [] OTHER -> IF ~some("new-password") /\ ~some("confirm-password") THEN "login"
                ELSE IF some("current-password") THEN "change-password" ELSE "signup"

\* The purpose of a form with a password or a one-time code.
classifyFormKind(page, fields) ==
  LET among(kind) == OfKind(page, Passwords(page, fields), {kind})
      some(kind) == among(kind) # {} IN
  CASE Cardinality(Passwords(page, fields)) = 0 -> "totp"
    [] Cardinality(Passwords(page, fields)) = 1 -> IF some("current-password") THEN "login" ELSE "signup"
    [] OTHER -> IF ~some("new-password") /\ ~some("confirm-password") THEN "login"
                ELSE IF some("current-password") THEN "change-password" ELSE "signup"

\* A faulty variant: where a field stands counts for nothing.
findUsernameFor_Anywhere(page, fields, password) ==
  LET pool == OfKind(page, fields, Usernames) \ {password} IN Best(pool, [i \in pool |-> Score(page[i])])

\* A field above the password is preferred.
findUsernameFor(page, fields, password) ==
  LET pool == OfKind(page, fields, Usernames) \ {password} IN
  Best(pool, [i \in pool |-> Score(page[i]) + (IF i < password THEN 10 ELSE 0 - 20)])

Anchor(page, fields) ==
  FirstOf(LET named(kind) == OfKind(page, fields, {kind}) IN
        IF named("current-password") # {} THEN named("current-password")
        ELSE IF named("new-password") # {} THEN named("new-password") ELSE Passwords(page, fields))

Detected(page, fields) ==
  [kind |-> classifyFormKind(page, fields),
   username |-> IF Anchor(page, fields) = Nothing THEN Nothing
                ELSE findUsernameFor(page, fields, Anchor(page, fields)),
   currentPassword |-> FirstOf(OfKind(page, fields, {"current-password"})),
   newPassword |-> FirstOf(OfKind(page, fields, {"new-password"})),
   fields |-> fields]

\* The places of the form that the input at i is in.
Group(page, i) == {j \in DOMAIN page : page[j].form = page[i].form}

\* The forms by the places of their first inputs, without those that ask for no
\* password and no one-time code.
detectForms(page) ==
  LET credential(g) == Passwords(page, g) \cup OfKind(page, g, {"totp"}) # {} IN
  [i \in {k \in DOMAIN page : credential(Group(page, k)) /\ \A j \in Group(page, k) : k <= j} |->
     Detected(page, Group(page, i))]

findStandaloneUsernameField(page) ==
  LET pool == OfKind(page, DOMAIN page, Usernames) IN Best(pool, [i \in pool |-> Score(page[i])])

-----------------------------------------------------------------------------
\* Writing and reading.  The values of a page are a function from its places.

fillLogin(form, values, login) ==
  [i \in DOMAIN values |->
     IF i = form.currentPassword /\ login.password # "" THEN login.password
     ELSE IF i = form.username /\ login.username # "" THEN login.username ELSE values[i]]

NoCredential == [username |-> "", password |-> ""]

\* A faulty variant: a new password goes before a current one.
readCredential_NewFirst(form, values) ==
  LET at == IF form.newPassword # Nothing THEN form.newPassword ELSE form.currentPassword IN
  IF at = Nothing \/ values[at] = "" THEN NoCredential
  ELSE [username |-> IF form.username = Nothing THEN "" ELSE values[form.username],
        password |-> values[at]]

readCredential(form, values) ==
  LET at == IF form.currentPassword # Nothing THEN form.currentPassword ELSE form.newPassword IN
  IF at = Nothing \/ values[at] = "" THEN NoCredential
  ELSE [username |-> IF form.username = Nothing THEN "" ELSE values[form.username],
        password |-> values[at]]

\* The first form that has a password to read.
rememberSubmission(forms, values) ==
  LET read == {k \in DOMAIN forms : readCredential(forms[k], values) # NoCredential} IN
  IF read = {} THEN NoCredential ELSE readCredential(forms[Min(read)], values)

-----------------------------------------------------------------------------
\* Properties, of one page.

\* A field that calls itself the user name is taken when there is one, before a
\* password or on a page without; one below the password is taken only then or when
\* nothing is above it; and a form with a password goes without a user name only if no
\* field of it can be one (detector.ts:6-10, 250-254).
FindsUsername(page) ==
  LET names(fields) == {i \in fields : page[i].autocomplete = "username"}
      forms == detectForms(page) IN
  /\ names(DOMAIN page) # {} => findStandaloneUsernameField(page) \in names(DOMAIN page)
  /\ \A k \in DOMAIN forms :
       LET form == forms[k]
           anchor == Anchor(page, form.fields)
           above == {i \in form.fields : i < anchor} IN
       anchor # Nothing =>
         /\ names(above) # {} => form.username \in names(above)
         /\ form.username > anchor =>
              form.username \in names(form.fields) \/ OfKind(page, above, Usernames) = {}
         /\ form.username = Nothing => OfKind(page, form.fields, Usernames) \subseteq {anchor}

\* A form that is called a login has a field for the password, which the menu fills,
\* unless the page's own tokens say that its password fields are none (content.ts:125).
LoginsCanBeFilled(page) ==
  \A k \in DOMAIN detectForms(page) :
    LET form == detectForms(page)[k] IN
    form.kind = "login" =>
      \/ form.currentPassword # Nothing
      \/ \A i \in Passwords(page, form.fields) : page[i].autocomplete \in Usernames \cup {"one-time-code"}

\* Whatever the fields held before, filling a login into one of the forms changes no
\* other form and no new password (filler.ts:36); and if no form before it has a password
\* to read, submitting captures what was filled, so that the user is not asked to save it:
\* the login's password, and its user name, or what the user typed where it has none, if
\* the form shows a user name at all (content.ts:351-359, router.ts:263-269).
FillsAreQuiet(page, logins, texts) ==
  LET forms == detectForms(page) IN
  \A k \in DOMAIN forms, login \in logins, before \in [DOMAIN page -> texts] :
    LET form == forms[k]
        after == fillLogin(form, before, login)
        first == \A j \in DOMAIN forms : j < k => readCredential(forms[j], before) = NoCredential IN
    /\ \A i \in DOMAIN page : after[i] # before[i] =>
         i \in form.fields /\ Kind(page[i]) \notin {"new-password", "confirm-password", "totp", "unknown"}
    /\ form.currentPassword # Nothing /\ first =>
         LET captured == rememberSubmission(forms, after) IN
         /\ captured.password = login.password
         /\ form.username = Nothing => captured.username = ""
         /\ form.username # Nothing =>
              captured.username = IF login.username # "" THEN login.username ELSE before[form.username]

===============================================================================
