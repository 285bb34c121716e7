----------------------------- MODULE Algorithms -----------------------------
(***************************************************************************)
(* The pure algorithms of OriginMatch, Batches and FormDetector, one input *)
(* per behaviour: each state but the first is an input that was picked,    *)
(* and the properties are evaluated on it.                                 *)
(***************************************************************************)
EXTENDS OriginMatch, Batches, FormDetector

CONSTANTS
  Hosts,         \* the hosts whose domain is asked for
  Logins, Pages, \* the logins of the vault, the pages they are matched with
  Settings,      \* what the user set: for all sites, for the page's site, its equivalents
  Posts,         \* lists of records to post, by their sizes, and limits of servers
  Forms,         \* the pages that are searched for forms: sequences of inputs
  FilledLogins,  \* the logins that are filled
  Prefilled      \* what the fields hold before

Tokens == Usernames \cup {NoToken, "one-time-code", "current-password", "new-password"}

\* A server's limits admit a record, and a login that is filled has a password.
ASSUME InputsAssumption ==
  /\ Hosts \subseteq Seq(STRING) \ {<<>>}
  /\ Posts \subseteq [sizes: Seq(Nat), limits: [records: Nat \ {0}, bytes: Nat]]
  /\ Forms \subseteq Seq([form: STRING, type: STRING, autocomplete: Tokens, words: SUBSET STRING])
  /\ FilledLogins \subseteq [username: STRING, password: STRING \ {""}]

\* Logins and pages have hosts, and a site has one of the strategies.
ASSUME PagesAssumption ==
  /\ \A url \in Logins \cup Pages : url.host \in Seq(STRING) \ {<<>>}
  /\ \A settings \in Settings : Strategy(settings) \in Strategies

VARIABLE input

Start == [of |-> "nothing"]
PickInit == input = Start

PickHost == \E host \in Hosts : input' = [of |-> "host", host |-> host]
PickPage == \E page \in Pages, settings \in Settings : input' = [of |-> "page", page |-> page, settings |-> settings]
PickPost == \E post \in Posts : input' = [of |-> "post", sizes |-> post.sizes, limits |-> post.limits]
PickForms == \E page \in Forms : input' = [of |-> "forms", page |-> page]

PickNext == input = Start /\ (PickHost \/ PickPage \/ PickPost \/ PickForms)
PickSpec == PickInit /\ [][PickNext]_input

-----------------------------------------------------------------------------
\* The properties of OriginMatch, Batches and FormDetector, on the input picked.

\* Hosts have the domain the list gives them (psl.ts:98-124).
DomainsFollowTheList == input.of = "host" => FollowsTheList(input.host)

\* Stricter strategies offer less (uri.ts:49-96), a page's own logins come first
\* (uri.ts:111-122), what is offered belongs to the page's site, all of it
\* (AUTOFILL.md:123-139), and can be revealed (router.ts:230-246).
LoginsMatchTheirSites ==
  input.of = "page" =>
    /\ Nests(Logins, input.page, input.settings)
    /\ OwnFirst(Logins, input.page, input.settings)
    /\ OffersBelong(Logins, input.page, input.settings)
    /\ OfferedAreRevealed(Logins, input.page, input.settings)

\* Records are cut exactly (storage.ts:414-427) and stored all or none, wherever the
\* requests stop (storage.ts:429-459).
PostsAreExact ==
  input.of = "post" => CutExactly(input.sizes, input.limits) /\ AllOrNothing(input.sizes, input.limits)

\* The forms of a page are found and used for what they are: the user name beside the
\* password (detector.ts:6-10), logins that can be filled (content.ts:125), fills that
\* neither spill nor, unless an earlier form has a password, are captured as another
\* login (filler.ts:36, content.ts:351-359).
FormsAreUnderstood ==
  input.of = "forms" =>
    /\ FindsUsername(input.page)
    /\ LoginsCanBeFilled(input.page)
    /\ FillsAreQuiet(input.page, FilledLogins, Prefilled)

=============================================================================
