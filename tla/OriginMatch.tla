----------------------------- MODULE OriginMatch -----------------------------
(***************************************************************************)
(* Which logins belong to a page: registrable domains (match/psl.ts),      *)
(* matching and ranking (match/uri.ts, match/equivalent-domains.ts), and   *)
(* the three handlers of router.ts that ask: what the menu offers, what a  *)
(* fill reveals, what a submission is compared with.                       *)
(*                                                                         *)
(* What stands for what.  A host is the sequence of its labels.  A stored  *)
(* login has an origin, a page a path as well; a path is "/" or another.   *)
(* Two labels or ports are never one a part of the other.  No caller gives *)
(* the regex strategy its pattern, so it matches nothing.                  *)
(***************************************************************************)
EXTENDS Integers, Sequences, SequencesExt, FiniteSetsExt

CONSTANTS
  PublicSuffixes, Wildcards, Exceptions,   \* the bundled rules: sets of label sequences
  IpAddresses,                             \* the hosts that are addresses
  Groups                                   \* EQUIVALENT_DOMAIN_GROUPS

NoDomain == <<>>
Unset == "unset"

\* The last labels of host, from the i-th.
From(host, i) == SubSeq(host, i, Len(host))
EndsWith(host, rule) == \E i \in DOMAIN host : From(host, i) = rule

\* Rules are sequences of labels.  An exception (the only one is www.ck, psl.ts:77) has
\* labels above a suffix, and no suffix is below it.
ASSUME RulesAssumption ==
  /\ PublicSuffixes \cup Wildcards \cup Exceptions \subseteq Seq(STRING) \ {<<>>}
  /\ \A exception \in Exceptions :
       Len(exception) > 1 /\ \A rule \in PublicSuffixes \cup Wildcards : ~EndsWith(rule, exception)

-----------------------------------------------------------------------------
\* Registrable domains.

isPublicSuffix(host) ==
  /\ host \notin Exceptions
  /\ host \in PublicSuffixes \/ Len(host) = 1 \/ From(host, 2) \in Wildcards

\* The position at which the loop finds a rule.
RuleAt(host, i) ==
  \/ From(host, i) \in Exceptions \cup PublicSuffixes
  \/ i < Len(host) /\ From(host, i + 1) \in Wildcards

\* A faulty variant: the shortest rule wins.
registrableDomain_Shortest(host) ==
  LET hits == {i \in DOMAIN host : RuleAt(host, i)} IN
  IF host \in IpAddresses THEN host
  ELSE IF Len(host) < 2 THEN NoDomain
  ELSE IF hits = {} THEN From(host, Len(host) - 1)
  ELSE IF From(host, Max(hits)) \in Exceptions THEN From(host, Max(hits))
  ELSE IF Max(hits) = 1 THEN NoDomain ELSE From(host, Max(hits) - 1)

\* A faulty variant: the last two labels, whatever the list says.
registrableDomain_LastTwo(host) ==
  IF host \in IpAddresses THEN host ELSE IF Len(host) < 2 THEN NoDomain ELSE From(host, Len(host) - 1)

\* The longest rule wins; without one, the last label is the suffix.
registrableDomain(host) ==
  LET hits == {i \in DOMAIN host : RuleAt(host, i)} IN
  IF host \in IpAddresses THEN host
  ELSE IF Len(host) < 2 THEN NoDomain
  ELSE IF hits = {} THEN From(host, Len(host) - 1)
  ELSE IF From(host, Min(hits)) \in Exceptions THEN From(host, Min(hits))
  ELSE IF Min(hits) = 1 THEN NoDomain ELSE From(host, Min(hits) - 1)

-----------------------------------------------------------------------------
\* Matching.

equivalentDomains(domain, extra) ==
  LET known == {domain} \cup extra IN
  known \cup UNION {group \in Groups : group \cap known # {}}

schemeIsAcceptable(stored, page) == stored.scheme = "https" => page.scheme = "https"

Origin(url) == <<url.scheme, url.host, url.port>>

\* The text of the stored origin begins the text of the page's address.
TextBegins(stored, page) ==
  /\ stored.scheme = page.scheme
  /\ IF stored.port = Unset THEN IsPrefix(stored.host, page.host)
     ELSE stored.host = page.host /\ stored.port = page.port

\* A faulty variant: a host without a domain is one site with all of its kind.
SameSite_NoGuard(stored, page, extra) ==
  /\ schemeIsAcceptable(stored, page)
  /\ registrableDomain(page.host) \in equivalentDomains(registrableDomain(stored.host), extra)

SameSite(stored, page, extra) ==
  LET from == registrableDomain(stored.host)
      to == registrableDomain(page.host) IN
  /\ schemeIsAcceptable(stored, page)
  /\ IF NoDomain \in {from, to} THEN stored.host = page.host ELSE to \in equivalentDomains(from, extra)

\* A faulty variant: hosts are compared without the scheme.
originMatches_AnyScheme(stored, page, strategy, extra) ==
  CASE strategy = "exact" -> Origin(stored) = Origin(page) /\ page.path = "/"
    [] strategy = "host" -> stored.host = page.host
    [] strategy = "startsWith" -> TextBegins(stored, page) /\ schemeIsAcceptable(stored, page)
    [] strategy = "domain" -> SameSite(stored, page, extra)
    [] strategy \in {"never", "regex"} -> FALSE

originMatches(stored, page, strategy, extra) ==
  CASE strategy = "exact" -> Origin(stored) = Origin(page) /\ page.path = "/"
    [] strategy = "host" -> stored.host = page.host /\ schemeIsAcceptable(stored, page)
    [] strategy = "startsWith" -> TextBegins(stored, page) /\ schemeIsAcceptable(stored, page)
    [] strategy = "domain" -> SameSite(stored, page, extra)
    [] strategy \in {"never", "regex"} -> FALSE

\* A faulty variant: port and scheme count for nothing.
matchScore_Coarse(stored, page) ==
  LET domain == registrableDomain(stored.host) IN
  (IF domain # NoDomain /\ domain = registrableDomain(page.host) THEN 10 ELSE 0)
  + (IF stored.host = page.host THEN 20 ELSE 0)

matchScore(stored, page) ==
  LET domain == registrableDomain(stored.host) IN
  (IF domain # NoDomain /\ domain = registrableDomain(page.host) THEN 10 ELSE 0)
  + (IF stored.host = page.host THEN 20 ELSE 0)
  + (IF Origin(stored) = Origin(page) THEN 30 ELSE 0)
  + (IF stored.scheme = page.scheme THEN 5 ELSE 0)

-----------------------------------------------------------------------------
\* The handlers.  A site's own setting wins over the global one.

Strategies == {"domain", "host", "startsWith", "exact", "regex", "never"}
Strategy(settings) == IF settings.site = Unset THEN settings.global ELSE settings.site

\* findPasswordsForUrl: the logins that match, and which of two comes first.
findPasswordsForUrl(logins, page, strategy, extra) == {l \in logins : originMatches(l, page, strategy, extra)}
Before(a, b, page) == matchScore(a, page) > matchScore(b, page)

\* autofill/query, the only one that knows the equivalents the user gave the site.
Offered(logins, page, settings) ==
  findPasswordsForUrl(logins, page, Strategy(settings), settings.extra)

\* A faulty variant: the global strategy is used although the site has its own.
Revealed_Global(login, page, settings) == originMatches(login, page, settings.global, {})

\* autofill/reveal matches again, for the tab may have gone elsewhere.
Revealed(login, page, settings) == originMatches(login, page, Strategy(settings), {})

-----------------------------------------------------------------------------
\* Properties, of one host, or of one page with its settings and all logins.

\* The Public Suffix List's own definition (publicsuffix.org/list): of the rules that
\* match a host an exception prevails, else the one with most labels, else "*"; the
\* registrable domain is one label more than the suffix.
SuffixLength(host) ==
  LET ends(rules) == {Len(r) : r \in {rule \in rules : EndsWith(host, rule)}} IN
  IF ends(Exceptions) # {} THEN Max(ends(Exceptions)) - 1
  ELSE Max({1} \cup ends(PublicSuffixes) \cup {n + 1 : n \in {m \in ends(Wildcards) : m < Len(host)}})

SiteOf(host) ==
  IF host \in IpAddresses THEN host
  ELSE IF Len(host) > SuffixLength(host) THEN From(host, Len(host) - SuffixLength(host)) ELSE NoDomain

\* registrableDomain finds the domain the list defines, and a host is a suffix
\* precisely if it has none (psl.ts:106, "Longest matching rule wins").
FollowsTheList(host) ==
  /\ registrableDomain(host) = SiteOf(host)
  /\ host \notin IpAddresses => (isPublicSuffix(host) <=> SiteOf(host) = NoDomain)

\* A stricter strategy offers no login that a laxer one refuses: exact, host, domain;
\* exact, startsWith (uri.ts:61-96).
Nests(logins, page, settings) ==
  LET matches(l, strategy) == originMatches(l, page, strategy, settings.extra) IN
  \A l \in logins :
    /\ matches(l, "exact") => matches(l, "host") /\ matches(l, "startsWith")
    /\ matches(l, "host") => matches(l, "domain")

\* A login saved on the page's own origin is offered before any other, whatever else
\* shares its domain (uri.ts:108, "the most specific one is pre-selected").
OwnFirst(logins, page, settings) ==
  \A own, other \in Offered(logins, page, settings) :
    Origin(own) = Origin(page) /\ Origin(other) # Origin(page) => Before(own, other, page)

\* The login was saved on this host, or on the same site by the list's definition, or on
\* one that the bundled groups make the same.
AtHome(login, page) ==
  LET from == SiteOf(login.host)
      to == SiteOf(page.host) IN
  \/ login.host = page.host
  \/ NoDomain \notin {from, to} /\ (from = to \/ \E group \in Groups : {from, to} \subseteq group)

\* The user gave the page's site as its own equivalent, or one of its group: that opens
\* it to the logins of every site that has a domain.
OpenedUp(login, page, extra) ==
  LET site == SiteOf(page.host) IN
  /\ NoDomain \notin {site, SiteOf(login.host)}
  /\ site \in extra \/ \E group \in Groups : site \in group /\ group \cap extra # {}

\* Only logins that are at home on the page are offered, under the default strategy all
\* of them, and never one saved under https to a page under http (AUTOFILL.md:123-139);
\* but startsWith goes by the text alone (uri.ts:70), and the default by the equivalents
\* of the user as well (equivalent-domains.ts:34-40).  What a page is given goes by no
\* equivalents (router.ts:241-242).
OffersBelong(logins, page, settings) ==
  LET strategy == Strategy(settings)
      offered == Offered(logins, page, settings) IN
  \A l \in logins :
    /\ l \in offered /\ l.scheme = "https" => page.scheme = "https"
    /\ l \in offered /\ strategy # "startsWith" =>
         AtHome(l, page) \/ (strategy = "domain" /\ OpenedUp(l, page, settings.extra))
    /\ strategy = "domain" /\ AtHome(l, page) /\ (l.scheme = "http" \/ page.scheme = "https") => l \in offered
    /\ Revealed(l, page, settings) => l \in offered /\ (strategy = "startsWith" \/ AtHome(l, page))

\* What the menu offers on a page is revealed to that page; except, under the default
\* strategy, logins of elsewhere that only the equivalents of the user brought in, which
\* autofill/reveal does not consult (router.ts:222-242).
OfferedAreRevealed(logins, page, settings) ==
  \A l \in Offered(logins, page, settings) :
    Revealed(l, page, settings) \/ (Strategy(settings) = "domain" /\ ~AtHome(l, page))

==============================================================================
