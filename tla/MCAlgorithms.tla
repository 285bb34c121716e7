---------------------------- MODULE MCAlgorithms ----------------------------
(***************************************************************************)
(* Algorithms for TLC: every input up to a bound.                          *)
(***************************************************************************)
EXTENDS Algorithms, TLC

CONSTANTS
  MaxLabels,     \* bound: labels of a host
  MaxRecords,    \* bound: records posted
  MaxFields,     \* bound: inputs of a page
  MaxLimit       \* bound: the server's limits; a record is smaller by one at most

\* One rule of each kind, one longer than another, one under a wildcard.
MCPublicSuffixes == {<<"co", "uk">>, <<"amazonaws", "com">>, <<"s3", "amazonaws", "com">>}
MCWildcards == {<<"uk">>, <<"compute", "amazonaws", "com">>}
MCExceptions == {<<"www", "uk">>}
MCIpAddresses == {<<"127", "0", "0", "1">>}
MCGroups == {{<<"a", "com">>, <<"a", "co", "uk">>}}

Labels == {"a", "www", "co", "uk", "com", "amazonaws", "s3", "compute"}
MCHosts == (SeqOf(Labels, MaxLabels) \ {<<>>}) \cup MCIpAddresses

\* A site and its subdomain, a neighbour under the same suffix, an equivalent and its
\* neighbour, one whose name goes on where the site's ends, two without domain, an
\* address.
Sites == {<<"a", "com">>, <<"www", "a", "com">>, <<"b", "com">>, <<"a", "co", "uk">>, <<"b", "co", "uk">>,
          <<"a", "com", "net">>, <<"localhost">>, <<"intranet">>, <<"127", "0", "0", "1">>}
MCLogins == [scheme: {"http", "https"}, host: Sites, port: {Unset, "8443"}]
MCPages == [scheme: {"http", "https"}, host: Sites, port: {Unset, "8443"}, path: {"/", "/login"}]
MCSettings == [global: {"domain", "exact"}, site: Strategies \cup {Unset}, extra: {{}, {<<"b", "com">>}, {<<"a", "com">>}}]

\* Inputs as pages have them, with and without tokens, in a form of their own or beside
\* a second one.
Input(form, type, autocomplete, words) ==
  [form |-> form, type |-> type, autocomplete |-> autocomplete, words |-> words]
Inputs ==
  {Input("a", "text", NoToken, words) : words \in {{"username"}, {"negative"}, {"negative", "username"}, {"otp"}}}
  \cup {Input("a", "password", NoToken, words) : words \in {{}, {"new"}, {"confirm"}, {"new", "confirm"}}}
  \cup {Input("a", "text", token, {}) : token \in {"username", "email", "one-time-code"}}
  \cup {Input("a", "password", token, {}) : token \in {"current-password", "new-password", "one-time-code"}}
  \cup {Input("a", "email", NoToken, {}), Input("a", "other", NoToken, {"username"})}
  \cup {Input("b", "text", NoToken, {"username"}), Input("b", "password", NoToken, {}),
        Input("b", "password", "new-password", {})}
MCFilledLogins == [username: {"", "user"}, password: {"password"}]
MCTexts == {"", "typed"}
MCForms == SeqOf(Inputs, MaxFields)

Limits == [records: 1..MaxLimit, bytes: 1..MaxLimit]
MCPosts == [sizes: SeqOf(1..(MaxLimit + 1), MaxRecords), limits: Limits]

=============================================================================
