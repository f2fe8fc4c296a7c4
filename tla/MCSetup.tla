------------------------------ MODULE MCSetup ------------------------------
(* Two releases of one plugin; one server of each protocol, a name of the  *)
(* user's own, and a server that has the plugin's name.                    *)
EXTENDS Setup

KindOfA == "sub" :> "subsonic" @@ "jel" :> "jellyfin"
PluginsA == <<"p">>

M(version, main, net, requires) ==
  [name |-> "p", api |-> 3, exec |-> FALSE, artwork |-> "true", mainInside |-> TRUE,
   main |-> main, version |-> version, net |-> net, requires |-> requires]

Tool(version, hash) ==
  [name |-> "t", version |-> version,
   assets |-> [x \in {"linux"} |-> [https |-> TRUE, hash |-> hash]]]

\* v2 has another script file, reaches more and rebuilds a tool of the same
\* version.
MCManifestOf ==
  [v1 |-> M("1", "a.js", {Pattern(<<"api", "com">>)}, <<Tool("1", "h1")>>),
   v2 |-> M("2", "b.js", {Wildcard(<<"api", "com">>), Pattern(<<"com">>)}, <<Tool("1", "h2")>>),
   hand |-> M(None, "a.js", {Pattern(<<"com">>)}, <<>>)]

Dir(release) == [name |-> "p", release |-> release, hidden |-> FALSE]
MCRepositories == {{Dir("v1")}, {Dir("v2")}, {[Dir("v1") EXCEPT !.hidden = TRUE]}}

\* A manifest that is not the file's, a name listed twice, a newer schema.
MCWrongIndexes ==
  LET entry(release, shown) ==
        [release |-> release, shown |-> shown, hashed |-> TRUE,
         url |-> [scheme |-> "https", authority |-> "name", host |-> <<"com">>]]
      wrong(schema, plugins) ==
        [url |-> [scheme |-> "https", authority |-> "name", host |-> <<"com">>],
         schema |-> schema, plugins |-> plugins]
  IN  {wrong(1, <<entry("v2", "v1")>>), wrong(1, <<entry("v1", "v1"), entry("v2", "v2")>>),
       wrong(2, <<>>)}

MCHosts == {<<"com">>, <<"api", "com">>, <<"x", "api", "com">>, <<"y", "com">>}

\* An engine: a plugin that reaches one host and what lies below another, with
\* a secret and a tool.  Times in steps of five seconds.
MCManifests == {{"browse"}, {"search", "resolve_source", "artwork"}}

MCNet == {Pattern(<<"api">>), Wildcard(<<"cdn">>)}
Address(host) == [scheme |-> "https", authority |-> "name", host |-> host]
MCAddresses == {Address(<<"api">>), Address(<<"x", "cdn">>), Address(<<"cdn">>)}

Location(kind, host, holdsAddress) ==
  [kind |-> kind, url |-> Address(host), holdsAddress |-> holdsAddress]
MCLocations ==
  {Location("absolute", <<"cdn">>, FALSE), Location("absolute", <<"x", "cdn">>, FALSE),
   Location("network", <<"cdn">>, FALSE), Location("path", <<>>, FALSE),
   Location("path", <<>>, TRUE)}
=============================================================================
