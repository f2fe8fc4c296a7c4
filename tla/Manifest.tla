------------------------------ MODULE Manifest ------------------------------
(***************************************************************************)
(* What a plugin asks for: plugin/manifest.rs, and the small operators of  *)
(* plugin/consent.rs that compare it with what the user said yes to.       *)
(*                                                                         *)
(* A host name is the sequence of its labels, a pattern a host name with   *)
(* or without the leftmost wildcard.  Spelling that normalize_host takes   *)
(* away (blanks, case) is not kept; the trailing dot is, in "dotted".  A   *)
(* label no host name can have is the empty string.                        *)
(***************************************************************************)
EXTENDS Naturals, Sequences, FiniteSets, SequencesExt

CONSTANTS
  PluginApi,   \* PLUGIN_API, the api of this program
  BadNames,    \* names that are no single lower-case directory name
  Platforms    \* PLATFORMS, the keys of a requirement's assets

---------------------------------------------------------------------------
(* Host patterns.                                                          *)

Pattern(labels) == [wild |-> FALSE, labels |-> labels, dotted |-> FALSE]
Wildcard(labels) == [wild |-> TRUE, labels |-> labels, dotted |-> FALSE]

NormalizeHost(entry) == [entry EXCEPT !.dotted = FALSE]

\* A bare wildcard is what is left of "*.": its text is not empty.
Normalized(net) == {NormalizeHost(e) : e \in {n \in net : n.wild \/ n.labels # <<>>}}

IsProperSuffix(base, host) == Len(host) > Len(base) /\ IsSuffix(base, host)

HostMatches(pattern, host) ==
  IF pattern.wild THEN IsProperSuffix(pattern.labels, host) ELSE host = pattern.labels

\* A slip: a host named without a wildcard is taken to grant its subdomains.
PatternCoversSlip(granted, wanted) ==
  granted = wanted \/ HostMatches([granted EXCEPT !.wild = TRUE], wanted.labels)

\* Whether everything "wanted" reaches is reached by "granted".
PatternCovers(granted, wanted) ==
  granted = wanted \/ (granted.wild /\ HostMatches(granted, wanted.labels))

Beyond(wanted, granted) ==
  {w \in Normalized(wanted) : \A g \in Normalized(granted) : ~PatternCovers(g, w)}

IsCoveredBy(wanted, granted) == Beyond(wanted, granted) = {}

AllowsHost(net, host) ==
  host # <<>> /\ \E entry \in net : HostMatches(NormalizeHost(entry), host)

ValidHostPattern(entry) ==
  /\ entry.labels # <<>> /\ "" \notin ToSet(entry.labels)
  /\ entry.wild => Len(entry.labels) >= 2

---------------------------------------------------------------------------
(* Addresses.  The authority is its host name, or something that is none   *)
(* ("ipv6", "garbage"); a user name and a port are cut off.                *)

UrlHost(url) ==
  IF url.scheme \in {"https", "http"} /\ url.authority = "name" THEN url.host ELSE <<>>

ReachableUrl(net, url) == UrlHost(url) # <<>> /\ AllowsHost(net, UrlHost(url))

Loopback == {<<"localhost">>, <<"127", "0", "0", "1">>}

\* check_url of the catalog: plain http only to this machine.
FetchableUrl(url, loopbackAllowed) ==
  /\ UrlHost(url) # <<>>
  /\ url.scheme = "https" \/ (loopbackAllowed /\ UrlHost(url) \in Loopback)

---------------------------------------------------------------------------
(* The manifest.                                                           *)

ValidRequirement(r) ==
  /\ r.name # "" /\ r.version # ""
  /\ DOMAIN r.assets # {} /\ DOMAIN r.assets \subseteq Platforms
  /\ \A p \in DOMAIN r.assets : r.assets[p].https /\ r.assets[p].hash # "malformed"

\* The file of a tool: name, version and platform, and nothing of its hash.
FileName(requirement, platform) == <<requirement.name, requirement.version, platform>>

HasAsset(requirement, platform) == platform \in DOMAIN requirement.assets

ValidCatalogName(name) == name \notin BadNames

\* What is wrong with a manifest found where "name" is expected: the api is
\* looked at first, then the leftovers of api 1 and the artwork declaration,
\* and the rest last.
ManifestProblem(m, name) ==
  IF m.api # PluginApi THEN "incompatible"
  ELSE IF \/ m.exec \/ m.artwork \notin {"true", "false"}
          \/ m.name # name \/ ~m.mainInside
          \/ \E entry \in m.net : ~ValidHostPattern(entry)
          \/ \E i \in DOMAIN m.requires : ~ValidRequirement(m.requires[i])
          \/ \E i, j \in DOMAIN m.requires :
               i # j /\ m.requires[i].name = m.requires[j].name
  THEN "invalid" ELSE "none"

---------------------------------------------------------------------------
(* The consent ledger: what was said yes to, by plugin.                    *)

NoConsent == [known |-> FALSE, granted |-> {}, enabled |-> FALSE]

ConsentStatus(record, wanted) ==
  CASE ~record.known -> "NotAsked"
    [] record.known /\ ~record.enabled -> "Disabled"
    [] record.known /\ record.enabled /\ IsCoveredBy(wanted, record.granted) -> "Approved"
    [] OTHER -> "NeedsApproval"

\* Exactly what was asked, not the union with what was granted before.
Approve(wanted) == [known |-> TRUE, granted |-> Normalized(wanted), enabled |-> TRUE]

Disable(record) == IF record.known THEN [record EXCEPT !.enabled = FALSE] ELSE record

Enable(record) == IF record.known THEN [record EXCEPT !.enabled = TRUE] ELSE record
=============================================================================
