---------------------------- MODULE SetupProofs ----------------------------
(***************************************************************************)
(* What the registry of providers is built of keeps its promises: the      *)
(* engine a plugin runs in, the directory and the consent of a plugin, and *)
(* the servers, for every manifest, address, secret, tool, catalog, time   *)
(* limit, and any number of servers and programs.                          *)
(***************************************************************************)
EXTENDS Setup, FiniteSetTheorems, SequenceTheorems, WellFoundedInduction, TLAPS

---------------------------------------------------------------------------
(* The engine a plugin runs in.                                            *)

\* A call that is running is none of the loading, and has not overrun yet.
HostClock ==
  /\ engine \in {"off", "loading", "idle", "running", "gone"}
  /\ spent \in Nat /\ held \in BOOLEAN
  /\ engine = "running" => work \in Host!Functions

\* The engine knows of every secret file that is whole, until it is gone.
HostKnows ==
  \A file_ \in leftovers : file_.whole => engine # "gone" /\ file_ \in secretFiles

HostInv == HostClock /\ HostKnows /\ Host!StaysInGrant /\ Host!OverrunIsOneRequest

LEMMA HostInit == InitSetup => HostInv
<1> SUFFICES ASSUME Host!Init PROVE HostInv
  BY DEF InitSetup
<1>1. HostClock
  BY DEF Host!Init, HostClock
<1>2. HostKnows
  BY DEF Host!Init, HostKnows
<1> QED BY <1>1, <1>2 DEF Host!Init, HostInv, Host!StaysInGrant, Host!OverrunIsOneRequest

\* A reachable address is one the manifest declares.
LEMMA ReachableIsAllowed ==
  ASSUME NEW url, Host!Man!ReachableUrl(Net, url)
  PROVE  Host!Man!AllowsHost(Net, url.host)
BY DEF Host!Man!ReachableUrl, Host!Man!UrlHost

\* What is left of a load or a call is a time, and a step that takes no longer
\* ends in time.
LEMMA LeftIsTime ==
  ASSUME SetupAssumption, spent \in Nat
  PROVE  /\ Host!Left \in Nat /\ Host!Limit \in Nat
         /\ Host!Left > 0 => spent < Host!Limit
         /\ spent < Host!Limit => spent + Host!Left = Host!Limit
BY DEF Host!Left, Host!Limit, SetupAssumption, Host!PluginHostAssumption

LEMMA Passed ==
  ASSUME SetupAssumption, spent \in Nat, NEW time \in Nat, Host!Passes(time)
  PROVE  spent' \in Nat /\ spent' <= spent + time
BY LeftIsTime DEF Host!Passes, SetupAssumption, Host!PluginHostAssumption

LEMMA ClockStep == SetupAssumption /\ HostInv /\ Host!Next => HostClock' /\ Host!OverrunIsOneRequest'
<1> SUFFICES ASSUME SetupAssumption, HostInv, Host!Next
             PROVE  HostClock' /\ Host!OverrunIsOneRequest'
  OBVIOUS
<1> USE DEF HostInv, HostClock, Host!OverrunIsOneRequest
<1>0. CallTimeout \in Nat /\ PluginTimeout \in Nat /\ PluginTimeout > 0
  BY DEF SetupAssumption, Host!PluginHostAssumption
<1>1. CASE Host!BeginLoad
  BY <1>1 DEF Host!BeginLoad
<1>2. CASE Host!LoadEnds
  BY <1>2 DEF Host!LoadEnds, Host!Ends
<1>3. CASE Host!BeginCall
  <2>1. CASE UNCHANGED <<engine, work, spent, held>>
    BY <2>1
  <2>2. CASE work' \in Host!Functions /\ spent' = 0 /\ held' = FALSE /\ engine' = "running"
    <3>1. spent' \in Nat /\ spent' < CallTimeout + PluginTimeout
      BY <2>2, <1>0
    <3>2. held' \in BOOLEAN /\ engine' \in {"off", "loading", "idle", "running", "gone"}
      BY <2>2
    <3> QED BY <2>2, <3>1, <3>2
  <2> QED BY <1>3, <2>1, <2>2 DEF Host!BeginCall
<1>4. CASE Host!HealthEnds \/ Host!SearchEnds \/ Host!ResolveEnds \/ Host!ArtworkEnds
  BY <1>4 DEF Host!HealthEnds, Host!SearchEnds, Host!ResolveEnds, Host!ArtworkEnds, Host!CallEnds, Host!rest
<1>5. CASE Host!Throws \/ Host!Interrupted \/ Host!Leaves
  BY <1>5 DEF Host!Throws, Host!Interrupted, Host!Leaves, Host!Ends, Host!rest
<1>6. CASE Host!Computes
  BY <1>6, <1>0, LeftIsTime, Passed DEF Host!Computes, Host!Limit, Host!Loading, Host!Functions
<1>7. CASE Host!BeginRequest \/ Host!RefuseRequest \/ Host!SecretFile \/ Host!RunTool \/ Host!ToolChanges
  BY <1>7 DEF Host!BeginRequest, Host!RefuseRequest, Host!SecretFile, Host!RunTool, Host!ToolChanges
<1>8. CASE Host!Hop
  <2>1. PICK time \in 0..PluginTimeout : Host!Passes(time)
    BY <1>8 DEF Host!Hop
  <2>2. spent < Host!Limit /\ spent' \in Nat /\ spent' <= spent + time
    BY <1>8, <1>0, <2>1, LeftIsTime, Passed DEF Host!Hop, Host!Refuses
  <2> QED BY <1>8, <1>0, <2>2, LeftIsTime DEF Host!Hop, Host!Limit, Host!Loading, Host!Functions
<1>9. CASE Host!ToolEnds \/ Host!KillTool
  <2>1. PICK time \in 0..Host!Left : Host!Passes(time)
    BY <1>9, LeftIsTime DEF Host!ToolEnds, Host!KillTool
  <2>2. spent' \in Nat /\ spent' <= spent + time
    BY <2>1, LeftIsTime, Passed
  <2>3. engine' = engine /\ work' = work /\ held' = held
    BY <1>9 DEF Host!ToolEnds, Host!KillTool
  <2>4. CASE spent < Host!Limit
    BY <2>2, <2>3, <2>4, <1>0, LeftIsTime DEF Host!Limit, Host!Loading, Host!Functions
  <2>5. CASE ~(spent < Host!Limit)
    BY <2>2, <2>3, <2>5, <1>0, LeftIsTime DEF Host!Left
  <2> QED BY <2>4, <2>5
<1>10. CASE Host!Collect
  <2>1. Host!Limit + PluginTimeout \in Nat
    BY <1>0, LeftIsTime
  <2> QED BY <1>10, <2>1, Passed DEF Host!Collect
<1> QED BY <1>1, <1>2, <1>3, <1>4, <1>5, <1>6, <1>7, <1>8, <1>9, <1>10 DEF Host!Next, Host!HostObject

LEMMA FilesStep == HostInv /\ Host!Next => HostKnows'
<1> SUFFICES ASSUME HostInv, Host!Next PROVE HostKnows'
  OBVIOUS
<1> USE DEF HostInv, HostKnows
<1>1. CASE UNCHANGED <<secretFiles, leftovers>> /\ (engine # "gone" => engine' # "gone")
  BY <1>1
<1>2. CASE Host!Ends
  BY <1>2 DEF Host!Ends, Host!Drop
<1>3. CASE Host!SecretFile
  BY <1>3 DEF Host!SecretFile, Host!InScript, Host!KnownFile, Host!WritePrivate
<1>4. Host!SecretFile \/ Host!Ends
      \/ (UNCHANGED <<secretFiles, leftovers>> /\ (engine # "gone" => engine' # "gone"))
  BY DEF Host!Next, Host!HostObject, Host!BeginLoad, Host!LoadEnds, Host!BeginCall, Host!HealthEnds,
     Host!SearchEnds, Host!ResolveEnds, Host!ArtworkEnds, Host!CallEnds, Host!rest, Host!Throws,
     Host!Interrupted, Host!Leaves, Host!Computes, Host!BeginRequest, Host!RefuseRequest, Host!Hop,
     Host!RunTool, Host!ToolEnds, Host!KillTool, Host!Collect, Host!ToolChanges
<1> QED BY <1>1, <1>2, <1>3, <1>4

LEMMA GrantStep == HostInv /\ Host!Next => Host!StaysInGrant'
<1> SUFFICES ASSUME HostInv, Host!Next PROVE Host!StaysInGrant'
  OBVIOUS
<1> USE DEF HostInv, Host!StaysInGrant
<1>1. CASE Host!ResolveEnds
  BY <1>1, ReachableIsAllowed DEF Host!ResolveEnds, Host!CheckSource
<1>2. CASE Host!Hop
  BY <1>2, ReachableIsAllowed DEF Host!Hop, Host!Refuses
<1>3. CASE UNCHANGED reached
  BY <1>3
<1>4. Host!ResolveEnds \/ Host!Hop \/ UNCHANGED reached
  BY DEF Host!Next, Host!HostObject, Host!BeginLoad, Host!LoadEnds, Host!BeginCall, Host!HealthEnds,
     Host!SearchEnds, Host!ArtworkEnds, Host!rest, Host!Throws, Host!Interrupted, Host!Leaves,
     Host!Computes, Host!BeginRequest, Host!RefuseRequest, Host!SecretFile, Host!RunTool,
     Host!ToolEnds, Host!KillTool, Host!Collect, Host!ToolChanges
<1> QED BY <1>1, <1>2, <1>3, <1>4

LEMMA HostStays == HostInv /\ UNCHANGED hostVars => HostInv'
BY DEF HostInv, HostClock, HostKnows, hostVars, Host!StaysInGrant, Host!OverrunIsOneRequest

\* The engine's invariant, of every step of the registry's parts.
LEMMA HostHolds == SpecSetup => []HostInv
<1>1. HostInv /\ [NextSetup]_setupVars => HostInv'
  <2> SUFFICES ASSUME HostInv, [NextSetup]_setupVars PROVE HostInv'
    OBVIOUS
  <2>1. CASE Host!Next
    BY <2>1, SetupAssumption, ClockStep, FilesStep, GrantStep DEF HostInv
  <2>2. CASE UNCHANGED hostVars
    BY <2>2, HostStays
  <2> QED BY <2>1, <2>2 DEF NextSetup, setupVars
<1> QED BY <1>1, HostInit, PTL DEF SpecSetup

\* Whatever a script asks, wherever it is redirected and whatever it names for
\* playing, no address is reached but one the manifest declares (host.rs).
THEOREM GrantHolds == SpecSetup => []StaysInGrant
<1>1. HostInv => StaysInGrant
  BY DEF HostInv, StaysInGrant
<1> QED BY <1>1, HostHolds, PTL

\* A call overruns its time by less than one request, unless a tool's own child
\* held its output open.
THEOREM OverrunHolds == SpecSetup => []OverrunIsOneRequest
<1>1. HostInv => OverrunIsOneRequest
  BY DEF HostInv, OverrunIsOneRequest
<1> QED BY <1>1, HostHolds, PTL

\* An engine that is gone left no whole secret file behind.
THEOREM SecretsEnd == SpecSetup => []SecretFilesEnd
<1>1. HostInv => SecretFilesEnd
  BY DEF HostInv, HostKnows, SecretFilesEnd, Host!SecretFilesEnd
<1> QED BY <1>1, HostHolds, PTL

---------------------------------------------------------------------------
(* The hosts a manifest names.                                             *)

\* The tail of a host name, label by label.
LEMMA SuffixMeans ==
  ASSUME NEW s \in Seq(STRING), NEW t \in Seq(STRING)
  PROVE  IsSuffix(s, t) <=> /\ Len(s) <= Len(t)
                            /\ \A i \in 1..Len(s) : s[Len(s) - i + 1] = t[Len(t) - i + 1]
<1>1. Reverse(s) \in Seq(STRING) /\ Len(Reverse(s)) = Len(s)
      /\ \A i \in 1..Len(s) : Reverse(s)[i] = s[Len(s) - i + 1]
  BY DEF Reverse
<1>2. Reverse(t) \in Seq(STRING) /\ Len(Reverse(t)) = Len(t)
      /\ \A i \in 1..Len(t) : Reverse(t)[i] = t[Len(t) - i + 1]
  BY DEF Reverse
<1> DEFINE rs == Reverse(s) rt == Reverse(t)
<1> HIDE DEF rs, rt
<1>3. IsPrefix(rs, rt) <=> Len(rs) <= Len(rt) /\ \A i \in 1..Len(rs) : rs[i] = rt[i]
  BY <1>1, <1>2 DEF IsPrefix, rs, rt
<1>4. Len(rs) = Len(s) /\ \A i \in 1..Len(s) : rs[i] = s[Len(s) - i + 1]
  BY <1>1 DEF rs
<1>5. Len(rt) = Len(t) /\ \A i \in 1..Len(t) : rt[i] = t[Len(t) - i + 1]
  BY <1>2 DEF rt
<1>6. IsSuffix(s, t) <=> IsPrefix(rs, rt)
  BY DEF IsSuffix, rs, rt
<1>7. Len(s) \in Nat /\ Len(t) \in Nat
  OBVIOUS
<1> HIDE DEF rs, rt
<1>8. CASE Len(s) <= Len(t)
  <2>1. \A i \in 1..Len(s) : i \in 1..Len(t)
    BY <1>7, <1>8
  <2>2. \A i \in 1..Len(s) : rs[i] = s[Len(s) - i + 1] /\ rt[i] = t[Len(t) - i + 1]
    BY <1>4, <1>5, <2>1
  <2> QED BY <1>3, <1>4, <1>5, <1>6, <1>8, <2>2
<1> QED BY <1>3, <1>4, <1>5, <1>6, <1>7, <1>8

\* What lies below a host below another lies below that one too.
LEMMA SuffixTrans ==
  ASSUME NEW a \in Seq(STRING), NEW b \in Seq(STRING), NEW c \in Seq(STRING),
         IsProperSuffix(a, b), IsProperSuffix(b, c)
  PROVE  IsProperSuffix(a, c)
<1>1. /\ Len(a) \in Nat /\ Len(b) \in Nat /\ Len(c) \in Nat /\ Len(b) > Len(a) /\ Len(c) > Len(b)
      /\ \A i \in 1..Len(a) : a[Len(a) - i + 1] = b[Len(b) - i + 1]
      /\ \A i \in 1..Len(b) : b[Len(b) - i + 1] = c[Len(c) - i + 1]
  BY SuffixMeans DEF IsProperSuffix
<1>2. \A i \in 1..Len(a) : i \in 1..Len(b)
  BY <1>1
<1>3. \A i \in 1..Len(a) : a[Len(a) - i + 1] = c[Len(c) - i + 1]
  BY <1>1, <1>2
<1>4. IsSuffix(a, c)
  BY <1>1, <1>3, SuffixMeans
<1> QED BY <1>1, <1>4 DEF IsProperSuffix

LEMMA NormalizedIs ==
  ASSUME NEW net \in SUBSET Patterns
  PROVE  Normalized(net) \subseteq Patterns
BY DEF Normalized, NormalizeHost, Patterns

\* Writing a list of hosts in its normal form changes no host it allows.
LEMMA NormalizedAllows ==
  ASSUME NEW net \in SUBSET Patterns, NEW host \in Seq(STRING)
  PROVE  /\ Normalized(net) \subseteq Patterns
         /\ AllowsHost(Normalized(net), host) <=> AllowsHost(net, host)
<1>1. \A e \in Patterns : NormalizeHost(e) \in Patterns /\ NormalizeHost(NormalizeHost(e)) = NormalizeHost(e)
  BY DEF Patterns, NormalizeHost
<1>2. \A e \in net : HostMatches(NormalizeHost(e), host) /\ host # <<>> => e.wild \/ e.labels # <<>>
  BY DEF Patterns, NormalizeHost, HostMatches
<1>3. Normalized(net) \subseteq Patterns
  BY <1>1 DEF Normalized
<1>4. ASSUME AllowsHost(net, host) PROVE AllowsHost(Normalized(net), host)
  <2>1. PICK e \in net : HostMatches(NormalizeHost(e), host)
    BY <1>4 DEF AllowsHost
  <2>2. NormalizeHost(e) \in Normalized(net)
    BY <1>2, <1>4, <2>1 DEF Normalized, AllowsHost
  <2> QED BY <1>1, <1>4, <2>1, <2>2 DEF AllowsHost
<1>5. ASSUME AllowsHost(Normalized(net), host) PROVE AllowsHost(net, host)
  BY <1>1, <1>5 DEF AllowsHost, Normalized
<1> QED BY <1>3, <1>4, <1>5

\* A list of hosts that is covered by another allows nothing the other does not
\* (is_covered_by).
LEMMA CoveredAllows ==
  ASSUME NEW granted \in SUBSET Patterns, NEW wanted \in SUBSET Patterns,
         IsCoveredBy(wanted, granted),
         NEW host \in Seq(STRING), AllowsHost(wanted, host)
  PROVE  AllowsHost(granted, host)
<1>1. /\ Normalized(wanted) \subseteq Patterns /\ Normalized(granted) \subseteq Patterns
      /\ AllowsHost(Normalized(wanted), host)
      /\ AllowsHost(Normalized(granted), host) => AllowsHost(granted, host)
  BY NormalizedAllows
<1>0. \A e \in Patterns : NormalizeHost(e) \in Patterns /\ NormalizeHost(NormalizeHost(e)) = NormalizeHost(e)
  BY DEF Patterns, NormalizeHost
<1>2. PICK w \in Normalized(wanted) : HostMatches(NormalizeHost(w), host)
  BY <1>1 DEF AllowsHost
<1>3. PICK g \in Normalized(granted) : PatternCovers(g, w)
  BY <1>2 DEF IsCoveredBy, Beyond
<1>4. w = NormalizeHost(w) /\ g = NormalizeHost(g)
  BY <1>0 DEF Normalized
<1>5. CASE g = w
  BY <1>1, <1>2, <1>5 DEF AllowsHost
<1>6. CASE g.wild /\ HostMatches(g, w.labels)
  <2>1. g.labels \in Seq(STRING) /\ w.labels \in Seq(STRING) /\ w.wild \in BOOLEAN
    BY <1>1, <1>2, <1>3 DEF Patterns
  <2>2. IsProperSuffix(g.labels, w.labels)
    BY <1>6 DEF HostMatches
  <2>3. IsProperSuffix(g.labels, host)
    <3>1. CASE w.wild
      BY <1>2, <1>4, <2>1, <2>2, <3>1, SuffixTrans DEF HostMatches
    <3>2. CASE ~w.wild
      BY <1>2, <1>4, <2>2, <3>2 DEF HostMatches
    <3> QED BY <3>1, <3>2
  <2> QED BY <1>1, <1>3, <1>4, <1>6, <2>3 DEF AllowsHost, HostMatches
<1> QED BY <1>3, <1>5, <1>6 DEF PatternCovers

---------------------------------------------------------------------------
(* The plugin's directory and the consent to it.                           *)

\* Every set of numbers has a least one, if it has one at all.
LEMMA Smallest ==
  ASSUME NEW T, T \subseteq Nat, T # {}
  PROVE  \E x \in T : \A y \in T : x <= y
<1>1. PICK x \in T : \A y \in T : ~(<<y, x>> \in OpToRel(<, Nat))
  BY NatLessThanWellFounded, WFMin
<1>2. \A y \in T : ~(y < x)
  BY <1>1 DEF OpToRel
<1> QED BY <1>2

\* A finite set is listed by SetToSeq.
LEMMA Listing ==
  ASSUME NEW S, IsFiniteSet(S)
  PROVE  /\ Len(SetToSeq(S)) \in Nat /\ DOMAIN SetToSeq(S) = 1..Len(SetToSeq(S))
         /\ \A i \in DOMAIN SetToSeq(S) : SetToSeq(S)[i] \in S
<1>1. Cardinality(S) \in Nat /\ ExistsBijection(1..Cardinality(S), S)
  BY FS_CardinalityType
<1>2. PICK f \in [1..Cardinality(S) -> S] : IsInjective(f)
  BY <1>1 DEF ExistsBijection, Bijection, Injection
<1>3. SetToSeq(S) \in [1..Cardinality(S) -> S]
  BY <1>2 DEF SetToSeq
<1> QED BY <1>1, <1>3

\* What a catalog lists under a name is a release.
LEMMA ListedIsRelease ==
  ASSUME NEW catalog \in Catalogs, Listed(catalog, Name)
  PROVE  Lookup(catalog, Name).release \in Releases
<1>1. PICK index \in Published : catalog = Parse(index)
  BY DEF Catalogs
<1>2. /\ Len(index.plugins) \in Nat /\ DOMAIN index.plugins = 1..Len(index.plugins)
      /\ \A i \in DOMAIN index.plugins : index.plugins[i].release \in Releases
  <2>1. CASE index \in WrongIndexes
    BY <2>1, PluginStoreAssumption
  <2>2. CASE index \notin WrongIndexes
    <3>1. PICK d \in Repositories :
            /\ BuildIndex(d).built
            /\ index.plugins = SetToSeq({EntryOf(p) : p \in BuildIndex(d).plugins})
      <4>1. PICK d \in {r \in Repositories : BuildIndex(r).built} :
              index = [url |-> EntryOf(CHOOSE p \in BuildIndex(d).plugins : TRUE).url, schema |-> 1,
                       plugins |-> SetToSeq({EntryOf(p) : p \in BuildIndex(d).plugins})]
        BY <1>1, <2>2 DEF Published
      <4> QED BY <4>1
    <3> DEFINE candidates == {c \in d : ~c.hidden}
               entries == {EntryOf(p) : p \in BuildIndex(d).plugins}
               entryOf == [c \in candidates |-> EntryOf(IndexOne(c))]
    <3>2. BuildIndex(d).plugins = {IndexOne(c) : c \in candidates}
      BY <3>1 DEF BuildIndex
    <3>3. \A c \in candidates : IndexOne(c).release \in Releases
      BY PluginStoreAssumption DEF IndexOne
    <3>4. IsFiniteSet(candidates)
      BY PluginStoreAssumption, FS_Subset
    <3>5. entryOf \in Surjection(candidates, entries)
      BY <3>2 DEF Surjection
    <3>6. IsFiniteSet(entries)
      BY <3>4, <3>5, FS_Surjection
    <3>7. \A e \in entries : e.release \in Releases
      BY <3>2, <3>3 DEF EntryOf
    <3> QED BY <3>1, <3>6, <3>7, Listing
  <2> QED BY <2>1, <2>2
<1>3. /\ DOMAIN catalog = 1..Len(index.plugins)
      /\ \A i \in DOMAIN catalog : catalog[i].release \in Releases
  BY <1>1, <1>2 DEF Parse, ParseEntry
<1> DEFINE T == {i \in DOMAIN catalog : catalog[i].name = Name}
<1>4. PICK i \in T : \A j \in T : i <= j
  <2>1. T \subseteq Nat /\ T # {}
    BY <1>2, <1>3 DEF Listed
  <2> QED BY <2>1, Smallest
<1>5. Lookup(catalog, Name) = catalog[CHOOSE k \in DOMAIN catalog :
        catalog[k].name = Name /\ \A j \in DOMAIN catalog : catalog[j].name = Name => k <= j]
  BY DEF Lookup
<1> QED BY <1>3, <1>4, <1>5

\* The command under way: its fields, and what it has with it where it stands.
Fields == {"pc", "cmd", "entry", "todo", "ledger", "said"}
IsJob(c) == c = [f \in Fields |-> c[f]]

Consent == [known : BOOLEAN, granted : SUBSET Patterns, enabled : BOOLEAN]

\* What the directory and the record in it may hold.
Records == [state : {"none", "read"}, version : {ManifestOf[c].version : c \in Content} \cup {None},
            files : [Paths -> Releases \cup {None}]]

Directories == [kind : {"absent", "dir", "link"}, files : [Paths -> Content \cup {None}],
                record : Records]

Updating == cli.cmd = "update" /\ cli.pc \in {"download", "script", "manifest", "stale", "record"}

\* As the update of a directory to a release found and leaves it.
Between(p, release) ==
  dir.files[p] \in {dir.record.files[p], "hand"} \/ (p \in FilesOf(release) /\ dir.files[p] = release)

\* What a command does where it stands, and what it has with it.
Places(c) ==
  /\ IsJob(c)
  /\ c.pc \in {"fetch", "download"} => c.cmd \in {"install", "update"}
  /\ c.pc = "move" => c.cmd = "install"
  /\ c.pc \in {"script", "manifest", "stale", "record"} => c.cmd = "update"
  /\ c.pc \in {"download", "move", "script", "manifest", "stale", "record"} =>
       c.entry.release \in Releases
  /\ c.pc = "consent" => c.cmd \in {"approve", "disable", "enable", "forget"}
  /\ c.pc \in {"forget", "delete"} => c.cmd = "remove"
  /\ c.ledger \in Consent /\ c.said \subseteq Patterns /\ c.ledger.granted = Normalized(c.said)

\* The directory, and the history of it.
Kinds ==
  /\ dir \in Directories
  /\ dir.kind = "absent" => dir = Absent
  /\ dir.record.state = "none" => dir.record.files = NoFiles
  /\ mauled \in BOOLEAN /\ halfway \in Releases \cup {None}

\* An update finds the files as they were installed, and leaves them so or as
\* the new release has them; what came by hand came in between.
Updates ==
  Updating =>
    /\ dir.record.state = "read"
    /\ \A p \in Paths : dir.record.files[p] # None =>
         /\ dir.files[p] = "hand" => p \in late
         /\ cli.pc # "record" => Between(p, cli.entry.release)
         /\ dir.files[p] # None => Between(p, cli.entry.release)
    /\ cli.pc \in {"manifest", "stale", "record"} => dir.files[MainFile(cli.entry.release)] # None
    /\ cli.pc \in {"stale", "record"} => dir.files[MANIFEST] \in {cli.entry.release, "hand"}

\* So they are after it stopped.
Halfway ==
  halfway # None =>
    \A p \in Paths : dir.record.files[p] # None /\ dir.files[p] # None => Between(p, halfway)

\* A manifest of a release has its script.
Scripted ==
  dir.files[MANIFEST] \notin {None, "hand"} /\ ~mauled => dir.files[OnDisk.main] # None

\* The ledger holds what was said yes to, also while its file is torn.
Grants ==
  /\ ledger = [torn |-> ledger.torn, record |-> ledger.record]
  /\ ledger.record \in Consent
  /\ saidYes \subseteq Patterns /\ ledger.record.granted = Normalized(saidYes)

\* What was found may reach what was said yes to.
Granted ==
  app.pc = "found" =>
    \A h \in Hosts : AllowsHost(ManifestOf[app.seen].net, h) => AllowsHost(app.grant, h)

StoreInv == Places(cli) /\ Kinds /\ Updates /\ Halfway /\ Scripted /\ Grants /\ Granted

LEMMA NoConsentIs ==
  NoConsent \in Consent /\ NoConsent.granted = {} /\ Normalized({}) = {}
BY DEF NoConsent, Consent, Normalized

LEMMA StoreInit == Init => StoreInv
<1> SUFFICES ASSUME Init PROVE StoreInv
  OBVIOUS
<1> USE PluginStoreAssumption, NoConsentIs DEF Init
<1>1. Absent \in Directories /\ Absent.record.state = "none" /\ Absent.record.files = NoFiles
      /\ Absent.files = NoFiles /\ MANIFEST \in Paths
  BY DEF Absent, NoRecord, NoFiles, Directories, Records, Paths
<1>2. Places(cli) /\ cli.pc = "idle" /\ cli.cmd = "none"
  BY DEF Idle, IsJob, Fields, Places
<1>3. Kinds /\ Updates /\ Halfway
  BY <1>1, <1>2 DEF Kinds, Updates, Updating, Halfway
<1>4. Scripted
  BY <1>1 DEF Scripted, NoFiles
<1>6. Grants
  BY DEF Grants
<1>7. Granted
  BY DEF Granted, AppOff
<1> QED BY <1>2, <1>3, <1>4, <1>6, <1>7 DEF StoreInv

\* What the next step of a command leaves of it.
LEMMA JobGoesOn ==
  ASSUME IsJob(cli), NEW x, cli' = [cli EXCEPT !.pc = x]
  PROVE  IsJob(cli') /\ cli'.pc = x /\ cli'.cmd = cli.cmd /\ cli'.entry = cli.entry
         /\ cli'.ledger = cli.ledger /\ cli'.said = cli.said
BY DEF IsJob, Fields

LEMMA JobTakesEntry ==
  ASSUME IsJob(cli), NEW x, NEW y, cli' = [cli EXCEPT !.pc = x, !.entry = y]
  PROVE  IsJob(cli') /\ cli'.pc = x /\ cli'.cmd = cli.cmd /\ cli'.entry = y
         /\ cli'.ledger = cli.ledger /\ cli'.said = cli.said
BY DEF IsJob, Fields

LEMMA JobTakesTools ==
  ASSUME IsJob(cli), NEW x, NEW y, cli' = [cli EXCEPT !.pc = x, !.todo = y]
  PROVE  IsJob(cli') /\ cli'.pc = x /\ cli'.cmd = cli.cmd /\ cli'.entry = cli.entry
         /\ cli'.ledger = cli.ledger /\ cli'.said = cli.said
BY DEF IsJob, Fields

LEMMA JobTakesConsent ==
  ASSUME IsJob(cli), NEW x, NEW y, NEW z, cli' = [cli EXCEPT !.pc = x, !.ledger = y, !.said = z]
  PROVE  IsJob(cli') /\ cli'.pc = x /\ cli'.cmd = cli.cmd /\ cli'.entry = cli.entry
         /\ cli'.ledger = y /\ cli'.said = z
BY DEF IsJob, Fields

LEMMA JobBegins ==
  ASSUME NEW x, NEW y, cli' = [Idle EXCEPT !.cmd = x, !.pc = y]
  PROVE  IsJob(cli') /\ cli'.pc = y /\ cli'.cmd = x /\ cli'.ledger = NoConsent /\ cli'.said = {}
BY DEF IsJob, Fields, Idle

LEMMA JobEnds ==
  ASSUME Ended
  PROVE  /\ IsJob(cli') /\ cli'.pc = "idle" /\ cli'.cmd = "none"
         /\ cli'.ledger = NoConsent /\ cli'.said = {}
BY DEF IsJob, Fields, Idle, Ended

\* What the manifest on disk asks for.
LEMMA OnDiskAsks ==
  ASSUME Kinds, HasManifest
  PROVE  dir.files[MANIFEST] \in Content /\ OnDisk.net \subseteq Patterns
BY PluginStoreAssumption DEF Kinds, HasManifest, Directories, OnDisk, Paths

LEMMA CommandStep == StoreInv /\ Next => Places(cli')
<1> SUFFICES ASSUME Places(cli), Kinds, Grants, Next PROVE Places(cli')
  BY DEF StoreInv
<1>0. IsJob(cli)
  BY DEF Places
<1>1. CASE UNCHANGED cli
  BY <1>1 DEF Places
<1>2. CASE Ended
  BY <1>2, JobEnds, NoConsentIs DEF Places
<1>3. CASE \E cmd_, pc : /\ cli' = [Idle EXCEPT !.cmd = cmd_, !.pc = pc]
                         /\ pc \in {"fetch", "tools", "forget", "consent"}
                         /\ pc = "fetch" => cmd_ \in {"install", "update"}
                         /\ pc = "forget" => cmd_ = "remove"
                         /\ pc = "consent" => cmd_ \in {"approve", "disable", "enable", "forget"}
  <2>1. PICK cmd_, pc : /\ cli' = [Idle EXCEPT !.cmd = cmd_, !.pc = pc]
                        /\ pc \in {"fetch", "tools", "forget", "consent"}
                        /\ pc = "fetch" => cmd_ \in {"install", "update"}
                        /\ pc = "forget" => cmd_ = "remove"
                        /\ pc = "consent" => cmd_ \in {"approve", "disable", "enable", "forget"}
    BY <1>3
  <2>2. IsJob(cli') /\ cli'.pc = pc /\ cli'.cmd = cmd_ /\ cli'.ledger = NoConsent /\ cli'.said = {}
    BY <2>1, JobBegins
  <2>3. cli'.ledger \in Consent /\ cli'.said \subseteq Patterns /\ cli'.ledger.granted = Normalized(cli'.said)
    BY <2>2, NoConsentIs
  <2> QED BY <2>1, <2>2, <2>3 DEF Places
<1>4. CASE \E pc : /\ cli' = [cli EXCEPT !.pc = pc]
                   /\ \/ pc \in {"tools", "stream", "tool", "fill"}
                      \/ cli.pc = "download" /\ pc = IF cli.cmd = "install" THEN "move" ELSE "script"
                      \/ cli.pc \in {"script", "manifest", "stale"} /\ pc \in {"manifest", "stale", "record"}
                      \/ pc \in {"truncate", "delete"} /\ cli.cmd = "remove"
  BY <1>0, <1>4, JobGoesOn DEF Places
<1>5. CASE \E pc, todo : cli' = [cli EXCEPT !.pc = pc, !.todo = todo] /\ pc = "tool"
  BY <1>0, <1>5, JobTakesTools DEF Places
<1>6. CASE cli' = [cli EXCEPT !.pc = "tools", !.entry = <<>>]
  <2>1. IsJob(cli') /\ cli'.pc = "tools" /\ cli'.ledger = cli.ledger /\ cli'.said = cli.said
    BY <1>0, <1>6, JobTakesEntry
  <2> QED BY <2>1 DEF Places
<1>7. CASE Fetch /\ ~Ended
  <2>1. PICK catalog \in Catalogs :
          GoesOn(catalog) /\ cli' = [cli EXCEPT !.pc = "download", !.entry = Lookup(catalog, Name)]
    BY <1>7 DEF Fetch
  <2>2. Lookup(catalog, Name).release \in Releases
    BY <2>1, ListedIsRelease DEF GoesOn
  <2>3. cli'.pc = "download" /\ cli'.entry = Lookup(catalog, Name) /\ cli'.cmd = cli.cmd
        /\ IsJob(cli') /\ cli'.ledger = cli.ledger /\ cli'.said = cli.said
    BY <1>0, <2>1, JobTakesEntry
  <2> QED BY <1>7, <2>2, <2>3 DEF Places, Fetch
<1>8. CASE ReadConsent /\ ~Ended
  <2>1. PICK record, said : cli' = [cli EXCEPT !.pc = "truncate", !.ledger = record, !.said = said]
          /\ record = (CASE cli.cmd = "approve" -> Approve(OnDisk.net)
                        [] cli.cmd = "disable" -> Disable(ledger.record)
                        [] cli.cmd = "enable" -> Enable(ledger.record)
                        [] cli.cmd = "forget" -> NoConsent)
          /\ said = (CASE cli.cmd = "approve" -> OnDisk.net
                      [] cli.cmd = "forget" -> {}
                      [] OTHER -> saidYes)
          /\ HasManifest /\ cli.pc = "consent"
    BY <1>8 DEF ReadConsent, Loads
  <2>2. record \in Consent /\ said \subseteq Patterns /\ record.granted = Normalized(said)
    <3>1. CASE cli.cmd = "approve"
      <4>1. OnDisk.net \subseteq Patterns /\ Normalized(OnDisk.net) \subseteq Patterns
        BY <2>1, OnDiskAsks, NormalizedIs
      <4> QED BY <2>1, <3>1, <4>1 DEF Approve, Consent
    <3>2. CASE cli.cmd \in {"disable", "enable"}
      BY <2>1, <3>2 DEF Disable, Enable, Consent, Grants
    <3>3. CASE cli.cmd = "forget"
      BY <2>1, <3>3, NoConsentIs
    <3> QED BY <2>1, <3>1, <3>2, <3>3 DEF Places
  <2>3. IsJob(cli') /\ cli'.pc = "truncate" /\ cli'.ledger = record /\ cli'.said = said
    <3>1. cli' = [cli EXCEPT !.pc = "truncate", !.ledger = record, !.said = said]
      BY <2>1
    <3> QED BY <1>0, <3>1, JobTakesConsent
  <2> QED BY <2>2, <2>3 DEF Places
<1>9. CASE CatalogStep
  BY <1>1, <1>2, <1>4, <1>6, <1>7, <1>9 DEF CatalogStep, Download, Move, ReplaceScript,
     ReplaceManifest, Replace, RemoveStale, WriteRecord
<1>10. CASE ToolStep
  BY <1>2, <1>4, <1>5, <1>10 DEF ToolStep, ReadTools, OpenTool, CloseTool, ToolsDone, NextTool
<1>11. CASE LedgerStep
  <2>1. CASE ReadConsent
    BY <1>2, <1>8, <2>1
  <2>2. CASE TruncateLedger
    BY <1>4, <2>2 DEF TruncateLedger
  <2>3. CASE FillLedger
    BY <1>2, <1>4, <2>3 DEF FillLedger
  <2>4. CASE Forget
    BY <1>2, <1>4, <2>4 DEF Forget, Places
  <2>5. CASE Delete
    BY <1>1, <1>2, <2>5 DEF Delete
  <2> QED BY <1>11, <2>1, <2>2, <2>3, <2>4, <2>5 DEF LedgerStep
<1>12. CASE BeginInstall \/ BeginUpdate \/ BeginRemove \/ BeginConsent
  <2>1. PICK cmd_, pc : /\ Begin(cmd_, pc) /\ pc \in {"fetch", "tools", "forget", "consent"}
                        /\ pc = "fetch" => cmd_ \in {"install", "update"}
                        /\ pc = "forget" => cmd_ = "remove"
                        /\ pc = "consent" => cmd_ \in {"approve", "disable", "enable", "forget"}
    BY <1>12 DEF BeginInstall, BeginUpdate, BeginRemove, BeginConsent
  <2>2. cli' = [Idle EXCEPT !.cmd = cmd_, !.pc = pc]
    BY <2>1 DEF Begin
  <2> QED BY <1>3, <2>1, <2>2
<1> QED BY <1>1, <1>2, <1>9, <1>10, <1>11, <1>12 DEF Next, PluginCommand, PutByHand, EditByHand, Stop,
           Discover, Load

FilesInv == Kinds /\ Updates /\ Halfway /\ Scripted

\* A step that leaves the directory alone, and begins no update.
LEMMA FilesStay ==
  ASSUME StoreInv, UNCHANGED <<dir, mauled, halfway>>,
         Updating' => /\ Updating /\ late' = late /\ cli'.entry = cli.entry
                      /\ cli'.pc = cli.pc \/ (cli.pc = "download" /\ cli'.pc = "script")
  PROVE  FilesInv'
<1> USE DEF StoreInv
<1>1. Kinds' /\ Halfway' /\ Scripted'
  BY DEF Kinds, Halfway, Scripted, Between, OnDisk
<1>2. Updates'
  BY DEF Updates, Updating, Between
<1> QED BY <1>1, <1>2 DEF FilesInv

\* An update goes on when the directory is as the last release left it, but for
\* what the new one has written.
LEMMA UpdateBegins ==
  ASSUME StoreInv, Fetch, ~Ended
  PROVE  FilesInv'
<1> USE DEF StoreInv
<1>1. PICK catalog \in Catalogs :
        GoesOn(catalog) /\ cli' = [cli EXCEPT !.pc = "download", !.entry = Lookup(catalog, Name)]
  BY DEF Fetch
<1>2. cli'.pc = "download" /\ cli'.entry = Lookup(catalog, Name) /\ cli'.cmd = cli.cmd
  BY <1>1, JobTakesEntry DEF Places
<1>3. UNCHANGED <<dir, mauled, halfway>> /\ cli.pc = "fetch"
  BY DEF Fetch, files
<1>4. Kinds' /\ Halfway' /\ Scripted'
  BY <1>3 DEF Kinds, Halfway, Scripted, Between, OnDisk
<1>5. ASSUME cli.cmd = "update"
      PROVE  /\ dir.record.state = "read"
             /\ \A p \in Paths : dir.record.files[p] # None =>
                  /\ dir.files[p] # "hand"
                  /\ Between(p, cli'.entry.release)
  <2>1. StateOf(dir, Lookup(catalog, Name)) = "UpdateAvailable"
    BY <1>1, <1>5 DEF GoesOn
  <2>2. dir.kind # "absent" /\ dir.record.state = "read" /\ Modified(dir, Lookup(catalog, Name)) = {}
    BY <2>1 DEF StateOf, Kinds, Directories, Records
  <2>3. \A p \in Paths : dir.record.files[p] \in Releases \cup {None}
    BY DEF Kinds, Directories, Records
  <2>4. Lookup(catalog, Name).release \in Releases
    BY <1>1, ListedIsRelease DEF GoesOn
  <2> QED BY <1>2, <2>2, <2>3, <2>4 DEF Modified, Between, Releases
<1>6. Updates'
  BY <1>2, <1>3, <1>5 DEF Updates, Updating, Between
<1> QED BY <1>4, <1>6 DEF FilesInv

LEMMA PutStep == ASSUME StoreInv, PutByHand PROVE FilesInv'
<1> USE PluginStoreAssumption DEF StoreInv
<1>1. dir = Absent /\ HandMade \in [Paths -> Content \cup {None}] /\ HandMade[MANIFEST] = "hand"
  BY DEF PutByHand, HandMade, FilesOf, Paths
<1>2. PICK kind \in {"dir", "link"} : dir' = [kind |-> kind, files |-> HandMade, record |-> NoRecord]
  BY <1>1 DEF PutByHand, Absent
<1>3. NoRecord \in Records /\ NoRecord.state = "none" /\ NoRecord.files = NoFiles
  BY DEF NoRecord, NoFiles, Records
<1>4. UNCHANGED <<cli, mauled, halfway, late>>
  BY DEF PutByHand, history
<1>5. ~Updating
  BY <1>1, <1>3 DEF Updates, Absent
<1>6. Kinds'
  BY <1>1, <1>2, <1>3, <1>4 DEF Kinds, Directories
<1>7. Updates' /\ Scripted'
  BY <1>1, <1>2, <1>4, <1>5 DEF Updates, Updating, Scripted
<1>8. Halfway'
  BY <1>2, <1>3, <1>4 DEF Halfway, NoFiles
<1> QED BY <1>6, <1>7, <1>8 DEF FilesInv

LEMMA EditStep == ASSUME StoreInv, EditByHand PROVE FilesInv'
<1> USE PluginStoreAssumption DEF StoreInv
<1>1. PICK p \in Paths : /\ dir' = [dir EXCEPT !.files[p] = "hand"]
                        /\ late' = IF cli.cmd = "update" THEN late \cup {p} ELSE late
  BY DEF EditByHand
<1>2. UNCHANGED <<cli, mauled, halfway>> /\ dir.kind # "absent"
  BY DEF EditByHand
<1>3. dir' \in Directories /\ dir'.kind = dir.kind /\ dir'.record = dir.record
      /\ \A q \in Paths : dir'.files[q] = IF q = p THEN "hand" ELSE dir.files[q]
  BY <1>1 DEF Kinds, Directories
<1>4. Kinds'
  BY <1>2, <1>3 DEF Kinds
<1>5. Updates'
  BY <1>1, <1>2, <1>3 DEF Updates, Updating, Between, MainFile, Paths, Mains
<1>6. Halfway'
  BY <1>2, <1>3 DEF Halfway, Between
<1>7. Scripted'
  <2>1. MANIFEST \in Paths /\ \A c \in Content : ManifestOf[c].main \in Paths
    BY DEF Paths, Mains, MainFile
  <2>2. dir.files[MANIFEST] \in Content \cup {None}
    BY <2>1 DEF Kinds, Directories
  <2> QED BY <1>2, <1>3, <2>1, <2>2 DEF Scripted, OnDisk
<1> QED BY <1>4, <1>5, <1>6, <1>7 DEF FilesInv

LEMMA MoveStep == ASSUME StoreInv, Move PROVE FilesInv'
<1> USE PluginStoreAssumption DEF StoreInv
<1>1. CASE Ended /\ UNCHANGED <<dir, mauled, halfway>>
  BY <1>1, FilesStay, JobEnds DEF Updating
<1>2. CASE /\ dir' = StagedDir(cli.entry.release) /\ mauled' = FALSE /\ halfway' = None
           /\ cli' = [cli EXCEPT !.pc = "tools", !.entry = <<>>]
  <2>1. cli.entry.release \in Releases /\ MANIFEST \in Paths
    BY DEF Move, Places, Paths
  <2>2. RecordOf(cli.entry.release) \in Records /\ RecordOf(cli.entry.release).state = "read"
    BY <2>1 DEF RecordOf, Records, Releases
  <2>3. /\ dir' \in Directories /\ dir'.kind = "dir" /\ dir'.record.state = "read"
        /\ \A p \in FilesOf(cli.entry.release) \cap Paths : dir'.files[p] = cli.entry.release
    BY <1>2, <2>1, <2>2 DEF StagedDir, Directories, Releases
  <2>4. cli'.pc = "tools"
    BY <1>2, JobTakesEntry DEF Places
  <2>5. Kinds'
    BY <1>2, <2>3 DEF Kinds
  <2>6. Updates' /\ Halfway'
    BY <1>2, <2>4 DEF Updates, Updating, Halfway
  <2>7. Scripted'
    <3>1. dir'.files[MANIFEST] = cli.entry.release
      BY <2>1, <2>3 DEF FilesOf
    <3>2. ManifestOf[cli.entry.release].main \in FilesOf(cli.entry.release) \cap Paths
      BY <2>1 DEF FilesOf, MainFile, Paths, Mains, Releases
    <3> QED BY <2>1, <2>3, <3>1, <3>2 DEF Scripted, OnDisk, Releases
  <2> QED BY <2>5, <2>6, <2>7 DEF FilesInv
<1> QED BY <1>1, <1>2 DEF Move

\* The three writes of an update: the script, the manifest, and what is stale.
LEMMA ReplaceStep == ASSUME StoreInv, ReplaceScript \/ ReplaceManifest PROVE FilesInv'
<1> USE PluginStoreAssumption DEF StoreInv
<1>1. PICK path, next :
        /\ dir' = [dir EXCEPT !.files[path] = cli.entry.release]
        /\ cli' = [cli EXCEPT !.pc = next] /\ halfway' = cli.entry.release
        /\ late' = late /\ mauled' = mauled /\ dir.kind # "absent"
        /\ \/ cli.pc = "script" /\ path = MainFile(cli.entry.release) /\ next = "manifest"
           \/ cli.pc = "manifest" /\ path = MANIFEST /\ next = "stale"
  BY DEF ReplaceScript, ReplaceManifest, Replace
<1>2. cli'.pc = next /\ cli'.entry = cli.entry /\ cli'.cmd = "update" /\ cli.cmd = "update"
  BY <1>1, JobGoesOn DEF Places
<1>3. cli.entry.release \in Releases /\ path \in FilesOf(cli.entry.release) /\ path \in Paths
      /\ MANIFEST \in Paths /\ MainFile(cli.entry.release) \in Paths
  BY <1>1 DEF Places, FilesOf, Paths, Mains, Releases
<1>4. dir' \in Directories /\ dir'.kind = dir.kind /\ dir'.record = dir.record
      /\ \A q \in Paths : dir'.files[q] = IF q = path THEN cli.entry.release ELSE dir.files[q]
  BY <1>1, <1>3 DEF Kinds, Directories, Releases
<1>5. Kinds'
  BY <1>1, <1>3, <1>4 DEF Kinds
<1>6. Updating /\ cli.pc # "record"
  BY <1>1, <1>2 DEF Updating
<1>7. Updates'
  BY <1>1, <1>2, <1>3, <1>4, <1>6 DEF Updates, Updating, Between, Releases
<1>8. Halfway'
  BY <1>1, <1>2, <1>3, <1>4, <1>6 DEF Halfway, Updates, Between
<1>9. Scripted'
  <2>1. \A c \in Content : ManifestOf[c].main \in Paths
    BY DEF Paths, Mains, MainFile
  <2>2. dir.files[MANIFEST] \in Content \cup {None} /\ None \notin Releases
    BY <1>3 DEF Kinds, Directories, Releases
  <2>3. CASE path = MANIFEST
    BY <1>1, <1>3, <1>4, <1>6, <2>2, <2>3 DEF Scripted, OnDisk, MainFile, Updates
  <2>4. CASE path # MANIFEST
    BY <1>1, <1>3, <1>4, <2>1, <2>2, <2>4 DEF Scripted, OnDisk, MainFile
  <2> QED BY <2>3, <2>4
<1> QED BY <1>5, <1>7, <1>8, <1>9 DEF FilesInv

LEMMA RemoveStaleStep == ASSUME StoreInv, RemoveStale PROVE FilesInv'
<1> USE PluginStoreAssumption DEF StoreInv
<1> DEFINE gone(p) == dir.record.files[p] # None /\ p \notin FilesOf(cli.entry.release)
<1>1. /\ dir' = [dir EXCEPT !.files = [p \in Paths |-> IF gone(p) THEN None ELSE dir.files[p]]]
      /\ cli' = [cli EXCEPT !.pc = "record"] /\ cli.pc = "stale"
      /\ UNCHANGED <<late, mauled, halfway>>
  BY DEF RemoveStale, history
<1>2. cli'.pc = "record" /\ cli'.entry = cli.entry /\ cli'.cmd = "update" /\ cli.cmd = "update"
  BY <1>1, JobGoesOn DEF Places
<1>3. Updating
  BY <1>1, <1>2 DEF Updating
<1>4. dir' \in Directories /\ dir'.kind = dir.kind /\ dir'.record = dir.record
      /\ \A q \in Paths : dir'.files[q] = IF gone(q) THEN None ELSE dir.files[q]
  BY <1>1 DEF Kinds, Directories
<1>5. Kinds'
  <2>1. dir.kind # "absent"
    BY <1>3 DEF Kinds, Updates, Absent, NoRecord
  <2> QED BY <1>1, <1>4, <2>1 DEF Kinds
<1>6. cli.entry.release \in Releases /\ MANIFEST \in FilesOf(cli.entry.release)
      /\ MANIFEST \in Paths /\ MainFile(cli.entry.release) \in Paths \cap FilesOf(cli.entry.release)
  BY <1>1 DEF Places, FilesOf, Paths, Mains, Releases
<1>7. Updates'
  BY <1>1, <1>2, <1>3, <1>4, <1>6 DEF Updates, Updating, Between
<1>8. Halfway'
  BY <1>1, <1>4 DEF Halfway, Between
<1>9. Scripted'
  BY <1>1, <1>3, <1>4, <1>6 DEF Scripted, Updates, OnDisk, MainFile
<1> QED BY <1>5, <1>7, <1>8, <1>9 DEF FilesInv

LEMMA WriteRecordStep == ASSUME StoreInv, WriteRecord PROVE FilesInv'
<1> USE PluginStoreAssumption DEF StoreInv
<1>1. /\ dir' = [dir EXCEPT !.record = RecordOf(cli.entry.release)] /\ cli.pc = "record"
      /\ cli' = [cli EXCEPT !.pc = "tools", !.entry = <<>>] /\ halfway' = None /\ mauled' = mauled
  BY DEF WriteRecord
<1>2. cli'.pc = "tools"
  BY <1>1, JobTakesEntry DEF Places
<1>3. RecordOf(cli.entry.release) \in Records /\ RecordOf(cli.entry.release).state = "read"
  BY <1>1 DEF RecordOf, Records, Releases, Places
<1>4. dir' \in Directories /\ dir'.kind = dir.kind /\ dir'.files = dir.files /\ dir'.record.state = "read"
  BY <1>1, <1>3 DEF Kinds, Directories
<1>5. dir.kind # "absent"
  BY <1>1 DEF Kinds, Updates, Updating, Absent, NoRecord, Places
<1> QED BY <1>1, <1>2, <1>4, <1>5 DEF FilesInv, Kinds, Updates, Updating, Halfway, Scripted, OnDisk

LEMMA DeleteStep == ASSUME StoreInv, Delete PROVE FilesInv'
<1> USE PluginStoreAssumption DEF StoreInv
<1>1. CASE dir' = Absent /\ mauled' = FALSE /\ halfway' = None /\ Ended
  <2>1. Absent \in Directories /\ Absent.record.state = "none" /\ Absent.record.files = NoFiles
        /\ Absent.files[MANIFEST] = None
    BY DEF Absent, NoRecord, NoFiles, Directories, Records, Paths
  <2>2. cli'.cmd = "none"
    BY <1>1, JobEnds
  <2> QED BY <1>1, <2>1, <2>2 DEF FilesInv, Kinds, Updates, Updating, Halfway, Scripted
<1>2. CASE \E p \in Paths : dir' = [dir EXCEPT !.files[p] = None] /\ mauled' = TRUE
                            /\ UNCHANGED <<cli, late, halfway>>
  <2>1. PICK p \in Paths : dir' = [dir EXCEPT !.files[p] = None] /\ mauled' = TRUE
                           /\ UNCHANGED <<cli, late, halfway>>
    BY <1>2
  <2>2. dir' \in Directories /\ dir'.kind = dir.kind /\ dir'.record = dir.record
        /\ \A q \in Paths : dir'.files[q] = IF q = p THEN None ELSE dir.files[q]
    BY <2>1 DEF Kinds, Directories
  <2>3. dir.kind # "absent" /\ cli.cmd = "remove"
    BY DEF Delete, Places
  <2>4. Kinds'
    BY <2>1, <2>2, <2>3 DEF Kinds
  <2> QED BY <2>1, <2>2, <2>3, <2>4 DEF FilesInv, Updates, Updating, Halfway, Scripted, Between
<1> QED BY <1>1, <1>2 DEF Delete

LEMMA DirectoryStep == StoreInv /\ Next => FilesInv'
<1> SUFFICES ASSUME StoreInv, Next PROVE FilesInv'
  OBVIOUS
<1>0. IsJob(cli)
  BY DEF StoreInv, Places
<1>1. CASE Ended /\ UNCHANGED <<dir, mauled, halfway>>
  BY <1>1, FilesStay, JobEnds DEF Updating
<1>2. CASE UNCHANGED <<cli, dir, late, mauled, halfway>>
  BY <1>2, FilesStay DEF Updating
<1>3. CASE UNCHANGED <<dir, mauled, halfway>>
           /\ cli'.pc \notin {"download", "script", "manifest", "stale", "record"}
  BY <1>3, FilesStay DEF Updating
<1>4. CASE Download
  <2>1. CASE Ended
    BY <1>1, <1>4, <2>1 DEF Download, files
  <2>2. CASE ~Ended
    <3>1. PICK pc \in {"move", "script"} : cli' = [cli EXCEPT !.pc = pc]
      BY <1>4, <2>2 DEF Download
    <3>2. cli'.pc = pc /\ cli'.entry = cli.entry /\ cli'.cmd = cli.cmd
      BY <1>0, <3>1, JobGoesOn
    <3>3. UNCHANGED <<dir, mauled, halfway, late>> /\ cli.pc = "download"
      BY <1>4, <2>2 DEF Download, files
    <3> QED BY <3>1, <3>2, <3>3, FilesStay DEF Updating
  <2> QED BY <2>1, <2>2
<1>5. CASE Fetch
  <2>1. CASE Ended
    BY <1>1, <1>5, <2>1 DEF Fetch, files
  <2> QED BY <1>5, <2>1, UpdateBegins
<1>6. CASE BeginInstall \/ BeginUpdate \/ BeginRemove \/ BeginConsent
  <2>1. PICK cmd_, pc : Begin(cmd_, pc) /\ pc \in {"fetch", "tools", "forget", "consent"}
    BY <1>6 DEF BeginInstall, BeginUpdate, BeginRemove, BeginConsent
  <2>2. cli'.pc = pc /\ UNCHANGED <<dir, mauled, halfway>>
    BY <2>1, JobBegins DEF Begin, files, history
  <2> QED BY <1>3, <2>1, <2>2
<1>7. CASE ToolStep
  <2>1. UNCHANGED <<dir, mauled, halfway>>
    BY <1>7 DEF ToolStep, ReadTools, OpenTool, CloseTool, ToolsDone, files, history
  <2>2. \/ Ended
        \/ \E todo : cli' = [cli EXCEPT !.pc = "tool", !.todo = todo]
        \/ cli' = [cli EXCEPT !.pc = "stream"]
    BY <1>7 DEF ToolStep, ReadTools, OpenTool, CloseTool, ToolsDone, NextTool
  <2>3. cli'.pc \in {"idle", "tool", "stream"}
    BY <1>0, <2>2, JobEnds, JobTakesTools, JobGoesOn
  <2> QED BY <1>3, <2>1, <2>3
<1>8. CASE ReadConsent \/ TruncateLedger \/ FillLedger \/ Forget
  <2>1. UNCHANGED <<dir, mauled, halfway>>
    BY <1>8 DEF ReadConsent, TruncateLedger, FillLedger, Forget, files, history
  <2>2. \/ Ended
        \/ \E record, said : cli' = [cli EXCEPT !.pc = "truncate", !.ledger = record, !.said = said]
        \/ \E pc \in {"fill", "delete", "truncate"} : cli' = [cli EXCEPT !.pc = pc]
    BY <1>8 DEF ReadConsent, TruncateLedger, FillLedger, Forget
  <2>3. cli'.pc \in {"idle", "truncate", "fill", "delete"}
    <3>1. CASE \E record, said : cli' = [cli EXCEPT !.pc = "truncate", !.ledger = record, !.said = said]
      <4>1. PICK record, said : cli' = [cli EXCEPT !.pc = "truncate", !.ledger = record, !.said = said]
        BY <3>1
      <4> QED BY <1>0, <4>1, JobTakesConsent
    <3> QED BY <1>0, <2>2, <3>1, JobEnds, JobGoesOn
  <2> QED BY <1>3, <2>1, <2>3
<1>9. CASE Stop \/ Discover \/ Load
  BY <1>1, <1>2, <1>9 DEF Stop, Discover, Load, files, history
<1>10. CASE CatalogStep
  BY <1>4, <1>5, <1>10, MoveStep, ReplaceStep, RemoveStaleStep, WriteRecordStep DEF CatalogStep
<1>11. CASE LedgerStep
  BY <1>8, <1>11, DeleteStep DEF LedgerStep
<1> QED BY <1>6, <1>7, <1>9, <1>10, <1>11, PutStep, EditStep DEF Next, PluginCommand

LEMMA ConsentStep == StoreInv /\ Next => Grants'
<1> SUFFICES ASSUME Places(cli), Grants, Next PROVE Grants'
  BY DEF StoreInv
<1>1. CASE UNCHANGED <<ledger, saidYes>>
  BY <1>1 DEF Grants
<1>2. CASE TruncateLedger
  <2>1. ledger' = [torn |-> TRUE, record |-> ledger.record]
    BY <1>2 DEF TruncateLedger, Grants
  <2> QED BY <1>2, <2>1 DEF TruncateLedger, Grants, history
<1>3. CASE FillLedger
  BY <1>3 DEF FillLedger, Grants, Places
<1>4. TruncateLedger \/ FillLedger \/ UNCHANGED <<ledger, saidYes>>
  BY DEF Next, PluginCommand, PutByHand, EditByHand, BeginInstall, BeginUpdate, BeginRemove,
     BeginConsent, Begin, Stop, CatalogStep, Fetch, Download, Move, ReplaceScript, ReplaceManifest,
     Replace, RemoveStale, WriteRecord, ToolStep, ReadTools, OpenTool, CloseTool, ToolsDone,
     LedgerStep, ReadConsent, Forget, Delete, Discover, Load, files, history
<1> QED BY <1>1, <1>2, <1>3, <1>4

\* What is found to be approved reaches no host beyond what was said yes to.
LEMMA FoundStep == StoreInv /\ Next => Granted'
<1> SUFFICES ASSUME Kinds, Grants, Granted, Next PROVE Granted'
  BY DEF StoreInv
<1>1. CASE UNCHANGED app
  BY <1>1 DEF Granted
<1>2. CASE Load
  BY <1>2 DEF Load, Granted, AppOff
<1>3. CASE Discover
  <2>1. app'.seen = dir.files[MANIFEST] /\ app'.grant = saidYes
    BY <1>3 DEF Discover, AppOff
  <2>2. OnDisk.net \subseteq Patterns
    BY <1>3, OnDiskAsks DEF Discover, Loadable, Loads
  <2>3. IsCoveredBy(OnDisk.net, Normalized(saidYes))
    BY <1>3 DEF Discover, Loadable, ConsentStatus, Grants
  <2>4. ASSUME NEW h \in Hosts, AllowsHost(OnDisk.net, h) PROVE AllowsHost(saidYes, h)
    <3>1. h \in Seq(STRING)
      BY PluginStoreAssumption
    <3>2. Normalized(saidYes) \subseteq Patterns /\ saidYes \subseteq Patterns
      BY NormalizedIs DEF Grants
    <3>3. AllowsHost(Normalized(saidYes), h)
      BY <2>2, <2>3, <2>4, <3>1, <3>2, CoveredAllows
    <3> QED BY <3>1, <3>2, <3>3, NormalizedAllows
  <2> QED BY <2>1, <2>4 DEF Granted, OnDisk
<1>4. Load \/ Discover \/ UNCHANGED app
  BY DEF Next, PluginCommand, PutByHand, EditByHand, BeginInstall, BeginUpdate, BeginRemove,
     BeginConsent, Begin, Stop, CatalogStep, Fetch, Download, Move, ReplaceScript, ReplaceManifest,
     Replace, RemoveStale, WriteRecord, ToolStep, ReadTools, OpenTool, CloseTool, ToolsDone,
     LedgerStep, ReadConsent, TruncateLedger, FillLedger, Forget, Delete
<1> QED BY <1>1, <1>2, <1>3, <1>4

LEMMA StoreStays == StoreInv /\ UNCHANGED vars => StoreInv'
<1> SUFFICES ASSUME StoreInv, UNCHANGED vars PROVE StoreInv'
  OBVIOUS
<1> USE DEF vars, files, history
<1>1. FilesInv'
  BY FilesStay DEF Updating
<1>2. Places(cli)' /\ Grants' /\ Granted'
  BY DEF StoreInv, Places, Grants, Granted
<1> QED BY <1>1, <1>2 DEF StoreInv, FilesInv

\* The invariant of the directory, of every step of the registry's parts.
LEMMA StoreHolds == SpecSetup => []StoreInv
<1>1. InitSetup => StoreInv
  BY StoreInit DEF InitSetup
<1>2. StoreInv /\ [NextSetup]_setupVars => StoreInv'
  <2> SUFFICES ASSUME StoreInv, [NextSetup]_setupVars PROVE StoreInv'
    OBVIOUS
  <2>1. CASE Next
    BY <2>1, CommandStep, DirectoryStep, ConsentStep, FoundStep DEF StoreInv, FilesInv
  <2>2. CASE UNCHANGED vars
    BY <2>2, StoreStays
  <2> QED BY <2>1, <2>2 DEF NextSetup, setupVars
<1> QED BY <1>1, <1>2, PTL DEF SpecSetup

LEMMA ScriptIsThere == StoreInv => ManifestHasItsScript
<1> SUFFICES ASSUME StoreInv, HasManifest, ~mauled, ~ByHand PROVE dir.files[OnDisk.main] # None
  BY DEF ManifestHasItsScript
<1> QED BY DEF StoreInv, Scripted, HasManifest, ByHand, Paths

LEMMA HalfUpdateIsOurs == StoreInv => HalfUpdateIsNotModified
<1> SUFFICES ASSUME StoreInv, halfway # None, ~ByHand,
                    \A p \in Paths : dir.record.files[p] # None => dir.files[p] # None,
                    NEW c \in Catalogs, Lookup(c, Name).release = halfway
             PROVE  StateOf(dir, Lookup(c, Name)) # "Modified"
  BY DEF HalfUpdateIsNotModified, Unfinished
<1>1. Modified(dir, Lookup(c, Name)) = {}
  BY DEF Modified, StoreInv, Halfway, Between, ByHand
<1> QED BY <1>1 DEF StateOf

\* Wherever an install or an update stops, the plugin runs or can be brought up
\* to date.
THEOREM RepairableHolds == SpecSetup => []HalfDoneIsRepairable
<1>1. StoreInv => HalfDoneIsRepairable
  BY ScriptIsThere, HalfUpdateIsOurs DEF HalfDoneIsRepairable
<1> QED BY <1>1, StoreHolds, PTL

\* What a loaded plugin may reach was said yes to.
THEOREM LoadsWithinGrant == SpecSetup => LoadedWithinGrant
<1>1. StoreInv /\ [NextSetup]_setupVars =>
        [Load /\ Loads /\ dir.files[MANIFEST] = app.seen =>
           \A h \in Hosts : AllowsHost(OnDisk.net, h) => AllowsHost(app.grant, h)]_vars
  BY DEF StoreInv, Granted, Load, OnDisk
<1> QED BY <1>1, StoreHolds, PTL DEF SpecSetup, LoadedWithinGrant

\* What a person wrote is lost to a removal only, or to an update it came in
\* between.
THEOREM HandWorkHolds == SpecSetup => HandWorkIsKept
<1> DEFINE Keeps == \A p \in Paths :
       dir.files[p] = "hand" /\ dir'.files[p] # "hand" =>
         \/ cli.cmd = "remove" \/ p \in late
         \/ dir.record.state = "read" /\ dir.record.files[p] = None
<1>1. StoreInv /\ [NextSetup]_setupVars => [Keeps]_vars
  <2> SUFFICES ASSUME StoreInv, Next PROVE Keeps
    BY DEF NextSetup, setupVars
  <2> USE PluginStoreAssumption
  <2>1. CASE UNCHANGED dir
    BY <2>1
  <2>2. CASE PutByHand \/ Move
    BY <2>2 DEF PutByHand, Move, StoreInv, Kinds, Absent, NoFiles
  <2>3. CASE EditByHand
    BY <2>3 DEF EditByHand, StoreInv, Kinds, Directories
  <2>4. CASE ReplaceScript \/ ReplaceManifest \/ RemoveStale
    <3>1. cli.cmd = "update" /\ cli.pc \in {"script", "manifest", "stale"}
      BY <2>4 DEF ReplaceScript, ReplaceManifest, Replace, RemoveStale, StoreInv, Places
    <3> QED BY <3>1 DEF StoreInv, Updates, Updating
  <2>5. CASE WriteRecord
    BY <2>5 DEF WriteRecord, StoreInv, Kinds, Directories
  <2>6. CASE Delete
    BY <2>6 DEF Delete, StoreInv, Places
  <2>7. \/ PutByHand \/ Move \/ EditByHand \/ ReplaceScript \/ ReplaceManifest \/ RemoveStale
        \/ WriteRecord \/ Delete \/ UNCHANGED dir
    BY DEF Next, PluginCommand, BeginInstall, BeginUpdate, BeginRemove, BeginConsent, Begin, Stop,
       CatalogStep, Fetch, Download, ToolStep, ReadTools, OpenTool, CloseTool, ToolsDone,
       LedgerStep, ReadConsent, TruncateLedger, FillLedger, Forget, Discover, Load, files
  <2> QED BY <2>1, <2>2, <2>3, <2>4, <2>5, <2>6, <2>7
<1> QED BY <1>1, StoreHolds, PTL DEF SpecSetup, HandWorkIsKept

---------------------------------------------------------------------------
(* The servers.                                                            *)

\* The records there are, and the lists of them: a name is there once.
Record ==
  [id : (Names \ {"local"}) \cup ToSet(Plugins), kind : {"subsonic", "jellyfin"}, url : Urls,
   secret : Nat, user : BOOLEAN]
Lists == {s \in Seq(Record) : \A i, j \in DOMAIN s : s[i].id = s[j].id => i = j}

\* What registries are built of lists, and the items that may come of one.
Registries == {Srv!RegistryOf(s) : s \in Lists}
Items(providers) == {Srv!Item(x) : x \in ToSet(providers)}

CmdFields == {"pc", "op", "verify", "name", "servers", "server", "learned", "hits", "cover",
              "since", "stale"}
IsCmd(c) == c = [f \in CmdFields |-> c[f]]

\* The record that is being prepared is not in the list, which is what the
\* file was when it was read.
Preparing(c) ==
  c.op = "add" /\ c.pc \in {"authenticate", "ping", "public", "user", "count", "me"}
Prepared(c) ==
  /\ c.servers \in Lists /\ c.server \in Record
  /\ c.server.id = c.name /\ c.name \notin Srv!Ids(c.servers)
  /\ calm /\ ~c.stale => Srv!Ids(c.servers) = reported

\* The list that is being saved has the one change of the command.
Saving(c) == c.pc \in {"save", "write"}
Saved(c) ==
  /\ c.op \in {"add", "remove"} /\ c.servers \in Lists
  /\ calm /\ ~c.stale =>
       Srv!Ids(c.servers) = IF c.op = "add" THEN reported \cup {c.name} ELSE reported \ {c.name}

\* A search asks the registry, and a cover that the track has is not passed by.
Working(p, c) ==
  /\ IsCmd(c)
  /\ c.op \in {"none", "add", "remove", "test", "cover", "play"}
  /\ c.pc \in {"authenticate", "me"} => c.op = "add"
  /\ c.pc \in {"ping", "public", "user", "count"} => c.op \in {"add", "test"}
  /\ c.pc \in {"album", "albumCover"} => c.cover \in {"album", "none", "orphan"}
  /\ c.pc = "cover" => c.cover \in Srv!Covers
  /\ c.pc = "none" => c.cover \in {"none", "orphan"}
  /\ c.pc \in {"cover", "album", "albumCover"} => c.op = "cover"
  /\ c.pc = "search" => /\ p = Desktop /\ c.op = "play"
                        /\ c.servers \in Seq(ToSet(registry)) /\ c.hits \in Seq(Items(registry))
  /\ Preparing(c) => Prepared(c)
  /\ Saving(c) => Saved(c)

Commands ==
  /\ cmd = [p \in Procs |-> cmd[p]]
  /\ \A p \in Procs : Working(p, cmd[p])

Kept ==
  /\ file # Torn => file \in Lists
  /\ Srv!FileIsAsReported
  /\ registry \in Registries
  /\ player = [providers |-> player.providers, queue |-> player.queue]
  /\ player.providers \in Registries /\ player.queue \in Seq(Items(player.providers))

ServersInv == Commands /\ Kept

\* What three sequences come to, one after the other.
LEMMA OneAfterTheOther ==
  ASSUME NEW S, NEW a \in Seq(S), NEW b \in Seq(S), NEW c \in Seq(S)
  PROVE  /\ a \o b \o c \in Seq(S) /\ Len(a \o b \o c) = Len(a) + Len(b) + Len(c)
         /\ \A i \in 1..Len(a) : (a \o b \o c)[i] = a[i]
         /\ \A i \in 1..Len(b) : (a \o b \o c)[i + Len(a)] = b[i]
         /\ \A i \in 1..Len(c) : (a \o b \o c)[i + Len(a) + Len(b)] = c[i]
<1>1. /\ a \o b \in Seq(S) /\ Len(a \o b) = Len(a) + Len(b)
      /\ \A i \in 1..Len(a) + Len(b) : (a \o b)[i] = IF i <= Len(a) THEN a[i] ELSE b[i - Len(a)]
  BY ConcatProperties
<1> DEFINE d == a \o b
<1> HIDE DEF d
<1>2. /\ d \o c \in Seq(S) /\ Len(d \o c) = Len(d) + Len(c)
      /\ \A i \in 1..Len(d) + Len(c) : (d \o c)[i] = IF i <= Len(d) THEN d[i] ELSE c[i - Len(d)]
  BY <1>1, ConcatProperties DEF d
<1>3. /\ Len(d) = Len(a) + Len(b)
      /\ \A i \in 1..Len(a) + Len(b) : d[i] = IF i <= Len(a) THEN a[i] ELSE b[i - Len(a)]
  BY <1>1 DEF d
<1>4. /\ \A i \in 1..Len(a) : (d \o c)[i] = a[i]
      /\ \A i \in 1..Len(b) : (d \o c)[i + Len(a)] = b[i]
      /\ \A i \in 1..Len(c) : (d \o c)[i + Len(a) + Len(b)] = c[i]
  BY <1>2, <1>3
<1> QED BY <1>2, <1>3, <1>4 DEF d

\* Of the providers with a name that no plugin has there is one.
LEMMA RegistryIs ==
  ASSUME SetupAssumption, NEW s \in Lists
  PROVE  /\ Srv!RegistryOf(s) \in Seq(ToSet(Srv!RegistryOf(s)))
         /\ Srv!Named(Srv!RegistryOf(s), "local") # {}
         /\ \A x, y \in ToSet(Srv!RegistryOf(s)) : x.id = y.id /\ x.id \notin ToSet(Plugins) => x = y
<1> DEFINE local == <<Srv!Provider("local", NoServer)>>
           remote == [i \in DOMAIN s |-> Srv!Provider(s[i].id, s[i])]
           plugins == [i \in DOMAIN Plugins |-> Srv!Provider(Plugins[i], NoServer)]
           r == Srv!RegistryOf(s)
<1>1. s \in Seq(Record) /\ Plugins \in Seq(STRING)
  BY DEF Lists, SetupAssumption, Srv!ServersAssumption
<1>2. r = local \o remote \o plugins
  BY DEF Srv!RegistryOf
<1>3. /\ Len(r) = 1 + Len(s) + Len(Plugins) /\ DOMAIN r = 1..Len(r)
      /\ r = [i \in 1..Len(r) |-> r[i]]
      /\ r[1] = Srv!Provider("local", NoServer)
      /\ \A i \in 1..Len(s) : r[i + 1] = Srv!Provider(s[i].id, s[i])
      /\ \A i \in 1..Len(Plugins) : r[i + 1 + Len(s)] = Srv!Provider(Plugins[i], NoServer)
  <2> DEFINE All == {Srv!Provider("local", NoServer)} \cup {Srv!Provider(s[i].id, s[i]) : i \in DOMAIN s}
                     \cup {Srv!Provider(Plugins[i], NoServer) : i \in DOMAIN Plugins}
  <2>1. local \in Seq(All) /\ Len(local) = 1 /\ local[1] = Srv!Provider("local", NoServer)
    OBVIOUS
  <2>2. /\ remote \in Seq(All) /\ Len(remote) = Len(s)
        /\ \A i \in 1..Len(s) : remote[i] = Srv!Provider(s[i].id, s[i])
    BY <1>1
  <2>3. /\ plugins \in Seq(All) /\ Len(plugins) = Len(Plugins)
        /\ \A i \in 1..Len(Plugins) : plugins[i] = Srv!Provider(Plugins[i], NoServer)
    BY <1>1
  <2> HIDE DEF All, local, remote, plugins, r
  <2>4. /\ r \in Seq(All) /\ Len(r) = Len(local) + Len(remote) + Len(plugins)
        /\ \A i \in 1..Len(local) : r[i] = local[i]
        /\ \A i \in 1..Len(remote) : r[i + Len(local)] = remote[i]
        /\ \A i \in 1..Len(plugins) : r[i + Len(local) + Len(remote)] = plugins[i]
    <3> DEFINE t == local \o remote \o plugins
    <3>1. /\ t \in Seq(All) /\ Len(t) = Len(local) + Len(remote) + Len(plugins)
          /\ \A i \in 1..Len(local) : t[i] = local[i]
          /\ \A i \in 1..Len(remote) : t[i + Len(local)] = remote[i]
          /\ \A i \in 1..Len(plugins) : t[i + Len(local) + Len(remote)] = plugins[i]
      <4>1. local \in Seq(All)
        BY <2>1
      <4>2. remote \in Seq(All)
        BY <2>2
      <4>3. plugins \in Seq(All)
        BY <2>3
      <4> QED BY <4>1, <4>2, <4>3, OneAfterTheOther
    <3> QED BY <1>2, <3>1
  <2> QED BY <1>1, <2>1, <2>2, <2>3, <2>4
<1>4. r \in Seq(ToSet(r))
  BY <1>3 DEF ToSet
<1>5. Srv!Named(r, "local") # {}
  BY <1>3, <1>1 DEF Srv!Named, Srv!Provider
<1>6. ASSUME NEW i \in DOMAIN r, NEW j \in DOMAIN r, r[i].id = r[j].id, r[i].id \notin ToSet(Plugins)
      PROVE  r[i] = r[j]
  <2>1. ASSUME NEW k \in DOMAIN r, r[k].id \notin ToSet(Plugins)
        PROVE  \/ k = 1 /\ r[k].id = "local"
               \/ /\ k - 1 \in DOMAIN s /\ r[k] = Srv!Provider(s[k - 1].id, s[k - 1])
                  /\ r[k].id = s[k - 1].id /\ s[k - 1].id \in Names \ {"local"}
    <3>1. CASE k = 1
      BY <1>3, <3>1 DEF Srv!Provider
    <3>2. CASE k \in 2..(Len(s) + 1)
      <4>1. k - 1 \in 1..Len(s) /\ k = (k - 1) + 1 /\ s[k - 1] \in Record
        BY <3>2, <1>1
      <4>2. r[k] = Srv!Provider(s[k - 1].id, s[k - 1])
        BY <4>1, <1>3
      <4> QED BY <4>1, <4>2, <2>1, <1>1 DEF Srv!Provider, Record
    <3>3. CASE k \in (Len(s) + 2)..Len(r)
      <4>1. k - 1 - Len(s) \in 1..Len(Plugins) /\ k = (k - 1 - Len(s)) + 1 + Len(s)
        BY <3>3, <1>1, <1>3
      <4>2. r[k] = Srv!Provider(Plugins[k - 1 - Len(s)], NoServer)
        BY <4>1, <1>3
      <4>3. r[k].id \in ToSet(Plugins)
        BY <1>1, <4>1, <4>2 DEF Srv!Provider, ToSet
      <4> QED BY <4>3, <2>1
    <3> QED BY <1>1, <1>3, <3>1, <3>2, <3>3
  <2>2. \A k, l \in DOMAIN s : s[k].id = s[l].id => k = l
    BY DEF Lists
  <2> QED BY <1>6, <2>1, <2>2
<1> QED BY <1>4, <1>5, <1>6 DEF ToSet

LEMMA FoundIs ==
  ASSUME NEW r, r \in Seq(ToSet(r)), NEW id, Srv!Named(r, id) # {}
  PROVE  Srv!Get(r, id) \in ToSet(r) /\ Srv!Get(r, id).id = id
<1> USE DEF ToSet
<1>1. Srv!Named(r, id) \subseteq DOMAIN r /\ DOMAIN r \subseteq Nat
  BY DEF Srv!Named
<1>2. \E x \in Srv!Named(r, id) : \A y \in Srv!Named(r, id) : x <= y
  BY <1>1, Smallest
<1>3. Min(Srv!Named(r, id)) \in Srv!Named(r, id)
  BY <1>2 DEF Min
<1>4. PICK k \in DOMAIN r : k = Min(Srv!Named(r, id)) /\ r[k].id = id
  BY <1>3 DEF Srv!Named
<1>5. Srv!Get(r, id) = r[k]
  BY <1>4 DEF Srv!Get, Srv!Min, Min
<1>6. r[k] \in ToSet(r)
  OBVIOUS
<1> QED BY <1>4, <1>5, <1>6

\* The list with one more, and with one less.
LEMMA ListGrows ==
  ASSUME NEW s \in Lists, NEW x \in Record, x.id \notin Srv!Ids(s)
  PROVE  Append(s, x) \in Lists /\ Srv!Ids(Append(s, x)) = Srv!Ids(s) \cup {x.id}
<1> DEFINE t == Append(s, x)
<1>1. /\ t \in Seq(Record) /\ Len(t) = Len(s) + 1 /\ DOMAIN t = DOMAIN s \cup {Len(s) + 1}
      /\ \A i \in DOMAIN s : t[i] = s[i]
      /\ t[Len(s) + 1] = x
  BY DEF Lists
<1> HIDE DEF t
<1>2. Srv!Ids(t) = Srv!Ids(s) \cup {x.id}
  BY <1>1 DEF Srv!Ids
<1>3. \A i \in DOMAIN s : s[i].id # x.id
  BY DEF Srv!Ids
<1>4. \A i, j \in DOMAIN t : t[i].id = t[j].id => i = j
  BY <1>1, <1>3 DEF Lists
<1> QED BY <1>1, <1>2, <1>4 DEF Lists, t

LEMMA ListShrinks ==
  ASSUME NEW s \in Lists, NEW i \in DOMAIN s
  PROVE  RemoveAt(s, i) \in Lists /\ Srv!Ids(RemoveAt(s, i)) = Srv!Ids(s) \ {s[i].id}
<1> DEFINE t == RemoveAt(s, i)
<1>1. s \in Seq(Record) /\ \A j, k \in DOMAIN s : s[j].id = s[k].id => j = k
  BY DEF Lists
<1>2. /\ t \in Seq(Record) /\ Len(t) = Len(s) - 1
      /\ \A j \in 1..Len(s) - 1 : t[j] = IF j < i THEN s[j] ELSE s[j + 1]
  <2>1. /\ SubSeq(s, 1, i - 1) \in Seq(Record) /\ Len(SubSeq(s, 1, i - 1)) = i - 1
        /\ \A j \in 1..i - 1 : SubSeq(s, 1, i - 1)[j] = s[j]
    BY <1>1
  <2>2. /\ SubSeq(s, i + 1, Len(s)) \in Seq(Record) /\ Len(SubSeq(s, i + 1, Len(s))) = Len(s) - i
        /\ \A j \in 1..Len(s) - i : SubSeq(s, i + 1, Len(s))[j] = s[j + i]
    BY <1>1
  <2> DEFINE a == SubSeq(s, 1, i - 1)
             b == SubSeq(s, i + 1, Len(s))
  <2>3. t = a \o b
    BY DEF RemoveAt
  <2> HIDE DEF a, b, t
  <2>4. a \in Seq(Record) /\ b \in Seq(Record)
    BY <2>1, <2>2 DEF a, b
  <2>5. /\ t \in Seq(Record) /\ Len(t) = Len(a) + Len(b)
        /\ \A j \in 1..Len(a) + Len(b) : t[j] = IF j <= Len(a) THEN a[j] ELSE b[j - Len(a)]
    BY <2>3, <2>4, ConcatProperties
  <2>6. /\ Len(a) = i - 1 /\ \A j \in 1..i - 1 : a[j] = s[j]
        /\ Len(b) = Len(s) - i /\ \A j \in 1..Len(s) - i : b[j] = s[j + i]
    BY <2>1, <2>2 DEF a, b
  <2>7. i \in Nat /\ Len(s) \in Nat /\ 1 <= i /\ i <= Len(s)
    BY <1>1
  <2>8. t \in Seq(Record) /\ Len(t) = Len(s) - 1
    BY <2>5, <2>6, <2>7
  <2>9. ASSUME NEW j \in 1..Len(s) - 1 PROVE t[j] = IF j < i THEN s[j] ELSE s[j + 1]
    <3>1. t[j] = IF j <= i - 1 THEN a[j] ELSE b[j - (i - 1)]
      <4>1. Len(a) = i - 1 /\ Len(b) = Len(s) - i
        BY <2>6
      <4>2. j \in 1..Len(a) + Len(b)
        BY <4>1, <2>7
      <4>3. t[j] = IF j <= Len(a) THEN a[j] ELSE b[j - Len(a)]
        BY <4>2, <2>5
      <4> QED BY <4>1, <4>3
    <3>2. CASE j < i
      BY <3>1, <3>2, <2>6, <2>7
    <3>3. CASE j >= i
      <4>1. j - (i - 1) \in 1..Len(s) - i /\ (j - (i - 1)) + i = j + 1
        BY <3>3, <2>7
      <4>2. t[j] = b[j - (i - 1)] /\ b[j - (i - 1)] = s[(j - (i - 1)) + i]
        <5>1. ~(j <= i - 1)
          BY <3>3, <2>7
        <5>2. \A k \in 1..Len(s) - i : b[k] = s[k + i]
          BY <2>6
        <5> QED BY <3>1, <4>1, <5>1, <5>2
      <4> QED BY <3>3, <4>1, <4>2, <2>7
    <3> QED BY <3>2, <3>3, <2>7
  <2> QED BY <2>8, <2>9
<1> HIDE DEF t
<1>3. \A j \in DOMAIN s : j # i => \E k \in DOMAIN t : t[k] = s[j]
  <2> TAKE j \in DOMAIN s
  <2> HAVE j # i
  <2>1. CASE j < i
    BY <1>1, <1>2, <2>1
  <2>2. CASE j > i
    <3>1. j - 1 \in DOMAIN t /\ t[j - 1] = s[j]
      BY <1>1, <1>2, <2>2
    <3> QED BY <3>1
  <2> QED BY <1>1, <2>1, <2>2
<1>4. \A k \in DOMAIN t : \E j \in DOMAIN s : j # i /\ t[k] = s[j]
  <2> TAKE k \in DOMAIN t
  <2>1. CASE k < i
    BY <1>1, <1>2, <2>1
  <2>2. CASE k >= i
    BY <1>1, <1>2, <2>2
  <2> QED BY <1>1, <1>2, <2>1, <2>2
<1>5. Srv!Ids(t) = Srv!Ids(s) \ {s[i].id}
  BY <1>1, <1>3, <1>4 DEF Srv!Ids
<1>6. ASSUME NEW j \in DOMAIN t, NEW k \in DOMAIN t, t[j].id = t[k].id PROVE j = k
  <2> DEFINE At(l) == IF l < i THEN l ELSE l + 1
  <2>1. \A l \in DOMAIN t : At(l) \in DOMAIN s /\ t[l] = s[At(l)] /\ l \in Nat
    BY <1>1, <1>2
  <2>2. At(j) = At(k)
    BY <1>1, <1>6, <2>1
  <2> QED BY <1>1, <2>1, <2>2
<1> QED BY <1>2, <1>5, <1>6 DEF Lists, t

\* What a process does next, if nothing else changes that it goes by.
LEMMA WorkGoesOn ==
  ASSUME Commands, NEW p \in Procs, NEW c, cmd' = [cmd EXCEPT ![p] = c], Working(p, c),
         UNCHANGED <<registry, calm, reported>>
  PROVE  Commands'
<1>1. /\ cmd' = [q \in Procs |-> cmd'[q]] /\ cmd'[p] = c
      /\ \A q \in Procs \ {p} : cmd'[q] = cmd[q]
  BY DEF Commands
<1>2. ASSUME NEW q \in Procs PROVE Working(q, cmd[q])'
  <2>1. Working(q, cmd'[q])
    BY <1>1, <1>2 DEF Commands
  <2> QED BY <2>1 DEF Working, Preparing, Prepared, Saving, Saved
<1> QED BY <1>1, <1>2 DEF Commands

LEMMA IdleFields ==
  /\ IsCmd(Srv!Idle) /\ Srv!Idle.pc = "idle" /\ Srv!Idle.op = "none"
  /\ IsCmd([Srv!Idle EXCEPT !.pc = "refresh"]) /\ [Srv!Idle EXCEPT !.pc = "refresh"].pc = "refresh"
  /\ [Srv!Idle EXCEPT !.pc = "refresh"].op = "none"
BY DEF Srv!Idle, IsCmd, CmdFields

LEMMA IdleIs == IsCmd(Srv!Idle) /\ \A p : Working(p, Srv!Idle)
<1>1. IsCmd(Srv!Idle)
  BY DEF Srv!Idle, IsCmd, CmdFields
<1> QED BY <1>1 DEF Srv!Idle, Working, Preparing, Saving

LEMMA NextPc ==
  ASSUME NEW c, IsCmd(c), NEW pc, NEW d, d = [c EXCEPT !.pc = pc]
  PROVE  /\ IsCmd(d) /\ d.pc = pc
         /\ \A f \in CmdFields \ {"pc"} : d[f] = c[f]
BY DEF IsCmd, CmdFields

\* The list a command pushes its record to, and what it was told.
LEMMA Pushes ==
  ASSUME NEW p, NEW c, IsCmd(c), c.op = "add", Prepared(c),
         NEW server \in Record, server.id = c.name
  PROVE  Working(p, Srv!Push(c, server))
<1> DEFINE d == Srv!Push(c, server)
<1>1. /\ IsCmd(d) /\ d.pc = "save" /\ d.servers = Append(c.servers, server)
      /\ d.op = c.op /\ d.name = c.name /\ d.stale = c.stale
  BY DEF IsCmd, CmdFields, Srv!Push
<1> HIDE DEF d
<1>2. d.servers \in Lists /\ Srv!Ids(d.servers) = Srv!Ids(c.servers) \cup {c.name}
  BY <1>1, ListGrows DEF Prepared
<1>3. Saved(d)
  BY <1>1, <1>2 DEF Saved, Prepared
<1> QED BY <1>1, <1>3 DEF Working, Preparing, d

LEMMA AfterHealths ==
  ASSUME NEW p, NEW c, IsCmd(c), c.op = "add", Prepared(c)
  PROVE  Working(p, Srv!AfterHealth(c))
<1>1. CASE c.server.kind = "jellyfin" /\ ~c.server.user
  <2> DEFINE d == [c EXCEPT !.pc = "me"]
  <2>1. IsCmd(d) /\ d.pc = "me" /\ \A f \in CmdFields \ {"pc"} : d[f] = c[f]
    BY DEF IsCmd, CmdFields
  <2>2. /\ d.op = "add" /\ d.servers = c.servers /\ d.server = c.server /\ d.name = c.name
        /\ d.stale = c.stale
    BY <2>1 DEF CmdFields
  <2> HIDE DEF d
  <2>3. Working(p, d)
    BY <2>1, <2>2 DEF Working, Preparing, Prepared, Saving
  <2> QED BY <1>1, <2>3 DEF Srv!AfterHealth, d
<1>2. CASE ~(c.server.kind = "jellyfin" /\ ~c.server.user)
  BY <1>2, Pushes DEF Srv!AfterHealth, Prepared
<1> QED BY <1>1, <1>2

LEMMA Prepares ==
  ASSUME NEW p, NEW c, IsCmd(c), c.op = "add", NEW server \in Record, server.id = c.name,
         c.servers \in Lists, c.name \notin Srv!Ids(c.servers),
         calm /\ ~c.stale => Srv!Ids(c.servers) = reported
  PROVE  Working(p, Srv!Prepare(c, server))
<1> DEFINE known == [c EXCEPT !.server = server, !.learned = server.user]
           health == [known EXCEPT !.pc = Srv!FirstOfHealth(server.kind)]
<1>1. /\ IsCmd(known) /\ known.op = "add" /\ known.server = server /\ known.servers = c.servers
      /\ known.name = c.name /\ known.stale = c.stale
  BY DEF IsCmd, CmdFields
<1>2. Prepared(known)
  BY <1>1 DEF Prepared
<1>3. CASE c.verify
  <2> HIDE DEF known
  <2>1. /\ IsCmd(health) /\ health.pc = Srv!FirstOfHealth(server.kind)
        /\ \A f \in CmdFields \ {"pc"} : health[f] = known[f]
    BY <1>1, NextPc
  <2>2. /\ health.op = "add" /\ health.servers = known.servers /\ health.server = known.server
        /\ health.name = known.name /\ health.stale = known.stale
    BY <1>1, <2>1 DEF CmdFields
  <2>3. health.pc \in {"ping", "public"}
    BY <2>1 DEF Srv!FirstOfHealth
  <2> HIDE DEF health
  <2>4. Working(p, health)
    BY <1>2, <2>1, <2>2, <2>3 DEF Working, Preparing, Prepared, Saving
  <2> QED BY <1>3, <2>4 DEF Srv!Prepare, known, health
<1>4. CASE ~c.verify
  BY <1>1, <1>2, <1>4, AfterHealths DEF Srv!Prepare
<1> QED BY <1>3, <1>4

(* One step of one command.                                                *)

LEMMA Authenticated ==
  ASSUME Commands, NEW p \in Procs, Srv!Authenticate(p), UNCHANGED <<registry, calm, reported>>
  PROVE  Commands'
<1> DEFINE c == cmd[p]
<1>1. Working(p, c) /\ c.pc = "authenticate"
  BY DEF Commands, Srv!Authenticate
<1>2. PICK user \in BOOLEAN :
        cmd' = [cmd EXCEPT ![p] = Srv!Prepare(c, [c.server EXCEPT !.user = user])]
  BY DEF Srv!Authenticate, Srv!Step
<1> HIDE DEF c
<1>3. IsCmd(c) /\ c.op = "add" /\ Prepared(c)
  BY <1>1 DEF Working, Preparing
<1>4. [c.server EXCEPT !.user = user] \in Record /\ [c.server EXCEPT !.user = user].id = c.name
  BY <1>3 DEF Prepared, Record
<1>5. Working(p, Srv!Prepare(c, [c.server EXCEPT !.user = user]))
  BY <1>3, <1>4, Prepares DEF Prepared
<1> QED BY <1>2, <1>5, WorkGoesOn

LEMMA FetchedUserId ==
  ASSUME Commands, NEW p \in Procs, Srv!FetchUserId(p), UNCHANGED <<registry, calm, reported>>
  PROVE  Commands'
<1> DEFINE c == cmd[p]
<1>1. Working(p, c) /\ c.pc = "me"
  BY DEF Commands, Srv!FetchUserId
<1>2. PICK user \in {FALSE, Srv!Accepts(c.server)} :
        cmd' = [cmd EXCEPT ![p] = Srv!Push(c, [c.server EXCEPT !.user = user])]
  BY DEF Srv!FetchUserId, Srv!Step
<1>3. user \in BOOLEAN
  BY <1>2 DEF Srv!Accepts
<1> HIDE DEF c
<1>4. IsCmd(c) /\ c.op = "add" /\ Prepared(c)
  BY <1>1 DEF Working, Preparing
<1>5. [c.server EXCEPT !.user = user] \in Record /\ [c.server EXCEPT !.user = user].id = c.name
  BY <1>3, <1>4 DEF Prepared, Record
<1>6. Working(p, Srv!Push(c, [c.server EXCEPT !.user = user]))
  BY <1>4, <1>5, Pushes
<1> QED BY <1>2, <1>6, WorkGoesOn

\* A health that goes on, and one that is done.
LEMMA HealthGoesOn ==
  ASSUME Commands, NEW p \in Procs, UNCHANGED <<registry, calm, reported>>,
         Srv!Ping(p) \/ Srv!PublicInfo(p) \/ Srv!UserId(p)
  PROVE  Commands'
<1> DEFINE c == cmd[p]
<1>1. Working(p, c) /\ c.pc \in {"ping", "public", "user"}
  BY DEF Commands, Srv!Ping, Srv!PublicInfo, Srv!UserId
<1>2. PICK pc \in {"user", "count"} : cmd' = [cmd EXCEPT ![p] = [c EXCEPT !.pc = pc]]
  BY DEF Srv!Ping, Srv!PublicInfo, Srv!UserId, Srv!Step
<1> DEFINE d == [c EXCEPT !.pc = pc]
<1> HIDE DEF c
<1>3. IsCmd(d) /\ d.pc = pc /\ \A f \in CmdFields \ {"pc"} : d[f] = c[f]
  BY <1>1 DEF Working, IsCmd, CmdFields
<1>4. /\ d.op = c.op /\ d.servers = c.servers /\ d.server = c.server /\ d.name = c.name
      /\ d.stale = c.stale
  BY <1>3 DEF CmdFields
<1> HIDE DEF d
<1>5. Working(p, d)
  BY <1>1, <1>2, <1>3, <1>4 DEF Working, Preparing, Prepared, Saving
<1> QED BY <1>2, <1>5, WorkGoesOn DEF d

LEMMA HealthIsDone ==
  ASSUME Commands, NEW p \in Procs, Srv!Healthy(p), UNCHANGED <<registry, calm, reported>>
  PROVE  Commands'
<1> DEFINE c == cmd[p]
<1>1. Working(p, c) /\ c.pc = "count"
  BY DEF Commands, Srv!Healthy
<1>2. cmd' = [cmd EXCEPT ![p] = IF c.op = "test" THEN Srv!Idle ELSE Srv!AfterHealth(c)]
  BY DEF Srv!Healthy, Srv!Step
<1> HIDE DEF c
<1>3. CASE c.op = "test"
  BY <1>2, <1>3, IdleIs, WorkGoesOn
<1>4. CASE c.op # "test"
  <2>1. IsCmd(c) /\ c.op = "add" /\ Prepared(c)
    BY <1>1, <1>4 DEF Working, Preparing
  <2> QED BY <1>2, <1>4, <2>1, AfterHealths, WorkGoesOn
<1> QED BY <1>3, <1>4

LEMMA Ends ==
  ASSUME Commands, NEW p \in Procs, Srv!Fail(p), UNCHANGED <<registry, calm, reported>>
  PROVE  Commands'
BY IdleIs, WorkGoesOn DEF Srv!Fail, Srv!Step

LEMMA NoCoverIs ==
  ASSUME Commands, NEW p \in Procs, Srv!NoCover(p), cmd[p].cover \in {"none", "orphan"},
         UNCHANGED <<registry, calm, reported>>
  PROVE  Commands'
<1> DEFINE d == [Srv!Idle EXCEPT !.pc = "none", !.cover = cmd[p].cover]
<1>1. IsCmd(d) /\ d.pc = "none" /\ d.cover = cmd[p].cover /\ d.op = "none"
  BY DEF Srv!Idle, IsCmd, CmdFields
<1> HIDE DEF d
<1>2. Working(p, d)
  BY <1>1 DEF Working, Preparing, Saving
<1> QED BY <1>2, WorkGoesOn DEF Srv!NoCover, Srv!Step, d

LEMMA CoverGoesOn ==
  ASSUME Commands, NEW p \in Procs, UNCHANGED <<registry, calm, reported>>,
         Srv!SubsonicArtwork(p) \/ Srv!JellyfinArtwork(p)
  PROVE  Commands'
<1> DEFINE c == cmd[p]
<1>1. Working(p, c)
  BY DEF Commands
<1>2. CASE Srv!Fail(p)
  BY <1>2, Ends
<1>3. CASE Srv!NoCover(p) /\ c.cover \in {"none", "orphan"}
  BY <1>3, NoCoverIs
<1>4. ASSUME NEW pc \in {"album", "albumCover"}, c.pc \in {"cover", "album"},
             c.cover \in {"album", "none", "orphan"}, Srv!Step(p, [c EXCEPT !.pc = pc])
      PROVE  Commands'
  <2> DEFINE d == [c EXCEPT !.pc = pc]
  <2>1. cmd' = [cmd EXCEPT ![p] = d]
    BY <1>4 DEF Srv!Step
  <2> HIDE DEF c
  <2>2. IsCmd(d) /\ d.pc = pc /\ d.op = c.op /\ d.cover = c.cover
    BY <1>1 DEF Working, IsCmd, CmdFields
  <2> HIDE DEF d
  <2>3. Working(p, d)
    BY <1>1, <1>4, <2>2 DEF Working, Preparing, Saving
  <2> QED BY <2>1, <2>3, WorkGoesOn
<1>5. \/ Srv!Fail(p)
      \/ Srv!NoCover(p) /\ c.cover \in {"none", "orphan"}
      \/ \E pc \in {"album", "albumCover"} :
           /\ c.pc \in {"cover", "album"} /\ c.cover \in {"album", "none", "orphan"}
           /\ Srv!Step(p, [c EXCEPT !.pc = pc])
  <2>1. CASE Srv!SubsonicArtwork(p)
    BY <2>1 DEF Srv!SubsonicArtwork
  <2>2. CASE Srv!JellyfinArtwork(p)
    <3>1. CASE c.pc = "cover"
      BY <1>1, <2>2, <3>1 DEF Working, Srv!JellyfinArtwork, Srv!AlbumOf, Srv!Covers
    <3>2. CASE c.pc = "album"
      BY <1>1, <2>2, <3>2 DEF Working, Srv!JellyfinArtwork, Srv!AlbumOf
    <3>3. CASE c.pc = "albumCover"
      BY <1>1, <2>2, <3>3 DEF Working, Srv!JellyfinArtwork, Srv!AlbumOf
    <3> QED BY <2>2, <3>1, <3>2, <3>3 DEF Srv!JellyfinArtwork, Srv!AlbumOf
  <2> QED BY <2>1, <2>2
<1> QED BY <1>2, <1>3, <1>4, <1>5

LEMMA RequestStep ==
  ASSUME Commands, NEW p \in Procs, Srv!Request(p)
  PROVE  Commands'
<1>1. UNCHANGED <<registry, calm, reported>>
  BY DEF Srv!Request, Srv!desktopVars, Srv!history
<1> QED BY <1>1, Authenticated, FetchedUserId, HealthGoesOn, HealthIsDone, CoverGoesOn, Ends
           DEF Srv!Request, Srv!SubsonicHealth, Srv!JellyfinHealth, Srv!RequestFails

(* A command begins.                                                       *)

LEMMA LoadedIs ==
  ASSUME Kept, Srv!LoadServers.ok
  PROVE  /\ Srv!LoadServers.servers = file /\ file \in Lists
         /\ calm => Srv!Ids(file) = reported
BY DEF Kept, Srv!LoadServers, Srv!FileIsAsReported

LEMMA AddBegins ==
  ASSUME SetupAssumption, ServersInv, NEW p \in Procs, Srv!AddServer(p)
  PROVE  Commands'
<1>1. PICK spec \in Srv!Specs :
        LET server == Srv!Server(spec.id, spec.kind, spec.url, spec.secret, FALSE)
            c == [Srv!Idle EXCEPT !.op = "add", !.verify = spec.verify, !.name = spec.id,
                    !.servers = Srv!LoadServers.servers, !.since = epoch[spec.url]]
        IN  /\ Srv!LoadServers.ok /\ spec.id \notin Srv!Ids(Srv!LoadServers.servers) \cup {"local"}
            /\ \/ Srv!Begin(p, Srv!Prepare(c, server))
               \/ Srv!Begin(p, [c EXCEPT !.pc = "authenticate", !.server = server])
  BY DEF Srv!AddServer
<1> DEFINE server == Srv!Server(spec.id, spec.kind, spec.url, spec.secret, FALSE)
           c == [Srv!Idle EXCEPT !.op = "add", !.verify = spec.verify, !.name = spec.id,
                    !.servers = Srv!LoadServers.servers, !.since = epoch[spec.url]]
           d == [c EXCEPT !.pc = "authenticate", !.server = server]
<1>2. /\ Srv!LoadServers.servers = file /\ file \in Lists /\ (calm => Srv!Ids(file) = reported)
      /\ spec.id \notin Srv!Ids(file) /\ spec.id # "local"
  BY <1>1, LoadedIs DEF ServersInv
<1>3. server \in Record /\ server.id = spec.id
  <2>1. spec.id \in Names /\ spec.kind \in {"subsonic", "jellyfin"} /\ spec.url \in Urls
        /\ spec.secret \in 0..MaxEpoch /\ MaxEpoch \in Nat
    BY DEF Srv!Specs, SetupAssumption, Srv!ServersAssumption
  <2> QED BY <1>2, <2>1 DEF Srv!Server, Record
<1>4. /\ IsCmd(c) /\ c.op = "add" /\ c.name = spec.id /\ c.servers = file /\ ~c.stale
  BY <1>2 DEF Srv!Idle, IsCmd, CmdFields
<1>5. /\ IsCmd(d) /\ d.pc = "authenticate" /\ d.op = "add" /\ d.name = spec.id /\ d.servers = file
      /\ d.server = server /\ ~d.stale
  BY <1>2 DEF Srv!Idle, IsCmd, CmdFields
<1>6. /\ \/ cmd' = [cmd EXCEPT ![p] = Srv!Prepare(c, server)]
         \/ cmd' = [cmd EXCEPT ![p] = d]
      /\ UNCHANGED <<registry, calm, reported>>
  BY <1>1 DEF Srv!Begin, Srv!Step, Srv!desktopVars, Srv!history
<1> HIDE DEF server, c, d
<1>7. Working(p, Srv!Prepare(c, server))
  BY <1>2, <1>3, <1>4, Prepares
<1>8. Working(p, d)
  BY <1>2, <1>3, <1>5 DEF Working, Preparing, Prepared, Saving
<1> QED BY <1>6, <1>7, <1>8, WorkGoesOn DEF ServersInv

LEMMA RemoveBegins ==
  ASSUME ServersInv, NEW p \in Procs, Srv!RemoveServer(p)
  PROVE  Commands'
<1>1. PICK i \in DOMAIN Srv!LoadServers.servers :
        Srv!Begin(p, [Srv!Idle EXCEPT !.op = "remove", !.pc = "save",
                        !.name = Srv!LoadServers.servers[i].id,
                        !.servers = RemoveAt(Srv!LoadServers.servers, i)])
  BY DEF Srv!RemoveServer, Srv!RemoveAt, RemoveAt
<1>2. Srv!LoadServers.servers = file /\ file \in Lists /\ (calm => Srv!Ids(file) = reported)
  <2>1. file # Torn
    BY <1>1 DEF Srv!LoadServers
  <2> QED BY <2>1, LoadedIs DEF ServersInv, Srv!LoadServers
<1> DEFINE d == [Srv!Idle EXCEPT !.op = "remove", !.pc = "save", !.name = file[i].id,
                                 !.servers = RemoveAt(file, i)]
<1>3. RemoveAt(file, i) \in Lists /\ Srv!Ids(RemoveAt(file, i)) = Srv!Ids(file) \ {file[i].id}
  BY <1>1, <1>2, ListShrinks
<1>4. cmd' = [cmd EXCEPT ![p] = d] /\ UNCHANGED <<registry, calm, reported>>
  BY <1>1, <1>2 DEF Srv!Begin, Srv!Step, Srv!desktopVars, Srv!history
<1>5. /\ IsCmd(d) /\ d.op = "remove" /\ d.pc = "save" /\ d.name = file[i].id
      /\ d.servers = RemoveAt(file, i)
  BY DEF Srv!Idle, IsCmd, CmdFields
<1> HIDE DEF d
<1>6. Saved(d)
  BY <1>2, <1>3, <1>5 DEF Saved
<1>7. Working(p, d)
  BY <1>5, <1>6 DEF Working, Preparing
<1> QED BY <1>4, <1>7, WorkGoesOn DEF ServersInv

LEMMA TestBegins ==
  ASSUME SetupAssumption, ServersInv, Srv!TestProvider \/ Srv!FetchCover
  PROVE  Commands'
<1>1. PICK d : /\ Srv!Begin(Desktop, d) /\ IsCmd(d)
               /\ \/ d.op = "test" /\ d.pc \in {"ping", "public"}
                  \/ d.op = "cover" /\ d.pc = "cover" /\ d.cover \in Srv!Covers
  <2>1. CASE Srv!TestProvider
    <3>1. PICK server : Srv!Begin(Desktop,
            [Srv!Idle EXCEPT !.op = "test", !.pc = Srv!FirstOfHealth(server.kind),
               !.server = server, !.learned = server.user, !.since = epoch[server.url]])
      BY <2>1 DEF Srv!TestProvider
    <3> DEFINE d == [Srv!Idle EXCEPT !.op = "test", !.pc = Srv!FirstOfHealth(server.kind),
                       !.server = server, !.learned = server.user, !.since = epoch[server.url]]
    <3>2. IsCmd(d) /\ d.op = "test" /\ d.pc = Srv!FirstOfHealth(server.kind)
      BY DEF Srv!Idle, IsCmd, CmdFields
    <3>3. Srv!FirstOfHealth(server.kind) \in {"ping", "public"}
      BY DEF Srv!FirstOfHealth
    <3> HIDE DEF d
    <3> QED BY <3>1, <3>2, <3>3 DEF d
  <2>2. CASE Srv!FetchCover
    <3>1. PICK cover \in Srv!Covers, i \in DOMAIN registry : Srv!Begin(Desktop,
            [Srv!Idle EXCEPT !.op = "cover", !.pc = "cover", !.cover = cover,
                             !.server = registry[i].server])
      BY <2>2 DEF Srv!FetchCover
    <3> DEFINE d == [Srv!Idle EXCEPT !.op = "cover", !.pc = "cover", !.cover = cover,
                                     !.server = registry[i].server]
    <3>2. IsCmd(d) /\ d.op = "cover" /\ d.pc = "cover" /\ d.cover = cover
      BY DEF Srv!Idle, IsCmd, CmdFields
    <3> HIDE DEF d
    <3> QED BY <3>1, <3>2 DEF d
  <2> QED BY <2>1, <2>2
<1>2. cmd' = [cmd EXCEPT ![Desktop] = d] /\ UNCHANGED <<registry, calm, reported>>
  BY <1>1 DEF Srv!Begin, Srv!Step, Srv!desktopVars, Srv!history
<1>3. Working(Desktop, d)
  BY <1>1 DEF Working, Preparing, Saving
<1> QED BY <1>2, <1>3, WorkGoesOn DEF ServersInv, SetupAssumption, Srv!ServersAssumption

(* The search.                                                             *)

LEMMA PlayBegins ==
  ASSUME SetupAssumption, ServersInv, Srv!Play
  PROVE  Commands'
<1>1. PICK hits \in Srv!SearchCatalog :
        Srv!Begin(Desktop, [Srv!Idle EXCEPT !.op = "play", !.pc = "search", !.hits = hits,
                              !.servers = IF hits = <<>> THEN registry ELSE <<>>])
  BY DEF Srv!Play
<1> DEFINE d == [Srv!Idle EXCEPT !.op = "play", !.pc = "search", !.hits = hits,
                              !.servers = IF hits = <<>> THEN registry ELSE <<>>]
<1>2. registry \in Seq(ToSet(registry)) /\ Srv!Named(registry, "local") # {}
  BY RegistryIs DEF ServersInv, Kept, Registries
<1>3. hits \in Seq(Items(registry))
  <2>1. Srv!Item(Srv!Get(registry, "local")) \in Items(registry)
    BY <1>2, FoundIs DEF Items
  <2>2. CASE hits = <<>>
    BY <2>2
  <2>3. CASE hits = <<Srv!Item(Srv!Get(registry, "local"))>>
    BY <2>1, <2>3
  <2> QED BY <1>1, <2>2, <2>3 DEF Srv!SearchCatalog
<1>4. cmd' = [cmd EXCEPT ![Desktop] = d] /\ UNCHANGED <<registry, calm, reported>>
  BY <1>1 DEF Srv!Begin, Srv!Step, Srv!desktopVars, Srv!history
<1>5. /\ IsCmd(d) /\ d.op = "play" /\ d.pc = "search" /\ d.hits = hits
      /\ d.servers = IF hits = <<>> THEN registry ELSE <<>>
  BY DEF Srv!Idle, IsCmd, CmdFields
<1> HIDE DEF d
<1>6. d.servers \in Seq(ToSet(registry))
  BY <1>2, <1>5
<1>7. Working(Desktop, d)
  BY <1>3, <1>5, <1>6 DEF Working, Preparing, Saving
<1> QED BY <1>4, <1>7, WorkGoesOn DEF ServersInv, SetupAssumption, Srv!ServersAssumption

\* What a provider lists has its name.
LEMMA SearchIs ==
  ASSUME NEW provider, NEW hits \in Srv!Search(provider)
  PROVE  hits \in Seq({Srv!Item(provider)})
<1>1. \/ hits \in Srv!OtherSearch(provider)
      \/ \E entries \in Srv!Entries : hits = Srv!IntoTracks(provider, entries)
  BY DEF Srv!Search, Srv!SubsonicSearch, Srv!JellyfinSearch
<1>2. CASE hits \in Srv!OtherSearch(provider)
  <2>1. CASE hits = <<>>
    BY <2>1
  <2>2. CASE hits = <<Srv!Item(provider)>>
    BY <2>2
  <2> QED BY <1>2, <2>1, <2>2 DEF Srv!OtherSearch
<1>3. ASSUME NEW entries \in Srv!Entries, hits = Srv!IntoTracks(provider, entries)
      PROVE  hits \in Seq({Srv!Item(provider)})
  <2> DEFINE whole == {j \in DOMAIN entries : entries[j] = "whole"}
  <2>1. whole \subseteq 1..2
    BY DEF Srv!Entries
  <2>2. Cardinality(whole) \in Nat
    <3>1. IsFiniteSet(1..2)
      <4>1. 1 \in Int /\ 2 \in Int
        OBVIOUS
      <4> QED BY <4>1, FS_Interval
    <3> QED BY <2>1, <3>1, FS_Subset, FS_CardinalityType
  <2>3. hits = [i \in 1..Cardinality(whole) |-> Srv!Item(provider)]
    BY <1>3 DEF Srv!IntoTracks, Srv!Cardinality, Cardinality
  <2> HIDE DEF whole
  <2> QED BY <2>2, <2>3
<1> QED BY <1>1, <1>2, <1>3

LEMMA SearchGoesOn ==
  ASSUME SetupAssumption, ServersInv, Srv!SearchOne
  PROVE  Commands'
<1> DEFINE c == cmd[Desktop]
           first == Head(c.servers)
<1>1. /\ Desktop \in Procs /\ Working(Desktop, c) /\ c.pc = "search" /\ c.servers # <<>>
      /\ UNCHANGED <<registry, calm, reported>>
  BY DEF ServersInv, Commands, Srv!SearchOne, SetupAssumption, Srv!ServersAssumption,
         Srv!desktopVars, Srv!history
<1>2. CASE Srv!Fail(Desktop)
  BY <1>1, <1>2, Ends DEF ServersInv
<1>3. ASSUME NEW hits \in Srv!Search(first),
             Srv!Step(Desktop, [c EXCEPT !.servers = Tail(@), !.hits = @ \o hits])
      PROVE  Commands'
  <2> DEFINE d == [c EXCEPT !.servers = Tail(@), !.hits = @ \o hits]
  <2>1. cmd' = [cmd EXCEPT ![Desktop] = d]
    BY <1>3 DEF Srv!Step
  <2>2. /\ IsCmd(c) /\ c.op = "play" /\ c.servers \in Seq(ToSet(registry))
        /\ c.hits \in Seq(Items(registry))
    BY <1>1 DEF Working
  <2>3. first \in ToSet(registry) /\ Tail(c.servers) \in Seq(ToSet(registry))
    BY <1>1, <2>2
  <2>4. hits \in Seq({Srv!Item(first)})
    BY <1>3, SearchIs
  <2>5. c.hits \o hits \in Seq(Items(registry))
    <3>1. {Srv!Item(first)} \subseteq Items(registry)
      BY <2>3 DEF Items
    <3> HIDE DEF c, first
    <3>2. hits \in Seq(Items(registry))
      BY <2>4, <3>1
    <3> QED BY <2>2, <3>2, ConcatProperties
  <2> HIDE DEF c
  <2>6. /\ IsCmd(d) /\ d.op = "play" /\ d.pc = "search" /\ d.servers = Tail(c.servers)
        /\ d.hits = c.hits \o hits
    BY <1>1, <2>2 DEF IsCmd, CmdFields
  <2> HIDE DEF d
  <2>7. Working(Desktop, d)
    BY <2>3, <2>5, <2>6 DEF Working, Preparing, Saving
  <2> QED BY <1>1, <2>1, <2>7, WorkGoesOn DEF ServersInv
<1> QED BY <1>2, <1>3 DEF Srv!SearchOne

(* The file, and what the desktop reads of it.                             *)

LEMMA CutStep ==
  ASSUME Commands, NEW p \in Procs, Srv!Cut(p)
  PROVE  Commands'
<1> DEFINE c == cmd[p]
           d == [c EXCEPT !.pc = "write"]
<1>1. /\ Working(p, c) /\ c.pc = "save" /\ cmd' = [cmd EXCEPT ![p] = d]
      /\ UNCHANGED <<registry, calm, reported>>
  BY DEF Commands, Srv!Cut, Srv!Step, Srv!desktopVars, Srv!history
<1> HIDE DEF c
<1>2. /\ IsCmd(d) /\ d.pc = "write" /\ d.op = c.op /\ d.servers = c.servers
      /\ d.name = c.name /\ d.stale = c.stale
  BY <1>1 DEF Working, IsCmd, CmdFields
<1> HIDE DEF d
<1>3. Working(p, d)
  BY <1>1, <1>2 DEF Working, Preparing, Saving, Saved
<1> QED BY <1>1, <1>3, WorkGoesOn

\* What was read before the file was written is old.
LEMMA WriteStep ==
  ASSUME ServersInv, NEW p \in Procs, Srv!Write(p)
  PROVE  ServersInv'
<1> DEFINE c == cmd[p]
<1>1. /\ Working(p, c) /\ c.pc = "write" /\ Saved(c)
      /\ file' = c.servers /\ UNCHANGED <<registry, player>>
  BY DEF ServersInv, Commands, Working, Saving, Srv!Write, Srv!desktopVars
<1>2. c.op \in {"add", "remove"} /\ c.servers \in Lists
  BY <1>1 DEF Saved
<1>3. CASE Srv!Fail(p) /\ calm' = FALSE
  <2>1. cmd' = [cmd EXCEPT ![p] = Srv!Idle]
    BY <1>3 DEF Srv!Fail, Srv!Step
  <2>2. ASSUME NEW q \in Procs PROVE Working(q, cmd[q])'
    <3>1. CASE q = p
      <4>1. cmd'[q] = Srv!Idle
        BY <2>1, <3>1 DEF ServersInv, Commands
      <4> QED BY <4>1, IdleFields DEF Working, Preparing, Saving
    <3>2. CASE q # p
      <4>1. cmd'[q] = cmd[q] /\ Working(q, cmd[q])
        BY <2>1, <3>2 DEF ServersInv, Commands
      <4> QED BY <1>1, <1>3, <4>1 DEF Working, Preparing, Prepared, Saving, Saved
    <3> QED BY <3>1, <3>2
  <2>3. cmd' = [q \in Procs |-> cmd'[q]]
    BY <2>1 DEF ServersInv, Commands
  <2> QED BY <1>1, <1>2, <1>3, <2>2, <2>3
             DEF ServersInv, Commands, Kept, Srv!FileIsAsReported
<1>4. CASE /\ cmd' = [q \in Procs |-> IF q # p THEN Srv!Outdated(q)
                                       ELSE IF p = Desktop THEN [Srv!Idle EXCEPT !.pc = "refresh"]
                                       ELSE Srv!Idle]
           /\ reported' = IF c.op = "add" THEN reported \cup {c.name} ELSE reported \ {c.name}
           /\ calm' = (calm /\ ~c.stale)
  <2>1. ASSUME NEW q \in Procs PROVE Working(q, cmd[q])'
    <3>1. CASE q = p
      <4>1. /\ IsCmd(cmd'[q]) /\ cmd'[q].pc \in {"idle", "refresh"} /\ cmd'[q].op = "none"
        <5>1. cmd'[q] \in {Srv!Idle, [Srv!Idle EXCEPT !.pc = "refresh"]}
          BY <1>4, <3>1
        <5> QED BY <5>1, IdleFields
      <4> QED BY <4>1 DEF Working, Preparing, Saving
    <3>2. CASE q # p
      <4> DEFINE e == cmd[q]
                 d == [e EXCEPT !.stale = TRUE]
      <4>1. cmd'[q] = IF e.pc = "idle" THEN e ELSE d
        BY <1>4, <3>2 DEF Srv!Outdated
      <4>2. Working(q, e)
        BY DEF ServersInv, Commands
      <4> HIDE DEF e
      <4>3. CASE e.pc = "idle"
        BY <4>1, <4>2, <4>3 DEF Working, Preparing, Saving
      <4>4. CASE e.pc # "idle"
        <5>1. /\ IsCmd(d) /\ d.stale = TRUE /\ d.pc = e.pc /\ d.op = e.op /\ d.servers = e.servers
              /\ d.server = e.server /\ d.name = e.name /\ d.hits = e.hits /\ d.cover = e.cover
          BY <4>2 DEF Working, IsCmd, CmdFields
        <5>2. cmd'[q] = d
          BY <4>1, <4>4
        <5> HIDE DEF d
        <5> QED BY <1>1, <4>2, <5>1, <5>2 DEF Working, Preparing, Prepared, Saving, Saved
      <4> QED BY <4>3, <4>4
    <3> QED BY <3>1, <3>2
  <2>2. calm' => Srv!Ids(file') = reported'
    BY <1>1, <1>2, <1>4 DEF Saved
  <2>3. cmd' = [q \in Procs |-> cmd'[q]]
    BY <1>4
  <2>4. Srv!Ids(file)' = Srv!Ids(file')
    BY DEF Srv!Ids
  <2>5. Kept'
    BY <1>1, <1>2, <2>2, <2>4 DEF ServersInv, Kept, Srv!FileIsAsReported
  <2> QED BY <2>1, <2>3, <2>5 DEF ServersInv, Commands
<1> QED BY <1>3, <1>4 DEF Srv!Write

\* The registry is of the list that was read; no search is under way.
LEMMA RefreshStep ==
  ASSUME SetupAssumption, ServersInv, Srv!RefreshRegistry
  PROVE  ServersInv'
<1>1. /\ Desktop \in Procs /\ cmd[Desktop].pc = "refresh" /\ cmd' = [cmd EXCEPT ![Desktop] = Srv!Idle]
      /\ UNCHANGED <<file, player, reported, calm>>
      /\ registry' = IF Srv!LoadServers.ok THEN Srv!RegistryOf(Srv!LoadServers.servers) ELSE registry
  BY DEF Srv!RefreshRegistry, Srv!Fail, Srv!Step, Srv!history, SetupAssumption, Srv!ServersAssumption
<1>2. registry' \in Registries
  BY <1>1, LoadedIs DEF ServersInv, Kept, Registries
<1>3. ASSUME NEW q \in Procs PROVE Working(q, cmd[q])'
  <2>1. CASE q = Desktop
    <3>1. cmd'[q] = Srv!Idle
      BY <1>1, <2>1 DEF ServersInv, Commands
    <3> QED BY <3>1, IdleFields DEF Working, Preparing, Saving
  <2>2. CASE q # Desktop
    <3>1. cmd'[q] = cmd[q] /\ Working(q, cmd[q])
      BY <1>1, <2>2 DEF ServersInv, Commands
    <3> QED BY <1>1, <2>2, <3>1 DEF Working, Preparing, Prepared, Saving, Saved
  <2> QED BY <2>1, <2>2
<1>4. cmd' = [q \in Procs |-> cmd'[q]]
  BY <1>1 DEF ServersInv, Commands
<1>5. Kept'
  BY <1>1, <1>2 DEF ServersInv, Kept, Registries, Lists, Srv!FileIsAsReported
<1> QED BY <1>3, <1>4, <1>5 DEF ServersInv, Commands

LEMMA PlayStep ==
  ASSUME SetupAssumption, ServersInv, Srv!FinishPlay
  PROVE  ServersInv'
<1> DEFINE c == cmd[Desktop]
<1>1. /\ Desktop \in Procs /\ Working(Desktop, c) /\ c.pc = "search" /\ Srv!Fail(Desktop)
      /\ UNCHANGED <<file, registry, reported, calm>>
      /\ \/ player' = player
         \/ /\ c.hits # <<>>
            /\ \E queue \in {c.hits, <<c.hits[1]>>} : player' = [providers |-> registry, queue |-> queue]
  BY DEF Srv!FinishPlay, ServersInv, Commands, Srv!history, SetupAssumption, Srv!ServersAssumption
<1>2. Commands'
  BY <1>1, Ends DEF ServersInv
<1>3. CASE player' = player
  BY <1>1, <1>2, <1>3 DEF ServersInv, Kept, Srv!FileIsAsReported
<1>4. CASE /\ c.hits # <<>>
           /\ \E queue \in {c.hits, <<c.hits[1]>>} : player' = [providers |-> registry, queue |-> queue]
  <2>1. c.hits \in Seq(Items(registry))
    BY <1>1 DEF Working
  <2>2. <<c.hits[1]>> \in Seq(Items(registry))
    BY <1>4, <2>1
  <2>3. PICK queue \in Seq(Items(registry)) : player' = [providers |-> registry, queue |-> queue]
    BY <1>4, <2>1, <2>2
  <2>4. Kept'
    BY <1>1, <2>3 DEF ServersInv, Kept, Srv!FileIsAsReported
  <2> QED BY <1>2, <2>4 DEF ServersInv
<1> QED BY <1>1, <1>3, <1>4

LEMMA ServersInit == SetupAssumption /\ Srv!Init => ServersInv
<1> SUFFICES ASSUME SetupAssumption, Srv!Init PROVE ServersInv
  OBVIOUS
<1>1. Commands
  BY IdleIs DEF Srv!Init, Commands
<1>2. file \in Lists
  <2>1. CASE file = <<>>
    BY <2>1 DEF Lists
  <2>2. CASE \E id \in ToSet(Plugins), u \in Older :
               file = <<Srv!Server(id, KindOf[u], u, 0, FALSE)>>
    <3>1. PICK id \in ToSet(Plugins), u \in Older :
            file = <<Srv!Server(id, KindOf[u], u, 0, FALSE)>>
      BY <2>2
    <3> DEFINE x == Srv!Server(id, KindOf[u], u, 0, FALSE)
    <3>2. x \in Record
      BY DEF Record, Srv!Server, SetupAssumption, Srv!ServersAssumption
    <3> HIDE DEF x
    <3>3. <<x>> \in Lists
      BY <3>2 DEF Lists
    <3> QED BY <3>1, <3>3 DEF x
  <2> QED BY <2>1, <2>2 DEF Srv!Init, Srv!ToSet, ToSet
<1>3. registry \in Registries /\ player = [providers |-> registry, queue |-> <<>>]
  BY <1>2 DEF Srv!Init, Registries
<1>4. Srv!FileIsAsReported
  BY DEF Srv!Init, Srv!FileIsAsReported
<1>5. Kept
  BY <1>2, <1>3, <1>4 DEF Kept
<1> QED BY <1>1, <1>5 DEF ServersInv

LEMMA ServersStay ==
  ASSUME ServersInv, UNCHANGED <<file, cmd, registry, player, reported, calm>>
  PROVE  ServersInv'
<1>1. \A p : Working(p, cmd[p])' <=> Working(p, cmd[p])
  BY DEF Working, Preparing, Prepared, Saving, Saved
<1>2. Commands'
  BY <1>1 DEF ServersInv, Commands
<1>3. Kept'
  BY DEF ServersInv, Kept, Srv!FileIsAsReported
<1> QED BY <1>2, <1>3 DEF ServersInv

\* What leaves alone what the file, the registry and the queue are.
LEMMA KeptStays ==
  ASSUME Kept, UNCHANGED <<registry, player, reported, calm>>,
         file' = file \/ file' = Torn
  PROVE  Kept'
BY DEF Kept, Srv!FileIsAsReported, Srv!Ids

LEMMA ServersStep ==
  ASSUME SetupAssumption, ServersInv, Srv!Next
  PROVE  ServersInv'
<1> USE DEF Srv!desktopVars, Srv!history
<1>0. Commands /\ Kept /\ Desktop \in Procs
  BY DEF ServersInv, SetupAssumption, Srv!ServersAssumption
<1>1. CASE \E u \in Urls : Srv!Revoke(u)
  BY <1>1, ServersStay DEF Srv!Revoke
<1>2. ASSUME NEW p \in Procs, Srv!AddServer(p) \/ Srv!RemoveServer(p) \/ Srv!Request(p) \/ Srv!Cut(p)
      PROVE  ServersInv'
  <2>1. Commands'
    BY <1>0, <1>2, AddBegins, RemoveBegins, RequestStep, CutStep
  <2>2. UNCHANGED <<registry, player, reported, calm>> /\ (file' = file \/ file' = Torn)
    BY <1>2 DEF Srv!AddServer, Srv!RemoveServer, Srv!Request, Srv!Cut, Srv!Begin
  <2> QED BY <1>0, <2>1, <2>2, KeptStays DEF ServersInv
<1>3. ASSUME NEW p \in Procs, Srv!SaveFails(p) PROVE ServersInv'
  <2>1. Srv!Fail(p) /\ UNCHANGED <<registry, player, reported, calm, file>>
    BY <1>3 DEF Srv!SaveFails
  <2> QED BY <1>0, <2>1, Ends, KeptStays DEF ServersInv
<1>4. CASE Srv!TakeCover
  <2>1. Srv!Fail(Desktop) /\ UNCHANGED <<registry, player, reported, calm, file>>
    BY <1>4 DEF Srv!TakeCover
  <2> QED BY <1>0, <2>1, Ends, KeptStays DEF ServersInv
<1>5. CASE Srv!TestProvider \/ Srv!FetchCover \/ Srv!Play \/ Srv!SearchOne
  <2>1. Commands'
    BY <1>5, TestBegins, PlayBegins, SearchGoesOn
  <2>2. UNCHANGED <<registry, player, reported, calm, file>>
    BY <1>5 DEF Srv!TestProvider, Srv!FetchCover, Srv!Play, Srv!SearchOne, Srv!Begin
  <2> QED BY <1>0, <2>1, <2>2, KeptStays DEF ServersInv
<1> QED BY <1>1, <1>2, <1>3, <1>4, <1>5, WriteStep, RefreshStep, PlayStep DEF Srv!Next, Srv!ProviderCommand

\* The registry's invariant, of every step of its parts.
LEMMA ServersHold == SpecSetup => []ServersInv
<1>1. InitSetup => ServersInv
  BY ServersInit, SetupAssumption DEF InitSetup
<1>2. ServersInv /\ [NextSetup]_setupVars => ServersInv'
  <2> SUFFICES ASSUME ServersInv, [NextSetup]_setupVars PROVE ServersInv'
    OBVIOUS
  <2>1. CASE Srv!Next
    BY <2>1, ServersStep, SetupAssumption
  <2>2. CASE UNCHANGED serversVars
    BY <2>2, ServersStay DEF serversVars
  <2> QED BY <2>1, <2>2 DEF NextSetup, setupVars
<1> QED BY <1>1, <1>2, PTL DEF SpecSetup

LEMMA PlayedIsListed == SetupAssumption /\ ServersInv => Srv!PlaysWhatWasListed
<1> SUFFICES ASSUME SetupAssumption, ServersInv, NEW i \in DOMAIN player.queue,
                    player.queue[i].provider \notin ToSet(Plugins)
             PROVE  Srv!ResolveSource(player.queue[i]) = Srv!SourceOf(player.queue[i].from)
  BY DEF Srv!PlaysWhatWasListed, Srv!ToSet, ToSet
<1> DEFINE r == player.providers
           item == player.queue[i]
<1>1. PICK s \in Lists : r = Srv!RegistryOf(s)
  BY DEF ServersInv, Kept, Registries
<1>2. PICK x \in ToSet(r) : item = Srv!Item(x)
  BY DEF ServersInv, Kept, Items
<1>3. /\ r \in Seq(ToSet(r))
      /\ \A y, z \in ToSet(r) : y.id = z.id /\ y.id \notin ToSet(Plugins) => y = z
  BY <1>1, RegistryIs
<1>4. item.provider = x.id /\ item.from = x
  BY <1>2 DEF Srv!Item
<1> HIDE DEF r, item
<1>5. Srv!Named(r, x.id) # {}
  BY <1>2, <1>3 DEF Srv!Named, ToSet
<1>6. Srv!Get(r, x.id) \in ToSet(r) /\ Srv!Get(r, x.id).id = x.id
  BY <1>3, <1>5, FoundIs
<1>7. Srv!Get(r, x.id) = x
  BY <1>2, <1>3, <1>4, <1>6 DEF item
<1> QED BY <1>4, <1>5, <1>7 DEF Srv!ResolveSource, r, item

\* What is said and done of a server is so.
THEOREM ToldHolds == SpecSetup => []ServersAreAsTold
<1>1. ServersInv => Srv!NoneMeansNone
  BY DEF ServersInv, Commands, Working, Srv!NoneMeansNone
<1>2. ServersInv => ServersAreAsTold
  BY <1>1, PlayedIsListed, SetupAssumption DEF ServersAreAsTold, Srv!ServersAreAsTold, ServersInv, Kept
<1> QED BY <1>2, ServersHold, PTL
=============================================================================
