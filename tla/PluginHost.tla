----------------------------- MODULE PluginHost -----------------------------
(***************************************************************************)
(* What a plugin's script may do, and what the program takes from it: the  *)
(* gates of plugin/host.rs, the load and the calls of plugin/script.rs,    *)
(* and the functions of PluginProvider (plugin/mod.rs) that check an       *)
(* answer before they pass it on.                                          *)
(*                                                                         *)
(* One engine, from its load to its end; PluginProvider has the restarts   *)
(* and the threads.  An address is as in Manifest, its path left out.      *)
(* Time is counted from the start of the load or the call; a script's own  *)
(* computing takes time too.  The store of a plugin is in PluginProvider.  *)
(***************************************************************************)
EXTENDS Naturals, FiniteSets

CONSTANTS
  None,
  Manifests,      \* what the manifest may say the plugin can do
  Net,            \* permissions.net of the manifest
  Addresses,      \* addresses the script and the services know
  Locations,      \* values of a Location header
  Secrets,        \* keys of the plugin's own secrets
  Required,       \* names in "requires"
  StartTimeout, CallTimeout,  \* START_TIMEOUT, CALL_TIMEOUT
  PluginTimeout,  \* PLUGIN_TIMEOUT, of one request
  MaxRedirects,   \* MAX_REDIRECTS
  MaxFiles        \* bound of the model: secret files written

PluginHostAssumption ==
  /\ StartTimeout \in Nat /\ CallTimeout \in Nat
  /\ PluginTimeout \in Nat \ {0}

Man == INSTANCE Manifest WITH PluginApi <- 3, BadNames <- {}, Platforms <- {}

VARIABLES
  caps,      \* what the manifest says the plugin can do
  engine,    \* "off", "loading", "idle", "running", "gone"
  work,      \* the function that is called, "load" while the module is evaluated
  door,      \* the gate the script stands in
  spent,     \* time since the load or the call began
  held,      \* a tool's own child kept its output open during this call
  proven,    \* the tools whose hash was found right
  onDisk,    \* the tools that are what the manifest says, as of now
  secretFiles, \* those this engine knows of
  leftovers, \* secret files on disk
  written,   \* how many were begun
  reached,   \* history: the address last asked, or handed to the player
  answer     \* what the last call came to

vars == <<caps, engine, work, door, spent, held, proven, onDisk, secretFiles, leftovers, written,
          reached, answer>>

script == [at |-> "script", url |-> None, method |-> "GET", body |-> FALSE, hop |-> 0]

Functions == {"health", "search", "resolve_source", "artwork"}

\* parse_capabilities and the artwork declaration; every plugin has a health.
Capabilities(manifest) == manifest \cap {"search", "resolve_source", "artwork"}

Init ==
  /\ caps \in {Capabilities(m) : m \in Manifests}
  /\ engine = "off" /\ work = "load" /\ door = script /\ spent = 0 /\ held = FALSE
  /\ proven = {} /\ onDisk \in SUBSET Required
  /\ secretFiles = {} /\ leftovers = {} /\ written = 0
  /\ reached = None /\ answer = "none"

---------------------------------------------------------------------------
(* The load and the calls.                                                 *)

Loading == work = "load"

InScript == engine \in {"loading", "running"} /\ door = script

Limit == IF Loading THEN StartTimeout ELSE CallTimeout

\* HostState::remaining.
Left == IF spent >= Limit THEN 0 ELSE Limit - spent

BeginLoad ==
  /\ engine = "off"
  /\ engine' = "loading" /\ work' = "load" /\ spent' = 0
  /\ UNCHANGED <<caps, door, held, proven, onDisk, secretFiles, leftovers, written, reached, answer>>

\* HostState is dropped, and the secret files it knows of with it.
Drop == leftovers' = leftovers \ secretFiles

Ends ==
  /\ engine' = "gone" /\ door' = script /\ secretFiles' = {}
  /\ Drop

\* The functions the script exports are those its capabilities need; without
\* one of them the contract is broken.
CheckExports(exported) == caps \cup {"health"} \subseteq exported

LoadEnds ==
  /\ InScript /\ Loading
  /\ \/ \E exported \in SUBSET Functions :
          IF CheckExports(exported)
          THEN engine' = "idle" /\ UNCHANGED <<answer, door, secretFiles, leftovers>>
          ELSE answer' = "contract" /\ Ends
     \/ answer' = "threw" /\ Ends
  /\ UNCHANGED <<caps, work, spent, held, proven, onDisk, written, reached>>

\* The capability and the track's provider are looked at before the script is
\* asked (search_now, resolve_now, artwork_now).
Refused(f, own) ==
  CASE f # "health" /\ f \notin caps -> "unsupported"
    [] f \in caps \cap {"resolve_source", "artwork"} /\ ~own -> "invalid"
    [] OTHER -> "none"

BeginCall ==
  /\ engine = "idle"
  /\ \E f \in Functions, own \in BOOLEAN :
       /\ answer' = Refused(f, own)
       /\ IF answer' = "none"
          THEN engine' = "running" /\ work' = f /\ spent' = 0 /\ held' = FALSE
          ELSE UNCHANGED <<engine, work, spent, held>>
  /\ UNCHANGED <<caps, door, proven, onDisk, secretFiles, leftovers, written, reached>>

CallEnds(f, result) == InScript /\ work = f /\ engine' = "idle" /\ answer' = result

rest == <<caps, work, door, spent, held, proven, onDisk, secretFiles, leftovers, written>>

\* What does not read as what the function should answer breaks the contract.
HealthEnds ==
  /\ \E result \in {"ok", "unreachable", "contract"} : CallEnds("health", result)
  /\ UNCHANGED <<rest, reached>>

\* A track is the plugin's whatever it says; a malformed ISRC is left out, and
\* the track is kept.
SearchEnds ==
  /\ \E result \in {"ok", "contract"} : CallEnds("search", result)
  /\ UNCHANGED <<rest, reached>>

CheckSource(source) == source.kind = "http_stream" /\ Man!ReachableUrl(Net, source.url)

Sources == [kind : {"http_stream", "local_file"}, url : Addresses]

ResolveEnds ==
  /\ \/ \E result \in {"empty", "contract"} : CallEnds("resolve_source", result) /\ UNCHANGED reached
     \/ \E source \in Sources :
          IF CheckSource(source)
          THEN CallEnds("resolve_source", "ok") /\ reached' = source.url
          ELSE CallEnds("resolve_source", "contract") /\ UNCHANGED reached
  /\ UNCHANGED rest

\* No cover, a cover, or one whose data is no base64.
ArtworkEnds ==
  /\ \E result \in {"ok", "empty", "contract"} : CallEnds("artwork", result)
  /\ UNCHANGED <<rest, reached>>

\* An exception, or a promise that never resolves.
Throws ==
  /\ engine = "running" /\ InScript
  /\ engine' = "idle" /\ answer' \in {"threw", "contract"}
  /\ UNCHANGED <<rest, reached>>

\* The interrupt hook stops a script whose time is up.
Interrupted ==
  /\ InScript /\ Left = 0
  /\ answer' = "interrupted"
  /\ IF Loading THEN Ends ELSE engine' = "idle" /\ UNCHANGED <<door, secretFiles, leftovers>>
  /\ UNCHANGED <<caps, work, spent, held, proven, onDisk, written, reached>>

\* The worker's jobs are closed, or the thread falls over.
Leaves ==
  /\ engine \in {"idle", "running", "loading"}
  /\ Ends
  /\ UNCHANGED <<caps, work, spent, held, proven, onDisk, written, reached, answer>>

\* Computing takes time; the clock stops at the end of the longest request.
Passes(time) == spent' = IF spent + time > Limit + PluginTimeout + 1
                         THEN Limit + PluginTimeout + 1 ELSE spent + time

Computes ==
  /\ InScript /\ Left > 0
  /\ Passes(1)
  /\ UNCHANGED <<caps, engine, work, door, held, proven, onDisk, secretFiles, leftovers, written, reached,
                 answer>>

---------------------------------------------------------------------------
(* host.http                                                               *)

\* A load may not go online, nor run tools.
ForbiddenWhileLoading == Loading

\* host.http.get, post and request.  What is refused is thrown, and the script
\* may go on.
BeginRequest ==
  /\ InScript /\ ~ForbiddenWhileLoading
  /\ \E url \in Addresses, method \in {"GET", "POST"} :
       door' = [at |-> "http", url |-> url, method |-> method, body |-> method = "POST", hop |-> 0]
  /\ UNCHANGED <<caps, engine, work, spent, held, proven, onDisk, secretFiles, leftovers, written, reached,
                 answer>>

NoAddress == [scheme |-> "other", authority |-> "garbage", host |-> <<>>]

\* A Location with an address anywhere in it is taken for a whole one, be it in
\* the query of a path.
ResolveLocation(base, location) ==
  CASE location.kind = "absolute" -> location.url
    [] location.kind # "absolute" /\ location.holdsAddress -> NoAddress
    [] location.kind = "network" /\ ~location.holdsAddress ->
         [base EXCEPT !.authority = "name", !.host = location.url.host]
    [] OTHER -> base

BecomesGet(status, method) == status = 303 \/ (status \in {301, 302} /\ method = "POST")

Redirected(status, location) ==
  [door EXCEPT !.url = ResolveLocation(door.url, location), !.hop = @ + 1,
               !.method = IF BecomesGet(status, door.method) THEN "GET" ELSE @,
               !.body = @ /\ ~BecomesGet(status, door.method)]

\* A slip: only the address the script gave is looked at.
RefusesSlip == (door.hop = 0 /\ ~Man!ReachableUrl(Net, door.url)) \/ Left = 0

\* A slip: the time is looked at once, before the first step.
RefusesLateSlip == ~Man!ReachableUrl(Net, door.url) \/ (door.hop = 0 /\ Left = 0)

\* Each step of a request is checked anew, its address and its time.
Refuses == ~Man!ReachableUrl(Net, door.url) \/ Left = 0

RefuseRequest ==
  /\ door.at = "http" /\ Refuses
  /\ door' = script
  /\ UNCHANGED <<caps, engine, work, spent, held, proven, onDisk, secretFiles, leftovers, written, reached,
                 answer>>

\* A step of a request: an answer or an error for the script, or the next
\* address; each takes its time, and no longer than a request may.
Hop ==
  /\ door.at = "http" /\ ~Refuses
  /\ reached' = door.url
  /\ \E time \in 0..PluginTimeout : Passes(time)
  /\ \/ door' = script
     \/ /\ door.hop < MaxRedirects
        /\ \E status \in {301, 302, 303, 307, 308}, location \in Locations :
             door' = Redirected(status, location)
  /\ UNCHANGED <<caps, engine, work, held, proven, onDisk, secretFiles, leftovers, written, answer>>

---------------------------------------------------------------------------
(* host.secrets.file and host.tools.run                                    *)

\* A slip: the file written before is not looked for.
KnownFileSlip(key) == key \notin Secrets

KnownFile(key) == \E file \in secretFiles : file.key = key

\* A file of its own for each secret, written once.  A write that fails leaves
\* what it created, and nobody knows of it.
WritePrivate(key, whole) ==
  LET file == [key |-> key, number |-> written, whole |-> whole]
  IN  /\ written' = written + 1
      /\ leftovers' = leftovers \cup {file}
      /\ secretFiles' = IF whole THEN {f \in secretFiles : f.key # key} \cup {file}
                        ELSE secretFiles

SecretFile ==
  /\ InScript
  /\ written < MaxFiles
  /\ \E key \in Secrets, whole \in BOOLEAN : ~KnownFile(key) /\ WritePrivate(key, whole)
  /\ UNCHANGED <<caps, engine, work, door, spent, held, proven, onDisk, reached, answer>>

\* The hash is looked at once in an engine's life.
ToolPath(name) == name \in proven \/ name \in onDisk

RunTool ==
  /\ InScript /\ ~ForbiddenWhileLoading /\ Left > 0
  /\ \E name \in Required :
       /\ ToolPath(name)
       /\ proven' = proven \cup {name}
  /\ door' = [script EXCEPT !.at = "tool"]
  /\ UNCHANGED <<caps, engine, work, spent, held, onDisk, secretFiles, leftovers, written, reached,
                 answer>>

\* The tool ends by itself, and what it said is read to the end of the pipes;
\* or its time is up, and nobody waits for the pipes.
ToolEnds ==
  /\ door.at = "tool"
  /\ \E time \in 0..Left : Passes(time)
  /\ door' = [door EXCEPT !.at = "pipes"]
  /\ UNCHANGED <<caps, engine, work, held, proven, onDisk, secretFiles, leftovers, written, reached,
                 answer>>

KillTool ==
  /\ door.at = "tool"
  /\ \E budget \in 1..Left : Passes(budget)
  /\ door' = script
  /\ UNCHANGED <<caps, engine, work, held, proven, onDisk, secretFiles, leftovers, written, reached,
                 answer>>

\* The readers are joined: at once, or when a child of the tool lets go.
Collect ==
  /\ door.at = "pipes"
  /\ door' = script
  /\ \/ UNCHANGED <<spent, held>>
     \/ held' = TRUE /\ Passes(Limit + PluginTimeout)
  /\ UNCHANGED <<caps, engine, work, proven, onDisk, secretFiles, leftovers, written, reached, answer>>

\* Another process installs or removes a tool, or somebody edits one.
ToolChanges ==
  /\ onDisk' \in SUBSET Required
  /\ UNCHANGED <<caps, engine, work, door, spent, held, proven, secretFiles, leftovers, written, reached,
                 answer>>

---------------------------------------------------------------------------
\* The host object: all that a script can do but compute.  What it logs, a
\* secret it reads and its storage (PluginProvider) change nothing here.
HostObject ==
  \/ BeginRequest \/ RefuseRequest \/ Hop
  \/ SecretFile \/ RunTool \/ ToolEnds \/ KillTool \/ Collect

Next ==
  \/ BeginLoad \/ LoadEnds \/ BeginCall \/ HealthEnds \/ SearchEnds \/ ResolveEnds \/ ArtworkEnds
  \/ Throws \/ Interrupted \/ Leaves \/ Computes
  \/ HostObject \/ ToolChanges

Spec == Init /\ [][Next]_vars

---------------------------------------------------------------------------
\* Whatever the script asks for, wherever a service redirects it and whatever
\* source it names, no address is asked or played but one the manifest
\* declares (http_request, check_source).
StaysInGrant == reached # None => Man!AllowsHost(Net, reached.host)

\* A call may overrun its time, but by less than one request: every step asks
\* what is left first.  Only a tool whose own child holds on to its output
\* takes longer (run_tool joins the readers).
OverrunIsOneRequest == engine = "running" => held \/ spent < CallTimeout + PluginTimeout

\* An engine that is gone leaves no secret behind, but for a file whose writing
\* failed.
SecretFilesEnd == engine = "gone" => \A file \in leftovers : ~file.whole
=============================================================================
