------------------------------ MODULE Servers ------------------------------
(***************************************************************************)
(* The remote servers: their records in servers.json (provider/remote/     *)
(* mod.rs), the two protocols (subsonic.rs, jellyfin.rs), Session's        *)
(* add_server, remove_server, test_provider and queue_from_search          *)
(* (session.rs) and the registry built of them (provider/mod.rs).          *)
(*                                                                         *)
(* One desktop and other processes work on the same file.  A command loads *)
(* the list, asks the network one request after the other, each of which   *)
(* may fail, and saves the whole list; the file is cut before it is        *)
(* written.  What a server accepts changes: an epoch stands for the        *)
(* password and the access keys that are valid now.  A command that only   *)
(* reports an error is no step.                                            *)
(***************************************************************************)
EXTENDS Naturals, FiniteSets, SequencesExt, TLC

CONSTANTS
  None,         \* Rust's None
  Torn,         \* a file that cannot be read
  Urls,         \* the servers' addresses
  Older,        \* bound of the model: those that may be there from before
  KindOf,       \* the protocol each speaks
  Names,        \* the names a user gives
  Plugins,      \* the approved plugins, in order
  Procs,        \* the processes
  Desktop,      \* the one that lives on
  MaxEpoch,     \* bound of the model: what a server accepts changes
  MaxCommands   \* bound of the model: commands

ServersAssumption ==
  /\ Older \subseteq Urls
  /\ KindOf \in [Urls -> {"subsonic", "jellyfin"}]
  /\ Plugins \in Seq(STRING)
  /\ Desktop \in Procs
  /\ MaxEpoch \in Nat /\ MaxCommands \in Nat

VARIABLES
  epoch,     \* what each server accepts
  file,      \* servers.json: a list of records, or Torn
  cmd,       \* what each process is doing
  registry,  \* the desktop's providers (Core::registry)
  player,    \* the desktop's player: its own providers, and its queue
  commands,
  \* history, read by no action
  reported,  \* the names the commands' reports add up to
  calm       \* no save ran into another, none failed after it had written

desktopVars == <<registry, player>>
history == <<reported, calm>>
vars == <<epoch, file, cmd, desktopVars, commands, history>>

(* RemoteServer.  The secret is the token or the key: what the server at   *)
(* that address accepts in that epoch.                                     *)
Server(id, kind, url, secret, user) ==
  [id |-> id, kind |-> kind, url |-> url, secret |-> secret, user |-> user]

Ids(servers) == {servers[i].id : i \in DOMAIN servers}

(* NewServer: the secret typed may be an old one.                          *)
Specs == [id : Names, kind : {"subsonic", "jellyfin"}, url : Urls, secret : 0..MaxEpoch,
          has : SUBSET {"password", "key"}, verify : BOOLEAN]

(* Where the cover of a track is.                                          *)
Covers == {"track", "album", "none", "orphan", "page"}

(* The registry: the local provider, the servers, the plugins.             *)
Provider(id, server) == [id |-> id, server |-> server]
RegistryOf(servers) ==
  <<Provider("local", None)>>
  \o [i \in DOMAIN servers |-> Provider(servers[i].id, servers[i])]
  \o [i \in DOMAIN Plugins |-> Provider(Plugins[i], None)]

(* ProviderRegistry::get: the first of that name.                          *)
Named(providers, id) == {i \in DOMAIN providers : providers[i].id = id}
Get(providers, id) == providers[Min(Named(providers, id))]

Idle == [pc |-> "idle", op |-> "none", verify |-> FALSE, name |-> None, servers |-> <<>>,
         server |-> None, learned |-> FALSE, hits |-> <<>>, cover |-> "", since |-> 0, stale |-> FALSE]

(* A server may be there from before, under the name of a plugin that came *)
(* later.                                                                  *)
Init ==
  /\ epoch = [u \in Urls |-> 0]
  /\ \/ file = <<>>
     \/ \E id \in ToSet(Plugins), u \in Older :
          file = <<Server(id, KindOf[u], u, 0, FALSE)>>
  /\ cmd = [p \in Procs |-> Idle]
  /\ registry = RegistryOf(file)
  /\ player = [providers |-> registry, queue |-> <<>>]
  /\ commands = 0
  /\ reported = Ids(file) /\ calm = TRUE

(* A new password, and every key revoked.                                  *)
Revoke(u) ==
  /\ epoch[u] < MaxEpoch
  /\ epoch' = [epoch EXCEPT ![u] = @ + 1]
  /\ UNCHANGED <<file, cmd, desktopVars, commands, history>>

(* What a server does not refuse: an open endpoint, a guarded one.         *)
Speaks(server) == KindOf[server.url] = server.kind
Accepts(server) == Speaks(server) /\ epoch[server.url] = server.secret

-----------------------------------------------------------------------------
(* The file.                                                               *)

Step(p, c) == cmd' = [cmd EXCEPT ![p] = c]
Fail(p) == Step(p, Idle)

Free(p) == cmd[p].pc = "idle" /\ commands < MaxCommands

Begin(p, c) ==
  /\ Free(p)
  /\ commands' = commands + 1
  /\ Step(p, c)
  /\ UNCHANGED <<epoch, file, desktopVars, history>>

(* Slip: a file that cannot be read is taken for an empty one.             *)
LoadServersSlip == [ok |-> TRUE, servers |-> IF file = Torn THEN <<>> ELSE file]

(* load_servers                                                            *)
LoadServers == [ok |-> file # Torn, servers |-> IF file = Torn THEN <<>> ELSE file]

(* save_servers: fs::write cuts the file...                                *)
Cut(p) ==
  /\ cmd[p].pc = "save"
  /\ file' = Torn
  /\ Step(p, [cmd[p] EXCEPT !.pc = "write"])
  /\ UNCHANGED <<epoch, desktopVars, commands, history>>

(* What the other processes have read is old now.                          *)
Outdated(q) ==
  IF cmd[q].pc = "idle" THEN cmd[q] ELSE [cmd[q] EXCEPT !.stale = TRUE]

(* ...and writes it; then the desktop reads it again.  If the permissions  *)
(* cannot be set the command fails all the same.                           *)
Write(p) ==
  LET c == cmd[p]
  IN  /\ c.pc = "write"
      /\ file' = c.servers
      /\ \/ /\ cmd' = [q \in Procs |-> IF q # p THEN Outdated(q)
                                       ELSE IF p = Desktop THEN [Idle EXCEPT !.pc = "refresh"]
                                       ELSE Idle]
            /\ reported' = IF c.op = "add" THEN reported \cup {c.name}
                           ELSE reported \ {c.name}
            /\ calm' = (calm /\ ~c.stale)
         \/ Fail(p) /\ reported' = reported /\ calm' = FALSE
      /\ UNCHANGED <<epoch, desktopVars, commands>>

(* The disk is full, or the process of a command is ended.                 *)
SaveFails(p) ==
  /\ cmd[p].pc \in {"save", "write"}
  /\ Fail(p)
  /\ UNCHANGED <<epoch, file, desktopVars, commands, history>>

-----------------------------------------------------------------------------
(* add_server, remove_server, test_provider.                               *)

FirstOfHealth(kind) == IF kind = "subsonic" THEN "ping" ELSE "public"

(* The record is added to the list.                                        *)
Push(c, server) == [c EXCEPT !.pc = "save", !.servers = Append(@, server), !.server = None]

(* Jellyfin's user id is asked for if it is not known.                     *)
AfterHealth(c) ==
  IF c.server.kind = "jellyfin" /\ ~c.server.user THEN [c EXCEPT !.pc = "me"]
  ELSE Push(c, c.server)

(* prepare_server goes on with a record.                                   *)
Prepare(c, server) ==
  LET known == [c EXCEPT !.server = server, !.learned = server.user]
  IN  IF c.verify THEN [known EXCEPT !.pc = FirstOfHealth(server.kind)] ELSE AfterHealth(known)

(* add_server, to its first request: the name must be free, and is not the *)
(* local files'.  Subsonic's token is made of the password; a Jellyfin key *)
(* is taken as it is, a password is exchanged for one.                     *)
AddServer(p) == Free(p) /\ \E spec \in Specs :
  LET server == Server(spec.id, spec.kind, spec.url, spec.secret, FALSE)
      c == [Idle EXCEPT !.op = "add", !.verify = spec.verify, !.name = spec.id,
                        !.servers = LoadServers.servers, !.since = epoch[spec.url]]
  IN  /\ LoadServers.ok /\ spec.id \notin Ids(LoadServers.servers) \cup {"local"}
      /\ spec.secret <= epoch[spec.url]
      /\ \/ /\ spec.kind = "subsonic" /\ "password" \in spec.has
            /\ Begin(p, Prepare(c, server))
         \/ /\ spec.kind = "jellyfin" /\ "key" \in spec.has
            /\ Begin(p, Prepare(c, server))
         \/ /\ spec.kind = "jellyfin" /\ spec.has = {"password"}
            /\ Begin(p, [c EXCEPT !.pc = "authenticate", !.server = server])

(* remove_server: a name is in the list once.                              *)
RemoveServer(p) == Free(p) /\ \E i \in DOMAIN LoadServers.servers :
  Begin(p, [Idle EXCEPT !.op = "remove", !.pc = "save", !.name = LoadServers.servers[i].id,
              !.servers = RemoveAt(LoadServers.servers, i)])

(* test_provider, of a server of the registry.                             *)
TestProvider == Free(Desktop) /\ \E i \in DOMAIN registry :
  LET server == Get(registry, registry[i].id).server
  IN  /\ server # None
      /\ Begin(Desktop, [Idle EXCEPT !.op = "test", !.pc = FirstOfHealth(server.kind),
                           !.server = server, !.learned = server.user,
                           !.since = epoch[server.url]])

(* jellyfin::authenticate: a key; the user id may come with it.            *)
Authenticate(p) ==
  /\ cmd[p].pc = "authenticate" /\ Accepts(cmd[p].server)
  /\ \E user \in BOOLEAN : Step(p, Prepare(cmd[p], [cmd[p].server EXCEPT !.user = user]))

(* Reachable: a test reports it, a server to be added is prepared further. *)
Healthy(p) ==
  /\ cmd[p].pc = "count"
  /\ Step(p, IF cmd[p].op = "test" THEN Idle ELSE AfterHealth(cmd[p]))

(* SubsonicProvider::health: ping; the count of tracks may fail.           *)
Ping(p) ==
  /\ cmd[p].pc = "ping" /\ Accepts(cmd[p].server)
  /\ Step(p, [cmd[p] EXCEPT !.pc = "count"])
SubsonicHealth(p) ==
  /\ cmd[p].server.kind = "subsonic"
  /\ Ping(p) \/ Healthy(p)

(* JellyfinProvider::health: is the server up?                             *)
PublicInfo(p) ==
  /\ cmd[p].pc = "public" /\ Speaks(cmd[p].server)
  /\ Step(p, [cmd[p] EXCEPT !.pc = "user"])

(* "Is the key still valid?"  A user id that is known is not asked for.    *)
UserId(p) ==
  /\ cmd[p].pc = "user" /\ (cmd[p].learned \/ Accepts(cmd[p].server))
  /\ Step(p, [cmd[p] EXCEPT !.pc = "count"])

(* The count of tracks may fail here as well.                              *)
JellyfinHealth(p) ==
  /\ cmd[p].server.kind = "jellyfin"
  /\ PublicInfo(p) \/ UserId(p) \/ Healthy(p)

(* fetch_user_id, for the record; if it fails it is asked for later.       *)
FetchUserId(p) ==
  /\ cmd[p].pc = "me"
  /\ \E user \in {FALSE, Accepts(cmd[p].server)} :
       Step(p, Push(cmd[p], [cmd[p].server EXCEPT !.user = user]))

(* Provider::artwork, asked for the cover of a track of one of the servers: *)
(* the track has its own, its album has one, neither has, it has no album,  *)
(* or something that is not an image is there.                             *)
FetchCover == Free(Desktop) /\ \E i \in DOMAIN registry, cover \in Covers :
  /\ registry[i].server # None
  /\ Begin(Desktop, [Idle EXCEPT !.op = "cover", !.pc = "cover", !.cover = cover,
                       !.server = registry[i].server])

NoCover(p) == Step(p, [Idle EXCEPT !.pc = "none", !.cover = cmd[p].cover])

(* Subsonic is asked by the song's id and knows its album; a 404 or the    *)
(* error 70 is "none", another error and a page are failures.              *)
SubsonicArtwork(p) ==
  /\ cmd[p].pc = "cover" /\ cmd[p].server.kind = "subsonic" /\ Accepts(cmd[p].server)
  /\ \/ cmd[p].cover \in {"track", "album", "page"} /\ Fail(p)
     \/ cmd[p].cover \in {"none", "orphan"} /\ NoCover(p)

(* JellyfinProvider::album_of                                              *)
AlbumOf(p) ==
  /\ cmd[p].pc = "album" /\ Accepts(cmd[p].server)
  /\ IF cmd[p].cover = "orphan" THEN NoCover(p)
     ELSE Step(p, [cmd[p] EXCEPT !.pc = "albumCover"])

(* Jellyfin is asked for the item's image and, on a 404, for the album's.  *)
JellyfinArtwork(p) ==
  /\ cmd[p].server.kind = "jellyfin"
  /\ \/ /\ cmd[p].pc = "cover" /\ Accepts(cmd[p].server)
        /\ IF cmd[p].cover \in {"track", "page"} THEN Fail(p)
           ELSE Step(p, [cmd[p] EXCEPT !.pc = "album"])
     \/ AlbumOf(p)
     \/ /\ cmd[p].pc = "albumCover" /\ Accepts(cmd[p].server)
        /\ IF cmd[p].cover = "album" THEN Fail(p) ELSE NoCover(p)

(* The cover's answer is taken.                                            *)
TakeCover ==
  /\ cmd[Desktop].pc = "none"
  /\ Fail(Desktop)
  /\ UNCHANGED <<epoch, file, desktopVars, commands, history>>

(* No answer, a refusal, or an answer that is not understood.              *)
RequestFails(p) ==
  /\ cmd[p].pc \in {"authenticate", "ping", "public", "user", "cover", "album", "albumCover"}
  /\ cmd[p].pc = "user" => ~cmd[p].learned
  /\ Fail(p)

Request(p) ==
  /\ cmd[p].server # None
  /\ \/ Authenticate(p) \/ SubsonicHealth(p) \/ JellyfinHealth(p) \/ FetchUserId(p)
     \/ SubsonicArtwork(p) \/ JellyfinArtwork(p) \/ RequestFails(p)
  /\ UNCHANGED <<epoch, file, desktopVars, commands, history>>

-----------------------------------------------------------------------------
(* What the desktop plays.                                                 *)

(* Core::refresh_registry: the player keeps its own.                       *)
RefreshRegistry ==
  /\ cmd[Desktop].pc = "refresh"
  /\ Fail(Desktop)
  /\ registry' = IF LoadServers.ok THEN RegistryOf(LoadServers.servers) ELSE registry
  /\ UNCHANGED <<epoch, file, player, commands, history>>

(* An item, and for the model the provider that listed it.                 *)
Item(provider) == [provider |-> provider.id, from |-> provider]

(* search_catalog: what it may answer.  Its rows are the local provider's. *)
SearchCatalog == {<<>>, <<Item(Get(registry, "local"))>>}

(* queue_from_search.  The catalog comes first; if it has nothing every    *)
(* provider is asked in turn.                                              *)
Play ==
  \E hits \in SearchCatalog :
    Begin(Desktop, [Idle EXCEPT !.op = "play", !.pc = "search", !.hits = hits,
                                !.servers = IF hits = <<>> THEN registry ELSE <<>>])

(* What a server answers to a search: entries, with or without a name.     *)
Entries == {<<>>, <<"nameless", "whole">>}

(* Song::into_track, Item::into_track: an entry without one is left out.   *)
IntoTracks(provider, entries) ==
  [i \in 1..Cardinality({j \in DOMAIN entries : entries[j] = "whole"}) |-> Item(provider)]

(* The answers there can be: none if the server refuses.                   *)
SubsonicSearch(provider) ==
  {IntoTracks(provider, entries) : entries \in {e \in Entries : Accepts(provider.server)}}
JellyfinSearch(provider) ==
  {IntoTracks(provider, entries) : entries \in {e \in Entries : Accepts(provider.server)}}
OtherSearch(provider) == {<<>>, <<Item(provider)>>}
Search(provider) ==
  IF provider.server = None THEN OtherSearch(provider)
  ELSE IF provider.server.kind = "subsonic" THEN SubsonicSearch(provider)
  ELSE JellyfinSearch(provider)

(* One provider; an error of one ends the search.                          *)
SearchOne ==
  LET c == cmd[Desktop]
      first == Head(c.servers)
  IN  /\ c.pc = "search" /\ c.servers # <<>>
      /\ \/ \E hits \in Search(first) :
              Step(Desktop, [c EXCEPT !.servers = Tail(@), !.hits = @ \o hits])
         \/ first.server # None /\ Fail(Desktop)
      /\ UNCHANGED <<epoch, file, desktopVars, commands, history>>

(* player_from_search: nothing found is an error; the new player has the   *)
(* providers that were asked.  Without `all` one item is enough.           *)
FinishPlay ==
  LET c == cmd[Desktop]
  IN  /\ c.pc = "search" /\ c.servers = <<>>
      /\ Fail(Desktop)
      /\ IF c.hits = <<>> THEN player' = player
         ELSE \E queue \in {c.hits, <<c.hits[1]>>} :
                player' = [providers |-> registry, queue |-> queue]
      /\ UNCHANGED <<epoch, file, registry, commands, history>>

(* Provider::resolve_source of a server: its address, with the credentials *)
(* in it (Subsonic's endpoint) or in a header (Jellyfin's).                *)
Endpoint(server) == [url |-> server.url, query |-> server.secret, header |-> None]
AuthHeaders(server) == server.secret
SubsonicSource(server) == Endpoint(server)
JellyfinSource(server) == [url |-> server.url, query |-> None, header |-> AuthHeaders(server)]

(* A file, or what a plugin names (PluginHost): no credentials in it.      *)
LocalSource(provider) == [url |-> provider.id, query |-> None, header |-> None]

SourceOf(provider) ==
  IF provider.server = None THEN LocalSource(provider)
  ELSE IF provider.server.kind = "subsonic" THEN SubsonicSource(provider.server)
  ELSE JellyfinSource(provider.server)

(* Player::resolve_source: the provider of that name, as the player knows  *)
(* it.                                                                     *)
ResolveSource(item) ==
  IF Named(player.providers, item.provider) = {} THEN None
  ELSE SourceOf(Get(player.providers, item.provider))

-----------------------------------------------------------------------------
(* `headshell provider add` and `remove`, and the same of the desktop.      *)
ProviderCommand(p) == AddServer(p) \/ RemoveServer(p)

Next ==
  \/ \E u \in Urls : Revoke(u)
  \/ \E p \in Procs : ProviderCommand(p) \/ Request(p) \/ Cut(p) \/ Write(p) \/ SaveFails(p)
  \/ TestProvider \/ FetchCover \/ TakeCover \/ RefreshRegistry \/ Play \/ SearchOne \/ FinishPlay

Spec == Init /\ [][Next]_vars

-----------------------------------------------------------------------------
(* The file holds what the reports say: no command forgets the servers of  *)
(* another, and a file that cannot be read is not written over - unless a  *)
(* save ran into another, or failed after it had written (add_server,      *)
(* remove_server, load_servers).                                           *)
FileIsAsReported == calm /\ file # Torn => Ids(file) = reported

(* A track is fetched from the server that listed it, although servers are *)
(* removed, and added again under the same name, while it is in the queue; *)
(* a name that a plugin has as well is not told apart (refresh_registry,   *)
(* resolve_source, ProviderRegistry::get).                                 *)
PlaysWhatWasListed ==
  \A i \in DOMAIN player.queue :
    LET item == player.queue[i]
    IN  item.provider \notin ToSet(Plugins) =>
          ResolveSource(item) = SourceOf(item.from)

(* "No cover" is said only of a track that has none: the answer is kept,   *)
(* and nobody asks again for a while (artwork, album_of).                  *)
NoneMeansNone ==
  \A p \in Procs : cmd[p].pc = "none" => cmd[p].cover \in {"none", "orphan"}

(* What the program says and does of a server is so: in its file, in the    *)
(* queue of the player and in the covers, whatever commands of two programs *)
(* overlap (Session::add_server, Player::resolve_source, artwork).          *)
ServersAreAsTold == FileIsAsReported /\ PlaysWhatWasListed /\ NoneMeansNone

(* "A server that is up but refuses is not reachable": a test that says    *)
(* reachable found the credentials accepted while it ran (health).         *)
ReachableMeansAccepted ==
  \A p \in Procs :
    cmd[p].pc = "count" => cmd[p].server.secret >= cmd[p].since
=============================================================================
