# headshell in TLA+

headshell is a music player in Rust: a core library (`src/crates/headshell-core`), a
command line and terminal interface (`src/crates/headshell-cli`) and a desktop program
(`src/crates/headshell`) whose page is JavaScript. This directory holds TLA+ models of
its logic, the TLC configurations that check them and the proofs TLAPS checks. Paths
below are relative to `src/crates/headshell-core/src` unless they start with `src/`;
`app.js` is `src/crates/headshell/ui/app.js`.

## 1. Inventory

| component | state it keeps | operations | how it meets the others |
|---|---|---|---|
| play queue, `playback/queue.rs` | the user's list, the play order, the position, the modes | replace, append, clear, set_repeat, set_shuffle, jump_to, next, previous, peek_after_finish, advance_after_finish | owned by the player |
| gapless engine, `playback/engine.rs` | ring buffer, frame counters, slices (spans), play state, idle, stop, pending jobs, first error | open, play_prepared, enqueue, pause, resume, finished, take_error, Drop | three threads: core, decoder, device callback, over one `Arc<Shared>` |
| player, `playback/player.rs` | queue, engine, now_playing, prefetched, pending_listens | play_items, next, previous, jump_to, stop, tick | asks providers for sources (await), polls the engine every tick |
| playing session, `playback/live.rs` | player, listens held back | tick, replace_player, shutdown | driven by the desktop's core thread or the TUI's loop; writes to the library, hands queues to the cover worker |
| blocking play, `session.rs` | a player of its own | play | the command line's `play` |
| HTTP source, `playback/http_source.rs` | downloaded bytes, done, error, reader position | open, read, seek | download thread, and the decoder that reads |
| plugin provider, `plugin/mod.rs`, `script.rs` | worker, starts, give_up; per thread a storage snapshot | call, start, shutdown | one thread per engine; called by the core thread and the cover worker |
| plugin host, `plugin/host.rs` | time left, proven tools, secret files | request, secret file, tool, storage | gates between a script and the world |
| plugin life cycle, `plugin/consent.rs`, `catalog.rs`, `manifest.rs`, `artifact.rs` | directory, tools, ledger | install, update, approve, disable, remove, load | commands of the shells, one program beside another |
| cover worker, chain, cache, `artwork/` | rows, todo, ready, generation; index and images | submit, drain_ready, resolve, put | worker thread; several programs share the cache |
| library, `library/mod.rs` | tracks, listens, resolutions, catalog (SQLite) | migrate, insert_listens, set_resolution, replace_catalog, search | session, import, identity, scan, several programs |
| local provider, `provider/local.rs` | files and their stamps | scan | session writes what it finds to the catalog |
| servers, `provider/remote/` | `servers.json`, a signed-in user id | add, remove, test, search, stream, cover | session, registry, player |
| identity, `identity/` | answers of one import | resolve, resolve_file | import and the commands that ask |
| import, statistics, sleeve data | rows and numbers | | read the library |
| rate limits, `net/mod.rs` | the last reserved moment of each service | acquire | identity and cover lookups |
| desktop page, commands, core thread | queue view, report, panels | calls, events | the page reaches the core by calls that may overtake each other |
| anchor, drawing, diagnostics, configuration | values, files | | |

What is hard here, and what has to hold in spite of it:

* **engine**: three threads over separate atomics; frames of two tracks share the ring;
  the play state is stored by the callback and by the user's thread. The right title,
  the right played time (statistics are made of it), no queued track lost.
* **player and session**: decisions rest on samples an `await` makes stale; the store
  fails, the player fails, a search replaces the player in the middle of a track. A
  listen names the track that was heard, once, and reaches the store.
* **sources**: time limits that give up on a thread that goes on running; a download
  that ends, breaks or grows too large while it is read.
* **plugins**: code of strangers, which may do only what the user said yes to, whatever
  crash, update or hand edit came between; and which must not stall the core.
* **files shared without a lock** (cover cache, `servers.json`, ledger, catalog): two
  programs, crashes between two writes, files changed while they are read.
* **library**: several connections, migrations and imports that a crash cuts in two.
* **identity**: an answer that follows from evidence, not from the order of a reply.
* **page**: answers and events in any order, and nothing on screen that stays old.

`PROJECT.json` lists every component with its status and the hazards with the line where
they bite.

## 2. Modules

| module | models | composes |
|---|---|---|
| `QueueOps` | the pure operations of `Queue`: each a function from a queue to the set of queues it may become | |
| `PlayQueue` | the queue as a state machine, any method in any order | `QueueOps` |
| `MCPlayQueue`, `QueueProofs` | that machine over a queue of its own; a lemma about each operation and the theorems of the machine | `PlayQueue` |
| `AudioEngine`, `AudioEngineProofs` | caller, decoder thread and callback, one action per access to shared state; its theorems | |
| `Player` | the player's calls and ticks over the queue and a reduced engine | `QueueOps` |
| `LiveSession` | the session and the loops that drive it | `Player` |
| `CliPlay` | `headshell play` | `Player` |
| `Shells`, `MCShells`, `ShellsProofs` | a program that is one or the other; its theorems | `LiveSession`, `CliPlay` |
| `ByteStream` | what a decoder relies on: a stream that is whole, or broken and says so once | |
| `HttpSource` | download thread, capped buffer, blocking reader; it implements `ByteStream` | `ByteStream` |
| `PluginProvider` | one plugin, its engines' threads, its two callers and its store | |
| `MCSources`, `SourcesProofs` | a track's source, a plugin, or the queue; the theorems of the first two | `HttpSource`, `PluginProvider`, `MCPlayQueue` |
| `Covers` | the cover worker under queues that replace each other | |
| `CoverChain` | which cover the links' answers make, as functions | |
| `CoverStore` | index and image files of the cache under several openings | `CoverChain` |
| `MCCovers` | one of the three | `Covers`, `CoverStore`, `CoverChain` |
| `Lookups`, `MCLookups` | rate limiter, retries and the sequences of requests | |
| `CoversProofs` | the theorems of the covers and the lookups | `Covers`, `CoverStore`, `CoverChain`, `Lookups` |
| `Manifest` | a manifest's checks, host patterns, what needs consent again | |
| `Catalog` | an index, the files of a release, what counts as changed by hand | `Manifest` |
| `PluginStore` | a plugin's life: install, update, consent, removal, load | `Catalog` |
| `PluginHost` | one engine: its load, calls, requests, redirects, tools, secrets | `Manifest` |
| `Servers`, `MCServers` | `servers.json`, both protocols, the registry, the player's providers | |
| `Setup`, `MCSetup`, `SetupProofs` | what the registry of providers is built of; its theorems | `Servers`, `PluginStore`, `PluginHost` |
| `Scan`, `MCScan` | the local scan into the catalog, under names of its own | |
| `Identity` | keys, scores and the choice among candidates, as functions | |
| `Answers` | what the services' replies become | `Identity` |
| `Stats` | what counts as a play, and the numbers made of it | `Identity` |
| `Import` | an archive's entries and records | |
| `Library`, `MCLibrary` | the SQLite file under several processes, with import, questions and search; that, or the scan | `Stats`, `Import`, `Answers`, `MCScan` |
| `LibraryProofs` | the theorems of the scan and the library | `Scan`, `Library` |
| `Desktop` | page, commands and core thread for the queue and its covers | |
| `Panels` | the other panels of the page and their commands | |
| `MCDesktop`, `DesktopProofs` | one of the two; the theorems of both | `Desktop`, `Panels` |

A definition whose name ends in `Slip` is the definition beside it with a plausible
mistake (a dropped guard, a swapped comparison, a missing reset). No specification uses
them: each property is tried against one of them, to see that it can fail.

Where a run's module joins parts that share no state (`MCSources`, `MCCovers`, `Setup`,
`MCLibrary`, `MCDesktop`), a behaviour is of one part and the others stand still; nothing is claimed
about their interplay. `MCPlayQueue`, `MCLookups` and `MCScan` put one specification each
behind constants and variables with names of their own, for the runs and the proofs alike,
so that `ShellsProofs` can extend the queue's proofs, `CoversProofs` the covers and the
lookups, and `LibraryProofs` the scan and the library: each theorem there is about one of
them. `Shells` is a true composition: both shells drive the same player and store.

### Notes on each

**QueueOps, PlayQueue.** A queue is the record of the Rust struct, its indices counted
from 1. The random generator is not modelled: `Shuffles(n)` is every permutation, which
is what Fisher-Yates can produce, so `Reshuffle`, `Replace`, `SetShuffle` and the
wrapping `NextItem` yield sets.

**AudioEngine.** One action per atomic access or mutex section, in the order of the
code, so the model has every interleaving the code's acquire/release operations allow.
A frame is the number of its track. Left out: sample values, resampling, seconds
(positions are frames), the container's duration, lengths of sleeps, and the device's own
failures (its error callback, a stream that cannot start). The error slot holds the number
of the track its error is of (`Recorded`); the player takes it when `finished()` said so
(`TakeError`) and drops the engine, or keeps it when the next track cannot be started
(`KeepEngine`). `heard`, `userPaused`, `pauses`, `told` (tracks whose error was taken),
`stale` (`finished()` read an idle flag that no longer held) and `byUser` are history.

**Player, LiveSession, CliPlay, Shells.** The player's calls run one at a time, but the
engine runs on: each call is cut where it awaits a provider and where a tick has
sampled the engine. The engine is reduced to what the player reads of it: its number,
its tracks, the one that sounds, whether nothing is left and what the last callback
stored. That reduction is what `AudioEngine` shows of the real one (`TransitionOnTime`,
`PlayedOfIsHeard`, `EveryTrackIsHeard`), with the end that comes too early
(`EngineEndsEarly`, see section 5). The play rule (half the track or four minutes)
is the moment a play becomes `enough`.

**HttpSource, ByteStream.** The buffer is append-only, so bytes are counted, not named.
The download thread holds the mutex only inside one action; the reader holds it from
its look at the buffer to its wait, which ends by a wake-up or after 50 ms
(`WaitOver`). `ByteStream` has no threads, no lock and no wake-up: bytes arrive, the
stream is whole or broken, and a read that was asked for is answered in one step. The
mapping: a stream is open until `done`, then broken if a failure was met and whole if
not; a read is asked for while the reader is anywhere in `read`.

**PluginProvider.** A caller walks through `PluginProvider::call`, `start`, and the
worker's `start`, `call` and `shutdown`; `thread[t]` is the thread of the t-th engine
through `worker_main`. A time limit may run out whenever somebody waits. Every engine
reads the plugin's store once and writes it back whole, in two steps, through a
temporary name all engines of the process share.

**PluginHost.** One engine from its load to its end, with time counted in steps of five
seconds. A script may stand in one gate at a time; each gate asks what time is left,
then checks the grant, then acts. Redirects are followed hop by hop.

**Manifest, Catalog, PluginStore, Setup.** A file's content is the release it belongs
to, or "hand". A command is a list of writes, one per step, and may end after any of
them; `app` discovers plugins (first read of the manifest) and loads them (second
read). The index the catalog serves may be any of those given, wrong ones included.

**Servers.** A command loads the list, makes its requests one by one, each of which may
fail, and saves the whole list in two steps (cut, write). An epoch stands for the
credentials a server accepts now.

**Covers, CoverChain, CoverStore.** `core` hands queues over in the critical sections of
`submit`; `thread` is the worker's loop around one walk of the chain; `Retain` is what
`filter` and `retain` leave of a list. `CoverChain` is what that walk makes of the links'
answers, of several releases the first with the least key; an album may be absent, titled,
or `Untitled`, one whose title normalises to nothing. In `CoverStore` each file
operation is a step, openings by worker and by the `artwork` command share the directory,
and a crash leaves what was written.

**Lookups.** Time is relative to now: `slot` is how far ahead of now the last reserved
call lies, `left` what remains of a sleep. A sleep may end late.

**Scan.** A directory is listed at once, its files are looked at one by one; a file is
first asked for its stamp and then read, and may change between the two. The walk over
stamps is the set of directories it comes to (`Walked`), without a recursion. `unseen`
(something changed where no scan will look) and `edited` are history; an undisturbed scan
of everything (`SeesAll`) clears both. Symbolic links are not modelled.

**Identity, Answers, Import, Stats, Library.** The first four are functions over small
domains; `Library` is the state machine that uses them. A text is a name and the words
around it; the likeness of two whole normalised texts is the constant `Alike`. A statement outside a
transaction is one step; a transaction reads first and is refused when another
connection has written since.

**Desktop, Panels.** A handler of the page runs up to its next `await` in one step.
Calls and their answers travel in any order, events keep their order among themselves.

## 3. Runs

Every bound is a named constant in the cfg.

| run | instance | asks |
|---|---|---|
| `MCAudioEngine` | ring of 2 frames, packets, device buffers and tracks of up to 2, 2 tracks, 1 pause | title, position and played time are true in every interleaving; tracks are heard or an error is told, but for one a stale idle flag hides |
| `MCAudioEnginePauseHolds` | the same, 1 track | a pause holds (it does not) |
| `MCSources` | queue: 2 tracks, lists of up to 4; buffer of 5, chunks of 3, bodies of up to 7; 2 callers, 2 starts, 3 calls | the read-ahead is right, switches and append keep the playing item, repeat-all starves nobody; the source is a stream and reads return; engines given up stay given up, stored values are kept, calls return |
| `MCShells` | 2 engines, 2 tracks queued on each, 3 keys, 1 source fault, 1 store fault | listens are true, none is lost, they are written every round and reach the store; the blocking play returns |
| `MCShellsToTheEnd` | the same lists, no key and no fault | the blocking play runs to the end of its queue (it need not) |
| `MCCovers` | 2 albums, 2 rows, 2 queues; 2 keys, 2 openings, 2 ticks, 1 mishap; every combination of answers of the links | no row is forgotten, found covers have images, entries survive, answers are justified, rows are settled |
| `MCLookups` | 2 threads, 3 services, intervals 3, 1 and 0, late by 1, 2 retries | a thread's calls are spaced, lookups end |
| `MCSetup` | 2 releases and one by hand, 1 edit; 2 servers, one of them there from before, 2 programs, 3 commands; an engine with limits of 1, 4 and 3 steps, 2 redirects, 2 secret files | what is loaded, asked, played, kept and removed is what it should be |
| `MCServers` | 2 servers, 2 commands | a reachable server accepts (it may not) |
| `MCLibrary` | 2 processes, migrations of 2 and 1 statements, 3 archives, 8 questions, 1 crash; scan: 2 processes, 2 directories, 2 audio files and another, 2 changes, 2 milliseconds | nobody works on half a schema, a finished import is resolved, numbers agree, identities follow from evidence; stamps are honest, a quiet scan mirrors the disk, after one a skipped scan was unnecessary |
| `MCScanAdded` | the scan of 1 process, 3 milliseconds | a file that came or went shows up (one that came during a scan does not) |
| `MCDesktop` | queue: 3 moves, 2 calls, 1 event under way; panels: 4 steps, 2 calls | what is painted is queued, and all catches up when it is quiet |

Why the bounds are enough. Queue: the operations look at one item, its neighbour and the
ends, and four items with duplicates have all of these. Engine: two tracks in a ring of
two frames meet in the ring, a packet is larger than the room left, a track may be
empty. Shells: one fault of each kind can hit any call, two engines let an old number
meet a new engine, three keys with ticks between them reach a skip during a read-ahead
after a failed start. Sources: a body of 7 exceeds the cap of 5 by part of a chunk; two
starts and three calls reach a restart after a call that hangs, a value stored by the
first engine and read by the second, the giving up and the refusal after it. Covers: the
second queue meets a lookup made for the first; two ticks are the month after which a
negative answer expires; one crash can fall between any two file operations. Setup: an
update, a crash and a second update of a plugin with another script name; a server's
sign-in revoked in the middle of a command; two redirects lead out of the grant by way
of a granted host. Scan: two changes let a file come and be edited, or come and go,
around the listing of another process, and fall into the millisecond of a scan or outside
it. Library: a crash falls after any statement of a migration or an import and the other
process goes on. Desktop: two calls under way can cross, and an event can pass between
them.

Deadlock is checked in `MCLookups`; elsewhere the system may stop (a session that was
closed, an engine that was dropped, a bound that is used up). `MCLibrary` uses symmetry of
the processes, which run the same program; all its properties are invariants or properties
of single steps.

## 4. Fairness

* `AudioEngine`: the decoder and the device run (weak fairness of each thread's step), a
  call that has begun goes on. Closing the stream needs the callback between two runs,
  which recurs but does not last: strong fairness. Nothing makes the user press a key,
  so liveness is claimed only when the engine is not paused for ever.
* `Shells`: the session's loop ticks (every 200 ms) and calls end, because providers have
  time limits; the store may fail `MaxStoreFaults` times, not for ever. In the blocking
  play the loop and the engine's threads run.
* `MCSources`: both threads of the source run, and a receive returns: the client has an
  idle limit. The buffer's mutex is given back again and again by a reader that waits,
  which is why the append needs strong fairness. A plugin's callers run and their time
  limits run out; the lock of the provider is strongly fair. A plugin's thread has no
  fairness at all: a script may hang for ever.
* `MCCovers`: the worker runs (its links have time limits), a call of the core thread
  ends; the cache's mutex is taken for one put at a time (strong fairness of the call
  that waits for it). None for the user, nor for another program.
* `MCLookups`: time passes and threads that can move do (weak fairness): every request
  has a time limit.
* `PlayQueue` has none: its liveness property states as a premise that tracks keep
  ending. All other runs ask for safety only.

## 5. What the runs that are violated show

* **A pause can be lost** (`PauseHolds`). The callback reads the state before it takes
  frames (`playback/engine.rs:612`) and stores Playing, Stopped or Buffering after it
  (`:622-630`) without looking again. A `pause()` in between is overwritten.
* **A server that refuses is reported reachable** (`ReachableMeansAccepted`). Jellyfin's
  `health` takes a user id learned before for a sign-in
  (`provider/remote/jellyfin.rs:178`, `:94-98`), and a track count that is refused only
  adds to the detail (`:193-205`).
* **The blocking play stops in the middle of its list** (`PlaysToTheEnd`; `session.rs:1271`
  says "Run until the queue ends"). The playing track may run out and the callback store
  Stopped between the tick's look at the engine and the loop's `state()` (`:1281`), most
  easily while the tick awaits the next track's provider. `PlayReturns` says only that the
  command returns.
* **A file added during a scan may stay invisible** (`AdditionsShowUp`;
  `provider/local.rs:163-164` says additions and deletions show up, `session.rs:1018-1021`
  that skipping must hide no file). The scan's time is that of its end, so a change in a
  directory it has listed, or in its last millisecond, is never newer
  (`library/mod.rs:842`), and every later scan is skipped until something else changes. The
  same holds of a directory that was unreadable during a scan and is readable again.
  `SkipIsJustified` has this as its premise (`unseen`).

## 6. Seen while modelling

These are behaviours the models have and no run states as a property.

* Player: a repeat or shuffle switch after the read-ahead changes what
  `advance_after_finish` does, not what was queued, so the cursor may leave the track that
  is heard (`playback/player.rs:383`, `playback/queue.rs:263`). `start_current` closes the
  listen before the source is resolved (`playback/player.rs:197`): on an error the old
  engine plays on uncounted.
* Blocking play: the `?` after `tick` leaves before the listens are written
  (`session.rs:1280`), and a write that fails (`:1297`) takes them with it.
* Engine: it may count as finished with a track in hand, whatever the doc says
  (`playback/engine.rs:680`). A decoder that found no job stores `idle = true` (`:563`)
  after the caller's `idle = false` (`:438`, `:463`), takes the job the caller pushed
  meanwhile and opens it; until its first frames are in the ring `finished()` (`:683-687`)
  is true. The player drops the engine: a track that was queued ahead starts again on the
  next engine, with a gap, but the first track of an engine is passed over.
  `EveryTrackIsHeard` names this case (`stale`) and shows it is the only one in which a
  track that could be opened is lost. An error may be swallowed, although `:456-460` says
  it is not: the slot keeps its first (`:335-341`) and is emptied only when everything has
  finished (`playback/player.rs:395-401`). What does hold is that something is told, of the
  track or of one before it (`SomethingIsTold`).
* Engine: the callback takes the ring's mutex with a blocking `lock()`
  (`playback/engine.rs:98`; the comment at `:62-65` says it does not wait). Drop's join
  (`:717`) waits for a decoder in an HTTP read.
* HTTP source: a second read after the one that was given the error reports an end of
  file (`playback/http_source.rs:192`).
* Plugins: a thread that was given up can overwrite the store with its old snapshot
  (`plugin/host.rs:321`), which is the premise of `StoredIsKept`. `plugin/mod.rs:846` says
  no thread or secret file is left behind; `shutdown` waits two seconds
  (`plugin/script.rs:249`) and then leaves a stuck thread to itself. A tool whose own
  child keeps its output open holds the engine beyond every limit (`plugin/host.rs:451`).
  A secret file whose writing fails after its creation stays (`:264`). A deleted file
  counts as changed by hand (`plugin/catalog.rs:1275`), so an update that was interrupted
  and changes the name of the script is not completed. A plugin that
  changes on disk between discovery and load is checked as discovered and run as loaded
  (`plugin/mod.rs:378`).
* Covers: of two puts that overlap the later one drops the other's entry
  (`artwork/cache.rs:211`; the header at `:13` says otherwise). An image left over for an
  hour and taken again (`:230`) may be removed as an orphan before its entry is written
  (`:254`). "Never makes playback wait" (`artwork/worker.rs:3`) does not hold for the mutex
  of a plugin that both use.
* Covers: an album whose title normalises to nothing, like one that is all brackets, takes
  any release's cover: it is no filter (`artwork/lookup.rs:99-101`, though `:84` says "only
  a release titled like it") but counts as given in the chain (`artwork/chain.rs:184-187`,
  `:223`). `Untitled` is that album; `AnswersAreJustified` excepts it.
* Rate limits: two threads may call a service at once, although `net/mod.rs:195` promises
  the interval between calls. `last` may be a moment to come, and the time since it counts
  as zero (`:237`): who asks while another sleeps waits the interval from now, and both wake
  together, though nobody was late. `Acquire` does the same. What holds is each thread's
  own spacing (`OwnCallsAreSpaced`), hence at most one call per thread in an interval.
* Identity: of several recordings under one code `identity/musicbrainz.rs:312-323` takes the
  first of the reply, which then has confidence 1.0 (`identity/mod.rs:473-478`), although
  that order "is not stable" and such an answer "unacceptable" (`identity/mod.rs:520-523`).
  `IdentityIsEvidence` claims independence of the order for text and sound only, and of a
  code that the answer is tied to it and comes from nothing else.
* Servers: two commands that overlap undo each other's change (`session.rs:871`); a save
  cut by a crash leaves a file no command reads (`provider/remote/mod.rs:199`).
* Page: the answer of a statistics or card call marks the panel fresh although listens
  were recorded since (`app.js:1261`; the comment at `:2338-2341` says numbers must not go
  stale); the list of plugins asked at the start may overwrite a newer one (`:2389`); a
  plugin removed on one tab stays "installed" on the other's card (`:1866`); theme commands
  run beside the core thread (`src/crates/headshell/src/theme.rs:361`) and may cross.
* `src/crates/headshell/src/core_thread.rs:103` says `shutdown` is expected to find nothing
  to write; it closes the playing track's listen itself.

Properties with a premise name these cases, and some of section 5, as history (`strayed`,
`calm`, `overrun`, `lasting`, `late`, `unseen`, `stale`), so that they hold for everything
else.

## 7. Proofs

A theorem holds for every value of the constants that satisfies the assumptions its module
names; the runs check the same property on one instance. The assumptions say that bounds
are natural numbers, that what stands for "nothing" is none of the things it could be
mistaken for, and of what kind the given data are: `NoTrackAssumption`, `MaxLenAssumption`
(queue), `AudioEngineAssumption`, `PlayerAssumption` (lists of tracks are not empty, as
`play_items` checks), `LiveSessionAssumption`, `HttpAssumption` (sizes are positive),
`PluginAssumption`, `LookupsAssumption` (intervals are numbers), `CoversAssumption`,
`StoreAssumption` (an index that is missing or unreadable is none of the indices),
`WorldAssumption` (a missing answer is none of the answers; releases of one identifier are
one release), `ScanAssumption` (files and directories are different things, and each file
is in a directory), `LibraryAssumption` (finitely many keys; each migration has
statements; what archives and the player tell of is in the tables' keys),
`PluginStoreAssumption` (releases name releases, hosts are lists of labels; "by hand" is
never published), `SetupAssumption` (that of `Servers`: every address has a protocol; that
of `PluginHost`: a plugin's time limit is not zero), `DesktopAssumption` and
`PanelsAssumption` (JavaScript's `null` is none of its strings). TLC evaluates each of
them in the run of its module.

`QueueProofs`, for every set of tracks and every bound on the list:

* `InvariantHolds`: `Machine!Spec => []MachineInv`, well-formedness together with "not shuffled
  means plain order". Neither half is inductive without the other: switching shuffle off
  needs the order to be a permutation to find the playing item's place, and appending to a
  plain order is a permutation only because the order is one of exactly the indices.
* `QueueWellFormed`, `PlainOrderHolds`, `PeekAgreesHolds`, `NoImmediateRepeatHolds`, and the
  action property `SettingsKeepCurrentHolds`.

It has one lemma per operation (`ReplaceKeeps`, `AppendKeeps`, `FollowKeeps`, ...), which
the queue's own machine and the player both cite; `MachineStep` has one step per action.
The machine is the instance of `MCPlayQueue`, which `MCSources` runs beside its other parts,
so that the player's proofs can extend the module.

`AudioEngineProofs`, for every ring, packet, device buffer, number and length of tracks:

* `PlayedHolds`, `TransitionHolds`. The counters are updated after the accesses they count,
  so neither is right at every moment. The invariant counts what they will show (`Pushed`,
  `Popped`): place p of the output is the p-th frame ever written, a slice is an interval
  of places, the ring holds the places between the two counts, and each place has the
  number of the slice it lies in. Once the stop flag is set the ring is thrown away, and
  the invariant claims nothing more (`EngineInv == ~stop => Good`).

`ShellsProofs`, for every list of tracks, every number of engines, keys and faults, and
both shells:

* `ListensHold`, `RoundsHold`, `NothingIsLost`. What the player calls the playing track is
  the entry of the engine's line under that number (`OnLine`), and so is whatever sounded
  under it; a new engine has a new number (`EngineInv`, `PlayerInv`). So closing the
  playing track names what was heard, and every play that passed the rule is either the
  playing track's or has its listen. `SessionInv` and `CliInv` say where the listens are
  between the player, the held-back ones and the store; the shells only move them on.

`SourcesProofs`, for every size of the buffer, the chunks and the body, every number of
starts and calls:

* `SourceInvariant`: that nothing is cut off is not inductive by itself. It needs that
  `done` is set only after the download can neither receive nor fail any more (`Phases`),
  that what was received is in the buffer or in the chunk at hand (`Bytes`), that a failure
  is in the slot until it is told (`ErrorSlot`), and that the lock keeps what the reader
  saw true until it acts on it (`ReaderAt`).
* `SourceTypeCorrect`, `NothingIsCutOffHolds`.
* `SourceIsAStream`: `Spec => ImplementsStream`, the refinement. `ReceiveRefines`,
  `DownloadRefines` and `ReaderRefines` map every step of each thread to a step of
  `ByteStream` or to none, under the invariant: the flag finishes the stream because the
  bytes are all in the buffer by then, and a reader's answer is the stream's because of
  `ReaderAt`.
* `PluginInvariant`: a caller holds the provider's mutex from its first look to its answer
  (`OneInside`), a call's number is used once and who still has it is the thread it was
  sent to or one left behind (`Given`, `Distinct`, `Owned`), so that between two calls the
  engine in use is quiet, and during one it works for the caller that waits (`Engines`).
  What is stored is in the file and in the snapshot of the engine in use, and the
  temporary file is that engine's until it is renamed (`Kept`).
* `LeftBehindHolds` and `StoredHolds` follow from it.

`CoversProofs` and `LibraryProofs` hold several parts each. `Covers` and `Library` are
extended, the others are the instances of `MCCovers`, `MCLookups` and `MCScan`, which the
runs use; the assumption of each is a hypothesis of its theorems. `Worlds` and
`Resizes` of the covers are constants: the run gives them values, the theorems do not. The
library's folds and sums are functions over intervals and finite sets: what they come to
is proved by a smallest counterexample (`FoldsExist`, `SumsExist`).

`CoversProofs`. The calls, for every number of threads and services, every interval,
lateness and number of retries:

* `ReservationsHold`: the last reservation of a service lies no further back than any
  thread's last call, but for `MaxLate` (`Reserved`), and who sleeps for a service will
  have waited long enough (`Sleeping`). The second alone is not inductive: a new
  reservation is long enough only because of the first.
* `OwnSpacing`: `Spec => OwnCallsAreSpaced`. It is no bound on two threads together but
  one call for each (section 6).

The cover worker, for every set of albums, any number of queues and rows:

* `RowsAreKeptInMind`: `Spec => []NoRowIsForgotten`. A hand-over forgets no row only
  because the worker's lookup is of a queue that is gone or of a row of this one
  (`Looking`), because its providers are the queue's or will be picked up (`Linked`), and
  because equal albums were found in equal states when the core asked (`Handing`).
  `RetainIs` says what `Retain` leaves of a list; TLC compares it with `SelectSeq`.

The cover cache, for any number of openings, keys, images, ticks and crashes:

* `FoundKeepsItsImages` and `EntriesAreMerged`, from `StoreInv`: an opening that is about
  to write holds its images on disk, label before thumb before entry (`HasImages`); the
  index it read may be old, but lacks no entry that is to last (`IsFresh`). Neither
  follows from the files alone.

The chain, for every answer of every link (a theorem about a single state):

* `TheChainIsRight`: `AnswersAreJustified`. The order of the releases decides nothing,
  because the keys are a linear order that tells different releases apart; whatever is
  found is the link's own or of a release titled like the album, unless the album has no
  title after normalisation; "not found" is kept only when every link said so.

`LibraryProofs`. The scan, for every tree of folders, any number of processes, files and
changes:

* `StampsVouch`: `Spec => []StampsAreHonest`. A row is not enough; what a scan has in hand
  must be honest, too: a stamp it knew, a stamp it asked for and not yet read under
  (`HonestScan`). A file that changes between the two has a later stamp, because
  stamps are never to come (`StampsArePast`).
* `QuietScans`: a scan nothing changed under replaces the catalog by a mirror of the disk.
  The walk is followed by the set of directories it has done with (`Accounts`): what is
  below them was found, is being read or is still to be looked at.
* `SkipsAreJustified`: a directory no newer than the catalog holds what the catalog says,
  but for files changed in place, as long as nothing escaped the scans since the last one
  that saw everything (`NothingEscaped`, which that scan restores: `SeesAll`), so what is
  skipped had nothing to find. The premise cannot go: `AdditionsShowUp` is violated.

The library, for every migrations' list, archive and question, any number of processes
and crashes:

* `MigrationsAreWhole` and `ImportsAreResolved`, from `LibraryInv`: the version in the file
  is never ahead of the statements that took effect (`DoneTo`), and who is past the
  version check read it; what an import found for a key is in the row or still on its
  list (`Imports`), whatever other processes import, play and set between its steps.
* `SearchIsTheStatistics`: `Spec => []SearchAgreesWithStats`. On top of `LibraryInv` it
  needs that rows stand under the key of their own track and that listens are of rows that
  are there, no two of them alike (`LibRecorded`). Then a hit's listens are the plays of
  its key; the sum of a fold does not depend on the order of its items, and the sum over
  groups is the sum over all.

`SetupProofs`, for every manifest, catalog, address, time limit, and every number of
servers, programs and commands:

* `GrantHolds`, `OverrunHolds`, `SecretsEnd` of one engine (`HostInv`): what is asked was
  looked up in the manifest hop by hop, a gate looks at the clock before it asks, and an
  engine knows every whole secret file until it is gone (`HostKnows`).
* `RepairableHolds`, `LoadsWithinGrant`, `HandWorkHolds` of a plugin's directory
  (`StoreInv`). An update finds the files as their record has them and leaves each as it
  was or as the new release has it (`Updates`); after a crash this is all that is known
  (`Halfway`), and a manifest still has its script (`Scripted`). The ledger holds what
  was said yes to while it is torn, too (`Grants`), and what was found reaches no further
  (`Granted`); that a normalised list of hosts allows the same hosts is a lemma about
  suffixes (`NormalizedAllows`).
* `ToldHolds` of the servers (`ServersInv`): the list a command prepares is the one that
  was read, plus or minus its own name, unless another command wrote meanwhile; names are
  in it once (`Lists`), so what resolves an item finds the server that listed it.

`DesktopProofs`, for all tracks and lists, every number of calls and events:

* `ReportIsOnItsWay`: the page's report is what the core would answer now, or that answer
  is on its way, or something is under way that makes the page ask again: an event, a
  cover to announce, a queue to draw, the note that somebody asked meanwhile
  (`Catching`). At most one refresh is under way (`OneRefresh`), and the worker has the
  player's queue and registry or will be given them (`HandedOver`).
* `PaintedHolds`, known from the page alone, and `CatchUpHolds`.
* `PanelsAreOnTheirWay`, of the panels, for every number of gestures, calls and failures: a
  panel fits what is stored, or a call that draws it is under way, or one whose answer will
  make the page ask (`Drawing`); an answer that nothing overtook is what is stored now
  (`AnswersFit`), which holds only because every change marks the answers in hand; the
  registry is built of the stored servers unless a command broke off (`RegistryFits`), and
  the last word on the busy line is that no job runs (`BusyEnds`). `AnswerEffect` says for
  each command what its answer makes right, `EndKeeps` what its completion makes old.
* `PanelsHold`: `OneSpec => []PanelsCatchUp`.

Only model-checked:

* everything about liveness: fairness and ENABLED are outside the prover;
* `IdentityIsEvidence`: the choice among candidates sorts and flattens lists by operators
  (`SortSeq`, `FlattenSeq`, `SelectSeq`) whose values the provers cannot reach, because
  that needs an induction over data.

Each module with a state of some size keeps a `TypeOK` (`PanelsTypeOK`) as the statement
of its types; those of `PlayQueue` and `HttpSource` are proved, those of the others are,
as far as the arguments need them, parts of the proved invariants.

## 8. Not modelled, and why

* Sample conversion, resampling, image decoding, drawing of the sleeve, argument parsing,
  output: data or I/O without a state the properties could see.
* Symbolic links: of a linked file the scan takes the link's stamp and the target's tags
  (`provider/local.rs:395`), so a target edited in place keeps its row.
* What the audio device reports by itself, and a stream that cannot be started.
* A permanent failure of the page's cover report (no worker could be started).
* The play anchor: one read of the engine turned into a value; the page estimates from it.
* Reading of tags, JSON, zip files and times; URL building and MD5; the string distance
  (a constant of `Identity`).
* Diagnostics and configuration: read or written once, by one command. The secrets file
  and `ui.json` have the same torn write as `servers.json`, which is modelled.
* `NoListenIsLost` says nothing of a session that ended without `shutdown`;
  `WrittenEveryRound` says what such an end can take.
* The engine and its HTTP source are not composed: a decoder that waits in a read is in
  `HttpSource`, one whose packets answer at once in `AudioEngine`.
* Parked and throw-away code (`src/parked`, `src/spike`) is not part of the program.

## 9. What could come next

1. The engine as the implementation of an abstract gapless output, with `Player`'s reduced
   engine as that output.
2. The composition of `PluginHost` with `PluginProvider`: secret files of engines that are
   given up and end late.
3. `IdentityIsEvidence` with a definition of sorting the provers can use.
