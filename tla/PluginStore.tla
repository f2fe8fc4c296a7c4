----------------------------- MODULE PluginStore -----------------------------
(***************************************************************************)
(* One plugin's life on one machine: installed from the catalog, updated,  *)
(* approved, removed and loaded.  The commands are those of Session        *)
(* (session.rs) with the catalog (plugin/catalog.rs), the tools            *)
(* (plugin/artifact.rs), the consent ledger (plugin/consent.rs) and the    *)
(* discovery of plugins (plugin/mod.rs) behind them.                       *)
(*                                                                         *)
(* Two processes work on the same files: "cli" runs one command at a time, *)
(* one file write per step, and may end after any of them, by an error or  *)
(* a crash; "app" lists the plugins and loads them when it starts.         *)
(* Somebody may also put files there by hand.  The catalog moves on between *)
(* two commands, backwards too: a command finds any index it may hold.     *)
(* An update of all plugins is one of each of them.                        *)
(***************************************************************************)
EXTENDS Catalog

CONSTANTS
  Platform,      \* current_platform()
  Repositories,  \* what the catalog's repository may hold: sets of directories
  WrongIndexes,  \* indexes nobody should publish, and somebody may
  Hosts,         \* the hosts the properties ask about
  MaxEdits       \* bound of the model: changes made by hand

\* What a plugin may ask for; every host is the sequence of its labels.
Patterns == [wild : BOOLEAN, labels : Seq(STRING), dotted : BOOLEAN]

Releases == Content \ {"hand"}

\* "hand" stands for what a person wrote, and is never published.
ASSUME PluginStoreAssumption ==
  /\ MaxEdits \in Nat
  /\ "hand" \in Content /\ None \notin Content
  /\ \A c \in Content : ManifestOf[c].net \subseteq Patterns
  /\ Hosts \subseteq Seq(STRING)
  /\ \A d \in Repositories : IsFiniteSet(d) /\ \A p \in d : p.release \in Releases
  /\ \A index \in WrongIndexes :
       /\ Len(index.plugins) \in Nat /\ DOMAIN index.plugins = 1..Len(index.plugins)
       /\ \A i \in DOMAIN index.plugins : index.plugins[i].release \in Releases

VARIABLES
  dir,      \* the plugin's directory
  tools,    \* the runtime directory: what is in the file of each tool
  ledger,   \* the consent ledger, and whether its file can be read
  cli,      \* the command under way
  app,      \* the program that loads the plugin
  edits,
  \* history, read by no action
  saidYes,  \* the permissions the user said yes to, last
  late,     \* paths changed by hand while an update was under way
  mauled,   \* a removal stopped half-way
  halfway   \* the release whose update began to write and has not ended

files == <<dir, tools, ledger>>
history == <<saidYes, late, mauled, halfway>>
vars == <<files, cli, app, edits, history>>

Requires(content) == ManifestOf[content].requires
Tools == UNION {{<<Requires(c)[i], FileName(Requires(c)[i], Platform)>> :
                   i \in DOMAIN Requires(c)} : c \in Content}
ToolFiles == {t[2] : t \in Tools}
AssetHash(requirement) == requirement.assets[Platform].hash
Hashes == {AssetHash(t[1]) : t \in {u \in Tools : HasAsset(u[1], Platform)}}

Idle == [pc |-> "idle", cmd |-> "none", entry |-> <<>>, todo |-> <<>>,
         ledger |-> NoConsent, said |-> {}]
AppOff == [pc |-> "off", seen |-> None, grant |-> {}]

Init ==
  /\ dir = Absent /\ tools = [f \in ToolFiles |-> None]
  /\ ledger = [torn |-> FALSE, record |-> NoConsent]
  /\ cli = Idle /\ app = AppOff /\ edits = 0
  /\ saidYes = {} /\ late = {} /\ mauled = FALSE /\ halfway = None

---------------------------------------------------------------------------
(* The world outside.                                                      *)

EntryOf(p) ==
  [release |-> p.release, shown |-> p.release, hashed |-> TRUE,
   url |-> [scheme |-> "https", authority |-> "name", host |-> <<"com">>]]

\* The indexes that may be found published: build_plugin_index writes those
\* built from a repository, and somebody else the wrong ones.
Published ==
  {[url |-> EntryOf(CHOOSE p \in BuildIndex(d).plugins : TRUE).url, schema |-> 1,
    plugins |-> SetToSeq({EntryOf(p) : p \in BuildIndex(d).plugins})] :
     d \in {r \in Repositories : BuildIndex(r).built}}
  \cup WrongIndexes

\* What this program makes of them.
Catalogs == {Parse(i) : i \in {x \in Published : Readable(x)}}

HandMade == [p \in Paths |-> IF p \in FilesOf("hand") THEN "hand" ELSE None]

PutByHand ==
  /\ dir = Absent /\ edits < MaxEdits /\ edits' = edits + 1
  /\ \E kind \in {"dir", "link"} : dir' = [Absent EXCEPT !.kind = kind, !.files = HandMade]
  /\ UNCHANGED <<tools, ledger, cli, app, history>>

\* A file is changed, or one is added.
EditByHand ==
  /\ dir.kind # "absent" /\ edits < MaxEdits /\ edits' = edits + 1
  /\ \E p \in Paths :
       /\ dir' = [dir EXCEPT !.files[p] = "hand"]
       /\ late' = IF cli.cmd = "update" THEN late \cup {p} ELSE late
  /\ UNCHANGED <<tools, ledger, cli, app, saidYes, mauled, halfway>>

---------------------------------------------------------------------------
(* A command begins and ends.                                              *)

Ended == cli' = Idle /\ late' = {}

HasManifest == dir.kind # "absent" /\ dir.files[MANIFEST] # None

OnDisk == ManifestOf[dir.files[MANIFEST]]

\* PluginManifest::load
Loads == HasManifest /\ ManifestProblem(OnDisk, Name) = "none"

Begin(cmd, pc) ==
  /\ cli.pc = "idle"
  /\ cli' = [Idle EXCEPT !.cmd = cmd, !.pc = pc]
  /\ UNCHANGED <<files, app, edits, history>>

\* A plugin that is on disk is not installed again: only its tools are.
BeginInstall == Begin("install", IF dir.kind = "absent" THEN "fetch" ELSE "tools")

BeginUpdate == Begin("update", "fetch")

BeginRemove == dir.kind # "absent" /\ Begin("remove", "forget")

BeginConsent ==
  \E cmd \in {"approve", "disable", "enable", "forget"} : Begin(cmd, "consent")

\* An error a step returns, or the end of the process; an install that
\* returns takes its staging directory with it, one that is killed does not.
Stop ==
  /\ cli.pc # "idle"
  /\ Ended
  /\ UNCHANGED <<dir, tools, ledger, app, edits, saidYes, mauled, halfway>>

---------------------------------------------------------------------------
(* The catalog: install and update.                                        *)

\* catalog::fetch, and what the command makes of the entry.
GoesOn(catalog) ==
  LET entry == Lookup(catalog, Name)
  IN  /\ Listed(catalog, Name) /\ ~entry.problem
      /\ CASE cli.cmd = "install" -> dir.kind = "absent"
           [] cli.cmd = "update" -> /\ UpdateCandidate(dir, catalog)
                                    /\ StateOf(dir, entry) = "UpdateAvailable"

Fetch ==
  /\ cli.pc = "fetch"
  /\ \E catalog \in Catalogs :
       IF GoesOn(catalog)
       THEN /\ cli' = [cli EXCEPT !.pc = "download", !.entry = Lookup(catalog, Name)]
            /\ UNCHANGED late
       ELSE Ended
  /\ UNCHANGED <<files, app, edits, saidYes, mauled, halfway>>

\* Every file with its digest, and the manifest that was shown; nothing is
\* written unless all of it is right.
Download ==
  /\ cli.pc = "download"
  /\ IF VerifiedManifest(cli.entry)
     THEN /\ cli' = [cli EXCEPT !.pc = IF cli.cmd = "install" THEN "move" ELSE "script"]
          /\ UNCHANGED late
     ELSE Ended
  /\ UNCHANGED <<files, app, edits, saidYes, mauled, halfway>>

StagedDir(release) ==
  [kind |-> "dir", record |-> RecordOf(release),
   files |-> [p \in Paths |-> IF p \in FilesOf(release) THEN release ELSE None]]

\* The staging directory is filled outside the plugin directory, where nobody
\* looks; Staging::move_to is one rename, unless somebody else was faster.
Move ==
  /\ cli.pc = "move"
  /\ IF dir.kind = "absent"
     THEN /\ dir' = StagedDir(cli.entry.release)
          /\ cli' = [cli EXCEPT !.pc = "tools", !.entry = <<>>]
          /\ mauled' = FALSE /\ halfway' = None /\ UNCHANGED late
     ELSE Ended /\ UNCHANGED <<dir, mauled, halfway>>
  /\ UNCHANGED <<tools, ledger, app, edits, saidYes>>

Replace(pc, path, next) ==
  /\ cli.pc = pc /\ dir.kind # "absent"
  /\ dir' = [dir EXCEPT !.files[path] = cli.entry.release]
  /\ cli' = [cli EXCEPT !.pc = next] /\ halfway' = cli.entry.release
  /\ UNCHANGED <<tools, ledger, app, edits, saidYes, late, mauled>>

\* A slip: the manifest goes first, the script after it.
ReplaceScriptSlip == Replace("script", MANIFEST, "stale")

\* Script first, manifest next, origin record last.
ReplaceScript == Replace("script", MainFile(cli.entry.release), "manifest")

ReplaceManifest == Replace("manifest", MANIFEST, "stale")

RemoveStale ==
  /\ cli.pc = "stale"
  /\ dir' = [dir EXCEPT !.files = [p \in Paths |->
               IF dir.record.files[p] # None /\ p \notin FilesOf(cli.entry.release)
               THEN None ELSE dir.files[p]]]
  /\ cli' = [cli EXCEPT !.pc = "record"]
  /\ UNCHANGED <<tools, ledger, app, edits, history>>

WriteRecord ==
  /\ cli.pc = "record"
  /\ dir' = [dir EXCEPT !.record = RecordOf(cli.entry.release)]
  /\ cli' = [cli EXCEPT !.pc = "tools", !.entry = <<>>] /\ halfway' = None
  /\ UNCHANGED <<tools, ledger, app, edits, saidYes, late, mauled>>

---------------------------------------------------------------------------
(* The tools the engine downloads.                                         *)

RequirementState(requirement) ==
  CASE ~HasAsset(requirement, Platform) -> "Unsupported"
    [] OTHER -> LET found == tools[FileName(requirement, Platform)]
                IN  IF found = None THEN "Missing"
                    ELSE IF found = AssetHash(requirement) THEN "Installed"
                    ELSE "Corrupt"

\* install_artifacts: one requirement after the other.
ReadTools ==
  /\ cli.pc = "tools"
  /\ IF Loads
     THEN cli' = [cli EXCEPT !.pc = "tool", !.todo = OnDisk.requires] /\ UNCHANGED late
     ELSE Ended
  /\ UNCHANGED <<files, app, edits, saidYes, mauled, halfway>>

NextTool == [cli EXCEPT !.pc = "tool", !.todo = Tail(@)]

\* ArtifactStore::install up to the temporary file.  No release for this
\* platform, a file that is there, and a source that cannot be reached or
\* no longer exists are outcomes, not errors: the next one is tried.
OpenTool ==
  /\ cli.pc = "tool" /\ cli.todo # <<>>
  /\ \/ cli' = NextTool
     \/ /\ RequirementState(Head(cli.todo)) \in {"Missing", "Corrupt"}
        /\ cli' = [cli EXCEPT !.pc = "stream"]
  /\ UNCHANGED <<files, app, edits, history>>

\* The body has streamed to the temporary file: renamed when its hash is the
\* declared one, deleted when it is not or the download broke off.
CloseTool ==
  LET tool == Head(cli.todo)
      file == FileName(tool, Platform)
  IN  /\ cli.pc = "stream"
      /\ cli' = NextTool
      /\ \/ UNCHANGED tools
         \/ tools' = [tools EXCEPT ![file] = AssetHash(tool)]
      /\ UNCHANGED <<dir, ledger, app, edits, saidYes, late, mauled, halfway>>

\* The answer: the consent the ledger holds for what is now asked.
ToolsDone ==
  /\ cli.pc = "tool" /\ cli.todo = <<>>
  /\ Ended
  /\ UNCHANGED <<files, app, edits, saidYes, mauled, halfway>>

---------------------------------------------------------------------------
(* Consent and removal.                                                    *)

\* consent_command reads the manifest and the ledger ...
ReadConsent ==
  /\ cli.pc = "consent"
  /\ LET old == ledger.record
         new == CASE cli.cmd = "approve" -> Approve(OnDisk.net)
                  [] cli.cmd = "disable" -> Disable(old)
                  [] cli.cmd = "enable" -> Enable(old)
                  [] cli.cmd = "forget" -> NoConsent
     IN  IF Loads /\ ~ledger.torn /\ (cli.cmd = "approve" \/ old.known)
         THEN /\ cli' = [cli EXCEPT !.pc = "truncate", !.ledger = new,
                           !.said = CASE cli.cmd = "approve" -> OnDisk.net
                                      [] cli.cmd = "forget" -> {}
                                      [] OTHER -> saidYes]
              /\ UNCHANGED late
         ELSE Ended
  /\ UNCHANGED <<files, app, edits, saidYes, mauled, halfway>>

\* ... and save writes it: the file is cut to nothing, then filled.
TruncateLedger ==
  /\ cli.pc = "truncate"
  /\ ledger' = [ledger EXCEPT !.torn = TRUE] /\ cli' = [cli EXCEPT !.pc = "fill"]
  /\ UNCHANGED <<dir, tools, app, edits, history>>

FillLedger ==
  /\ cli.pc = "fill"
  /\ ledger' = [torn |-> FALSE, record |-> cli.ledger] /\ saidYes' = cli.said
  /\ IF cli.cmd = "remove"
     THEN cli' = [cli EXCEPT !.pc = "delete"] /\ UNCHANGED late ELSE Ended
  /\ UNCHANGED <<dir, tools, app, edits, mauled, halfway>>

\* remove_plugin: the consent is forgotten before anything is deleted.
Forget ==
  /\ cli.pc = "forget"
  /\ IF dir.kind = "absent" \/ ledger.torn
     THEN Ended
     ELSE /\ cli' = [cli EXCEPT !.pc = IF ledger.record.known THEN "truncate" ELSE "delete"]
          /\ UNCHANGED late
  /\ UNCHANGED <<files, app, edits, saidYes, mauled, halfway>>

\* A link is removed and its target is not; a directory goes file by file.
Delete ==
  /\ cli.pc = "delete" /\ dir.kind # "absent"
  /\ \/ dir' = Absent /\ mauled' = FALSE /\ halfway' = None /\ Ended
     \/ /\ dir.kind = "dir"
        /\ \E p \in {q \in Paths : dir.files[q] # None} : dir' = [dir EXCEPT !.files[p] = None]
        /\ mauled' = TRUE /\ UNCHANGED <<cli, late, halfway>>
  /\ UNCHANGED <<tools, ledger, app, edits, saidYes>>

---------------------------------------------------------------------------
(* The program that loads the plugin.                                      *)

Loadable ==
  /\ Loads /\ ~ledger.torn
  /\ ConsentStatus(ledger.record, OnDisk.net) = "Approved"
  /\ \A i \in DOMAIN OnDisk.requires : RequirementState(OnDisk.requires[i]) = "Installed"

\* discover: what is loadable by the manifest that is there now ...
Discover ==
  /\ app.pc = "off" /\ Loadable
  /\ app' = [AppOff EXCEPT !.pc = "found", !.seen = dir.files[MANIFEST], !.grant = saidYes]
  /\ UNCHANGED <<files, cli, edits, history>>

\* ... and load reads the manifest again to build the provider, which is
\* PluginProvider's from here on.
Load ==
  /\ app.pc = "found" /\ app' = AppOff
  /\ UNCHANGED <<files, cli, edits, history>>

---------------------------------------------------------------------------
CatalogStep == Fetch \/ Download \/ Move \/ ReplaceScript \/ ReplaceManifest
               \/ RemoveStale \/ WriteRecord
ToolStep == ReadTools \/ OpenTool \/ CloseTool \/ ToolsDone
LedgerStep == ReadConsent \/ TruncateLedger \/ FillLedger \/ Forget \/ Delete

\* `headshell plugin ...`: one command in one process.
PluginCommand == BeginInstall \/ BeginUpdate \/ BeginRemove \/ BeginConsent

Next ==
  \/ PutByHand \/ EditByHand
  \/ PluginCommand \/ Stop
  \/ CatalogStep \/ ToolStep \/ LedgerStep
  \/ Discover \/ Load

Spec == Init /\ [][Next]_vars

---------------------------------------------------------------------------
\* Every variable holds a value of its kind.
TypeOK ==
  /\ dir.kind \in {"absent", "dir", "link"} /\ dir.files \in [Paths -> Content \cup {None}]
  /\ tools \in [ToolFiles -> Hashes \cup {None}]
  /\ ledger.torn \in BOOLEAN /\ app.pc \in {"off", "found"} /\ edits \in 0..MaxEdits
  /\ late \in SUBSET Paths /\ mauled \in BOOLEAN /\ halfway \in Content \cup {None}

ByHand == \E p \in Paths : dir.files[p] = "hand"

\* A manifest on disk has the script it names next to it, at every write of an
\* install and an update and wherever one of them stops; only a removal that
\* stops half-way, or a hand, leaves a manifest without its script
\* (catalog::install, catalog::update).
ManifestHasItsScript ==
  HasManifest /\ ~mauled /\ ~ByHand => dir.files[OnDisk.main] # None

\* What a loaded plugin may reach was said yes to: no host is allowed that
\* the permissions last approved did not allow, whatever was updated,
\* removed, installed again or half-written since.  The one way around is a
\* manifest that changes between the two reads of plugin::load
\* (plugin/mod.rs, plugin/consent.rs).
LoadedWithinGrant ==
  [][Load /\ Loads /\ dir.files[MANIFEST] = app.seen =>
       \A h \in Hosts : AllowsHost(OnDisk.net, h) => AllowsHost(app.grant, h)]_vars

\* What a person wrote into the plugin's directory is lost to a removal only:
\* an update leaves it alone unless it was written while the update was
\* downloading, or to a path the installed version did not have
\* (catalog::update, modified_files).
HandWorkIsKept ==
  [][\A p \in Paths :
       dir.files[p] = "hand" /\ dir'.files[p] # "hand" =>
         \/ cli.cmd = "remove" \/ p \in late
         \/ dir.record.state = "read" /\ dir.record.files[p] = None]_vars

\* What a catalog that still lists the release says of the directory.
Unfinished(release) ==
  \E c \in Catalogs :
    /\ Listed(c, Name) /\ Lookup(c, Name).release = release /\ ~Lookup(c, Name).problem
    /\ StateOf(dir, Lookup(c, Name)) = "Modified"

\* An update that stopped half-way is not taken for a change made by hand, so
\* that the next one finishes it: while the catalog still lists that release
\* and no file of the old one was deleted yet (modified_files).
HalfUpdateIsNotModified ==
  halfway # None /\ ~ByHand /\ ~mauled
  /\ (\A p \in Paths : dir.record.files[p] # None => dir.files[p] # None)
  => ~Unfinished(halfway)

\* Wherever an install or an update stops - a crash between any two of its
\* writes - the plugin still runs or can be brought up to date again.
HalfDoneIsRepairable == ManifestHasItsScript /\ HalfUpdateIsNotModified
=============================================================================
