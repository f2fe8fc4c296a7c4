------------------------------- MODULE Catalog -------------------------------
(***************************************************************************)
(* The plugin catalog (plugin/catalog.rs): how an index is read, what the  *)
(* plugin directory says about an entry, and how the index is built from   *)
(* the catalog's own directories.                                          *)
(*                                                                         *)
(* The content of a file is the release it belongs to, or "hand" when a    *)
(* person wrote it; a hash tells contents apart and is the content.  An    *)
(* entry of an index names the release its files are of and the release    *)
(* whose manifest it shows: they are the same unless the index is wrong.   *)
(***************************************************************************)
EXTENDS Manifest

CONSTANTS
  Name,        \* the plugin this is about: its directory and its entry
  ManifestOf   \* the manifest in each release and in "hand"

MANIFEST == "plugin.json"
None == "none"

Content == DOMAIN ManifestOf

MainFile(content) == ManifestOf[content].main

FilesOf(release) == {MANIFEST, MainFile(release)}

Mains == {MainFile(c) : c \in Content}
Paths == {MANIFEST} \cup Mains

---------------------------------------------------------------------------
(* The index.                                                              *)

ValidVersion(version) == version # None

\* The path list must be the manifest and its script, each once, each with a
\* digest and an address that may be fetched.
ValidFiles(entry, loopback) ==
  /\ FilesOf(entry.release) = FilesOf(entry.shown)
  /\ entry.hashed /\ FetchableUrl(entry.url, loopback)

\* A broken entry keeps its name and version; what is wrong goes with it.
ParseEntry(entry, loopback) ==
  [name |-> ManifestOf[entry.shown].name, version |-> ManifestOf[entry.shown].version,
   release |-> entry.release, shown |-> entry.shown,
   problem |-> LET m == ManifestOf[entry.shown]
               IN  \/ ~ValidCatalogName(m.name) \/ ManifestProblem(m, m.name) # "none"
                   \/ ~ValidVersion(m.version) \/ ~ValidFiles(entry, loopback)]

\* A name listed twice is not guessed: neither entry can be installed.
Parse(index) ==
  LET loopback == UrlHost(index.url) \in Loopback
      parsed == [i \in DOMAIN index.plugins |-> ParseEntry(index.plugins[i], loopback)]
      twice(name) == Cardinality({i \in DOMAIN parsed : parsed[i].name = name}) > 1
  IN  [i \in DOMAIN parsed |->
         [parsed[i] EXCEPT !.problem = @ \/ twice(parsed[i].name)]]

Readable(index) == index.schema = 1

Listed(catalog, name) == \E i \in DOMAIN catalog : catalog[i].name = name

Lookup(catalog, name) ==
  catalog[CHOOSE i \in DOMAIN catalog :
            /\ catalog[i].name = name
            /\ \A j \in DOMAIN catalog : catalog[j].name = name => i <= j]

---------------------------------------------------------------------------
(* The plugin directory: "kind", the content of each path, and the origin  *)
(* record.                                                                 *)

NoFiles == [p \in Paths |-> None]
NoRecord == [state |-> "none", version |-> None, files |-> NoFiles]
Absent == [kind |-> "absent", files |-> NoFiles, record |-> NoRecord]

RecordOf(release) ==
  [state |-> "read", version |-> ManifestOf[release].version,
   files |-> [p \in Paths |-> IF p \in FilesOf(release) THEN release ELSE None]]

\* A slip: only the files the new release has are compared.
ModifiedSlip(dir, entry) ==
  {p \in FilesOf(entry.release) : /\ dir.record.files[p] # None
                                  /\ dir.files[p] \notin {dir.record.files[p], entry.release}}

\* A file with the catalog's new content is the trace of an interrupted
\* update; one that is gone is not as installed.
Modified(dir, entry) ==
  {p \in Paths : /\ dir.record.files[p] # None
                 /\ dir.files[p] # dir.record.files[p]
                 /\ ~(p \in FilesOf(entry.release) /\ dir.files[p] = entry.release)}

StateOf(dir, entry) ==
  CASE dir.kind = "absent" -> "NotInstalled"
    [] dir.kind # "absent" /\ dir.record.state = "corrupt" -> "Unreadable"
    [] dir.kind # "absent" /\ dir.record.state = "none" -> "Manual"
    [] OTHER -> IF Modified(dir, entry) # {} THEN "Modified"
                ELSE IF entry.version # None /\ entry.version # dir.record.version
                THEN "UpdateAvailable"
                ELSE "Current"

Delisted(dir, catalog) ==
  /\ dir.kind # "absent" /\ ~Listed(catalog, Name)
  /\ dir.record.state = "read"

UpdateCandidate(dir, catalog) ==
  (dir.kind # "absent" /\ Listed(catalog, Name)) \/ Delisted(dir, catalog)

\* The manifest downloaded must be the one the index showed.
VerifiedManifest(entry) ==
  /\ ManifestProblem(ManifestOf[entry.release], Name) = "none"
  /\ ManifestOf[entry.release] = ManifestOf[entry.shown]

---------------------------------------------------------------------------
(* Building the index: every directory that has a manifest is a candidate, *)
(* one invalid plugin refuses the whole, and so does finding none.         *)

IndexOne(dir) ==
  [name |-> dir.name, release |-> dir.release,
   problem |-> \/ ~ValidCatalogName(dir.name)
               \/ ManifestProblem(ManifestOf[dir.release], dir.name) # "none"
               \/ ~ValidVersion(ManifestOf[dir.release].version)]

BuildIndex(dirs) ==
  LET candidates == {d \in dirs : ~d.hidden}
  IN  IF candidates = {} \/ \E d \in candidates : IndexOne(d).problem
      THEN [built |-> FALSE, plugins |-> {}]
      ELSE [built |-> TRUE, plugins |-> {IndexOne(d) : d \in candidates}]
=============================================================================
