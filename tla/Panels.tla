------------------------------- MODULE Panels -------------------------------
(***************************************************************************)
(* The panels of the desktop's page (ui/app.js) - statistics, sleeve card, *)
(* import, providers, plugins with their catalog and secrets, themes - the *)
(* commands behind them (commands.rs), and what the core thread does while *)
(* one of these runs.  Desktop has the queue and its covers.               *)
(*                                                                         *)
(* A panel is redrawn when it is opened and after the page's own changes;  *)
(* the statistics and the card are only marked, and computed again at the  *)
(* next opening.  The core runs one command at a time, a long one to its   *)
(* end; calls reach it and their answers reach the page in any order, and  *)
(* the theme store is not behind the core at all.                          *)
(*                                                                         *)
(* What a panel reads is reduced to a value that tells its changes apart;  *)
(* one plugin stands for all.  A command's two orders with itself count    *)
(* too: the same button may be pressed while its call is under way.        *)
(***************************************************************************)
EXTENDS Naturals, FiniteSets, SequencesExt

CONSTANTS
  None,         \* JavaScript's null and undefined
  MaxSteps,     \* bound of the model: what the user and the player do, failures
  MaxSent       \* bound of the model: calls under way when the user does more

VARIABLES
  disk,     \* what is stored: history, servers, registry, plugin, secrets, the theme
            \* selected, and whether the one theme of the user's can be loaded
  sent,     \* calls of the page under way
  notices,  \* events on their way to the page, in order
  ui,       \* what the page knows and shows
  stale,    \* history: the panels whose last answer was overtaken or an error,
            \* and those of a change that failed when it was half done
  steps     \* what was done of MaxSteps

panelVars == <<disk, sent, notices, ui, stale, steps>>

(* What each command reads, and what each changes.                         *)
Reads == [stats |-> "history", sleeve_svg |-> "history", providers |-> "registry",
          servers_list |-> "servers", plugins |-> "plugin", plugin_catalog |-> "plugin",
          secrets |-> "secrets", themes_list |-> "theme", theme_active |-> "theme"]

Changes == [import |-> "history", server_add |-> "servers", server_remove |-> "servers",
            plugin_approve |-> "plugin", plugin_disable |-> "plugin", plugin_enable |-> "plugin",
            plugin_forget |-> "plugin", plugin_install |-> "plugin", plugin_update |-> "plugin",
            plugin_remove |-> "plugin", secret_set |-> "secrets", secret_remove |-> "secrets",
            theme_select |-> "theme"]

(* The jobs `busy` is told of, and the commands that are not the core's.   *)
Long == {"sleeve_svg", "import", "resolve", "provider_test", "provider_scan", "server_add",
         "plugin_catalog", "plugin_install", "plugin_update"}
Themes == {"themes_list", "theme_active", "theme_select"}

Other == {"resolve", "provider_test", "provider_scan", "environment", "queue", "anchor"}
Commands == DOMAIN Reads \cup DOMAIN Changes \cup Other

(* A call: what was asked (the year, the format, the theme, who asked),    *)
(* how far it is, and what it brought.                                     *)
Asks(cmd, arg) == [cmd |-> cmd, arg |-> arg, stage |-> "sent", ok |-> TRUE, got |-> None,
                   overtaken |-> FALSE]

(* Segments, the two years, the panels.                                    *)
Formats == {"square", "story"}
Sections == {"library", "stats", "sleeve", "import", "providers", "plugins", "theme"}
Tabs == {"tabInstalled", "tabCatalog", "tabSecrets"}
Drawn == {"stats", "sleeve", "providers", "servers", "plugins", "badge", "secrets", "themes", "worn"}

PanelsTypeOK ==
  /\ disk.history \in 0..MaxSteps
  /\ {disk.servers, disk.registry, disk.secrets, disk.loads} \subseteq BOOLEAN
  /\ disk.plugin \in {"absent", "not_asked", "needs_approval", "approved", "disabled"}
  /\ \A i \in DOMAIN sent : sent[i].cmd \in Commands /\ sent[i].stage \in {"sent", "running", "done"}
  /\ \A i \in DOMAIN notices : DOMAIN notices[i] = {"busy", "grew"}
  /\ ui.base \in Sections /\ ui.tab \in Tabs /\ DOMAIN ui.shown = Drawn
  /\ stale.late \cup stale.broken \subseteq Drawn

-----------------------------------------------------------------------------
(* The page: what follows a gesture, an answer or an event is the page     *)
(* after it and the calls it makes.                                        *)

Then(page, asks) == [ui |-> page, asks |-> asks]
Shows(page, panel, got) == [page EXCEPT !.shown[panel] = got]

(* runStats, renderStats: the answer marks the statistics as computed,     *)
(* whatever was marked while it was on its way.  The bars of the years are *)
(* only drawn from the report of all time.                                 *)
RunStats(page, year) == Then(page, <<Asks("stats", year)>>)
StatsAnswered(page, c) ==
  Then([Shows(page, "stats", c.got) EXCEPT !.loaded = TRUE, !.years = IF c.arg = None THEN c.got ELSE @], <<>>)

PreviewSleeve(page) == Then(page, <<Asks("sleeve_svg", page.format)>>)
SleeveAnswered(page, c) ==
  Then([Shows(page, "sleeve", [of |-> c.got, format |-> c.arg]) EXCEPT !.previewed = TRUE], <<>>)

(* Choosing the format draws the card again, if there is one.              *)
ChooseFormat(page, format) ==
  LET chosen == [page EXCEPT !.format = format]
  IN  IF page.previewed THEN PreviewSleeve(chosen) ELSE Then(chosen, <<>>)

(* "The history changed: the statistics and the card are recomputed the    *)
(* next time they open."                                                   *)
ImportAnswered(page) == Then([page EXCEPT !.loaded = FALSE, !.previewed = FALSE], <<>>)

RefreshProviders(page) == Then(page, <<Asks("providers", None)>>)
RefreshSecrets(page) == Then(page, <<Asks("secrets", None)>>)
RefreshCatalog(page) == Then(page, <<Asks("plugin_catalog", None)>>)
RefreshThemes(page) == Then(page, <<Asks("themes_list", None)>>)
RefreshPlugins(page) == Then(page, <<Asks("plugins", "panel")>>)

(* The second half of refreshProviders and refreshPlugins comes whether or *)
(* not the first was answered well; boot only wants the badge.             *)
ProvidersAnswered(page, c) ==
  Then(IF c.ok THEN Shows(page, "providers", c.got) ELSE page, <<Asks("servers_list", None)>>)
PluginsAnswered(page, c) ==
  LET badge == IF c.ok THEN Shows(page, "badge", c.got) ELSE page
  IN  IF c.arg = "boot" THEN Then(badge, <<>>)
      ELSE Then(IF c.ok THEN Shows(badge, "plugins", c.got) ELSE page,
                IF page.tab = "tabSecrets" THEN <<Asks("secrets", None)>> ELSE <<>>)

SelectTab(page, tab) ==
  IF tab = page.tab THEN Then(page, <<>>)
  ELSE LET there == [page EXCEPT !.tab = tab]
       IN  IF tab = "tabSecrets" THEN RefreshSecrets(there) ELSE Then(there, <<>>)

(* pluginCard: the buttons a plugin in this state has.                     *)
Offers(plugin) ==
  CASE plugin = "not_asked" -> {"plugin_approve", "plugin_install", "plugin_remove"}
    [] plugin = "needs_approval" ->
         {"plugin_approve", "plugin_install", "plugin_forget", "plugin_remove"}
    [] plugin = "approved" ->
         {"plugin_disable", "plugin_install", "plugin_forget", "plugin_remove"}
    [] plugin = "disabled" ->
         {"plugin_enable", "plugin_install", "plugin_forget", "plugin_remove"}
    [] OTHER -> {}

(* Slip: the list that sent the button is not drawn again.                 *)
PluginButtonAnsweredSlip(page, c) == Then(page, <<>>)

(* pluginButton and the armed remove draw the list again...                *)
PluginButtonAnswered(page, c) == RefreshPlugins(page)

(* ...a catalog's button the catalog too, and after an install the tab the *)
(* plugin awaits its consent on is opened.                                 *)
CatalogButtonAnswered(page, c) ==
  LET there == IF c.cmd = "plugin_install" THEN SelectTab(page, "tabInstalled").ui ELSE page
  IN  Then(there, <<Asks("plugin_catalog", None), Asks("plugins", "panel")>>)

ApplyTheme(page, theme) == Shows(page, "worn", theme)

(* theme_select's answer is worn, and the list is read again.              *)
ThemeSelected(page, c) == RefreshThemes(ApplyTheme(page, c.got))

OnOpen(page, panel) ==
  CASE panel = "stats" -> IF page.loaded THEN Then(page, <<>>) ELSE RunStats(page, None)
    [] panel = "sleeve" -> IF page.previewed THEN Then(page, <<>>) ELSE PreviewSleeve(page)
    [] panel = "providers" -> RefreshProviders(page)
    [] panel = "plugins" -> RefreshPlugins(page)
    [] panel = "theme" -> RefreshThemes(page)
    [] OTHER -> Then(page, <<>>)

OpenPanel(page, panel) == OnOpen([page EXCEPT !.base = panel], panel)

(* The start: the theme first, then what the page shows at once, one       *)
(* after the other; the user may already be at work meanwhile.             *)
AfterBoot ==
  [theme_active |-> <<Asks("environment", None)>>, environment |-> <<Asks("queue", None)>>,
   queue |-> <<Asks("anchor", None)>>, anchor |-> <<Asks("plugins", "boot")>>]

Boot(page, c) ==
  Then(IF c.cmd = "theme_active" /\ c.ok THEN ApplyTheme(page, c.got) ELSE page, AfterBoot[c.cmd])

(* What follows an answer that is none of the start's...                   *)
GoesOn(page, c) ==
  CASE c.cmd = "stats" -> StatsAnswered(page, c)
    [] c.cmd = "sleeve_svg" -> SleeveAnswered(page, c)
    [] c.cmd = "import" -> ImportAnswered(page)
    [] c.cmd = "servers_list" -> Then(Shows(page, "servers", c.got), <<>>)
    [] c.cmd \in {"provider_scan", "server_add", "server_remove"} -> RefreshProviders(page)
    [] c.cmd \in {"resolve", "provider_test"} -> Then(page, <<>>)
    [] c.cmd = "plugin_catalog" -> Then([page EXCEPT !.catalog = c.got], <<>>)
    [] c.cmd = "secrets" -> Then(Shows(page, "secrets", c.got), <<>>)
    [] c.cmd \in {"secret_set", "secret_remove"} -> RefreshSecrets(page)
    [] c.cmd = "themes_list" -> Then(Shows(page, "themes", c.got), <<>>)
    [] c.cmd = "theme_select" -> ThemeSelected(page, c)
    [] c.cmd \in DOMAIN Changes /\ c.arg = "catalog" -> CatalogButtonAnswered(page, c)
    [] c.cmd \in DOMAIN Changes /\ c.arg = "card" -> PluginButtonAnswered(page, c)

(* ...`call` shows a failure and gives undefined, for which a handler      *)
(* skips the rest, the calls it would have made included.                  *)
Answered(page, c) ==
  CASE c.cmd \in DOMAIN AfterBoot -> Boot(page, c)
    [] c.cmd = "providers" -> ProvidersAnswered(page, c)
    [] c.cmd = "plugins" -> PluginsAnswered(page, c)
    [] OTHER -> IF c.ok THEN GoesOn(page, c) ELSE Then(page, <<>>)

(* The tick's listener, as far as it is about the panels, and the busy     *)
(* line.                                                                   *)
OnNotice(page, notice) ==
  IF notice.grew THEN [page EXCEPT !.loaded = FALSE, !.previewed = FALSE]
  ELSE [page EXCEPT !.busy = notice.busy]

(* The forms and buttons of the panel in front.                            *)
Gestures(page) ==
  LET press(cmds, arg) == {Then(page, <<Asks(cmd, arg)>>) : cmd \in cmds}
  IN {OpenPanel(page, p) : p \in Sections \ {page.base}}
     \cup CASE page.base = "stats" -> {RunStats(page, y) : y \in {None, "year"}}
            [] page.base = "sleeve" -> {PreviewSleeve(page)}
                 \cup {ChooseFormat(page, f) : f \in Formats \ {page.format}}
            [] page.base = "import" -> press({"import", "resolve"}, None)
            [] page.base = "providers" ->
                 press({"provider_test", "provider_scan", "server_add"}, None)
                 \cup (IF page.shown.servers = TRUE THEN press({"server_remove"}, None) ELSE {})
            [] page.base = "plugins" /\ page.tab = "tabInstalled" ->
                 press(Offers(page.shown.plugins), "card")
            [] page.base = "plugins" /\ page.tab = "tabCatalog" ->
                 {RefreshCatalog(page)} \cup press({"plugin_update"}, "catalog")
                 \cup (IF page.catalog = "absent" THEN press({"plugin_install"}, "catalog") ELSE {})
            [] page.base = "plugins" /\ page.tab = "tabSecrets" ->
                 press({"secret_set"}, None)
                 \cup (IF page.shown.secrets = TRUE THEN press({"secret_remove"}, None) ELSE {})
            [] page.base = "theme" /\ page.shown.themes # None ->
                 UNION {press({"theme_select"}, t) :
                          t \in page.shown.themes.themes \ {page.shown.themes.active}}
            [] OTHER -> {}
     \cup (IF page.base = "plugins" THEN {SelectTab(page, t) : t \in Tabs \ {page.tab}} ELSE {})

-----------------------------------------------------------------------------
(* An answer, or a change of what was asked for, overtakes what is still   *)
(* under way of the same kind.                                             *)

Panel == [stats |-> {"stats"}, sleeve_svg |-> {"sleeve"}, providers |-> {"providers"},
          servers_list |-> {"servers"}, secrets |-> {"secrets"},
          themes_list |-> {"themes"}, theme_active |-> {"worn"}, theme_select |-> {"worn"},
          server_add |-> {"providers", "servers"}, server_remove |-> {"providers", "servers"},
          secret_set |-> {"secrets"}, secret_remove |-> {"secrets"},
          import |-> {"stats", "sleeve"}]

PanelsOf(c) ==
  CASE c.cmd = "plugins" -> IF c.arg = "boot" THEN {"badge"} ELSE {"plugins", "badge"}
    [] c.cmd \in DOMAIN Panel -> Panel[c.cmd]
    [] c.arg \in {"card", "catalog"} -> {"plugins", "badge"}
    [] OTHER -> {}

StoreOf(cmd) ==
  CASE cmd = "providers" -> "servers"
    [] cmd = "theme_select" -> "theme"
    [] cmd \in DOMAIN Reads \ {"providers"} -> Reads[cmd]
    [] OTHER -> None

(* The answers in hand that a change of `store` makes old.                 *)
Overtake(calls, store) ==
  [i \in DOMAIN calls |->
     IF calls[i].stage = "done" /\ StoreOf(calls[i].cmd) = store
       THEN [calls[i] EXCEPT !.overtaken = TRUE] ELSE calls[i]]

-----------------------------------------------------------------------------
(* The commands.                                                           *)

Idle == \A i \in DOMAIN sent : sent[i].stage # "running"

(* consent_command, install_plugin, update_plugins, remove_plugin; {} for  *)
(* an error.                                                               *)
PluginAfter(cmd, plugin) ==
  LET there == plugin # "absent"
      asked == plugin \notin {"absent", "not_asked"}
      Becomes(after, may) == IF may THEN {after} ELSE {}
  IN  CASE cmd = "plugin_install" -> {IF there THEN plugin ELSE "not_asked"}
        [] cmd = "plugin_update" ->
             {plugin} \cup Becomes("needs_approval", plugin = "approved")
        [] cmd = "plugin_approve" -> Becomes("approved", there)
        [] cmd = "plugin_remove" -> Becomes("absent", there)
        [] cmd = "plugin_disable" -> Becomes("disabled", asked)
        [] cmd = "plugin_enable" -> Becomes("approved", asked)
        [] cmd = "plugin_forget" -> Becomes("not_asked", asked)

(* secret_command: removing a key that is not there is an error.           *)
SecretAfter(cmd, secret) ==
  CASE cmd = "secret_set" -> {TRUE}
    [] cmd = "secret_remove" -> IF secret THEN {FALSE} ELSE {}

(* ThemeStore::select: "validate first, then write"; None is the default.  *)
Loadable(d) == {None} \cup (IF d.loads THEN {"dark"} ELSE {})
ThemeAfter(id, d) == IF id \in Loadable(d) THEN {id} ELSE {}

(* ThemeStore::active: a selected theme that cannot be loaded is given up  *)
(* for the default, with the reason.                                       *)
ActiveTheme(d) == IF d.theme \in Loadable(d) THEN d.theme ELSE None

(* ThemeStore::list: what can be chosen, and the selection as it is stored. *)
ThemeList(d) == [active |-> d.theme, themes |-> Loadable(d)]

(* What a command may leave behind; the server and plugin commands build   *)
(* the registry again when all went well.                                  *)
Outcomes(c) ==
  CASE c.cmd = "import" -> {[disk EXCEPT !.history = @ + 1]}
    [] c.cmd = "server_add" -> {[disk EXCEPT !.servers = TRUE]}
    [] c.cmd = "server_remove" -> IF disk.servers THEN {[disk EXCEPT !.servers = FALSE]} ELSE {}
    [] c.cmd \in {"secret_set", "secret_remove"} ->
         {[disk EXCEPT !.secrets = s] : s \in SecretAfter(c.cmd, disk.secrets)}
    [] c.cmd = "theme_select" -> {[disk EXCEPT !.theme = t] : t \in ThemeAfter(c.arg, disk)}
    [] c.arg \in {"card", "catalog"} -> {[disk EXCEPT !.plugin = p] : p \in PluginAfter(c.cmd, disk.plugin)}
    [] OTHER -> {disk}

Registered(c, d) ==
  IF c.cmd \in {"server_add", "server_remove"} \/ c.arg \in {"card", "catalog"}
    THEN [d EXCEPT !.registry = d.servers] ELSE d

Brings(c, d) ==
  CASE c.cmd = "theme_active" -> ActiveTheme(d)
    [] c.cmd = "themes_list" -> ThemeList(d)
    [] c.cmd = "theme_select" -> c.arg
    [] c.cmd \in DOMAIN Reads \ Themes -> d[Reads[c.cmd]]
    [] OTHER -> None

Ends(i, ok, d) ==
  /\ disk' = d
  /\ sent' = LET old == IF d # disk /\ sent[i].cmd \in DOMAIN Changes
                          THEN Overtake(sent, Changes[sent[i].cmd]) ELSE sent
             IN  [old EXCEPT ![i].stage = "done", ![i].ok = ok, ![i].got = Brings(sent[i], d)]

(* An error may come after the change: the registry cannot be built again, *)
(* or the import stops half-way.                                           *)
HalfDone(c) == c.cmd \in {"import", "server_add", "server_remove"} \/ c.arg \in {"card", "catalog"}

Completes(i) ==
  \/ \E d \in Outcomes(sent[i]) :
       Ends(i, TRUE, Registered(sent[i], d)) /\ UNCHANGED <<stale, steps>>
  \/ /\ Outcomes(sent[i]) = {}
     /\ Ends(i, FALSE, disk) /\ UNCHANGED <<stale, steps>>
  \/ /\ steps < MaxSteps /\ steps' = steps + 1
     /\ \/ Ends(i, FALSE, disk) /\ UNCHANGED stale
        \/ \E d \in Outcomes(sent[i]) \ {disk} :
             /\ HalfDone(sent[i])
             /\ Ends(i, FALSE, d)
             /\ stale' = [stale EXCEPT !.broken = @ \cup PanelsOf(sent[i])]

Tells(notice) == notices' = Append(notices, notice)

(* run_on_core: a short command is done at once, if the core is free.      *)
Short(i) ==
  /\ sent[i].stage = "sent" /\ sent[i].cmd \notin Long
  /\ sent[i].cmd \in Themes \/ Idle
  /\ Completes(i)
  /\ UNCHANGED <<notices, ui>>

(* `busy` tells of the start of a long one and of its end; an error before *)
(* (the network client, a server's kind) is no job at all.                 *)
Begin(i) ==
  /\ sent[i].stage = "sent" /\ sent[i].cmd \in Long /\ Idle
  /\ \/ /\ Tells([busy |-> sent[i].cmd, grew |-> FALSE])
        /\ sent' = [sent EXCEPT ![i].stage = "running"]
        /\ UNCHANGED <<disk, stale, steps>>
     \/ /\ steps < MaxSteps /\ steps' = steps + 1
        /\ Ends(i, FALSE, disk)
        /\ UNCHANGED <<notices, stale>>
  /\ UNCHANGED ui

Finish(i) ==
  /\ sent[i].stage = "running"
  /\ Completes(i)
  /\ Tells([busy |-> None, grew |-> FALSE])
  /\ UNCHANGED ui

(* Its author breaks the theme, or mends it.                               *)
ThemeEdited ==
  /\ steps < MaxSteps /\ steps' = steps + 1
  /\ disk' = [disk EXCEPT !.loads = ~@]
  /\ UNCHANGED <<sent, notices, ui, stale>>

(* A tick writes the listens of what was played, and says so.              *)
ListensRecorded ==
  /\ Idle /\ steps < MaxSteps /\ steps' = steps + 1
  /\ disk' = [disk EXCEPT !.history = @ + 1]
  /\ sent' = Overtake(sent, "history")
  /\ Tells([busy |-> None, grew |-> TRUE])
  /\ UNCHANGED <<ui, stale>>

-----------------------------------------------------------------------------
(* The page's steps.                                                       *)

Performs(does, under) == ui' = does.ui /\ sent' = under \o does.asks

Gesture ==
  /\ steps < MaxSteps /\ Len(sent) < MaxSent
  /\ steps' = steps + 1
  /\ \E does \in Gestures(ui) :
       Performs(does, IF does.ui.format = ui.format THEN sent
                      ELSE [i \in DOMAIN sent |->
                              IF sent[i].cmd = "sleeve_svg"
                                THEN [sent[i] EXCEPT !.overtaken = TRUE] ELSE sent[i]])
  /\ UNCHANGED <<disk, notices, stale>>

AnswerComes == \E i \in DOMAIN sent :
  /\ sent[i].stage = "done"
  /\ Performs(Answered(ui, sent[i]), RemoveAt(sent, i))
  /\ stale' = IF sent[i].cmd \notin DOMAIN Reads \cup {"theme_select"} THEN stale
              ELSE IF sent[i].overtaken \/ ~sent[i].ok
                THEN [stale EXCEPT !.late = @ \cup PanelsOf(sent[i])]
              ELSE [stale EXCEPT !.late = @ \ PanelsOf(sent[i])]
  /\ UNCHANGED <<disk, notices, steps>>

NoticeComes ==
  /\ notices # <<>>
  /\ ui' = OnNotice(ui, Head(notices))
  /\ notices' = Tail(notices)
  /\ UNCHANGED <<disk, sent, stale, steps>>

PanelsInit ==
  /\ \E p \in {"absent", "not_asked"} :
       disk = [history |-> 0, servers |-> FALSE, registry |-> FALSE, plugin |-> p,
             secrets |-> FALSE, theme |-> None, loads |-> TRUE]
  /\ sent = <<Asks("theme_active", None)>> /\ notices = <<>>
  /\ ui = [base |-> "library", tab |-> "tabInstalled", loaded |-> FALSE, years |-> None,
           previewed |-> FALSE, format |-> "square", catalog |-> None,
           busy |-> None, shown |-> [p \in Drawn |-> None]]
  /\ stale = [late |-> {}, broken |-> {}] /\ steps = 0

PanelsNext ==
  \/ Gesture \/ AnswerComes \/ NoticeComes \/ ListensRecorded \/ ThemeEdited
  \/ \E i \in DOMAIN sent : Short(i) \/ Begin(i) \/ Finish(i)

-----------------------------------------------------------------------------
(* "The numbers on screen must not go stale": once nothing is under way, a *)
(* panel that was drawn shows what is stored, and the statistics and the   *)
(* card do or are marked to be computed again - unless the answer it was   *)
(* drawn from was overtaken on its way, or a command failed after it had   *)
(* changed something.  The busy line names no job when none runs.          *)
PanelsCatchUp ==
  (sent = <<>> /\ notices = <<>>) =>
    /\ \A p \in Drawn \ (stale.late \cup stale.broken) :
         \/ ui.shown[p] = None
         \/ ui.shown[p] =
              CASE p = "stats" -> IF ui.loaded THEN disk.history ELSE ui.shown[p]
                [] p = "sleeve" -> IF ui.previewed THEN [of |-> disk.history, format |-> ui.format]
                                   ELSE ui.shown[p]
                [] p \in {"providers", "servers"} -> disk.servers
                [] p \in {"plugins", "badge"} -> disk.plugin
                [] p = "secrets" -> disk.secrets
                [] p = "themes" -> [ui.shown.themes EXCEPT !.active = disk.theme]
                [] p = "worn" -> IF disk.loads THEN disk.theme ELSE ui.shown.worn
    /\ ui.busy = None
=============================================================================
