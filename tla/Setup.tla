------------------------------- MODULE Setup -------------------------------
(***************************************************************************)
(* What the registry of providers is built of, besides the local files:    *)
(* the servers (Servers), the plugins (PluginStore) and the engine a plugin *)
(* runs in (PluginHost).  What changes one does not touch the others, so   *)
(* the model lets one of them change.                                      *)
(***************************************************************************)
EXTENDS PluginStore

CONSTANTS NoServer, Torn, Urls, Older, KindOf, Names, Plugins, Procs, Desktop, MaxEpoch, MaxCommands,
          Manifests, Net, Addresses, Locations, Secrets, Required,
          StartTimeout, CallTimeout, PluginTimeout, MaxRedirects, MaxFiles

VARIABLES
  which,  \* what is changed
  epoch, file, cmd, registry, player, commands, reported, calm,  \* see Servers
  caps, engine, work, door, spent, held, proven, onDisk, secretFiles, leftovers, written,
  reached, answer  \* see PluginHost

Srv == INSTANCE Servers WITH None <- NoServer
Host == INSTANCE PluginHost WITH None <- NoServer

ASSUME SetupAssumption == Srv!ServersAssumption /\ Host!PluginHostAssumption

serversVars == <<epoch, file, cmd, registry, player, commands, reported, calm>>
hostVars == <<caps, engine, work, door, spent, held, proven, onDisk, secretFiles, leftovers,
              written, reached, answer>>
setupVars == <<vars, serversVars, hostVars, which>>

InitSetup ==
  /\ which \in {"servers", "plugin", "engine"}
  /\ Init /\ Srv!Init /\ Host!Init
  /\ which # "servers" => file = <<>>
  /\ which # "engine" => caps = {} /\ onDisk = {}

NextSetup ==
  \/ which = "servers" /\ Srv!Next /\ UNCHANGED <<vars, hostVars, which>>
  \/ which = "plugin" /\ Next /\ UNCHANGED <<serversVars, hostVars, which>>
  \/ which = "engine" /\ Host!Next /\ UNCHANGED <<vars, serversVars, which>>

SpecSetup == InitSetup /\ [][NextSetup]_setupVars

-----------------------------------------------------------------------------
(* See Servers: the file, the tracks in the queue and the covers are what   *)
(* the servers were told, listed and have.                                  *)
ServersAreAsTold == Srv!ServersAreAsTold

(* See PluginHost: every address asked or played is granted.                *)
StaysInGrant == Host!StaysInGrant

(* See PluginHost: a call overruns its time by less than one request.       *)
OverrunIsOneRequest == Host!OverrunIsOneRequest

(* See PluginHost: an engine that is gone leaves no secret behind.          *)
SecretFilesEnd == Host!SecretFilesEnd
=============================================================================
