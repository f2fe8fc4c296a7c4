----------------------------- MODULE MCServers -----------------------------
(* One server of each protocol, a name of the user's own and a plugin.     *)
EXTENDS Servers

KindOfA == "sub" :> "subsonic" @@ "jel" :> "jellyfin"
PluginsA == <<"plug">>
=============================================================================
