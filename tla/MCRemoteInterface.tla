------------------------- MODULE MCRemoteInterface --------------------------
(* RemoteInterface on a small instance, for TLC: what config.toml lists.    *)
EXTENDS RemoteInterface

CONSTANTS fan, boost, tdp
ConfiguredIfaces == <<boost, fan, tdp>>
=============================================================================
