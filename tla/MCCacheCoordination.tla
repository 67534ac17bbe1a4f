------------------------- MODULE MCCacheCoordination -------------------------
(* Instances of CacheCoordination for TLC.                                 *)
EXTENDS CacheCoordination, TLC

CONSTANTS a, b, c, P, Q, R

OneProcess   == (a :> P) @@ (b :> P)
TwoProcesses == (a :> P) @@ (b :> P) @@ (c :> Q)
Separate     == (a :> P) @@ (b :> Q)
Apart        == (a :> P) @@ (b :> Q) @@ (c :> R)

Mixed       == (a :> "Refresh") @@ (b :> "Prefer") @@ (c :> "Refresh")
TwoRefresh  == (a :> "Refresh") @@ (b :> "Refresh")
OnePrefers  == (a :> "Refresh") @@ (b :> "Prefer")
OneOffline  == (a :> "Offline") @@ (b :> "Prefer")
Refreshes   == (a :> "Refresh") @@ (b :> "Offline") @@ (c :> "Refresh")
=============================================================================
