---------------------------- MODULE MCCacheHosts ----------------------------
(* CacheHosts on small instances. *)
EXTENDS CacheHosts, TLC

\* An administrator names a host and a fallback delay, or no host at all
Admin == {"host" :> "h1" @@ "fg" :> 2, "host" :> "" @@ "bg" :> Never @@ "fg" :> 2}

\* The connection string names a gateway
Sdk == {"gateway" :> "h2"}

OriginsAreAlike == Permutations(Origins)
=============================================================================
