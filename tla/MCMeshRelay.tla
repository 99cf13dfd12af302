---------------------------- MODULE MCMeshRelay -----------------------------
(* TLC instances of the mesh relay: see the MCMeshRelay*.cfg files.          *)
EXTENDS MeshRelay, TLC

MCNode == {1, 2, 3}

\* Two providers of b, one of a: a request for b has a second candidate to fall
\* back to, a request for a may have to be relayed twice.
MCEndpoints == 1 :> {"b"} @@ 2 :> {"b"} @@ 3 :> {"a"}

\* Provider 3 used to serve b, and its old manifest is all that is known of it.
MCManifests == 1 :> {{"b"}} @@ 2 :> {{"b"}} @@ 3 :> {{"b"}}

\* Provider 1 has not announced itself yet; no manifest is out of date.
MCFewManifests == 1 :> {} @@ 2 :> {{"b"}} @@ 3 :> {{"a"}}
=============================================================================
