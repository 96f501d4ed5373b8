--------------------------- MODULE MCRepoHistory ---------------------------
(* Model-checking instance of RepoHistory. *)
EXTENDS RepoHistory, TLC

CONSTANTS r1, r2, x1, x2

MCRepoList == <<r1, r2>>
MCPages == << <<x1>>, <<x2>> >>

Layer(tag, url, slug, substring) ==
    [tag |-> tag, url |-> url, slug |-> slug, substring |-> substring]

\* x1 has r2's name in its title; x2 carries the tag of r1 and links to r2.
MCHits ==
    x1 :> Layer({}, {}, {r2}, {r2}) @@
    x2 :> Layer({r1}, {r2}, {}, {})
=============================================================================
