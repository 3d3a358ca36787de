-------------------------- MODULE MCUpstreamRouting --------------------------
(***************************************************************************)
(* Two overlapping checks of a shared upstream, a check and a request, two *)
(* requests, and a pool.                                                   *)
(***************************************************************************)
EXTENDS UpstreamRouting

CONSTANTS k1, k2, r1, r2, l

MCChecks == {k1, k2}
MCRequests == {r1, r2}
MCLoads == {l}
MCDeployments == {{k1, k2}, {k1, r1}, {r1, r2}, {l}}
==============================================================================
