--------------------------- MODULE MCMergedStream ---------------------------
(* The merged stream of two routes, the public and the market one, for TLC.*)
EXTENDS MergedStream
=============================================================================
