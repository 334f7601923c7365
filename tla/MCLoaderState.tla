---------------------------- MODULE MCLoaderState ----------------------------
(* Two storages; four batches; two processes with a region each that share *)
(* one identifier over time, and a third one that only sweeps; epochs of   *)
(* three batches.                                                          *)
EXTENDS LoaderState

CONSTANTS p1, p2, p3, n1, n2

MCOwnerOf(n) == IF n = n1 THEN p1 ELSE p2
===============================================================================
