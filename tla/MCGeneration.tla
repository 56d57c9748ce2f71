---------------------------- MODULE MCGeneration ----------------------------
(***************************************************************************)
(* Small instances of GenerationGraph, with task types as model values.    *)
(***************************************************************************)
EXTENDS GenerationGraph
=============================================================================
