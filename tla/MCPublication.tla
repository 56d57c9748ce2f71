--------------------------- MODULE MCPublication ----------------------------
(***************************************************************************)
(* Small instances of JobPublication: what one admin or one request can do *)
(* any other can.                                                          *)
(***************************************************************************)
EXTENDS JobPublication, TLC

Interchangeable == Permutations(Admins) \cup Permutations(Clients)
=============================================================================
