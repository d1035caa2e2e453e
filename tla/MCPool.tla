------------------------------- MODULE MCPool -------------------------------
(***************************************************************************)
(* Four sessions and at most two connections, of which one is a spare: two *)
(* sessions can wait while connections are given back and deleted.         *)
(***************************************************************************)
EXTENDS Pool
=============================================================================
