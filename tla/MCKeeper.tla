------------------------------ MODULE MCKeeper ------------------------------
(* A small instance of the keeper for TLC.                                 *)
EXTENDS Keeper

CONSTANTS r1, r2
=============================================================================
