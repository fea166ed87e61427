--------------------------- MODULE MCRequestStore ---------------------------
(* Small instances of the request store for TLC.                           *)
EXTENDS RequestStore

CONSTANTS x, y, z, c1, c2

Typed == [k \in Keys |-> IF k = z THEN "burn" ELSE "transfer"]
=============================================================================
