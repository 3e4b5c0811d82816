------------------------------ MODULE MCCache ------------------------------
(* Small instances of Cache for TLC. *)
EXTENDS Cache

CONSTANTS k1, k2, k3, v1, v2

\* Two keys share bin 0, the third has bin 1 to itself.
MCBinOf == [k \in Keys |-> IF k = k3 THEN 1 ELSE 0]

=============================================================================
