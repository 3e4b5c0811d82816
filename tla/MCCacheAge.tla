----------------------------- MODULE MCCacheAge -----------------------------
(* Small instances of CacheAge for TLC. *)
EXTENDS CacheAge

CONSTANTS k1, k2, k3

\* Two keys share bin 0, the third has bin 1 to itself.
MCBinOf == [k \in Keys |-> IF k = k3 THEN 1 ELSE 0]

=============================================================================
