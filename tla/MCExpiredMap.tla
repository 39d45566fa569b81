--------------------------- MODULE MCExpiredMap ---------------------------
(* Instances of ExpiredMap for TLC. *)
EXTENDS ExpiredMap, TLC

Symmetry == Permutations(Key) \cup Permutations(Value)

(* The calls the server makes of its DefaultCache: Set and Get, of one key, for as many
   seconds as the token's issuer says. *)
DefaultCacheSpec ==
  Init /\ [][\/ \E k \in Key : Get(k) \/ \E v \in Value, s \in Seconds : Set(k, v, s)
            \/ Sweeper \/ ClockTicks]_vars
=============================================================================
