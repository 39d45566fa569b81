----------------------------- MODULE TtlCache -----------------------------
(***************************************************************************)
(* What the cache of internal/cache/Index.go can be relied on for: a Get   *)
(* answers with what was last set, never with anything whose time is over. *)
(* An entry may be forgotten before its time, but only when a time the     *)
(* same key was set to expire at earlier has come, and once for each such  *)
(* time.                                                                   *)
(***************************************************************************)
EXTENDS Integers

CONSTANTS Key, Value, Seconds, None

VARIABLES
  clock,
  entry,   \* what a Get would answer with: the value and when its time is over
  due,     \* <<time, key>>: the times keys were set to expire at and which have not been handled
  answer   \* of the Get just made

Entry == [data : Value, expiredTime : Nat]

Init ==
  /\ clock = 0
  /\ entry = [k \in Key |-> None] /\ due = {}
  /\ answer = None

Set(k, v, s) ==
  /\ entry' = [entry EXCEPT ![k] = [data |-> v, expiredTime |-> clock + s]]
  /\ due' = due \cup {<<clock + s, k>>}
  /\ UNCHANGED clock /\ answer' = None

Get(k) == answer' = entry[k] /\ UNCHANGED <<clock, entry, due>>

Delete(k) == entry' = [entry EXCEPT ![k] = None] /\ UNCHANGED <<clock, due>> /\ answer' = None

\* Times that have come may be about to be handled and outlive it.
Clear ==
  /\ entry' = [k \in Key |-> None]
  /\ due' \subseteq {d \in due : d[1] <= clock}
  /\ UNCHANGED clock /\ answer' = None

\* Time passes, and is over for some.
Tick ==
  /\ clock' = clock + 1
  /\ entry' = [k \in Key |-> IF entry[k] # None /\ entry[k].expiredTime <= clock'
                               THEN None ELSE entry[k]]
  /\ UNCHANGED due /\ answer' = None

\* A time that has come is handled: the keys set to expire then are forgotten.
Handle(t) ==
  /\ t <= clock
  /\ entry' = [k \in Key |-> IF <<t, k>> \in due THEN None ELSE entry[k]]
  /\ due' = {d \in due : d[1] # t}
  /\ UNCHANGED clock /\ answer' = None

\* Something else happens.
Idle == answer' = None /\ UNCHANGED <<clock, entry, due>>

Next ==
  \/ \E k \in Key : Get(k) \/ Delete(k) \/ \E v \in Value, s \in Seconds : Set(k, v, s)
  \/ Clear \/ Tick \/ Idle
  \/ \E t \in 0..clock : Handle(t)

Spec == Init /\ [][Next]_<<clock, entry, due, answer>>

=============================================================================
