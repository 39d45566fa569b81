---------------------------- MODULE ExpiredMap ----------------------------
(***************************************************************************)
(* The expiring cache of internal/cache/Index.go: a map, and for each time *)
(* the keys that were set to expire then.  A goroutine (run) counts the    *)
(* seconds and, when keys expire at the one it has come to, sends them     *)
(* through a channel to a second goroutine, which deletes them.  lck       *)
(* makes every operation one step; each reads the clock while it holds it. *)
(* The DefaultCache of the server holds the access token, which            *)
(* RefreshAccessToken sets anew every hour and whenever a Get misses it.   *)
(***************************************************************************)
EXTENDS Integers, Sequences, FiniteSets

CONSTANTS
  Key, Value,
  Seconds,        \* the expireSeconds a Set may be called with, those above 0
  None,           \* no entry, no message
  DelChannelCap,  \* delChannelCap
  MaxTime         \* bound on the clock

ASSUME CacheAssumption ==
  /\ Seconds \subseteq Nat \ {0}
  /\ DelChannelCap \in Nat \ {0} /\ MaxTime \in Nat

ASSUME CacheNoneAssumption ==
  None \notin [data : Value, expiredTime : Nat] \cup [keys : SUBSET Key, t : Nat]

VARIABLES
  clock,     \* time.Now().Unix()
  m,
  timeMap,   \* its pairs <<expiredTime, key>>
  tick,      \* how many ticks are in the ticker's channel, which holds one
  now,       \* the goroutine's count of the seconds
  run,       \* where that goroutine is
  handing,   \* the message it is sending
  delCh,
  deleting,  \* the message the second goroutine has received
  closer,    \* a call of Close: it holds lck until run receives from stop
  answer     \* of the Get just made

vars == <<clock, m, timeMap, tick, now, run, handing, delCh, deleting, closer, answer>>
dataVars  == <<m, timeMap>>
sweepVars == <<tick, now, run, handing, delCh, deleting>>

Entry  == [data : Value, expiredTime : Nat]
DelMsg == [keys : SUBSET Key, t : Nat]

TypeOK ==
  /\ clock \in Nat
  /\ m \in [Key -> Entry \cup {None}] /\ timeMap \in SUBSET (Nat \X Key)
  /\ tick \in 0..1 /\ now \in Nat
  /\ run \in {"select", "lookup", "send", "stopped"}
  /\ handing \in DelMsg \cup {None}
  /\ delCh \in Seq(DelMsg) /\ Len(delCh) <= DelChannelCap
  /\ deleting \in DelMsg \cup {None}
  /\ closer \in {"none", "holding", "returned"}
  /\ answer \in Entry \cup {None}

Init ==
  /\ clock = 0 /\ now = 0
  /\ m = [k \in Key |-> None] /\ timeMap = {}
  /\ tick = 0 /\ run = "select" /\ handing = None
  /\ delCh = <<>> /\ deleting = None
  /\ closer = "none" /\ answer = None

\* Nobody holds lck but a Close that waits.
Unlocked == closer # "holding"

\* mutant: an entry is good for the second it expires in
Good_late(k) == m[k] # None /\ m[k].expiredTime >= clock

\* checkDeleteKey: what it answers, and what it does to m when the time of the key is over.
Good(k) == m[k] # None /\ m[k].expiredTime > clock

\* mutant: the value is dropped and its entry kept
Checked_emptied(k) == IF Good(k) \/ m[k] = None THEN m ELSE [m EXCEPT ![k].data = None]

Checked(k) == IF Good(k) THEN m ELSE [m EXCEPT ![k] = None]

SlotOf(t) == {k \in Key : <<t, k>> \in timeMap}

-----------------------------------------------------------------------------
(* The operations *)

Set(k, v, s) ==
  /\ Unlocked
  /\ m' = [m EXCEPT ![k] = [data |-> v, expiredTime |-> clock + s]]
  /\ timeMap' = timeMap \cup {<<clock + s, k>>}
  /\ UNCHANGED <<clock, sweepVars, closer>> /\ answer' = None

Get(k) ==
  /\ Unlocked
  /\ answer' = IF Good(k) THEN m[k] ELSE None
  /\ m' = Checked(k)
  /\ UNCHANGED <<clock, timeMap, sweepVars, closer>>

\* TTL, and DoForEach on one of the keys it ranges over; every key it has come to is checked.
Checks(K) ==
  /\ Unlocked
  /\ m' = [k \in Key |-> IF k \in K THEN Checked(k)[k] ELSE m[k]]
  /\ UNCHANGED <<clock, timeMap, sweepVars, closer>> /\ answer' = None

Delete(k) ==
  /\ Unlocked
  /\ m' = [m EXCEPT ![k] = None]
  /\ UNCHANGED <<clock, timeMap, sweepVars, closer>> /\ answer' = None

Clear ==
  /\ Unlocked
  /\ m' = [k \in Key |-> None] /\ timeMap' = {}
  /\ UNCHANGED <<clock, sweepVars, closer>> /\ answer' = None

\* Close sends to stop, which has no buffer, with lck held: it returns when run receives.
\* The goroutine may be waiting for lck just then; they wait for each other for ever.
Closes ==
  /\ Unlocked
  /\ closer' = "holding"
  /\ UNCHANGED <<clock, dataVars, sweepVars>>
  /\ answer' = None

-----------------------------------------------------------------------------
(* run and the goroutine it starts *)

\* mutant: the clock is read, as the comment at the count warns against
TakesTick_clock ==
  /\ run = "select" /\ tick = 1
  /\ tick' = 0 /\ now' = clock
  /\ run' = "lookup"
  /\ UNCHANGED <<clock, dataVars, handing, delCh, deleting, closer>> /\ answer' = None

TakesTick ==
  /\ run = "select" /\ tick = 1
  /\ tick' = 0 /\ now' = now + 1
  /\ run' = "lookup"
  /\ UNCHANGED <<clock, dataVars, handing, delCh, deleting, closer>> /\ answer' = None

LooksUp ==
  /\ run = "lookup" /\ Unlocked
  /\ IF SlotOf(now) = {}
       THEN run' = "select" /\ UNCHANGED handing
       ELSE run' = "send" /\ handing' = [keys |-> SlotOf(now), t |-> now]
  /\ UNCHANGED <<clock, dataVars, tick, now, delCh, deleting, closer>> /\ answer' = None

Sends ==
  /\ run = "send" /\ Len(delCh) < DelChannelCap
  /\ delCh' = Append(delCh, handing) /\ handing' = None
  /\ run' = "select"
  /\ UNCHANGED <<clock, dataVars, tick, now, deleting, closer>> /\ answer' = None

\* The receive from stop: Close returns, the ticker is stopped and delCh closed.
Stops ==
  /\ run = "select" /\ closer = "holding"
  /\ run' = "stopped" /\ closer' = "returned" /\ tick' = 0
  /\ UNCHANGED <<clock, dataVars, now, handing, delCh, deleting>>
  /\ answer' = None

Receives ==
  /\ deleting = None /\ delCh # <<>>
  /\ deleting' = Head(delCh) /\ delCh' = Tail(delCh)
  /\ UNCHANGED <<clock, dataVars, tick, now, run, handing, closer>> /\ answer' = None

MultiDelete ==
  /\ deleting # None /\ Unlocked
  /\ timeMap' = {p \in timeMap : p[1] # deleting.t}
  /\ m' = [k \in Key |-> IF k \in deleting.keys THEN None ELSE m[k]]
  /\ deleting' = None
  /\ UNCHANGED <<clock, tick, now, run, handing, delCh, closer>> /\ answer' = None

\* A second passes.  A tick the goroutine has not taken yet makes room for no other.
ClockTicks ==
  /\ clock < MaxTime /\ clock' = clock + 1
  /\ tick' = IF run = "stopped" THEN 0 ELSE 1
  /\ UNCHANGED <<dataVars, now, run, handing, delCh, deleting, closer>> /\ answer' = None

-----------------------------------------------------------------------------
Operation ==
  \/ \E k \in Key : Get(k) \/ Delete(k) \/ \E v \in Value, s \in Seconds : Set(k, v, s)
  \/ \E K \in SUBSET Key : Checks(K)
  \/ Clear \/ Closes

Sweeper == TakesTick \/ LooksUp \/ Sends \/ Stops \/ Receives \/ MultiDelete

Next == Operation \/ Sweeper \/ ClockTicks

Spec == Init /\ [][Next]_vars

-----------------------------------------------------------------------------
(* Properties *)

\* The messages on their way to be deleted.
InFlight == {delCh[i] : i \in DOMAIN delCh} \cup ({handing, deleting} \ {None})

Pending(t, k) == \E d \in InFlight : d.t = t /\ k \in d.keys

\* No time is left behind: the count will still come to every time in timeMap, or the keys
\* of that time are on their way to be deleted.  So nothing stays in memory for ever, Get
\* or no Get, however many seconds the count is behind the clock.
NothingLeftBehind ==
  run # "stopped" =>
    /\ \A p \in timeMap : p[1] > now \/ (p[1] = now /\ run = "lookup") \/ Pending(p[1], p[2])
    /\ \A k \in Key : m[k] # None =>
         <<m[k].expiredTime, k>> \in timeMap \/ Pending(m[k].expiredTime, k)

\* Index.go:39: an entry is deleted some time after it should be, never before: while its
\* time is not over, only a Delete or a Clear takes it out.
DeletedLate ==
  [][\A k \in Key : Good(k) /\ m'[k] = None => Delete(k) \/ Clear]_vars

\* What a Get would answer with, and the times that are still to be handled.
Answerable == [k \in Key |-> IF Good(k) THEN m[k] ELSE None]
Due == timeMap \cup UNION {{d.t} \X d.keys : d \in InFlight}

Ttl == INSTANCE TtlCache WITH entry <- Answerable, due <- Due

\* A Get answers with what was last set and never with anything whose time is over; an
\* entry is forgotten before its time only at a time its key was set to expire at earlier.
TtlSpec == Ttl!Spec

=============================================================================
