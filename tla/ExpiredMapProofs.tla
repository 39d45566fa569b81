------------------------ MODULE ExpiredMapProofs ------------------------
(***************************************************************************)
(* The expiring cache leaves nothing behind and implements TtlCache, for   *)
(* any keys, values, lifetimes and capacity of the channel.                *)
(*                                                                         *)
(* Everything rests on the count being at most the clock.  A Set puts its  *)
(* key at a time after the clock, so after the count: the goroutine will   *)
(* come to it, and the keys of a time it has come to are all there.        *)
(***************************************************************************)
EXTENDS ExpiredMap, TLAPS

-----------------------------------------------------------------------------
(* The types *)

LEMMA SeqHeadTail ==
  ASSUME NEW S, NEW q \in Seq(S), q # <<>>
  PROVE  /\ Head(q) \in S /\ Head(q) = q[1] /\ 1 \in DOMAIN q
         /\ Tail(q) \in Seq(S) /\ Len(Tail(q)) = Len(q) - 1
         /\ \A i \in DOMAIN Tail(q) : i + 1 \in DOMAIN q /\ Tail(q)[i] = q[i + 1]
         /\ \A i \in DOMAIN q : i # 1 => i - 1 \in DOMAIN Tail(q) /\ Tail(q)[i - 1] = q[i]
OBVIOUS

LEMMA SeqAppend ==
  ASSUME NEW S, NEW q \in Seq(S), NEW e \in S
  PROVE  /\ Append(q, e) \in Seq(S) /\ Len(Append(q, e)) = Len(q) + 1
         /\ \A i \in DOMAIN q : i \in DOMAIN Append(q, e) /\ Append(q, e)[i] = q[i]
         /\ \A i \in DOMAIN Append(q, e) :
              i \in DOMAIN q \/ (i = Len(q) + 1 /\ Append(q, e)[i] = e)
         /\ Len(q) + 1 \in DOMAIN Append(q, e) /\ Append(q, e)[Len(q) + 1] = e
         /\ \A i \in DOMAIN q : i \in Nat /\ i < Len(q) + 1
OBVIOUS

\* The goroutine has a message in hand exactly while it sends one.
Typed == TypeOK /\ (run = "send" <=> handing # None)

LEMMA CacheTyped == Init => Typed
BY CacheAssumption, CacheNoneAssumption DEF Init, Typed, TypeOK

LEMMA CacheTypedStep == Typed /\ [Next]_vars => Typed'
<1> SUFFICES ASSUME Typed, [Next]_vars PROVE Typed'
  OBVIOUS
<1> USE CacheAssumption, CacheNoneAssumption
    DEF Typed, TypeOK, Entry, DelMsg, dataVars, sweepVars
<1>1. ASSUME NEW k \in Key, NEW v \in Value, NEW s \in Seconds, Set(k, v, s) PROVE Typed'
  BY <1>1 DEF Set
<1>2. ASSUME NEW k \in Key, Get(k) PROVE Typed'
  BY <1>2 DEF Get, Checked
<1>3. ASSUME NEW K \in SUBSET Key, Checks(K) PROVE Typed'
  BY <1>3 DEF Checks, Checked
<1>4. ASSUME NEW k \in Key, Delete(k) PROVE Typed'
  BY <1>4 DEF Delete
<1>5. CASE Clear \/ Closes
  BY <1>5 DEF Clear, Closes
<1>6. CASE TakesTick \/ Stops \/ ClockTicks
  BY <1>6 DEF TakesTick, Stops, ClockTicks
<1>7. CASE LooksUp
  <2>1. [keys |-> SlotOf(now), t |-> now] \in DelMsg
    BY DEF SlotOf
  <2>2. handing' \in DelMsg \cup {None} /\ (run' = "send" <=> handing' # None)
    BY <1>7, <2>1 DEF LooksUp
  <2> QED BY <1>7, <2>2 DEF LooksUp
<1>8. CASE Sends
  <2>1. handing \in DelMsg
    BY <1>8 DEF Sends
  <2>2. delCh' \in Seq(DelMsg) /\ Len(delCh') <= DelChannelCap
    BY <1>8, <2>1 DEF Sends
  <2> QED BY <1>8, <2>2 DEF Sends
<1>9. CASE Receives
  <2>1. deleting' \in DelMsg /\ delCh' \in Seq(DelMsg) /\ Len(delCh') <= DelChannelCap
    <3> HIDE DEF DelMsg
    <3> QED BY <1>9, SeqHeadTail DEF Receives
  <2> QED BY <1>9, <2>1 DEF Receives
<1>10. CASE MultiDelete
  BY <1>10 DEF MultiDelete
<1>11. CASE UNCHANGED vars
  BY <1>11 DEF vars
<1> QED
  BY <1>1, <1>2, <1>3, <1>4, <1>5, <1>6, <1>7, <1>8, <1>9, <1>10, <1>11
  DEF Next, Operation, Sweeper

\* The cache's state is well typed: the channel of deletions never holds more than its
\* capacity, and messages and entries are whole.
THEOREM CacheTypeOK == Spec => []TypeOK
<1>1. Typed => TypeOK
  BY DEF Typed
<1> QED BY <1>1, CacheTyped, CacheTypedStep, PTL DEF Spec

-----------------------------------------------------------------------------
(* Nothing is left behind *)

\* A tick is sent for a second that has passed and is not yet counted.
CountBehind == now + tick <= clock

\* The times on their way are different, ascending towards the count.
Ascending ==
  /\ \A i, j \in DOMAIN delCh : i < j => delCh[i].t < delCh[j].t
  /\ \A i \in DOMAIN delCh : delCh[i].t <= now /\ (run \in {"lookup", "send"} => delCh[i].t < now)
  /\ deleting # None =>
       /\ deleting.t <= now /\ (run \in {"lookup", "send"} => deleting.t < now)
       /\ \A i \in DOMAIN delCh : deleting.t < delCh[i].t
  /\ handing # None => handing.t = now

\* A message has all the keys of its time.
Complete == \A d \in InFlight : \A k \in Key : <<d.t, k>> \in timeMap => k \in d.keys

IInv == Typed /\ CountBehind /\ Ascending /\ Complete /\ NothingLeftBehind

LEMMA CacheInit == Init => IInv
<1> SUFFICES ASSUME Init PROVE IInv
  OBVIOUS
<1>1. InFlight = {}
  BY DEF Init, InFlight
<1> QED BY <1>1, CacheTyped
        DEF Init, IInv, CountBehind, Ascending, Complete, NothingLeftBehind

\* A step that leaves the sweeper alone may take entries out of m, and set keys to times
\* after the clock.
LEMMA OperationKeeps ==
  ASSUME IInv, Typed', UNCHANGED <<now, run, handing, delCh, deleting>>,
         now' + tick' <= clock',
         timeMap \subseteq timeMap',
         \A t, k : <<t, k>> \in timeMap' => <<t, k>> \in timeMap \/ t > clock,
         \A k \in Key : m'[k] # None => m'[k] = m[k] \/ <<m'[k].expiredTime, k>> \in timeMap'
  PROVE  IInv'
<1> USE DEF IInv
<1>1. InFlight' = InFlight
  BY DEF InFlight
<1>2. CountBehind' /\ Ascending'
  BY DEF CountBehind, Ascending
<1>3. now <= clock /\ \A d \in InFlight : d.t <= now
  BY DEF InFlight, Ascending, CountBehind, Typed, TypeOK, DelMsg
<1>4. Complete'
  <2> SUFFICES ASSUME NEW d \in InFlight, NEW k \in Key, <<d.t, k>> \in timeMap'
               PROVE  k \in d.keys
    BY <1>1 DEF Complete
  <2>1. d.t <= clock
    BY <1>3 DEF InFlight, Typed, TypeOK, DelMsg
  <2>2. <<d.t, k>> \in timeMap
    BY <2>1 DEF InFlight, Typed, TypeOK, DelMsg
  <2> QED BY <2>2 DEF Complete
<1>5. \A t, k : Pending(t, k)' <=> Pending(t, k)
  BY <1>1 DEF Pending
<1>6. NothingLeftBehind'
  <2> SUFFICES ASSUME run # "stopped" PROVE NothingLeftBehind'
    BY DEF NothingLeftBehind
  <2>1. ASSUME NEW p \in timeMap'
        PROVE  p[1] > now \/ (p[1] = now /\ run = "lookup") \/ Pending(p[1], p[2])
    <3>1. PICK t \in Nat, k \in Key : p = <<t, k>>
      BY <2>1 DEF Typed, TypeOK
    <3>2. <<t, k>> \in timeMap \/ t > now
      BY <2>1, <3>1, <1>3 DEF Typed, TypeOK
    <3> QED BY <3>1, <3>2 DEF NothingLeftBehind
  <2>2. ASSUME NEW k \in Key, m'[k] # None
        PROVE  <<m'[k].expiredTime, k>> \in timeMap' \/ Pending(m'[k].expiredTime, k)
    BY <2>2 DEF NothingLeftBehind
  <2> QED BY <2>1, <2>2, <1>5 DEF NothingLeftBehind
<1> QED BY <1>2, <1>4, <1>6

LEMMA ChannelTyped == Typed => \A i \in DOMAIN delCh : delCh[i] \in DelMsg /\ i \in Nat
<1> SUFFICES ASSUME Typed, NEW i \in DOMAIN delCh PROVE delCh[i] \in DelMsg /\ i \in Nat
  OBVIOUS
<1>1. delCh \in Seq(DelMsg)
  BY DEF Typed, TypeOK
<1> QED BY <1>1

\* What is on its way when the goroutine sends its message and when the other receives one.
LEMMA SendsInFlight == Typed /\ Sends => InFlight' = InFlight
<1> SUFFICES ASSUME Typed, Sends PROVE InFlight' = InFlight
  OBVIOUS
<1>1. handing \in DelMsg /\ handing # None /\ delCh \in Seq(DelMsg)
  BY DEF Typed, TypeOK, Sends
<1>2. {delCh'[i] : i \in DOMAIN delCh'} = {delCh[i] : i \in DOMAIN delCh} \cup {handing}
  <2> HIDE DEF DelMsg
  <2> QED BY <1>1, SeqAppend DEF Sends
<1>3. handing' = None /\ deleting' = deleting
  BY DEF Sends
<1> QED BY <1>1, <1>2, <1>3 DEF InFlight

LEMMA ReceivesInFlight == Typed /\ Receives => InFlight' = InFlight
<1> SUFFICES ASSUME Typed, Receives PROVE InFlight' = InFlight
  OBVIOUS
<1>1. delCh \in Seq(DelMsg) /\ delCh # <<>>
  BY DEF Typed, TypeOK, Receives
<1>2. {delCh[i] : i \in DOMAIN delCh} = {delCh'[i] : i \in DOMAIN delCh'} \cup {Head(delCh)}
  <2> DEFINE q == Tail(delCh)
  <2>1. delCh' = q
    BY DEF Receives
  <2>2. /\ Head(delCh) = delCh[1] /\ 1 \in DOMAIN delCh
        /\ \A i \in DOMAIN q : i + 1 \in DOMAIN delCh /\ q[i] = delCh[i + 1]
        /\ \A i \in DOMAIN delCh : i # 1 => i - 1 \in DOMAIN q /\ q[i - 1] = delCh[i]
    BY <1>1, SeqHeadTail
  <2> HIDE DEF q
  <2> QED BY <2>1, <2>2
<1>3. Head(delCh) # None
  <2>1. Head(delCh) \in DelMsg
    BY <1>1, SeqHeadTail
  <2> QED BY <2>1, CacheNoneAssumption DEF DelMsg
<1>4. deleting = None /\ deleting' = Head(delCh) /\ handing' = handing
  BY DEF Receives
<1> QED BY <1>2, <1>3, <1>4 DEF InFlight

\* No other message is about the time that is being deleted.
LEMMA OwnTime ==
  ASSUME IInv, deleting # None
  PROVE  \A d \in InFlight : d.t = deleting.t => d = deleting
<1>1. Typed
  BY DEF IInv
<1>2. \A i \in DOMAIN delCh : deleting.t < delCh[i].t
  BY DEF IInv, Ascending
<1>3. handing # None => deleting.t < handing.t
  BY <1>1 DEF IInv, Ascending, Typed
<1>4. deleting.t \in Nat /\ (handing # None => handing.t \in Nat)
  BY <1>1 DEF Typed, TypeOK, DelMsg
<1>5. \A i \in DOMAIN delCh : delCh[i].t \in Nat
  BY <1>1, ChannelTyped DEF DelMsg
<1> QED BY <1>2, <1>3, <1>4, <1>5 DEF InFlight

LEMMA CacheStep == IInv /\ [Next]_vars => IInv'
<1> SUFFICES ASSUME IInv, [Next]_vars PROVE IInv'
  OBVIOUS
<1>1. Typed /\ Typed'
  BY CacheTypedStep DEF IInv
<1>2. now + tick <= clock /\ clock \in Nat /\ now \in Nat /\ tick \in 0..1
  BY <1>1 DEF IInv, CountBehind, Typed, TypeOK
<1> USE DEF dataVars, sweepVars
<1>3. ASSUME NEW k \in Key, NEW v \in Value, NEW s \in Seconds, Set(k, v, s) PROVE IInv'
  <2>1. s \in Nat \ {0}
    BY CacheAssumption
  <2>2. clock + s > clock
    BY <2>1, <1>2
  <2>3. \A q \in Key : m'[q] # None => m'[q] = m[q] \/ <<m'[q].expiredTime, q>> \in timeMap'
    BY <1>1, <1>3 DEF Set, Typed, TypeOK
  <2> QED BY <1>1, <1>2, <1>3, <2>2, <2>3, OperationKeeps DEF Set
<1>4. ASSUME NEW k \in Key, Get(k) \/ Delete(k) PROVE IInv'
  <2>1. \A q \in Key : m'[q] # None => m'[q] = m[q]
    BY <1>1, <1>4 DEF Get, Delete, Checked, Typed, TypeOK
  <2> QED BY <1>1, <1>2, <1>4, <2>1, OperationKeeps DEF Get, Delete
<1>5. ASSUME NEW K \in SUBSET Key, Checks(K) PROVE IInv'
  <2>1. \A q \in Key : m'[q] # None => m'[q] = m[q]
    BY <1>1, <1>5 DEF Checks, Checked, Typed, TypeOK
  <2> QED BY <1>1, <1>2, <1>5, <2>1, OperationKeeps DEF Checks
<1>6. CASE Closes \/ UNCHANGED vars
  BY <1>1, <1>2, <1>6, OperationKeeps DEF Closes, vars
<1>7. CASE ClockTicks
  BY <1>1, <1>2, <1>7, OperationKeeps DEF ClockTicks
<1>8. CASE Clear
  <2>1. InFlight' = InFlight /\ timeMap' = {} /\ \A k \in Key : m'[k] = None
    BY <1>8 DEF Clear, InFlight
  <2>2. CountBehind' /\ Ascending'
    BY <1>8 DEF Clear, IInv, CountBehind, Ascending
  <2> QED BY <1>1, <2>1, <2>2 DEF IInv, Complete, NothingLeftBehind
\* the count comes to the next second: its keys are looked up now
<1>9. CASE TakesTick
  <2>1. InFlight' = InFlight /\ timeMap' = timeMap /\ m' = m
    BY <1>9 DEF TakesTick, InFlight
  <2>2. CountBehind'
    BY <1>2, <1>9 DEF TakesTick, CountBehind
  <2>3. Ascending'
    <3>1. \A i \in DOMAIN delCh : delCh[i].t \in Nat /\ delCh[i].t <= now
      BY <1>1, ChannelTyped DEF IInv, Ascending, DelMsg
    <3>2. deleting # None => deleting.t \in Nat /\ deleting.t <= now
      BY <1>1 DEF IInv, Ascending, Typed, TypeOK, DelMsg
    <3>3. handing' = None
      BY <1>1, <1>9 DEF TakesTick, Typed
    <3>4. now' = now + 1 /\ UNCHANGED <<delCh, deleting>>
      BY <1>9 DEF TakesTick
    <3> QED BY <1>2, <3>1, <3>2, <3>3, <3>4 DEF IInv, Ascending
  <2>4. Complete'
    BY <2>1 DEF IInv, Complete
  <2>5. NothingLeftBehind'
    <3>1. \A p \in timeMap : p[1] \in Nat
      BY <1>1 DEF Typed, TypeOK
    <3>2. run = "select" /\ run' = "lookup" /\ now' = now + 1
      BY <1>9 DEF TakesTick
    <3> QED BY <1>2, <2>1, <3>1, <3>2 DEF IInv, NothingLeftBehind, Pending
  <2> QED BY <1>1, <2>2, <2>3, <2>4, <2>5 DEF IInv
<1>10. CASE LooksUp
  <2>1. UNCHANGED <<now, tick, clock, timeMap, m, delCh, deleting>> /\ run = "lookup"
    BY <1>10 DEF LooksUp
  <2>2. handing = None
    BY <1>1, <2>1 DEF Typed
  <2>3. CountBehind'
    BY <2>1 DEF IInv, CountBehind
  <2>4. Ascending'
    BY <1>10, <2>1, <2>2 DEF LooksUp, IInv, Ascending
  <2>5. CASE SlotOf(now) = {}
    <3>1. InFlight' = InFlight /\ run' = "select"
      BY <1>10, <2>5 DEF LooksUp, InFlight
    <3>2. \A p \in timeMap : p[1] # now
      BY <1>1, <2>5 DEF SlotOf, Typed, TypeOK
    <3>3. Complete' /\ NothingLeftBehind'
      BY <2>1, <3>1, <3>2 DEF IInv, Complete, NothingLeftBehind, Pending
    <3> QED BY <1>1, <2>3, <2>4, <3>3 DEF IInv
  <2>6. CASE SlotOf(now) # {}
    <3> DEFINE d == [keys |-> SlotOf(now), t |-> now]
    <3>1. handing' = d /\ run' = "send" /\ d.keys = SlotOf(now) /\ d.t = now
      BY <1>10, <2>6 DEF LooksUp
    <3>2. d # None
      BY <1>1, <3>1 DEF Typed
    <3> HIDE DEF d
    <3>3. InFlight' = InFlight \cup {d}
      BY <2>1, <2>2, <3>1, <3>2 DEF InFlight
    <3>4. Complete'
      BY <2>1, <3>1, <3>3 DEF IInv, Complete, SlotOf
    <3>5. \A p \in timeMap : p[1] = now => p[2] \in d.keys
      BY <1>1, <3>1 DEF SlotOf, Typed, TypeOK
    <3>6. NothingLeftBehind'
      BY <2>1, <3>1, <3>3, <3>5 DEF IInv, NothingLeftBehind, Pending
    <3> QED BY <1>1, <2>3, <2>4, <3>4, <3>6 DEF IInv
  <2> QED BY <2>5, <2>6
<1>11. CASE Sends
  <2>1. InFlight' = InFlight /\ UNCHANGED <<now, tick, clock, timeMap, m, deleting>>
        /\ run = "send" /\ run' = "select" /\ handing' = None /\ handing # None
    BY <1>1, <1>11, SendsInFlight DEF Sends, Typed
  <2>2. CountBehind' /\ Complete' /\ NothingLeftBehind'
    BY <2>1 DEF IInv, CountBehind, Complete, NothingLeftBehind, Pending
  <2>3. Ascending'
    <3>1. handing \in DelMsg /\ delCh \in Seq(DelMsg) /\ delCh' = Append(delCh, handing)
      BY <1>1, <1>11, <2>1 DEF Sends, Typed, TypeOK
    <3>2. /\ \A i \in DOMAIN delCh : delCh'[i] = delCh[i]
          /\ \A i \in DOMAIN delCh' :
               i \in DOMAIN delCh \/ (i = Len(delCh) + 1 /\ delCh'[i] = handing)
          /\ \A i \in DOMAIN delCh : i \in Nat /\ i < Len(delCh) + 1
      BY <3>1, SeqAppend
    <3>3. handing.t = now /\ \A i \in DOMAIN delCh : delCh[i].t < now
      BY <2>1 DEF IInv, Ascending
    <3>4. \A i, j \in DOMAIN delCh' : i < j => delCh'[i].t < delCh'[j].t
      BY <3>2, <3>3 DEF IInv, Ascending
    <3>5. \A i \in DOMAIN delCh' : delCh'[i].t <= now
      BY <1>2, <3>2, <3>3, ChannelTyped, <1>1 DEF DelMsg
    <3>6. deleting # None => deleting.t <= now /\ \A i \in DOMAIN delCh' : deleting.t < delCh'[i].t
      BY <2>1, <3>2, <3>3 DEF IInv, Ascending
    <3> QED BY <2>1, <3>4, <3>5, <3>6 DEF Ascending
  <2> QED BY <1>1, <2>2, <2>3 DEF IInv
<1>12. CASE Stops
  <2>1. InFlight' = InFlight /\ timeMap' = timeMap
    BY <1>12 DEF Stops, InFlight
  <2> QED BY <1>1, <1>2, <1>12, <2>1
          DEF Stops, IInv, CountBehind, Ascending, Complete, NothingLeftBehind
<1>13. CASE Receives
  <2>1. InFlight' = InFlight /\ UNCHANGED <<now, tick, clock, timeMap, m, run, handing>>
        /\ deleting' = Head(delCh) /\ delCh' = Tail(delCh)
    BY <1>1, <1>13, ReceivesInFlight DEF Receives
  <2>2. CountBehind' /\ Complete' /\ NothingLeftBehind'
    BY <2>1 DEF IInv, CountBehind, Complete, NothingLeftBehind, Pending
  <2>3. Ascending'
    <3>1. delCh \in Seq(DelMsg) /\ delCh # <<>>
      BY <1>1, <1>13 DEF Receives, Typed, TypeOK
    <3>2. /\ deleting' = delCh[1] /\ 1 \in DOMAIN delCh
          /\ \A i \in DOMAIN delCh' : i \in Nat /\ i + 1 \in DOMAIN delCh /\ delCh'[i] = delCh[i + 1]
      BY <2>1, <3>1, SeqHeadTail
    <3>3. \A i \in DOMAIN delCh' : 1 < i + 1
      BY <2>1, <3>1, SeqHeadTail
    <3> QED BY <2>1, <3>2, <3>3 DEF IInv, Ascending
  <2> QED BY <1>1, <2>2, <2>3 DEF IInv
<1>14. CASE MultiDelete
  <2>1. deleting \in DelMsg /\ deleting # None /\ deleting' = None
        /\ UNCHANGED <<now, tick, clock, run, handing, delCh>>
    BY <1>1, <1>14 DEF MultiDelete, Typed, TypeOK
  <2>2. InFlight \subseteq InFlight' \cup {deleting} /\ InFlight' \subseteq InFlight
    BY <2>1 DEF InFlight
  <2>3. timeMap' = {p \in timeMap : p[1] # deleting.t}
        /\ m' = [k \in Key |-> IF k \in deleting.keys THEN None ELSE m[k]]
    BY <1>14 DEF MultiDelete
  <2>4. CountBehind' /\ Ascending'
    BY <2>1 DEF IInv, CountBehind, Ascending
  <2>5. Complete'
    BY <2>2, <2>3 DEF IInv, Complete
  <2>6. NothingLeftBehind'
    <3> SUFFICES ASSUME run # "stopped" PROVE NothingLeftBehind'
      BY <2>1 DEF NothingLeftBehind
    <3>1. \A t, k : Pending(t, k) /\ t # deleting.t => Pending(t, k)'
      BY <2>2 DEF Pending
    <3>2. \A p \in timeMap' : p[1] > now \/ (p[1] = now /\ run = "lookup") \/ Pending(p[1], p[2])'
      BY <2>3, <3>1 DEF IInv, NothingLeftBehind
    <3>3. \A d \in InFlight : d.t = deleting.t => d = deleting
      BY <2>1, OwnTime
    <3>4. ASSUME NEW k \in Key, NEW e, m'[k] # None, m'[k].expiredTime = e
          PROVE  <<e, k>> \in timeMap' \/ Pending(e, k)'
      <4>1. k \notin deleting.keys /\ m[k] # None /\ m[k].expiredTime = e
        BY <1>1, <2>3, <3>4
      <4>2. <<e, k>> \in timeMap \/ Pending(e, k)
        BY <4>1 DEF IInv, NothingLeftBehind
      <4>3. e # deleting.t
        <5>1. deleting \in InFlight
          BY <2>1 DEF InFlight
        <5> QED BY <4>1, <4>2, <5>1, <3>3 DEF IInv, Complete, Pending
      <4> QED BY <4>2, <4>3, <2>3, <3>1
    <3> QED BY <2>1, <3>2, <3>4 DEF NothingLeftBehind, Pending
  <2> QED BY <1>1, <2>4, <2>5, <2>6 DEF IInv
<1> QED
  BY <1>3, <1>4, <1>5, <1>6, <1>7, <1>8, <1>9, <1>10, <1>11, <1>12, <1>13, <1>14
  DEF Next, Operation, Sweeper

\* Whatever is called when, and however far the count is behind: every time keys were set
\* to expire at is still to be counted or being handled, and so is every entry's.
THEOREM CacheNothingLeftBehind == Spec => []NothingLeftBehind
<1>1. IInv => NothingLeftBehind
  BY DEF IInv
<1> QED BY <1>1, CacheInit, CacheStep, PTL DEF Spec

-----------------------------------------------------------------------------
(* The cache implements TtlCache *)

ttlVars == <<clock, Answerable, Due, answer>>

LEMMA TtlInit == Init => Ttl!Init
<1> SUFFICES ASSUME Init PROVE Ttl!Init
  OBVIOUS
<1>1. Due = {}
  BY DEF Init, Due, InFlight
<1>2. Answerable = [k \in Key |-> None]
  BY DEF Init, Answerable, Good
<1> QED BY <1>1, <1>2 DEF Init, Ttl!Init

\* What is due are the times in timeMap and those on their way.
LEMMA DueMeans ==
  \A t, k : <<t, k>> \in Due <=> <<t, k>> \in timeMap \/ Pending(t, k)
BY DEF Due, Pending

LEMMA TtlStep == IInv /\ IInv' /\ [Next]_vars => [Ttl!Next]_ttlVars
<1> SUFFICES ASSUME IInv, IInv', [Next]_vars PROVE [Ttl!Next]_ttlVars
  OBVIOUS
<1>1. Typed /\ Typed'
  BY DEF IInv
<1>2. clock \in Nat /\ now \in Nat /\ now <= clock
  BY <1>1 DEF IInv, CountBehind, Typed, TypeOK
<1> USE DEF dataVars, sweepVars
<1>3. ASSUME NEW k \in Key, NEW v \in Value, NEW s \in Seconds, Set(k, v, s)
      PROVE  Ttl!Set(k, v, s)
  <2>1. s \in Nat \ {0} /\ clock + s > clock
    BY <1>2, CacheAssumption
  <2>2. InFlight' = InFlight /\ clock' = clock
    BY <1>3 DEF Set, InFlight
  <2>3. Due' = Due \cup {<<clock + s, k>>}
    BY <1>3, <2>2 DEF Set, Due
  <2>4. m' = [m EXCEPT ![k] = [data |-> v, expiredTime |-> clock + s]]
    BY <1>3 DEF Set
  <2>5. Answerable' = [Answerable EXCEPT ![k] = [data |-> v, expiredTime |-> clock + s]]
    <3>1. \A q \in Key \ {k} : m'[q] = m[q]
      BY <1>1, <2>4 DEF Typed, TypeOK
    <3>2. m'[k] = [data |-> v, expiredTime |-> clock + s] /\ m'[k] # None
      <4>1. m'[k] = [data |-> v, expiredTime |-> clock + s]
        BY <1>1, <2>4 DEF Typed, TypeOK
      <4>2. [data |-> v, expiredTime |-> clock + s] \in [data : Value, expiredTime : Nat]
        BY <1>2, <2>1
      <4> QED BY <4>1, <4>2, CacheNoneAssumption
    <3>3. Good(k)'
      BY <2>1, <2>2, <3>2 DEF Good
    <3> QED BY <2>2, <3>1, <3>2, <3>3 DEF Answerable, Good
  <2> QED BY <1>3, <2>2, <2>3, <2>5 DEF Set, Ttl!Set
<1>4. ASSUME NEW k \in Key, Get(k)
      PROVE  Ttl!Get(k)
  <2>1. Due' = Due /\ clock' = clock
    BY <1>4 DEF Get, Due, InFlight
  <2>2. Answerable' = Answerable
    BY <1>1, <1>4 DEF Get, Checked, Answerable, Good, Typed, TypeOK
  <2>3. answer' = Answerable[k]
    BY <1>4 DEF Get, Answerable
  <2> QED BY <2>1, <2>2, <2>3 DEF Ttl!Get
<1>5. ASSUME NEW K \in SUBSET Key, Checks(K)
      PROVE  Ttl!Idle
  <2>1. Due' = Due /\ clock' = clock /\ answer' = None
    BY <1>5 DEF Checks, Due, InFlight
  <2>2. Answerable' = Answerable
    BY <1>1, <1>5 DEF Checks, Checked, Answerable, Good, Typed, TypeOK
  <2> QED BY <2>1, <2>2 DEF Ttl!Idle
<1>6. ASSUME NEW k \in Key, Delete(k)
      PROVE  Ttl!Delete(k)
  <2>1. Due' = Due /\ clock' = clock /\ answer' = None
    BY <1>6 DEF Delete, Due, InFlight
  <2>2. Answerable' = [Answerable EXCEPT ![k] = None]
    BY <1>1, <1>6 DEF Delete, Answerable, Good, Typed, TypeOK
  <2> QED BY <2>1, <2>2 DEF Ttl!Delete
<1>7. CASE Closes \/ TakesTick \/ Stops
  <2>1. UNCHANGED <<clock, m, timeMap, handing, delCh, deleting>> /\ answer' = None
    BY <1>7 DEF Closes, TakesTick, Stops
  <2>2. Due' = Due /\ Answerable' = Answerable
    BY <2>1 DEF Due, InFlight, Answerable, Good
  <2> QED BY <2>1, <2>2 DEF Ttl!Next, Ttl!Idle
<1>8. CASE Clear
  <2>1. InFlight' = InFlight /\ UNCHANGED clock /\ answer' = None
        /\ timeMap' = {} /\ m' = [k \in Key |-> None]
    BY <1>8 DEF Clear, InFlight
  <2>2. Answerable' = [k \in Key |-> None]
    BY <2>1 DEF Answerable, Good
  <2>3. \A d \in InFlight : d.t <= clock
    <3>1. \A i \in DOMAIN delCh : delCh[i].t \in Nat /\ delCh[i].t <= now
      BY <1>1, ChannelTyped DEF IInv, Ascending, DelMsg
    <3>2. /\ deleting # None => deleting.t \in Nat /\ deleting.t <= now
          /\ handing # None => handing.t = now
      BY <1>1 DEF IInv, Ascending, Typed, TypeOK, DelMsg
    <3> QED BY <1>2, <3>1, <3>2 DEF InFlight
  <2>4. Due' \subseteq {d \in Due : d[1] <= clock}
    <3> SUFFICES ASSUME NEW p \in Due' PROVE p \in Due /\ p[1] <= clock
      OBVIOUS
    <3>1. PICK d \in InFlight : p \in {d.t} \X d.keys
      BY <2>1 DEF Due
    <3> QED BY <2>3, <3>1 DEF Due
  <2> QED BY <2>1, <2>2, <2>4 DEF Ttl!Next, Ttl!Clear
<1>9. CASE ClockTicks
  <2>1. UNCHANGED <<m, timeMap, handing, delCh, deleting>> /\ answer' = None /\ clock' = clock + 1
    BY <1>9 DEF ClockTicks
  <2>2. Due' = Due
    BY <2>1 DEF Due, InFlight
  <2>3. Answerable' = [k \in Key |->
          IF Answerable[k] # None /\ Answerable[k].expiredTime <= clock' THEN None ELSE Answerable[k]]
    <3> SUFFICES ASSUME NEW k \in Key
                 PROVE  (IF Good(k)' THEN m[k] ELSE None)
                        = IF Answerable[k] # None /\ Answerable[k].expiredTime <= clock'
                            THEN None ELSE Answerable[k]
      BY <2>1 DEF Answerable
    <3>1. m[k] # None => m[k].expiredTime \in Nat
      BY <1>1 DEF Typed, TypeOK, Entry
    <3> QED BY <1>2, <2>1, <3>1 DEF Answerable, Good
  <2> QED BY <2>1, <2>2, <2>3 DEF Ttl!Next, Ttl!Tick
<1>10. CASE LooksUp
  <2>1. UNCHANGED <<clock, m, timeMap, delCh, deleting>> /\ answer' = None /\ handing = None
    BY <1>1, <1>10 DEF LooksUp, Typed
  <2>2. Answerable' = Answerable
    BY <2>1 DEF Answerable, Good
  <2>3. Due' = Due
    <3>1. CASE UNCHANGED handing
      BY <2>1, <3>1 DEF Due, InFlight
    <3>2. CASE handing' = [keys |-> SlotOf(now), t |-> now]
      <4>1. handing' # None
        <5>1. [keys |-> SlotOf(now), t |-> now] \in [keys : SUBSET Key, t : Nat]
          BY <1>2 DEF SlotOf
        <5> QED BY <3>2, <5>1, CacheNoneAssumption
      <4>2. InFlight' = InFlight \cup {handing'}
        BY <2>1, <4>1 DEF InFlight
      <4>3. {now} \X SlotOf(now) \subseteq timeMap
        BY DEF SlotOf
      <4>4. {handing'.t} \X handing'.keys \subseteq timeMap
        BY <3>2, <4>3
      <4> QED BY <2>1, <4>2, <4>4 DEF Due
    <3> QED BY <1>10, <3>1, <3>2 DEF LooksUp
  <2> QED BY <2>1, <2>2, <2>3 DEF Ttl!Next, Ttl!Idle
<1>11. CASE Sends \/ Receives
  <2>1. UNCHANGED <<clock, m, timeMap>> /\ answer' = None
    BY <1>11 DEF Sends, Receives
  <2>2. InFlight' = InFlight
    BY <1>1, <1>11, SendsInFlight, ReceivesInFlight
  <2>3. Due' = Due /\ Answerable' = Answerable
    BY <2>1, <2>2 DEF Due, Answerable, Good
  <2> QED BY <2>1, <2>3 DEF Ttl!Next, Ttl!Idle
\* the keys the message names are those due at its time
<1>12. CASE MultiDelete
  <2> DEFINE t == deleting.t
  <2>1. deleting # None /\ deleting' = None /\ UNCHANGED <<clock, handing, delCh>> /\ answer' = None
        /\ timeMap' = {p \in timeMap : p[1] # t}
        /\ m' = [k \in Key |-> IF k \in deleting.keys THEN None ELSE m[k]]
    BY <1>12 DEF MultiDelete
  <2>2. t \in 0..clock /\ deleting.keys \subseteq Key
    BY <1>1, <1>2, <2>1 DEF IInv, Ascending, Typed, TypeOK, DelMsg
  <2>3. deleting \in InFlight /\ \A d \in InFlight : d.t = t => d = deleting
    BY <2>1, OwnTime DEF InFlight
  <2>4. InFlight' = InFlight \ {deleting}
    <3>1. handing # None => handing.t # t
      BY <1>1, <2>1 DEF IInv, Ascending, Typed, TypeOK, DelMsg
    <3>2. \A i \in DOMAIN delCh : delCh[i].t # t
      BY <1>1, <2>1, ChannelTyped DEF IInv, Ascending, DelMsg, Typed, TypeOK
    <3> QED BY <2>1, <3>1, <3>2 DEF InFlight
  <2>5. Due' = {p \in Due : p[1] # t}
    BY <2>1, <2>3, <2>4 DEF Due
  <2>6. \A k \in Key : <<t, k>> \in Due <=> k \in deleting.keys
    BY <2>3, DueMeans DEF IInv, Complete, Pending
  <2>7. Answerable' = [k \in Key |-> IF <<t, k>> \in Due THEN None ELSE Answerable[k]]
    BY <2>1, <2>6 DEF Answerable, Good
  <2>8. Ttl!Handle(t)
    BY <2>1, <2>2, <2>5, <2>7 DEF Ttl!Handle
  <2> QED BY <2>2, <2>8 DEF Ttl!Next
<1>13. CASE UNCHANGED vars
  BY <1>13 DEF vars, ttlVars, Due, InFlight, Answerable, Good
<1> QED
  BY <1>3, <1>4, <1>5, <1>6, <1>7, <1>8, <1>9, <1>10, <1>11, <1>12, <1>13
  DEF Next, Operation, Sweeper, Ttl!Next

\* The cache implements TtlCache: a Get answers with what was last set and never with
\* anything whose time is over, and what is forgotten early is forgotten at a time its key
\* was set to expire at earlier.
THEOREM CacheImplementsTtl == Spec => TtlSpec
<1> QED BY CacheInit, CacheStep, TtlInit, TtlStep, PTL
        DEF Spec, TtlSpec, Ttl!Spec, ttlVars

=============================================================================
