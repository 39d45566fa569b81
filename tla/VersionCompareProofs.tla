----------------------- MODULE VersionCompareProofs -----------------------
(***************************************************************************)
(* When comparing the digits of two versions as one number is right.       *)
(***************************************************************************)
EXTENDS VersionCompare, TLAPS

\* A number, and where it is written after another.
Fits(n, W) == n \in Nat /\ W \in {10, 100, 1000} /\ n \in 0..(W - 1)

LEMMA Widths == \A n \in Numbers : Fits(n, Width(n))
<1> SUFFICES ASSUME NEW n \in Numbers PROVE Fits(n, Width(n))
  OBVIOUS
<1>1. n \in 0..999
  BY NumbersAssumption
<1> QED BY <1>1 DEF Width, Fits

\* A number with another written after it.
LEMMA Written ==
  ASSUME NEW a \in Nat, NEW U, NEW b, Fits(b, U)
  PROVE  a * U + b \in Nat
<1> USE DEF Fits
<1>1. CASE U = 10
  BY <1>1
<1>2. CASE U = 100
  BY <1>2
<1>3. CASE U = 1000
  BY <1>3
<1> QED BY <1>1, <1>2, <1>3

Digits(a, U, b, V, c) == (a * U + b) * V + c

\* Three numbers written one after another, the second and the third as long as those they
\* are compared with, compare as the triples do.
LEMMA DigitTriples ==
  ASSUME NEW a \in Nat, NEW d \in Nat,
         NEW U, NEW b, NEW e, Fits(b, U), Fits(e, U),
         NEW V, NEW c, NEW f, Fits(c, V), Fits(f, V)
  PROVE  Digits(a, U, b, V, c) < Digits(d, U, e, V, f)
           <=> a < d \/ (a = d /\ b < e) \/ (a = d /\ b = e /\ c < f)
<1> USE DEF Digits, Fits
<1>1. CASE U = 10 /\ V = 10
  BY <1>1
<1>2. CASE U = 10 /\ V = 100
  BY <1>2
<1>3. CASE U = 10 /\ V = 1000
  BY <1>3
<1>4. CASE U = 100 /\ V = 10
  BY <1>4
<1>5. CASE U = 100 /\ V = 100
  BY <1>5
<1>6. CASE U = 100 /\ V = 1000
  BY <1>6
<1>7. CASE U = 1000 /\ V = 10
  BY <1>7
<1>8. CASE U = 1000 /\ V = 100
  BY <1>8
<1>9. CASE U = 1000 /\ V = 1000
  BY <1>9
<1> QED BY <1>1, <1>2, <1>3, <1>4, <1>5, <1>6, <1>7, <1>8, <1>9

LEMMA Components ==
  ASSUME NEW v \in Version
  PROVE  /\ v.main[1] \in Nat
         /\ Fits(v.main[2], Width(v.main[2])) /\ Fits(v.main[3], Width(v.main[3]))
<1>1. v.main \in [1..3 -> Numbers]
  BY DEF Version
<1>2. v.main[1] \in Numbers /\ v.main[2] \in Numbers /\ v.main[3] \in Numbers
  BY <1>1
<1>3. Fits(v.main[1], Width(v.main[1]))
  BY <1>2, Widths
<1> QED BY <1>2, <1>3, Widths DEF Fits

LEMMA MainsOrdered ==
  ASSUME NEW v \in Version, NEW w \in Version, SameWidths(v, w)
  PROVE  MainIntVersion(v) < MainIntVersion(w) <=> Older(v, w)
<1> DEFINE U == Width(v.main[2])  V == Width(v.main[3])
<1>1. U = Width(w.main[2]) /\ V = Width(w.main[3])
  BY DEF SameWidths
<1>2. /\ v.main[1] \in Nat /\ w.main[1] \in Nat
      /\ Fits(v.main[2], U) /\ Fits(w.main[2], U)
      /\ Fits(v.main[3], V) /\ Fits(w.main[3], V)
  BY <1>1, Components
<1>3. /\ MainIntVersion(v) = Digits(v.main[1], U, v.main[2], V, v.main[3])
      /\ MainIntVersion(w) = Digits(w.main[1], U, w.main[2], V, w.main[3])
  BY <1>1 DEF MainIntVersion, Digits
<1> HIDE DEF U, V
<1>4. MainIntVersion(v) < MainIntVersion(w)
        <=> \/ v.main[1] < w.main[1]
            \/ v.main[1] = w.main[1] /\ v.main[2] < w.main[2]
            \/ v.main[1] = w.main[1] /\ v.main[2] = w.main[2] /\ v.main[3] < w.main[3]
  BY <1>2, <1>3, DigitTriples
<1>5. Older(v, w)
        <=> \/ v.main[1] < w.main[1]
            \/ v.main[1] = w.main[1] /\ v.main[2] < w.main[2]
            \/ v.main[1] = w.main[1] /\ v.main[2] = w.main[2] /\ v.main[3] < w.main[3]
  <2>1. 1..3 = {1, 2, 3} /\ 1..(1 - 1) = {} /\ 1..(2 - 1) = {1} /\ 1..(3 - 1) = {1, 2}
    OBVIOUS
  <2> QED BY <2>1 DEF Older
<1> QED BY <1>4, <1>5

LEMMA NoTagNever ==
  ASSUME NEW v \in Version, v.stage = "release"
  PROVE  ~versionCompare(v, NoTag)
<1>1. NoTag.main[1] = 0 /\ NoTag.main[2] = 0 /\ NoTag.main[3] = 0 /\ NoTag.stage = "release"
  BY DEF NoTag
<1>2. MainIntVersion(NoTag) = 0
  BY <1>1 DEF MainIntVersion, Width
<1> DEFINE x == v.main[1] * Width(v.main[2]) + v.main[2]
<1>3. x \in Nat
  BY Components, Written
<1>4. MainIntVersion(v) = x * Width(v.main[3]) + v.main[3]
  BY DEF MainIntVersion
<1> HIDE DEF x
<1>5. MainIntVersion(v) \in Nat
  BY <1>3, <1>4, Components, Written
<1>6. ~(MainIntVersion(v) < 0)
  BY <1>5
<1> QED BY <1>1, <1>2, <1>6 DEF versionCompare

UpdateOK ==
  /\ version \in Version \cup {NoVersion}
  /\ latest \in Version \cup {NoTag, NoVersion}
  /\ NewerAnnounced

LEMMA UpdateStep == UpdateOK /\ [ChecksUpdate]_updateVars => UpdateOK'
<1> SUFFICES ASSUME UpdateOK, [ChecksUpdate]_updateVars PROVE UpdateOK'
  OBVIOUS
<1>1. CASE UNCHANGED updateVars
  BY <1>1 DEF UpdateOK, updateVars, NewerAnnounced, IsRelease
<1>2. CASE ChecksUpdate
  <2>1. version' = version /\ version \in Version \cup {NoVersion}
        /\ latest' \in Version \cup {NoTag, NoVersion}
    BY <1>2 DEF ChecksUpdate, UpdateOK
  <2>2. NoTag \in Version
    BY NumbersAssumption DEF NoTag, Version
  <2>3. ASSUME IsRelease(version), IsRelease(latest')
        PROVE  /\ SameWidths(version, latest') => (announced' <=> Older(version, latest'))
               /\ latest' = NoTag => ~announced'
    <3>1. version \in Version /\ latest' \in Version
      BY <2>1, <2>2, <2>3 DEF IsRelease
    <3>2. announced' <=> versionCompare(version, latest')
      BY <1>2, <2>3 DEF ChecksUpdate, IsRelease
    <3>3. versionCompare(version, latest') <=> MainIntVersion(version) < MainIntVersion(latest')
      BY <2>3 DEF versionCompare, IsRelease
    <3>4. SameWidths(version, latest') => (announced' <=> Older(version, latest'))
      BY <3>1, <3>2, <3>3, MainsOrdered
    <3>5. latest' = NoTag => ~announced'
      BY <2>3, <3>1, <3>2, NoTagNever DEF IsRelease
    <3> QED BY <3>4, <3>5
  <2> QED BY <2>1, <2>3 DEF UpdateOK, NewerAnnounced
<1> QED BY <1>1, <1>2

\* A release is told of another exactly when that is newer, for all versions whose second
\* and third numbers are below a thousand and written with as many digits.
THEOREM UpdateNewerAnnounced == UpdateSpec => []NewerAnnounced
<1>1. UpdateInit => UpdateOK
  BY DEF UpdateInit, UpdateOK, NewerAnnounced, IsRelease
<1>2. UpdateOK => NewerAnnounced
  BY DEF UpdateOK
<1> QED BY <1>1, <1>2, UpdateStep, PTL DEF UpdateSpec

=============================================================================
