------------------------- MODULE QuizAnswerProofs -------------------------
(***************************************************************************)
(* What is proved of a question in the loop of startAnswer, for any        *)
(* questions and any number of rounds.                                     *)
(*                                                                         *)
(* First what it ticks and fills: that an option is clicked once at most,  *)
(* and that the options ticked and the texts filled are those the tips     *)
(* say.  That rests on what the loops over slices compute (getTips,        *)
(* RemoveRepByLoop, the hits of the tips), which is proved here by         *)
(* induction on the round.                                                 *)
(*                                                                         *)
(* Then that the loop takes the steps StudySession has for it, so that     *)
(* what is proved of the sessions there (contexts, attempts) holds of a    *)
(* loop that opens tips, ticks, fills and presses as the code does.        *)
(***************************************************************************)
EXTENDS QuizAnswer, FiniteSetTheorems, SequenceTheorems, TLAPS

-----------------------------------------------------------------------------
(***************************************************************************)
(* Loops over a slice.  The library's induction theorems take the claim as *)
(* an operator; here it is a set, the set of rounds it holds after, which  *)
(* follows from the well-foundedness of the naturals.                      *)
(***************************************************************************)

LEMMA LeastNumber ==
  ASSUME NEW S \in SUBSET Nat, S # {}
  PROVE  \E n \in S : \A m \in S : n <= m
<1>1. IsWellFoundedOn({ss \in Nat \X Nat : ss[1] < ss[2]}, Nat)
  BY NatLessThanWellFounded DEF OpToRel
<1>2. PICK n \in S : \A m \in S : ~ (<<m, n>> \in {ss \in Nat \X Nat : ss[1] < ss[2]})
  BY <1>1, WFMin
<1>3. \A m \in S : ~ (m < n)
  BY <1>2
<1> QED BY <1>3

\* What holds before the first round and is kept by every round holds after all of them.
LEMMA LoopInduction ==
  ASSUME NEW n \in Nat, NEW S \in SUBSET (0..n), 0 \in S,
         \A k \in 1..n : k - 1 \in S => k \in S
  PROVE  S = 0..n
<1> SUFFICES ASSUME NEW x \in 0..n, x \notin S PROVE FALSE
  OBVIOUS
<1> DEFINE Left == (0..n) \ S
<1>1. Left \in SUBSET Nat /\ Left # {}
  <2>1. x \in Left
    OBVIOUS
  <2>2. \A m \in Left : m \in Nat
    OBVIOUS
  <2> HIDE DEF Left
  <2> QED BY <2>1, <2>2
<1>2. PICK k \in Left : \A m \in Left : k <= m
  <2> HIDE DEF Left
  <2> QED BY <1>1, LeastNumber
<1>3. k # 0 /\ k - 1 \in S
  BY <1>2
<1> QED BY <1>2, <1>3

\* What a loop has after each of its n rounds.
IsLoop(f, n, a, step) == f[0] = a /\ \A k \in 1..n : f[k] = step[k][f[k - 1]]

\* A loop that keeps a value of V computes something: there is a function of its rounds.
LEMMA LoopExists ==
  ASSUME NEW n \in Nat, NEW V, NEW a \in V, NEW step \in [1..n -> [V -> V]]
  PROVE  \E f \in [0..n -> V] : IsLoop(f, n, a, step)
<1> DEFINE Of(f, m) == f[0] = a /\ \A k \in 1..m : f[k] = step[k][f[k - 1]]
           S == {m \in 0..n : \E f \in [0..m -> V] : Of(f, m)}
<1>1. 0 \in S
  <2>1. [k \in 0..0 |-> a] \in [0..0 -> V] /\ Of([k \in 0..0 |-> a], 0)
    OBVIOUS
  <2> HIDE DEF Of
  <2> QED BY <2>1
<1>2. ASSUME NEW k \in 1..n, k - 1 \in S
      PROVE  k \in S
  <2>1. PICK f \in [0..(k - 1) -> V] : Of(f, k - 1)
    BY <1>2
  <2> DEFINE v == step[k][f[k - 1]]
             g == [j \in 0..k |-> IF j = k THEN v ELSE f[j]]
  <2>2. v \in V
    BY <2>1
  <2>3. g \in [0..k -> V]
    BY <2>1, <2>2
  <2>4. ASSUME NEW j \in 1..k
        PROVE  g[j] = step[j][g[j - 1]]
    BY <2>1
  <2>5. Of(g, k)
    BY <2>1, <2>4
  <2> HIDE DEF Of, g
  <2> QED BY <2>3, <2>5
<1>3. S \in SUBSET (0..n)
  OBVIOUS
<1>4. S = 0..n
  <2> HIDE DEF S
  <2> QED BY <1>1, <1>2, <1>3, LoopInduction
<1>5. \E f \in [0..n -> V] : Of(f, n)
  <2> HIDE DEF Of
  <2> QED BY <1>4
<1> QED BY <1>5 DEF IsLoop

-----------------------------------------------------------------------------
(* Slices *)

\* One more text at the end of a slice without repetitions that does not have it.
LEMMA AppendOnce ==
  ASSUME NEW S, NEW v \in Seq(S), NEW s \in S
  PROVE  /\ ToSet(Append(v, s)) = ToSet(v) \cup {s}
         /\ IsInjective(v) /\ ~Contains(v, s) => IsInjective(Append(v, s))
<1> DEFINE w == Append(v, s)
<1>1. /\ w \in Seq(S) /\ Len(v) \in Nat /\ Len(w) = Len(v) + 1
      /\ \A k \in 1..Len(v) : w[k] = v[k]
      /\ w[Len(v) + 1] = s
      /\ DOMAIN v = 1..Len(v) /\ DOMAIN w = 1..(Len(v) + 1)
  BY AppendProperties, LenProperties
<1> HIDE DEF w
<1>2. ToSet(w) = ToSet(v) \cup {s}
  <2>1. ASSUME NEW x \in ToSet(w) PROVE x \in ToSet(v) \cup {s}
    BY <1>1, <2>1 DEF ToSet
  <2>2. ASSUME NEW x \in ToSet(v) PROVE x \in ToSet(w)
    <3>1. PICK k \in 1..Len(v) : x = v[k]
      BY <1>1 DEF ToSet
    <3>2. k \in DOMAIN w /\ w[k] = x
      BY <1>1, <3>1
    <3> QED BY <3>2 DEF ToSet
  <2>3. s \in ToSet(w)
    <3>1. Len(v) + 1 \in DOMAIN w
      BY <1>1
    <3> QED BY <1>1, <3>1 DEF ToSet
  <2> QED BY <2>1, <2>2, <2>3
<1>3. ASSUME IsInjective(v), ~Contains(v, s)
      PROVE  IsInjective(w)
  BY <1>1, <1>3 DEF IsInjective, Contains
<1> QED BY <1>2, <1>3 DEF w

\* A slice has an element if and only if it is in its set.
LEMMA ContainsToSet ==
  ASSUME NEW S, NEW v \in Seq(S), NEW s
  PROVE  Contains(v, s) <=> s \in ToSet(v)
BY LenProperties DEF Contains, ToSet

\* RemoveRepByLoop leaves everything that is in a slice, and once, whatever the slice is.
THEOREM RemoveRepOnce ==
  ASSUME NEW S, NEW slc \in Seq(S)
  PROVE  /\ RemoveRepByLoop(slc) \in Seq(S)
         /\ IsInjective(RemoveRepByLoop(slc))
         /\ ToSet(RemoveRepByLoop(slc)) = ToSet(slc)
<1> DEFINE n == Len(slc)
           V == Seq(S)
           Step(k, v) == IF Contains(v, slc[k]) THEN v ELSE Append(v, slc[k])
           Loop(f) == f = [k \in 0..n |-> IF k = 0 THEN <<>> ELSE Step(k, f[k - 1])]
           result == CHOOSE f : Loop(f)
<1>1. n \in Nat /\ DOMAIN slc = 1..n /\ \A k \in 1..n : slc[k] \in S
  BY LenProperties, ElementOfSeq
<1>2. <<>> \in V /\ IsInjective(<<>>) /\ ToSet(<<>>) = {}
  BY EmptySeq DEF IsInjective, ToSet
<1>3. ASSUME NEW k \in 1..n, NEW v \in V
      PROVE  /\ Step(k, v) \in V
             /\ ToSet(Step(k, v)) = ToSet(v) \cup {slc[k]}
             /\ IsInjective(v) => IsInjective(Step(k, v))
  <2>1. slc[k] \in S /\ v \in Seq(S)
    BY <1>1
  <2>2. CASE Contains(v, slc[k])
    <3>1. slc[k] \in ToSet(v)
      BY <2>1, <2>2, ContainsToSet
    <3> QED BY <2>2, <3>1
  <2>3. CASE ~Contains(v, slc[k])
    BY <2>1, <2>3, AppendOnce, AppendProperties
  <2> QED BY <2>2, <2>3
<1>4. RemoveRepByLoop(slc) = result[n]
  BY DEF RemoveRepByLoop
<1> HIDE DEF n, V, Step
<1>5. Loop(result)
  <2> DEFINE step == [k \in 1..n |-> [v \in V |-> Step(k, v)]]
  <2>1. step \in [1..n -> [V -> V]]
    BY <1>3
  <2>2. PICK f \in [0..n -> V] : IsLoop(f, n, <<>>, step)
    BY <1>1, <1>2, <2>1, LoopExists
  <2>3. \A k \in 1..n : f[k] = Step(k, f[k - 1])
    <3> SUFFICES ASSUME NEW k \in 1..n PROVE f[k] = Step(k, f[k - 1])
      OBVIOUS
    <3>1. k - 1 \in 0..n
      BY <1>1
    <3> QED BY <2>2, <3>1 DEF IsLoop
  <2>4. Loop(f)
    <3>1. \A k \in 0..n : k # 0 => k \in 1..n
      BY <1>1
    <3> QED BY <2>2, <2>3, <3>1 DEF IsLoop
  <2> HIDE DEF Loop
  <2> QED BY <2>4
<1>6. result[0] = <<>> /\ \A k \in 1..n : result[k] = Step(k, result[k - 1])
  <2> HIDE DEF result
  <2> QED BY <1>1, <1>5
<1> HIDE DEF result
<1> DEFINE Good(k) == /\ result[k] \in V
                      /\ IsInjective(result[k])
                      /\ ToSet(result[k]) = {slc[j] : j \in 1..k}
           R == {k \in 0..n : Good(k)}
<1>7. Good(n)
  <2>1. 0 \in R
    BY <1>1, <1>2, <1>6
  <2>2. ASSUME NEW k \in 1..n, k - 1 \in R
        PROVE  k \in R
    <3>1. result[k] = Step(k, result[k - 1]) /\ Good(k - 1)
      BY <1>6, <2>2
    <3>2. {slc[j] : j \in 1..k} = {slc[j] : j \in 1..(k - 1)} \cup {slc[k]}
      BY <1>1
    <3>3. Good(k)
      BY <1>3, <3>1, <3>2
    <3>4. k \in 0..n
      BY <1>1
    <3> HIDE DEF Good
    <3> QED BY <3>3, <3>4
  <2>3. R \in SUBSET (0..n)
    OBVIOUS
  <2>4. R = 0..n
    <3> HIDE DEF R
    <3> QED BY <1>1, <2>1, <2>2, <2>3, LoopInduction
  <2>5. n \in R
    <3> HIDE DEF R
    <3> QED BY <1>1, <2>4
  <2> HIDE DEF Good
  <2> QED BY <2>5
<1>8. ToSet(slc) = {slc[j] : j \in 1..n}
  BY <1>1 DEF ToSet
<1> QED BY <1>4, <1>7, <1>8 DEF V

\* Two slices, one after the other.
LEMMA ConcatOnce ==
  ASSUME NEW S, NEW v \in Seq(S), NEW w \in Seq(S)
  PROVE  /\ v \o w \in Seq(S)
         /\ ToSet(v \o w) = ToSet(v) \cup ToSet(w)
         /\ IsInjective(v) /\ IsInjective(w) /\ ToSet(v) \cap ToSet(w) = {} => IsInjective(v \o w)
<1> DEFINE c == v \o w
           m == Len(v)
           n == Len(w)
<1>1. /\ m \in Nat /\ n \in Nat /\ c \in Seq(S)
      /\ DOMAIN v = 1..m /\ DOMAIN w = 1..n /\ DOMAIN c = 1..(m + n)
      /\ \A k \in 1..(m + n) : c[k] = IF k <= m THEN v[k] ELSE w[k - m]
  BY ConcatProperties, LenProperties
<1> HIDE DEF c, m, n
<1>2. ToSet(c) = ToSet(v) \cup ToSet(w)
  <2>1. ASSUME NEW x \in ToSet(c) PROVE x \in ToSet(v) \cup ToSet(w)
    <3>1. PICK k \in 1..(m + n) : x = c[k]
      BY <1>1 DEF ToSet
    <3>2. CASE k <= m
      BY <1>1, <3>1, <3>2 DEF ToSet
    <3>3. CASE k > m
      <4>1. k - m \in 1..n /\ x = w[k - m]
        BY <1>1, <3>1, <3>3
      <4> QED BY <1>1, <4>1 DEF ToSet
    <3> QED BY <1>1, <3>2, <3>3
  <2>2. ASSUME NEW x \in ToSet(v) PROVE x \in ToSet(c)
    <3>1. PICK k \in 1..m : x = v[k]
      BY <1>1 DEF ToSet
    <3>2. k \in DOMAIN c /\ c[k] = x
      BY <1>1, <3>1
    <3> QED BY <3>2 DEF ToSet
  <2>3. ASSUME NEW x \in ToSet(w) PROVE x \in ToSet(c)
    <3>1. PICK k \in 1..n : x = w[k]
      BY <1>1 DEF ToSet
    <3>2. k + m \in DOMAIN c /\ c[k + m] = x
      BY <1>1, <3>1
    <3> QED BY <3>2 DEF ToSet
  <2> QED BY <2>1, <2>2, <2>3
<1>3. ASSUME IsInjective(v), IsInjective(w), ToSet(v) \cap ToSet(w) = {}
      PROVE  IsInjective(c)
  <2> SUFFICES ASSUME NEW j \in 1..(m + n), NEW k \in 1..(m + n), c[j] = c[k], j < k
               PROVE  FALSE
    BY <1>1 DEF IsInjective
  <2>1. CASE k <= m
    <3>1. j \in 1..m /\ k \in 1..m /\ v[j] = v[k]
      BY <1>1, <2>1
    <3>2. j = k
      BY <1>1, <1>3, <3>1 DEF IsInjective
    <3> QED BY <1>1, <3>2
  <2>2. CASE j > m
    <3>1. j - m \in 1..n /\ k - m \in 1..n /\ w[j - m] = w[k - m]
      BY <1>1, <2>2
    <3>2. j - m = k - m
      BY <1>1, <1>3, <3>1 DEF IsInjective
    <3> QED BY <1>1, <3>2
  <2>3. CASE j <= m /\ k > m
    <3>1. j \in 1..m /\ k - m \in 1..n /\ v[j] = w[k - m]
      BY <1>1, <2>3
    <3>2. v[j] \in ToSet(v) /\ w[k - m] \in ToSet(w)
      BY <1>1, <3>1 DEF ToSet
    <3> QED BY <1>3, <3>1, <3>2
  <2> QED BY <1>1, <2>1, <2>2, <2>3
<1> QED BY <1>1, <1>2, <1>3 DEF c

\* Slices one after another: what is in them, and once if they differ and repeat nothing.
LEMMA FlattenOnce ==
  ASSUME NEW S, NEW seqs \in Seq(Seq(S))
  PROVE  /\ FlattenSeq(seqs) \in Seq(S)
         /\ ToSet(FlattenSeq(seqs)) = UNION {ToSet(seqs[k]) : k \in 1..Len(seqs)}
         /\ /\ \A k \in 1..Len(seqs) : IsInjective(seqs[k])
            /\ \A j, k \in 1..Len(seqs) : j # k => ToSet(seqs[j]) \cap ToSet(seqs[k]) = {}
            => IsInjective(FlattenSeq(seqs))
<1> DEFINE n == Len(seqs)
           V == Seq(S)
           U(k) == UNION {ToSet(seqs[j]) : j \in 1..k}
           Nice == /\ \A k \in 1..n : IsInjective(seqs[k])
                   /\ \A j, k \in 1..n : j # k => ToSet(seqs[j]) \cap ToSet(seqs[k]) = {}
           Loop(f) == f = [k \in 1..n |-> IF k = 1 THEN seqs[k] ELSE f[k - 1] \o seqs[k]]
           flatten == CHOOSE f : Loop(f)
<1>1. n \in Nat /\ \A k \in 1..n : seqs[k] \in V
  BY LenProperties, ElementOfSeq
<1>2. <<>> \in V /\ IsInjective(<<>>) /\ ToSet(<<>>) = {} /\ \A v \in V : <<>> \o v = v
  BY EmptySeq, ConcatEmptySeq DEF IsInjective, ToSet
<1>3. CASE n = 0
  <2>1. seqs = <<>> /\ FlattenSeq(seqs) = <<>>
    BY <1>3, EmptySeq DEF FlattenSeq
  <2>2. UNION {ToSet(seqs[k]) : k \in 1..n} = {}
    BY <1>3
  <2> QED BY <1>2, <2>1, <2>2
<1>4. CASE n # 0
  <2>1. FlattenSeq(seqs) = flatten[n]
    BY <1>4 DEF FlattenSeq
  <2> HIDE DEF n, V
  <2>2. Loop(flatten)
    <3> DEFINE step == [k \in 1..n |-> [v \in V |-> v \o seqs[k]]]
    <3>1. step \in [1..n -> [V -> V]]
      BY <1>1, ConcatOnce DEF V
    <3>2. PICK g \in [0..n -> V] : IsLoop(g, n, <<>>, step)
      BY <1>1, <1>2, <3>1, LoopExists
    <3>3. ASSUME NEW k \in 1..n
          PROVE  g[k] = g[k - 1] \o seqs[k] /\ g[k - 1] \in V
      <4>1. k - 1 \in 0..n
        BY <1>1
      <4> QED BY <3>2, <4>1 DEF IsLoop
    <3> DEFINE f == [k \in 1..n |-> g[k]]
    <3>4. ASSUME NEW k \in 1..n
          PROVE  f[k] = IF k = 1 THEN seqs[k] ELSE f[k - 1] \o seqs[k]
      <4>1. CASE k = 1
        <5>1. k - 1 = 0 /\ g[0] = <<>> /\ seqs[k] \in V
          BY <1>1, <3>2, <4>1 DEF IsLoop
        <5>2. g[k] = <<>> \o seqs[k]
          BY <3>3, <5>1
        <5>3. g[k] = seqs[k]
          BY <1>2, <5>1, <5>2
        <5> QED BY <4>1, <5>3
      <4>2. CASE k # 1
        <5>1. k - 1 \in 1..n
          BY <1>1, <4>2
        <5> QED BY <3>3, <4>2, <5>1
      <4> QED BY <4>1, <4>2
    <3>5. Loop(f)
      <4> HIDE DEF f
      <4>1. f = [k \in 1..n |-> f[k]]
        BY DEF f
      <4> QED BY <3>4, <4>1
    <3> HIDE DEF Loop, f
    <3> QED BY <3>5
  <2>3. \A k \in 1..n : flatten[k] = IF k = 1 THEN seqs[k] ELSE flatten[k - 1] \o seqs[k]
    <3> HIDE DEF flatten
    <3> QED BY <2>2
  <2> HIDE DEF flatten
  <2> DEFINE Good(k) == /\ flatten[k] \in V
                        /\ ToSet(flatten[k]) = U(k)
                        /\ Nice => IsInjective(flatten[k])
             R == {k \in 0..n : k = 0 \/ Good(k)}
  <2>4. ASSUME NEW k \in 1..n, k - 1 \in R
        PROVE  k \in R
    <3>1. CASE k = 1
      <4>1. U(1) = ToSet(seqs[1])
        OBVIOUS
      <4>2. Good(1)
        BY <1>1, <2>3, <3>1, <4>1
      <4> HIDE DEF Good
      <4> QED BY <1>1, <3>1, <4>2
    <3>2. CASE k # 1
      <4>1. /\ Good(k - 1) /\ flatten[k] = flatten[k - 1] \o seqs[k]
        <5>1. k - 1 # 0
          BY <1>1, <3>2
        <5> HIDE DEF Good
        <5> QED BY <2>3, <2>4, <3>2, <5>1
      <4>2. U(k) = U(k - 1) \cup ToSet(seqs[k])
        <5>1. 1..k = 1..(k - 1) \cup {k}
          BY <1>1
        <5> QED BY <5>1
      <4>3. Nice => U(k - 1) \cap ToSet(seqs[k]) = {}
        <5>1. \A j \in 1..(k - 1) : j \in 1..n /\ j # k
          BY <1>1
        <5> QED BY <5>1
      <4>4. Nice => IsInjective(seqs[k])
        OBVIOUS
      <4> HIDE DEF U, Nice
      <4>5. Good(k)
        BY <1>1, <4>1, <4>2, <4>3, <4>4, ConcatOnce DEF V
      <4> HIDE DEF Good
      <4> QED BY <1>1, <4>5
    <3> QED BY <3>1, <3>2
  <2>5. 0 \in R /\ R \in SUBSET (0..n)
    BY <1>1
  <2>6. n \in R
    <3> HIDE DEF R
    <3> QED BY <1>1, <2>4, <2>5, LoopInduction
  <2>7. Good(n)
    <3> HIDE DEF Good
    <3> QED BY <1>4, <2>6
  <2> QED BY <2>1, <2>7 DEF V, n
<1> QED BY <1>3, <1>4

\* One slice alone, flattened.
LEMMA FlattenOne ==
  ASSUME NEW seqs, Len(seqs) = 1
  PROVE  FlattenSeq(seqs) = seqs[1]
<1> DEFINE Loop(f) == f = [k \in 1..Len(seqs) |-> IF k = 1 THEN seqs[k] ELSE f[k - 1] \o seqs[k]]
           flatten == CHOOSE f : Loop(f)
<1>1. Loop([k \in 1..1 |-> seqs[k]])
  OBVIOUS
<1>2. Loop(flatten)
  <2> HIDE DEF Loop
  <2> QED BY <1>1
<1>3. FlattenSeq(seqs) = flatten[1]
  BY DEF FlattenSeq
<1> HIDE DEF flatten
<1> QED BY <1>2, <1>3

-----------------------------------------------------------------------------
(* Tips and hits *)

\* getTips returns a slice of what is red, without spaces.
LEMMA TipsSequence ==
  ASSUME question \in Paper
  PROVE  /\ Tips \in Seq({NoSpaces(question.red[k]) : k \in 1..Len(question.red)})
         /\ Len(Tips) \in Nat /\ DOMAIN Tips = 1..Len(Tips)
         /\ Tips = <<>> <=> Len(Tips) = 0
<1> DEFINE n == Len(question.red)
           Red(k) == NoSpaces(question.red[k])
           V == Seq({Red(k) : k \in 1..n})
           Step(k, v) == IF Red(k) = <<>> THEN v ELSE Append(v, Red(k))
           Loop(f) == f = [k \in 0..n |-> IF k = 0 THEN <<>> ELSE Step(k, f[k - 1])]
           tips == CHOOSE f : Loop(f)
<1>1. n \in Nat
  BY PaperAssumption
<1>2. <<>> \in V
  BY EmptySeq
<1>3. ASSUME NEW k \in 1..n, NEW v \in V
      PROVE  Step(k, v) \in V
  BY <1>3, AppendProperties
<1>4. Tips = tips[n]
  BY DEF Tips
<1> HIDE DEF n, V, Step
<1>5. Loop(tips)
  <2> DEFINE step == [k \in 1..n |-> [v \in V |-> Step(k, v)]]
  <2>1. step \in [1..n -> [V -> V]]
    BY <1>3
  <2>2. PICK f \in [0..n -> V] : IsLoop(f, n, <<>>, step)
    BY <1>1, <1>2, <2>1, LoopExists
  <2>3. \A k \in 1..n : f[k] = Step(k, f[k - 1])
    <3> SUFFICES ASSUME NEW k \in 1..n PROVE f[k] = Step(k, f[k - 1])
      OBVIOUS
    <3>1. k - 1 \in 0..n
      BY <1>1
    <3> QED BY <2>2, <3>1 DEF IsLoop
  <2>4. Loop(f)
    <3>1. \A k \in 0..n : k # 0 => k \in 1..n
      BY <1>1
    <3> QED BY <2>2, <2>3, <3>1 DEF IsLoop
  <2> HIDE DEF Loop
  <2> QED BY <2>4
<1>6. tips[0] = <<>> /\ \A k \in 1..n : tips[k] = Step(k, tips[k - 1])
  <2> HIDE DEF tips
  <2> QED BY <1>1, <1>5
<1> HIDE DEF tips
<1>7. tips[n] \in V
  <2> DEFINE S == {k \in 0..n : tips[k] \in V}
  <2>1. 0 \in S
    BY <1>1, <1>2, <1>6
  <2>2. ASSUME NEW k \in 1..n, k - 1 \in S
        PROVE  k \in S
    BY <1>1, <1>3, <1>6, <2>2
  <2>3. S \in SUBSET (0..n)
    OBVIOUS
  <2>4. S = 0..n
    <3> HIDE DEF S
    <3> QED BY <1>1, <2>1, <2>2, <2>3, LoopInduction
  <2> QED BY <1>1, <2>4
<1> QED BY <1>4, <1>7, LenProperties, EmptySeq DEF V, n

\* How often a text is part of what the tips are.
LEMMA TimesCounted ==
  ASSUME NEW n \in Nat, NEW P, P \subseteq 1..n
  PROVE  /\ Cardinality(P) \in 0..n
         /\ Cardinality(P) > 0 <=> P # {}
<1>1. IsFiniteSet(1..n) /\ Cardinality(1..n) = n
  BY FS_Interval
<1>2. IsFiniteSet(P) /\ Cardinality(P) <= n
  BY <1>1, FS_Subset
<1> QED BY <1>2, FS_CardinalityType, FS_EmptySet

\* Hits are the options some tip is part of; and each once, if there is one tip at most.
LEMMA HitsOnce ==
  ASSUME question \in Paper, NEW texts, NEW tips,
         DOMAIN texts = DOMAIN question.options,
         Len(tips) \in Nat, DOMAIN tips = 1..Len(tips)
  PROVE  /\ Hits(texts, tips) \in Seq(Text)
         /\ ToSet(Hits(texts, tips)) =
              {question.options[k] : k \in {k \in DOMAIN question.options :
                                              \E m \in DOMAIN tips : PartOf(tips[m], texts[k])}}
         /\ Len(tips) <= 1 => IsInjective(Hits(texts, tips))
<1> DEFINE options == question.options
           n == Len(options)
           P(k) == {m \in DOMAIN tips : PartOf(tips[m], texts[k])}
           Times(k) == Cardinality(P(k))
           Copies(k) == [j \in 1..Times(k) |-> options[k]]
           seqs == [k \in DOMAIN texts |-> Copies(k)]
<1>1. options \in Seq(Text) /\ n \in Nat /\ DOMAIN options = 1..n /\ DOMAIN texts = 1..n
  BY PaperAssumption, LenProperties
<1>2. /\ \A k \in 1..n : options[k] \in Text
      /\ IsInjective(options)
  BY <1>1, OptionsAssumption, ElementOfSeq
<1>3. Hits(texts, tips) = FlattenSeq(seqs)
  BY DEF Hits
<1>4. ASSUME NEW k \in 1..n
      PROVE  Times(k) \in 0..Len(tips) /\ (Times(k) > 0 <=> P(k) # {})
  BY TimesCounted
<1> HIDE DEF P, n, options
<1>5. ASSUME NEW k \in 1..n
      PROVE  /\ Copies(k) \in Seq(Text)
             /\ ToSet(Copies(k)) = IF P(k) # {} THEN {options[k]} ELSE {}
             /\ Len(tips) <= 1 => IsInjective(Copies(k))
  <2> HIDE DEF Times
  <2>1. Times(k) \in Nat /\ DOMAIN Copies(k) = 1..Times(k)
    BY <1>4
  <2>2. Copies(k) \in Seq(Text)
    BY <1>2, <2>1, SeqDef
  <2>3. ToSet(Copies(k)) = IF P(k) # {} THEN {options[k]} ELSE {}
    <3>1. CASE P(k) # {}
      <4>1. 1 \in 1..Times(k)
        BY <1>4, <3>1
      <4> QED BY <3>1, <4>1 DEF ToSet
    <3>2. CASE P(k) = {}
      <4>1. 1..Times(k) = {}
        BY <1>4, <3>2
      <4> QED BY <3>2, <4>1 DEF ToSet
    <3> QED BY <3>1, <3>2
  <2>4. ASSUME Len(tips) <= 1 PROVE IsInjective(Copies(k))
    <3>1. Times(k) \in 0..1
      BY <1>4, <2>4
    <3> QED BY <2>1, <3>1 DEF IsInjective
  <2> QED BY <2>2, <2>3, <2>4
<1> HIDE DEF Copies
<1>6. seqs \in Seq(Seq(Text)) /\ Len(seqs) = n /\ \A k \in 1..n : seqs[k] = Copies(k)
  <2>1. seqs \in [1..n -> Seq(Text)] /\ \A k \in 1..n : seqs[k] = Copies(k)
    BY <1>1, <1>5
  <2>2. seqs \in Seq(Seq(Text))
    BY <1>1, <2>1, SeqDef
  <2>3. Len(seqs) = n
    BY <1>1, <2>1, <2>2, LenProperties
  <2> QED BY <2>1, <2>2, <2>3
<1> HIDE DEF seqs
<1> DEFINE has(k) == P(k) # {}
<1>7. /\ \A k \in 1..n : ToSet(seqs[k]) = IF has(k) THEN {options[k]} ELSE {}
      /\ Len(tips) <= 1 => \A k \in 1..n : IsInjective(seqs[k])
  BY <1>5, <1>6
<1> HIDE DEF has
<1>11. ToSet(FlattenSeq(seqs)) = {options[k] : k \in {k \in 1..n : has(k)}}
  <2>1. ToSet(FlattenSeq(seqs)) = UNION {ToSet(seqs[k]) : k \in 1..n}
    BY <1>6, FlattenOnce
  <2>2. ASSUME NEW k \in 1..n, has(k) PROVE options[k] \in ToSet(seqs[k])
    BY <1>7, <2>2
  <2>3. ASSUME NEW k \in 1..n, NEW x \in ToSet(seqs[k]) PROVE has(k) /\ x = options[k]
    <3>1. ToSet(seqs[k]) = IF has(k) THEN {options[k]} ELSE {}
      BY <1>7
    <3> QED BY <3>1
  <2> SUFFICES ASSUME NEW x
               PROVE  (\E k \in 1..n : x \in ToSet(seqs[k]))
                        <=> (\E k \in 1..n : has(k) /\ x = options[k])
    BY <2>1
  <2> QED BY <2>2, <2>3
<1>8. ASSUME Len(tips) <= 1 PROVE IsInjective(FlattenSeq(seqs))
  <2>1. \A j, k \in 1..n : j # k => options[j] # options[k]
    BY <1>1, <1>2 DEF IsInjective
  <2>2. \A j, k \in 1..n : j # k => ToSet(seqs[j]) \cap ToSet(seqs[k]) = {}
    BY <1>7, <2>1
  <2>3. \A k \in 1..n : IsInjective(seqs[k])
    BY <1>7, <1>8
  <2> QED BY <1>6, <2>2, <2>3, FlattenOnce
<1>9. FlattenSeq(seqs) \in Seq(Text)
  BY <1>6, FlattenOnce
<1>10. {k \in 1..n : has(k)} = {k \in 1..n : \E m \in DOMAIN tips : PartOf(tips[m], texts[k])}
  BY DEF P, has
<1> QED BY <1>1, <1>3, <1>8, <1>9, <1>10, <1>11 DEF options

-----------------------------------------------------------------------------
(* What is answered *)

\* The options of a question, each in its place.
LEMMA OptionsOf ==
  ASSUME question \in Paper
  PROVE  /\ question.options \in Seq(Text) /\ IsInjective(question.options)
         /\ Len(question.options) \in Nat
         /\ DOMAIN question.options = 1..Len(question.options)
         /\ question.blanks \in Nat
         /\ question.kind \in {"multi", "single", "blank", "other"}
BY PaperAssumption, OptionsAssumption, LenProperties

\* A multiple choice is answered by the options the tips name, or by all of them.
LEMMA MultiRight ==
  ASSUME question \in Paper
  PROVE  /\ MultiAnswer \in Seq(Text) /\ IsInjective(MultiAnswer)
         /\ ToSet(MultiAnswer) =
              {question.options[k] : k \in IF Named = {} THEN DOMAIN question.options ELSE Named}
<1> DEFINE texts == [k \in DOMAIN question.options |-> NoSpaces(question.options[k])]
           hits == Hits(texts, Tips)
           once == RemoveRepByLoop(hits)
           has == {k \in DOMAIN question.options : \E m \in DOMAIN Tips : PartOf(Tips[m], texts[k])}
<1>1. has = Named
  BY DEF Named, ToSet
<1>2. MultiAnswer = IF once = <<>> THEN question.options ELSE once
  BY DEF MultiAnswer
<1>3. DOMAIN texts = DOMAIN question.options
  OBVIOUS
<1> HIDE DEF texts
<1>4. hits \in Seq(Text) /\ ToSet(hits) = {question.options[k] : k \in Named}
  BY <1>1, <1>3, HitsOnce, TipsSequence
<1> HIDE DEF hits
<1>5. once \in Seq(Text) /\ IsInjective(once) /\ ToSet(once) = {question.options[k] : k \in Named}
  BY <1>4, RemoveRepOnce
<1> HIDE DEF once
<1>6. CASE once = <<>>
  <2>1. ToSet(once) = {}
    BY <1>6 DEF ToSet
  <2>2. Named = {}
    BY <1>5, <2>1
  <2>3. ToSet(question.options) = {question.options[k] : k \in DOMAIN question.options}
    BY DEF ToSet
  <2> QED BY <1>2, <1>6, <2>2, <2>3, OptionsOf
<1>7. CASE once # <<>>
  <2>1. Len(once) # 0 /\ Len(once) \in Nat /\ DOMAIN once = 1..Len(once)
    BY <1>5, <1>7, EmptySeq, LenProperties
  <2>2. once[1] \in ToSet(once)
    BY <2>1 DEF ToSet
  <2>3. Named # {}
    BY <1>5, <2>2
  <2> QED BY <1>2, <1>5, <1>7, <2>3
<1> QED BY <1>6, <1>7

\* A single choice is answered by the options the joined tips name, or by the first.
LEMMA SingleRight ==
  ASSUME question \in Paper, question.options # <<>>
  PROVE  /\ SingleAnswer \in Seq(Text) /\ IsInjective(SingleAnswer)
         /\ \E k \in DOMAIN question.options : question.options[k] \in ToSet(SingleAnswer)
         /\ Tips # <<>> /\ Exact # {} =>
              ToSet(SingleAnswer) = {question.options[k] : k \in Exact}
<1> DEFINE options == question.options
           tips == IF Len(Tips) > 1 THEN <<FlattenSeq(Tips)>> ELSE Tips
           hits == Hits(options, tips)
           has == {k \in DOMAIN options : \E m \in DOMAIN tips : PartOf(tips[m], options[k])}
<1>1. Len(Tips) \in Nat /\ DOMAIN Tips = 1..Len(Tips)
  BY TipsSequence
<1>2. Len(tips) \in Nat /\ Len(tips) <= 1 /\ DOMAIN tips = 1..Len(tips)
  <2>1. CASE Len(Tips) > 1
    <3>1. tips = <<FlattenSeq(Tips)>>
      BY <2>1
    <3> HIDE DEF tips
    <3> QED BY <3>1
  <2>2. CASE ~ (Len(Tips) > 1)
    <3>1. tips = Tips
      BY <2>2
    <3> HIDE DEF tips
    <3> QED BY <1>1, <2>2, <3>1
  <2> QED BY <2>1, <2>2
<1>3. SingleAnswer = IF hits = <<>> THEN <<options[1]>> ELSE hits
  BY DEF SingleAnswer
<1>4. Len(tips) = 1 => has = Exact
  <2>1. CASE Len(Tips) > 1
    BY <2>1 DEF Exact
  <2>2. ASSUME Len(Tips) <= 1, Len(tips) = 1 PROVE has = Exact
    <3>1. tips = Tips
      BY <1>1, <2>2
    <3>2. tips[1] = FlattenSeq(Tips)
      <4> HIDE DEF tips
      <4> QED BY <2>2, <3>1, FlattenOne
    <3> QED BY <1>2, <2>2, <3>2 DEF Exact
  <2> QED BY <1>1, <2>1, <2>2
<1>5. Tips # <<>> => Len(tips) = 1
  BY <1>1, TipsSequence
<1> HIDE DEF tips
<1>6. /\ hits \in Seq(Text) /\ IsInjective(hits)
      /\ ToSet(hits) = {options[k] : k \in has}
  BY <1>2, HitsOnce
<1> HIDE DEF hits, has
<1>7. options \in Seq(Text) /\ 1 \in DOMAIN options /\ options[1] \in Text
  BY OptionsOf, EmptySeq, ElementOfSeq
<1>8. CASE hits = <<>>
  <2>1. has = {}
    <3>1. ToSet(hits) = {}
      BY <1>8 DEF ToSet
    <3> QED BY <1>6, <3>1
  <2>2. <<options[1]>> \in Seq(Text) /\ IsInjective(<<options[1]>>)
    BY <1>7 DEF IsInjective
  <2>3. options[1] \in ToSet(<<options[1]>>)
    <3>1. 1 \in DOMAIN <<options[1]>> /\ <<options[1]>>[1] = options[1]
      OBVIOUS
    <3> QED BY <3>1 DEF ToSet
  <2> QED BY <1>3, <1>4, <1>5, <1>7, <1>8, <2>1, <2>2, <2>3
<1>9. CASE hits # <<>>
  <2>1. Len(hits) # 0 /\ Len(hits) \in Nat /\ DOMAIN hits = 1..Len(hits)
    BY <1>6, <1>9, EmptySeq, LenProperties
  <2>2. hits[1] \in ToSet(hits)
    BY <2>1 DEF ToSet
  <2>3. \E k \in has : options[k] \in ToSet(hits)
    BY <1>6, <2>2
  <2>4. \E k \in DOMAIN options : options[k] \in ToSet(hits)
    BY <2>3 DEF has
  <2> QED BY <1>3, <1>4, <1>5, <1>6, <1>9, <2>4
<1> QED BY <1>8, <1>9

\* Among texts that differ, as many are a given one as it is one of them.
LEMMA SameOnce ==
  ASSUME NEW S, NEW s \in Seq(S), IsInjective(s), NEW x
  PROVE  Cardinality({m \in DOMAIN s : s[m] = x}) = IF x \in ToSet(s) THEN 1 ELSE 0
<1>1. CASE x \in ToSet(s)
  <2>1. PICK m \in DOMAIN s : s[m] = x
    BY <1>1 DEF ToSet
  <2>2. {k \in DOMAIN s : s[k] = x} = {m}
    BY <2>1 DEF IsInjective
  <2> QED BY <1>1, <2>2, FS_Singleton
<1>2. CASE x \notin ToSet(s)
  <2>1. {k \in DOMAIN s : s[k] = x} = {}
    BY <1>2 DEF ToSet
  <2> QED BY <1>2, <2>1, FS_EmptySet
<1> QED BY <1>1, <1>2

-----------------------------------------------------------------------------
(* The inductive invariant *)

AtQuestion == pc \in {"tips", "pick", "tick", "fill", "press"}

\* Nothing was clicked or filled.
Untouched ==
  /\ \A k \in DOMAIN question.options : clicks[k] = 0
  /\ \A k \in 1..question.blanks : filled[k] = <<>>

\* A question is touched once it was seen, and it is seen for the first time once only.
TouchedLate ==
  /\ title = Fresh => Untouched /\ ~AtQuestion
  /\ pc \in {"tips", "pick"} => Untouched

\* What the answer is while it is given.
Answered ==
  pc \in {"tick", "fill", "press"} =>
    \/ question.kind = "multi" /\ pc # "fill" /\ answer = MultiAnswer
    \/ question.kind = "single" /\ question.options # <<>> /\ pc # "fill" /\ answer = SingleAnswer
    \/ question.kind = "blank" /\ pc # "tick" /\ answer = BlankAnswer

\* The options ticked so far, each of them once.
Done(k) == pc = "press" \/ k < next
TicksDone ==
  pc \in {"tick", "press"} /\ question.kind # "blank" =>
    \A k \in DOMAIN question.options :
      clicks[k] = IF Done(k) /\ question.options[k] \in ToSet(answer) THEN 1 ELSE 0

\* A blank has what is meant for it, or nothing.
Meant(k) == IF Len(answer) < k THEN DontKnow ELSE answer[k]
FillsDone ==
  pc \in {"fill", "press"} /\ question.kind = "blank" =>
    \A k \in 1..question.blanks : filled[k] \in {<<>>, Meant(k)}

\* A round that has begun was not the last one.
Counted == AtQuestion \/ pc = "score" => i < MaxRounds

IInv == TypeOK /\ Counted /\ TouchedLate /\ ClickedOnce /\ Answered /\ TicksDone /\ FillsDone

\* What is answered depends on the question alone.
LEMMA SameQuestion ==
  ASSUME question' = question
  PROVE  /\ MultiAnswer' = MultiAnswer /\ SingleAnswer' = SingleAnswer
         /\ BlankAnswer' = BlankAnswer
<1>1. Tips' = Tips
  BY DEF Tips
<1> QED BY <1>1 DEF MultiAnswer, SingleAnswer, BlankAnswer, Hits

LEMMA IInvInit == Init => IInv
<1> SUFFICES ASSUME Init PROVE IInv
  OBVIOUS
<1> USE DEF Init
<1>1. TypeOK
  BY OptionsOf, RoundsAssumption DEF TypeOK
<1>2. TouchedLate
  BY OptionsOf DEF TouchedLate, Untouched, AtQuestion
<1>3. ClickedOnce
  BY DEF ClickedOnce
<1>4. Answered /\ TicksDone /\ FillsDone
  BY DEF Answered, TicksDone, FillsDone
<1> QED BY <1>1, <1>2, <1>3, <1>4 DEF IInv, Counted, AtQuestion

\* An option is ticked once if it is among what is answered, and not else.
LEMMA SameTicks ==
  ASSUME IInv, pc = "tick", NEW x
  PROVE  Cardinality({m \in DOMAIN answer : answer[m] = x}) = IF x \in ToSet(answer) THEN 1 ELSE 0
<1>1. question \in Paper
  BY DEF IInv, TypeOK
<1>2. answer \in Seq(Text) /\ IsInjective(answer)
  BY <1>1, MultiRight, SingleRight DEF IInv, Answered
<1> QED BY <1>2, SameOnce

LEMMA TypeStep == IInv /\ [Next]_vars => TypeOK'
<1> SUFFICES ASSUME IInv, [Next]_vars PROVE TypeOK'
  OBVIOUS
<1>0. /\ question \in Paper /\ question.options \in Seq(Text)
      /\ Len(question.options) \in Nat /\ question.blanks \in Nat
      /\ DOMAIN question.options = 1..Len(question.options) /\ MaxRounds \in Nat
  BY OptionsOf, RoundsAssumption DEF IInv, TypeOK
<1> USE DEF TypeOK, pageVars, Continues, Clicked
<1>1. CASE HeldUp \/ SeesNone \/ SeesAgain \/ SeesNew
  BY <1>0, <1>1 DEF IInv, HeldUp, SeesNone, SeesAgain, SeesNew
<1>2. CASE OpensTips \/ LosesTips
  BY <1>0, <1>2 DEF IInv, Counted, AtQuestion, OpensTips, LosesTips
<1>3. CASE Picks
  <2>1. /\ UNCHANGED <<question, page, clicks, filled, i, title>> /\ next' = 1
        /\ pc' \in {"fill", "tick", "score"}
    BY <1>3 DEF Picks
  <2>2. 1 \in 1..(1 + IF question.kind = "blank" THEN question.blanks
                                                 ELSE Len(question.options))
    BY <1>0
  <2> QED BY <2>1, <2>2 DEF IInv
<1>4. CASE Ticks
  <2>1. /\ next \in DOMAIN question.options /\ question.kind # "blank"
    BY <1>0, <1>4 DEF IInv, Ticks, Answered
  <2>2. clicks[next] \in Nat
    BY <2>1 DEF IInv
  <2>3. clicks' = [clicks EXCEPT ![next] =
                     @ + IF question.options[next] \in ToSet(answer) THEN 1 ELSE 0]
    BY <1>4, SameTicks DEF Ticks
  <2>4. clicks' \in [DOMAIN question.options -> Nat]
    BY <2>1, <2>2, <2>3 DEF IInv
  <2>5. next' \in 1..(1 + Len(question.options))
    BY <1>0, <1>4, <2>1 DEF Ticks
  <2>6. UNCHANGED <<question, page, filled, pc, i, title>>
    BY <1>4 DEF Ticks
  <2> QED BY <1>0, <2>1, <2>4, <2>5, <2>6 DEF IInv
<1>5. CASE Fills
  <2>1. question.kind = "blank"
    BY <1>5 DEF IInv, Fills, Answered
  <2>2. DOMAIN filled' = DOMAIN filled
    BY <1>5 DEF Fills
  <2> QED BY <1>0, <1>5, <2>1, <2>2 DEF IInv, Fills
<1>6. CASE HasAnswered \/ Presses
  BY <1>0, <1>6 DEF IInv, HasAnswered, Presses
<1>7. CASE GoesOn \/ Leaves \/ Panics
  BY <1>0, <1>7 DEF IInv, Counted, AtQuestion, GoesOn, Leaves, Panics
<1>8. CASE UNCHANGED vars
  BY <1>8 DEF IInv, vars
<1> QED BY <1>1, <1>2, <1>3, <1>4, <1>5, <1>6, <1>7, <1>8 DEF Next

LEMMA IInvStep == IInv /\ [Next]_vars => IInv'
<1> SUFFICES ASSUME IInv, [Next]_vars PROVE IInv'
  OBVIOUS
<1>0. /\ TypeOK /\ TypeOK'
      /\ question \in Paper /\ question.options \in Seq(Text) /\ MaxRounds \in Nat \ {0}
      /\ Len(question.options) \in Nat /\ question.blanks \in Nat
      /\ DOMAIN question.options = 1..Len(question.options)
      /\ title \in {Fresh, question} /\ Fresh # question
      /\ DOMAIN clicks = DOMAIN question.options
      /\ DOMAIN filled = 1..question.blanks /\ next \in Nat \ {0} /\ i \in Nat
  BY TypeStep, OptionsOf, RoundsAssumption, FreshAssumption DEF IInv, TypeOK
<1>p. question' = question
  BY DEF Next, vars, pageVars, HeldUp, SeesNone, SeesAgain, SeesNew, OpensTips, LosesTips, Picks,
         Ticks, Fills, HasAnswered, Presses, GoesOn, Leaves, Panics
<1>q. MultiAnswer' = MultiAnswer /\ SingleAnswer' = SingleAnswer /\ BlankAnswer' = BlankAnswer
  BY <1>p, SameQuestion
<1> USE DEF pageVars, Continues
\* between two questions
<1>1. ASSUME ~AtQuestion', UNCHANGED <<clicks, filled, title>>, Counted'
      PROVE  IInv'
  <2>1. TouchedLate' /\ ClickedOnce'
    BY <1>p, <1>1 DEF IInv, TouchedLate, Untouched, ClickedOnce, AtQuestion
  <2>2. Answered' /\ TicksDone' /\ FillsDone'
    BY <1>1 DEF AtQuestion, Answered, TicksDone, FillsDone
  <2> QED BY <1>0, <1>1, <2>1, <2>2 DEF IInv
<1>2. CASE HeldUp \/ SeesNone \/ SeesAgain \/ LosesTips \/ Presses \/ GoesOn \/ Leaves \/ Panics
  <2>1. ~AtQuestion' /\ UNCHANGED <<clicks, filled, title>>
    BY <1>2 DEF AtQuestion, HeldUp, SeesNone, SeesAgain, LosesTips, Presses, GoesOn, Leaves, Panics
  <2>2. Counted'
    BY <1>0, <1>2 DEF IInv, Counted, AtQuestion, HeldUp, SeesNone, SeesAgain, LosesTips, Presses,
                     GoesOn, Leaves, Panics
  <2> QED BY <1>1, <2>1, <2>2
\* before anything is clicked
<1>3. CASE SeesNew \/ OpensTips
  <2>1. /\ UNCHANGED <<clicks, filled>> /\ pc' \in {"tips", "pick"} /\ title' = question
        /\ Untouched
    BY <1>0, <1>3 DEF IInv, TouchedLate, AtQuestion, SeesNew, OpensTips
  <2>2. TouchedLate' /\ ClickedOnce'
    BY <1>0, <1>p, <2>1 DEF IInv, TouchedLate, Untouched, ClickedOnce
  <2>3. Answered' /\ TicksDone' /\ FillsDone'
    BY <2>1 DEF Answered, TicksDone, FillsDone
  <2>4. Counted'
    BY <1>0, <1>3 DEF IInv, Counted, AtQuestion, SeesNew, OpensTips
  <2> QED BY <1>0, <2>2, <2>3, <2>4 DEF IInv
<1>4. CASE Picks
  <2>1. /\ UNCHANGED <<clicks, filled, title, i>> /\ pc = "pick"
        /\ pc' \in {"fill", "tick", "score"} /\ next' = 1 /\ title # Fresh /\ Untouched
    BY <1>4 DEF IInv, TouchedLate, AtQuestion, Picks
  <2>2. TouchedLate' /\ ClickedOnce' /\ Counted'
    BY <1>p, <2>1 DEF IInv, TouchedLate, Untouched, ClickedOnce, AtQuestion, Counted
  <2>3. Answered'
    BY <1>4, <1>p, <1>q DEF Picks, Answered
  <2>4. TicksDone' /\ FillsDone'
    BY <1>0, <1>p, <2>1 DEF TicksDone, FillsDone, Done, Untouched
  <2> QED BY <1>0, <2>2, <2>3, <2>4 DEF IInv
<1>5. CASE Ticks
  <2>1. /\ pc = "tick" /\ next \in DOMAIN question.options /\ next' = next + 1
        /\ UNCHANGED <<pc, answer, title, filled, i>> /\ question.kind # "blank" /\ title # Fresh
    BY <1>0, <1>5 DEF IInv, Ticks, Answered, TouchedLate, AtQuestion
  <2>2. clicks' = [clicks EXCEPT ![next] =
                     @ + IF question.options[next] \in ToSet(answer) THEN 1 ELSE 0]
    BY <1>5, SameTicks DEF Ticks
  <2>3. \A k \in DOMAIN question.options :
          clicks[k] = IF k < next /\ question.options[k] \in ToSet(answer) THEN 1 ELSE 0
    BY <2>1 DEF IInv, TicksDone, Done
  <2>4. ASSUME NEW k \in DOMAIN question.options
        PROVE  clicks'[k] = IF k < next' /\ question.options[k] \in ToSet(answer) THEN 1 ELSE 0
    <3>1. clicks'[k] =
            IF k = next THEN clicks[k] + IF question.options[k] \in ToSet(answer) THEN 1 ELSE 0
                        ELSE clicks[k]
      BY <1>0, <2>2
    <3>2. k \in Nat /\ (k < next + 1 <=> k < next \/ k = next)
      BY <1>0
    <3> QED BY <1>0, <2>1, <2>3, <3>1, <3>2
  <2>5. TicksDone'
    BY <1>p, <2>1, <2>4 DEF TicksDone, Done
  <2>6. ClickedOnce'
    <3>1. DOMAIN clicks' = DOMAIN question.options
      BY <1>0, <2>2
    <3> QED BY <2>4, <3>1 DEF ClickedOnce
  <2>7. TouchedLate' /\ Answered' /\ FillsDone' /\ Counted'
    BY <1>p, <1>q, <2>1 DEF IInv, TouchedLate, AtQuestion, Answered, FillsDone, Counted
  <2> QED BY <1>0, <2>5, <2>6, <2>7 DEF IInv
<1>6. CASE Fills
  <2>1. /\ pc = "fill" /\ UNCHANGED <<pc, answer, title, clicks, i>> /\ title # Fresh
        /\ question.kind = "blank"
    BY <1>6 DEF IInv, Fills, Answered, TouchedLate, AtQuestion
  <2>2. filled' \in {filled, [filled EXCEPT ![next] = Meant(next)]}
    BY <1>6 DEF Fills, Meant
  <2>3. \A k \in 1..question.blanks : filled[k] \in {<<>>, Meant(k)}
    BY <2>1 DEF IInv, FillsDone
  <2>4. \A k : Meant(k)' = Meant(k)
    BY <2>1 DEF Meant
  <2>5. FillsDone'
    <3> HIDE DEF Meant
    <3>1. \A k \in 1..question.blanks : filled'[k] \in {<<>>, Meant(k)}
      BY <1>0, <2>2, <2>3
    <3> QED BY <1>p, <2>4, <3>1 DEF FillsDone
  <2>6. TouchedLate' /\ ClickedOnce' /\ Answered' /\ TicksDone' /\ Counted'
    BY <1>p, <1>q, <2>1 DEF IInv, TouchedLate, AtQuestion, ClickedOnce, Answered, TicksDone, Counted
  <2> QED BY <1>0, <2>5, <2>6 DEF IInv
<1>7. CASE HasAnswered
  <2>1. /\ pc' = "press" /\ UNCHANGED <<question, clicks, filled, title, answer, next, i>>
        /\ title # Fresh
        /\ \/ pc = "tick" /\ next > Len(question.options)
           \/ pc = "fill"
    BY <1>7 DEF IInv, HasAnswered, TouchedLate, AtQuestion
  <2>2. TouchedLate' /\ ClickedOnce' /\ Answered' /\ Counted'
    BY <1>q, <2>1 DEF IInv, TouchedLate, AtQuestion, ClickedOnce, Answered, Counted
  <2>3. TicksDone'
    <3>1. CASE pc = "tick"
      <4>1. \A k \in DOMAIN question.options : k < next
        BY <1>0, <2>1, <3>1
      <4> QED BY <2>1, <3>1, <4>1 DEF IInv, TicksDone, Done
    <3>2. CASE pc = "fill"
      BY <2>1, <3>2 DEF IInv, TicksDone, Answered
    <3> QED BY <2>1, <3>1, <3>2
  <2>4. FillsDone'
    <3>1. CASE pc = "fill"
      BY <2>1, <3>1 DEF IInv, FillsDone, Meant
    <3>2. CASE pc = "tick"
      BY <2>1, <3>2 DEF IInv, FillsDone, Answered
    <3> QED BY <2>1, <3>1, <3>2
  <2> QED BY <1>0, <2>2, <2>3, <2>4 DEF IInv
<1>8. CASE UNCHANGED vars
  <2>1. UNCHANGED <<question, clicks, filled, pc, i, title, answer, next>>
    BY <1>8 DEF vars
  <2> QED BY <1>0, <1>q, <2>1 DEF IInv, Counted, TouchedLate, Untouched, AtQuestion, ClickedOnce,
                             Answered, TicksDone, Done, FillsDone, Meant
<1> QED BY <1>2, <1>3, <1>4, <1>5, <1>6, <1>7, <1>8 DEF Next

-----------------------------------------------------------------------------
(* What is ticked and filled *)

\* When the button is pressed, those options are ticked that are answered.
LEMMA TickedAnswer ==
  ASSUME IInv, pc = "press", question.kind # "blank"
  PROVE  Ticked = {k \in DOMAIN question.options : question.options[k] \in ToSet(answer)}
<1> DEFINE is(k) == question.options[k] \in ToSet(answer)
<1>1. /\ DOMAIN clicks = DOMAIN question.options
      /\ \A k \in DOMAIN question.options : clicks[k] = IF is(k) THEN 1 ELSE 0
  BY DEF IInv, TypeOK, TicksDone, Done
<1> HIDE DEF is
<1>2. \A k \in DOMAIN question.options :
        (IF question.kind = "multi" THEN clicks[k] % 2 = 1 ELSE clicks[k] > 0) <=> is(k)
  BY <1>1
<1>3. Ticked = {k \in DOMAIN question.options : is(k)}
  BY <1>1, <1>2 DEF Ticked
<1> QED BY <1>3 DEF is

\* Options that differ are told apart by what they are.
LEMMA Apart ==
  ASSUME NEW s, IsInjective(s), NEW X, X \subseteq DOMAIN s
  PROVE  {k \in DOMAIN s : s[k] \in {s[j] : j \in X}} = X
BY DEF IsInjective

LEMMA IInvTickedRight == IInv => TickedRight
<1> SUFFICES ASSUME IInv, pc = "press", question.options # <<>>
             PROVE  /\ question.kind \in {"multi", "single"} => Ticked # {}
                    /\ question.kind = "multi" /\ Named # {} => Ticked = Named
                    /\ question.kind = "single" /\ Tips # <<>> /\ Cardinality(Exact) = 1
                         => Ticked = Exact
  BY DEF TickedRight
<1> DEFINE options == question.options
<1>1. question \in Paper /\ IsInjective(options) /\ DOMAIN options # {}
  <2>1. question \in Paper
    BY DEF IInv, TypeOK
  <2>2. Len(options) # 0 /\ Len(options) \in Nat /\ DOMAIN options = 1..Len(options)
    BY <2>1, OptionsOf, EmptySeq
  <2>3. 1 \in DOMAIN options
    BY <2>2
  <2> QED BY <2>1, <2>3, OptionsOf
<1>2. CASE question.kind = "multi"
  <2> DEFINE X == IF Named = {} THEN DOMAIN options ELSE Named
  <2>1. answer = MultiAnswer
    BY <1>2 DEF IInv, Answered
  <2>2. ToSet(answer) = {options[j] : j \in X}
    BY <1>1, <2>1, MultiRight
  <2>3. X \subseteq DOMAIN options /\ X # {}
    BY <1>1 DEF Named
  <2>4. Ticked = {k \in DOMAIN options : options[k] \in ToSet(answer)}
    BY <1>2, TickedAnswer
  <2>5. Ticked = X
    <3> HIDE DEF X, options
    <3> QED BY <1>1, <2>2, <2>3, <2>4, Apart
  <2> QED BY <1>2, <2>3, <2>5
<1>3. CASE question.kind = "single"
  <2>1. answer = SingleAnswer
    BY <1>3 DEF IInv, Answered
  <2>2. Ticked = {k \in DOMAIN options : options[k] \in ToSet(answer)}
    BY <1>3, TickedAnswer
  <2>3. Ticked # {}
    BY <1>1, <2>1, <2>2, SingleRight
  <2>4. ASSUME Tips # <<>>, Cardinality(Exact) = 1
        PROVE  Ticked = Exact
    <3>1. Exact # {}
      BY <2>4, FS_EmptySet
    <3>2. ToSet(answer) = {options[j] : j \in Exact}
      BY <1>1, <2>1, <2>4, <3>1, SingleRight
    <3>3. Exact \subseteq DOMAIN options
      BY DEF Exact
    <3> HIDE DEF options
    <3> QED BY <1>1, <2>2, <3>2, <3>3, Apart
  <2> QED BY <1>3, <2>3, <2>4
<1> QED BY <1>2, <1>3

LEMMA IInvBlanksRight == IInv => BlanksRight
<1> SUFFICES ASSUME IInv, pc = "press", question.kind = "blank",
                    NEW k \in DOMAIN filled, filled[k] # <<>>
             PROVE  /\ Len(Tips) = question.blanks => filled[k] = Tips[k]
                    /\ question.blanks = 1 /\ Tips # <<>> /\ ~Contains(FlattenSeq(Tips), Comma)
                         => filled[k] = FlattenSeq(Tips)
  BY DEF BlanksRight
<1>1. question \in Paper /\ question.blanks \in Nat /\ k \in 1..question.blanks
  BY OptionsOf DEF IInv, TypeOK
<1>2. answer = BlankAnswer /\ filled[k] = Meant(k)
  BY <1>1 DEF IInv, Answered, FillsDone
<1>3. Len(Tips) \in Nat /\ (Tips = <<>> <=> Len(Tips) = 0)
  BY <1>1, TipsSequence
<1>4. ASSUME Len(Tips) = question.blanks
      PROVE  filled[k] = Tips[k]
  <2>1. answer = Tips
    BY <1>1, <1>2, <1>3, <1>4 DEF BlankAnswer
  <2> QED BY <1>1, <1>2, <1>4, <2>1 DEF Meant
<1>5. ASSUME question.blanks = 1, Tips # <<>>, ~Contains(FlattenSeq(Tips), Comma)
      PROVE  filled[k] = FlattenSeq(Tips)
  <2>1. k = 1
    BY <1>1, <1>5
  <2>2. CASE Len(Tips) > 1
    <3>1. FirstField(FlattenSeq(Tips)) = FlattenSeq(Tips)
      BY <1>5 DEF FirstField, Contains
    <3>2. answer = <<FlattenSeq(Tips)>>
      BY <1>2, <1>5, <2>2, <3>1 DEF BlankAnswer
    <3> DEFINE t == FlattenSeq(Tips)
    <3> HIDE DEF t
    <3>3. answer = <<t>>
      BY <3>2 DEF t
    <3>4. Len(answer) = 1 /\ answer[1] = t
      BY <3>3
    <3>5. filled[k] = t
      BY <1>2, <2>1, <3>4 DEF Meant
    <3> QED BY <3>5 DEF t
  <2>3. CASE Len(Tips) = 1
    <3>1. answer = Tips
      BY <1>2, <1>5, <2>3 DEF BlankAnswer
    <3>2. Tips[1] = FlattenSeq(Tips)
      BY <2>3, FlattenOne
    <3> QED BY <1>2, <2>1, <2>3, <3>1, <3>2 DEF Meant
  <2>4. Len(Tips) \in Nat /\ Len(Tips) # 0
    BY <1>3, <1>5
  <2>5. Len(Tips) > 1 \/ Len(Tips) = 1
    <3> DEFINE n == Len(Tips)
    <3> HIDE DEF n
    <3>1. n \in Nat /\ n # 0 => n > 1 \/ n = 1
      OBVIOUS
    <3> QED BY <2>4, <3>1 DEF n
  <2> QED BY <2>2, <2>3, <2>5
<1> QED BY <1>4, <1>5

LEMMA Always == Spec => []IInv
BY IInvInit, IInvStep, PTL DEF Spec

\* What the loop keeps has the type it is meant to have, and its counter its bound.
THEOREM QuizTypeOK == Spec => []TypeOK
<1>1. IInv => TypeOK
  BY DEF IInv
<1> QED BY <1>1, Always, PTL

\* An option is clicked once at most, however often the loop comes by its question and
\* however many tips name it: no second click takes a tick off again.
THEOREM QuizClickedOnce == Spec => []ClickedOnce
<1>1. IInv => ClickedOnce
  BY DEF IInv
<1> QED BY <1>1, Always, PTL

\* What is ticked when the button is pressed is what the tips name, and never nothing.
THEOREM QuizTickedRight == Spec => []TickedRight
BY IInvTickedRight, Always, PTL

\* What is filled when the button is pressed is what the tips say, in their order.
THEOREM QuizBlanksRight == Spec => []BlanksRight
BY IInvBlanksRight, Always, PTL

-----------------------------------------------------------------------------
(* The loop in a session *)

\* What the mapping reads.
LoopOK ==
  /\ question \in Paper
  /\ title \in {Fresh, question}
  /\ i \in Nat
  /\ pc \in {"round", "tips", "pick", "tick", "fill", "press", "score", "left", "panicked"}

LEMMA LoopAlways == Spec => []LoopOK
<1>1. TypeOK => LoopOK
  BY RoundsAssumption DEF TypeOK, LoopOK
<1> QED BY <1>1, QuizTypeOK, PTL

\* A pair of which only the first changes, and what it is.
LEMMA Pairs ==
  ASSUME NEW a, NEW b, NEW c, NEW d
  PROVE  /\ Both(a, b)["g"] = a /\ Both(a, b)["h"] = b
         /\ [Both(a, b) EXCEPT !["g"] = c] = Both(c, b)
         /\ [Both(a, b) EXCEPT !["h"] = d] = Both(a, d)
         /\ [Both(a, b) EXCEPT !["h"] = d, !["g"] = c] = Both(c, d)
BY DEF Both

LEMMA Mapped ==
  /\ callOf["g"] = IF Working THEN "daily" ELSE "special"
  /\ pcOf["g"] = IF Working THEN "work" ELSE "begin"
  /\ pcOf["h"] = IF pc = "panicked" THEN "begin" ELSE "idle"
  /\ sessionOf["g"] = TRUE
  /\ iOf["g"] = IF Working THEN IF InRound THEN i ELSE i + 1 ELSE 0
  /\ titleOf["g"] = IF Working /\ title # Fresh THEN "seen" ELSE "none"
  /\ heldOf["g"] = Working
BY Pairs DEF callOf, pcOf, sessionOf, iOf, titleOf, heldOf

LEMMA QuizStep == LoopOK /\ LoopOK' /\ [Next]_vars => [Session!Next]_(Session!vars)
<1> SUFFICES ASSUME LoopOK, LoopOK', [Next]_vars PROVE [Session!Next]_(Session!vars)
  OBVIOUS
<1> USE DEF LoopOK, pageVars, Continues, Working, InRound
<1>0. UNCHANGED sessionOf
  BY DEF sessionOf
\* what is in the middle of a round is there already
<1>1. ASSUME UNCHANGED title, Working, Working', ~InRound,
             \/ ~InRound' /\ i' = i
             \/ InRound' /\ i' = i + 1
      PROVE  UNCHANGED Session!vars
  <2>1. UNCHANGED <<callOf, pcOf, titleOf, heldOf, iOf>>
    BY <1>1 DEF callOf, pcOf, titleOf, heldOf, iOf, Both
  <2> QED BY <1>0, <1>1, <2>1 DEF Session!vars, Session!callVars
\* a round begins
<1>2. ASSUME UNCHANGED title, InRound, i < MaxRounds, Working',
             \/ InRound' /\ i' = i + 1
             \/ ~InRound' /\ i' = i
      PROVE  Session!SeesNothingNew("g")
  <2>1. UNCHANGED <<callOf, pcOf, titleOf, heldOf>>
    BY <1>2 DEF callOf, pcOf, titleOf, heldOf
  <2>2. iOf["g"] = i /\ iOf' = Both(i + 1, 0) /\ iOf = Both(i, 0)
    BY <1>2, Mapped DEF iOf
  <2>3. iOf' = [iOf EXCEPT !["g"] = @ + 1]
    BY <2>2, Pairs
  <2>4. pcOf["g"] = "work" /\ callOf["g"] = "daily"
    BY <1>2, Mapped
  <2> QED BY <1>0, <1>2, <2>1, <2>2, <2>3, <2>4 DEF Session!SeesNothingNew, Session!Answering
<1>3. CASE HeldUp \/ SeesNone \/ SeesAgain
  <2>1. Session!SeesNothingNew("g")
    BY <1>2, <1>3 DEF HeldUp, SeesNone, SeesAgain
  <2> QED BY <2>1 DEF Session!Next, Session!Step
<1>4. CASE SeesNew
  <2>1. InRound /\ ~InRound' /\ Working /\ Working' /\ i < MaxRounds /\ i' = 0
        /\ title = Fresh /\ title' # Fresh
    BY <1>4, FreshAssumption DEF SeesNew
  <2>2. UNCHANGED <<callOf, pcOf, heldOf>>
    BY <2>1 DEF callOf, pcOf, heldOf
  <2>3. iOf["g"] = i /\ iOf' = [iOf EXCEPT !["g"] = 1]
    BY <2>1, Pairs, Mapped DEF iOf
  <2>4. titleOf["g"] = "none" /\ titleOf' = [titleOf EXCEPT !["g"] = "seen"]
    BY <2>1, Pairs, Mapped DEF titleOf
  <2>5. pcOf["g"] = "work" /\ callOf["g"] = "daily"
    BY <2>1, Mapped
  <2>6. "seen" \in {"seen"} \ {titleOf["g"]}
    BY <2>4
  <2>7. UNCHANGED (IF Working THEN 1 ELSE 0)
    BY <2>1
  <2>8. Session!Answers("g")
    BY <1>0, <2>1, <2>2, <2>3, <2>4, <2>5, <2>6, <2>7 DEF Session!Answers, Session!Answering
  <2> QED BY <2>8 DEF Session!Next, Session!Step
<1>5. CASE OpensTips \/ Picks \/ Ticks \/ Fills \/ HasAnswered \/ Presses
  <2>1. /\ UNCHANGED <<title, i>>
        /\ pc \in {"tips", "pick", "tick", "fill", "press"}
        /\ pc' \in {"pick", "fill", "tick", "press", "score"}
    BY <1>5 DEF OpensTips, Picks, Ticks, Fills, HasAnswered, Presses
  <2> QED BY <1>1, <2>1
<1>6. CASE LosesTips \/ GoesOn
  BY <1>1, <1>6 DEF LosesTips, GoesOn
\* the page and its context are closed, and the session goes on with the next quiz
<1>7. ASSUME Working, ~Working', UNCHANGED <<title, i>>
      PROVE  /\ callOf["g"] = "daily" /\ pcOf["g"] = "work" /\ pcOf["h"] = "idle"
             /\ Session!Close("g") /\ Session!After("g") = "special"
             /\ sessionOf' = [sessionOf EXCEPT !["g"] = Session!After("g") # "none"]
             /\ iOf' = [iOf EXCEPT !["g"] = 0]
             /\ titleOf' = [titleOf EXCEPT !["g"] = "none"]
  <2>1. /\ callOf["g"] = "daily" /\ pcOf["g"] = "work" /\ pcOf["h"] = "idle"
        /\ sessionOf["g"] = TRUE /\ heldOf["g"] = TRUE
    BY <1>7, Mapped
  <2>2. heldOf' = [heldOf EXCEPT !["g"] = FALSE]
    BY <1>7 DEF heldOf, Both
  <2>3. Session!Close("g")
    BY <1>7, <2>1, <2>2 DEF Session!Close
  <2>4. Session!After("g") = "special"
    BY <2>1 DEF Session!After, Session!Following
  <2>5. sessionOf' = [sessionOf EXCEPT !["g"] = Session!After("g") # "none"]
    <3>1. (Session!After("g") # "none") = TRUE
      BY <2>4
    <3>2. sessionOf' = [sessionOf EXCEPT !["g"] = TRUE]
      BY DEF sessionOf, Both
    <3> QED BY <3>1, <3>2
  <2>6. /\ iOf' = [iOf EXCEPT !["g"] = 0]
        /\ titleOf' = [titleOf EXCEPT !["g"] = "none"]
    BY <1>7, Pairs DEF iOf, titleOf
  <2> QED BY <2>1, <2>3, <2>4, <2>5, <2>6
<1>8. CASE Leaves
  <2>1. Working /\ pc' = "left" /\ ~Working' /\ UNCHANGED <<title, i>>
    BY <1>8 DEF Leaves
  <2>2. callOf' = [callOf EXCEPT !["g"] = "special"] /\ pcOf' = [pcOf EXCEPT !["g"] = "begin"]
    BY <2>1, Pairs DEF callOf, pcOf
  <2>3. Session!AnsweredEnough("g")
    BY <1>7, <2>1, <2>2
       DEF Session!AnsweredEnough, Session!Answering, Session!Returns, Session!Returned
  <2> QED BY <2>3 DEF Session!Next, Session!Step
<1>9. CASE Panics
  <2>1. Working /\ pc' = "panicked" /\ ~Working' /\ UNCHANGED <<title, i>>
    BY <1>9 DEF Panics
  <2>2. /\ [[callOf EXCEPT !["h"] = callOf["g"]] EXCEPT !["g"] = "special"] = callOf'
        /\ pcOf' = [pcOf EXCEPT !["h"] = "begin", !["g"] = "begin"]
    <3>1. callOf = Both("daily", "none") /\ callOf' = Both("special", "daily")
      BY <2>1 DEF callOf
    <3>2. pcOf = Both("work", "idle") /\ pcOf' = Both("begin", "begin")
      BY <2>1 DEF pcOf
    <3>3. callOf["g"] = "daily"
      BY <3>1, Pairs
    <3>4. [[callOf EXCEPT !["h"] = "daily"] EXCEPT !["g"] = "special"] = callOf'
      BY <3>1 DEF Both
    <3>5. pcOf' = [pcOf EXCEPT !["h"] = "begin", !["g"] = "begin"]
      BY <3>2 DEF Both
    <3> QED BY <3>3, <3>4, <3>5
  <2>3. Session!Returned([callOf EXCEPT !["h"] = callOf["g"]], "g")
    BY <1>7, <2>1, <2>2 DEF Session!Returned
  <2>4. Session!Replaces("g", "h")
    BY <1>7, <2>1, <2>2, <2>3 DEF Session!Replaces
  <2>5. Session!AnswerPanics("g", "h")
    BY <1>7, <2>1, <2>4 DEF Session!AnswerPanics, Session!Answering
  <2> QED BY <2>5 DEF Session!Next, Session!Step
<1>10. CASE UNCHANGED vars
  <2>1. UNCHANGED <<pc, i, title>>
    BY <1>10 DEF vars
  <2> QED BY <2>1 DEF Session!vars, Session!callVars, callOf, pcOf, sessionOf, iOf, titleOf, heldOf
<1> QED BY <1>3, <1>4, <1>5, <1>6, <1>8, <1>9, <1>10 DEF Next

\* The loop of startAnswer takes only the steps StudySession has for it, whatever the
\* questions are and however many rounds it may take.
THEOREM QuizImplementsSession == Spec => QuizSteps
BY LoopAlways, QuizStep, PTL DEF Spec, QuizSteps

=============================================================================
