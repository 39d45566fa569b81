------------------------- MODULE StudySessionProofs -------------------------
(***************************************************************************)
(* Proofs about StudySession, for any number of goroutines, questions and  *)
(* bounds: its types together with the count of the contexts that are open *)
(* (a context is only closed because the count says there is one), and     *)
(* that repeated answers replace one another.                              *)
(***************************************************************************)
EXTENDS StudySession, FiniteSetTheorems, TLAPS

\* Where a goroutine is goes with the call it is in; it holds a context only in the loops.
Placed ==
  \A g \in Go :
    /\ pc[g] = "idle" <=> call[g] = "none"
    /\ session[g] => call[g] # "none"
    /\ held[g] => pc[g] = "work"

Inv == TypeOK /\ Placed /\ ContextsAccounted

USE DEF Learning, Answering

LEMMA FiniteHolding ==
  /\ IsFiniteSet(Holding) /\ Cardinality(Holding) \in Nat
<1>1. Holding \in SUBSET Go
  BY DEF Holding
<1>2. IsFiniteSet(Holding)
  BY <1>1, FS_Subset, GoAssumption
<1> QED BY <1>2, FS_CardinalityType

LEMMA FiniteHoldingNext ==
  /\ IsFiniteSet(Holding') /\ Cardinality(Holding') \in Nat
<1>1. Holding' \in SUBSET Go
  BY DEF Holding
<1>2. IsFiniteSet(Holding')
  BY <1>1, FS_Subset, GoAssumption
<1> QED BY <1>2, FS_CardinalityType

LEMMA SessionInit == Init => Inv
<1> SUFFICES ASSUME Init PROVE Inv
  OBVIOUS
<1>1. Holding = {}
  BY DEF Init, Holding
<1>2. Cardinality(Holding) = 0
  BY <1>1, FS_EmptySet
<1> QED BY <1>2 DEF Init, Inv, TypeOK, Placed, ContextsAccounted

\* A deferred Close takes away the context of its own call and no other, or it stays open.
LEMMA Closes ==
  ASSUME Inv, NEW g \in Go, Close(g), UNCHANGED connected
  PROVE  /\ open' \in Nat /\ leaked' \in Nat /\ held' \in [Go -> BOOLEAN]
         /\ ~held'[g] /\ \A h \in Go \ {g} : held'[h] = held[h]
         /\ ContextsAccounted'
<1>1. /\ held' \in [Go -> BOOLEAN]
      /\ ~held'[g] /\ \A h \in Go \ {g} : held'[h] = held[h]
  BY DEF Close, Inv, TypeOK
<1>2. Holding' = Holding \ {g}
  BY <1>1 DEF Holding
<1>3. CASE held[g]
  <2>1. g \in Holding
    BY <1>3 DEF Holding
  <2>2. Cardinality(Holding') = Cardinality(Holding) - 1
    BY <1>2, <2>1, FiniteHolding, FS_RemoveElement
  <2>3. \/ open' = (IF connected THEN open - 1 ELSE open) /\ leaked' = leaked
        \/ connected /\ open' = open /\ leaked' = leaked + 1
    BY <1>3 DEF Close, StayOpen
  <2> QED BY <1>1, <2>2, <2>3, FiniteHolding, FiniteHoldingNext
          DEF Inv, TypeOK, ContextsAccounted
<1>4. CASE ~held[g]
  <2>1. Holding' = Holding
    BY <1>2, <1>4 DEF Holding
  <2>2. open' = open /\ leaked' = leaked
    BY <1>4 DEF Close
  <2> QED BY <1>1, <2>1, <2>2 DEF Inv, TypeOK, ContextsAccounted
<1> QED BY <1>3, <1>4

\* Following leads from a call to a call.
LEMMA NextCall ==
  ASSUME Inv, NEW g \in Go, call[g] # "none"
  PROVE  After(g) \in Learning \cup Answering \cup {"score", "none"}
BY DEF After, Following, Inv, TypeOK

LEMMA ReturnedOk ==
  ASSUME Inv, NEW g \in Go, call[g] # "none",
         Returned(call, g), UNCHANGED <<connected, sessions>>,
         pc' = [pc EXCEPT ![g] = IF After(g) = "none" THEN "idle" ELSE "begin"],
         open' \in Nat, leaked' \in Nat, held' \in [Go -> BOOLEAN],
         ~held'[g], \A h \in Go \ {g} : held'[h] = held[h]
  PROVE  TypeOK' /\ Placed'
<1>1. TypeOK'
  BY NextCall DEF Returned, Inv, TypeOK
<1>2. \A h \in Go \ {g} : call'[h] = call[h] /\ pc'[h] = pc[h] /\ session'[h] = session[h]
  BY DEF Returned, Inv, TypeOK
<1>3. /\ call'[g] = After(g) /\ session'[g] = (After(g) # "none")
      /\ pc'[g] = IF After(g) = "none" THEN "idle" ELSE "begin"
  BY DEF Returned, Inv, TypeOK
<1> QED BY <1>1, <1>2, <1>3 DEF Placed, Inv

LEMMA ReturnsOk ==
  ASSUME Inv, NEW g \in Go, pc[g] # "idle", Returns(g)
  PROVE  Inv'
<1>1. call[g] # "none"
  BY DEF Inv, Placed
<1>2. Close(g) /\ Returned(call, g) /\ UNCHANGED <<connected, sessions>>
      /\ pc' = [pc EXCEPT ![g] = IF After(g) = "none" THEN "idle" ELSE "begin"]
  BY DEF Returns
<1> QED BY <1>1, <1>2, Closes, ReturnedOk DEF Inv

\* One more context, held by g.
LEMMA OpensOk ==
  ASSUME Inv, NEW g \in Go, OpensPage(g)
  PROVE  Inv'
<1> USE DEF OpensPage
<1>1. TypeOK' /\ Placed'
  BY DEF Inv, TypeOK, Placed, callVars
<1>2. g \notin Holding
  BY DEF Inv, Placed, Holding
<1>3. Holding' = Holding \cup {g}
  BY DEF Inv, TypeOK, Holding
<1>4. Cardinality(Holding') = Cardinality(Holding) + 1
  BY <1>2, <1>3, FiniteHolding, FS_AddElement
<1> QED BY <1>1, <1>4, FiniteHolding DEF Inv, TypeOK, ContextsAccounted

\* One more context, held by nobody, and one less held by g if it holds one; that one may
\* stay open as well.
LEMMA InitScriptOk ==
  ASSUME Inv, NEW g \in Go, InitScriptFails(g)
  PROVE  Inv'
<1>1. call[g] # "none"
  BY DEF InitScriptFails, Inv, Placed
<1>2. /\ connected' = connected /\ sessions' = sessions
      /\ \/ leaked' = leaked + 1 /\ open' = IF held[g] THEN open ELSE open + 1
         \/ held[g] /\ leaked' = leaked + 2 /\ open' = open + 1
  BY DEF InitScriptFails, StayOpen
<1>3. /\ held' \in [Go -> BOOLEAN]
      /\ ~held'[g] /\ \A h \in Go \ {g} : held'[h] = held[h]
  BY DEF InitScriptFails, Inv, TypeOK
<1>4. ContextsAccounted'
  <2>1. Holding' = Holding \ {g}
    BY <1>3 DEF Holding
  <2>2. CASE held[g]
    <3>1. Cardinality(Holding') = Cardinality(Holding) - 1
      BY <2>1, <2>2, FiniteHolding, FS_RemoveElement DEF Holding
    <3> QED BY <1>2, <2>2, <3>1, FiniteHolding DEF Inv, TypeOK, ContextsAccounted
  <2>3. CASE ~held[g]
    <3>1. Holding' = Holding
      BY <2>1, <2>3 DEF Holding
    <3> QED BY <1>2, <2>3, <3>1, FiniteHolding DEF Inv, TypeOK, ContextsAccounted
  <2> QED BY <2>2, <2>3
<1>5. TypeOK'
  BY <1>1, <1>2, <1>3, NextCall DEF InitScriptFails, Returned, Inv, TypeOK
<1>6. \A h \in Go \ {g} : call'[h] = call[h] /\ pc'[h] = pc[h] /\ session'[h] = session[h]
  BY DEF InitScriptFails, Returned, Inv, TypeOK
<1>7. /\ call'[g] = After(g) /\ session'[g] = (After(g) # "none")
      /\ pc'[g] = IF After(g) = "none" THEN "idle" ELSE "begin"
  BY DEF InitScriptFails, Returned, Inv, TypeOK
<1>8. Placed'
  <2> SUFFICES ASSUME NEW h \in Go
               PROVE  (/\ pc[h] = "idle" <=> call[h] = "none"
                       /\ session[h] => call[h] # "none"
                       /\ held[h] => pc[h] = "work")'
    BY DEF Placed
  <2>1. CASE h = g
    <3>1. ~held'[g]
      BY <1>3
    <3>2. pc'[g] = "idle" <=> call'[g] = "none"
      BY <1>7
    <3>3. session'[g] => call'[g] # "none"
      BY <1>7
    <3> QED BY <2>1, <3>1, <3>2, <3>3
  <2>2. CASE h # g
    BY <1>3, <1>6, <2>2 DEF Placed, Inv
  <2> QED BY <2>1, <2>2
<1> QED BY <1>4, <1>5, <1>8 DEF Inv

\* What a panic does to the calls: g goes on with its next one, h begins the one of g.
LEMMA Panics ==
  ASSUME Inv, NEW g \in Go, NEW h \in Go, AnswerPanics(g, h)
  PROVE  /\ g # h /\ call[g] \in Answering /\ call[h] = "none" /\ ~session[h]
         /\ call'[g] = After(g) /\ session'[g] = (After(g) # "none")
         /\ pc'[g] = IF After(g) = "none" THEN "idle" ELSE "begin"
         /\ call'[h] = call[g] /\ session'[h] = session[h] /\ pc'[h] = "begin"
         /\ \A x \in Go \ {g, h} :
               call'[x] = call[x] /\ pc'[x] = pc[x] /\ session'[x] = session[x]
<1>1. g # h /\ call[g] \in Answering /\ call[h] = "none" /\ ~session[h]
  BY DEF AnswerPanics, Inv, Placed
<1> QED BY <1>1 DEF AnswerPanics, Replaces, Returned, Inv, TypeOK

LEMMA PanicsOk ==
  ASSUME Inv, NEW g \in Go, NEW h \in Go, AnswerPanics(g, h)
  PROVE  Inv'
<1>1. Close(g) /\ UNCHANGED <<connected, sessions>> /\ pc[h] = "idle"
  BY DEF AnswerPanics, Replaces
<1>2. /\ open' \in Nat /\ leaked' \in Nat /\ held' \in [Go -> BOOLEAN]
      /\ ~held'[g] /\ \A x \in Go \ {g} : held'[x] = held[x]
      /\ ContextsAccounted'
  BY <1>1, Closes
<1>3. call[g] # "none" /\ ~held[h]
  BY <1>1, Panics DEF Inv, Placed
<1>4. TypeOK'
  <2>1. call' \in [Go -> Learning \cup Answering \cup {"score", "none"}]
    BY <1>3, NextCall DEF AnswerPanics, Replaces, Returned, Inv, TypeOK
  <2>2. pc' \in [Go -> {"idle", "begin", "open", "work"}]
    BY DEF AnswerPanics, Replaces, Inv, TypeOK
  <2>3. /\ session' \in [Go -> BOOLEAN] /\ i' \in [Go -> Nat]
        /\ title' \in [Go -> Question \cup {NoQuestion}]
    BY DEF AnswerPanics, Replaces, Returned, Inv, TypeOK
  <2> QED BY <1>1, <1>2, <2>1, <2>2, <2>3 DEF Inv, TypeOK
<1>5. Placed'
  BY <1>2, <1>3, Panics DEF Inv, Placed
<1> QED BY <1>2, <1>4, <1>5 DEF Inv

LEMMA ReadLeaksOk ==
  ASSUME Inv, NEW g \in Go, ReadLeaks(g)
  PROVE  Inv'
<1>1. /\ UNCHANGED <<connected, call, pc, session, title, held, sessions>>
      /\ i' = [i EXCEPT ![g] = @ + 1] /\ open' = open + 1 /\ leaked' = leaked + 1
  BY DEF ReadLeaks, StayOpen
<1>2. Holding' = Holding
  BY <1>1 DEF Holding
<1> QED BY <1>1, <1>2, FiniteHolding DEF Inv, TypeOK, Placed, ContextsAccounted

\* A context more that stays open.
LEMMA ScoreLeaksOk ==
  ASSUME Inv, NEW g \in Go, ScoreLeaks(g)
  PROVE  Inv'
<1>1. /\ UNCHANGED <<connected, call, pc, session, i, title, held, sessions>>
      /\ open' = open + 1 /\ leaked' = leaked + 1
  BY DEF ScoreLeaks, StayOpen, callVars
<1>2. Holding' = Holding
  BY <1>1 DEF Holding
<1> QED BY <1>1, <1>2, FiniteHolding DEF Inv, TypeOK, Placed, ContextsAccounted

\* The steps that open and close nothing and end no call.
LEMMA LocalOk ==
  ASSUME Inv, NEW g \in Go,
         \/ BeginsSession(g) \/ FindsWork(g) \/ LearnsOne(g)
         \/ SeesNothingNew(g) \/ Answers(g) \/ ReadsAgain(g)
  PROVE  Inv'
<1>1. UNCHANGED <<connected, open, held, leaked>>
  BY DEF BeginsSession, FindsWork, LearnsOne, SeesNothingNew, Answers, ReadsAgain
<1>2. Holding' = Holding
  BY <1>1 DEF Holding
<1>3. ContextsAccounted'
  BY <1>1, <1>2 DEF Inv, ContextsAccounted
<1>4. CASE BeginsSession(g)
  BY <1>1, <1>3, <1>4 DEF BeginsSession, Inv, TypeOK, Placed
<1>5. CASE FindsWork(g)
  BY <1>1, <1>3, <1>5 DEF FindsWork, Inv, TypeOK, Placed
<1>6. CASE LearnsOne(g) \/ SeesNothingNew(g) \/ ReadsAgain(g)
  BY <1>1, <1>3, <1>6 DEF LearnsOne, SeesNothingNew, ReadsAgain, Inv, TypeOK, Placed
<1>7. CASE Answers(g)
  BY <1>1, <1>3, <1>7 DEF Answers, Inv, TypeOK, Placed
<1> QED BY <1>4, <1>5, <1>6, <1>7

LEMMA DiesOk == Inv /\ BrowserDies => Inv'
<1> SUFFICES ASSUME Inv, BrowserDies PROVE Inv'
  OBVIOUS
<1>1. UNCHANGED <<call, pc, session, i, title, held, leaked, sessions>>
      /\ connected' = FALSE /\ open' = 0
  BY DEF BrowserDies, callVars
<1>2. ContextsAccounted'
  BY <1>1 DEF ContextsAccounted
<1>3. TypeOK' /\ Placed'
  BY <1>1 DEF Inv, TypeOK, Placed
<1> QED BY <1>2, <1>3 DEF Inv

LEMMA ExitsOk ==
  ASSUME Inv, NEW g \in Go, Exits(g)
  PROVE  Inv'
<1>1. Holding' = {}
  BY DEF Exits, Holding
<1>2. Cardinality(Holding') = 0
  BY <1>1, FS_EmptySet
<1> QED BY <1>2 DEF Exits, Inv, TypeOK, Placed, ContextsAccounted

LEMMA SessionStep == Inv /\ [Next]_vars => Inv'
<1> SUFFICES ASSUME Inv, [Next]_vars PROVE Inv'
  OBVIOUS
<1>1. ASSUME NEW g \in Go, Step(g) PROVE Inv'
  <2>1. CASE \/ NothingToDo(g) \/ NoContext(g) \/ LearntEnough(g)
             \/ AnsweredEnough(g) \/ Concludes(g)
    <3>1. pc[g] # "idle" /\ Returns(g)
      BY <2>1 DEF NothingToDo, NoContext, LearntEnough, AnsweredEnough, Concludes
    <3> QED BY <3>1, ReturnsOk
  <2>2. CASE FindsWork(g) \/ LearnsOne(g) \/ SeesNothingNew(g) \/ Answers(g) \/ ReadsAgain(g)
    BY <2>2, LocalOk
  <2>3. CASE OpensPage(g)
    BY <2>3, OpensOk
  <2>4. CASE InitScriptFails(g)
    BY <2>4, InitScriptOk
  <2>5. CASE ReadLeaks(g)
    BY <2>5, ReadLeaksOk
  <2>6. CASE \E h \in Go : AnswerPanics(g, h)
    BY <2>6, PanicsOk
  <2> QED BY <1>1, <2>1, <2>2, <2>3, <2>4, <2>5, <2>6 DEF Step
<1>2. CASE UNCHANGED vars
  <2>1. Holding' = Holding
    BY <1>2 DEF vars, Holding
  <2> QED BY <1>2, <2>1 DEF vars, callVars, Inv, TypeOK, Placed, ContextsAccounted
<1> QED BY <1>1, <1>2, LocalOk, ScoreLeaksOk, ExitsOk, DiesOk DEF Next

THEOREM SessionInv == Spec => []Inv
BY SessionInit, SessionStep, PTL DEF Spec

\* StudySession's state is well typed; in particular no context is closed twice.
THEOREM SessionTypeOK == Spec => []TypeOK
<1>1. Inv => TypeOK
  BY DEF Inv
<1> QED BY <1>1, SessionInv, PTL

\* Every context that is open will be closed by a running call, or was left by a failure of
\* AddInitScript (Article.go and Answer.go defer the Close after it) or of Close itself.
THEOREM SessionContexts == Spec => []ContextsAccounted
<1>1. Inv => ContextsAccounted
  BY DEF Inv
<1> QED BY <1>1, SessionInv, PTL

-----------------------------------------------------------------------------
(* Repeated answers *)

\* The calls of a session before it answers the quiz k, and who answers it or will.
Before(k) == IF k = "daily" THEN Learning ELSE Learning \cup {"daily"}
Heading(k) == {g \in Go : call[g] = k \/ (session[g] /\ call[g] \in Before(k))}

Bounded == \A k \in Answering : Cardinality(Heading(k)) <= sessions

LEMMA FiniteHeading ==
  ASSUME NEW k
  PROVE  /\ IsFiniteSet(Heading(k)) /\ Cardinality(Heading(k)) \in Nat
         /\ IsFiniteSet(Heading(k)') /\ Cardinality(Heading(k)') \in Nat
<1>1. Heading(k) \in SUBSET Go /\ Heading(k)' \in SUBSET Go
  BY DEF Heading
<1>2. IsFiniteSet(Heading(k)) /\ IsFiniteSet(Heading(k)')
  BY <1>1, FS_Subset, GoAssumption
<1> QED BY <1>2, FS_CardinalityType

LEMMA HeadingShrinks ==
  ASSUME Inv, Bounded, UNCHANGED sessions, \A k \in Answering : Heading(k)' \subseteq Heading(k)
  PROVE  Bounded'
<1> SUFFICES ASSUME NEW k \in Answering PROVE Cardinality(Heading(k)') <= sessions'
  BY DEF Bounded
<1>1. Cardinality(Heading(k)') <= Cardinality(Heading(k))
  BY FiniteHeading, FS_Subset
<1> QED BY <1>1, FiniteHeading DEF Bounded, Inv, TypeOK

\* A call that returns leads to no quiz its session was not heading for.
LEMMA AfterHeads ==
  ASSUME Inv, NEW g \in Go, NEW k \in Answering,
         \/ After(g) = k
         \/ After(g) # "none" /\ After(g) \in Before(k)
  PROVE  session[g] /\ call[g] \in Before(k)
<1>1. session[g]
  BY DEF After
<1>2. call[g] \in {"article", "video", "daily", "special", "score"}
  BY <1>1 DEF Inv, TypeOK, Placed
<1>3. After(g) = Following[call[g]]
  BY <1>1 DEF After
<1> QED BY <1>1, <1>2, <1>3 DEF Following, Before

LEMMA ReturnedBounded ==
  ASSUME Inv, Bounded, NEW g \in Go, Returned(call, g), UNCHANGED sessions
  PROVE  Bounded'
<1> SUFFICES ASSUME NEW k \in Answering, NEW x \in Go, x \in Heading(k)'
             PROVE  x \in Heading(k)
  BY HeadingShrinks DEF Heading
<1>1. x # g => call'[x] = call[x] /\ session'[x] = session[x]
  BY DEF Returned, Inv, TypeOK
<1>2. call'[g] = After(g) /\ session'[g] = (After(g) # "none")
  BY DEF Returned, Inv, TypeOK
<1>3. CASE x # g
  BY <1>1, <1>3 DEF Heading, Before
<1>4. CASE x = g
  BY <1>2, <1>4, AfterHeads DEF Heading, Before
<1> QED BY <1>3, <1>4

\* The one that answers again takes the place of the one that panicked.
LEMMA PanicsBounded ==
  ASSUME Inv, Bounded, NEW g \in Go, NEW h \in Go, AnswerPanics(g, h)
  PROVE  Bounded'
<1> SUFFICES ASSUME NEW k \in Answering PROVE Cardinality(Heading(k)') <= sessions'
  BY DEF Bounded
<1>1. UNCHANGED sessions
  BY DEF AnswerPanics
<1>2. CASE call[g] = k
  <2>1. g \in Heading(k) /\ h \notin Heading(k)
    BY <1>2, Panics DEF Heading, Before
  <2>2. Heading(k)' \subseteq (Heading(k) \ {g}) \cup {h}
    <3> SUFFICES ASSUME NEW x \in Go, x \in Heading(k)', x # h
                 PROVE  x \in Heading(k) /\ x # g
      BY DEF Heading
    <3>1. x # g
      <4> SUFFICES ASSUME x = g PROVE FALSE
        OBVIOUS
      <4>1. call'[g] = After(g) /\ session'[g] = (After(g) # "none")
        BY Panics
      <4>2. After(g) \in {"special", "score", "none"} /\ (k = "special" => After(g) # "special")
        BY <1>2 DEF After, Following
      <4> QED BY <1>2, <4>1, <4>2 DEF Heading, Before
    <3>2. call'[x] = call[x] /\ session'[x] = session[x]
      BY <3>1, Panics
    <3> QED BY <3>1, <3>2 DEF Heading, Before
  <2>3. /\ IsFiniteSet(Heading(k) \ {g})
        /\ Cardinality(Heading(k) \ {g}) = Cardinality(Heading(k)) - 1
    BY <2>1, FiniteHeading, FS_RemoveElement
  <2>4. /\ IsFiniteSet((Heading(k) \ {g}) \cup {h})
        /\ Cardinality((Heading(k) \ {g}) \cup {h}) = Cardinality(Heading(k)) - 1 + 1
    BY <2>1, <2>3, FS_AddElement
  <2>5. Cardinality(Heading(k)') <= Cardinality((Heading(k) \ {g}) \cup {h})
    BY <2>2, <2>4, FS_Subset
  <2> QED BY <1>1, <2>4, <2>5, FiniteHeading DEF Bounded, Inv, TypeOK
<1>3. CASE call[g] # k
  <2>1. Heading(k)' \subseteq Heading(k)
    <3> SUFFICES ASSUME NEW x \in Go, x \in Heading(k)'
                 PROVE  x \in Heading(k)
      BY DEF Heading
    <3>1. CASE x = g
      BY <3>1, Panics, AfterHeads DEF Heading, Before
    <3>2. CASE x = h
      BY <1>3, <3>2, Panics DEF Heading, Before
    <3>3. CASE x # g /\ x # h
      BY <3>3, Panics DEF Heading, Before
    <3> QED BY <3>1, <3>2, <3>3
  <2>2. Cardinality(Heading(k)') <= Cardinality(Heading(k))
    BY <2>1, FiniteHeading, FS_Subset
  <2> QED BY <1>1, <2>2, FiniteHeading DEF Bounded, Inv, TypeOK
<1> QED BY <1>2, <1>3

LEMMA BeginsBounded ==
  ASSUME Inv, Bounded, NEW g \in Go, BeginsSession(g)
  PROVE  Bounded'
<1> SUFFICES ASSUME NEW k \in Answering PROVE Cardinality(Heading(k)') <= sessions'
  BY DEF Bounded
<1>1. Heading(k)' \subseteq Heading(k) \cup {g}
  BY DEF BeginsSession, Heading, Inv, TypeOK
<1>2. /\ IsFiniteSet(Heading(k) \cup {g})
      /\ Cardinality(Heading(k) \cup {g}) <= Cardinality(Heading(k)) + 1
      /\ Cardinality(Heading(k) \cup {g}) \in Nat
  <2>1. IsFiniteSet(Heading(k) \cup {g})
        /\ Cardinality(Heading(k) \cup {g}) =
             IF g \in Heading(k) THEN Cardinality(Heading(k)) ELSE Cardinality(Heading(k)) + 1
    BY FiniteHeading, FS_AddElement
  <2> QED BY <2>1, FiniteHeading
<1>3. Cardinality(Heading(k)') <= Cardinality(Heading(k) \cup {g})
  BY <1>1, <1>2, FS_Subset
<1>4. sessions' = sessions + 1 /\ sessions \in Nat
  BY DEF BeginsSession, Inv, TypeOK
<1> QED BY <1>2, <1>3, <1>4, FiniteHeading DEF Bounded

LEMMA BoundedStep == Inv /\ Bounded /\ [Next]_vars => Bounded'
<1> SUFFICES ASSUME Inv, Bounded, [Next]_vars PROVE Bounded'
  OBVIOUS
<1>1. ASSUME NEW g \in Go, Step(g) PROVE Bounded'
  <2>1. CASE \/ NothingToDo(g) \/ NoContext(g) \/ LearntEnough(g) \/ AnsweredEnough(g)
             \/ Concludes(g) \/ InitScriptFails(g)
    <3>1. Returned(call, g) /\ UNCHANGED sessions
      BY <2>1 DEF NothingToDo, NoContext, LearntEnough, AnsweredEnough, Concludes, Returns,
                  InitScriptFails
    <3> QED BY <3>1, ReturnedBounded
  <2>2. CASE \/ FindsWork(g) \/ OpensPage(g) \/ LearnsOne(g) \/ SeesNothingNew(g)
             \/ Answers(g) \/ ReadsAgain(g) \/ ReadLeaks(g)
    <3>1. UNCHANGED <<call, session, sessions>>
      BY <2>2 DEF FindsWork, OpensPage, LearnsOne, SeesNothingNew, Answers, ReadsAgain,
                  ReadLeaks
    <3> QED BY <3>1, HeadingShrinks DEF Heading
  <2>3. CASE \E h \in Go : AnswerPanics(g, h)
    BY <2>3, PanicsBounded
  <2> QED BY <1>1, <2>1, <2>2, <2>3 DEF Step
<1>2. ASSUME NEW g \in Go, Exits(g) PROVE Bounded'
  <2>1. \A k \in Answering : Heading(k)' = {}
    BY <1>2 DEF Exits, Heading
  <2>2. sessions' = 0
    BY <1>2 DEF Exits
  <2> QED BY <2>1, <2>2, FS_EmptySet DEF Bounded
<1>3. CASE BrowserDies \/ UNCHANGED vars \/ \E g \in Go : ScoreLeaks(g)
  <2>1. UNCHANGED <<call, session, sessions>>
    BY <1>3 DEF BrowserDies, ScoreLeaks, vars, callVars
  <2> QED BY <2>1, HeadingShrinks DEF Heading
<1> QED BY <1>1, <1>2, <1>3, BeginsBounded DEF Next

\* However often answers panic and are repeated, a kind of quiz is answered by no more
\* goroutines than sessions were begun.
THEOREM SessionAttempts == Spec => []OneAttemptPerSession
<1>1. Init => Bounded
  <2> SUFFICES ASSUME Init, NEW k \in Answering PROVE Cardinality(Heading(k)) <= sessions
    BY DEF Bounded
  <2>1. Heading(k) = {} /\ sessions = 0
    BY DEF Init, Heading
  <2> QED BY <2>1, FS_EmptySet
<1>2. Inv /\ Bounded => OneAttemptPerSession
  <2> SUFFICES ASSUME Inv, Bounded, NEW k \in Answering
               PROVE  Cardinality(Attempts(k)) <= sessions
    BY DEF OneAttemptPerSession
  <2>1. Attempts(k) \subseteq Heading(k)
    BY DEF Attempts, Heading
  <2>2. IsFiniteSet(Attempts(k)) /\ Cardinality(Attempts(k)) <= Cardinality(Heading(k))
    BY <2>1, FiniteHeading, FS_Subset
  <2>3. Cardinality(Attempts(k)) \in Nat
    BY <2>2, FS_CardinalityType
  <2> QED BY <2>2, <2>3, FiniteHeading DEF Bounded, Inv, TypeOK
<1> QED BY <1>1, <1>2, BoundedStep, SessionInv, PTL DEF Spec

-----------------------------------------------------------------------------
(* The steps a session has left *)

\* No counter is past the rounds it counts.
Counting == \A g \in Go : i[g] \in 0..MostRounds

LEMMA MostRoundsNat == MostRounds \in Nat /\ Rounds <= MostRounds /\ Stuck <= MostRounds
                       /\ Reads <= MostRounds /\ MostRounds >= 1
BY BoundAssumption DEF MostRounds

LEMMA CountingStep == Inv /\ Counting /\ [Next]_vars => Counting'
<1> SUFFICES ASSUME Inv, Counting, [Next]_vars, NEW x \in Go PROVE i'[x] \in 0..MostRounds
  BY DEF Counting
<1>0. i \in [Go -> Nat] /\ i[x] \in 0..MostRounds
  BY DEF Inv, TypeOK, Counting
<1>1. ASSUME NEW g \in Go, Step(g) PROVE i'[x] \in 0..MostRounds
  <2>1. CASE \/ NothingToDo(g) \/ NoContext(g) \/ LearntEnough(g) \/ AnsweredEnough(g)
             \/ Concludes(g) \/ InitScriptFails(g) \/ \E h \in Go : AnswerPanics(g, h)
    <3>1. i' = [i EXCEPT ![g] = 0]
      BY <2>1 DEF NothingToDo, NoContext, LearntEnough, AnsweredEnough, Concludes, Returns,
                  InitScriptFails, AnswerPanics, Replaces, Returned
    <3> QED BY <1>0, <3>1, MostRoundsNat
  <2>2. CASE FindsWork(g) \/ OpensPage(g)
    BY <1>0, <2>2 DEF FindsWork, OpensPage
  <2>3. CASE LearnsOne(g) \/ SeesNothingNew(g) \/ ReadsAgain(g) \/ ReadLeaks(g)
    <3>1. i' = [i EXCEPT ![g] = @ + 1] /\ i[g] < MostRounds
      BY <1>0, <2>3, MostRoundsNat, BoundAssumption
         DEF LearnsOne, SeesNothingNew, ReadsAgain, ReadLeaks
    <3> QED BY <1>0, <3>1, MostRoundsNat
  <2>4. CASE Answers(g)
    <3>1. i' = [i EXCEPT ![g] = 1]
      BY <2>4 DEF Answers
    <3> QED BY <1>0, <3>1, MostRoundsNat
  <2> QED BY <1>1, <2>1, <2>2, <2>3, <2>4 DEF Step
<1>2. ASSUME NEW g \in Go, BeginsSession(g) PROVE i'[x] \in 0..MostRounds
  BY <1>0, <1>2 DEF BeginsSession
<1>3. ASSUME NEW g \in Go, Exits(g) PROVE i'[x] \in 0..MostRounds
  BY <1>3, MostRoundsNat DEF Exits
<1>4. CASE BrowserDies \/ UNCHANGED vars \/ \E g \in Go : ScoreLeaks(g)
  BY <1>0, <1>4 DEF BrowserDies, ScoreLeaks, vars, callVars
<1> QED BY <1>1, <1>2, <1>3, <1>4 DEF Next

\* What a session has left is a number.
LEMMA StepsNat ==
  ASSUME Inv, Counting, NEW g \in Go
  PROVE  /\ StepsLeft(g) \in Nat
         /\ CallsLeft[call[g]] \in 0..5 /\ Ahead[pc[g]] \in 0..2 /\ i[g] \in 0..MostRounds
<1>1. CallsLeft[call[g]] \in 0..5 /\ Ahead[pc[g]] \in 0..2
  BY DEF CallsLeft, Ahead, Inv, TypeOK
<1>2. i[g] \in 0..MostRounds
  BY DEF Counting
<1> QED BY <1>1, <1>2, MostRoundsNat DEF StepsLeft

\* A call that returns leaves fewer.
LEMMA ReturnShrinks ==
  ASSUME Inv, Counting, NEW g \in Go, session[g], session'[g],
         call'[g] = After(g), session'[g] = (After(g) # "none"), i'[g] = 0,
         pc'[g] = IF After(g) = "none" THEN "idle" ELSE "begin"
  PROVE  StepsLeft(g)' \in 0..(StepsLeft(g) - 1)
<1>1. call[g] \in {"article", "video", "daily", "special", "score"}
  BY DEF Inv, TypeOK, Placed
<1>2. call'[g] = Following[call[g]] /\ call'[g] # "none"
  BY DEF After
<1>3. CallsLeft[call'[g]] = CallsLeft[call[g]] - 1 /\ CallsLeft[call[g]] \in 1..5
  BY <1>1, <1>2 DEF Following, CallsLeft
<1>4. Ahead[pc'[g]] = 2 /\ i'[g] = 0
  BY <1>2 DEF Ahead
<1> DEFINE c == CallsLeft[call[g]]
<1>5. StepsLeft(g)' = (c - 1) * (MostRounds + 3) + 2 + MostRounds
  BY <1>3, <1>4, MostRoundsNat DEF StepsLeft, MostRounds
<1>6. StepsLeft(g) = c * (MostRounds + 3) + Ahead[pc[g]] + MostRounds - i[g]
  BY DEF StepsLeft
<1>7. c \in {1, 2, 3, 4, 5}
  BY <1>3
<1> HIDE DEF c
<1> QED BY <1>5, <1>6, <1>7, StepsNat, MostRoundsNat

\* So does a step on the way to the loop, or a round.
LEMMA RoundShrinks ==
  ASSUME Inv, Counting, Counting', Inv', NEW g \in Go, call'[g] = call[g],
         \/ Ahead[pc'[g]] = Ahead[pc[g]] - 1 /\ i'[g] = i[g]
         \/ pc'[g] = pc[g] /\ i'[g] = i[g] + 1
  PROVE  StepsLeft(g)' \in 0..(StepsLeft(g) - 1)
<1> DEFINE all == CallsLeft[call[g]] * (MostRounds + 3)
<1>1. StepsLeft(g) = all + Ahead[pc[g]] + MostRounds - i[g]
  BY DEF StepsLeft
<1>2. StepsLeft(g)' = all + Ahead[pc'[g]] + MostRounds - i'[g]
  BY DEF StepsLeft, MostRounds
<1>3. all \in Nat
  BY StepsNat, MostRoundsNat
<1>4. /\ Ahead[pc[g]] \in 0..2 /\ i[g] \in 0..MostRounds
      /\ Ahead[pc'[g]] \in 0..2 /\ i'[g] \in 0..MostRounds
  <2>1. Ahead[pc[g]] \in 0..2 /\ i[g] \in 0..MostRounds
    BY StepsNat
  <2>2. pc'[g] \in {"idle", "begin", "open", "work"}
    BY DEF Inv, TypeOK
  <2>3. i'[g] \in 0..MostRounds
    BY DEF Counting, MostRounds
  <2> QED BY <2>1, <2>2, <2>3 DEF Ahead
<1> HIDE DEF all
<1> QED BY <1>1, <1>2, <1>3, <1>4, MostRoundsNat

\* Every step of the session's own.
LEMMA OwnShrinks ==
  ASSUME Inv, Counting, Inv', Counting', NEW g \in Go, session[g], session'[g], ~AsksNew(g), Step(g)
  PROVE  StepsLeft(g)' \in 0..(StepsLeft(g) - 1)
<1> USE DEF Inv, TypeOK
<1>1. CASE \/ NothingToDo(g) \/ NoContext(g) \/ LearntEnough(g) \/ AnsweredEnough(g)
           \/ Concludes(g) \/ InitScriptFails(g)
  <2>1. Returned(call, g) /\ pc' = [pc EXCEPT ![g] = IF After(g) = "none" THEN "idle" ELSE "begin"]
    BY <1>1 DEF NothingToDo, NoContext, LearntEnough, AnsweredEnough, Concludes, Returns,
                InitScriptFails
  <2>2. /\ call'[g] = After(g) /\ session'[g] = (After(g) # "none") /\ i'[g] = 0
        /\ pc'[g] = IF After(g) = "none" THEN "idle" ELSE "begin"
    BY <2>1 DEF Returned
  <2> QED BY <2>2, ReturnShrinks
<1>2. ASSUME NEW h \in Go, AnswerPanics(g, h)
      PROVE  StepsLeft(g)' \in 0..(StepsLeft(g) - 1)
  <2>1. i'[g] = 0
    BY <1>2 DEF AnswerPanics, Replaces, Returned
  <2>2. /\ call'[g] = After(g) /\ session'[g] = (After(g) # "none")
        /\ pc'[g] = IF After(g) = "none" THEN "idle" ELSE "begin"
    BY <1>2, Panics
  <2> QED BY <2>1, <2>2, ReturnShrinks
<1>3. CASE FindsWork(g) \/ OpensPage(g)
  <2>1. Ahead[pc'[g]] = Ahead[pc[g]] - 1 /\ i'[g] = i[g] /\ call'[g] = call[g]
    BY <1>3 DEF FindsWork, OpensPage, Ahead
  <2> QED BY <2>1, RoundShrinks
<1>4. CASE LearnsOne(g) \/ SeesNothingNew(g) \/ ReadsAgain(g) \/ ReadLeaks(g)
  <2>1. pc'[g] = pc[g] /\ i'[g] = i[g] + 1 /\ call'[g] = call[g]
    BY <1>4 DEF LearnsOne, SeesNothingNew, ReadsAgain, ReadLeaks
  <2> QED BY <2>1, RoundShrinks
<1>5. CASE Answers(g)
  BY <1>5, AbsentAssumption DEF Answers, AsksNew
<1> QED BY <1>1, <1>2, <1>3, <1>4, <1>5 DEF Step

\* Nobody else's step changes what a session has left.
LEMMA OthersKeep ==
  ASSUME Inv, Counting, [Next]_vars, NEW x \in Go, session[x], session'[x], ~Step(x)
  PROVE  StepsLeft(x)' = StepsLeft(x)
<1> SUFFICES call'[x] = call[x] /\ pc'[x] = pc[x] /\ i'[x] = i[x]
  BY DEF StepsLeft, MostRounds
<1> USE DEF Inv, TypeOK
<1>0. pc[x] # "idle"
  BY DEF Placed
<1>1. ASSUME NEW g \in Go, Step(g) PROVE call'[x] = call[x] /\ pc'[x] = pc[x] /\ i'[x] = i[x]
  <2>0. x # g
    BY <1>1
  <2>1. CASE \/ NothingToDo(g) \/ NoContext(g) \/ LearntEnough(g) \/ AnsweredEnough(g)
             \/ Concludes(g) \/ InitScriptFails(g)
    BY <2>0, <2>1 DEF NothingToDo, NoContext, LearntEnough, AnsweredEnough, Concludes, Returns,
                      Returned, InitScriptFails
  <2>2. CASE \/ FindsWork(g) \/ OpensPage(g) \/ LearnsOne(g) \/ SeesNothingNew(g)
             \/ Answers(g) \/ ReadsAgain(g) \/ ReadLeaks(g)
    BY <2>0, <2>2 DEF FindsWork, OpensPage, LearnsOne, SeesNothingNew, Answers, ReadsAgain,
                      ReadLeaks
  <2>3. ASSUME NEW h \in Go, AnswerPanics(g, h)
        PROVE  call'[x] = call[x] /\ pc'[x] = pc[x] /\ i'[x] = i[x]
    <3>1. x # h
      BY <1>0, <2>3 DEF AnswerPanics
    <3>2. call'[x] = call[x] /\ pc'[x] = pc[x]
      BY <2>0, <2>3, <3>1, Panics
    <3>3. i'[x] = i[x]
      BY <2>0, <2>3 DEF AnswerPanics, Replaces, Returned
    <3> QED BY <3>2, <3>3
  <2> QED BY <1>1, <2>1, <2>2, <2>3 DEF Step
<1>2. ASSUME NEW g \in Go, BeginsSession(g)
      PROVE  call'[x] = call[x] /\ pc'[x] = pc[x] /\ i'[x] = i[x]
  BY <1>0, <1>2 DEF BeginsSession
<1>3. ASSUME NEW g \in Go, Exits(g) PROVE FALSE
  BY <1>3 DEF Exits
<1>4. CASE BrowserDies \/ UNCHANGED vars \/ \E g \in Go : ScoreLeaks(g)
  BY <1>4 DEF BrowserDies, ScoreLeaks, vars, callVars
<1> QED BY <1>1, <1>2, <1>3, <1>4 DEF Next

LEMMA ShrinksStep ==
  Inv /\ Counting /\ Inv' /\ Counting' /\ [Next]_vars =>
    [\A g \in Go : session[g] /\ session'[g] /\ ~AsksNew(g) =>
       /\ StepsLeft(g)' \in 0..StepsLeft(g)
       /\ Step(g) => StepsLeft(g)' # StepsLeft(g)]_vars
<1> SUFFICES ASSUME Inv, Counting, Inv', Counting', [Next]_vars,
                    NEW g \in Go, session[g], session'[g], ~AsksNew(g)
             PROVE  /\ StepsLeft(g)' \in 0..StepsLeft(g)
                    /\ Step(g) => StepsLeft(g)' # StepsLeft(g)
  OBVIOUS
<1>1. StepsLeft(g) \in Nat
  BY StepsNat
<1> DEFINE s == StepsLeft(g)  t == StepsLeft(g)'
<1>2. CASE Step(g)
  <2>1. t \in 0..(s - 1)
    BY <1>2, OwnShrinks
  <2> HIDE DEF s, t
  <2>2. t \in 0..s /\ t # s
    BY <1>1, <2>1 DEF s
  <2> QED BY <2>2 DEF s, t
<1>3. CASE ~Step(g)
  <2>1. t = s
    BY <1>3, OthersKeep
  <2> HIDE DEF s, t
  <2>2. t \in 0..s
    BY <1>1, <2>1 DEF s
  <2> QED BY <1>3, <2>2 DEF s, t
<1> QED BY <1>2, <1>3

\* Between two new questions a session has fewer steps left after each step, and nobody
\* gives it more: what makes it end is counted, however many rounds a call may take.
THEOREM SessionShrinking == Spec => SessionShrinks
<1>1. Init => Counting
  BY MostRoundsNat DEF Init, Counting
<1>2. Inv /\ Counting /\ Inv' /\ Counting' /\ [Next]_vars =>
        [\A g \in Go : session[g] /\ session'[g] /\ ~AsksNew(g) =>
           /\ StepsLeft(g)' \in 0..StepsLeft(g)
           /\ Step(g) => StepsLeft(g)' # StepsLeft(g)]_vars
  BY ShrinksStep
<1> QED BY <1>1, <1>2, CountingStep, SessionInv, PTL DEF Spec, SessionShrinks

=============================================================================
