---------------------------- MODULE StudySession ----------------------------
(***************************************************************************)
(* What a goroutine of the study queue does while it learns, for one user  *)
(* (StudyQueue has it as the one location "learn"): startStudy calls Learn *)
(* for articles and videos, Answer for the daily and the special quiz and  *)
(* then Score (internal/study/core.go, Article.go, Video.go, Answer.go).   *)
(* An Answer that panics closes its page, starts another goroutine that    *)
(* answers again, and returns to the session, which goes on without it.    *)
(*                                                                         *)
(* What a score says is an arbitrary outcome of the step that reads it.    *)
(* Score reads it in a context of its own, closed when it returns; nothing *)
(* it does in between is seen by the others, and it is one step.  That a   *)
(* Close fails is logged and no more: the context stays open.              *)
(***************************************************************************)
EXTENDS Integers, FiniteSets

CONSTANTS
  Go,           \* goroutines: bounds the sessions and repeated answers at one time
  Question,     \* titles of the questions the site can show
  NoQuestion,
  Rounds,       \* 20: articles or videos of one call
  Stuck,        \* 30: rounds of a quiz that bring no new question
  Reads,        \* 5: further attempts to read the score at the end
  MaxSessions,  \* bound on the sessions begun in one life of the agent
  MaxLeaks      \* bound on the failures of AddInitScript and Close in one life of the agent

ASSUME GoAssumption == IsFiniteSet(Go)

ASSUME BoundAssumption ==
  /\ Rounds \in Nat /\ Stuck \in Nat \ {0} /\ Reads \in Nat
  /\ MaxSessions \in Nat /\ MaxLeaks \in Nat

ASSUME AbsentAssumption == NoQuestion \notin Question

VARIABLES
  connected,    \* browser.IsConnected()
  open,         \* contexts the browser has open
  \* each goroutine: the call it is in, where it is in it, whether it is startStudy's own
  call, pc, session,
  \* the local variables of the call: the loop counter, the question last seen
  i, title,
  \* the call has deferred the closing of its context
  held,
  \* history: contexts whose init script or Close failed, sessions begun
  leaked, sessions

callVars == <<call, pc, session, i, title>>
vars == <<connected, open, callVars, held, leaked, sessions>>

Learning  == {"article", "video"}
Answering == {"daily", "special"}

\* What startStudy calls after c.
Following ==
  [article |-> "video", video |-> "daily", daily |-> "special", special |-> "score",
   score |-> "none"]

TypeOK ==
  /\ connected \in BOOLEAN
  /\ open \in Nat
  /\ call \in [Go -> Learning \cup Answering \cup {"score", "none"}]
  /\ pc \in [Go -> {"idle", "begin", "open", "work"}]
  /\ session \in [Go -> BOOLEAN]
  /\ i \in [Go -> Nat]
  /\ title \in [Go -> Question \cup {NoQuestion}]
  /\ held \in [Go -> BOOLEAN]
  /\ leaked \in Nat /\ sessions \in Nat

Init ==
  /\ connected = TRUE /\ open = 0
  /\ call = [g \in Go |-> "none"] /\ pc = [g \in Go |-> "idle"]
  /\ session = [g \in Go |-> FALSE]
  /\ i = [g \in Go |-> 0] /\ title = [g \in Go |-> NoQuestion]
  /\ held = [g \in Go |-> FALSE]
  /\ leaked = 0 /\ sessions = 0

-----------------------------------------------------------------------------
(* Helpers *)

\* n contexts stay open that nobody is to close.
StayOpen(n) == connected /\ leaked + n <= MaxLeaks /\ leaked' = leaked + n

\* mutant: the page is closed, its context is not
Close_page(g) ==
  /\ held' = [held EXCEPT ![g] = FALSE]
  /\ UNCHANGED <<open, leaked>>

\* mutant: also when the call got no context
Close_always(g) ==
  /\ held' = [held EXCEPT ![g] = FALSE]
  /\ open' = IF connected THEN open - 1 ELSE open
  /\ UNCHANGED leaked

\* The deferred functions of a call: they close its context, or fail to.
Close(g) ==
  /\ held' = [held EXCEPT ![g] = FALSE]
  /\ \/ /\ open' = IF connected /\ held[g] THEN open - 1 ELSE open
        /\ UNCHANGED leaked
     \/ held[g] /\ StayOpen(1) /\ UNCHANGED open

\* The call of g is over: a session goes on with its next call, any other goroutine ends.
After(g) == IF session[g] THEN Following[call[g]] ELSE "none"

Returned(f, g) ==
  /\ call' = [f EXCEPT ![g] = After(g)]
  /\ session' = [session EXCEPT ![g] = After(g) # "none"]
  /\ i' = [i EXCEPT ![g] = 0]
  /\ title' = [title EXCEPT ![g] = NoQuestion]

Returns(g) ==
  /\ Close(g)
  /\ Returned(call, g)
  /\ pc' = [pc EXCEPT ![g] = IF After(g) = "none" THEN "idle" ELSE "begin"]
  /\ UNCHANGED <<connected, sessions>>

-----------------------------------------------------------------------------
(* Learn and Answer, up to their loops *)

\* startStudy is done waiting.
BeginsSession(g) ==
  /\ pc[g] = "idle"
  /\ sessions < MaxSessions /\ sessions' = sessions + 1
  /\ call' = [call EXCEPT ![g] = "article"] /\ pc' = [pc EXCEPT ![g] = "begin"]
  /\ session' = [session EXCEPT ![g] = TRUE]
  /\ UNCHANGED <<connected, open, i, title, held, leaked>>

\* No score (the browser may be gone), or, in Learn, the module's is full.
NothingToDo(g) ==
  /\ pc[g] = "begin" /\ call[g] # "score"
  /\ Returns(g)

FindsWork(g) ==
  /\ pc[g] = "begin" /\ call[g] # "score" /\ connected
  /\ pc' = [pc EXCEPT ![g] = "open"]
  /\ UNCHANGED <<connected, open, call, session, i, title, held, leaked, sessions>>

\* NewContext, AddInitScript, then the deferred Close, then the page.
OpensPage(g) ==
  /\ pc[g] = "open" /\ connected
  /\ open' = open + 1
  /\ held' = [held EXCEPT ![g] = TRUE] /\ pc' = [pc EXCEPT ![g] = "work"]
  /\ UNCHANGED <<connected, call, session, i, title, leaked, sessions>>

\* AddInitScript fails, and the Close of that context is not deferred yet.  It ends Learn
\* and Answer, and so it does in a Score they go by, the one at the beginning or after a
\* round: the call then closes its own context, if it has one, or fails to as well.
InitScriptFails(g) ==
  /\ pc[g] # "idle" /\ (call[g] = "score" => i[g] = Reads)
  /\ held' = [held EXCEPT ![g] = FALSE]
  /\ \/ StayOpen(1) /\ open' = IF held[g] THEN open ELSE open + 1
     \/ held[g] /\ StayOpen(2) /\ open' = open + 1
  /\ Returned(call, g)
  /\ pc' = [pc EXCEPT ![g] = IF After(g) = "none" THEN "idle" ELSE "begin"]
  /\ UNCHANGED <<connected, sessions>>

\* A Score on the way of a call, at its beginning or after a round, reads what it is to read
\* and fails to close its context; what the call does about the score is a step of its own.
ScoreLeaks(g) ==
  /\ pc[g] \in {"begin", "work"}
  /\ StayOpen(1) /\ open' = open + 1
  /\ UNCHANGED <<connected, callVars, held, sessions>>

\* Learn gets no context, or Answer sees that the browser is gone.
NoContext(g) ==
  /\ pc[g] = "open" /\ (call[g] \in Learning \/ ~connected)
  /\ Returns(g)

-----------------------------------------------------------------------------
(* startLearnArticle, startLearnVideo *)

\* No links, no article, or one read and more to do.
LearnsOne(g) ==
  /\ pc[g] = "work" /\ call[g] \in Learning /\ i[g] < Rounds
  /\ i' = [i EXCEPT ![g] = @ + 1]
  /\ UNCHANGED <<connected, open, call, pc, session, title, held, leaked, sessions>>

\* The score says enough, it cannot be read, the browser is gone, or it was the last round.
LearntEnough(g) ==
  /\ pc[g] = "work" /\ call[g] \in Learning
  /\ Returns(g)

-----------------------------------------------------------------------------
(* startAnswer *)

\* The question is the one of the last round, or there is none, or the slider is there.
SeesNothingNew(g) ==
  /\ pc[g] = "work" /\ call[g] \in Answering /\ connected /\ i[g] < Stuck
  /\ i' = [i EXCEPT ![g] = @ + 1]
  /\ UNCHANGED <<connected, open, call, pc, session, title, held, leaked, sessions>>

\* mutant: a question is new whatever the last one was
Answers_any(g) ==
  /\ pc[g] = "work" /\ call[g] \in Answering /\ connected /\ i[g] < Stuck
  /\ \E q \in Question : title' = [title EXCEPT ![g] = q]
  /\ i' = [i EXCEPT ![g] = 1]
  /\ UNCHANGED <<connected, open, call, pc, session, held, leaked, sessions>>

\* A new question starts the counter again; answered or not, one round is over.
Answers(g) ==
  /\ pc[g] = "work" /\ call[g] \in Answering /\ connected /\ i[g] < Stuck
  /\ \E q \in Question \ {title[g]} : title' = [title EXCEPT ![g] = q]
  /\ i' = [i EXCEPT ![g] = 1]
  /\ UNCHANGED <<connected, open, call, pc, session, held, leaked, sessions>>

\* The score is full or cannot be read, the page is not what it should be, the browser is
\* gone, or it was the last round.
AnsweredEnough(g) ==
  /\ pc[g] = "work" /\ call[g] \in Answering
  /\ Returns(g)

\* mutant: the attempt that panicked goes on, next to the one that replaces it
Replaces_both(g, h) ==
  /\ call' = [call EXCEPT ![h] = call[g]] /\ pc' = [pc EXCEPT ![h] = "begin"]
  /\ UNCHANGED <<open, held, leaked, session, i, title>>

\* mutant: the recovery answers again before the panicking call returns to its session
Replaces_inside(g, h) ==
  /\ Close(g)
  /\ pc' = [pc EXCEPT ![g] = "begin"]
  /\ i' = [i EXCEPT ![g] = 0] /\ title' = [title EXCEPT ![g] = NoQuestion]
  /\ UNCHANGED <<call, session>>

\* The deferred functions run last to first: the context is closed, then the recovery
\* submits the same Answer again.
Replaces(g, h) ==
  /\ Close(g)
  /\ Returned([call EXCEPT ![h] = call[g]], g)
  /\ pc' = [pc EXCEPT ![h] = "begin", ![g] = IF After(g) = "none" THEN "idle" ELSE "begin"]

\* No title under the question, no option, no button: a nil or an index out of range.
AnswerPanics(g, h) ==
  /\ pc[g] = "work" /\ call[g] \in Answering
  /\ pc[h] = "idle"
  /\ Replaces(g, h)
  /\ UNCHANGED <<connected, sessions>>

-----------------------------------------------------------------------------
(* The score at the end *)

\* It cannot be read, and there are attempts left.
ReadsAgain(g) ==
  /\ pc[g] = "begin" /\ call[g] = "score" /\ i[g] < Reads
  /\ i' = [i EXCEPT ![g] = @ + 1]
  /\ UNCHANGED <<connected, open, call, pc, session, title, held, leaked, sessions>>

\* The same, because of AddInitScript.
ReadLeaks(g) ==
  /\ StayOpen(1)
  /\ call[g] = "score" /\ i[g] < Reads
  /\ i' = [i EXCEPT ![g] = @ + 1] /\ open' = open + 1
  /\ UNCHANGED <<connected, call, pc, session, title, held, sessions>>

\* It was read, or it was the last attempt: the finish is recorded, or the login expires.
Concludes(g) ==
  /\ pc[g] = "begin" /\ call[g] = "score"
  /\ connected \/ i[g] = Reads
  /\ Returns(g)

-----------------------------------------------------------------------------
(* The browser and the process *)

\* Its contexts are gone with it; nothing starts another one.
BrowserDies ==
  /\ connected /\ connected' = FALSE
  /\ open' = 0
  /\ UNCHANGED <<callVars, held, leaked, sessions>>

\* Score and Answer end the process when they get no context or page; a new one begins,
\* with a new browser.
Exits(g) ==
  /\ connected
  /\ pc[g] # "idle" /\ (pc[g] = "open" => call[g] \in Answering)
  /\ connected' = TRUE /\ open' = 0
  /\ call' = [x \in Go |-> "none"] /\ pc' = [x \in Go |-> "idle"]
  /\ session' = [x \in Go |-> FALSE]
  /\ i' = [x \in Go |-> 0] /\ title' = [x \in Go |-> NoQuestion]
  /\ held' = [x \in Go |-> FALSE]
  /\ leaked' = 0 /\ sessions' = 0

-----------------------------------------------------------------------------
Step(g) ==
  \/ NothingToDo(g) \/ FindsWork(g)
  \/ OpensPage(g) \/ InitScriptFails(g) \/ NoContext(g)
  \/ LearnsOne(g) \/ LearntEnough(g)
  \/ SeesNothingNew(g) \/ Answers(g) \/ AnsweredEnough(g)
  \/ \E h \in Go : AnswerPanics(g, h)
  \/ ReadsAgain(g) \/ ReadLeaks(g) \/ Concludes(g)

Next ==
  \/ \E g \in Go : BeginsSession(g) \/ Step(g) \/ ScoreLeaks(g) \/ Exits(g)
  \/ BrowserDies

Spec == Init /\ [][Next]_vars

(* Goroutines run: what a call waits for in the browser is taken to return. *)
FairSpec == Spec /\ \A g \in Go : WF_vars(Step(g))

-----------------------------------------------------------------------------
(* Properties *)

\* Who has deferred a Close, and who answers the quiz k.
Holding == {g \in Go : held[g]}
Attempts(k) == {g \in Go : call[g] = k}

\* The contexts the browser has open are those some running call will close, one for each
\* time AddInitScript failed, where Learn, Answer and Score return before they defer the
\* Close, and one for each Close that failed, which is only logged (Article.go, Answer.go).
\* No panic, repetition or early return leaks another.
ContextsAccounted ==
  connected => open = Cardinality(Holding) + leaked

\* An Answer that panics is repeated after it has let go of its page, by a goroutine the
\* session does not wait for (Answer.go:175): however often that happens, one kind of
\* quiz is never answered by more goroutines than there have been sessions.
OneAttemptPerSession ==
  \A k \in Answering : Cardinality(Attempts(k)) <= sessions

\* The site shows the goroutine a question it has not just seen.
AsksNew(g) == title'[g] # title[g] /\ title'[g] # NoQuestion

\* How many steps a session can still take: for each call it has left, the way to its loop
\* and the rounds there.
CallsLeft == [article |-> 5, video |-> 4, daily |-> 3, special |-> 2, score |-> 1, none |-> 0]
Ahead     == [idle |-> 0, begin |-> 2, open |-> 1, work |-> 0]
MostRounds == Rounds + Stuck + Reads
StepsLeft(g) == CallsLeft[call[g]] * (MostRounds + 3) + Ahead[pc[g]] + MostRounds - i[g]

\* Between two new questions every step of a session is one less to take, and nothing any
\* other goroutine does, the Answers it repeats included, gives it one more: no call runs
\* twice in a session, and no counter is set back but by a question.
SessionShrinks ==
  [][\A g \in Go : session[g] /\ session'[g] /\ ~AsksNew(g) =>
       /\ StepsLeft(g)' \in 0..StepsLeft(g)
       /\ Step(g) => StepsLeft(g)' # StepsLeft(g)]_vars

\* A session ends, and leaves the study queue, unless a quiz brings new questions for
\* ever: rounds without one are counted, and a panicking Answer does not hold it up.
SessionEnds ==
  \A g \in Go : (session[g] ~> ~session[g]) \/ []<><<AsksNew(g)>>_vars

=============================================================================
