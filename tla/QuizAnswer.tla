----------------------------- MODULE QuizAnswer -----------------------------
(***************************************************************************)
(* What startAnswer does with a question (internal/study/Answer.go): it    *)
(* looks, opens the tips, chooses what to answer by what the tips mark     *)
(* red, and ticks options one by one or fills blanks one by one.           *)
(* StudySession has each round of its loop as one step, without answers.   *)
(*                                                                         *)
(* A text is a short sequence of characters, of which the code tells       *)
(* spaces and commas from the others.  The page shows one question; what   *)
(* the site shows when it has been turned is not the code's.               *)
(***************************************************************************)
EXTENDS Integers, FiniteSets, SequencesExt

CONSTANTS
  Paper,       \* the questions a page may ask
  MaxRounds,   \* 30: rounds of the loop that bring no new question
  Fresh        \* the title before any question was seen

ASSUME RoundsAssumption == MaxRounds \in Nat \ {0}

ASSUME FreshAssumption == Fresh \notin Paper

Text == Seq(STRING)

ASSUME PaperAssumption ==
  Paper \subseteq [kind : {"multi", "single", "blank", "other"}, options : Seq(Text),
                   red : Seq(Text), blanks : Nat, bank : Text]

\* Options differ, if only by the letter before them.
ASSUME OptionsAssumption == \A q \in Paper : IsInjective(q.options)

VARIABLES
  question,    \* what the page asks
  page,        \* "asks", or "turned" to something else
  clicks,      \* how often each option was clicked
  filled,      \* the text in each blank
  \* startAnswer: where it is, its counter, the question last seen, what it answers, the
  \* option or blank it is at
  pc, i, title, answer, next

pageVars == <<question, page, clicks, filled>>
vars == <<pageVars, pc, i, title, answer, next>>

Init ==
  /\ question \in Paper /\ page = "asks"
  /\ clicks = [k \in DOMAIN question.options |-> 0]
  /\ filled = [k \in 1..question.blanks |-> <<>>]
  /\ pc = "round" /\ i = 0 /\ title = Fresh /\ answer = <<>> /\ next = 1

-----------------------------------------------------------------------------
(* Texts *)

Space == " "
Comma == ","
DontKnow == <<"?">>

NoSpaces(s) == SelectSeq(s, LAMBDA c : c # Space)

\* strings.Contains
PartOf(t, s) == \E k \in 0..(Len(s) - Len(t)) : SubSeq(s, k + 1, k + Len(t)) = t

\* getTips: what is marked red, without spaces and without what is empty then.
Tips ==
  LET Red(k) == NoSpaces(question.red[k])
      tips[k \in 0..Len(question.red)] ==
        IF k = 0 THEN <<>>
        ELSE IF Red(k) = <<>> THEN tips[k - 1] ELSE Append(tips[k - 1], Red(k))
  IN  tips[Len(question.red)]

\* mutant: nothing is left out
RemoveRepByLoop_none(slc) == slc

RemoveRepByLoop(slc) ==
  LET result[k \in 0..Len(slc)] ==
        IF k = 0 THEN <<>>
        ELSE IF Contains(result[k - 1], slc[k]) THEN result[k - 1] ELSE Append(result[k - 1], slc[k])
  IN  result[Len(slc)]

\* Every option as often as a tip is part of it; texts has the options as they are compared.
Hits(texts, tips) ==
  LET Times(k) == Cardinality({m \in DOMAIN tips : PartOf(tips[m], texts[k])})
  IN  FlattenSeq([k \in DOMAIN texts |-> [n \in 1..Times(k) |-> question.options[k]]])

\* The first field of strings.Split(s, ",").
FirstField(s) ==
  LET commas == {k \in 1..Len(s) : s[k] = Comma}
  IN  IF commas = {} THEN s ELSE SubSeq(s, 1, Min(commas) - 1)

-----------------------------------------------------------------------------
(* What is answered *)

\* mutant: an option is compared as it stands
MultiAnswer_raw ==
  LET hits == RemoveRepByLoop(Hits(question.options, Tips))
  IN  IF hits = <<>> THEN question.options ELSE hits

\* Several of the options: those with a tip in them, or all.
MultiAnswer ==
  LET texts == [k \in DOMAIN question.options |-> NoSpaces(question.options[k])]
      hits  == RemoveRepByLoop(Hits(texts, Tips))
  IN  IF hits = <<>> THEN question.options ELSE hits

\* One of the options: several tips are joined, an option is compared as it stands, and
\* the first is taken when nothing fits.
SingleAnswer ==
  LET tips == IF Len(Tips) > 1 THEN <<FlattenSeq(Tips)>> ELSE Tips
      hits == Hits(question.options, tips)
  IN  IF hits = <<>> THEN <<question.options[1]>> ELSE hits

\* mutant: several tips are joined whatever the number of blanks
BlankAnswer_joined ==
  CASE Tips = <<>>   -> <<IF question.bank = <<>> THEN DontKnow ELSE question.bank>>
    [] Len(Tips) > 1 -> <<FirstField(FlattenSeq(Tips))>>
    [] OTHER         -> Tips

\* FillBlank: the bank is asked when there is no tip; several tips for one blank are joined
\* and split at commas, and the blank gets the first part.
BlankAnswer ==
  CASE Tips = <<>>                            -> <<IF question.bank = <<>> THEN DontKnow
                                                                          ELSE question.bank>>
    [] Len(Tips) > 1 /\ question.blanks = 1   -> <<FirstField(FlattenSeq(Tips))>>
    [] OTHER                                  -> Tips

-----------------------------------------------------------------------------
(* The page *)

\* A second click takes a tick of a multiple choice off again.
Ticked == {k \in DOMAIN clicks : IF question.kind = "multi" THEN clicks[k] % 2 = 1
                                                            ELSE clicks[k] > 0}

\* The site lets a question go that has an answer.
CanTurn == IF question.kind = "blank" THEN \A k \in DOMAIN filled : filled[k] # <<>>
                                      ELSE Ticked # {}

\* The page after its button was clicked, which may fail.
Clicked == IF CanTurn THEN {page, "turned"} ELSE {page}

-----------------------------------------------------------------------------
(* A round of the loop *)

TypeOK ==
  /\ question \in Paper /\ page \in {"asks", "turned"}
  /\ clicks \in [DOMAIN question.options -> Nat]
  /\ DOMAIN filled = 1..question.blanks
  /\ pc \in {"round", "tips", "pick", "tick", "fill", "press", "score", "left", "panicked"}
  /\ i \in 0..MaxRounds
  /\ title \in {Fresh, question}
  /\ next \in 1..(1 + IF question.kind = "blank" THEN question.blanks ELSE Len(question.options))

Continues == pc' = "round" /\ i' = i + 1

\* mutant: the loop has no bound of its own
HeldUp_forever ==
  /\ pc = "round" /\ page' \in Clicked
  /\ Continues
  /\ UNCHANGED <<question, clicks, filled, title, answer, next>>

\* The slider is there, or the button does not say whether it can be clicked.
HeldUp ==
  /\ pc = "round" /\ i < MaxRounds /\ page' \in Clicked
  /\ Continues
  /\ UNCHANGED <<question, clicks, filled, title, answer, next>>

\* The page shows no question, or not yet.
SeesNone ==
  /\ pc = "round" /\ i < MaxRounds /\ page' \in Clicked
  /\ pc' = "score"
  /\ UNCHANGED <<question, clicks, filled, i, title, answer, next>>

SeesAgain ==
  /\ pc = "round" /\ i < MaxRounds /\ page' \in Clicked
  /\ page' = "asks" /\ title = question
  /\ Continues
  /\ UNCHANGED <<question, clicks, filled, title, answer, next>>

\* mutant: the title is not kept
SeesNew_forgets ==
  /\ pc = "round" /\ i < MaxRounds /\ page' \in Clicked
  /\ page' = "asks" /\ title # question
  /\ i' = 0 /\ pc' = "tips"
  /\ UNCHANGED <<question, clicks, filled, title, answer, next>>

\* From here on the question counts as seen, whatever becomes of it.
SeesNew ==
  /\ pc = "round" /\ i < MaxRounds /\ page' \in Clicked
  /\ page' = "asks" /\ title # question
  /\ title' = question /\ i' = 0 /\ pc' = "tips"
  /\ UNCHANGED <<question, clicks, filled, answer, next>>

OpensTips ==
  /\ pc = "tips" /\ pc' = "pick"
  /\ UNCHANGED <<pageVars, i, title, answer, next>>

\* They cannot be opened, read or closed again.
LosesTips ==
  /\ pc = "tips" /\ Continues
  /\ UNCHANGED <<pageVars, title, answer, next>>

Picks ==
  /\ pc = "pick" /\ next' = 1
  /\ \/ question.kind = "blank" /\ answer' = BlankAnswer /\ pc' = "fill"
     \/ question.kind = "multi" /\ answer' = MultiAnswer /\ pc' = "tick"
     \/ /\ question.kind = "single" /\ question.options # <<>>
        /\ answer' = SingleAnswer /\ pc' = "tick"
     \/ question.kind = "other" /\ answer' = <<>> /\ pc' = "score"
  /\ UNCHANGED <<pageVars, i, title>>

\* radioCheck: a click for every text of the answer that is the option's.
Ticks ==
  /\ pc = "tick" /\ next <= Len(question.options)
  /\ LET same == {m \in DOMAIN answer : answer[m] = question.options[next]}
     IN  clicks' = [clicks EXCEPT ![next] = @ + Cardinality(same)]
  /\ next' = next + 1
  /\ UNCHANGED <<question, page, filled, pc, i, title, answer>>

\* A Fill that fails is passed over.
Fills ==
  /\ pc = "fill" /\ next <= question.blanks
  /\ LET ans == IF Len(answer) < next THEN DontKnow ELSE answer[next]
     IN  filled' \in {filled, [filled EXCEPT ![next] = ans]}
  /\ next' = next + 1
  /\ UNCHANGED <<question, page, clicks, pc, i, title, answer>>

HasAnswered ==
  /\ \/ pc = "tick" /\ next > Len(question.options)
     \/ pc = "fill" /\ next > question.blanks
  /\ pc' = "press"
  /\ UNCHANGED <<pageVars, i, title, answer, next>>

\* checkNextBotton, which tells nobody whether it has clicked.
Presses ==
  /\ pc = "press" /\ pc' = "score"
  /\ page' \in Clicked
  /\ UNCHANGED <<question, clicks, filled, i, title, answer, next>>

\* The score can be read.
GoesOn ==
  /\ pc = "score" /\ Continues
  /\ UNCHANGED <<pageVars, title, answer, next>>

\* A score that is full or not there, an error of the page or of a click, the last round.
Leaves ==
  /\ pc \in {"round", "pick", "tick", "score"} /\ pc' = "left"
  /\ UNCHANGED <<pageVars, i, title, answer, next>>

\* options[0] of no options, btns[0] of no buttons, the text of an element that is nil.
Panics ==
  /\ \/ pc = "pick" /\ question.kind = "single" /\ question.options = <<>>
     \/ pc = "pick" /\ question.kind = "blank" /\ Tips = <<>>
     \/ pc \in {"round", "press"}
  /\ pc' = "panicked"
  /\ UNCHANGED <<pageVars, i, title, answer, next>>

Next ==
  \/ HeldUp \/ SeesNone \/ SeesAgain \/ SeesNew
  \/ OpensTips \/ LosesTips \/ Picks
  \/ Ticks \/ Fills \/ HasAnswered \/ Presses
  \/ GoesOn \/ Leaves \/ Panics

Spec == Init /\ [][Next]_vars

-----------------------------------------------------------------------------
(* Properties *)

\* However often the loop comes by a question and however many tips name an option, the
\* option is clicked once at most: a second click would take the tick off again.
ClickedOnce == \A k \in DOMAIN clicks : clicks[k] <= 1

\* The options some tip names, spaces aside, and those the joined tips name as they stand.
Named == {k \in DOMAIN question.options :
            \E t \in ToSet(Tips) : PartOf(t, NoSpaces(question.options[k]))}
Exact == {k \in DOMAIN question.options : PartOf(FlattenSeq(Tips), question.options[k])}

\* What is ticked when the button is pressed: of a multiple choice the options the tips
\* name, and of a single choice the one they name if it is only one; and never nothing,
\* which would leave the quiz at this question (Answer.go:507, :541).
TickedRight ==
  pc = "press" /\ question.options # <<>> =>
    /\ question.kind \in {"multi", "single"} => Ticked # {}
    /\ question.kind = "multi" /\ Named # {} => Ticked = Named
    /\ question.kind = "single" /\ Tips # <<>> /\ Cardinality(Exact) = 1 => Ticked = Exact

\* Blanks as many as tips get a tip each, in order; one blank gets all the tips, if there
\* is no comma in them.
BlanksRight ==
  pc = "press" /\ question.kind = "blank" =>
    \A k \in DOMAIN filled : filled[k] # <<>> =>
      /\ Len(Tips) = question.blanks => filled[k] = Tips[k]
      /\ question.blanks = 1 /\ Tips # <<>> /\ ~Contains(FlattenSeq(Tips), Comma)
           => filled[k] = FlattenSeq(Tips)

\* The session this quiz is the daily one of, as StudySession has it: "g" answers, and "h"
\* is the goroutine an Answer that panics is repeated by.
Working == pc \notin {"left", "panicked"}
InRound == pc = "round"

Both(atG, atH) == [x \in {"g", "h"} |-> IF x = "g" THEN atG ELSE atH]

callOf    == Both(IF Working THEN "daily" ELSE "special", IF pc = "panicked" THEN "daily" ELSE "none")
pcOf      == Both(IF Working THEN "work" ELSE "begin", IF pc = "panicked" THEN "begin" ELSE "idle")
sessionOf == Both(TRUE, FALSE)
iOf       == Both(IF Working THEN IF InRound THEN i ELSE i + 1 ELSE 0, 0)
titleOf   == Both(IF Working /\ title # Fresh THEN "seen" ELSE "none", "none")
heldOf    == Both(Working, FALSE)

Session == INSTANCE StudySession WITH
  Go <- {"g", "h"}, Question <- {"seen"}, NoQuestion <- "none",
  Rounds <- 0, Stuck <- MaxRounds, Reads <- 0, MaxSessions <- 1, MaxLeaks <- 0,
  connected <- TRUE, leaked <- 0, sessions <- 1, open <- IF Working THEN 1 ELSE 0,
  call <- callOf, pc <- pcOf, session <- sessionOf, i <- iOf, title <- titleOf, held <- heldOf

\* The loop, with everything it does about a question, takes only the steps StudySession
\* has for it: a round is one step there, and a question counts as seen once.
QuizSteps == [][Session!Next]_Session!vars

=============================================================================
