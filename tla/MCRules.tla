------------------------------ MODULE MCRules ------------------------------
(***************************************************************************)
(* The rules the program decides by, for TLC: what is answered to every    *)
(* short question of a few texts, what version is newer, and in which list *)
(* of a report a user is.  They have nothing to do with each other: once a *)
(* question without an answer is left, versions are compared or reports    *)
(* are made.                                                               *)
(***************************************************************************)
EXTENDS QuizAnswer, VersionCompare, Statistics

Options == SetToAllKPermutations({<<"a">>, <<"a", " ", "b">>, <<"b">>})
Reds == BoundedSeq({<<"a">>, <<"b">>, <<"a", " ", "b">>, <<" ">>}, 2)
Marks == BoundedSeq({<<"a">>, <<"b", ",", "a">>, <<" ">>}, 3)

AllQuestions ==
  [kind : {"multi", "single"}, options : Options, red : Reds, blanks : {0}, bank : {<<>>}]
  \cup [kind : {"blank"}, options : {<<>>}, red : Marks, blanks : 1..3, bank : {<<>>, <<"k">>}]
  \cup [kind : {"other"}, options : {<<>>}, red : {<<>>}, blanks : {0}, bank : {<<>>}]

RulesInit ==
  /\ Init /\ UpdateInit /\ StatInit
  /\ version # NoVersion => question.kind = "other"

Left == question.kind = "other" /\ pc = "left" /\ i = 0 /\ title = Fresh

RulesNext ==
  \/ Next /\ UNCHANGED <<updateVars, statVars>>
  \/ Left /\ StatInit /\ ChecksUpdate /\ UNCHANGED <<vars, statVars>>
  \/ Left /\ version = NoVersion /\ latest = NoVersion /\ StatNext /\ UNCHANGED <<vars, updateVars>>

RulesSpec == RulesInit /\ [][RulesNext]_<<vars, updateVars, statVars>>
=============================================================================
