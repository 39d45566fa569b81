-------------------------- MODULE MCStudySession --------------------------
(* Instances of StudySession for TLC. *)
EXTENDS StudySession, TLC
=============================================================================
