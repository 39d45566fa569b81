-------------------------- MODULE StatisticsProofs --------------------------
(***************************************************************************)
(* Nobody is lost between the five queries of a report, and nobody is in   *)
(* two lists that speak against each other, but for what happens to them   *)
(* meanwhile.                                                              *)
(***************************************************************************)
EXTENDS Statistics, TLAPS

\* A study is due before its day ends, and a score is of a study that finished no earlier
\* than the day it was due.
RowSound ==
  /\ midnight <= clock /\ clock < midnight + DayLength
  /\ study < midnight + DayLength
  /\ score => finish # Null /\ study # Null /\ (study >= midnight => finish >= midnight)

Excused == meanwhile \cap {"finishes", "expires", "error"} # {}

\* What is known of a user whom no query has found so far.
Overlooked ==
  reported = {} /\ ~Excused =>
    /\ asked \in 1..5 => ~score \/ finish < midnight
    /\ asked \in 3..5 => ~score \/ login = 1
    /\ asked \in 4..5 => ~score
    /\ asked # 5

\* What is known of a user who is in a list.
Found ==
  /\ asked = 0 => reported = {}
  /\ "studying" \in reported => asked >= 2
  /\ "finished" \in reported /\ asked # 5 => score \/ meanwhile \cap {"begins", "reset"} # {}
  /\ "studying" \in reported /\ asked # 5 =>
       \/ study >= midnight /\ study <= clock
       \/ meanwhile \cap {"begins", "midnight"} # {}
  /\ "waiting" \in reported => asked >= 4
  /\ "notFinished" \in reported => asked = 5

StatInv == StatTypeOK /\ RowSound /\ Overlooked /\ Found /\ NoContradiction

LEMMA StatInitInv == StatInit => StatInv
<1> SUFFICES ASSUME StatInit PROVE StatInv
  OBVIOUS
<1> USE StatisticsAssumption DEF StatInit
<1>1. StatTypeOK
  <2>1. score \in BOOLEAN /\ hasJob \in BOOLEAN
    OBVIOUS
  <2>2. /\ clock \in Nat /\ midnight \in Nat /\ study \in Nat \cup {Null} /\ finish \in Nat \cup {Null}
        /\ login \in {1, -1} /\ asked \in 0..5
    BY DEF Null
  <2> QED BY <2>1, <2>2 DEF StatTypeOK
<1>2. RowSound
  BY DEF RowSound, Null
<1>3. Overlooked /\ Found /\ NoContradiction
  BY DEF Overlooked, Found, NoContradiction
<1> QED BY <1>1, <1>2, <1>3 DEF StatInv

\* A query, of each of the five kinds.
LEMMA AsksInv == StatInv /\ Asks => StatInv'
<1> SUFFICES ASSUME StatInv, Asks PROVE StatInv'
  OBVIOUS
<1> DEFINE l == Query[asked + 1]
<1>1. /\ asked \in 0..4 /\ asked' = asked + 1
      /\ UNCHANGED <<clock, midnight, study, finish, score, login, hasJob>>
  BY DEF StatInv, StatTypeOK, Asks, timeVars, rowVars
<1>2. \/ Selected(l) /\ reported' = reported \cup {l} /\ meanwhile' = meanwhile
      \/ ~Selected(l) /\ reported' = reported /\ meanwhile' = meanwhile
      \/ reported' = reported /\ meanwhile' = meanwhile \cup {"error"}
  BY DEF Asks
<1>3. /\ l \in List
      /\ asked = 0 => l = "finished"
      /\ asked = 1 => l = "studying"
      /\ asked = 2 => l = "expired"
      /\ asked = 3 => l = "waiting"
      /\ asked = 4 => l = "notFinished"
  BY <1>1 DEF Query, List
<1> HIDE DEF l
<1>4. StatTypeOK'
  <2>1. reported' \in SUBSET List /\ meanwhile' \in SUBSET Event
    BY <1>2, <1>3 DEF StatInv, StatTypeOK, Event
  <2>2. asked' \in 0..5
    BY <1>1
  <2> QED BY <1>1, <2>1, <2>2 DEF StatInv, StatTypeOK
<1>5. RowSound'
  BY <1>1 DEF StatInv, RowSound
<1>6. Overlooked'
  <2>1. CASE asked = 0
    BY <1>1, <1>2, <1>3, <2>1 DEF StatInv, StatTypeOK, Overlooked, Excused, Selected, Null, RowSound
  <2>2. CASE asked = 1
    BY <1>1, <1>2, <1>3, <2>2 DEF StatInv, StatTypeOK, Overlooked, Excused
  <2>3. CASE asked = 2
    BY <1>1, <1>2, <1>3, <2>3 DEF StatInv, StatTypeOK, Overlooked, Excused, Selected
  <2>4. CASE asked = 3
    BY <1>1, <1>2, <1>3, <2>4
       DEF StatInv, StatTypeOK, Overlooked, Excused, Selected, Waiting, RowSound, Null
  <2>5. CASE asked = 4
    BY <1>1, <1>2, <1>3, <2>5 DEF StatInv, StatTypeOK, Overlooked, Excused, Selected
  <2> QED BY <1>1, <2>1, <2>2, <2>3, <2>4, <2>5
<1>7. Found' /\ NoContradiction'
  <2>1. CASE asked = 0
    BY <1>1, <1>2, <1>3, <2>1 DEF StatInv, StatTypeOK, Found, NoContradiction, Selected
  <2>2. CASE asked = 1
    BY <1>1, <1>2, <1>3, <2>2 DEF StatInv, StatTypeOK, Found, NoContradiction, Selected
  <2>3. CASE asked = 2
    BY <1>1, <1>2, <1>3, <2>3 DEF StatInv, StatTypeOK, Found, NoContradiction, Selected
  <2>4. CASE asked = 3
    BY <1>1, <1>2, <1>3, <2>4 DEF StatInv, StatTypeOK, Found, NoContradiction, Selected, Waiting
  <2>5. CASE asked = 4
    BY <1>1, <1>2, <1>3, <2>5 DEF StatInv, StatTypeOK, Found, NoContradiction, Selected
  <2> QED BY <1>1, <2>1, <2>2, <2>3, <2>4, <2>5
<1> QED BY <1>4, <1>5, <1>6, <1>7 DEF StatInv

\* What is noted of an event.
LEMMA Noted ==
  ASSUME StatTypeOK, NEW e \in Event, Happens(e)
  PROVE  /\ asked' = asked /\ reported' = reported
         /\ meanwhile \subseteq meanwhile' /\ meanwhile' \subseteq meanwhile \cup {e}
         /\ asked \in 1..4 => e \in meanwhile'
         /\ asked \in {0, 5} => meanwhile' = meanwhile
BY DEF StatTypeOK, Happens

LEMMA StatStepInv == StatInv /\ [StatNext]_statVars => StatInv'
<1> SUFFICES ASSUME StatInv, [StatNext]_statVars PROVE StatInv'
  OBVIOUS
<1>0. StatTypeOK
  BY DEF StatInv
<1> USE StatisticsAssumption
<1>1. CASE Asks
  BY <1>1, AsksInv
<1>2. CASE Reports
  <2>1. /\ asked' = 0 /\ reported' = {} /\ meanwhile' = {}
        /\ UNCHANGED <<clock, midnight, study, finish, score, login, hasJob>>
    BY <1>2 DEF Reports, timeVars, rowVars
  <2> QED BY <2>1 DEF StatInv, StatTypeOK, RowSound, Overlooked, Found, NoContradiction
<1>3. CASE BeginsStudy
  <2>1. PICK d \in 0..MaxWait : clock + d < midnight + DayLength /\ study' = clock + d
    BY <1>3 DEF BeginsStudy
  <2>2. score' = FALSE /\ UNCHANGED <<clock, midnight, finish, login, hasJob>>
    BY <1>3 DEF BeginsStudy, timeVars
  <2>3. "begins" \in Event /\ Happens("begins")
    BY <1>3 DEF BeginsStudy, Event
  <2>4. StatTypeOK' /\ RowSound'
    <3>1. score' \in BOOLEAN /\ hasJob' \in BOOLEAN
      BY <1>0, <2>2 DEF StatTypeOK
    <3>2. study' \in Nat /\ study' < midnight + DayLength
      BY <1>0, <2>1 DEF StatTypeOK
    <3>3. asked' \in 0..5 /\ reported' \in SUBSET List /\ meanwhile' \in SUBSET Event
      BY <1>0, <2>3, Noted DEF StatTypeOK
    <3>4. StatTypeOK'
      BY <1>0, <2>2, <3>1, <3>2, <3>3 DEF StatTypeOK
    <3>5. RowSound'
      BY <2>2, <3>2 DEF StatInv, RowSound
    <3> QED BY <3>4, <3>5
  <2>5. Overlooked' /\ Found' /\ NoContradiction'
    BY <1>0, <2>2, <2>3, Noted DEF StatInv, StatTypeOK, Overlooked, Excused, Found, NoContradiction
  <2> QED BY <2>4, <2>5 DEF StatInv
<1>4. CASE FinishesStudy
  <2>0. score \in BOOLEAN /\ score' \in {score, TRUE}
    BY <1>0, <1>4 DEF FinishesStudy, StatTypeOK
  <2>1. /\ study # Null /\ finish' = clock /\ score' \in BOOLEAN
        /\ UNCHANGED <<clock, midnight, study, login, hasJob>>
        /\ score => score'
    BY <1>4, <2>0 DEF FinishesStudy, timeVars
  <2>2. "finishes" \in Event /\ Happens("finishes")
    BY <1>4 DEF FinishesStudy, Event
  <2>4. StatTypeOK' /\ RowSound'
    BY <1>0, <2>1, <2>2, Noted DEF StatInv, StatTypeOK, RowSound, Null
  <2>5. Overlooked'
    BY <1>0, <2>1, <2>2, Noted DEF StatInv, StatTypeOK, Overlooked, Excused
  <2>6. Found' /\ NoContradiction'
    BY <1>0, <2>1, <2>2, Noted DEF StatInv, StatTypeOK, Found, NoContradiction
  <2> QED BY <2>4, <2>5, <2>6 DEF StatInv
<1>5. CASE WritesJob
  BY <1>5 DEF WritesJob, timeVars, reportVars, StatInv, StatTypeOK, RowSound, Overlooked,
              Excused, Found, NoContradiction
<1>6. CASE ExpiresLogin
  <2>1. login' = -1 /\ UNCHANGED <<clock, midnight, study, finish, score, hasJob>>
    BY <1>6 DEF ExpiresLogin, timeVars
  <2>2. "expires" \in Event /\ Happens("expires")
    BY <1>6 DEF ExpiresLogin, Event
  <2>3. StatTypeOK' /\ RowSound'
    BY <1>0, <2>1, <2>2, Noted DEF StatInv, StatTypeOK, RowSound
  <2>4. Overlooked' /\ Found' /\ NoContradiction'
    BY <1>0, <2>1, <2>2, Noted DEF StatInv, StatTypeOK, Overlooked, Excused, Found, NoContradiction
  <2> QED BY <2>3, <2>4 DEF StatInv
<1>7. CASE LogsInAgain
  BY <1>7 DEF LogsInAgain, timeVars, reportVars, StatInv, StatTypeOK, RowSound, Overlooked,
              Excused, Found, NoContradiction
<1>8. CASE ResetsScore
  <2>1. score' = FALSE /\ UNCHANGED <<clock, midnight, study, finish, login, hasJob>>
    BY <1>8 DEF ResetsScore, timeVars
  <2>2. "reset" \in Event /\ Happens("reset")
    BY <1>8 DEF ResetsScore, Event
  <2>3. StatTypeOK' /\ RowSound'
    BY <1>0, <2>1, <2>2, Noted DEF StatInv, StatTypeOK, RowSound
  <2>4. Overlooked' /\ Found' /\ NoContradiction'
    BY <1>0, <2>1, <2>2, Noted DEF StatInv, StatTypeOK, Overlooked, Excused, Found, NoContradiction
  <2> QED BY <2>3, <2>4 DEF StatInv
<1>9. CASE TimePasses
  <2>1. clock' = clock + 1 /\ UNCHANGED <<study, finish, score, login, hasJob>>
    BY <1>9 DEF TimePasses, rowVars
  <2>2. CASE clock + 1 = midnight + DayLength
    <3>1. midnight' = clock + 1 /\ "midnight" \in Event /\ Happens("midnight")
      BY <1>9, <2>1, <2>2 DEF TimePasses, Event
    <3>2. StatTypeOK' /\ RowSound'
      BY <1>0, <2>1, <2>2, <3>1, Noted DEF StatInv, StatTypeOK, RowSound, Null
    <3>3. Overlooked'
      BY <1>0, <2>1, <2>2, <3>1, Noted DEF StatInv, StatTypeOK, RowSound, Overlooked, Excused, Null
    <3>4. Found' /\ NoContradiction'
      BY <1>0, <2>1, <2>2, <3>1, Noted DEF StatInv, StatTypeOK, RowSound, Found, NoContradiction, Null
    <3> QED BY <3>2, <3>3, <3>4 DEF StatInv
  <2>3. CASE clock + 1 # midnight + DayLength
    <3>1. UNCHANGED <<midnight, asked, reported, meanwhile>>
      BY <1>9, <2>1, <2>3 DEF TimePasses, reportVars
    <3>2. StatTypeOK' /\ RowSound'
      BY <2>1, <2>3, <3>1 DEF StatInv, StatTypeOK, RowSound
    <3>3. Overlooked' /\ Found' /\ NoContradiction'
      BY <2>1, <3>1 DEF StatInv, StatTypeOK, Overlooked, Excused, Found, NoContradiction, Null
    <3> QED BY <3>2, <3>3 DEF StatInv
  <2> QED BY <2>2, <2>3
<1>10. CASE UNCHANGED statVars
  BY <1>10 DEF statVars, timeVars, rowVars, reportVars, StatInv, StatTypeOK, RowSound,
               Overlooked, Excused, Found, NoContradiction
<1> QED BY <1>1, <1>2, <1>3, <1>4, <1>5, <1>6, <1>7, <1>8, <1>9, <1>10 DEF StatNext

\* The report and the row are well typed, whatever writes the row between the queries.
THEOREM ReportTypeOK == StatSpec => []StatTypeOK
BY StatInitInv, StatStepInv, PTL DEF StatSpec, StatInv

\* A report misses nobody whose study did not finish and whose login did not expire while it
\* was made, for days and delays of any length.
THEOREM ReportMissesNobody == StatSpec => []EveryoneReported
<1>1. StatInv => EveryoneReported
  BY DEF StatInv, Overlooked, Excused, EveryoneReported
<1> QED BY <1>1, StatInitInv, StatStepInv, PTL DEF StatSpec

\* A report has nobody in two lists that speak against each other whose study did not begin
\* and whose score and day did not end while it was made.
THEOREM ReportNoContradiction == StatSpec => []NoContradiction
<1>1. StatInv => NoContradiction
  BY DEF StatInv
<1> QED BY <1>1, StatInitInv, StatStepInv, PTL DEF StatSpec

=============================================================================
