----------------------------- MODULE Statistics -----------------------------
(***************************************************************************)
(* What the agent reports of a user (internal/service/                     *)
(* StatisticsService.go, GetStatisticsInfo): five queries, one after the   *)
(* other and in no transaction, for five lists of names.  Meanwhile the    *)
(* user's row is written by studies, logins and jobs.                      *)
(*                                                                         *)
(* Rows do not depend on each other, so there is one.  Studies of a user   *)
(* overlap and break off anywhere (StudyQueue): any of their transactions  *)
(* may come next.  A time is a tick; what was written at a tick is over    *)
(* when the clock is read again.                                           *)
(***************************************************************************)
EXTENDS Integers

CONSTANTS
  DayLength,   \* ticks of a day
  MaxWait,     \* bound on the delay drawn for a study (two hours in the code)
  LastTick     \* bound on the clock

ASSUME StatisticsAssumption ==
  DayLength \in Nat \ {0} /\ MaxWait \in Nat /\ LastTick \in Nat

VARIABLES
  clock, midnight,               \* the time, and when its day began
  study, finish, score,          \* t_user: last_study_time, last_finish_time, last_score > 0
  login,                         \* t_user.status
  hasJob,                        \* whether t_job has a row of the user
  asked,                         \* how many queries of the report have been made
  reported,                      \* the lists the user's name is in so far
  meanwhile                      \* history: what has happened since the first of them

timeVars   == <<clock, midnight>>
rowVars    == <<study, finish, score, login, hasJob>>
reportVars == <<asked, reported, meanwhile>>
statVars   == <<timeVars, rowVars, reportVars>>

Null == -1
Event == {"begins", "finishes", "expires", "reset", "midnight", "error"}
List == {"finished", "studying", "expired", "waiting", "notFinished"}
Query == <<"finished", "studying", "expired", "waiting", "notFinished">>

StatTypeOK ==
  /\ clock \in Nat /\ midnight \in Nat
  /\ study \in Nat \cup {Null} /\ finish \in Nat \cup {Null}
  /\ score \in BOOLEAN /\ login \in {1, -1} /\ hasJob \in BOOLEAN
  /\ asked \in 0..5 /\ reported \in SUBSET List
  /\ meanwhile \in SUBSET Event

\* A user who has logged in for the first time.
StatInit ==
  /\ clock = 0 /\ midnight = 0
  /\ study = Null /\ finish = Null /\ score = FALSE
  /\ login = 1 /\ hasJob = FALSE
  /\ asked = 0 /\ reported = {} /\ meanwhile = {}

Happens(e) ==
  /\ meanwhile' = IF asked \in 1..4 THEN meanwhile \cup {e} ELSE meanwhile
  /\ UNCHANGED <<asked, reported>>

-----------------------------------------------------------------------------
(* GetStatisticsInfo *)

\* mutant: any study time is one to wait for
Waiting_any == login > 0 /\ study # Null

Waiting == login > 0 /\ study # Null /\ (study < midnight \/ study > clock)

\* The condition of each query; a comparison with null is not true.
Selected(list) ==
  \/ list = "finished" /\ finish # Null /\ finish >= midnight /\ score
  \/ list = "studying" /\ hasJob /\ login = 1 /\ study # Null /\ study >= midnight /\ study <= clock
  \/ list = "expired" /\ login = -1
  \/ list = "waiting" /\ Waiting
  \/ list = "notFinished" /\ ~score

\* A query; one that fails is logged, and its list stays empty.
Asks ==
  /\ asked < 5 /\ asked' = asked + 1
  /\ \/ /\ reported' = reported \cup {l \in {Query[asked + 1]} : Selected(l)}
        /\ UNCHANGED meanwhile
     \/ /\ meanwhile' = meanwhile \cup {"error"}
        /\ UNCHANGED reported
  /\ UNCHANGED <<timeVars, rowVars>>

\* The lists are handed to the server, or to a page.
Reports ==
  /\ asked = 5 /\ asked' = 0 /\ reported' = {} /\ meanwhile' = {}
  /\ UNCHANGED <<timeVars, rowVars>>

-----------------------------------------------------------------------------
(* What writes the row *)

\* mutant: the score is left to the daily reset
BeginsStudy_keepsScore ==
  /\ \E d \in 0..MaxWait : clock + d < midnight + DayLength /\ study' = clock + d
  /\ UNCHANGED <<timeVars, score, finish, login, hasJob>>
  /\ Happens("begins")

\* startStudy schedules a study: the delay it draws stays within the day.
BeginsStudy ==
  /\ \E d \in 0..MaxWait : clock + d < midnight + DayLength /\ study' = clock + d
  /\ score' = FALSE
  /\ UNCHANGED <<timeVars, finish, login, hasJob>>
  /\ Happens("begins")

\* startStudy records its result; UpdateNotZeroValue does not write a score of zero.
FinishesStudy ==
  /\ study # Null
  /\ finish' = clock /\ score' \in {score, TRUE}
  /\ UNCHANGED <<timeVars, study, login, hasJob>>
  /\ Happens("finishes")

\* StartStudy deletes the user's rows and saves one; startStudy deletes its own.
WritesJob ==
  /\ hasJob' = ~hasJob
  /\ UNCHANGED <<timeVars, study, finish, score, login, reportVars>>

\* mutant: the zero value, which UpdateNotZeroValue would not write
ExpiresLogin_zero ==
  /\ login = 1 /\ login' = 0
  /\ UNCHANGED <<timeVars, study, finish, score, hasJob>>
  /\ Happens("expires")

\* dealFailedToken, the cron job, doKeepAlive.
ExpiresLogin ==
  /\ login = 1 /\ login' = -1
  /\ UNCHANGED <<timeVars, study, finish, score, hasJob>>
  /\ Happens("expires")

\* UpdateByUid
LogsInAgain ==
  /\ login = -1 /\ login' = 1
  /\ UNCHANGED <<timeVars, study, finish, score, hasJob, reportVars>>

\* ResetScoreJob.go, at midnight
ResetsScore ==
  /\ clock = midnight /\ score' = FALSE
  /\ UNCHANGED <<timeVars, study, finish, login, hasJob>>
  /\ Happens("reset")

TimePasses ==
  /\ clock < LastTick /\ clock' = clock + 1
  /\ IF clock' = midnight + DayLength
       THEN midnight' = clock' /\ Happens("midnight")
       ELSE UNCHANGED <<midnight, reportVars>>
  /\ UNCHANGED rowVars

StatNext ==
  \/ Asks \/ Reports
  \/ BeginsStudy \/ FinishesStudy \/ WritesJob
  \/ ExpiresLogin \/ LogsInAgain \/ ResetsScore
  \/ TimePasses

StatSpec == StatInit /\ [][StatNext]_statVars

-----------------------------------------------------------------------------
(* Properties *)

\* Everybody is in one of the five lists of a report, unless a study of theirs finished or
\* their login expired between two of its queries, or a query failed: no state of a row
\* falls between the conditions, and the order of the queries loses nobody else.
EveryoneReported ==
  asked = 5 /\ reported = {} => meanwhile \cap {"finishes", "expires", "error"} # {}

\* Nobody is in two lists that speak against each other, unless a study of theirs began,
\* or their score was reset or a day ended, between the queries.
NoContradiction ==
  /\ {"finished", "notFinished"} \subseteq reported => meanwhile \cap {"begins", "reset"} # {}
  /\ {"studying", "waiting"} \subseteq reported => meanwhile \cap {"begins", "midnight"} # {}

=============================================================================
