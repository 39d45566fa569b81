---------------------------- MODULE StudyQueue ----------------------------
(***************************************************************************)
(* The learning agent's study queue: the goroutines that run startStudy    *)
(* (internal/study/core.go), the cron job that starts them                 *)
(* (internal/job/lan/AutoStudyJob.go), the t_job rows that let a restarted *)
(* agent resume them (internal/service/JobService.go, loadJobs), and the   *)
(* "study right now" request that wakes a waiting one.                     *)
(*                                                                         *)
(* A Task is a goroutine of the ants pool together with the StudyingJob it *)
(* runs; t_user and t_job are functions from users and job ids.  Time is   *)
(* counted in hours; what the code does within the same hour (the one      *)
(* second and two minute delays) takes no time.                            *)
(***************************************************************************)
EXTENDS Integers, FiniteSets

CONSTANTS
  User,         \* ids of the rows of t_user
  OldUser,      \* the rows older than only_login_tag: alter table leaves it null in them
  Task,         \* goroutines: bounds how many studies run at once
  Job,          \* ids a row of t_job can have, numbers
  NoUser, NoTask, NoJob,
  Retry,        \* 1 hour: an unfinished study is started again after it
  Period,       \* 20 hours: a user is due again after it
  Day,          \* 24 hours
  FirstHour,    \* 6: the cron job fires from this hour of the day on
  MaxDelay,     \* 2 hours: the longest random delay before a study
  MaxTime,      \* bound on the clock
  MaxRequests,  \* bound on the "study right now" requests
  MaxCrashes,   \* bound on the crashes of the agent
  DbErrors      \* whether statements on the database may fail

ASSUME TimeAssumption ==
  /\ Retry \in Nat /\ Period \in Nat /\ Day \in Nat \ {0}
  /\ FirstHour \in Nat /\ MaxDelay \in Nat /\ MaxTime \in Nat
  /\ MaxRequests \in Nat /\ MaxCrashes \in Nat /\ DbErrors \in BOOLEAN

ASSUME OldUserAssumption == OldUser \subseteq User

ASSUME JobAssumption == Job \subseteq Nat

ASSUME AbsentAssumption == NoUser \notin User /\ NoTask \notin Task /\ NoJob \notin Job

VARIABLES
  now,
  \* t_user
  \* done stands for last_finish_time >= last_study_time and last_score >= 10
  lastStudy, done, status, onlyLogin,
  \* t_job, rows with status=1: the user of each row, NoUser when there is no such row
  jobs,
  \* the rows loadJobs has read and not yet started: the agent is starting up
  boot,
  \* core.go: the StudyingJob registered for each user
  studyUserMap,
  \* each goroutine: where it is, and the fields of its StudyingJob; at is user.LastStudyTime
  \* as it was read, then the time the timer runs out
  pc, user, job, at, immediately, startSignal, timer,
  \* the cron job: users still to handle of its two queries, what the queries
  \* returned, and the loop variable its closures share
  toStudy, toRetry, queried, loopUser,
  \* bounds
  requests, crashes,
  \* history: users with a study begun and not over, unless replacing its row was cut short
  owed

userVars == <<lastStudy, done, status, onlyLogin>>
sjVars   == <<user, job, at, immediately, startSignal, timer>>
cronVars == <<toStudy, toRetry, queried, loopUser>>
auxVars  == <<requests, crashes, owed>>
vars == <<now, userVars, jobs, boot, studyUserMap, pc, sjVars, cronVars, auxVars>>

Never == -1      \* a null time
\* mutant: the zero value, which UpdateNotZeroValue would not write
Expired_zero == 0
Expired == -1    \* the status of a user whose login is no longer good

(* Where a goroutine can be.  "closure": submitted, has not read its user. *)
(* "lookup": StartStudyRightNow; "delete", "save": StartStudy; the rest    *)
(* is startStudy, "leave" being its deferred function.                     *)
Outside    == {"idle", "closure", "lookup", "delete", "save", "register"}
Registered == {"open", "arm", "wait", "learn", "drop", "leave"}
Location   == Outside \cup Registered

TypeOK ==
  /\ now \in Nat
  /\ lastStudy \in [User -> Int] /\ done \in [User -> BOOLEAN]
  /\ status \in [User -> {1, -1}]
  /\ onlyLogin \in [User -> {"null", "no", "yes"}]
  /\ jobs \in [Job -> User \cup {NoUser}]
  /\ boot \in SUBSET Job
  /\ studyUserMap \in [User -> Task \cup {NoTask}]
  /\ pc \in [Task -> Location]
  /\ user \in [Task -> User \cup {NoUser}]
  /\ job \in [Task -> Job \cup {NoJob}]
  /\ at \in [Task -> Int]
  /\ immediately \in [Task -> BOOLEAN]
  /\ startSignal \in [Task -> {"nil", "open", "closed"}]
  /\ timer \in [Task -> {"nil", "armed", "stopped"}]
  /\ toStudy \in SUBSET User /\ toRetry \in SUBSET User
  /\ queried \in [User -> Int]
  /\ loopUser \in User \cup {NoUser}
  /\ requests \in Nat /\ crashes \in Nat
  /\ owed \in SUBSET User

-----------------------------------------------------------------------------
(* Helpers *)

Today == (now \div Day) * Day
SameDay(time) == time >= Today /\ time < Today + Day
Booted == boot = {}
Goto(t, l) == pc' = [pc EXCEPT ![t] = l]
HasRow(u) == \E j \in Job : jobs[j] = u
\* StartStudy is between its two transactions.
Replacing(u) == \E t \in Task : user[t] = u /\ pc[t] = "save"

\* Ids no row and no goroutine holds; zorm generates ids that are unique, and it does not
\* matter which one: the least, so that runs that differ in the ids alone are one run.
FreeJobs == {j \in Job : jobs[j] = NoUser /\ \A t \in Task : job[t] # j}
FreshJob(j) == j \in FreeJobs /\ \A i \in FreeJobs : j <= i

\* mutant: no test for null
DueToday_notNull(u) ==
  /\ lastStudy[u] # Never /\ lastStudy[u] < now - Period
  /\ status[u] > 0 /\ onlyLogin[u] = "no"

\* AutoStudyJob.go: the two queries of the cron job.
DueToday(u) ==
  /\ lastStudy[u] = Never \/ lastStudy[u] < now - Period
  /\ status[u] > 0 /\ onlyLogin[u] = "no"

Unfinished(u) ==
  /\ lastStudy[u] > Today /\ lastStudy[u] < now - Retry
  /\ ~done[u]
  /\ status[u] > 0 /\ onlyLogin[u] = "no"

\* mutant: a delay may lead into the next day
Delays_overnight(t) ==
  IF immediately[t] \/ SameDay(at[t]) THEN {0}
  ELSE {0} \cup {d \in 1..MaxDelay : now + d <= MaxTime}

\* core.go: how long startStudy waits, in hours.
Delays(t) ==
  IF immediately[t] \/ SameDay(at[t]) THEN {0}
  ELSE {0} \cup {d \in 1..MaxDelay : SameDay(now + d) /\ now + d <= MaxTime}

\* A goroutine of the pool starts on behalf of u; s is u's LastStudyTime as it was read.
Spawn(t, u, j, s, right_now, l) ==
  /\ user' = [user EXCEPT ![t] = u]
  /\ job' = [job EXCEPT ![t] = j]
  /\ at' = [at EXCEPT ![t] = s]
  /\ immediately' = [immediately EXCEPT ![t] = right_now]
  /\ Goto(t, l)
  /\ UNCHANGED <<startSignal, timer>>

\* A goroutine returns: its StudyingJob is garbage.
Return(t) ==
  /\ Goto(t, "idle")
  /\ user' = [user EXCEPT ![t] = NoUser]
  /\ job' = [job EXCEPT ![t] = NoJob]
  /\ at' = [at EXCEPT ![t] = Never]
  /\ immediately' = [immediately EXCEPT ![t] = FALSE]

Forget(t) ==
  /\ startSignal' = [startSignal EXCEPT ![t] = "nil"]
  /\ timer' = [timer EXCEPT ![t] = "nil"]

\* The transaction of a login that has expired (dealFailedToken, the cron job, doKeepAlive).
\* Its zorm.Delete goes by primary key, which is empty: no row of t_job goes.
Expires(u) ==
  \/ status' = [status EXCEPT ![u] = Expired]
  \/ DbErrors /\ UNCHANGED status

-----------------------------------------------------------------------------
Init ==
  /\ now = 0
  /\ lastStudy = [u \in User |-> Never] /\ done = [u \in User |-> FALSE]
  /\ status = [u \in User |-> 1]
  /\ onlyLogin = [u \in User |-> IF u \in OldUser THEN "null" ELSE "no"]
  /\ jobs = [j \in Job |-> NoUser]
  /\ boot = {}
  /\ studyUserMap = [u \in User |-> NoTask]
  /\ pc = [t \in Task |-> "idle"]
  /\ user = [t \in Task |-> NoUser] /\ job = [t \in Task |-> NoJob]
  /\ at = [t \in Task |-> Never] /\ immediately = [t \in Task |-> FALSE]
  /\ startSignal = [t \in Task |-> "nil"] /\ timer = [t \in Task |-> "nil"]
  /\ toStudy = {} /\ toRetry = {}
  /\ queried = [u \in User |-> Never] /\ loopUser = NoUser
  /\ requests = 0 /\ crashes = 0
  /\ owed = {}

-----------------------------------------------------------------------------
(* The cron job of InitAutoStudy *)

\* Both queries; the rows they return are the only ones the loop looks at.
CronFires ==
  /\ Booted
  /\ now % Day >= FirstHour
  /\ toStudy = {} /\ toRetry = {} /\ \A t \in Task : pc[t] # "closure"
  /\ toStudy' = {u \in User : DueToday(u)}
  /\ \/ toRetry' = {u \in User : Unfinished(u)}
     \/ DbErrors /\ toRetry' = {}
  /\ queried' = [u \in User |-> IF u \in toStudy' \cup toRetry' THEN lastStudy[u] ELSE Never]
  /\ loopUser' = NoUser
  /\ UNCHANGED <<now, userVars, jobs, boot, studyUserMap, pc, sjVars, auxVars>>

\* The loop moves its variable to the next user: the rows of the first query come first.
NextUser(u) ==
  /\ IF toStudy # {} THEN u \in toStudy ELSE u \in toRetry
  /\ IF toStudy # {} THEN toStudy' = toStudy \ {u} /\ UNCHANGED toRetry
                     ELSE toRetry' = toRetry \ {u} /\ UNCHANGED toStudy
  /\ loopUser' = u
  /\ UNCHANGED queried

\* Once the loop is over and its closures have run, the slice and the variable are garbage.
LoopOver(t) == toStudy = {} /\ toRetry = {} /\ \A x \in Task \ {t} : pc[x] # "closure"

\* The cookie is good: a closure is submitted, which reads the loop variable when it runs.
CronSubmits(u, t) ==
  /\ NextUser(u)
  /\ pc[t] = "idle" /\ Goto(t, "closure")
  /\ UNCHANGED <<now, userVars, jobs, boot, studyUserMap, sjVars, auxVars>>

\* The cookie is bad.
CronExpires(u) ==
  /\ NextUser(u)
  /\ Expires(u)
  /\ UNCHANGED <<now, lastStudy, done, onlyLogin, jobs, boot,
                 studyUserMap, pc, sjVars, auxVars>>

\* The closure runs: StartStudy on the user the loop variable holds by now.
ClosureRuns(t) ==
  /\ pc[t] = "closure"
  /\ Spawn(t, loopUser, NoJob, queried[loopUser], FALSE, "delete")
  /\ IF LoopOver(t) THEN queried' = [u \in User |-> Never] /\ loopUser' = NoUser
                    ELSE UNCHANGED <<queried, loopUser>>
  /\ UNCHANGED <<now, userVars, jobs, boot, studyUserMap, toStudy, toRetry, auxVars>>

-----------------------------------------------------------------------------
(* StartStudyRightNow *)

RightNowRequested(u, t) ==
  /\ Booted
  /\ requests < MaxRequests /\ requests' = requests + 1
  /\ pc[t] = "idle"
  /\ Spawn(t, u, NoJob, lastStudy[u], TRUE, "lookup")
  /\ UNCHANGED <<now, userVars, jobs, boot, studyUserMap, cronVars, crashes, owed>>

NobodyToWake(t) ==
  /\ pc[t] = "lookup" /\ studyUserMap[user[t]] = NoTask
  /\ Goto(t, "delete")
  /\ UNCHANGED <<now, userVars, jobs, boot, studyUserMap, sjVars, cronVars, auxVars>>

\* mutant: the timer is stopped and the channel left open
Signal_lost(v) == UNCHANGED startSignal

Signal(v) == startSignal' = [startSignal EXCEPT ![v] = "closed"]

\* close(sj.startSignal); sj.timer.Stop().  When the timer is not there yet, Stop may
\* still be reached after it has been set, and finds it then.
WakesWaiting(t) ==
  LET v == studyUserMap[user[t]] IN
  /\ pc[t] = "lookup" /\ v # NoTask
  /\ startSignal[v] = "open" /\ (timer[v] # "nil" \/ pc[v] = "arm")
  /\ Signal(v)
  /\ timer' = [timer EXCEPT ![v] = IF @ = "armed" THEN "stopped" ELSE @]
  /\ Goto(t, "delete")
  /\ UNCHANGED <<now, userVars, jobs, boot, studyUserMap, user, job, at, immediately,
                 cronVars, auxVars>>

\* Closing a closed or nil channel panics; so does stopping a timer that is not there,
\* after the channel was closed.  The pool recovers and the request is gone.
WakePanics(t) ==
  LET v == studyUserMap[user[t]] IN
  /\ pc[t] = "lookup" /\ v # NoTask
  /\ \/ startSignal[v] # "open" /\ UNCHANGED startSignal
     \/ startSignal[v] = "open" /\ timer[v] = "nil" /\ Signal(v)
  /\ Return(t)
  /\ UNCHANGED <<now, userVars, jobs, boot, studyUserMap, timer, cronVars, auxVars>>

-----------------------------------------------------------------------------
(* StartStudy: the row of t_job *)

\* JobService.DeleteByUserId
DeletesRows(t) ==
  /\ pc[t] = "delete"
  /\ \/ jobs' = [j \in Job |-> IF jobs[j] = user[t] THEN NoUser ELSE jobs[j]]
     \/ DbErrors /\ UNCHANGED jobs
  /\ Goto(t, "save")
  /\ UNCHANGED <<now, userVars, boot, studyUserMap, sjVars, cronVars, auxVars>>

\* JobService.Save; StartStudy ignores its error
SavesRow(t) ==
  /\ pc[t] = "save"
  /\ \/ \E j \in Job :
          /\ FreshJob(j)
          /\ jobs' = [jobs EXCEPT ![j] = user[t]]
          /\ job' = [job EXCEPT ![t] = j]
          /\ owed' = owed \cup {user[t]}
     \/ /\ DbErrors
        /\ owed' = {u \in owed : u # user[t] \/ HasRow(u)}
        /\ UNCHANGED <<jobs, job>>
  /\ Goto(t, "register")
  /\ UNCHANGED <<now, userVars, boot, studyUserMap, user, at, immediately, startSignal,
                 timer, cronVars, requests, crashes>>

-----------------------------------------------------------------------------
(* startStudy *)

Registers(t) ==
  /\ pc[t] = "register"
  /\ studyUserMap' = [studyUserMap EXCEPT ![user[t]] = t]
  /\ Goto(t, "open")
  /\ UNCHANGED <<now, userVars, jobs, boot, sjVars, cronVars, auxVars>>

\* The user's last study time is ahead: a study is scheduled already, wait for its time.
WaitsForSchedule(t) ==
  /\ pc[t] = "open" /\ at[t] > now
  /\ startSignal' = [startSignal EXCEPT ![t] = "open"]
  /\ timer' = [timer EXCEPT ![t] = "armed"]
  /\ Goto(t, "wait")
  /\ UNCHANGED <<now, userVars, jobs, boot, studyUserMap, user, job, at, immediately,
                 cronVars, auxVars>>

\* Otherwise draw a delay and record the time of the study in t_user ...
SchedulesStudy(t) ==
  /\ pc[t] = "open" /\ at[t] <= now
  /\ startSignal' = [startSignal EXCEPT ![t] = "open"]
  /\ \E d \in Delays(t) :
       /\ lastStudy' = [lastStudy EXCEPT ![user[t]] = now + d]
       /\ at' = [at EXCEPT ![t] = now + d]
  /\ done' = [done EXCEPT ![user[t]] = FALSE]
  /\ Goto(t, "arm")
  /\ UNCHANGED <<now, status, onlyLogin, jobs, boot, studyUserMap, user, job,
                 immediately, timer, cronVars, auxVars>>

\* ... returning when that fails ...
ScheduleFails(t) ==
  /\ DbErrors
  /\ pc[t] = "open" /\ at[t] <= now
  /\ startSignal' = [startSignal EXCEPT ![t] = "open"]
  /\ Goto(t, "leave")
  /\ UNCHANGED <<now, userVars, jobs, boot, studyUserMap, user, job, at, immediately,
                 timer, cronVars, auxVars>>

\* ... and set the timer.
ArmsTimer(t) ==
  /\ pc[t] = "arm"
  /\ timer' = [timer EXCEPT ![t] = "armed"]
  /\ Goto(t, "wait")
  /\ UNCHANGED <<now, userVars, jobs, boot, studyUserMap, user, job, at, immediately,
                 startSignal, cronVars, auxVars>>

TimerFired(t) == timer[t] = "armed" /\ at[t] <= now

Awake(t) == TimerFired(t) \/ startSignal[t] = "closed"

StartsLearning(t) ==
  /\ pc[t] = "wait" /\ Awake(t)
  /\ Goto(t, "learn")
  \* neither is read again
  /\ at' = [at EXCEPT ![t] = Never] /\ immediately' = [immediately EXCEPT ![t] = FALSE]
  /\ UNCHANGED <<now, userVars, jobs, boot, studyUserMap, user, job,
                 startSignal, timer, cronVars, auxVars>>

\* A study that was woken before its time finishes before last_study_time.
RecordsFinish(t) ==
  /\ pc[t] = "learn"
  /\ \E enough \in BOOLEAN :
       done' = [done EXCEPT ![user[t]] = enough /\ now >= lastStudy[user[t]]]
  /\ owed' = owed \ {user[t]}
  /\ Goto(t, "drop")
  /\ UNCHANGED <<now, lastStudy, status, onlyLogin, jobs, boot, studyUserMap, sjVars,
                 cronVars, requests, crashes>>

\* The last statement fails, or reading the score panics.
StudyFails(t) ==
  /\ pc[t] = "learn"
  /\ Goto(t, "leave")
  /\ UNCHANGED <<now, userVars, jobs, boot, studyUserMap, sjVars, cronVars, auxVars>>

\* dealFailedToken: whether its transaction goes through is not looked at.
TokenFails(t) ==
  /\ pc[t] = "learn"
  /\ Expires(user[t])
  /\ owed' = owed \ {user[t]}
  /\ Goto(t, "leave")
  /\ UNCHANGED <<now, lastStudy, done, onlyLogin, jobs, boot, studyUserMap,
                 sjVars, cronVars, requests, crashes>>

\* mutant: the rows of the user, as DeleteByUserId would delete them
WithoutRow_user(t) == [j \in Job |-> IF jobs[j] = user[t] THEN NoUser ELSE jobs[j]]

WithoutRow(t) == [j \in Job |-> IF j = job[t] THEN NoUser ELSE jobs[j]]

\* JobService.DeleteById: by the id of the goroutine's own job; an empty id is refused.
DropsRow(t) ==
  /\ pc[t] = "drop"
  /\ \/ jobs' = WithoutRow(t)
     \/ DbErrors /\ UNCHANGED jobs
  /\ Goto(t, "leave")
  /\ UNCHANGED <<now, userVars, boot, studyUserMap, sjVars, cronVars, auxVars>>

\* mutant: nothing is deleted when the study broke off
Unregister_finished(t) ==
  IF done[user[t]] THEN studyUserMap' = [studyUserMap EXCEPT ![user[t]] = NoTask]
                   ELSE UNCHANGED studyUserMap

\* The deferred delete goes by user id, whoever is registered there by now.
Unregister(t) == studyUserMap' = [studyUserMap EXCEPT ![user[t]] = NoTask]

Leaves(t) ==
  /\ pc[t] = "leave"
  /\ Unregister(t)
  /\ Return(t) /\ Forget(t)
  /\ UNCHANGED <<now, userVars, jobs, boot, cronVars, auxVars>>

-----------------------------------------------------------------------------
(* The rest of the agent, as far as it changes this state *)

\* UserService.UpdateByUid on a new login
LogsIn(u) ==
  /\ status[u] = Expired /\ status' = [status EXCEPT ![u] = 1]
  /\ UNCHANGED <<now, lastStudy, done, onlyLogin, jobs, boot,
                 studyUserMap, pc, sjVars, cronVars, auxVars>>

\* doKeepAlive could not read the score
KeepAliveFails(u) ==
  /\ Booted
  /\ status[u] = 1 /\ Expires(u)
  /\ UNCHANGED <<now, lastStudy, done, onlyLogin, jobs, boot,
                 studyUserMap, pc, sjVars, cronVars, auxVars>>

\* CommunicationJob.go: the only-login mark
TagsUser(u) ==
  /\ Booted
  /\ onlyLogin[u] # "yes" /\ onlyLogin' = [onlyLogin EXCEPT ![u] = "yes"]
  /\ UNCHANGED <<now, lastStudy, done, status, jobs, boot,
                 studyUserMap, pc, sjVars, cronVars, auxVars>>

\* ResetScoreJob.go
ResetsScores ==
  /\ Booted
  /\ now % Day = 0 /\ done' = [u \in User |-> FALSE]
  /\ UNCHANGED <<now, lastStudy, status, onlyLogin, jobs, boot,
                 studyUserMap, pc, sjVars, cronVars, auxVars>>

\* The process ends (os.Exit in Score, a fatal error, a kill) and its daemon starts it
\* again: memory is lost, and loadJobs reads the rows.
Crashes ==
  /\ crashes < MaxCrashes /\ crashes' = crashes + 1
  /\ boot' = {j \in Job : jobs[j] # NoUser}
  /\ studyUserMap' = [u \in User |-> NoTask]
  /\ pc' = [t \in Task |-> "idle"]
  /\ user' = [t \in Task |-> NoUser] /\ job' = [t \in Task |-> NoJob]
  /\ at' = [t \in Task |-> Never] /\ immediately' = [t \in Task |-> FALSE]
  /\ startSignal' = [t \in Task |-> "nil"] /\ timer' = [t \in Task |-> "nil"]
  /\ toStudy' = {} /\ toRetry' = {}
  /\ queried' = [u \in User |-> Never] /\ loopUser' = NoUser
  /\ owed' = {u \in owed : HasRow(u) \/ ~Replacing(u)}
  /\ UNCHANGED <<now, userVars, jobs, requests>>

\* loadJobs: one goroutine for each row, without deleting or saving one.  Its closure reads
\* the loop variable job; that it has done so before the loop moves on is trusted to the
\* second the loop sleeps, and reading here is the same.
LoadsJob(j, t) ==
  /\ j \in boot /\ boot' = boot \ {j}
  /\ pc[t] = "idle"
  /\ \/ Spawn(t, jobs[j], j, lastStudy[jobs[j]], FALSE, "register")
     \/ DbErrors /\ UNCHANGED <<pc, sjVars>>
  /\ UNCHANGED <<now, userVars, jobs, studyUserMap, cronVars, auxVars>>

Tick ==
  /\ now < MaxTime /\ now' = now + 1
  /\ UNCHANGED <<userVars, jobs, boot, studyUserMap, pc, sjVars, cronVars, auxVars>>

-----------------------------------------------------------------------------
TaskStep(t) ==
  \/ ClosureRuns(t)
  \/ NobodyToWake(t) \/ WakesWaiting(t) \/ WakePanics(t)
  \/ DeletesRows(t) \/ SavesRow(t)
  \/ Registers(t) \/ WaitsForSchedule(t) \/ SchedulesStudy(t) \/ ScheduleFails(t)
  \/ ArmsTimer(t) \/ StartsLearning(t)
  \/ RecordsFinish(t) \/ StudyFails(t) \/ TokenFails(t)
  \/ DropsRow(t) \/ Leaves(t)

CronStep == \E u \in User : CronExpires(u) \/ \E t \in Task : CronSubmits(u, t)

BootStep == \E j \in Job, t \in Task : LoadsJob(j, t)

Environment ==
  \/ \E u \in User : LogsIn(u) \/ KeepAliveFails(u) \/ TagsUser(u)
  \/ \E u \in User, t \in Task : RightNowRequested(u, t)
  \/ ResetsScores \/ Crashes

Next ==
  \/ \E t \in Task : TaskStep(t)
  \/ CronFires \/ CronStep \/ BootStep
  \/ Environment
  \/ Tick

Spec == Init /\ [][Next]_vars

(***************************************************************************)
(* Goroutines run, the clock advances, the cron job fires and its loop and *)
(* loadJobs go on.  Nothing is assumed of users, logins or crashes.        *)
(***************************************************************************)
Fairness ==
  /\ \A t \in Task : WF_vars(TaskStep(t))
  /\ WF_vars(CronFires) /\ WF_vars(CronStep) /\ WF_vars(BootStep)
  /\ WF_vars(Tick)

FairSpec == Spec /\ Fairness

-----------------------------------------------------------------------------
(* Properties *)

\* A goroutine that waits can be woken: its timer runs, or its start signal has been
\* given.  core.go closes the channel before it stops the timer, and either alone would
\* leave the study asleep for ever.
NoStrandedWait ==
  \A t \in Task : pc[t] = "wait" => timer[t] = "armed" \/ startSignal[t] = "closed"

\* studyUserMap never names a StudyingJob whose goroutine is gone: every return of
\* startStudy, the early ones included, unregisters, and none registers another's user.
MapEntryLive ==
  \A u \in User : studyUserMap[u] # NoTask =>
     user[studyUserMap[u]] = u /\ pc[studyUserMap[u]] \in Registered

\* A study that was begun and has neither finished nor failed has a row of t_job a
\* restarted agent resumes it from, except between the two transactions of StartStudy.
\* Only a crash there, or a Save that fails there, loses it.
StudyNeverForgotten ==
  \A u \in owed : HasRow(u) \/ Replacing(u)

\* Nobody sleeps longer than the longest delay, nor past midnight (to the hour), although
\* the time a study waits for may be read from a row long before, written by another study
\* since, or found after a crash.
WaitsBounded ==
  \A t \in Task : pc[t] = "wait" => at[t] <= now + MaxDelay /\ at[t] < Today + Day

\* core.go:218: a goroutine that returns deletes itself from the map, nobody else.
SelfRemovalOnly ==
  [][\A t \in Task, u \in User :
       pc[t] = "leave" /\ pc'[t] = "idle" /\ crashes' = crashes /\ studyUserMap[u] # t
       => studyUserMap'[u] = studyUserMap[u]]_vars

\* A study that waits is learnt and over in the end, whether its timer runs out, or requests
\* close its channel, stop the timer, panic halfway, or put another study of the same user
\* in its place in the map while it waits.
StudyEnds == \A t \in Task : pc[t] = "wait" ~> pc[t] = "idle"

\* A user who never studied, with a good login and no mark, is given a study by some
\* firing of the cron job, although its closures share the loop variable and one
\* firing may start another user's study twice instead.
EligibleGetsStudied ==
  \A u \in User :
    lastStudy[u] = Never /\ status[u] = 1 /\ onlyLogin[u] = "no"
      ~> lastStudy[u] # Never \/ status[u] = Expired \/ onlyLogin[u] = "yes"

=============================================================================
