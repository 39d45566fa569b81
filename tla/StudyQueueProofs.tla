------------------------- MODULE StudyQueueProofs -------------------------
(***************************************************************************)
(* What holds of StudyQueue for every set of users, goroutines and rows,   *)
(* every clock and every bound, with failing statements or without.        *)
(*                                                                         *)
(* Started is the inductive core: types, and who has a user to speak of.   *)
(* A closure that runs finds the loop variable set, and while loadJobs     *)
(* still has rows to start nothing runs that could delete one of them.     *)
(***************************************************************************)
EXTENDS StudyQueue, TLAPS

\* A goroutine past its closure works for a user; a closure has one to read.
HasUser ==
  /\ \A t \in Task : pc[t] \notin {"idle", "closure"} => user[t] \in User
  /\ \A t \in Task : pc[t] = "closure" => loopUser \in User

\* Rows loadJobs has still to start are there, and nobody else's.
Starting ==
  /\ \A j \in boot : jobs[j] \in User
  /\ \A t \in Task : job[t] \notin boot
  /\ boot # {} =>
       /\ toStudy = {} /\ toRetry = {}
       /\ \A t \in Task : pc[t] \notin {"closure", "lookup", "delete", "save"}

Started == TypeOK /\ HasUser /\ Starting

\* At first nobody runs, so every type and every user is as the theorems need it.
LEMMA StartedInit == Init => Started
BY TimeAssumption, OldUserAssumption, AbsentAssumption
DEF Init, Started, TypeOK, HasUser, Starting, Never, Location, Outside

USE DEF Never, Expired, Location, Outside, Registered

LEMMA CronStarted ==
  ASSUME Started, CronFires \/ CronStep \/ BootStep
  PROVE  Started'
<1> USE TimeAssumption, AbsentAssumption DEF userVars, sjVars, cronVars, auxVars, Goto
<1>1. CASE CronFires
  <2>1. TypeOK'
    BY <1>1 DEF Started, TypeOK, CronFires
  <2>2. HasUser' /\ Starting'
    BY <1>1 DEF Started, TypeOK, HasUser, Starting, CronFires, Booted
  <2> QED BY <2>1, <2>2 DEF Started
<1>2. ASSUME NEW u \in User, CronExpires(u)
      PROVE  Started'
  <2>1. TypeOK'
    BY <1>2 DEF Started, TypeOK, CronExpires, NextUser, Expires
  <2>2. HasUser' /\ Starting'
    BY <1>2 DEF Started, TypeOK, HasUser, Starting, CronExpires, NextUser
  <2> QED BY <2>1, <2>2 DEF Started
<1>3. ASSUME NEW u \in User, NEW t \in Task, CronSubmits(u, t)
      PROVE  Started'
  <2>1. TypeOK'
    BY <1>3 DEF Started, TypeOK, CronSubmits, NextUser
  <2>2. HasUser' /\ Starting'
    BY <1>3 DEF Started, TypeOK, HasUser, Starting, CronSubmits, NextUser
  <2> QED BY <2>1, <2>2 DEF Started
<1>4. ASSUME NEW j \in Job, NEW t \in Task, LoadsJob(j, t)
      PROVE  Started'
  <2>1. jobs[j] \in User /\ lastStudy[jobs[j]] \in Int
    BY <1>4 DEF Started, TypeOK, Starting, LoadsJob
  <2>2. TypeOK'
    <3>1. CASE Spawn(t, jobs[j], j, lastStudy[jobs[j]], FALSE, "register")
      BY <1>4, <2>1, <3>1 DEF Started, TypeOK, LoadsJob, Spawn
    <3>2. CASE UNCHANGED <<pc, sjVars>>
      BY <1>4, <3>2 DEF Started, TypeOK, LoadsJob
    <3> QED BY <1>4, <3>1, <3>2 DEF LoadsJob
  <2>3. HasUser'
    BY <1>4, <2>1 DEF Started, TypeOK, HasUser, LoadsJob, Spawn
  <2>4. Starting'
    BY <1>4, <2>1 DEF Started, TypeOK, Starting, LoadsJob, Spawn
  <2> QED BY <2>2, <2>3, <2>4 DEF Started
<1> QED BY <1>1, <1>2, <1>3, <1>4 DEF CronStep, BootStep

LEMMA TaskStarted ==
  ASSUME Started, NEW t \in Task, TaskStep(t)
  PROVE  Started'
<1> USE TimeAssumption, AbsentAssumption DEF userVars, sjVars, cronVars, auxVars, Goto
<1>1. CASE ClosureRuns(t)
  <2>1. TypeOK'
    BY <1>1 DEF Started, TypeOK, HasUser, ClosureRuns, Spawn, LoopOver
  <2>2. HasUser' /\ Starting'
    BY <1>1 DEF Started, TypeOK, HasUser, Starting, ClosureRuns, Spawn, LoopOver
  <2> QED BY <2>1, <2>2 DEF Started
<1>2. CASE NobodyToWake(t)
  <2>1. TypeOK'
    BY <1>2 DEF Started, TypeOK, HasUser, NobodyToWake
  <2>2. HasUser' /\ Starting'
    BY <1>2 DEF Started, TypeOK, HasUser, Starting, NobodyToWake
  <2> QED BY <2>1, <2>2 DEF Started
<1>3. CASE WakesWaiting(t)
  <2>1. TypeOK'
    BY <1>3 DEF Started, TypeOK, HasUser, WakesWaiting, Signal
  <2>2. HasUser' /\ Starting'
    BY <1>3 DEF Started, TypeOK, HasUser, Starting, WakesWaiting, Signal
  <2> QED BY <2>1, <2>2 DEF Started
<1>4. CASE WakePanics(t)
  <2>1. TypeOK'
    BY <1>4 DEF Started, TypeOK, HasUser, WakePanics, Signal, Return
  <2>2. HasUser' /\ Starting'
    BY <1>4 DEF Started, TypeOK, HasUser, Starting, WakePanics, Signal, Return
  <2> QED BY <2>1, <2>2 DEF Started
<1>5. CASE DeletesRows(t)
  <2>1. TypeOK'
    BY <1>5 DEF Started, TypeOK, HasUser, DeletesRows
  <2>2. HasUser' /\ Starting'
    BY <1>5 DEF Started, TypeOK, HasUser, Starting, DeletesRows
  <2> QED BY <2>1, <2>2 DEF Started
<1>6. CASE SavesRow(t)
  <2>1. TypeOK'
    BY <1>6 DEF Started, TypeOK, HasUser, SavesRow, FreshJob, FreeJobs, HasRow
  <2>2. HasUser' /\ Starting'
    BY <1>6 DEF Started, TypeOK, HasUser, Starting, SavesRow, FreshJob, FreeJobs, HasRow
  <2> QED BY <2>1, <2>2 DEF Started
<1>7. CASE Registers(t)
  <2>1. TypeOK'
    BY <1>7 DEF Started, TypeOK, HasUser, Registers
  <2>2. HasUser' /\ Starting'
    BY <1>7 DEF Started, TypeOK, HasUser, Starting, Registers
  <2> QED BY <2>1, <2>2 DEF Started
<1>8. CASE WaitsForSchedule(t)
  <2>1. TypeOK'
    BY <1>8 DEF Started, TypeOK, HasUser, WaitsForSchedule
  <2>2. HasUser' /\ Starting'
    BY <1>8 DEF Started, TypeOK, HasUser, Starting, WaitsForSchedule
  <2> QED BY <2>1, <2>2 DEF Started
<1>9. CASE SchedulesStudy(t)
  <2>1. TypeOK'
    BY <1>9 DEF Started, TypeOK, HasUser, SchedulesStudy, Delays
  <2>2. HasUser' /\ Starting'
    BY <1>9 DEF Started, TypeOK, HasUser, Starting, SchedulesStudy, Delays
  <2> QED BY <2>1, <2>2 DEF Started
<1>10. CASE ScheduleFails(t)
  <2>1. TypeOK'
    BY <1>10 DEF Started, TypeOK, HasUser, ScheduleFails
  <2>2. HasUser' /\ Starting'
    BY <1>10 DEF Started, TypeOK, HasUser, Starting, ScheduleFails
  <2> QED BY <2>1, <2>2 DEF Started
<1>11. CASE ArmsTimer(t)
  <2>1. TypeOK'
    BY <1>11 DEF Started, TypeOK, HasUser, ArmsTimer
  <2>2. HasUser' /\ Starting'
    BY <1>11 DEF Started, TypeOK, HasUser, Starting, ArmsTimer
  <2> QED BY <2>1, <2>2 DEF Started
<1>12. CASE StartsLearning(t)
  <2>1. TypeOK'
    BY <1>12 DEF Started, TypeOK, HasUser, StartsLearning
  <2>2. HasUser' /\ Starting'
    BY <1>12 DEF Started, TypeOK, HasUser, Starting, StartsLearning
  <2> QED BY <2>1, <2>2 DEF Started
<1>13. CASE RecordsFinish(t)
  <2>1. TypeOK'
    BY <1>13 DEF Started, TypeOK, HasUser, RecordsFinish
  <2>2. HasUser' /\ Starting'
    BY <1>13 DEF Started, TypeOK, HasUser, Starting, RecordsFinish
  <2> QED BY <2>1, <2>2 DEF Started
<1>14. CASE StudyFails(t)
  <2>1. TypeOK'
    BY <1>14 DEF Started, TypeOK, HasUser, StudyFails
  <2>2. HasUser' /\ Starting'
    BY <1>14 DEF Started, TypeOK, HasUser, Starting, StudyFails
  <2> QED BY <2>1, <2>2 DEF Started
<1>15. CASE TokenFails(t)
  <2>1. TypeOK'
    BY <1>15 DEF Started, TypeOK, HasUser, TokenFails, Expires
  <2>2. HasUser' /\ Starting'
    BY <1>15 DEF Started, TypeOK, HasUser, Starting, TokenFails, Expires
  <2> QED BY <2>1, <2>2 DEF Started
<1>16. CASE DropsRow(t)
  <2>1. TypeOK'
    BY <1>16 DEF Started, TypeOK, HasUser, DropsRow, WithoutRow
  <2>2. HasUser' /\ Starting'
    BY <1>16 DEF Started, TypeOK, HasUser, Starting, DropsRow, WithoutRow
  <2> QED BY <2>1, <2>2 DEF Started
<1>17. CASE Leaves(t)
  <2>1. TypeOK'
    BY <1>17 DEF Started, TypeOK, HasUser, Leaves, Unregister, Return, Forget
  <2>2. HasUser' /\ Starting'
    BY <1>17 DEF Started, TypeOK, HasUser, Starting, Leaves, Unregister, Return, Forget
  <2> QED BY <2>1, <2>2 DEF Started
<1> QED
  BY <1>1, <1>2, <1>3, <1>4, <1>5, <1>6, <1>7, <1>8, <1>9, <1>10, <1>11, <1>12, <1>13, <1>14, <1>15, <1>16, <1>17 DEF TaskStep

LEMMA OthersStarted ==
  ASSUME Started, Environment \/ Tick
  PROVE  Started'
<1> USE TimeAssumption, AbsentAssumption DEF userVars, sjVars, cronVars, auxVars, Goto
<1>1. ASSUME NEW u \in User, LogsIn(u) \/ KeepAliveFails(u) \/ TagsUser(u)
      PROVE  Started'
  <2>1. TypeOK'
    BY <1>1 DEF Started, TypeOK, LogsIn, KeepAliveFails, TagsUser, Expires
  <2>2. HasUser' /\ Starting'
    BY <1>1 DEF Started, TypeOK, HasUser, Starting, LogsIn, KeepAliveFails, TagsUser
  <2> QED BY <2>1, <2>2 DEF Started
<1>2. ASSUME NEW u \in User, NEW t \in Task, RightNowRequested(u, t)
      PROVE  Started'
  <2>1. TypeOK'
    BY <1>2 DEF Started, TypeOK, RightNowRequested, Spawn
  <2>2. HasUser' /\ Starting'
    BY <1>2 DEF Started, TypeOK, HasUser, Starting, RightNowRequested, Spawn, Booted
  <2> QED BY <2>1, <2>2 DEF Started
<1>3. CASE ResetsScores \/ Tick
  <2>1. TypeOK'
    <3>1. CASE ResetsScores
      BY <3>1 DEF Started, TypeOK, ResetsScores
    <3>2. CASE Tick
      BY <3>2 DEF Started, TypeOK, Tick
    <3> QED BY <1>3, <3>1, <3>2
  <2>2. HasUser' /\ Starting'
    BY <1>3 DEF Started, TypeOK, HasUser, Starting, ResetsScores, Tick
  <2> QED BY <2>1, <2>2 DEF Started
<1>4. CASE Crashes
  <2>1. TypeOK'
    BY <1>4 DEF Started, TypeOK, Crashes
  <2>2. HasUser' /\ Starting'
    BY <1>4 DEF Started, TypeOK, HasUser, Starting, Crashes
  <2> QED BY <2>1, <2>2 DEF Started
<1> QED BY <1>1, <1>2, <1>3, <1>4 DEF Environment

LEMMA StartedStutter ==
  ASSUME Started, UNCHANGED vars
  PROVE  Started'
BY DEF Started, TypeOK, HasUser, Starting, vars, userVars, sjVars, cronVars, auxVars

LEMMA StartedStep == Started /\ [Next]_vars => Started'
BY CronStarted, TaskStarted, OthersStarted, StartedStutter DEF Next

\* The core is an invariant: it is what the theorems below are proved from.
THEOREM StudyStarted == Spec => []Started
BY StartedInit, StartedStep, PTL DEF Spec

\* The variables have their types; the closures' shared loop variable never is unset
\* when one of them reads it.
THEOREM StudyTypeOK == Spec => []TypeOK
<1>1. Started => TypeOK
  BY DEF Started
<1> QED BY <1>1, StudyStarted, PTL

-----------------------------------------------------------------------------
(* A goroutine that waits can be woken. *)

LEMMA WaitInit == Init => NoStrandedWait
BY DEF Init, NoStrandedWait

LEMMA WaitTask ==
  ASSUME Started, NoStrandedWait, NEW t \in Task, TaskStep(t)
  PROVE  NoStrandedWait'
<1> USE AbsentAssumption DEF Started, TypeOK, NoStrandedWait, userVars, sjVars, cronVars, auxVars, Goto
<1>1. CASE NobodyToWake(t) \/ DeletesRows(t) \/ Registers(t) \/ StartsLearning(t)
           \/ StudyFails(t) \/ DropsRow(t) \/ RecordsFinish(t) \/ TokenFails(t)
  BY <1>1 DEF NobodyToWake, DeletesRows, Registers, StartsLearning, StudyFails,
              DropsRow, RecordsFinish, TokenFails
<1>2. CASE ClosureRuns(t) \/ SavesRow(t)
  BY <1>2 DEF ClosureRuns, Spawn, SavesRow
\* the channel is closed before the timer is stopped
<1>3. CASE WakesWaiting(t) \/ WakePanics(t)
  <2>1. studyUserMap[user[t]] \in Task
    BY <1>3 DEF WakesWaiting, WakePanics, HasUser
  <2> QED BY <1>3, <2>1 DEF WakesWaiting, WakePanics, Signal, Return
<1>4. CASE WaitsForSchedule(t) \/ ArmsTimer(t)
  BY <1>4 DEF WaitsForSchedule, ArmsTimer
<1>5. CASE SchedulesStudy(t) \/ ScheduleFails(t)
  BY <1>5 DEF SchedulesStudy, ScheduleFails
<1>6. CASE Leaves(t)
  BY <1>6 DEF Leaves, Return, Forget
<1> QED BY <1>1, <1>2, <1>3, <1>4, <1>5, <1>6 DEF TaskStep

LEMMA WaitStep == Started /\ NoStrandedWait /\ [Next]_vars => NoStrandedWait'
<1> SUFFICES ASSUME Started, NoStrandedWait, [Next]_vars PROVE NoStrandedWait'
  OBVIOUS
<1> USE DEF NoStrandedWait, userVars, sjVars, cronVars, auxVars, Goto
<1>1. CASE CronFires \/ CronStep \/ BootStep
  BY <1>1 DEF Started, TypeOK, CronFires, CronStep, BootStep, CronExpires, CronSubmits, LoadsJob, Spawn
<1>2. CASE Environment
  BY <1>2 DEF Started, TypeOK, Environment, LogsIn, KeepAliveFails, TagsUser, RightNowRequested, Spawn,
              ResetsScores, Crashes
<1>3. CASE Tick \/ UNCHANGED vars
  BY <1>3 DEF Tick, vars
<1> QED BY <1>1, <1>2, <1>3, WaitTask DEF Next

\* Whatever wakes, replaces or unregisters it, a goroutine that waits is not stranded.
THEOREM StudyNoStrandedWait == Spec => []NoStrandedWait
BY WaitInit, WaitStep, StudyStarted, PTL DEF Spec

-----------------------------------------------------------------------------
(* The map names live goroutines of the right user only. *)

LEMMA MapInit == Init => MapEntryLive
BY DEF Init, MapEntryLive

LEMMA MapTask ==
  ASSUME Started, MapEntryLive, NEW t \in Task, TaskStep(t)
  PROVE  MapEntryLive'
<1> USE AbsentAssumption DEF Started, TypeOK, HasUser, MapEntryLive, userVars, sjVars, cronVars, auxVars, Goto
<1>1. CASE NobodyToWake(t) \/ DeletesRows(t) \/ StartsLearning(t)
           \/ StudyFails(t) \/ DropsRow(t) \/ RecordsFinish(t) \/ TokenFails(t)
  BY <1>1 DEF NobodyToWake, DeletesRows, StartsLearning, StudyFails,
              DropsRow, RecordsFinish, TokenFails
\* a goroutine that is not registered has no entry to spoil
<1>2. CASE ClosureRuns(t) \/ SavesRow(t)
  BY <1>2 DEF ClosureRuns, Spawn, SavesRow
<1>3. CASE WakesWaiting(t) \/ WakePanics(t)
  BY <1>3 DEF WakesWaiting, WakePanics, Signal, Return
<1>4. CASE Registers(t)
  BY <1>4 DEF Registers
<1>5. CASE WaitsForSchedule(t) \/ ArmsTimer(t) \/ SchedulesStudy(t) \/ ScheduleFails(t)
  BY <1>5 DEF WaitsForSchedule, ArmsTimer, SchedulesStudy, ScheduleFails
\* every entry that names t is that of its user, which is the one it removes
<1>6. CASE Leaves(t)
  BY <1>6 DEF Leaves, Unregister, Return, Forget
<1> QED BY <1>1, <1>2, <1>3, <1>4, <1>5, <1>6 DEF TaskStep

LEMMA MapStep == Started /\ MapEntryLive /\ [Next]_vars => MapEntryLive'
<1> SUFFICES ASSUME Started, MapEntryLive, [Next]_vars PROVE MapEntryLive'
  OBVIOUS
<1> USE DEF MapEntryLive, userVars, sjVars, cronVars, auxVars, Goto
<1>1. CASE CronFires \/ CronStep \/ BootStep
  BY <1>1 DEF Started, TypeOK, CronFires, CronStep, BootStep, CronExpires, CronSubmits, LoadsJob, Spawn
<1>2. CASE Environment
  BY <1>2 DEF Started, TypeOK, Environment, LogsIn, KeepAliveFails, TagsUser, RightNowRequested, Spawn,
              ResetsScores, Crashes
<1>3. CASE Tick \/ UNCHANGED vars
  BY <1>3 DEF Tick, vars
<1> QED BY <1>1, <1>2, <1>3, MapTask DEF Next

\* Every entry of studyUserMap is a running study of that very user.
THEOREM StudyMapEntryLive == Spec => []MapEntryLive
BY MapInit, MapStep, StudyStarted, PTL DEF Spec

-----------------------------------------------------------------------------
(***************************************************************************)
(* A study begun and not over has its row.  By itself that is not          *)
(* inductive: the row must not be one a finished study is about to drop.   *)
(* Safe is a row no finished study holds; and what holds between the two   *)
(* transactions of StartStudy is that the user has no row at all.          *)
(***************************************************************************)
Safe(j) == \A t \in Task : job[t] = j => pc[t] # "drop"

\* A goroutine's job id is its own, and the row with that id is its user's.
OwnRows ==
  /\ \A t \in Task : job[t] # NoJob => jobs[job[t]] \in {user[t], NoUser}
  /\ \A s, t \in Task : job[s] = job[t] /\ job[t] # NoJob => s = t

Kept ==
  \A u \in owed : \/ \E j \in Job : jobs[j] = u /\ Safe(j)
                  \/ Replacing(u) /\ ~HasRow(u)

LEMMA OwnRowsInit == Init => OwnRows
BY DEF Init, OwnRows

LEMMA OwnRowsTask ==
  ASSUME Started, OwnRows, NEW t \in Task, TaskStep(t)
  PROVE  OwnRows'
<1> USE AbsentAssumption DEF Started, TypeOK, HasUser, OwnRows, userVars, sjVars, cronVars, auxVars, Goto
<1>1. CASE NobodyToWake(t) \/ Registers(t) \/ StartsLearning(t) \/ StudyFails(t)
           \/ RecordsFinish(t) \/ TokenFails(t)
  BY <1>1 DEF NobodyToWake, Registers, StartsLearning, StudyFails, RecordsFinish, TokenFails
<1>2. CASE WaitsForSchedule(t) \/ ArmsTimer(t) \/ SchedulesStudy(t) \/ ScheduleFails(t) \/ WakesWaiting(t)
  <2>1. UNCHANGED <<jobs, user, job>>
    BY <1>2 DEF WaitsForSchedule, ArmsTimer, SchedulesStudy, ScheduleFails, WakesWaiting
  <2> QED BY <2>1
<1>3. CASE ClosureRuns(t) \/ WakePanics(t) \/ Leaves(t)
  <2>1. /\ jobs' = jobs
        /\ \A x \in Task : job'[x] = IF x = t THEN NoJob ELSE job[x]
        /\ \A x \in Task \ {t} : user'[x] = user[x]
    <3>1. CASE ClosureRuns(t)
      BY <3>1 DEF ClosureRuns, Spawn
    <3>2. CASE WakePanics(t) \/ Leaves(t)
      BY <3>2 DEF WakePanics, Leaves, Return
    <3> QED BY <1>3, <3>1, <3>2
  <2> QED BY <2>1
<1>4. CASE DeletesRows(t) \/ DropsRow(t)
  BY <1>4 DEF DeletesRows, DropsRow, WithoutRow
<1>5. CASE SavesRow(t)
  BY <1>5 DEF SavesRow, FreshJob, FreeJobs
<1> QED BY <1>1, <1>2, <1>3, <1>4, <1>5 DEF TaskStep

LEMMA OwnRowsStep == Started /\ OwnRows /\ [Next]_vars => OwnRows'
<1> SUFFICES ASSUME Started, OwnRows, [Next]_vars PROVE OwnRows'
  OBVIOUS
<1> USE AbsentAssumption DEF OwnRows, userVars, sjVars, cronVars, auxVars, Goto
<1>1. CASE CronFires \/ CronStep
  BY <1>1 DEF CronFires, CronStep, CronExpires, CronSubmits
\* the row that is resumed is no goroutine's yet, and its user is the one it is resumed for
<1>2. ASSUME NEW j \in Job, NEW t \in Task, LoadsJob(j, t)
      PROVE  OwnRows'
  <2>1. j \in boot /\ jobs' = jobs
    BY <1>2 DEF LoadsJob
  <2>2. CASE UNCHANGED sjVars
    BY <2>1, <2>2
  <2>3. CASE Spawn(t, jobs[j], j, lastStudy[jobs[j]], FALSE, "register")
    <3>1. \A x \in Task : /\ job'[x] = IF x = t THEN j ELSE job[x]
                          /\ user'[x] = IF x = t THEN jobs[j] ELSE user[x]
      BY <2>3 DEF Started, TypeOK, Spawn
    <3>2. \A x \in Task : job[x] # j
      BY <2>1 DEF Started, Starting
    <3> QED BY <2>1, <3>1, <3>2
  <2> QED BY <1>2, <2>2, <2>3 DEF LoadsJob
<1>3. CASE Environment
  BY <1>3 DEF Started, TypeOK, Environment, LogsIn, KeepAliveFails, TagsUser, RightNowRequested, Spawn,
              ResetsScores, Crashes
<1>4. CASE Tick \/ UNCHANGED vars
  BY <1>4 DEF Tick, vars
<1> QED BY <1>1, <1>2, <1>3, <1>4, OwnRowsTask DEF Next, BootStep

LEMMA KeptInit == Init => Kept
BY DEF Init, Kept

LEMMA KeptTask ==
  ASSUME Started, OwnRows, Kept, NEW t \in Task, TaskStep(t)
  PROVE  Kept'
<1> USE AbsentAssumption
    DEF Started, TypeOK, HasUser, Kept, Safe, Replacing, HasRow, userVars, sjVars, cronVars, auxVars, Goto
<1>1. CASE NobodyToWake(t) \/ Registers(t) \/ StartsLearning(t) \/ StudyFails(t) \/ TokenFails(t)
  BY <1>1 DEF NobodyToWake, Registers, StartsLearning, StudyFails, TokenFails
<1>2. CASE WaitsForSchedule(t) \/ ArmsTimer(t) \/ SchedulesStudy(t) \/ ScheduleFails(t) \/ WakesWaiting(t)
  BY <1>2 DEF WaitsForSchedule, ArmsTimer, SchedulesStudy, ScheduleFails, WakesWaiting
<1>3. CASE ClosureRuns(t) \/ WakePanics(t) \/ Leaves(t)
  BY <1>3 DEF ClosureRuns, Spawn, WakePanics, Leaves, Return
<1>4. CASE DeletesRows(t)
  BY <1>4 DEF DeletesRows
<1>5. CASE SavesRow(t)
  BY <1>5 DEF SavesRow, FreshJob, FreeJobs
\* the finished study's row is its user's, who is owed nothing any more
<1>6. CASE RecordsFinish(t)
  BY <1>6 DEF RecordsFinish, OwnRows
\* a safe row is not the row that is dropped
<1>7. CASE DropsRow(t)
  BY <1>7 DEF DropsRow, WithoutRow
<1> QED BY <1>1, <1>2, <1>3, <1>4, <1>5, <1>6, <1>7 DEF TaskStep

LEMMA KeptStep == Started /\ OwnRows /\ Kept /\ [Next]_vars => Kept'
<1> SUFFICES ASSUME Started, OwnRows, Kept, [Next]_vars PROVE Kept'
  OBVIOUS
<1> USE AbsentAssumption DEF Kept, Safe, Replacing, HasRow, userVars, sjVars, cronVars, auxVars, Goto
<1>1. CASE CronFires \/ CronStep
  BY <1>1 DEF Started, TypeOK, CronFires, CronStep, CronExpires, CronSubmits
<1>2. CASE BootStep
  BY <1>2 DEF Started, TypeOK, BootStep, LoadsJob, Spawn
<1>3. ASSUME NEW u \in User, LogsIn(u) \/ KeepAliveFails(u) \/ TagsUser(u)
      PROVE  Kept'
  BY <1>3 DEF LogsIn, KeepAliveFails, TagsUser
<1>4. ASSUME NEW u \in User, NEW t \in Task, RightNowRequested(u, t)
      PROVE  Kept'
  BY <1>4 DEF Started, TypeOK, RightNowRequested, Spawn
<1>5. CASE ResetsScores \/ Tick \/ UNCHANGED vars
  BY <1>5 DEF ResetsScores, Tick, vars
<1>6. CASE Crashes
  BY <1>6 DEF Started, TypeOK, Crashes
<1> QED BY <1>1, <1>2, <1>3, <1>4, <1>5, <1>6, KeptTask DEF Next, Environment

\* Whatever overlaps, wakes up, fails or crashes, a study begun and not over has a row of
\* t_job, except between the two transactions of StartStudy.
THEOREM StudyRemembered == Spec => []StudyNeverForgotten
<1>1. Kept => StudyNeverForgotten
  BY DEF Kept, StudyNeverForgotten, HasRow
<1> QED BY <1>1, OwnRowsInit, OwnRowsStep, KeptInit, KeptStep, StudyStarted, PTL DEF Spec

-----------------------------------------------------------------------------
(***************************************************************************)
(* How long a study waits.  The time it waits for was written or read at   *)
(* some earlier moment, by anybody: every time that is kept anywhere is    *)
(* soon, and what is soon stays so while the clock goes on.                *)
(***************************************************************************)
Soon(x) == x <= now + MaxDelay /\ x < Today + Day

Scheduled ==
  /\ \A u \in User : Soon(lastStudy[u]) /\ Soon(queried[u])
  /\ \A t \in Task : Soon(at[t])

\* The day that began last.
LEMMA Days ==
  ASSUME NEW n \in Nat
  PROVE  (n \div Day) \in Nat /\ (n \div Day) * Day <= n /\ n < (n \div Day) * Day + Day
BY TimeAssumption

\* No day ends before the one it follows.
LEMMA DaysPass ==
  ASSUME NEW n \in Nat
  PROVE  (n \div Day) * Day <= ((n + 1) \div Day) * Day
<1> DEFINE p == n \div Day  q == (n + 1) \div Day
<1>1. /\ p \in Nat /\ p * Day <= n
      /\ q \in Nat /\ n + 1 < q * Day + Day
  BY Days
<1> HIDE DEF p, q
<1>2. ASSUME q < p PROVE q * Day + Day <= p * Day
  BY <1>1, <1>2, TimeAssumption
<1>3. p <= q
  BY <1>1, <1>2, TimeAssumption
<1>4. p * Day <= q * Day
  BY <1>1, <1>3, TimeAssumption
<1> QED BY <1>4 DEF p, q

LEMMA SoonNow ==
  ASSUME Started
  PROVE  /\ Soon(Never)
         /\ \A t \in Task : \A d \in Delays(t) : Soon(now + d)
<1>1. now \in Nat
  BY DEF Started, TypeOK
<1>2. Today \in Nat /\ Today <= now /\ now < Today + Day
  <2> DEFINE q == now \div Day
  <2>1. q \in Nat /\ q * Day <= now /\ now < q * Day + Day
    BY <1>1, Days
  <2>2. Today = q * Day
    BY DEF Today
  <2> HIDE DEF q
  <2> QED BY <2>1, <2>2, TimeAssumption
<1> QED BY <1>1, <1>2, TimeAssumption DEF Soon, Delays, SameDay

LEMMA ScheduledInit == Init => Scheduled
<1> SUFFICES ASSUME Init PROVE Scheduled
  OBVIOUS
<1>1. Soon(Never)
  BY StartedInit, SoonNow
<1> HIDE DEF Never
<1> QED BY <1>1 DEF Init, Scheduled

\* What was soon is soon as long as the clock stands.
LEMMA SoonStays == UNCHANGED now => \A x : Soon(x)' <=> Soon(x)
<1> SUFFICES ASSUME UNCHANGED now PROVE \A x : Soon(x)' <=> Soon(x)
  OBVIOUS
<1>1. Today' = Today
  BY DEF Today
<1> QED BY <1>1 DEF Soon

LEMMA ScheduledTask ==
  ASSUME Started, Scheduled, NEW t \in Task, TaskStep(t)
  PROVE  Scheduled'
<1>1. Soon(Never) /\ \A d \in Delays(t) : Soon(now + d)
  BY SoonNow
<1>2. UNCHANGED now
  BY DEF TaskStep, ClosureRuns, NobodyToWake, WakesWaiting, WakePanics, DeletesRows, SavesRow,
         Registers, WaitsForSchedule, SchedulesStudy, ScheduleFails, ArmsTimer, StartsLearning,
         RecordsFinish, StudyFails, TokenFails, DropsRow, Leaves
<1>3. \A x : Soon(x)' <=> Soon(x)
  BY <1>2, SoonStays
<1> SUFFICES /\ \A u \in User : Soon(lastStudy'[u]) /\ Soon(queried'[u])
             /\ \A v \in Task : Soon(at'[v])
  BY <1>3 DEF Scheduled
<1> USE DEF Scheduled, userVars, sjVars, cronVars, auxVars, Started, TypeOK
<1> HIDE DEF Never
<1>4. CASE \/ NobodyToWake(t) \/ WakesWaiting(t) \/ DeletesRows(t) \/ SavesRow(t) \/ Registers(t)
           \/ WaitsForSchedule(t) \/ ScheduleFails(t) \/ ArmsTimer(t) \/ RecordsFinish(t)
           \/ StudyFails(t) \/ TokenFails(t) \/ DropsRow(t)
  <2>1. UNCHANGED <<lastStudy, queried, at>>
    BY <1>4 DEF NobodyToWake, WakesWaiting, DeletesRows, SavesRow, Registers, WaitsForSchedule,
                ScheduleFails, ArmsTimer, RecordsFinish, StudyFails, TokenFails, DropsRow
  <2> QED BY <2>1
<1>5. CASE StartsLearning(t) \/ WakePanics(t) \/ Leaves(t)
  <2>1. UNCHANGED <<lastStudy, queried>> /\ at' = [at EXCEPT ![t] = Never]
    BY <1>5 DEF StartsLearning, WakePanics, Leaves, Return
  <2> QED BY <1>1, <2>1
<1>6. CASE ClosureRuns(t)
  <2>1. /\ UNCHANGED lastStudy /\ at' = [at EXCEPT ![t] = queried[loopUser]]
        /\ loopUser \in User /\ queried' \in {queried, [u \in User |-> Never]}
    BY <1>6 DEF ClosureRuns, Spawn, HasUser
  <2> QED BY <1>1, <2>1
<1>7. CASE SchedulesStudy(t)
  <2>1. UNCHANGED queried
    BY <1>7 DEF SchedulesStudy
  <2>2. PICK d \in Delays(t) : /\ lastStudy' = [lastStudy EXCEPT ![user[t]] = now + d]
                               /\ at' = [at EXCEPT ![t] = now + d]
    BY <1>7 DEF SchedulesStudy
  <2>3. Soon(now + d)
    BY <1>1
  <2> DEFINE x == now + d
  <2> HIDE DEF x
  <2>4. /\ lastStudy' = [lastStudy EXCEPT ![user[t]] = x] /\ at' = [at EXCEPT ![t] = x]
        /\ Soon(x)
    BY <2>2, <2>3 DEF x
  <2> QED BY <2>1, <2>4
<1> QED BY <1>4, <1>5, <1>6, <1>7 DEF TaskStep

LEMMA ScheduledStep == Started /\ Scheduled /\ [Next]_vars => Scheduled'
<1> SUFFICES ASSUME Started, Scheduled, [Next]_vars PROVE Scheduled'
  OBVIOUS
<1>0. Soon(Never)
  BY SoonNow
<1>1. CASE Tick
  <2>1. now \in Nat /\ now' = now + 1 /\ UNCHANGED <<lastStudy, queried, at>>
    BY <1>1 DEF Tick, userVars, sjVars, cronVars, Started, TypeOK
  <2>2. Today <= Today' /\ Today \in Nat /\ Today' \in Nat
    <3> DEFINE p == now \div Day  q == (now + 1) \div Day
    <3>1. p \in Nat /\ q \in Nat /\ p * Day <= q * Day
      BY <2>1, Days, DaysPass
    <3>2. Today = p * Day /\ Today' = q * Day
      BY <2>1 DEF Today
    <3> HIDE DEF p, q
    <3> QED BY <3>1, <3>2, TimeAssumption
  <2>3. ASSUME NEW x \in Int, Soon(x) PROVE Soon(x)'
    <3>1. x <= now + MaxDelay /\ x < Today + Day
      BY <2>3 DEF Soon
    <3>2. x <= now' + MaxDelay
      BY <2>1, <2>3, <3>1, TimeAssumption
    <3>3. x < Today' + Day
      <4> DEFINE a == Today  b == Today'
      <4>1. a \in Nat /\ b \in Nat /\ a <= b /\ x < a + Day
        BY <2>2, <3>1
      <4> HIDE DEF a, b
      <4>2. x < b + Day
        BY <2>3, <4>1, TimeAssumption
      <4> QED BY <4>2 DEF b
    <3> QED BY <3>2, <3>3 DEF Soon
  <2>4. /\ lastStudy \in [User -> Int] /\ queried \in [User -> Int] /\ at \in [Task -> Int]
    BY DEF Started, TypeOK
  <2>5. /\ \A u \in User : Soon(lastStudy[u])' /\ Soon(queried[u])'
        /\ \A t \in Task : Soon(at[t])'
    <3>1. \A x \in Int : Soon(x) => Soon(x)'
      BY <2>3
    <3>2. /\ \A u \in User : lastStudy[u] \in Int /\ queried[u] \in Int
          /\ \A t \in Task : at[t] \in Int
      BY <2>4
    <3> QED BY <2>1, <3>1, <3>2 DEF Scheduled, Soon
  <2> QED BY <2>5 DEF Scheduled
<1>2. CASE UNCHANGED now /\ ~(\E t \in Task : TaskStep(t))
  <2>1. \A x : Soon(x)' <=> Soon(x)
    BY <1>2, SoonStays
  <2> SUFFICES /\ \A u \in User : Soon(lastStudy'[u]) /\ Soon(queried'[u])
               /\ \A v \in Task : Soon(at'[v])
    BY <2>1 DEF Scheduled
  <2> USE DEF Scheduled, userVars, sjVars, cronVars, auxVars
  <2> HIDE DEF Never
  <2>2. CASE CronFires
    <3>1. UNCHANGED <<lastStudy, at>> /\ \A u \in User : queried'[u] \in {lastStudy[u], Never}
      BY <2>2 DEF CronFires
    <3> QED BY <1>0, <3>1
  <2>3. CASE CronStep
    <3>1. UNCHANGED <<lastStudy, queried, at>>
      BY <2>3 DEF CronStep, CronExpires, CronSubmits, NextUser
    <3> QED BY <3>1
  <2>4. ASSUME NEW j \in Job, NEW t \in Task, LoadsJob(j, t)
        PROVE  /\ \A u \in User : Soon(lastStudy'[u]) /\ Soon(queried'[u])
               /\ \A v \in Task : Soon(at'[v])
    <3>1. UNCHANGED <<lastStudy, queried>>
          /\ (UNCHANGED at \/ at' = [at EXCEPT ![t] = lastStudy[jobs[j]]])
          /\ jobs[j] \in User
      BY <2>4 DEF LoadsJob, Spawn, Started, Starting
    <3> QED BY <3>1 DEF Started, TypeOK
  <2>5. ASSUME NEW u \in User, LogsIn(u) \/ KeepAliveFails(u) \/ TagsUser(u)
        PROVE  UNCHANGED <<lastStudy, queried, at>>
    BY <2>5 DEF LogsIn, KeepAliveFails, TagsUser
  <2>6. ASSUME NEW x \in User, NEW t \in Task, RightNowRequested(x, t)
        PROVE  /\ \A u \in User : Soon(lastStudy'[u]) /\ Soon(queried'[u])
               /\ \A v \in Task : Soon(at'[v])
    <3>1. UNCHANGED <<lastStudy, queried>> /\ at' = [at EXCEPT ![t] = lastStudy[x]]
      BY <2>6 DEF RightNowRequested, Spawn
    <3> QED BY <3>1 DEF Started, TypeOK
  <2>7. CASE ResetsScores \/ UNCHANGED vars
    <3>1. UNCHANGED <<lastStudy, queried, at>>
      BY <2>7 DEF ResetsScores, vars
    <3> QED BY <3>1
  <2>8. CASE Crashes
    <3>1. /\ UNCHANGED lastStudy /\ queried' = [u \in User |-> Never]
          /\ at' = [v \in Task |-> Never]
      BY <2>8 DEF Crashes
    <3> QED BY <1>0, <3>1
  <2>9. CASE Tick
    BY <1>2, <2>9 DEF Tick, Started, TypeOK
  <2> QED BY <1>2, <2>2, <2>3, <2>4, <2>5, <2>6, <2>7, <2>8, <2>9 DEF Next, BootStep, Environment
<1>3. CASE \E t \in Task : TaskStep(t)
  BY <1>3, ScheduledTask
<1>4. Tick \/ UNCHANGED now \/ \E t \in Task : TaskStep(t)
  BY DEF Next, CronFires, CronStep, CronExpires, CronSubmits, BootStep, LoadsJob, Environment,
         LogsIn, KeepAliveFails, TagsUser, RightNowRequested, ResetsScores, Crashes, vars, Spawn
<1> QED BY <1>1, <1>2, <1>3, <1>4

\* No study sleeps longer than the longest delay or into another day, whoever wrote the
\* time it waits for, and whenever it was read.
THEOREM StudyWaitsBounded == Spec => []WaitsBounded
<1>1. Scheduled => WaitsBounded
  BY DEF Scheduled, Soon, WaitsBounded
<1> QED BY <1>1, ScheduledInit, ScheduledStep, StudyStarted, PTL DEF Spec

=============================================================================
