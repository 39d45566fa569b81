----------------------------- MODULE LoginFlow -----------------------------
(***************************************************************************)
(* How the learning agent gets the logins of its users and loses them:     *)
(* the links it hands out and the goroutines that poll for their scans     *)
(* (internal/study/XxqgService.go), the t_job rows with status=2 that let  *)
(* a restarted agent poll on (LoadLoginJobs), the rows of t_user a login   *)
(* writes (UpdateByUid), and the keep-alive job that reads a token, sleeps *)
(* and expires the row when the token turns out bad                        *)
(* (internal/job/lan/AutoKeepAliveJob.go).                                 *)
(*                                                                         *)
(* A login is known by its link: the code in a row of t_job, the token in  *)
(* a row of t_user.  A Task is a goroutine of the ants pool.               *)
(***************************************************************************)
EXTENDS Integers, FiniteSets

CONSTANTS
  Uid,          \* accounts of the learning site
  Link,         \* QR codes; the token of the login one is scanned for
  Task,         \* goroutines
  Row,          \* ids of the rows of t_user
  NoUid, NoLink, NoRow,
  Tries,        \* 150: how often checkLogin asks
  MaxCrashes,   \* bound on the crashes of the agent
  DbErrors      \* whether statements on the database may fail

ASSUME LoginAssumption ==
  /\ Tries \in Nat \ {0} /\ MaxCrashes \in Nat /\ DbErrors \in BOOLEAN
  /\ IsFiniteSet(Row) /\ IsFiniteSet(Task)

ASSUME LoginNoneAssumption == NoUid \notin Uid /\ NoLink \notin Link /\ NoRow \notin Row

VARIABLES
  \* t_user: uid, token, status, and whether last_check_time is null or four hours old
  uid, token, status, due,
  jobs,                    \* the links of the rows of t_job with status=2
  \* the learning site: who scanned a link, and the tokens that are good
  given, scanned, good,
  \* each goroutine: where it is; the link it polls for, or the token it judges; how often
  \* it has asked; whether it counted no row; the row it checks; whether LoadLoginJobs
  \* started it
  pc, link, tries, none, row, resumed,
  \* LoadLoginJobs: the jobs it has still to start, and the variable its closures share
  toResume, resumeJob,
  \* keepAlive: the rows it has still to submit, their tokens as it read them, and the
  \* variable its closures share
  toCheck, read, checkUser,
  \* bounds and history: logins under way; how often a goroutine counted no row for an
  \* account while another one was about to insert it
  crashes, owed, overlap

userVars  == <<uid, token, status, due>>
siteVars  == <<given, scanned, good>>
taskVars  == <<pc, link, tries, none, row, resumed>>
loopVars  == <<toResume, resumeJob, toCheck, read, checkUser>>
histVars  == <<crashes, owed, overlap>>
vars == <<userVars, jobs, siteVars, taskVars, loopVars, histVars>>

Location == {"idle", "save", "resume", "poll", "login", "write", "delete",
             "closure", "sleep", "fine", "mark"}

TypeOK ==
  /\ uid \in [Row -> Uid \cup {NoUid}] /\ token \in [Row -> Link \cup {NoLink}]
  /\ status \in [Row -> {1, -1}] /\ due \in [Row -> BOOLEAN]
  /\ jobs \in SUBSET Link /\ given \in SUBSET Link /\ good \in SUBSET Link
  /\ scanned \in [Link -> Uid \cup {NoUid}]
  /\ pc \in [Task -> Location]
  /\ link \in [Task -> Link \cup {NoLink}] /\ tries \in [Task -> 0..Tries]
  /\ none \in [Task -> BOOLEAN] /\ resumed \in [Task -> BOOLEAN]
  /\ row \in [Task -> Row \cup {NoRow}]
  /\ toResume \in SUBSET Link /\ resumeJob \in Link \cup {NoLink}
  /\ toCheck \in SUBSET Row /\ checkUser \in Row \cup {NoRow}
  /\ read \in [Row -> Link \cup {NoLink}]
  /\ crashes \in Nat /\ owed \in SUBSET Link /\ overlap \in [Uid -> Nat]

-----------------------------------------------------------------------------
(* Helpers *)

Booted == toResume = {}
Goto(t, l) == pc' = [pc EXCEPT ![t] = l]
RowsOf(u) == {r \in Row : uid[r] = u}

\* The goroutines that found no row of an account and have not inserted theirs.
Inserting(u) == {t \in Task : pc[t] = "write" /\ none[t] /\ scanned[link[t]] = u}

\* zorm generates the id of a row: which one does not matter.
FreshRow(r) == uid[r] = NoUid /\ r = CHOOSE s \in Row : uid[s] = NoUid

Return(t) ==
  /\ Goto(t, "idle")
  /\ link' = [link EXCEPT ![t] = NoLink] /\ tries' = [tries EXCEPT ![t] = 0]
  /\ none' = [none EXCEPT ![t] = FALSE] /\ row' = [row EXCEPT ![t] = NoRow]
  /\ resumed' = [resumed EXCEPT ![t] = FALSE]

Init ==
  /\ uid = [r \in Row |-> NoUid] /\ token = [r \in Row |-> NoLink]
  /\ status = [r \in Row |-> 1] /\ due = [r \in Row |-> TRUE]
  /\ jobs = {} /\ given = {} /\ good = {} /\ scanned = [c \in Link |-> NoUid]
  /\ pc = [t \in Task |-> "idle"] /\ link = [t \in Task |-> NoLink]
  /\ tries = [t \in Task |-> 0] /\ none = [t \in Task |-> FALSE]
  /\ row = [t \in Task |-> NoRow] /\ resumed = [t \in Task |-> FALSE]
  /\ toResume = {} /\ resumeJob = NoLink
  /\ toCheck = {} /\ read = [r \in Row |-> NoLink] /\ checkUser = NoRow
  /\ crashes = 0 /\ owed = {} /\ overlap = [u \in Uid |-> 0]

-----------------------------------------------------------------------------
(* GetXxqgRedirectUrl and LoadLoginJobs *)

\* The site makes a QR code; a goroutine is submitted and the link returned.
Generates(c, t) ==
  /\ Booted /\ c \notin given /\ pc[t] = "idle"
  /\ given' = given \cup {c} /\ owed' = owed \cup {c}
  /\ Goto(t, "save") /\ link' = [link EXCEPT ![t] = c]
  /\ UNCHANGED <<userVars, jobs, scanned, good, tries, none, row, resumed, loopVars,
                 crashes, overlap>>

\* The error of Save is ignored.
SavesJob(t) ==
  /\ pc[t] = "save"
  /\ \/ jobs' = jobs \cup {link[t]} /\ UNCHANGED owed
     \/ DbErrors /\ UNCHANGED jobs /\ owed' = owed \ {link[t]}
  /\ Goto(t, "poll")
  /\ UNCHANGED <<userVars, siteVars, link, tries, none, row, resumed, loopVars, crashes, overlap>>

\* The loop moves its variable to the next job and submits a closure ...
ResumesNext(c, t) ==
  /\ c \in toResume /\ toResume' = toResume \ {c} /\ resumeJob' = c
  /\ pc[t] = "idle" /\ Goto(t, "resume")
  /\ UNCHANGED <<userVars, jobs, siteVars, link, tries, none, row, resumed, toCheck, read,
                 checkUser, histVars>>

\* ... which reads it when it runs.
Resumes(t) ==
  /\ pc[t] = "resume" /\ Goto(t, "poll")
  /\ link' = [link EXCEPT ![t] = resumeJob] /\ resumed' = [resumed EXCEPT ![t] = TRUE]
  /\ UNCHANGED <<userVars, jobs, siteVars, tries, none, row, loopVars, histVars>>

-----------------------------------------------------------------------------
(* checkLogin *)

\* mutant: it asks once more
Asks_late(t) ==
  /\ pc[t] = "poll" /\ tries[t] <= Tries
  /\ tries' = [tries EXCEPT ![t] = @ + 1]
  /\ UNCHANGED <<userVars, jobs, siteVars, pc, link, none, row, resumed, loopVars, histVars>>

\* mutant: a request that brings no scan is not counted
Asks_answered(t) ==
  /\ pc[t] = "poll" /\ tries[t] < Tries
  /\ UNCHANGED <<userVars, jobs, siteVars, pc, link, tries, none, row, resumed, loopVars,
                 histVars>>

\* The request fails, or the link is not scanned yet, or no longer good.
Asks(t) ==
  /\ pc[t] = "poll" /\ tries[t] < Tries
  /\ tries' = [tries EXCEPT ![t] = @ + 1]
  /\ UNCHANGED <<userVars, jobs, siteVars, pc, link, none, row, resumed, loopVars, histVars>>

FindsScan(t) ==
  /\ pc[t] = "poll" /\ tries[t] < Tries /\ scanned[link[t]] # NoUid
  /\ Goto(t, "login")
  /\ UNCHANGED <<userVars, jobs, siteVars, link, tries, none, row, resumed, loopVars, histVars>>

GivesUp(t) ==
  /\ pc[t] = "poll" /\ tries[t] = Tries
  /\ Goto(t, "delete") /\ owed' = owed \ {link[t]}
  /\ UNCHANGED <<userVars, jobs, siteVars, link, tries, none, row, resumed, loopVars,
                 crashes, overlap>>

\* A request after the scan fails, or counting the rows does ...
LoginFails(t) ==
  /\ pc[t] = "login"
  /\ Goto(t, "delete") /\ owed' = owed \ {link[t]}
  /\ UNCHANGED <<userVars, jobs, siteVars, link, tries, none, row, resumed, loopVars,
                 crashes, overlap>>

\* ... or an answer without "=" or cookies makes it panic: the pool recovers, and the row
\* of t_job stays.
LoginPanics(t) ==
  /\ pc[t] = "login"
  /\ Return(t) /\ owed' = owed \ {link[t]}
  /\ UNCHANGED <<userVars, jobs, siteVars, loopVars, crashes, overlap>>

\* mutant: the rows are counted by token, which is always new
Counts_token(t) ==
  /\ pc[t] = "login"
  /\ LET u == scanned[link[t]] IN
     /\ none' = [none EXCEPT ![t] = \A r \in Row : token[r] # link[t]]
     /\ overlap' = IF none'[t] /\ Inserting(u) # {} THEN [overlap EXCEPT ![u] = @ + 1]
                                                    ELSE overlap
  /\ Goto(t, "write")
  /\ UNCHANGED <<userVars, jobs, siteVars, link, tries, row, resumed, loopVars, crashes, owed>>

\* UpdateByUid counts the rows of the account, before its transaction.
Counts(t) ==
  /\ pc[t] = "login"
  /\ LET u == scanned[link[t]] IN
     /\ none' = [none EXCEPT ![t] = RowsOf(u) = {}]
     /\ overlap' = IF none'[t] /\ Inserting(u) # {} THEN [overlap EXCEPT ![u] = @ + 1]
                                                    ELSE overlap
  /\ Goto(t, "write")
  /\ UNCHANGED <<userVars, jobs, siteVars, link, tries, row, resumed, loopVars, crashes, owed>>

\* The transaction: a new row, or every row of that account.
Writes(t) ==
  LET u == scanned[link[t]] IN
  /\ pc[t] = "write"
  /\ \/ \E r \in Row :
          /\ none[t] /\ FreshRow(r)
          /\ uid' = [uid EXCEPT ![r] = u] /\ token' = [token EXCEPT ![r] = link[t]]
          /\ UNCHANGED status
     \/ /\ ~none[t]
        /\ token' = [r \in Row |-> IF uid[r] = u THEN link[t] ELSE token[r]]
        /\ status' = [r \in Row |-> IF uid[r] = u THEN 1 ELSE status[r]]
        /\ UNCHANGED uid
     \/ DbErrors /\ UNCHANGED <<uid, token, status>>
  /\ Goto(t, "delete") /\ owed' = owed \ {link[t]}
  /\ UNCHANGED <<due, jobs, siteVars, link, tries, none, row, resumed, loopVars, crashes, overlap>>

\* mutant: every login job is deleted, by status
WithoutJob_all(t) == {}

\* By the id of the goroutine's own job, or of the one the loop variable holds by now.
WithoutJob(t) == jobs \ {IF resumed[t] THEN resumeJob ELSE link[t]}

\* A resumed goroutine may so delete the job another one still polls for.
DeletesJob(t) ==
  /\ pc[t] = "delete"
  /\ \/ jobs' = WithoutJob(t)
     \/ DbErrors /\ UNCHANGED jobs
  /\ owed' = IF resumed[t] THEN owed \ {resumeJob} ELSE owed
  /\ Return(t)
  /\ UNCHANGED <<userVars, siteVars, loopVars, crashes, overlap>>

-----------------------------------------------------------------------------
(* keepAlive *)

ToCheck(r) == uid[r] # NoUid /\ status[r] > 0 /\ due[r]

KeepAliveFires ==
  /\ Booted /\ toCheck = {} /\ \A t \in Task : pc[t] # "closure"
  /\ toCheck' = {r \in Row : ToCheck(r)}
  /\ read' = [r \in Row |-> IF r \in toCheck' THEN token[r] ELSE NoLink]
  /\ checkUser' = NoRow
  /\ UNCHANGED <<userVars, jobs, siteVars, taskVars, toResume, resumeJob, histVars>>

ChecksNext(r, t) ==
  /\ r \in toCheck /\ toCheck' = toCheck \ {r} /\ checkUser' = r
  /\ pc[t] = "idle" /\ Goto(t, "closure")
  /\ UNCHANGED <<userVars, jobs, siteVars, link, tries, none, row, resumed, toResume, resumeJob,
                 read, histVars>>

\* The closure runs: doKeepAlive on the user the loop variable holds by now; it sleeps.
Sleeps(t) ==
  /\ pc[t] = "closure" /\ Goto(t, "sleep")
  /\ row' = [row EXCEPT ![t] = checkUser]
  /\ link' = [link EXCEPT ![t] = read[checkUser]]
  /\ UNCHANGED <<userVars, jobs, siteVars, tries, none, resumed, loopVars, histVars>>

\* The score cannot be read with a token that is no longer good, and sometimes with a good one.
Judges(t) ==
  /\ pc[t] = "sleep"
  /\ \/ link[t] \in good /\ Goto(t, "fine")
     \/ Goto(t, "mark")
  /\ UNCHANGED <<userVars, jobs, siteVars, link, tries, none, row, resumed, loopVars, histVars>>

\* mutant: the row is that of the loop variable
Judged_loop(t) == checkUser

Judged(t) == row[t]

\* mutant: the status is the zero value, which UpdateNotZeroValue leaves out
AfterCheck_zero(t) == status

AfterCheck(t) == IF pc[t] = "mark" THEN [status EXCEPT ![Judged(t)] = -1] ELSE status

\* One transaction either way: last_check_time, and the status of a bad login.
Records(t) ==
  /\ pc[t] \in {"fine", "mark"}
  /\ \/ /\ due' = [due EXCEPT ![Judged(t)] = FALSE]
        /\ status' = AfterCheck(t)
     \/ DbErrors /\ UNCHANGED <<due, status>>
  /\ Return(t)
  /\ UNCHANGED <<uid, token, jobs, siteVars, loopVars, histVars>>

-----------------------------------------------------------------------------
(* The site, the users, the time and the process *)

Scans(c, u) ==
  /\ c \in given /\ scanned[c] = NoUid
  /\ scanned' = [scanned EXCEPT ![c] = u] /\ good' = good \cup {c}
  /\ UNCHANGED <<userVars, jobs, given, taskVars, loopVars, histVars>>

TokenDies(c) ==
  /\ c \in good /\ good' = good \ {c}
  /\ UNCHANGED <<userVars, jobs, given, scanned, taskVars, loopVars, histVars>>

\* Four hours after its check a row is due again: long after the firings, one in two
\* minutes, that have checked whoever was due by then.
DueAgain(r) ==
  /\ ~due[r] /\ \A s \in Row : ~ToCheck(s)
  /\ due' = [due EXCEPT ![r] = TRUE]
  /\ UNCHANGED <<uid, token, status, jobs, siteVars, taskVars, loopVars, histVars>>

\* The process ends (os.Exit in Score among others) and LoadLoginJobs reads the rows.
Crashes ==
  /\ crashes < MaxCrashes /\ crashes' = crashes + 1
  /\ \/ toResume' = jobs
     \/ DbErrors /\ toResume' = {}
  /\ resumeJob' = NoLink
  /\ toCheck' = {} /\ read' = [r \in Row |-> NoLink] /\ checkUser' = NoRow
  /\ pc' = [t \in Task |-> "idle"] /\ link' = [t \in Task |-> NoLink]
  /\ tries' = [t \in Task |-> 0] /\ none' = [t \in Task |-> FALSE]
  /\ row' = [t \in Task |-> NoRow] /\ resumed' = [t \in Task |-> FALSE]
  /\ owed' = owed \ {link[t] : t \in {s \in Task : pc[s] = "save"}}
  /\ UNCHANGED <<userVars, jobs, siteVars, overlap>>

-----------------------------------------------------------------------------
LoginStep(t) ==
  \/ SavesJob(t) \/ Resumes(t)
  \/ Asks(t) \/ FindsScan(t) \/ GivesUp(t)
  \/ LoginFails(t) \/ LoginPanics(t) \/ Counts(t) \/ Writes(t) \/ DeletesJob(t)

CheckStep(t) == Sleeps(t) \/ Judges(t) \/ Records(t)

ResumeLoop == \E c \in Link, t \in Task : ResumesNext(c, t)
CheckLoop  == \E r \in Row, t \in Task : ChecksNext(r, t)

Environment ==
  \/ \E c \in Link, t \in Task : Generates(c, t)
  \/ \E c \in Link, u \in Uid : Scans(c, u)
  \/ \E c \in Link : TokenDies(c)
  \/ Crashes

Next ==
  \/ \E t \in Task : LoginStep(t) \/ CheckStep(t)
  \/ ResumeLoop \/ KeepAliveFires \/ CheckLoop
  \/ \E r \in Row : DueAgain(r)
  \/ Environment

Spec == Init /\ [][Next]_vars

(***************************************************************************)
(* Goroutines run, loops go on, the keep-alive job fires, and every row is *)
(* due again at some time after its check, whatever other rows become due  *)
(* meanwhile.  Nothing is assumed of users, the site and crashes.          *)
(***************************************************************************)
Fairness ==
  /\ \A t \in Task : WF_vars(LoginStep(t)) /\ WF_vars(CheckStep(t))
  /\ WF_vars(ResumeLoop) /\ WF_vars(KeepAliveFires) /\ WF_vars(CheckLoop)
  /\ \A r \in Row : SF_vars(DueAgain(r))

FairSpec == Spec /\ Fairness

-----------------------------------------------------------------------------
(* Properties *)

\* A login under way outlives a crash: it has a row of t_job a restarted agent polls on
\* from, unless its goroutine has only just been submitted.  A crash or a failing Save
\* there loses it, and so does a resumed goroutine that deletes the job it did not poll for.
LoginRemembered ==
  \A c \in owed : c \in jobs \/ \E t \in Task : pc[t] = "save" /\ link[t] = c

\* An account has one row, and one more only for each login that counted none while another
\* login of the same account was between its count and its insert.
DuplicatesBounded == \A u \in Uid : Cardinality(RowsOf(u)) <= 1 + overlap[u]

\* Whose row is expired is whose token was judged, although the closures of keepAlive share
\* the loop variable and rows are read long before they are expired.
VerdictOnOwn ==
  [][\A r \in Row : status[r] = 1 /\ status'[r] = -1 =>
       \E t \in Task : pc[t] = "mark" /\ scanned[link[t]] = uid[r]]_vars

\* Whatever the site answers, polling for a scan ends.
PollingEnds == \A t \in Task : pc[t] = "poll" ~> pc[t] # "poll"

\* A login that is no longer good is noticed: its row is expired, or has a new token.
DeadLoginNoticed ==
  \A r \in Row, c \in Link :
    token[r] = c /\ status[r] = 1 /\ c \notin good ~> status[r] = -1 \/ token[r] # c

=============================================================================
