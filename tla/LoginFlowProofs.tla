-------------------------- MODULE LoginFlowProofs --------------------------
(***************************************************************************)
(* Proofs about LoginFlow, for any accounts, links, goroutines and rows:   *)
(* its types, that a login under way has its row of t_job, that a row is   *)
(* expired for a token of its own account, and how many rows an account    *)
(* can have.  All rest on Started, which says what a goroutine holds at    *)
(* each place.                                                             *)
(***************************************************************************)
EXTENDS LoginFlow, FiniteSetTheorems, TLAPS

LoginLocation == {"save", "poll", "login", "write", "delete"}
CheckLocation == {"sleep", "fine", "mark"}

\* A goroutine that logs in holds a link that was handed out, and one that was scanned from
\* the moment it has seen the scan; what LoadLoginJobs resumes was handed out as well.
HoldsLink ==
  /\ \A t \in Task : pc[t] \in LoginLocation => link[t] \in given
  /\ \A t \in Task : pc[t] \in {"login", "write"} => scanned[link[t]] # NoUid
  /\ \A t \in Task : pc[t] = "resume" \/ resumed[t] => resumeJob \in given
  /\ jobs \subseteq given /\ toResume \subseteq given /\ owed \subseteq given

\* A goroutine that checks a login holds a row.
HoldsRow ==
  /\ \A t \in Task : pc[t] = "closure" => checkUser \in Row
  /\ \A t \in Task : pc[t] \in CheckLocation => row[t] \in Row

Started == TypeOK /\ HoldsLink /\ HoldsRow

LEMMA LoginInit == Init => Started
BY LoginAssumption, LoginNoneAssumption
DEF Init, Started, TypeOK, HoldsLink, HoldsRow, Location, LoginLocation, CheckLocation

USE DEF Location, LoginLocation, CheckLocation

LEMMA LoginStarted ==
  ASSUME Started, NEW t \in Task, LoginStep(t)
  PROVE  Started'
<1> USE LoginAssumption DEF userVars, siteVars, loopVars, histVars, Goto
<1>1. CASE SavesJob(t)
  BY <1>1 DEF Started, TypeOK, HoldsLink, HoldsRow, SavesJob
<1>2. CASE Resumes(t)
  BY <1>2 DEF Started, TypeOK, HoldsLink, HoldsRow, Resumes
<1>3. CASE Asks(t)
  BY <1>3 DEF Started, TypeOK, HoldsLink, HoldsRow, Asks
<1>4. CASE FindsScan(t)
  BY <1>4 DEF Started, TypeOK, HoldsLink, HoldsRow, FindsScan
<1>5. CASE GivesUp(t)
  BY <1>5 DEF Started, TypeOK, HoldsLink, HoldsRow, GivesUp
<1>6. CASE LoginFails(t)
  BY <1>6 DEF Started, TypeOK, HoldsLink, HoldsRow, LoginFails
<1>7. CASE LoginPanics(t)
  BY <1>7 DEF Started, TypeOK, HoldsLink, HoldsRow, LoginPanics, Return
<1>8. CASE Counts(t)
  <2> DEFINE u == scanned[link[t]]
             found == RowsOf(u) # {}
  <2>1. none' = [none EXCEPT ![t] = ~found]
    BY <1>8 DEF Counts
  <2>2. overlap' \in {overlap, [overlap EXCEPT ![u] = @ + 1]}
    BY <1>8 DEF Counts
  <2>3. none \in [Task -> BOOLEAN] /\ found \in BOOLEAN
    BY DEF Started, TypeOK
  <2> HIDE DEF found
  <2>4. none' \in [Task -> BOOLEAN]
    BY <2>1, <2>3
  <2>5. overlap' \in [Uid -> Nat]
    BY <2>2 DEF Started, TypeOK
  <2> QED BY <1>8, <2>4, <2>5 DEF Started, TypeOK, HoldsLink, HoldsRow, Counts
<1>9. CASE Writes(t)
  <2>1. scanned[link[t]] \in Uid /\ link[t] \in Link
    BY <1>9 DEF Started, TypeOK, HoldsLink, Writes
  <2>2. uid' \in [Row -> Uid \cup {NoUid}] /\ token' \in [Row -> Link \cup {NoLink}]
        /\ status' \in [Row -> {1, -1}]
    BY <1>9, <2>1 DEF Started, TypeOK, Writes
  <2> QED BY <1>9, <2>2 DEF Started, TypeOK, HoldsLink, HoldsRow, Writes
<1>10. CASE DeletesJob(t)
  BY <1>10 DEF Started, TypeOK, HoldsLink, HoldsRow, DeletesJob, WithoutJob, Return
<1> QED
  BY <1>1, <1>2, <1>3, <1>4, <1>5, <1>6, <1>7, <1>8, <1>9, <1>10 DEF LoginStep

LEMMA CheckStarted ==
  ASSUME Started, NEW t \in Task, CheckStep(t)
  PROVE  Started'
<1> USE LoginAssumption DEF userVars, siteVars, loopVars, histVars, Goto
<1>1. CASE Sleeps(t)
  BY <1>1 DEF Started, TypeOK, HoldsLink, HoldsRow, Sleeps
<1>2. CASE Judges(t)
  BY <1>2 DEF Started, TypeOK, HoldsLink, HoldsRow, Judges
<1>3. CASE Records(t)
  <2>1. due' \in [Row -> BOOLEAN] /\ status' \in [Row -> {1, -1}]
    BY <1>3 DEF Started, TypeOK, Records, AfterCheck
  <2> QED BY <1>3, <2>1 DEF Started, TypeOK, HoldsLink, HoldsRow, Records, Return
<1> QED BY <1>1, <1>2, <1>3 DEF CheckStep

LEMMA OthersStarted ==
  ASSUME Started, ResumeLoop \/ KeepAliveFires \/ CheckLoop \/ (\E r \in Row : DueAgain(r))
                  \/ Environment \/ UNCHANGED vars
  PROVE  Started'
<1> USE LoginAssumption
    DEF userVars, siteVars, taskVars, loopVars, histVars, Goto
<1>1. CASE ResumeLoop
  BY <1>1 DEF ResumeLoop, ResumesNext, Started, TypeOK, HoldsLink, HoldsRow
<1>2. CASE KeepAliveFires
  BY <1>2 DEF KeepAliveFires, Started, TypeOK, HoldsLink, HoldsRow
<1>3. CASE CheckLoop
  BY <1>3 DEF CheckLoop, ChecksNext, Started, TypeOK, HoldsLink, HoldsRow
<1>4. CASE \E r \in Row : DueAgain(r)
  BY <1>4 DEF DueAgain, Started, TypeOK, HoldsLink, HoldsRow
<1>5. CASE \E c \in Link, t \in Task : Generates(c, t)
  BY <1>5 DEF Generates, Started, TypeOK, HoldsLink, HoldsRow
<1>6. CASE \E c \in Link, u \in Uid : Scans(c, u)
  BY <1>6, LoginNoneAssumption DEF Scans, Started, TypeOK, HoldsLink, HoldsRow
<1>7. CASE \E c \in Link : TokenDies(c)
  BY <1>7 DEF TokenDies, Started, TypeOK, HoldsLink, HoldsRow
<1>8. CASE Crashes
  BY <1>8 DEF Crashes, Started, TypeOK, HoldsLink, HoldsRow
<1>9. CASE UNCHANGED vars
  BY <1>9 DEF vars, Started, TypeOK, HoldsLink, HoldsRow
<1> QED BY <1>1, <1>2, <1>3, <1>4, <1>5, <1>6, <1>7, <1>8, <1>9 DEF Environment

LEMMA StartedStep == Started /\ [Next]_vars => Started'
BY LoginStarted, CheckStarted, OthersStarted DEF Next

\* What a goroutine holds at each place is an invariant: the theorems below rest on it.
THEOREM LoginStarts == Spec => []Started
BY LoginInit, StartedStep, PTL DEF Spec

\* The variables have their types: nobody asks more often than Tries.
THEOREM LoginTypeOK == Spec => []TypeOK
<1>1. Started => TypeOK
  BY DEF Started
<1> QED BY <1>1, LoginStarts, PTL

-----------------------------------------------------------------------------
(* A login under way has its row. *)

\* A goroutine about to delete its job has no login under way.
Decided == \A t \in Task : pc[t] = "delete" => link[t] \notin owed

LEMMA RememberedInit == Init => Decided /\ LoginRemembered
BY DEF Init, Decided, LoginRemembered

LEMMA RememberedLogin ==
  ASSUME Started, Decided, LoginRemembered, NEW t \in Task, LoginStep(t)
  PROVE  Decided' /\ LoginRemembered'
<1> USE DEF Goto, Started, TypeOK, userVars, siteVars, loopVars, histVars
<1>1. CASE SavesJob(t)
  BY <1>1 DEF SavesJob, Decided, LoginRemembered
<1>2. CASE Resumes(t)
  BY <1>2 DEF Resumes, Decided, LoginRemembered
<1>3. CASE Asks(t) \/ FindsScan(t) \/ Counts(t)
  BY <1>3 DEF Asks, FindsScan, Counts, Decided, LoginRemembered
<1>4. CASE GivesUp(t) \/ LoginFails(t) \/ Writes(t)
  BY <1>4 DEF GivesUp, LoginFails, Writes, Decided, LoginRemembered
<1>5. CASE LoginPanics(t)
  BY <1>5 DEF LoginPanics, Return, Decided, LoginRemembered
\* what it deletes is either its own, and decided, or taken off the logins under way
<1>6. CASE DeletesJob(t)
  BY <1>6 DEF DeletesJob, WithoutJob, Return, Decided, LoginRemembered
<1> QED BY <1>1, <1>2, <1>3, <1>4, <1>5, <1>6 DEF LoginStep

LEMMA RememberedStep ==
  Started /\ Decided /\ LoginRemembered /\ [Next]_vars => Decided' /\ LoginRemembered'
<1> SUFFICES ASSUME Started, Decided, LoginRemembered, [Next]_vars
             PROVE  Decided' /\ LoginRemembered'
  OBVIOUS
<1> USE DEF Started, TypeOK, Goto, userVars, siteVars, taskVars, loopVars, histVars
<1>1. ASSUME NEW t \in Task, CheckStep(t) PROVE Decided' /\ LoginRemembered'
  <2>1. CASE Sleeps(t) \/ Judges(t)
    BY <2>1 DEF Sleeps, Judges, Decided, LoginRemembered
  <2>2. CASE Records(t)
    BY <2>2 DEF Records, Return, Decided, LoginRemembered
  <2> QED BY <1>1, <2>1, <2>2 DEF CheckStep
<1>2. CASE ResumeLoop \/ CheckLoop
  BY <1>2 DEF ResumeLoop, CheckLoop, ResumesNext, ChecksNext, Decided, LoginRemembered
<1>3. CASE KeepAliveFires \/ (\E r \in Row : DueAgain(r)) \/ UNCHANGED vars
  BY <1>3 DEF KeepAliveFires, DueAgain, vars, Decided, LoginRemembered
\* the link is new: no goroutine holds it yet
<1>4. CASE \E c \in Link, t \in Task : Generates(c, t)
  BY <1>4 DEF Generates, HoldsLink, Decided, LoginRemembered
<1>5. CASE (\E c \in Link, u \in Uid : Scans(c, u)) \/ (\E c \in Link : TokenDies(c))
  BY <1>5 DEF Scans, TokenDies, Decided, LoginRemembered
<1>6. CASE Crashes
  BY <1>6 DEF Crashes, Decided, LoginRemembered
<1> QED BY RememberedLogin, <1>1, <1>2, <1>3, <1>4, <1>5, <1>6 DEF Next, Environment

\* However many crashes, errors and resumptions: a login under way has a row of t_job to be
\* polled on from, or its goroutine is about to save it.
THEOREM LoginsRemembered == Spec => []LoginRemembered
BY RememberedInit, RememberedStep, LoginStarts, PTL DEF Spec

-----------------------------------------------------------------------------
(***************************************************************************)
(* Who is expired.  A token belongs to the account that scanned its link;  *)
(* it stays with rows of that account from UpdateByUid through the rows    *)
(* keepAlive read, the pair the closures share and the one a sleeping      *)
(* goroutine holds.                                                        *)
(***************************************************************************)
OwnToken(c, r) == c \in Link /\ uid[r] # NoUid /\ scanned[c] = uid[r]

TokensOwn ==
  /\ \A r \in Row : uid[r] # NoUid => OwnToken(token[r], r)
  /\ \A r \in Row : read[r] # NoLink => OwnToken(read[r], r)
  /\ \A r \in toCheck : read[r] # NoLink
  /\ \A t \in Task : pc[t] = "closure" => read[checkUser] # NoLink
  /\ \A t \in Task : pc[t] \in CheckLocation => OwnToken(link[t], row[t])

LEMMA TokensInit == Init => TokensOwn
BY DEF Init, TokensOwn

\* Rows keep their account, links who scanned them.
LEMMA OwnForGood ==
  ASSUME Started, [Next]_vars, NEW c, NEW r \in Row, OwnToken(c, r)
  PROVE  OwnToken(c, r)'
<1>1. uid'[r] = uid[r] \/ \E t \in Task : Writes(t)
  BY DEF Next, LoginStep, CheckStep, ResumeLoop, CheckLoop, Environment, vars, userVars,
         SavesJob, Resumes, Asks, FindsScan, GivesUp, LoginFails, LoginPanics, Counts,
         DeletesJob, Sleeps, Judges, Records, ResumesNext, ChecksNext, KeepAliveFires,
         DueAgain, Generates, Scans, TokenDies, Crashes
<1>2. ASSUME NEW t \in Task, Writes(t) PROVE uid'[r] = uid[r]
  BY <1>2 DEF Writes, FreshRow, OwnToken, Started, TypeOK
<1>3. scanned'[c] = scanned[c] \/ \E d \in Link, u \in Uid : Scans(d, u)
  BY DEF Next, LoginStep, CheckStep, ResumeLoop, CheckLoop, Environment, vars, siteVars,
         SavesJob, Resumes, Asks, FindsScan, GivesUp, LoginFails, LoginPanics, Counts,
         Writes, DeletesJob, Sleeps, Judges, Records, ResumesNext, ChecksNext,
         KeepAliveFires, DueAgain, Generates, TokenDies, Crashes
<1>4. ASSUME NEW d \in Link, NEW u \in Uid, Scans(d, u) PROVE scanned'[c] = scanned[c]
  BY <1>4 DEF Scans, OwnToken, Started, TypeOK
<1> QED BY <1>1, <1>2, <1>3, <1>4 DEF OwnToken

LEMMA TokensStep == Started /\ TokensOwn /\ [Next]_vars => TokensOwn'
<1> SUFFICES ASSUME Started, TokensOwn, [Next]_vars
             PROVE  TokensOwn'
  OBVIOUS
<1>1. \A c : \A r \in Row : OwnToken(c, r) => OwnToken(c, r)'
  BY OwnForGood
\* the rows
<1>2. ASSUME NEW r \in Row, uid'[r] # NoUid PROVE OwnToken(token[r], r)'
  <2>1. CASE \E t \in Task : Writes(t)
    <3>1. PICK t \in Task : Writes(t)
      BY <2>1
    <3>2. link[t] \in Link /\ scanned[link[t]] \in Uid /\ scanned' = scanned
      BY <3>1 DEF Writes, siteVars, Started, TypeOK, HoldsLink
    <3>3. CASE token'[r] = token[r] /\ uid'[r] = uid[r]
      BY <3>3, <1>1, <1>2 DEF TokensOwn, OwnToken
    <3>4. CASE token'[r] = link[t] /\ uid'[r] = scanned[link[t]]
      BY <3>2, <3>4, LoginNoneAssumption DEF OwnToken
    <3>5. \/ token'[r] = token[r] /\ uid'[r] = uid[r]
          \/ token'[r] = link[t] /\ uid'[r] = scanned[link[t]]
      BY <3>1 DEF Writes, Started, TypeOK
    <3> QED BY <3>3, <3>4, <3>5
  <2>2. CASE ~ \E t \in Task : Writes(t)
    <3>1. token' = token /\ uid' = uid
      BY <2>2
      DEF Next, LoginStep, CheckStep, ResumeLoop, CheckLoop, Environment, vars, userVars,
          SavesJob, Resumes, Asks, FindsScan, GivesUp, LoginFails, LoginPanics, Counts,
          DeletesJob, Sleeps, Judges, Records, ResumesNext, ChecksNext, KeepAliveFires,
          DueAgain, Generates, Scans, TokenDies, Crashes
    <3> QED BY <3>1, <1>1, <1>2 DEF TokensOwn, OwnToken
  <2> QED BY <2>1, <2>2
\* what keepAlive read, and the closures' variable
<1>3. /\ \A r \in Row : read'[r] # NoLink => OwnToken(read[r], r)'
      /\ \A r \in toCheck' : read'[r] # NoLink
      /\ \A t \in Task : pc'[t] = "closure" => read'[checkUser'] # NoLink
  <2>1. CASE KeepAliveFires
    BY <2>1, <1>1, LoginNoneAssumption
    DEF KeepAliveFires, ToCheck, TokensOwn, taskVars, userVars, siteVars, OwnToken, Started, TypeOK
  <2>2. CASE CheckLoop
    BY <2>2, <1>1 DEF CheckLoop, ChecksNext, Goto, TokensOwn, OwnToken, Started, TypeOK
  <2>3. CASE Crashes
    BY <2>3 DEF Crashes
  <2>4. CASE ~KeepAliveFires /\ ~CheckLoop /\ ~Crashes
    <3>1. UNCHANGED <<toCheck, read, checkUser>>
      BY <2>4
      DEF Next, LoginStep, CheckStep, ResumeLoop, Environment, vars, loopVars,
          SavesJob, Resumes, Asks, FindsScan, GivesUp, LoginFails, LoginPanics, Counts,
          Writes, DeletesJob, Sleeps, Judges, Records, ResumesNext,
          DueAgain, Generates, Scans, TokenDies
    <3>2. \A t \in Task : pc'[t] = "closure" => pc[t] = "closure"
      BY <2>4
      DEF Next, LoginStep, CheckStep, ResumeLoop, Environment, vars, taskVars, Goto, Return,
          SavesJob, Resumes, Asks, FindsScan, GivesUp, LoginFails, LoginPanics, Counts,
          Writes, DeletesJob, Sleeps, Judges, Records, ResumesNext,
          DueAgain, Generates, Scans, TokenDies, Started, TypeOK
    <3> QED BY <3>1, <3>2, <1>1 DEF TokensOwn, OwnToken
  <2> QED BY <2>1, <2>2, <2>3, <2>4
\* what a sleeping goroutine holds
<1>4. ASSUME NEW t \in Task, pc'[t] \in CheckLocation PROVE OwnToken(link[t], row[t])'
  <2>1. CASE Sleeps(t)
    <3>1. checkUser \in Row /\ OwnToken(read[checkUser], checkUser)
      BY <2>1 DEF Sleeps, Started, HoldsRow, TokensOwn
    <3>2. link'[t] = read[checkUser] /\ row'[t] = checkUser
      BY <2>1 DEF Sleeps, Started, TypeOK
    <3> QED BY <3>1, <3>2, <1>1 DEF OwnToken
  <2>2. CASE ~Sleeps(t)
    <3>1. pc[t] \in CheckLocation /\ link'[t] = link[t] /\ row'[t] = row[t]
      BY <1>4, <2>2
      DEF Next, LoginStep, CheckStep, ResumeLoop, CheckLoop, Environment, vars, taskVars, Goto,
          Return, SavesJob, Resumes, Asks, FindsScan, GivesUp, LoginFails, LoginPanics, Counts,
          Writes, DeletesJob, Sleeps, Judges, Records, ResumesNext, ChecksNext, KeepAliveFires,
          DueAgain, Generates, Scans, TokenDies, Crashes, Started, TypeOK
    <3>2. row[t] \in Row /\ OwnToken(link[t], row[t])
      BY <3>1 DEF Started, HoldsRow, TokensOwn
    <3> QED BY <3>1, <3>2, <1>1 DEF OwnToken
  <2> QED BY <2>1, <2>2
<1> QED BY <1>2, <1>3, <1>4 DEF TokensOwn

LEMMA VerdictStep ==
  Started /\ TokensOwn /\ [Next]_vars
    => [\A r \in Row : status[r] = 1 /\ status'[r] = -1 =>
          \E t \in Task : pc[t] = "mark" /\ scanned[link[t]] = uid[r]]_vars
<1> SUFFICES ASSUME Started, TokensOwn, Next, NEW r \in Row, status[r] = 1, status'[r] = -1
             PROVE  \E t \in Task : pc[t] = "mark" /\ scanned[link[t]] = uid[r]
  OBVIOUS
<1>1. ASSUME NEW t \in Task, Writes(t) PROVE FALSE
  BY <1>1 DEF Writes, Started, TypeOK
<1>2. PICK t \in Task : Records(t)
  BY <1>1
  DEF Next, LoginStep, CheckStep, ResumeLoop, CheckLoop, Environment, userVars,
      SavesJob, Resumes, Asks, FindsScan, GivesUp, LoginFails, LoginPanics, Counts,
      DeletesJob, Sleeps, Judges, ResumesNext, ChecksNext, KeepAliveFires,
      DueAgain, Generates, Scans, TokenDies, Crashes
<1>3. pc[t] = "mark" /\ row[t] = r
  BY <1>2 DEF Records, AfterCheck, Judged, Started, TypeOK, HoldsRow
<1> QED BY <1>3 DEF TokensOwn, OwnToken

\* However late a verdict comes and whatever the closures share, the row it expires is one
\* of the account whose token was judged.
THEOREM LoginVerdictOnOwn == Spec => VerdictOnOwn
BY TokensInit, TokensStep, VerdictStep, LoginStarts, PTL DEF Spec, VerdictOnOwn

-----------------------------------------------------------------------------
(***************************************************************************)
(* How many rows an account has.  Inductive is the bound on the rows       *)
(* together with the goroutines about to insert one: a second goroutine    *)
(* joins them only while there is no row, and is counted in overlap.       *)
(***************************************************************************)
Bounded == \A u \in Uid : Cardinality(RowsOf(u)) + Cardinality(Inserting(u)) <= 1 + overlap[u]

LEMMA FiniteRows ==
  ASSUME NEW u
  PROVE  /\ IsFiniteSet(RowsOf(u)) /\ IsFiniteSet(Inserting(u))
         /\ Cardinality(RowsOf(u)) \in Nat /\ Cardinality(Inserting(u)) \in Nat
<1>1. RowsOf(u) \in SUBSET Row /\ Inserting(u) \in SUBSET Task
  BY DEF RowsOf, Inserting
<1>2. IsFiniteSet(RowsOf(u)) /\ IsFiniteSet(Inserting(u))
  BY <1>1, FS_Subset, LoginAssumption
<1> QED BY <1>2, FS_CardinalityType

LEMMA BoundedInit == Init => Bounded
<1> SUFFICES ASSUME Init, NEW u \in Uid
             PROVE  Cardinality(RowsOf(u)) + Cardinality(Inserting(u)) <= 1 + overlap[u]
  BY DEF Bounded
<1>1. RowsOf(u) = {} /\ Inserting(u) = {} /\ overlap[u] = 0
  BY LoginNoneAssumption DEF Init, RowsOf, Inserting
<1> QED BY <1>1, FS_EmptySet

\* A step that adds neither a row nor a goroutine about to insert one keeps the bound.
LEMMA BoundedShrinks ==
  ASSUME Started, Bounded, uid' = uid, overlap' = overlap,
         \A u \in Uid : Inserting(u)' \subseteq Inserting(u)
  PROVE  Bounded'
<1> SUFFICES ASSUME NEW u \in Uid
             PROVE  (Cardinality(RowsOf(u)) + Cardinality(Inserting(u)) <= 1 + overlap[u])'
  BY DEF Bounded
<1>1. RowsOf(u)' = RowsOf(u)
  BY DEF RowsOf
<1>2. Cardinality(Inserting(u)') <= Cardinality(Inserting(u)) /\ Cardinality(Inserting(u)') \in Nat
  BY FiniteRows, FS_Subset, FS_CardinalityType
<1>3. overlap[u] \in Nat
  BY DEF Started, TypeOK
<1> QED BY <1>1, <1>2, <1>3, FiniteRows DEF Bounded

LEMMA BoundedCounts ==
  ASSUME Started, Bounded, NEW t \in Task, Counts(t)
  PROVE  Bounded'
<1> DEFINE v == scanned[link[t]]
<1>1. v \in Uid
  BY DEF Counts, Started, TypeOK, HoldsLink
<1>2. UNCHANGED <<uid, scanned, link>> /\ t \in Task /\ pc[t] = "login"
      /\ pc' = [pc EXCEPT ![t] = "write"]
      /\ none' = [none EXCEPT ![t] = RowsOf(v) = {}]
  BY DEF Counts, userVars, siteVars, Goto
<1>3. pc'[t] = "write" /\ \A s \in Task : s # t => pc'[s] = pc[s] /\ none'[s] = none[s]
  BY <1>2 DEF Started, TypeOK
<1>4. none'[t] <=> RowsOf(v) = {}
  BY <1>2 DEF Started, TypeOK
<1>5. \A u \in Uid : Inserting(u)' = IF RowsOf(v) = {} /\ u = v THEN Inserting(u) \cup {t} ELSE Inserting(u)
  BY <1>1, <1>2, <1>3, <1>4 DEF Inserting
<1>6. overlap' = IF none'[t] /\ Inserting(v) # {} THEN [overlap EXCEPT ![v] = @ + 1] ELSE overlap
  BY DEF Counts
<1>7. CASE RowsOf(v) # {}
  BY <1>2, <1>4, <1>5, <1>6, <1>7, BoundedShrinks
<1>8. CASE RowsOf(v) = {}
  <2> SUFFICES ASSUME NEW u \in Uid
               PROVE  (Cardinality(RowsOf(u)) + Cardinality(Inserting(u)) <= 1 + overlap[u])'
    BY DEF Bounded
  <2>1. RowsOf(u)' = RowsOf(u)
    BY <1>2 DEF RowsOf
  <2>2. overlap[u] \in Nat /\ overlap \in [Uid -> Nat]
    BY DEF Started, TypeOK
  <2>3. CASE u # v
    <3>1. Inserting(u)' = Inserting(u) /\ overlap'[u] = overlap[u]
      BY <1>5, <1>6, <2>2, <2>3
    <3> QED BY <2>1, <3>1 DEF Bounded
  <2>4. CASE u = v
    <3>1. Inserting(u)' = Inserting(u) \cup {t} /\ t \notin Inserting(u)
      BY <1>2, <1>5, <1>8, <2>4 DEF Inserting
    <3>2. Cardinality(Inserting(u)') = Cardinality(Inserting(u)) + 1
      BY <3>1, FiniteRows, FS_AddElement
    <3>3. Cardinality(RowsOf(u)) = 0
      BY <1>8, <2>4, FS_EmptySet
    <3>4. CASE Inserting(u) = {}
      <4>1. overlap'[u] = overlap[u] /\ Cardinality(Inserting(u)) = 0
        BY <1>6, <2>4, <3>4, FS_EmptySet
      <4> QED BY <2>1, <2>2, <3>2, <3>3, <4>1
    <3>5. CASE Inserting(u) # {}
      <4>1. overlap'[u] = overlap[u] + 1
        BY <1>1, <1>4, <1>6, <1>8, <2>2, <2>4, <3>5
      <4> QED BY <2>1, <2>2, <3>2, <3>3, <4>1, FiniteRows DEF Bounded
    <3> QED BY <3>4, <3>5
  <2> QED BY <2>3, <2>4
<1> QED BY <1>7, <1>8

LEMMA BoundedWrites ==
  ASSUME Started, Bounded, NEW t \in Task, Writes(t)
  PROVE  Bounded'
<1> DEFINE v == scanned[link[t]]
<1>1. v \in Uid
  BY DEF Writes, Started, TypeOK, HoldsLink
<1>2. UNCHANGED <<overlap, scanned, link, none>> /\ pc[t] = "write"
      /\ pc' = [pc EXCEPT ![t] = "delete"]
  BY DEF Writes, siteVars, Goto
<1>3. pc'[t] = "delete" /\ \A s \in Task : s # t => pc'[s] = pc[s]
  BY <1>2 DEF Started, TypeOK
<1>4. \A u \in Uid : Inserting(u)' = Inserting(u) \ {t}
  BY <1>2, <1>3 DEF Inserting
<1>5. CASE uid' = uid
  BY <1>2, <1>4, <1>5, BoundedShrinks
<1>6. CASE \E r \in Row : none[t] /\ FreshRow(r) /\ uid' = [uid EXCEPT ![r] = v]
  <2>1. PICK r \in Row : none[t] /\ FreshRow(r) /\ uid' = [uid EXCEPT ![r] = v]
    BY <1>6
  <2> SUFFICES ASSUME NEW u \in Uid
               PROVE  (Cardinality(RowsOf(u)) + Cardinality(Inserting(u)) <= 1 + overlap[u])'
    BY DEF Bounded
  <2>2. uid[r] = NoUid /\ uid'[r] = v /\ \A s \in Row : s # r => uid'[s] = uid[s]
    BY <2>1 DEF FreshRow, Started, TypeOK
  <2>3. RowsOf(u)' = IF u = v THEN RowsOf(u) \cup {r} ELSE RowsOf(u)
    BY <2>2, LoginNoneAssumption DEF RowsOf
  <2>4. t \in Inserting(u) <=> u = v
    BY <1>2, <2>1 DEF Inserting
  <2>5. overlap'[u] = overlap[u] /\ overlap[u] \in Nat
    BY <1>2 DEF Started, TypeOK
  <2>6. CASE u = v
    <3>1. Cardinality(RowsOf(u)') = Cardinality(RowsOf(u)) + 1
      <4>1. RowsOf(u)' = RowsOf(u) \cup {r}
        BY <2>3, <2>6
      <4>2. r \notin RowsOf(u)
        BY <2>2, LoginNoneAssumption DEF RowsOf
      <4>3. IsFiniteSet(RowsOf(u))
        BY FiniteRows
      <4>4. Cardinality(RowsOf(u) \cup {r}) = Cardinality(RowsOf(u)) + 1
        BY <4>2, <4>3, FS_AddElement
      <4> QED BY <4>1, <4>4
    <3>2. Cardinality(Inserting(u)') = Cardinality(Inserting(u)) - 1
      BY <1>4, <2>4, <2>6, FiniteRows, FS_RemoveElement
    <3> QED BY <2>5, <3>1, <3>2, FiniteRows DEF Bounded
  <2>7. CASE u # v
    <3>1. RowsOf(u)' = RowsOf(u) /\ Inserting(u)' = Inserting(u)
      BY <1>4, <2>3, <2>4, <2>7
    <3> QED BY <2>5, <3>1 DEF Bounded
  <2> QED BY <2>6, <2>7
<1> QED BY <1>5, <1>6 DEF Writes

LEMMA BoundedStep == Started /\ Bounded /\ [Next]_vars => Bounded'
<1> SUFFICES ASSUME Started, Bounded, [Next]_vars, \A t \in Task : ~Counts(t) /\ ~Writes(t)
             PROVE  Bounded'
  BY BoundedCounts, BoundedWrites
<1>1. uid' = uid /\ overlap' = overlap
  BY DEF Next, LoginStep, CheckStep, ResumeLoop, CheckLoop, Environment, vars, userVars, histVars,
         SavesJob, Resumes, Asks, FindsScan, GivesUp, LoginFails, LoginPanics,
         DeletesJob, Sleeps, Judges, Records, ResumesNext, ChecksNext, KeepAliveFires,
         DueAgain, Generates, Scans, TokenDies, Crashes
<1>2. ASSUME NEW t \in Task, pc'[t] = "write"
      PROVE  pc[t] = "write" /\ none'[t] = none[t] /\ link'[t] = link[t]
  BY <1>2
  DEF Next, LoginStep, CheckStep, ResumeLoop, CheckLoop, Environment, vars, taskVars, Goto, Return,
      SavesJob, Resumes, Asks, FindsScan, GivesUp, LoginFails, LoginPanics,
      DeletesJob, Sleeps, Judges, Records, ResumesNext, ChecksNext, KeepAliveFires,
      DueAgain, Generates, Scans, TokenDies, Crashes, Started, TypeOK
<1>3. ASSUME NEW t \in Task, pc[t] = "write" PROVE scanned'[link[t]] = scanned[link[t]]
  <2>1. link[t] \in Link /\ scanned[link[t]] # NoUid
    BY <1>3 DEF Started, TypeOK, HoldsLink
  <2>2. scanned' = scanned \/ \E c \in Link, u \in Uid : Scans(c, u)
    BY DEF Next, LoginStep, CheckStep, ResumeLoop, CheckLoop, Environment, vars, siteVars,
           SavesJob, Resumes, Asks, FindsScan, GivesUp, LoginFails, LoginPanics,
           DeletesJob, Sleeps, Judges, Records, ResumesNext, ChecksNext, KeepAliveFires,
           DueAgain, Generates, TokenDies, Crashes
  <2> QED BY <2>1, <2>2 DEF Scans, Started, TypeOK
<1>4. \A u \in Uid : Inserting(u)' \subseteq Inserting(u)
  BY <1>2, <1>3 DEF Inserting
<1> QED BY <1>1, <1>4, BoundedShrinks

\* An account gets no more rows than one and one for each count that overlapped another
\* login's insert, however many links, goroutines and crashes there are.
THEOREM LoginDuplicatesBounded == Spec => []DuplicatesBounded
<1>1. Started /\ Bounded => DuplicatesBounded
  <2> SUFFICES ASSUME Started, Bounded, NEW u \in Uid
               PROVE  Cardinality(RowsOf(u)) <= 1 + overlap[u]
    BY DEF DuplicatesBounded
  <2> QED BY FiniteRows DEF Bounded, Started, TypeOK
<1> QED BY <1>1, BoundedInit, BoundedStep, LoginStarts, PTL DEF Spec

=============================================================================
