--------------------------- MODULE MCStudyQueue ---------------------------
(* Instances of StudyQueue for TLC. *)
EXTENDS StudyQueue, TLC

Symmetry == Permutations(Task)

(* No mark and no crash; no study earns enough points, which the second query of the cron
   job alone would read.  There are two ways to go on:
   - the first user's login expires before all else, and is never renewed: the other's
     study may be delayed, and be asked for right now, while time goes by;
   - both logins are good, and all begins when the time of the model is over: no delay, no
     request, but two users' goroutines and the cron job's loop over both. *)
First == CHOOSE u \in User : TRUE
Alone == status[First] = Expired
Quiet ==
  /\ UNCHANGED <<onlyLogin, crashes, done>>
  /\ \/ UNCHANGED status
     \/ ~Alone /\ now = 0 /\ status'[First] = Expired
  /\ IF Alone THEN \A t \in Task : user'[t] # First
     ELSE requests' = requests /\ (now < MaxTime => toStudy' = {})

(* A mark only keeps the cron job from a user; it comes when all else is over. *)
MarkedLast ==
  \/ onlyLogin' = onlyLogin
  \/ /\ now = MaxTime /\ requests + crashes > 0
     /\ \A t \in Task : pc[t] = "idle"

(* A request at any point, for a user whose login is good, or a crash at any point.
   After it no login changes; a dealFailedToken whose transaction fails is still there. *)
OneDisturbance ==
  /\ requests' + crashes' <= 1
  /\ requests' # requests => \A u \in User : status[u] = 1
  /\ requests + crashes = 1 => status' = status
=============================================================================
