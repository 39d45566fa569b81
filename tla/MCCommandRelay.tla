-------------------------- MODULE MCCommandRelay --------------------------
(* Instances of CommandRelay for TLC: two people and a few messages. *)
EXTENDS CommandRelay, TLC

CONSTANTS d1, d2, a1, a2, m1, m2, m3

Owners  == d1 :> a1 @@ d2 :> a2
Senders == [m \in Message |-> IF m \in {m1, m3} THEN d1 ELSE d2]
Names   == [m \in Message |-> IF m = m1 THEN Unknown ELSE a1]

\* A message that pauses, with a request that is refused unless another resumes meanwhile;
\* then two logins that ask for more, for the same name among it, one of which resumes.
Mixed == m1 :> {"pause", "bind"} @@ m2 :> {"login", "study", "bind"}
         @@ m3 :> {"resume", "login", "statistics", "bind"}

\* Requests to study of two people, and one for the mark.
Listed == m1 :> {"study"} @@ m2 :> {"study"} @@ m3 :> {"tag"}

\* Of the failures a loss and a call given up on, or a restart.
FewFailures ==
  /\ losses' + strayed' + restarts' <= 2
  /\ restarts' > 0 => losses' + strayed' = 0

\* People log in between the agent's rounds, when nobody waits for a link and no handler
\* runs, none of which looks at what they do.
LoginsBetween ==
  \/ links \subseteq links' /\ (dingtalkId' = dingtalkId \/ ask' # ask)
  \/ apc = "sleep" /\ loginReq = <<>> /\ \A m \in Message : pc[m] \in {"unsent", "done"}

\* The others have logged in through the chat before: one account is enough without an id.
OwnedInit == Init /\ \A a \in Account \ AtPage : dingtalkId[a] # NoDing
OwnedSpec == OwnedInit /\ [][Next]_vars /\ Fairness
=============================================================================
