--------------------------- MODULE CommandRelay ---------------------------
(***************************************************************************)
(* How a chat command reaches the learning agent: the WAN server's         *)
(* handlers (internal/controller/wan/Index.go) keep what was asked in      *)
(* memory, and the agent polls for it and reports back                     *)
(* (internal/job/lan/CommunicationJob.go, fetchServerInfo).                *)
(*                                                                         *)
(* A Message is one chat message and what the handler of its request does. *)
(* Handlers of several messages run at once; only some of them take the    *)
(* lock.  Where the code keeps a person's id, list has it too; loginReq    *)
(* has the message it came with, and Sender is what the code would read.   *)
(* The agent makes one call at a time, but one it gave up on may still     *)
(* reach the server later: a stray.                                        *)
(***************************************************************************)
EXTENDS Integers, Sequences, FiniteSets, Functions

CONSTANTS
  Ding,          \* people, by their dingtalk id
  Account,       \* rows of t_user, by nick
  Own,           \* [Ding -> Account]: the account a person logs in with
  Message,       \* chat messages
  Sender,        \* [Message -> Ding]
  Commands,      \* [Message -> SUBSET Command]: the commands a message contains
  BindName,      \* [Message -> Account \cup {Unknown}]: the name in a bind command
  Unknown,       \* a name no row has
  AtPage,        \* accounts whose owners also log in at the agent's own page
  NoDing, NoName, NoMessage,
  MaxLosses,     \* bound on lost requests and answers and on failed fetches of a link
  MaxStrays,     \* bound on the calls the agent gives up on that arrive all the same
  MaxRestarts    \* bound on the restarts of the server

Command == {"login", "statistics", "bind", "study", "tag", "pause", "resume"}
Lists   == {"study", "tag"}        \* manualStudy and tagUser

ASSUME RelayAssumption ==
  /\ Own \in [Ding -> Account] /\ Sender \in [Message -> Ding]
  /\ Commands \in [Message -> SUBSET Command]
  /\ BindName \in [Message -> Account \cup {Unknown}]
  /\ AtPage \subseteq Account
  /\ MaxLosses \in Nat /\ MaxStrays \in Nat /\ MaxRestarts \in Nat

ASSUME NoneAssumption ==
  /\ NoDing \notin Ding /\ NoMessage \notin Message
  /\ Unknown \notin Account /\ NoName \notin Account \cup {Unknown}

VARIABLES
  \* the server
  loginReq,        \* logins asked for, oldest first
  needStatistics,
  bindUser,        \* the name each person asked to be bound to
  list,            \* manualStudy and tagUser: ids, repeated as often as they asked
  paused,
  pc,              \* of each message: whether its handler has set the pause and not read
                   \* it, then the next list it appends to
  loaded,          \* the list a handler, or the status handler, has read and not yet written
  taken,           \* the same of the status handler, for both lists
  \* the agent
  apc, ask, call,
  \* the network: calls given up on that are still to arrive
  strays,
  \* the accounts: t_user.dingtalk_id and only_login_tag; links told and not used,
  \* <<who was told, who it was made for>>, NoDing when nobody was named
  dingtalkId, onlyLogin, links,
  \* bounds and history
  losses, strayed, arrived, restarts, astray, misled, bound, told, handled, netLost

serverVars  == <<loginReq, needStatistics, bindUser, list, paused, pc, loaded, taken>>
agentVars   == <<apc, ask, call>>
accountVars == <<dingtalkId, onlyLogin, links>>
countVars   == <<losses, strayed, arrived, restarts>>
histVars    == <<astray, misled, bound, told, handled, netLost>>
vars == <<serverVars, agentVars, strays, accountVars, countVars, histVars>>

Name == Account \cup {Unknown}
NoCall == [kind |-> "none"]
NoAsk == [login |-> NoMessage, statistics |-> FALSE, bind |-> [d \in Ding |-> NoName],
          study |-> <<>>, tag |-> <<>>]

Call == {NoCall} \cup [kind : {"link"}, arg : Ding] \cup [kind : {"statistics"}]
        \cup [kind : {"bind"}, arg : Name]

Handed == (Ding \cup {NoDing}) \X Ding

TypeOK ==
  /\ loginReq \in Seq(Message) /\ needStatistics \in BOOLEAN
  /\ bindUser \in [Ding -> Name \cup {NoName}]
  /\ list \in [Lists -> Seq(Ding)]
  /\ paused \in BOOLEAN
  /\ pc \in [Message -> {"unsent", "flag", "done"} \cup Lists]
  /\ loaded \in [Message -> [read : BOOLEAN, got : Seq(Ding)]]
  /\ taken \in [Lists -> Seq(Ding)]
  /\ apc \in {"sleep", "ask", "taking", "answer", "link", "statistics", "bind", "lists"}
  /\ ask \in [login : Message \cup {NoMessage}, statistics : BOOLEAN,
              bind : [Ding -> Name \cup {NoName}], study : Seq(Ding),
              tag : Seq(Ding)]
  /\ call \in Call /\ strays \in SUBSET ((Call \ {NoCall}) \X Nat)
  /\ dingtalkId \in [Account -> Ding \cup {NoDing}]
  /\ onlyLogin \in SUBSET Account /\ links \in SUBSET Handed
  /\ losses \in Nat /\ strayed \in Nat /\ arrived \in Nat /\ restarts \in Nat
  /\ astray \in Nat /\ misled \in SUBSET Handed
  /\ bound \in SUBSET (Name \X Ding) /\ told \in SUBSET (Ding \X Name)
  /\ handled \in SUBSET Ding /\ netLost \in SUBSET Ding

Init ==
  /\ loginReq = <<>> /\ needStatistics = FALSE
  /\ bindUser = [d \in Ding |-> NoName]
  /\ list = [c \in Lists |-> <<>>] /\ taken = [c \in Lists |-> <<>>]
  /\ paused = FALSE
  /\ pc = [m \in Message |-> "unsent"]
  /\ loaded = [m \in Message |-> [read |-> FALSE, got |-> <<>>]]
  /\ apc = "sleep" /\ ask = NoAsk /\ call = NoCall /\ strays = {}
  \* some have logged in before
  /\ dingtalkId \in [Account -> Ding \cup {NoDing}]
  /\ \A a \in Account : dingtalkId[a] # NoDing => Own[dingtalkId[a]] = a
  /\ onlyLogin = {} /\ links = {}
  /\ losses = 0 /\ strayed = 0 /\ arrived = 0 /\ restarts = 0 /\ astray = 0 /\ misled = {}
  /\ bound = {} /\ told = {} /\ handled = {} /\ netLost = {}

-----------------------------------------------------------------------------
(* The handler of POST /dingtalk *)

Says(m, c) == c \in Commands[m]

\* locker: a login command holds it to the end of its handler, the status handler all along.
Locked == apc = "taking" \/ \E m \in Message : Says(m, "login") /\ pc[m] \in Lists

\* mutant: a message that asks for no list is left in a state of its own
FirstList_answered(m) ==
  IF Says(m, "study") THEN "study" ELSE IF Says(m, "tag") THEN "tag" ELSE "answered"

\* Where the handler goes first, and after a list.
FirstList(m) == IF Says(m, "study") THEN "study" ELSE IF Says(m, "tag") THEN "tag" ELSE "done"
NextList(m) == IF pc[m] = "study" /\ Says(m, "tag") THEN "tag" ELSE "done"

\* Whatever the configuration says by the time it is read: another message may have come
\* between.  Who neither pauses nor resumes reads it first of all.
Flags(m) == Says(m, "pause") \/ Says(m, "resume")
Reads(m) == pc[m] = "flag" \/ (pc[m] = "unsent" /\ ~Flags(m))

SetsPause(m) ==
  /\ pc[m] = "unsent" /\ Flags(m)
  /\ paused' = Says(m, "pause")
  /\ pc' = [pc EXCEPT ![m] = "flag"]
  /\ UNCHANGED <<loginReq, needStatistics, bindUser, list, loaded, taken, agentVars, strays,
                 accountVars, countVars, histVars>>

\* While paused nothing else of a message is looked at.
Refuses(m) ==
  /\ Reads(m) /\ paused
  /\ pc' = [pc EXCEPT ![m] = "done"]
  /\ UNCHANGED <<loginReq, needStatistics, bindUser, list, paused, loaded, taken, agentVars,
                 strays, accountVars, countVars, histVars>>

\* The commands whose state has a lock, is atomic, or is written in one assignment.
Accepts(m) ==
  /\ Reads(m) /\ ~paused
  /\ Says(m, "login") => ~Locked
  /\ loginReq' = IF Says(m, "login") THEN Append(loginReq, m) ELSE loginReq
  /\ needStatistics' = (needStatistics \/ Says(m, "statistics"))
  /\ bindUser' = IF Says(m, "bind") THEN [bindUser EXCEPT ![Sender[m]] = BindName[m]]
                                    ELSE bindUser
  /\ pc' = [pc EXCEPT ![m] = FirstList(m)]
  /\ UNCHANGED <<list, paused, loaded, taken, agentVars, strays, accountVars, countVars, histVars>>

\* append(manualStudy, id) reads the slice ...
LoadsList(m) ==
  /\ pc[m] \in Lists /\ ~loaded[m].read
  /\ loaded' = [loaded EXCEPT ![m] = [read |-> TRUE, got |-> list[pc[m]]]]
  /\ UNCHANGED <<loginReq, needStatistics, bindUser, list, paused, pc, taken, agentVars, strays,
                 accountVars, countVars, histVars>>

\* ... and the assignment writes it, with no lock; then the sender is told to wait.
StoresList(m) ==
  /\ pc[m] \in Lists /\ loaded[m].read
  /\ list' = [list EXCEPT ![pc[m]] = Append(loaded[m].got, Sender[m])]
  /\ loaded' = [loaded EXCEPT ![m] = [read |-> FALSE, got |-> <<>>]]
  /\ pc' = [pc EXCEPT ![m] = NextList(m)]
  /\ UNCHANGED <<loginReq, needStatistics, bindUser, paused, taken, agentVars, strays,
                 accountVars, countVars, histVars>>

-----------------------------------------------------------------------------
(* GET /api/v1/status, which the agent asks for every few seconds *)

Polls ==
  /\ apc = "sleep" /\ call = NoCall /\ apc' = "ask"
  /\ UNCHANGED <<serverVars, ask, call, strays, accountVars, countVars, histVars>>

\* Under the lock: read both lists ...
TakesLists ==
  /\ apc = "ask" /\ ~Locked
  /\ taken' = list
  /\ apc' = "taking"
  /\ UNCHANGED <<loginReq, needStatistics, bindUser, list, paused, pc, loaded, ask, call, strays,
                 accountVars, countVars, histVars>>

\* ... and empty them.  The login stays at the head of its queue until its link comes.
AnswersStatus ==
  /\ apc = "taking"
  /\ list' = [c \in Lists |-> <<>>] /\ taken' = [c \in Lists |-> <<>>]
  /\ ask' = [login |-> IF loginReq = <<>> THEN NoMessage ELSE Head(loginReq),
             statistics |-> needStatistics, bind |-> bindUser,
             study |-> taken["study"], tag |-> taken["tag"]]
  /\ apc' = "answer"
  /\ UNCHANGED <<loginReq, needStatistics, bindUser, paused, pc, loaded, call, strays,
                 accountVars, countVars, histVars>>

ReceivesStatus ==
  /\ apc = "answer" /\ apc' = "link"
  /\ UNCHANGED <<serverVars, ask, call, strays, accountVars, countVars, histVars>>

\* The request or its answer is lost: what the answer held is held nowhere else.
StatusLost ==
  /\ losses < MaxLosses /\ losses' = losses + 1
  /\ apc \in {"ask", "answer"} /\ apc' = "sleep"
  /\ netLost' = netLost \cup Range(ask.study) \cup Range(ask.tag)
  /\ ask' = NoAsk
  /\ UNCHANGED <<serverVars, call, strays, accountVars, strayed, arrived, restarts, astray,
                 misled, bound, told, handled>>

-----------------------------------------------------------------------------
(* fetchServerInfo, once it has the answer *)

\* The link is made for the person at the head of the queue; a login job waits for it.
PostsLink ==
  /\ apc = "link" /\ ask.login # NoMessage /\ call = NoCall
  /\ call' = [kind |-> "link", arg |-> Sender[ask.login]]
  /\ apc' = "statistics"
  /\ UNCHANGED <<serverVars, ask, strays, accountVars, countVars, histVars>>

FetchFails ==
  /\ apc = "link" /\ ask.login # NoMessage
  /\ losses < MaxLosses /\ losses' = losses + 1
  /\ apc' = "statistics"
  /\ UNCHANGED <<serverVars, ask, call, strays, accountVars, strayed, arrived, restarts, histVars>>

NoLinkNeeded ==
  /\ apc = "link" /\ ask.login = NoMessage /\ apc' = "statistics"
  /\ UNCHANGED <<serverVars, ask, call, strays, accountVars, countVars, histVars>>

PostsStatistics ==
  /\ apc = "statistics" /\ call = NoCall
  /\ call' = IF ask.statistics THEN [kind |-> "statistics"] ELSE NoCall
  /\ apc' = "bind"
  /\ UNCHANGED <<serverVars, ask, strays, accountVars, countVars, histVars>>

\* mutant: the call is made whether a row was updated or not
BindsUser_always(d) ==
  LET n == ask.bind[d] IN
  /\ apc = "bind" /\ call = NoCall /\ n # NoName
  /\ ask' = [ask EXCEPT !.bind[d] = NoName]
  /\ IF n \in Account
       THEN /\ dingtalkId' = [dingtalkId EXCEPT ![n] = d]
            /\ bound' = bound \cup {<<n, d>>}
       ELSE UNCHANGED <<dingtalkId, bound>>
  /\ call' = [kind |-> "bind", arg |-> n]
  /\ UNCHANGED <<serverVars, apc, strays, onlyLogin, links, countVars, astray, misled, told,
                 handled, netLost>>

\* mutant: the update has no condition on the nick
BindsUser_everybody(d) ==
  LET n == ask.bind[d] IN
  /\ apc = "bind" /\ call = NoCall /\ n # NoName
  /\ ask' = [ask EXCEPT !.bind[d] = NoName]
  /\ dingtalkId' = [a \in Account |-> d]
  /\ bound' = bound \cup {<<n, d>>}
  /\ call' = [kind |-> "bind", arg |-> n]
  /\ UNCHANGED <<serverVars, apc, strays, onlyLogin, links, countVars, astray, misled, told,
                 handled, netLost>>

\* UserService.BindUser: the account with that nick, if there is one, and only then a call.
BindsUser(d) ==
  LET n == ask.bind[d] IN
  /\ apc = "bind" /\ call = NoCall /\ n # NoName
  /\ ask' = [ask EXCEPT !.bind[d] = NoName]
  /\ IF n \in Account
       THEN /\ dingtalkId' = [dingtalkId EXCEPT ![n] = d]
            /\ bound' = bound \cup {<<n, d>>}
            /\ call' = [kind |-> "bind", arg |-> n]
       ELSE UNCHANGED <<dingtalkId, bound, call>>
  /\ UNCHANGED <<serverVars, apc, strays, onlyLogin, links, countVars, astray, misled, told,
                 handled, netLost>>

BindsAllDone ==
  /\ apc = "bind" /\ call = NoCall /\ \A d \in Ding : ask.bind[d] = NoName
  /\ apc' = "lists"
  /\ UNCHANGED <<serverVars, ask, call, strays, accountVars, countVars, histVars>>

AccountOf(d) == {a \in Account : dingtalkId[a] = d}

\* The users the second loop marks: it runs over StartStudy, when there are TagUsers at all.
Marked == IF ask.tag = <<>> THEN {} ELSE UNION {AccountOf(d) : d \in Range(ask.study)}

\* Every user of StartStudy is given to StartStudyRightNow; then the marks.
HandlesLists ==
  /\ apc = "lists"
  /\ handled' = handled \cup Range(ask.study) \cup Range(ask.tag)
  /\ onlyLogin' = onlyLogin \cup Marked
  /\ ask' = NoAsk /\ apc' = "sleep"
  /\ UNCHANGED <<serverVars, call, strays, dingtalkId, links, countVars, astray, misled, bound,
                 told, netLost>>

-----------------------------------------------------------------------------
(* The handlers of the agent's notifications *)

\* A link made for d is posted to the chat with the name of to, or of nobody.
Hands(to, d) ==
  /\ links' = links \cup {<<to, d>>}
  /\ IF to = d THEN UNCHANGED <<astray, misled>>
               ELSE astray' = astray + 1 /\ misled' = misled \cup {<<to, d>>}

\* mutant: the newest request is answered first
NewLink_newest(c) ==
  /\ c.kind = "link" /\ ~Locked
  /\ IF loginReq = <<>>
       THEN Hands(NoDing, c.arg) /\ UNCHANGED loginReq
       ELSE /\ Hands(Sender[loginReq[Len(loginReq)]], c.arg)
            /\ loginReq' = SubSeq(loginReq, 1, Len(loginReq) - 1)
  /\ UNCHANGED <<needStatistics, bindUser, told>>

\* mutant: the branch that empties a queue of one is left out
NewLink_keepsLast(c) ==
  /\ c.kind = "link" /\ ~Locked
  /\ IF loginReq = <<>>
       THEN Hands(NoDing, c.arg) /\ UNCHANGED loginReq
       ELSE /\ Hands(Sender[Head(loginReq)], c.arg)
            /\ loginReq' = IF Len(loginReq) = 1 THEN loginReq ELSE Tail(loginReq)
  /\ UNCHANGED <<needStatistics, bindUser, told>>

\* newLink: the link goes to whoever is at the head of the queue by now; when nobody is, it
\* is posted all the same.
NewLink(c) ==
  /\ c.kind = "link" /\ ~Locked
  /\ IF loginReq = <<>>
       THEN Hands(NoDing, c.arg) /\ UNCHANGED loginReq
       ELSE /\ Hands(Sender[Head(loginReq)], c.arg)
            /\ loginReq' = Tail(loginReq)
  /\ UNCHANGED <<needStatistics, bindUser, told>>

\* mutant: the flag is left set
StatisticsNotify_noReset(c) ==
  /\ c.kind = "statistics"
  /\ UNCHANGED <<needStatistics, loginReq, bindUser, links, astray, misled, told>>

StatisticsNotify(c) ==
  /\ c.kind = "statistics"
  /\ needStatistics' = FALSE
  /\ UNCHANGED <<loginReq, bindUser, links, astray, misled, told>>

\* mutant: the entry is left in the map
BindSuccessNotify_keeps(c) ==
  /\ c.kind = "bind"
  /\ \/ (\A d \in Ding : bindUser[d] # c.arg) /\ UNCHANGED told
     \/ \E d \in Ding : bindUser[d] = c.arg /\ told' = told \cup {<<d, c.arg>>}
  /\ UNCHANGED <<bindUser, loginReq, needStatistics, links, astray, misled>>

\* bindSuccessNotify: one of those who asked for that name is taken off and told.
BindSuccessNotify(c) ==
  /\ c.kind = "bind"
  /\ \/ /\ \A d \in Ding : bindUser[d] # c.arg
        /\ UNCHANGED <<bindUser, told>>
     \/ \E d \in Ding :
          /\ bindUser[d] = c.arg
          /\ bindUser' = [bindUser EXCEPT ![d] = NoName]
          /\ told' = told \cup {<<d, c.arg>>}
  /\ UNCHANGED <<loginReq, needStatistics, links, astray, misled>>

Notified(c) ==
  /\ NewLink(c) \/ StatisticsNotify(c) \/ BindSuccessNotify(c)
  /\ UNCHANGED <<list, paused, pc, loaded, taken, apc, ask, dingtalkId, onlyLogin,
                 losses, strayed, restarts, bound, handled, netLost>>

\* The agent's call is served, and the agent goes on; it looks at no answer.
CallServed == call # NoCall /\ Notified(call) /\ call' = NoCall /\ UNCHANGED <<strays, arrived>>

CallLost ==
  /\ losses < MaxLosses /\ losses' = losses + 1
  /\ call # NoCall /\ call' = NoCall
  /\ UNCHANGED <<serverVars, apc, ask, strays, accountVars, strayed, arrived, restarts, histVars>>

\* The agent's client times out while its request is still on its way ...
CallGivenUp ==
  /\ strayed < MaxStrays /\ strayed' = strayed + 1
  /\ call # NoCall /\ call' = NoCall
  /\ strays' = strays \cup {<<call, strayed>>}
  /\ UNCHANGED <<serverVars, apc, ask, accountVars, losses, arrived, restarts, histVars>>

\* ... and it is served when the agent has long gone on.
StrayServed(s) ==
  /\ s \in strays /\ strays' = strays \ {s} /\ arrived' = arrived + 1
  /\ Notified(s[1])
  /\ UNCHANGED call

-----------------------------------------------------------------------------
(* The people and the server's process *)

\* A link is for whoever is named with it, for anybody when nobody is.
MayUse(d, l) == l[1] \in {d, NoDing}

\* checkLogin and UpdateByUid: the account that logs in gets the id the link was made for.
LogsIn(d, l) ==
  /\ l \in links /\ links' = links \ {l}
  /\ MayUse(d, l)
  /\ dingtalkId' = [dingtalkId EXCEPT ![Own[d]] = l[2]]
  /\ UNCHANGED <<serverVars, agentVars, strays, onlyLogin, countVars, histVars>>

\* A login by the link of the agent's own page (lan/UserController.go) was made for nobody:
\* UpdateByUid writes the empty id over the one there is.
LogsInAtPage(a) ==
  /\ dingtalkId' = [dingtalkId EXCEPT ![a] = NoDing]
  /\ UNCHANGED <<serverVars, agentVars, strays, onlyLogin, links, countVars, histVars>>

\* The daemon starts the server again: what it kept is gone, and so are the handlers.
\* SafeWriteConfig writes no file that is there already, so the pause may be forgotten.
Restarts ==
  /\ restarts < MaxRestarts /\ restarts' = restarts + 1
  /\ loginReq' = <<>> /\ needStatistics' = FALSE
  /\ bindUser' = [d \in Ding |-> NoName]
  /\ list' = [c \in Lists |-> <<>>] /\ taken' = [c \in Lists |-> <<>>]
  /\ paused' \in {paused, FALSE}
  /\ pc' = [m \in Message |-> IF pc[m] = "unsent" THEN "unsent" ELSE "done"]
  /\ loaded' = [m \in Message |-> [read |-> FALSE, got |-> <<>>]]
  /\ apc' = IF apc \in {"taking", "answer"} THEN "sleep" ELSE apc
  /\ ask' = IF apc \in {"taking", "answer"} THEN NoAsk ELSE ask
  /\ UNCHANGED <<call, strays, accountVars, losses, strayed, arrived, histVars>>

-----------------------------------------------------------------------------
Handler == \E m \in Message : LoadsList(m) \/ StoresList(m)
Chat == \E m \in Message : SetsPause(m) \/ Refuses(m) \/ Accepts(m)

Status == Polls \/ TakesLists \/ AnswersStatus \/ ReceivesStatus

AgentStep ==
  \/ PostsLink \/ NoLinkNeeded \/ PostsStatistics
  \/ \E d \in Ding : BindsUser(d)
  \/ BindsAllDone \/ HandlesLists

Failure ==
  \/ StatusLost \/ FetchFails \/ CallLost \/ CallGivenUp
  \/ Restarts

Next ==
  \/ Chat \/ Handler
  \/ Status \/ AgentStep \/ CallServed
  \/ \E s \in strays : StrayServed(s)
  \/ \E d \in Ding, l \in links : LogsIn(d, l)
  \/ \E a \in AtPage : LogsInAtPage(a)
  \/ Failure

Spec == Init /\ [][Next]_vars

(***************************************************************************)
(* fetchServerInfo submits itself again however it ends, the server's      *)
(* handlers run to their end, and a call that is neither lost nor given up *)
(* is served.  Nothing is assumed of people, strays and failures; that     *)
(* there are only finitely many failures is what their bounds say.         *)
(***************************************************************************)
Fairness ==
  /\ WF_vars(Status) /\ WF_vars(AgentStep) /\ WF_vars(CallServed)
  /\ \A m \in Message :
       WF_vars(LoadsList(m) \/ StoresList(m) \/ (pc[m] = "flag" /\ (Refuses(m) \/ Accepts(m))))

FairSpec == Spec /\ Fairness

-----------------------------------------------------------------------------
(* Properties *)

\* Nobody waits for a link who is not answered in turn: a login at any place of the queue
\* leaves it in the end, whatever is lost or arrives late meanwhile.
LoginServed ==
  \A m \in {x \in Message : Says(x, "login")} :
    (\E i \in DOMAIN loginReq : loginReq[i] = m) ~> ~\E i \in DOMAIN loginReq : loginReq[i] = m

\* Statistics that were asked for are reported in the end.
StatisticsReported == needStatistics ~> ~needStatistics

\* A request to be bound to an account there is is settled in the end, whatever is lost,
\* whoever else asks for the same name (and may be taken off in one's place), and whoever
\* asks for a name no row has, which may be asked for ever.
KnownBindSettled == \A d \in Ding : bindUser[d] \in Account ~> bindUser[d] \notin Account

\* How many links do not reach who they were made for: newLink gives each to the head of a
\* queue it does not compare with, or posts it for nobody when there is none.  A call that
\* arrives late puts at most two links astray, a restart at most one; in a run without
\* either, every link is its requester's.
LinksAstray == astray <= 2 * arrived + restarts

\* d asked in the chat to be bound to the name n.
BindAsked(n, d) == \E m \in Message : Says(m, "bind") /\ BindName[m] = n /\ Sender[m] = d

\* Who is told that a name is bound had asked for it, and it was bound: to their id, or to
\* that of somebody else who had asked for the same name.
BindToldTrue ==
  \A p \in told : /\ BindAsked(p[2], p[1])
                  /\ \E d \in Ding : <<p[2], d>> \in bound /\ BindAsked(p[2], d)

\* An account carries the id of its owner, or one that asked to be bound to it, or one
\* whose link was posted with the owner's name, or with nobody's.
AccountsReachOwners ==
  \A a \in Account, d \in Ding :
    dingtalkId[a] = d =>
      \/ Own[d] = a \/ BindAsked(a, d)
      \/ \E p \in misled : p[2] = d /\ (p[1] = NoDing \/ Own[p[1]] = a)

\* wan/Index.go:34, :113: the mark is for the users of tagUser, those who asked for it.
OnlyAskersMarked ==
  [][\A a \in onlyLogin' \ onlyLogin :
       \E m \in Message : Says(m, "tag") /\ a \in AccountOf(Sender[m])]_vars

\* wan/Index.go:154: who is told that the request was received and is to wait is in the
\* list, in an answer to the agent, or handled by it.
ReceivedIsKept ==
  \A m \in Message :
    Says(m, "study") /\ pc[m] \in {"tag", "done"} /\ (\A x \in Message : ~Says(x, "pause"))
      => Sender[m] \in Range(list["study"]) \cup Range(taken["study"]) \cup Range(ask.study)
                         \cup handled \cup netLost

=============================================================================
