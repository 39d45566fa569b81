------------------------ MODULE CommandRelayProofs ------------------------
(***************************************************************************)
(* How far the links newLink hands out can drift from those who asked for  *)
(* them, for any number of people, messages, losses, strays and restarts.  *)
(*                                                                         *)
(* What drifts is the link the agent is about to deliver.  It is Astray    *)
(* when the head of the queue is no longer who it was made for: a stray    *)
(* call served meanwhile has taken that head off (after perhaps going to   *)
(* the wrong person itself), or a restart has lost the queue, or there is  *)
(* no head left and it will be posted for nobody.  So a stray counts       *)
(* twice, a restart once, and the agent's own calls settle what they find. *)
(***************************************************************************)
EXTENDS CommandRelay, TLAPS

\* The agent holds an answer or a call with a link to deliver, made for For.
Delivers == call.kind = "link" \/ (apc \in {"answer", "link"} /\ ask.login # NoMessage)
For == IF call.kind = "link" THEN call.arg ELSE Sender[ask.login]

\* That link would go to somebody else, now or when somebody else asks.
Drifts == Delivers /\ (loginReq = <<>> \/ Sender[Head(loginReq)] # For)

\* A call for a link is made between two statuses, by the agent at that point alone.
OneAtATime == call.kind = "link" => apc = "statistics"

\* The types this argument needs.
Typed ==
  /\ loginReq \in Seq(Message)
  /\ ask.login \in Message \cup {NoMessage}
  /\ astray \in Nat /\ arrived \in Nat /\ restarts \in Nat

Drift == astray + (IF Drifts THEN 1 ELSE 0) <= 2 * arrived + restarts

IInv == Typed /\ OneAtATime /\ Drift

LEMMA RelayInit == Init => IInv
BY DEF Init, IInv, Typed, OneAtATime, Drift, Drifts, Delivers, NoAsk, NoCall

\* What newLink does to the queue and to the count, whoever's call it serves.
LEMMA NewLinkEffect ==
  ASSUME Typed, NEW c, NewLink(c)
  PROVE  /\ loginReq' \in Seq(Message)
         /\ astray' \in Nat
         /\ astray' <= astray + 1
         /\ loginReq # <<>> /\ Sender[Head(loginReq)] = c.arg => astray' = astray
BY DEF Typed, NewLink, Hands

LEMMA DriftStep == IInv /\ [Next]_vars => IInv'
<1> SUFFICES ASSUME IInv, [Next]_vars PROVE IInv'
  OBVIOUS
<1> USE NoneAssumption DEF IInv, Typed, serverVars, agentVars, accountVars, countVars, histVars
\* an Append leaves the head of a queue that has one
<1>1. ASSUME NEW m \in Message, Refuses(m) \/ Accepts(m)
      PROVE  IInv'
  <2>1. loginReq' \in Seq(Message)
    <3>1. CASE Refuses(m)
      BY <3>1 DEF Refuses
    <3>2. CASE Accepts(m)
      BY <3>2 DEF Accepts
    <3> QED BY <1>1, <3>1, <3>2
  <2>2. UNCHANGED <<call, apc, ask, astray, arrived, restarts>>
    BY <1>1 DEF Refuses, Accepts
  <2>3. loginReq # <<>> => loginReq' # <<>> /\ Head(loginReq') = Head(loginReq)
    BY <1>1 DEF Refuses, Accepts
  <2>4. Drifts' => Drifts
    BY <2>2, <2>3 DEF Drifts, Delivers, For
  <2>5. Drift'
    BY <2>2, <2>4 DEF Drift
  <2> QED BY <2>1, <2>2, <2>5 DEF OneAtATime
<1>2. ASSUME UNCHANGED <<loginReq, call, apc, ask, astray, arrived, restarts>>
      PROVE  IInv'
  BY <1>2 DEF OneAtATime, Drift, Drifts, Delivers, For
<1>3. CASE Handler \/ \E m \in Message : SetsPause(m)
  BY <1>3, <1>2 DEF Handler, LoadsList, StoresList, SetsPause
<1>4. CASE Status
  <2>1. CASE Polls \/ TakesLists
    BY <2>1 DEF Polls, TakesLists, OneAtATime, Drift, Drifts, Delivers, For, NoCall
  \* the answer's login is the head of the queue
  <2>2. CASE AnswersStatus
    <3>1. Typed' /\ OneAtATime' /\ UNCHANGED <<loginReq, call, astray, arrived, restarts>>
      BY <2>2 DEF AnswersStatus, OneAtATime
    <3>2. ~Drifts'
      BY <2>2, <3>1 DEF AnswersStatus, Drifts, Delivers, For, OneAtATime
    <3> QED BY <3>1, <3>2 DEF Drift
  <2>3. CASE ReceivesStatus
    BY <2>3 DEF ReceivesStatus, OneAtATime, Drift, Drifts, Delivers, For
  <2> QED BY <1>4, <2>1, <2>2, <2>3 DEF Status
<1>5. CASE AgentStep
  <2>1. CASE PostsLink
    <3>1. Typed' /\ OneAtATime' /\ UNCHANGED <<loginReq, astray, arrived, restarts>>
      BY <2>1 DEF PostsLink, OneAtATime
    <3>2. Drifts' => Drifts
      BY <2>1, <3>1 DEF PostsLink, Drifts, Delivers, For, NoCall
    <3> QED BY <3>1, <3>2 DEF Drift
  <2>2. CASE NoLinkNeeded
    BY <2>2 DEF NoLinkNeeded, OneAtATime, Drift, Drifts, Delivers, For
  <2>3. CASE PostsStatistics
    BY <2>3 DEF PostsStatistics, OneAtATime, Drift, Drifts, Delivers, For, NoCall
  <2>4. ASSUME NEW d \in Ding, BindsUser(d)
        PROVE  IInv'
    BY <2>4 DEF BindsUser, OneAtATime, Drift, Drifts, Delivers, For, NoCall
  <2>5. CASE BindsAllDone \/ HandlesLists
    BY <2>5 DEF BindsAllDone, HandlesLists, OneAtATime, Drift, Drifts, Delivers, For, NoAsk, NoCall
  <2> QED BY <1>5, <2>1, <2>2, <2>3, <2>4, <2>5 DEF AgentStep
\* the agent's own call: what had drifted is counted now and drifts no more
<1>6. CASE CallServed
  <2>1. UNCHANGED <<apc, ask, arrived, restarts>> /\ call' = NoCall
    BY <1>6 DEF CallServed, Notified
  <2>2. CASE call.kind = "link"
    <3>1. NewLink(call)
      BY <1>6, <2>2 DEF CallServed, Notified, StatisticsNotify, BindSuccessNotify
    <3>2. ~Delivers'
      BY <2>1, <2>2 DEF Delivers, OneAtATime, NoCall
    <3>3. astray' <= astray + (IF Drifts THEN 1 ELSE 0)
      BY <3>1, <2>2, NewLinkEffect DEF Drifts, Delivers, For
    <3> QED BY <2>1, <3>1, <3>2, <3>3, NewLinkEffect DEF Drift, Drifts, OneAtATime, NoCall
  <2>3. CASE call.kind # "link"
    <3>1. UNCHANGED <<loginReq, astray>>
      BY <1>6, <2>3 DEF CallServed, Notified, NewLink, StatisticsNotify, BindSuccessNotify
    <3> QED BY <2>1, <2>3, <3>1 DEF Drift, Drifts, Delivers, For, OneAtATime, NoCall
  <2> QED BY <2>2, <2>3
\* a stray may go wrong itself and take the head off that the agent's link was made for
<1>7. ASSUME NEW s \in strays, StrayServed(s)
      PROVE  IInv'
  <2>1. UNCHANGED <<apc, ask, call, restarts>> /\ arrived' = arrived + 1
    BY <1>7 DEF StrayServed, Notified
  <2>2. loginReq' \in Seq(Message) /\ astray' \in Nat /\ astray' <= astray + 1
    <3>1. CASE NewLink(s[1])
      BY <3>1, NewLinkEffect
    <3>2. CASE StatisticsNotify(s[1]) \/ BindSuccessNotify(s[1])
      BY <3>2 DEF StatisticsNotify, BindSuccessNotify
    <3> QED BY <1>7, <3>1, <3>2 DEF StrayServed, Notified
  <2>3. Typed' /\ OneAtATime'
    BY <2>1, <2>2 DEF OneAtATime
  <2>4. astray <= 2 * arrived + restarts
    BY DEF Drift
  <2>5. /\ astray' + 1 <= 2 * arrived' + restarts'
        /\ astray' <= 2 * arrived' + restarts'
    <3>1. 2 * arrived' = 2 * arrived + 2 /\ restarts' = restarts
      BY <2>1
    <3>2. astray' <= astray + 1
      BY <2>2
    <3> QED BY <3>1, <3>2, <2>2, <2>4
  <2>6. Drift'
    <3>1. CASE Drifts'
      BY <3>1, <2>5 DEF Drift
    <3>2. CASE ~Drifts'
      BY <3>2, <2>2, <2>5 DEF Drift
    <3> QED BY <3>1, <3>2
  <2> QED BY <2>3, <2>6
<1>8. ASSUME NEW d \in Ding, NEW l \in links, LogsIn(d, l)
      PROVE  IInv'
  BY <1>8, <1>2 DEF LogsIn
<1>page. ASSUME NEW a \in AtPage, LogsInAtPage(a)
       PROVE  IInv'
  BY <1>page, <1>2 DEF LogsInAtPage
<1>9. CASE Failure
  <2>1. CASE StatusLost
    BY <2>1 DEF StatusLost, OneAtATime, Drift, Drifts, Delivers, For, NoAsk
  <2>2. CASE FetchFails
    BY <2>2 DEF FetchFails, OneAtATime, Drift, Drifts, Delivers, For
  <2>3. CASE CallLost \/ CallGivenUp
    <3>1. Typed' /\ OneAtATime' /\ UNCHANGED <<loginReq, apc, ask, astray, arrived, restarts>>
          /\ call' = NoCall
      BY <2>3 DEF CallLost, CallGivenUp, OneAtATime, NoCall
    <3>2. Drifts' => Drifts
      BY <3>1 DEF Drifts, Delivers, For, OneAtATime, NoCall
    <3> QED BY <3>1, <3>2 DEF Drift
  \* the queue is gone, the agent's link is not
  <2>4. CASE Restarts
    <3>1. Typed' /\ UNCHANGED <<call, astray, arrived>> /\ restarts' = restarts + 1
      BY <2>4 DEF Restarts, NoAsk
    <3>2. OneAtATime'
      BY <2>4 DEF Restarts, OneAtATime
    <3> QED BY <3>1, <3>2 DEF Drift
  <2> QED BY <1>9, <2>1, <2>2, <2>3, <2>4 DEF Failure
<1>10. CASE UNCHANGED vars
  BY <1>10, <1>2 DEF vars
<1> QED BY <1>1, <1>3, <1>4, <1>5, <1>6, <1>7, <1>8, <1>9, <1>10, <1>page DEF Next, Chat

\* Links go astray at most twice for a call that arrives late and once for a restart of
\* the server: without either, every link goes to who asked for it.
THEOREM RelayLinksAstray == Spec => []LinksAstray
<1>1. IInv => LinksAstray
  BY DEF IInv, Typed, Drift, LinksAstray
<1> QED BY <1>1, RelayInit, DriftStep, PTL DEF Spec

-----------------------------------------------------------------------------
(***************************************************************************)
(* Who is told of a binding, and whose id an account carries.              *)
(***************************************************************************)

\* The people of a list.
LEMMA SeqRange ==
  ASSUME NEW S, NEW q \in Seq(S)
  PROVE  Range(q) \in SUBSET S
BY DEF Range

LEMMA RelayTypeInit == Init => TypeOK
<1> SUFFICES ASSUME Init PROVE TypeOK
  OBVIOUS
<1>1. call \in Call
  BY DEF Init, NoCall, Call
<1>2. ask \in [login : Message \cup {NoMessage}, statistics : BOOLEAN,
               bind : [Ding -> Name \cup {NoName}], study : Seq(Ding), tag : Seq(Ding)]
  <2>1. <<>> \in Seq(Ding)
    OBVIOUS
  <2> QED BY <2>1 DEF Init, NoAsk
<1>3. loginReq \in Seq(Message) /\ needStatistics \in BOOLEAN /\ paused \in BOOLEAN
  <2>1. loginReq = <<>> /\ needStatistics = FALSE /\ paused = FALSE
    BY DEF Init
  <2>2. loginReq \in Seq(Message)
    BY <2>1
  <2> QED BY <2>1, <2>2
<1>4. bindUser \in [Ding -> Name \cup {NoName}]
  <2>1. bindUser = [d \in Ding |-> NoName]
    BY DEF Init
  <2> QED BY <2>1
<1>5. /\ list \in [Lists -> Seq(Ding)] /\ taken \in [Lists -> Seq(Ding)]
      /\ pc \in [Message -> {"unsent", "flag", "done"} \cup Lists]
      /\ loaded \in [Message -> [read : BOOLEAN, got : Seq(Ding)]]
  <2>1. <<>> \in Seq(Ding)
    OBVIOUS
  <2> QED BY <2>1 DEF Init
<1> QED BY <1>1, <1>2, <1>3, <1>4, <1>5 DEF Init, TypeOK

LEMMA RelayTypeStep == TypeOK /\ [Next]_vars => TypeOK'
<1> SUFFICES ASSUME TypeOK, [Next]_vars PROVE TypeOK'
  OBVIOUS
<1> USE RelayAssumption, NoneAssumption
        DEF TypeOK, serverVars, agentVars, accountVars, countVars, histVars, Lists, Name
<1>0. NoAsk \in [login : Message \cup {NoMessage}, statistics : BOOLEAN,
                 bind : [Ding -> Name \cup {NoName}], study : Seq(Ding),
                 tag : Seq(Ding)]
      /\ NoCall \in Call
  <2>1. <<>> \in Seq(Ding)
    OBVIOUS
  <2> QED BY <2>1 DEF NoAsk, NoCall, Call
<1>pause. ASSUME NEW m \in Message, SetsPause(m)
         PROVE  TypeOK'
  <2>1. paused' \in BOOLEAN
    BY <1>pause, SMTT(30) DEF SetsPause, Says
  <2> QED BY <1>pause, <2>1 DEF SetsPause
<1>1. ASSUME NEW m \in Message, Refuses(m)
      PROVE  TypeOK'
  BY <1>1 DEF Refuses
<1>2. ASSUME NEW m \in Message, Accepts(m)
      PROVE  TypeOK'
  <2>1. loginReq' \in Seq(Message) /\ paused' \in BOOLEAN
    <3>1. loginReq' \in {loginReq, Append(loginReq, m)} /\ paused' = paused
      BY <1>2 DEF Accepts
    <3>2. Append(loginReq, m) \in Seq(Message)
      OBVIOUS
    <3> QED BY <3>1, <3>2
  <2>2. needStatistics' \in BOOLEAN
    BY <1>2, Zenon DEF Accepts
  <2>3. bindUser' \in [Ding -> Name \cup {NoName}]
    BY <1>2 DEF Accepts
  <2>4. pc' \in [Message -> {"unsent", "flag", "done"} \cup Lists]
    BY <1>2 DEF Accepts, FirstList
  <2> QED BY <1>2, <2>1, <2>2, <2>3, <2>4 DEF Accepts
<1>3. ASSUME NEW m \in Message, LoadsList(m)
      PROVE  TypeOK'
  BY <1>3 DEF LoadsList
<1>4. ASSUME NEW m \in Message, StoresList(m)
      PROVE  TypeOK'
  <2>1. list' \in [Lists -> Seq(Ding)]
    <3>1. Append(loaded[m].got, Sender[m]) \in Seq(Ding)
      OBVIOUS
    <3> QED BY <1>4, <3>1 DEF StoresList
  <2>2. loaded' \in [Message -> [read : BOOLEAN, got : Seq(Ding)]]
    <3>1. <<>> \in Seq(Ding)
      OBVIOUS
    <3> QED BY <1>4, <3>1 DEF StoresList
  <2>3. pc' \in [Message -> {"unsent", "flag", "done"} \cup Lists]
    BY <1>4 DEF StoresList, NextList
  <2> QED BY <1>4, <2>1, <2>2, <2>3 DEF StoresList
<1>5. CASE Status
  <2>1. CASE Polls
    BY <2>1 DEF Polls
  <2>2. CASE TakesLists
    BY <2>2 DEF TakesLists
  <2>3. CASE AnswersStatus
    <3>1. (IF loginReq = <<>> THEN NoMessage ELSE Head(loginReq)) \in Message \cup {NoMessage}
      OBVIOUS
    <3>2. ask' \in [login : Message \cup {NoMessage}, statistics : BOOLEAN,
                    bind : [Ding -> Name \cup {NoName}], study : Seq(Ding),
                    tag : Seq(Ding)]
      BY <2>3, <3>1 DEF AnswersStatus
    <3>3. <<>> \in Seq(Ding)
      OBVIOUS
    <3>4. list' \in [Lists -> Seq(Ding)] /\ taken' \in [Lists -> Seq(Ding)]
      BY <2>3, <3>3 DEF AnswersStatus
    <3> QED BY <2>3, <3>2, <3>4 DEF AnswersStatus
  <2>4. CASE ReceivesStatus
    BY <2>4 DEF ReceivesStatus
  <2> QED BY <1>5, <2>1, <2>2, <2>3, <2>4 DEF Status
<1>6. CASE AgentStep
  <2>1. CASE PostsLink
    <3>1. call' \in Call
      BY <2>1 DEF PostsLink, Call
    <3> QED BY <2>1, <3>1 DEF PostsLink
  <2>2. CASE NoLinkNeeded
    BY <2>2 DEF NoLinkNeeded
  <2>3. CASE PostsStatistics
    <3>1. call' \in Call
      BY <2>3, <1>0 DEF PostsStatistics, Call
    <3> QED BY <2>3, <3>1 DEF PostsStatistics
  <2>4. ASSUME NEW d \in Ding, BindsUser(d)
        PROVE  TypeOK'
    <3>1. ask' \in [login : Message \cup {NoMessage}, statistics : BOOLEAN,
                    bind : [Ding -> Name \cup {NoName}], study : Seq(Ding),
                    tag : Seq(Ding)]
      BY <2>4 DEF BindsUser
    <3>2. call' \in Call
      BY <2>4 DEF BindsUser, Call
    <3>3. dingtalkId' \in [Account -> Ding \cup {NoDing}]
      <4> DEFINE n == ask.bind[d]
      <4>1. IF n \in Account THEN dingtalkId' = [dingtalkId EXCEPT ![n] = d]
                             ELSE dingtalkId' = dingtalkId
        BY <2>4 DEF BindsUser
      <4>2. dingtalkId \in [Account -> Ding \cup {NoDing}]
        OBVIOUS
      <4> HIDE DEF n, TypeOK
      <4> QED BY <4>1, <4>2
    <3>4. bound' \in SUBSET (Name \X Ding)
      <4>1. bound' = bound \/ (ask.bind[d] \in Name /\ bound' = bound \cup {<<ask.bind[d], d>>})
        BY <2>4 DEF BindsUser, Name
      <4>2. bound \in SUBSET (Name \X Ding)
        OBVIOUS
      <4> HIDE DEF TypeOK
      <4> QED BY <4>1, <4>2
    <3> QED BY <2>4, <3>1, <3>2, <3>3, <3>4 DEF BindsUser
  <2>5. CASE BindsAllDone
    BY <2>5 DEF BindsAllDone
  <2>6. CASE HandlesLists
    <3>1. Marked \in SUBSET Account
      BY DEF Marked, AccountOf
    <3>2. handled' \in SUBSET Ding
      <4>1. Range(ask.study) \in SUBSET Ding /\ Range(ask.tag) \in SUBSET Ding
        BY SeqRange
      <4> QED BY <2>6, <4>1 DEF HandlesLists
    <3> QED BY <2>6, <3>1, <3>2, <1>0 DEF HandlesLists
  <2> QED BY <1>6, <2>1, <2>2, <2>3, <2>4, <2>5, <2>6 DEF AgentStep
<1>7. ASSUME NEW c \in Call, Notified(c)
      PROVE  /\ loginReq' \in Seq(Message) /\ needStatistics' \in BOOLEAN
             /\ bindUser' \in [Ding -> Name \cup {NoName}]
             /\ links' \in SUBSET Handed /\ astray' \in Nat /\ misled' \in SUBSET Handed
             /\ told' \in SUBSET (Ding \X Name)
  <2>1. CASE NewLink(c)
    <3>1. c.arg \in Ding
      BY <2>1 DEF NewLink, Call, NoCall
    <3>2. UNCHANGED <<needStatistics, bindUser, told>>
      BY <2>1 DEF NewLink
    <3>3. loginReq' \in Seq(Message)
      <4>1. CASE loginReq = <<>>
        BY <2>1, <4>1 DEF NewLink
      <4>2. CASE loginReq # <<>>
        <5>1. Tail(loginReq) \in Seq(Message)
          BY <4>2
        <5>2. loginReq' = Tail(loginReq)
          BY <2>1, <4>2 DEF NewLink
        <5> QED BY <5>1, <5>2
      <4> QED BY <4>1, <4>2
    <3>pick. PICK to \in Ding \cup {NoDing} : Hands(to, c.arg)
      <4>1. CASE loginReq = <<>>
        BY <2>1, <4>1 DEF NewLink
      <4>2. CASE loginReq # <<>>
        <5>1. Sender[Head(loginReq)] \in Ding
          BY <4>2
        <5> QED BY <2>1, <4>2, <5>1 DEF NewLink
      <4> QED BY <4>1, <4>2
    <3>4. <<to, c.arg>> \in Handed
      BY <3>1 DEF Handed
    <3>5. links' \in SUBSET Handed /\ astray' \in Nat /\ misled' \in SUBSET Handed
      <4>1. links' = links \cup {<<to, c.arg>>}
        BY <3>pick DEF Hands
      <4>2. /\ astray' \in {astray, astray + 1}
            /\ misled' \in {misled, misled \cup {<<to, c.arg>>}}
        BY <3>pick DEF Hands
      <4>3. links \in SUBSET Handed /\ astray \in Nat /\ misled \in SUBSET Handed
        OBVIOUS
      <4> HIDE DEF TypeOK
      <4> QED BY <3>4, <4>1, <4>2, <4>3
    <3>6. needStatistics' \in BOOLEAN /\ bindUser' \in [Ding -> Name \cup {NoName}]
          /\ told' \in SUBSET (Ding \X Name)
      BY <3>2
    <3> HIDE DEF TypeOK
    <3> QED BY <3>3, <3>5, <3>6
  <2>2. CASE StatisticsNotify(c)
    BY <2>2 DEF StatisticsNotify
  <2>3. CASE BindSuccessNotify(c)
    <3>1. c.arg \in Name
      BY <2>3 DEF BindSuccessNotify, Call, NoCall
    <3>2. bindUser' \in [Ding -> Name \cup {NoName}]
      <4>1. bindUser' = bindUser \/ \E d \in Ding : bindUser' = [bindUser EXCEPT ![d] = NoName]
        BY <2>3 DEF BindSuccessNotify
      <4> QED BY <4>1
    <3>3. told' \in SUBSET (Ding \X Name)
      BY <2>3, <3>1 DEF BindSuccessNotify
    <3> QED BY <2>3, <3>2, <3>3 DEF BindSuccessNotify
  <2> QED BY <1>7, <2>1, <2>2, <2>3 DEF Notified
<1>8. CASE CallServed
  <2>1. call \in Call /\ Notified(call) /\ call' \in Call /\ UNCHANGED <<strays, arrived>>
    BY <1>8, <1>0 DEF CallServed
  <2> QED BY <2>1, <1>7 DEF Notified
<1>9. ASSUME NEW s \in strays, StrayServed(s)
      PROVE  TypeOK'
  <2>1. /\ s[1] \in Call /\ Notified(s[1]) /\ UNCHANGED call
        /\ strays' \in SUBSET ((Call \ {NoCall}) \X Nat) /\ arrived' \in Nat
    BY <1>9 DEF StrayServed
  <2> QED BY <2>1, <1>7 DEF Notified
<1>10. ASSUME NEW d \in Ding, NEW l \in links, LogsIn(d, l)
       PROVE  TypeOK'
  <2>1. l[2] \in Ding /\ Own[d] \in Account
    BY DEF Handed
  <2> QED BY <1>10, <2>1 DEF LogsIn
<1>page. ASSUME NEW a \in AtPage, LogsInAtPage(a)
        PROVE  TypeOK'
  BY <1>page DEF LogsInAtPage
<1>11. CASE Failure
  <2>1. CASE StatusLost
    <3>1. netLost' \in SUBSET Ding
      <4>1. Range(ask.study) \in SUBSET Ding /\ Range(ask.tag) \in SUBSET Ding
        BY SeqRange
      <4> QED BY <2>1, <4>1 DEF StatusLost
    <3>2. apc' = "sleep" /\ losses' \in Nat /\ ask' = NoAsk
      BY <2>1 DEF StatusLost
    <3> QED BY <2>1, <3>1, <3>2, <1>0 DEF StatusLost
  <2>2. CASE FetchFails
    BY <2>2 DEF FetchFails
  <2>3. CASE CallLost
    BY <2>3, <1>0 DEF CallLost
  <2>4. CASE CallGivenUp
    <3>1. strays' \in SUBSET ((Call \ {NoCall}) \X Nat)
      BY <2>4 DEF CallGivenUp
    <3>2. strayed' \in Nat
      BY <2>4 DEF CallGivenUp
    <3> QED BY <2>4, <3>1, <3>2, <1>0 DEF CallGivenUp
  <2>5. CASE Restarts
    <3>1. /\ ask' \in [login : Message \cup {NoMessage}, statistics : BOOLEAN,
                       bind : [Ding -> Name \cup {NoName}], study : Seq(Ding),
                       tag : Seq(Ding)]
          /\ paused' \in BOOLEAN
      BY <2>5, <1>0 DEF Restarts
    <3>2. /\ loginReq' = <<>> /\ needStatistics' = FALSE
          /\ bindUser' = [d \in Ding |-> NoName]
          /\ list' = [c \in Lists |-> <<>>] /\ taken' = [c \in Lists |-> <<>>]
          /\ loaded' = [m \in Message |-> [read |-> FALSE, got |-> <<>>]]
      BY <2>5 DEF Restarts
    <3>empty. <<>> \in Seq(Ding)
      OBVIOUS
    <3>3. loginReq' \in Seq(Message) /\ needStatistics' \in BOOLEAN
      <4>1. loginReq' \in Seq(Message)
        BY <3>2
      <4> QED BY <3>2, <4>1
    <3>4. bindUser' \in [Ding -> Name \cup {NoName}]
      BY <3>2
    <3>5. list' \in [Lists -> Seq(Ding)] /\ taken' \in [Lists -> Seq(Ding)]
      BY <3>2, <3>empty
    <3>6. pc' \in [Message -> {"unsent", "flag", "done"} \cup Lists]
      BY <2>5 DEF Restarts
    <3>7. loaded' \in [Message -> [read : BOOLEAN, got : Seq(Ding)]]
      BY <3>2, <3>empty
    <3>8. apc' \in {"sleep", "ask", "taking", "answer", "link", "statistics", "bind", "lists"}
          /\ restarts' \in Nat
      BY <2>5 DEF Restarts
    <3> QED BY <2>5, <3>1, <3>3, <3>4, <3>5, <3>6, <3>7, <3>8 DEF Restarts
  <2> QED BY <1>11, <2>1, <2>2, <2>3, <2>4, <2>5 DEF Failure
<1>12. CASE UNCHANGED vars
  BY <1>12 DEF vars
<1> QED BY <1>pause, <1>1, <1>2, <1>3, <1>4, <1>5, <1>6, <1>8, <1>9, <1>10, <1>11, <1>12, <1>page
        DEF Next, Chat, Handler

\* The server's state and the agent's stay in their types, for any people and messages.
THEOREM RelayTypeOK == Spec => []TypeOK
BY RelayTypeInit, RelayTypeStep, PTL DEF Spec

(***************************************************************************)
(* A name and an id are brought together by a message alone, and stay      *)
(* together in the server's map, in the answer to the agent, in the row    *)
(* the agent updates and in the call it makes then, however late.          *)
(***************************************************************************)
\* A row carries that name and was updated for somebody.
BoundToSome(n) == \E d \in Ding : <<n, d>> \in bound

AskedAt(bind) == \A d \in Ding : bind[d] # NoName => BindAsked(bind[d], d)

BindsRight ==
  /\ AskedAt(bindUser) /\ AskedAt(ask.bind)
  /\ \A p \in bound : BindAsked(p[1], p[2])
  /\ call.kind = "bind" => BoundToSome(call.arg)
  /\ \A s \in strays : s[1].kind = "bind" => BoundToSome(s[1].arg)

\* A link that waits to be used is its requester's, or was posted for another or for nobody.
LinksRight == \A l \in links : l[1] = l[2] \/ l \in misled

BInv == TypeOK /\ BindsRight /\ BindToldTrue
AInv == BInv /\ LinksRight /\ AccountsReachOwners

LEMMA BindsInit == Init => AInv
<1> SUFFICES ASSUME Init PROVE AInv
  OBVIOUS
<1>1. TypeOK
  BY RelayTypeInit
<1>2. BindsRight
  BY DEF Init, BindsRight, AskedAt, NoAsk, NoCall
<1>3. BindToldTrue /\ LinksRight
  BY DEF Init, BindToldTrue, LinksRight
<1>4. AccountsReachOwners
  BY NoneAssumption DEF Init, AccountsReachOwners
<1> QED BY <1>1, <1>2, <1>3, <1>4 DEF AInv, BInv

\* What a notification does to the bindings: it may take one off and tell who asked for it.
LEMMA NotifiedBinds ==
  ASSUME BInv, NEW c \in Call, Notified(c), c.kind = "bind" => BoundToSome(c.arg)
  PROVE  AskedAt(bindUser') /\ UNCHANGED <<ask, bound>> /\ BindToldTrue'
<1>1. UNCHANGED <<ask, bound>>
  BY DEF Notified
<1>2. CASE BindSuccessNotify(c)
  <2>1. c.kind = "bind" /\ c.arg \in Name
    BY <1>2 DEF BindSuccessNotify, Call, NoCall
  <2>2. AskedAt(bindUser')
    <3>1. \A d \in Ding : bindUser'[d] \in {bindUser[d], NoName}
      BY <1>2 DEF BindSuccessNotify, BInv, TypeOK
    <3> QED BY <3>1 DEF BInv, BindsRight, AskedAt
  <2>3. ASSUME NEW p \in told'
        PROVE  /\ BindAsked(p[2], p[1])
               /\ \E d \in Ding : <<p[2], d>> \in bound /\ BindAsked(p[2], d)
    <3>1. CASE p \in told
      BY <3>1 DEF BInv, BindToldTrue
    \* the map has them together, and a row was updated for somebody
    <3>2. CASE p \notin told
      <4>1. PICK e \in Ding : p = <<e, c.arg>> /\ bindUser[e] = c.arg
        BY <1>2, <2>3, <3>2 DEF BindSuccessNotify
      <4>2. BindAsked(c.arg, e)
        BY <2>1, <4>1, NoneAssumption DEF BInv, BindsRight, AskedAt, Name
      <4>3. PICK d \in Ding : <<c.arg, d>> \in bound
        BY <2>1 DEF BoundToSome
      <4>4. BindAsked(c.arg, d)
        BY <4>3 DEF BInv, BindsRight
      <4> QED BY <4>1, <4>2, <4>3, <4>4
    <3> QED BY <3>1, <3>2
  <2> QED BY <1>1, <2>2, <2>3 DEF BindToldTrue
<1>3. CASE NewLink(c) \/ StatisticsNotify(c)
  <2>1. UNCHANGED <<bindUser, told>>
    BY <1>3 DEF NewLink, StatisticsNotify
  <2> QED BY <1>1, <2>1 DEF BInv, BindsRight, BindToldTrue
<1> QED BY <1>2, <1>3 DEF Notified

LEMMA BindsStep == BInv /\ [Next]_vars => BInv'
<1> SUFFICES ASSUME BInv, [Next]_vars PROVE BInv'
  OBVIOUS
<1> USE DEF BInv, BindsRight, serverVars, agentVars, accountVars, countVars, histVars
<1>0. TypeOK'
  BY RelayTypeStep
<1>1. ASSUME UNCHANGED <<bound, told, strays>>, call' \in {call, NoCall},
             AskedAt(bindUser'), AskedAt(ask'.bind)
      PROVE  BInv'
  BY <1>0, <1>1 DEF BindToldTrue, NoCall, BoundToSome
<1>2. AskedAt(NoAsk.bind)
  BY DEF AskedAt, NoAsk
<1>3. CASE Handler \/ Status
  <2>1. UNCHANGED <<bound, told, strays, call, bindUser>> /\ ask'.bind \in {ask.bind, bindUser}
    BY <1>3 DEF Handler, LoadsList, StoresList, Status, Polls, TakesLists, AnswersStatus,
                ReceivesStatus
  <2> QED BY <1>1, <2>1
\* a message puts its own name under its own sender
<1>4. ASSUME NEW m \in Message, SetsPause(m) \/ Refuses(m) \/ Accepts(m)
      PROVE  BInv'
  <2>1. UNCHANGED <<bound, told, strays, call, ask>>
    BY <1>4 DEF SetsPause, Refuses, Accepts
  <2>2. AskedAt(bindUser')
    <3>1. CASE bindUser' = bindUser
      BY <3>1
    <3>2. CASE Says(m, "bind") /\ bindUser' = [bindUser EXCEPT ![Sender[m]] = BindName[m]]
      <4>1. \A d \in Ding : bindUser'[d] = bindUser[d]
                             \/ (d = Sender[m] /\ bindUser'[d] = BindName[m])
        BY <3>2 DEF TypeOK
      <4> QED BY <3>2, <4>1 DEF AskedAt, BindAsked
    <3> QED BY <1>4, <3>1, <3>2 DEF SetsPause, Refuses, Accepts
  <2> QED BY <1>1, <2>1, <2>2
<1>5. CASE AgentStep
  <2>1. CASE PostsLink
    BY <1>0, <2>1 DEF PostsLink, BindToldTrue, BoundToSome
  <2>2. CASE NoLinkNeeded \/ BindsAllDone
    BY <1>1, <2>2 DEF NoLinkNeeded, BindsAllDone
  <2>3. CASE PostsStatistics
    BY <1>0, <2>3 DEF PostsStatistics, BindToldTrue, BoundToSome, NoCall
  \* the row is updated for who asked, and the call follows only then
  <2>4. ASSUME NEW d \in Ding, BindsUser(d)
        PROVE  BInv'
    <3>1. UNCHANGED <<bindUser, told, strays>> /\ bound \subseteq bound'
      BY <2>4 DEF BindsUser
    <3>2. AskedAt(ask'.bind)
      <4>1. \A e \in Ding : ask'.bind[e] \in {ask.bind[e], NoName}
        BY <2>4 DEF BindsUser, TypeOK
      <4> QED BY <4>1 DEF AskedAt
    <3>3. \A p \in bound' : BindAsked(p[1], p[2])
      BY <2>4 DEF BindsUser, AskedAt
    <3>4. call'.kind = "bind" => \E e \in Ding : <<call'.arg, e>> \in bound'
      BY <2>4 DEF BindsUser, NoCall
    <3>5. BindToldTrue'
      BY <3>1 DEF BindToldTrue
    <3> QED BY <1>0, <3>1, <3>2, <3>3, <3>4, <3>5 DEF BoundToSome
  <2>5. CASE HandlesLists
    BY <1>1, <1>2, <2>5 DEF HandlesLists
  <2> QED BY <1>5, <2>1, <2>2, <2>3, <2>4, <2>5 DEF AgentStep
<1>6. CASE CallServed
  <2>1. call \in Call /\ Notified(call) /\ call' = NoCall /\ UNCHANGED strays
    BY <1>6 DEF CallServed, TypeOK
  <2> QED BY <1>0, <2>1, NotifiedBinds DEF NoCall, BoundToSome
<1>7. ASSUME NEW s \in strays, StrayServed(s)
      PROVE  BInv'
  <2>1. s[1] \in Call /\ Notified(s[1]) /\ UNCHANGED call /\ strays' \subseteq strays
    BY <1>7 DEF StrayServed, TypeOK
  <2> QED BY <1>0, <2>1, NotifiedBinds DEF BoundToSome
<1>8. ASSUME NEW d \in Ding, NEW l \in links, LogsIn(d, l)
      PROVE  BInv'
  BY <1>1, <1>8 DEF LogsIn
<1>page. ASSUME NEW a \in AtPage, LogsInAtPage(a)
       PROVE  BInv'
  BY <1>1, <1>page DEF LogsInAtPage
<1>9. CASE Failure
  <2>1. CASE StatusLost \/ FetchFails \/ CallLost
    BY <1>1, <1>2, <2>1 DEF StatusLost, FetchFails, CallLost
  <2>2. CASE CallGivenUp
    <3>1. UNCHANGED <<bindUser, ask, bound, told>> /\ call' = NoCall
          /\ \A s \in strays' : s \in strays \/ s[1] = call
      BY <2>2 DEF CallGivenUp
    <3> QED BY <1>0, <3>1 DEF BindToldTrue, NoCall, BoundToSome
  <2>3. CASE Restarts
    <3>1. UNCHANGED <<bound, told, strays, call>> /\ ask' \in {ask, NoAsk}
          /\ bindUser' = [d \in Ding |-> NoName]
      BY <2>3 DEF Restarts
    <3> QED BY <1>1, <1>2, <3>1 DEF AskedAt
  <2> QED BY <1>9, <2>1, <2>2, <2>3 DEF Failure
<1>10. CASE UNCHANGED vars
  BY <1>1, <1>10 DEF vars
<1> QED BY <1>3, <1>4, <1>5, <1>6, <1>7, <1>8, <1>9, <1>10, <1>page DEF Next, Chat

\* Whoever is told that a name is bound had asked for it, and it was bound, to their id or to
\* that of another who had asked for it, however late the notification comes.
THEOREM RelayBindToldTrue == Spec => []BindToldTrue
<1>1. BInv => BindToldTrue
  BY DEF BInv
<1>2. Init => BInv
  BY BindsInit DEF AInv
<1> QED BY <1>1, <1>2, BindsStep, PTL DEF Spec

\* A row gets an id from a binding that was asked for, or from a link by who holds it.
LEMMA OwnersStep == AInv /\ [Next]_vars => AInv'
<1> SUFFICES ASSUME AInv, [Next]_vars PROVE AInv'
  OBVIOUS
<1> USE DEF AInv, serverVars, agentVars, accountVars, countVars, histVars
<1>0. BInv' /\ TypeOK /\ TypeOK'
  BY BindsStep DEF BInv
<1>1. ASSUME UNCHANGED <<links, dingtalkId, misled>>
      PROVE  AInv'
  BY <1>0, <1>1 DEF LinksRight, AccountsReachOwners
<1>2. CASE Handler \/ Chat \/ Status
  BY <1>1, <1>2 DEF Handler, LoadsList, StoresList, Chat, SetsPause, Refuses, Accepts, Status,
                    Polls, TakesLists, AnswersStatus, ReceivesStatus
<1>3. CASE AgentStep
  <2>1. CASE PostsLink \/ NoLinkNeeded \/ PostsStatistics \/ BindsAllDone \/ HandlesLists
    BY <1>1, <2>1 DEF PostsLink, NoLinkNeeded, PostsStatistics, BindsAllDone, HandlesLists
  <2>2. ASSUME NEW d \in Ding, BindsUser(d)
        PROVE  AInv'
    <3>1. UNCHANGED <<links, misled>>
      BY <2>2 DEF BindsUser
    <3>2. \A a \in Account : \/ dingtalkId'[a] = dingtalkId[a]
                             \/ dingtalkId'[a] = d /\ ask.bind[d] = a /\ ask.bind[d] # NoName
      BY <2>2 DEF BindsUser, TypeOK, BInv
    <3>3. \A a \in Account : \/ dingtalkId'[a] = dingtalkId[a]
                             \/ (dingtalkId'[a] = d /\ BindAsked(a, d))
      BY <3>2 DEF BInv, BindsRight, AskedAt
    <3> QED BY <1>0, <3>1, <3>3 DEF LinksRight, AccountsReachOwners
  <2> QED BY <1>3, <2>1, <2>2 DEF AgentStep
\* a new link is its requester's or counted
<1>4. ASSUME NEW c \in Call, Notified(c)
      PROVE  AInv'
  <2>1. UNCHANGED dingtalkId
    BY <1>4 DEF Notified
  <2>2. CASE NewLink(c)
    <3>1. misled \subseteq misled'
      BY <2>2 DEF NewLink, Hands
    <3>2. \A l \in links' : l \in links \/ l[1] = l[2] \/ l \in misled'
      BY <2>2 DEF NewLink, Hands
    <3>3. LinksRight'
      BY <3>1, <3>2 DEF LinksRight
    <3>4. AccountsReachOwners'
      BY <2>1, <3>1 DEF AccountsReachOwners
    <3> QED BY <1>0, <3>3, <3>4
  <2>3. CASE StatisticsNotify(c) \/ BindSuccessNotify(c)
    BY <1>1, <2>1, <2>3 DEF StatisticsNotify, BindSuccessNotify
  <2> QED BY <1>4, <2>2, <2>3 DEF Notified
<1>5. CASE CallServed
  BY <1>0, <1>4, <1>5 DEF CallServed, TypeOK
<1>6. ASSUME NEW s \in strays, StrayServed(s)
      PROVE  AInv'
  <2>1. s[1] \in Call
    BY <1>0 DEF TypeOK
  <2> QED BY <1>4, <1>6, <2>1 DEF StrayServed
\* who logs in puts the id of the link into the own row: their own, or one it went astray with
<1>7. ASSUME NEW e \in Ding, NEW l \in links, LogsIn(e, l)
      PROVE  AInv'
  <2>1. UNCHANGED misled /\ links' \subseteq links
    BY <1>7 DEF LogsIn
  <2>2. \A a \in Account : \/ dingtalkId'[a] = dingtalkId[a]
                           \/ a = Own[e] /\ dingtalkId'[a] = l[2]
    BY <1>0, <1>7 DEF LogsIn, TypeOK
  <2>3. l[1] = NoDing \/ l[1] = e
    BY <1>7 DEF LogsIn, MayUse
  <2>4. l[2] = e \/ (l \in misled /\ (l[1] = NoDing \/ Own[l[1]] = Own[e]))
    <3>1. l[2] \in Ding
      BY <1>0 DEF TypeOK, Handed
    <3> QED BY <2>3, <3>1, NoneAssumption DEF LinksRight
  <2>5. AccountsReachOwners'
    BY <2>1, <2>2, <2>4 DEF AccountsReachOwners
  <2> QED BY <1>0, <2>1, <2>5 DEF LinksRight
<1>page. ASSUME NEW b \in AtPage, LogsInAtPage(b)
       PROVE  AInv'
  <2>1. UNCHANGED <<misled, links>>
    BY <1>page DEF LogsInAtPage
  <2>2. \A a \in Account : dingtalkId'[a] \in {dingtalkId[a], NoDing}
    BY <1>0, <1>page DEF LogsInAtPage, TypeOK
  <2> QED BY <1>0, <2>1, <2>2, NoneAssumption DEF LinksRight, AccountsReachOwners
<1>8. CASE Failure
  BY <1>1, <1>8 DEF Failure, StatusLost, FetchFails, CallLost, CallGivenUp, Restarts
<1>9. CASE UNCHANGED vars
  BY <1>1, <1>9 DEF vars
<1> QED BY <1>2, <1>3, <1>5, <1>6, <1>7, <1>8, <1>9, <1>page DEF Next

\* The id of somebody else gets into a row by a binding that was asked for or by a link that
\* went astray, to the row's owner or to the chat for nobody; by RelayLinksAstray there is no
\* such link without a late call or a restart.
THEOREM RelayAccountsReachOwners == Spec => []AccountsReachOwners
<1>1. AInv => AccountsReachOwners
  BY DEF AInv
<1> QED BY <1>1, BindsInit, OwnersStep, PTL DEF Spec

=============================================================================
