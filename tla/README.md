# Verification of xxqg-automate

TLA+ models of the learning agent (`cmd/lan`) and of the chat server (`cmd/wan`), the TLC runs
that check them on small instances, and TLAPS proofs of the properties that matter most, for
every value of the constants. `PROJECT.json` says, for every definition, which lines it models.

    tlc -workers 2 -config StudyQueue_restart.cfg MCStudyQueue
    tlapm StudyQueueProofs.tla

## The system

Two processes, each started again by a daemon when it ends (`runDaemon`), talk over HTTP; the
agent also talks to the learning site and keeps its state in a database, the server keeps its
state in memory.

    chat users --> [wan server: lists, queue, flags] <--poll, notifications-- [lan agent] --> site
                        | access token: expiring cache        | t_user, t_job, goroutines

| Component | State | Operations | What makes it correct |
|---|---|---|---|
| Study queue (`study/core.go`, `JobService`) | `studyUserMap`, a `StudyingJob` with start signal and timer per goroutine, `t_job` rows with status 1, the times in `t_user` | `StartStudy`, `StartStudyRightNow`, `startStudy` | a waiting study can be woken; a study begun is resumed after a crash; the map names live studies only |
| Cron job and resumption (`AutoStudyJob.go`) | the rows it read, the loop variable its closures share | two queries, `CheckUserCookie`, `ants.Submit`; `loadJobs` at start | everybody due is studied in the end |
| Chat server (`controller/wan/Index.go`) | `loginReq`, `needStatistics`, `bindUser`, `manualStudy`, `tagUser`, `locker`, the pause | the chat handler, `status`, the notification handlers | what was acknowledged is kept; a link goes to who asked for it; an account carries its owner's id |
| Agent's poll (`CommunicationJob.go`, `BindUser`) | the answer it works on | `fetchServerInfo`, calls to `newLink`, `statisticsNotify`, `bindSuccessNotify` | everybody in the queue is served; marks go to those who asked |
| Login flow (`XxqgService.go`, `UpdateByUid`) | `t_job` rows with status 2, a polling goroutine per link | `GetXxqgRedirectUrl`, `checkLogin`, `LoadLoginJobs` | a login under way outlives a crash; one row per account |
| Keep-alive (`AutoKeepAliveJob.go`) | the rows it read, the shared loop variable, sleeping goroutines | `keepAlive`, `doKeepAlive` | a dead login is noticed; a verdict is about its own account |
| Expiring cache (`cache/Index.go`) | `m`, `timeMap`, the count of seconds, the channel of deletions | `Set`, `Get`, `TTL`, `Delete`, `Clear`, `Close`, `DoForEach`, `run`, `multiDelete` | nothing outlives its time for a reader, nothing is kept for ever |
| Access-token job, chat messages (`AccessTokenJob.go`) | the token in the cache | `RefreshAccessToken` hourly and on a miss | (uses the cache) |
| Score reset (`ResetScoreJob.go`), user rows (`UserService`) | columns of `t_user` | one statement each | part of the models above |
| Learning session (`Answer.go`, `Article.go`, `Video.go`) | the browser's contexts; per call a loop counter and the question last seen | `Learn`, `Answer`, `Score`, the repetition of an `Answer` that panics | a context is closed by whoever opened it; a repeat replaces what it repeats; a session ends |
| A question of a quiz (`startAnswer`, `radioCheck`, `FillBlank`) | the title last seen, the answer, what is ticked and filled | one round of the loop, statement by statement | what the tips name is ticked, once; the title stands for the question |
| Statistics (`StatisticsService.go`) | the lists read so far | five queries over rows that others write | nobody is lost, nobody is in two lists that speak against each other |
| Update check (`update/index.go`) | the version built in | `CheckUpdate`, `versionCompare` | a newer release is told of, an older one is not |
| LAN web pages (`controller/lan`) | none | two links to log in, `statisticsInfo`, a list of users | part of the models of login, relay and statistics |
| Question bank, configuration, utilities | none that changes | reads, downloads | not modelled, but for what a lookup gives |

How they interact: the server's lists reach the agent in the answer to `status`; the agent calls
`StartStudyRightNow` for each name in `StartStudy`, starts a login (`GetXxqgRedirectUrl`) for the
head of the queue and posts its link back. A login writes `t_user`, which the cron job and
keep-alive read; keep-alive and a study expire it. Goroutines share `studyUserMap` without a lock,
closures share the variable of the loop that submits them (the module is `go 1.19`), and `t_job`
is what a restarted agent goes by.

The hard behaviours: goroutines of one user that overlap; requests at every point of a study's
start; a crash between two transactions; rows read long before they are used; handlers that take
the lock and handlers that do not; calls that are lost, or arrive after their caller gave up; a
count of seconds that lags behind the clock. They are listed line by line under `hazards`.

## The modules

| Module | Models | Checked by | Proofs |
|---|---|---|---|
| `StudyQueue` | study queue, cron job, resumption, rows with status 1, score reset | `MCStudyQueue`: study_restart, study_live, study_removal | `StudyQueueProofs` |
| `StudySession` | what a study does while it learns: `Learn`, `Answer`, `Score` for one user | `MCStudySession`: session_live | `StudySessionProofs` |
| `CommandRelay` | chat server, agent's poll, the network between them, binding and marks | `MCCommandRelay`: relay, relay_mark, relay_received | `CommandRelayProofs` |
| `LoginFlow` | links, polling goroutines, rows with status 2, `UpdateByUid`, keep-alive | `MCLoginFlow`: login_safety, login_live | `LoginFlowProofs` |
| `ExpiredMap` | expiring cache with both goroutines | `MCExpiredMap`: cache_safety, cache_early | `ExpiredMapProofs` |
| `TtlCache` | abstract: what a cache can be relied on for | as property `TtlSpec` of cache_safety | `CacheImplementsTtl` |
| `QuizAnswer` | one question in the loop of `startAnswer`: tips, options, blanks | `MCRules`: rules | `QuizAnswerProofs` |
| `VersionCompare` | what the agent says of a newer release | `MCRules`: rules | `VersionCompareProofs` |
| `Statistics` | the five queries of a report, and what writes a row between them | `MCRules`: rules | `StatisticsProofs` |

### StudyQueue

A `Task` is a goroutine of the pool; `pc` says which statement comes next, with one location for
each point another goroutine can come between: "closure" (submitted, has not read the loop
variable), "lookup" (`StartStudyRightNow`), "delete" and "save" (the two transactions of
`StartStudy`), "register" to "leave" (`startStudy`). The fields of its `StudyingJob` are functions
from tasks. `t_user` is `lastStudy`, `done`, `status`, `onlyLogin`; `t_job` is `jobs`. Time is in
hours. `done` stands for `last_finish_time >= last_study_time and last_score >= 10`, which is all
the second query asks for.

- `Signal`, the stop of the timer and `close` are one step with their panics (`WakePanics`): a
  nil or closed channel, a timer that is not there. `WakesWaiting` covers the timer that is set
  between `close` and `Stop`.
- `dealFailedToken` calls `zorm.Delete` with a `Job` whose primary key is empty; no row goes.
- What happens inside `Core.Learn` and `Core.Answer` is the location "learn"; `StudySession` is
  what it stands for.
- `Crashes` empties memory and makes `loadJobs` read the rows; it stands for `os.Exit` in
  `Answer.go`, for the fatal error of an unsynchronised map, and for a kill.
- `loadJobs` shares its loop variable `job` between its closures too (`AutoStudyJob.go:98`), but
  sleeps a second after each submission (:108): a closure is taken to have read it by then, so
  `LoadsJob` gives a goroutine its row at once. The loop of the cron job has no such sleep.
- All rows have a token, as a login writes one (an empty one is never queried for).

### StudySession

A goroutine `Go` either runs a session (`session`), which makes the calls of `Following` one after
the other, or an `Answer` that is repeated. `pc` is "begin" (`Score` and the tests before the page),
"open" and "work" (the loop). `open` counts the browser's contexts, `held` says which calls have
deferred a `Close`. What a score says, and what a page shows, is any outcome of the step that reads
it; the points of the site are not kept. `Score` opens and closes a context of its own within one
step, except when `AddInitScript` or its `Close` fails (`InitScriptFails`, `ReadLeaks`, `ScoreLeaks`),
where it keeps it open (`StayOpen`). `Close` is the deferred functions of a call: the context is closed, or
the browser returns an error, which is only logged, and nobody closes it any more.
`Replaces` is the deferred functions of a panicking `Answer` in their order. `Exits` is the
`os.Exit` of `Score` and `Answer`: all goroutines are gone and a new browser is started.
`BrowserDies` is never repaired, as nothing calls `Init` again.

### CommandRelay

A `Message` is a chat message and the handler of its request. Handlers interleave at the statements
that share memory: `append` reads the slice (`LoadsList`) and assigns it (`StoresList`), with no
lock; a message with a login holds `locker` to the end of its handler, the status handler all along
(`Locked`). `list` and `taken` hold the senders' ids, as the slices do: two requests of one person are the
same entry twice. Setting the pause (`SetsPause`) and reading it (`Refuses`, `Accepts`) are two steps. The
store to `needStatistics` and the write to `bindUser` are one step with what comes before them: each is a
single assignment that nothing before the next list reads back. A slice or map read half-written is the
crash of `Restarts`, if anything. The agent is a sequential process (`apc`) with at most one call in flight (`call`). A
call it gave up on becomes a stray, which is served at any later time. `dingtalkId` and `onlyLogin`
are columns of `t_user`; `links` are links posted and not yet used, each with whom it names and whom it was made for:
with an empty queue `newLink` posts it all the same and names nobody, so anybody may log in by it
(`MayUse`). `LogsIn` is the outcome of the login flow: the row gets the id the link was *made* for. `LogsInAtPage` is a login by the agent's own page, whose link was made for
nobody: `UpdateByUid` writes an empty id. `AtPage` says whose owners do that. `astray` and `misled` (how many links did not reach who they
were made for, and which), `arrived`, `bound`, `told`, `handled` and `netLost` are history for the
properties.

### LoginFlow

A login is known by its link, which is also the code in its job row and the token it leads to. A
goroutine is in the login flow ("save" to "delete", "resume" when `LoadLoginJobs` submitted it) or
checks a login ("closure" to "mark"). `UpdateByUid` counts in `Counts` and writes in `Writes`,
as the count is outside the transaction. The closures of `LoadLoginJobs` read the shared variable
twice: for the job they poll for and, when they are done, for the job they delete (`WithoutJob`).
`keepAlive` reads rows and tokens (`read`), and `Sleeps` is the moment the closure evaluates its
shared variable. `due` is `last_check_time is null or` four hours ago; `Uid`s, scans and good
tokens are the site's.

### ExpiredMap and TtlCache

Every method holds `lck` from its first to its last statement, so it is one action. `run` is three
locations: at the `select`, about to lock and look into `timeMap`, about to send. `ClockTicks`
passes a second and fills the ticker's channel, which holds one tick: a tick that finds it full is
dropped, so the count may be behind the clock by any number of seconds, never ahead. A slot of
`timeMap` is a set of pairs: that a slice may hold a key twice changes nothing, as the second
delete finds nothing. `Length` is read-only and left out. The wall clock is taken not to step back.

`TtlCache` knows what a `Get` would answer and which times are still to be handled. Under the
refinement mapping `entry <- Answerable, due <- Due`, a deletion of what is over is a stutter,
a second passing forgets what is over by then, and `MultiDelete` is `Handle`: it forgets
whatever its keys hold, which is how an entry set again can be forgotten early.

### QuizAnswer

`StudySession` counts the rounds of a quiz and looks at nothing in them; `QuizAnswer` is one question
with everything a round does about it. A text is a sequence of a few characters, as matching by parts
and removing spaces is what decides. `PaperAssumption` and `OptionsAssumption` say what a page is: texts are sequences, and no two options
of a question are the same, as the letter before each is part of it. `pc`
is the statement of the round that comes next, and any
read or click may fail (`LosesTips`, `SeesNone`, `Continues`): the round is over and the next one finds
the page as it is. `Ticked` and `CanTurn` are the page's, modelled from how the code uses them: a second
click takes a tick away, and the button turns the page once something is ticked or all blanks are
filled. Under the mapping `callOf`, `pcOf`, `iOf`, `titleOf`, `heldOf`, its steps are steps of a
`StudySession` with one goroutine in a quiz (`QuizSteps`): kept title, counter and repetition agree.

### VersionCompare

A version is its three numbers and what follows the `-`. `MainIntVersion` is what the code compares:
the digits without the dots, as one number. `NewerAnnounced` is about releases, and says for which
the comparison is the order of versions: those whose second and third numbers have as many digits.
v1.2.10 is read as 1210, newer than v1.3.0, and a beta is never told of its release.

### Statistics

One row, as rows do not depend on each other. The transactions of `StudyQueue`, `LoginFlow` and the
daily reset may come between any two queries, in any order: studies of a user overlap and break off
anywhere. The score is its own variable here, where `StudyQueue` has `done`. `meanwhile` is history:
what came between the first query and the last. The minute by which a delay may pass midnight is left
out, as in `StudyQueue`.

## The runs

All are exhaustive. Deadlock is not checked in any: the clock and the requests are bounded, so
every model stops somewhere (and `Close` of the cache really can wait for ever).

| Run | Bounds | Shows |
|---|---|---|
| study_restart | 1 user, 2 goroutines, 2 jobs, one request or crash, failing statements, a day of 3 hours and the first of the next | `TypeOK`, `MapEntryLive`, `StudyNeverForgotten`, `NoStrandedWait`, `WaitsBounded` |
| study_live | 2 users, 2 goroutines, 3 jobs, an hour that passes, a delay of an hour, 2 requests, a login that expires | `EligibleGetsStudied`, `StudyEnds` |
| session_live | 2 goroutines, 3 sessions, 2 questions, 2 rounds (3 in a quiz), 1 more read, 2 contexts left open | `TypeOK`, `ContextsAccounted`, `OneAttemptPerSession`, `SessionEnds`, `SessionShrinks` |
| study_removal | as study_restart, statements do not fail | violation of `SelfRemovalOnly`: finding 1 |
| relay | 2 people, one of them at the agent's page too, 3 messages with every command but the mark, the same name asked for twice and an unknown one, a loss and a stray, or a restart | `TypeOK`, `LinksAstray`, `BindToldTrue`, `AccountsReachOwners`, `LoginServed`, `StatisticsReported`, `KnownBindSettled` |
| relay_mark, relay_received | 2 people who both ask to study, one for the mark, no failure | violations of `OnlyAskersMarked`, `ReceivedIsKept`: findings 2 and 3 |
| login_safety | 2 accounts, 2 links, 2 goroutines, 2 rows, a crash, failing statements | `TypeOK`, `LoginRemembered`, `DuplicatesBounded`, `VerdictOnOwn` |
| login_live | 1 account, 2 links, 2 goroutines, 2 rows | `PollingEnds`, `DeadLoginNoticed` |
| cache_safety | 2 keys, 1 value, times of 1 and 2 seconds, channel of 1, 3 seconds | `TypeOK`, `NothingLeftBehind`, `TtlSpec` |
| rules | questions with 3 texts, 2 tips or 3 blanks, 3 rounds; versions of 0, 9 and 10; days of 2 ticks, 3 ticks | `TypeOK`, `ClickedOnce`, `TickedRight`, `BlanksRight`, `QuizSteps`, `NewerAnnounced`, `StatTypeOK`, `EveryoneReported`, `NoContradiction` |
| cache_early | 1 key, the server's calls of the cache, 4 seconds | violation of `DeletedLate`: finding 4 |

Why the bounds are enough. Hazards of the study queue need two goroutines of one user, the one
that is replaced and the one that replaces it, or two users in one firing; a third adds more of
the same pairs, and the safety properties are proved for any number. One crash reaches every
point of every goroutine, and what follows it (resumption next to a new request) is explored; a
crash during resumption starts it again from the same rows. A day of three hours has the first
firing (from `FirstHour` on), a delay, the repetition of an unfinished study and a midnight. In the relay three messages
ask for every command but the mark, two of them for a login and for the same name, so that one person may be
taken for the other, and the third for a name no row has; one loss and one stray, or one restart, hit every
call, and all invariants are proved for any number. One
account without an id is enough (`OwnedSpec`), as rows are written one by one. In a session two goroutines are the one that panics and
the one that answers again, or the one left over and the next session; two questions are enough for
a quiz that never ends, and three rounds for one that would not without its counter. In the login
flow two logins are the least that can race, in two rows or in one. In the cache two keys share a slot or a message, a channel of one is
full as soon as one message waits, and three seconds let the count lag by up to three. Two tips are
the least that name one option twice or two options; 0, 9 and 10 are the numbers at which the digits
change; two days are enough for a midnight between two queries. The three parts of rules have
nothing to do with each other and share a run only to be run together.

`MaxTime`, `MaxRequests`, `MaxCrashes`, `MaxLosses`, `MaxStrays`, `MaxRestarts` bound the models and
nothing in the code, as do `MaxSessions` and `MaxLeaks`. `LastTick` bounds the clock of a report. `Rounds` is 20 in the code and 2 in the
runs, `MaxRounds` 30 and 3, `Stuck` 30 and 3, `Reads` 5 and 1, `Tries` 150 and 1, `DelChannelCap` 100 and 1, and the
hours of the study queue keep their order (`MaxDelay` < `Period` < `Day`).

Symmetry is used in the safety runs only, for values nothing tells apart. In study_live the action
constraint `Quiet` leaves out marks, crashes and finished days (no study earns enough points), and goes two
ways: either the first user's login expires before all else, and the other's study is delayed or not, waits
for the clock or for one of two requests, and overlaps with the studies these start; or both logins are
good, the time is over when all begins, and the two users' closures share the variable of the cron job's
loop. Together all the ways to wait and to be woken (`ArmsTimer`, `TimerFired`, `WaitsForSchedule`,
`WakesWaiting`, `WakePanics`) are in it; that none is stranded next to a crash or failing statements is
`NoStrandedWait`, checked in study_restart and proved.
In relay, `FewFailures` bounds the failures together, as the run says, and `LoginsBetween` has people log in
while nobody waits for a link and no handler runs: neither the server nor the agent's poll looks at what a
login writes (only the marks do, which are in relay_mark), so that another moment changes nothing for them.
The invariants of that run are proved without either.
In study_restart a request or a crash happens,
not both, and no login changes after it (`OneDisturbance`); a mark comes only when all else is over
(`MarkedLast`), as it keeps the cron job from a user and does nothing more. The invariants of that
run are proved without these restrictions.

### Fairness

- Goroutines of the pool run (`WF` of each task's next step): the pool has no size limit in the
  code (`ants.Submit` on the default pool), and statements, HTTP requests and the learning itself
  are taken to return. An agent whose browser hangs for ever is outside the models.
- The cron and keep-alive jobs fire and their loops go on; the clock advances. Strong fairness is
  assumed in one place, `DueAgain`: a row is due four hours after its check, by the clock,
  whatever becomes due meanwhile. That it waits until nobody else is due stands for the distance
  between four hours and the two minutes between firings.
- The calls of a session are taken to return, whatever the page: `StudySession` says how often they
  are made. Nothing is assumed of what the pages show, of new questions, or of the browser.
- The agent polls again however its last poll ended, the server's handlers run to their end, and a
  call that is neither lost nor given up on is served. Nothing is assumed of people, failures,
  strays or crashes.

## Findings

1. `study_removal`: `core.go:218` says a study that is done deletes *itself* from the map; the
   code deletes the entry of its user, perhaps its successor's.
2. `relay_mark`: the loop for `TagUsers` ranges over `StartStudy` (`CommunicationJob.go:88`): who
   asked to study is marked only-login, and who asked for the mark is not.
3. `relay_received`: handlers append to `manualStudy` without the lock; when two people ask at once, the
   id of one, who was told "received, please wait", is nowhere.
4. `cache_early`: `cache/Index.go:39` says data is deleted a little late; the slot of the time a key
   was set to expire at before deletes the entry it was set to since. The server sets the access
   token every hour, and a miss makes it fetch another one.

What the models have and no text in the repository speaks against is not a finding, and is listed
with a note under `hazards`: a study woken before its time counts as unfinished; a resumed login
deletes the job its shared variable names by then; a late verdict expires a login made meanwhile; a
name no row has is bound again at every poll, which holds up nobody else (`KnownBindSettled`); of two people
who ask for one name, the one told of a binding may be the other one (`BindToldTrue`); a link nobody waits for
any more is posted for nobody, and whoever uses it has a stranger's id on his row (`AccountsReachOwners`); a login at
the agent's own page takes the id off an account; who finishes while a report is made may be in none
of its lists; `Close` can wait for ever.

## The proofs

All are for any constants that satisfy the named assumptions, which TLC evaluates in the runs:
bounds are naturals, absent values differ from present ones, and rows (`LoginFlow`) and goroutines
(`LoginFlow`, `StudySession`) are finitely many. Each is by an inductive invariant: it holds initially, every action keeps it,
and it implies the property.

- **StudyQueue.** `Started` (types; a goroutine that is somewhere has a user; nobody runs past
  "register" while the agent starts up) is inductive, and gives `StudyTypeOK`. `NoStrandedWait` and
  `MapEntryLive` are inductive relative to it. `StudyNeverForgotten` is not: the row it finds might be
  one a finished study is about to drop. `Kept` asks for a row no finished study holds, or no row at
  all between the two transactions, and `OwnRows` says that a job id belongs to one goroutine.
  `WaitsBounded` is not inductive either, as the time a goroutine waits for comes from a row: by
  `Scheduled` every time that is kept anywhere (rows, what the cron job read, goroutines) is `Soon`, and
  what is soon stays so when the clock moves, as no day ends before the one it follows (`DaysPass`).
- **StudySession.** `ContextsAccounted` and the types need each other (a count is lowered only if it
  is positive) and `Placed` (a context is held in the loops only); what a failing `Close` or `AddInitScript`
  leaves is counted in `leaked`. For `OneAttemptPerSession`,
  `Bounded` counts not only who answers a quiz but every session that is heading for it.
  `SessionShrinks` is what of `SessionEnds` needs no fairness: `StepsLeft` weighs the calls to come, the
  rounds of the loop and the place in it, each step of a goroutine lowers it until a quiz asks something
  new, and no other goroutine adds to it.
- **CommandRelay.** `LinksAstray` counts what went wrong; inductive is `Drift`, which also counts the
  link the agent is about to deliver when the head of the queue is no longer who it was made for, or the
  queue is empty. A
  stray can misdirect a link and make the next one drift, hence twice; a restart only makes one
  drift; the agent's own delivery settles what it finds. `BindToldTrue` needs that every name on its way
  (in the map, in the answer, in a call, in a stray) was asked for by somebody, and that a call is made
  only for what was bound (`BindsRight`); `AccountsReachOwners` that every link that can be used either names who it was
  made for or is in `misled` (`LinksRight`), those posted for nobody included.
- **LoginFlow.** `HoldsLink` and `HoldsRow` (what a goroutine holds where) give the types. `Decided`
  (a goroutine about to delete its job has no login under way) makes `LoginRemembered` inductive.
  `TokensOwn` follows a token from the row through what keepAlive read, the shared variable and
  the sleeping goroutine, and gives `VerdictOnOwn`. `Bounded` adds the goroutines about to insert to
  the rows and gives `DuplicatesBounded`, with the library's theorems on cardinality.
- **ExpiredMap.** `NothingLeftBehind` needs that the count is never ahead of the clock
  (`CountBehind`), that the times on their way are different and ascending (`Ascending`), and that a
  message has every key of its time (`Complete`): so nothing can be added to a slot between its
  lookup and its deletion. `CacheImplementsTtl` maps initial states and every step to `TtlCache`.
- **QuizAnswer.** What the loops over tips and options build is found by induction on the rounds of a
  loop. The library's induction takes an operator, so `LoopInduction` is stated for the set of rounds at
  which a claim holds, and proved from `LeastNumber`: a set of naturals that is not empty has a least
  one. From it come `RemoveRepOnce` (every element once), `HitsOnce`, `MultiRight` and `SingleRight`
  (an answer names what the tips name, and no option twice). The inductive invariant `IInv` carries this
  through the round: `TouchedLate` (nothing is clicked or filled while the answer is being found, nor
  before the title is kept), `Answered` (from then on the answer is the one for the kind of question),
  `TicksDone` and `FillsDone` (what was passed is done as the answer says, what is ahead is untouched),
  `Counted` (the counter). `ClickedOnce` needs `TouchedLate`: a title forgotten, or kept too late, has the
  question answered over its first ticks. `QuizImplementsSession` maps every step to one of `StudySession` or to none: so what is
  proved of sessions holds of the loop with all it does about a question.
- **VersionCompare.** Numbers below a thousand, written one after another with the same widths, compare
  as the triples do (`DigitTriples`, one case per pair of widths).
- **Statistics.** `RowSound` (a score is of a study that finished no earlier than the day it was due) is
  why no state of a row falls between the conditions; `Overlooked` says, query by query, what is known of
  a user no list has so far, and `Found` of one who is in a list.

Only model-checked: every liveness property (`StudyEnds`, `EligibleGetsStudied`, `SessionEnds`, `LoginServed`,
`StatisticsReported`, `KnownBindSettled`, `PollingEnds`, `DeadLoginNoticed`), which rest on fairness and
`ENABLED`. Every invariant and every action property of a passing run is proved.

## Not modelled

- How a score is parsed (`getScore`); which special quiz is opened (`getSpecialId`: the first of the list
  without a score; when there is none, or the list cannot be read, the quiz is left unanswered, one of the
  outcomes of `StudySession`); `getWeekId`, whose only caller is commented out; the lists of links. That quizzes repeated in one session may outlive it
  is in `StudySession`, not in `StudyQueue`.
- Question bank: its download is commented out in `main`; a lookup is `bank` in a question.
- `SelfUpdate`, `update` and `fromStream`: called by nobody. Versions that are not `vN.N.N` with or without
  `-betaN` or `-SNAPSHOT`, on which `versionCompare` panics or reads zeros.
- Which arguments the daemon passes on: `runDaemon` takes out `--daemon`, and the agent it starts is
  taken to be the one that works. That it runs again when it ends is `Crashes` and `Restarts`.
- Signatures, message texts, configuration, creation of tables: no state of the system.
- `finishNotify`, `expiredNotify`, `loginSuccessNotify`: they forward a text.
- A wall clock that steps back, two firings of a cron job at once, a pool that is full.

## Plan

Written in this order, the behaviour most depends on first: `StudyQueue`, `CommandRelay`,
`ExpiredMap` with `TtlCache`, `LoginFlow`, `StudySession`, `QuizAnswer`, `VersionCompare`, `Statistics`, each
with its proofs. Still to come:

1. `StudySession` as what "learn" of `StudyQueue` stands for: which outcome (finish, expired login,
   failure) a session can have, with the reads it is decided by.
2. A composition of `CommandRelay` and `LoginFlow` through the links, so that the id an account gets
   is followed from the chat message to the row.
