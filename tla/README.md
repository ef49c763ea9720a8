# Jetmon in TLA+

Specifications of [Jetmon](../src/README.md), the uptime monitor of Jetpack: a
node.js *master* (`lib/jetmon.js`) fetches sites from MySQL bucket by bucket
and hands them to forked *workers* (`lib/httpcheck.js`), which check them with
a native addon (`src/http_checker.cpp`).  A site that went down is rechecked
locally, then by remote *verifliers* (`veriflier/`), and a change of status is
posted to WordPress.com.

The modules model the control of the program.  TLC checks them on small
instances; TLAPS proves the most important invariants for every value of the
constants.

    tlc -workers 2 -config Worker.cfg MCWorker.tla
    tlapm Worker_proofs.tla

## 1. The system

| Part | State | Operations | Hard behaviour |
|---|---|---|---|
| Worker process, `lib/httpcheck.js` | `arrCheck`, `pointer`, `running`, `processed` flags, `askedForWork`, `availableForWork`, `suicideSignal` | queue-add, evaporate, checkServers, result callbacks, start-up request, stats | callbacks in any order index an array that is appended to and replaced; retirement races new work |
| Worker pool, `lib/jetmon.js` | `arrWorkers`, `freeWorkers`, `haltedWorkers`, `arrObjects`, `localRetries`, `gettingSites`, `inRound` | spawn, exit, send_work, stop_work, stats, recheck, rows, five-second tick, one-second count, SIGHUP | messages cross exits, exits are handled before last messages, pids are reused, three paths hand out work, two fork |
| Bucket cursor and rounds, `lib/database.js`, `getMoreSites` | `fromBucketNo`, `toBucketNo`, `endOfRound`, `gettingSites`, timers | getNextBatch, answers, errors, round timer, DEBUG restart | the cursor moves before the answer comes; an error tells nobody; two loops in DEBUG |
| Peer confirmation, `host_check_request`, `processQueuedRetries`, `checkHostStatus`, `lib/comms.js`, `lib/server.js` | `queuedRetries` with outstanding and confirm counters | queue, send to peers, reply, purge | lost, late and repeated replies; matching by site only; posts beyond the limit |
| Status of a site, `lib/wpcom.js`, `updateSite`, the verdicts of the workers | its row, the server objects made of it | fetch, verdict, recheck, confirm, post, retry once, update | rounds overlap, so verdicts rest on stale rows; the callback may run several times or never; updates may be reordered |
| Native checker, `src/http_checker.cpp` | socket, TLS objects, host and port | connect, request, redirect, disconnect | every phase may time out; redirects change the scheme under an open connection |
| Veriflier, `check_controller.cpp`, `check_thread.cpp`, `client_thread.cpp` | list of checks, runners and their loads, results per Jetmon server | addChecks, startChecking, finishedChecking, tick, send | a mutex over some of the state, queued signals, limits read before they are updated |
| Database access, `execQuery`, `lib/dbpools.js` | pool clusters, `reloadConfig` | query with failover, check for a new configuration, reload | connections are few; checks overlap; a reload may throw, and replaces a variable others have read |
| SSL cluster, `lib/server.js` | the list of verifliers of its start | forward or refuse a reply | a reload reaches the master only |
| Statistics, configuration file, shutdown | buffers and parsed files | | mostly I/O |

How they interact: the master and a worker exchange JSON messages over a FIFO
channel per direction; a worker's verdicts go to the master, which rechecks
(`localRetries`, then `queuedRetries`) or posts; the verifliers' replies come
back over HTTPS to an SSL worker of the cluster, which forwards them to the
master.  The cursor is called by the master and by nothing else.

What makes each part correct: a worker reports every job it accepts, under the
site it belongs to, within its parallelism, and is never idle without having
asked for work; the pool has every job in one place at most, loses one in few
and known ways, and forgets no worker; a sweep reads every bucket of the host,
once, in time, and goes on; a peer confirmation counts what peers said about
this request and ends; the status stored for a site follows the documented
flows and ends up true; a check frees what it opened; the veriflier keeps its
limits and answers every check; every query calls back, and no new
configuration is overlooked.  Several of these hold under conditions only; the
properties state them, and section 5 lists what the code does otherwise.

## 2. Modules

| Module | Models | Kind |
|---|---|---|
| `WorkerProtocol` | what the master can tell of a worker, as operators from a worker record to the steps that may follow | helpers shared by the next three |
| `WorkerContract` | one worker as its master sees it: jobs owed, flags, messages sent | abstract specification |
| `Worker` | `lib/httpcheck.js` in full | detailed specification, implements `WorkerContract` |
| `Worker_proofs` | invariants of `Worker`, and that it implements its contract | proofs |
| `WorkerPool` | the pool part of `lib/jetmon.js`, composed with workers that follow `WorkerContract` | composition |
| `Rounds` | `getNextBatch` and the loop of `getMoreSites` | specification |
| `Rounds_proofs` | invariants of `Rounds` | proofs |
| `SiteStatus` | one site from end to end: row, objects, verdicts, notifications, writes | specification across components |
| `PeerConfirm` | `queuedRetries`, the SSL workers, and verifliers behind a network that loses and reorders | specification; its verifliers conform to `Veriflier` |
| `Veriflier` | what a veriflier promises its jetmon servers | abstract specification |
| `CheckController` | `veriflier/source`: client threads, queue, signals, runners, posts | detailed specification, implements `Veriflier` |
| `HttpChecker` | `src/main.cpp` and `src/http_checker.cpp`: the checks of one worker on the threads of libuv | specification |
| `Database` | `execQuery`, the pools and the refresh of their configuration | specification |
| `WorkerPool_proofs`, `SiteStatus_proofs`, `PeerConfirm_proofs`, `CheckController_proofs`, `HttpChecker_proofs`, `Database_proofs` | the invariants of those modules; that the verifliers and the controller implement `Veriflier` | proofs |
| `MCWorker`, `MCWorkerPool`, `MCRounds`, `MCSiteStatus`, `MCPeerConfirm`, `MCCheckController`, `MCHttpChecker`, `MCDatabase` | instances | model checking |

### Worker

Node runs one callback at a time, so each handler is one action.  The order of
callbacks, timers and messages is left open, as it is in the code.

| Action | Code |
|---|---|
| `QueueAdd` | `queue-add` message and `addToQueue` |
| `Evaporate` | `evaporate` message |
| `CheckServers` | the 50 ms timer and `checkServers` |
| `AskTimer`, `SendStats` | the 2 s request for work, the 1 s statistics |
| `Callback` | `processResultsCallback`: `StartNext`, or `AtEnd` with retirement, end of pass and request for work |

`inflight` is the set of checks the addon works on, each with the index it was
given and, for the properties only, the site it was started for.  The two limits
are Booleans read where the code reads them.  `sent` is what the last step sent.
The verdict on a site and the message about it depend on the server object
alone and are part of `SiteStatus`.

`WorkerContract` keeps the set of jobs owed and the flags.  The refinement
mapping takes `owed` to the sites of the unprocessed entries of `arrCheck`.  It
justifies the use of the contract's operators, instead of the array, in
`WorkerPool`.

### WorkerPool

The master's variables are a record and each of its functions an operator from
record to record, so that handlers call one another in the model as they do in
the code: `freeWorkersToWork` calls `sendWork`, which may call
`assign_work_to_worker` or `getMoreSites` and `maybeEndRound`.  Messages to and
from each process are FIFO sequences.  What is sent to an exited process is
lost; its own last messages stay readable, and `HandleExit` may run before
they are read.  A pid is reused only once its old messages have been read.
A worker that was shut down from outside (exit code 130) is not replaced by the
exit handler.  `site` gives the site of each job, since rounds overlap and the
local retries drop a second job of a site.  A query is abstracted to its result:
a batch of at most `MaxRows` new jobs, or nothing (`GoOnGettingSites`, which is
also the timer of the next round); queries that fail or throw are in `Rounds`.

### Rounds

`queries` is a sequence although the code believes that it has one query out:
whether there is only one is a property (`SingleLoop`).  Timers are counted.
`getNextBatch` makes its query (`QueryMade`), or `execQuery` throws because the
configuration due to be reloaded cannot be read (`ReloadThrows`): the master
survives, by the `try` around its message handler or its handler of uncaught
exceptions, with `gettingSites` set, no query made and the cursor where it was.
The first batch is not clamped to the range, as later ones are, and the model
does not assume that it fits.
Time is the order of events: in DEBUG mode the loop is restarted at any moment
at which no round timer is pending, as the 20 seconds of grace allow, and must
be restarted sooner or later when the loop has stalled.

### SiteStatus

| Action | Code |
|---|---|
| `Fetch` | a round reads the row (`getMoreSites`) |
| `Check` | a worker's check, its verdict and message (`processResultsCallback`), and what the master does with it (`workerMsgCallback`) |
| `LocalRetry` | a local retry comes due (`processQueuedRetries`) |
| `Confirm`, `Purge` | an offline reply at or beyond the limit (`checkHostStatus`), and the end of the entry |
| `notifyStatusChange`, `Callback`, `NoCallback` | `wpcom.js`: request and update, and the callbacks of the request, any number of them, with the one retry |
| `Store` | the row is written: by `updateSite`, or by WPCOM when `DB_UPDATES_ENABLE` is off |
| `NoticePeriodEnds`, `Flip`, `Lose` | time, the site, and what gets lost |

The other modules each take a site apart from its status; this one follows the
status through all of them.  A queue, a channel or a worker is reduced to the
place an object is in.  `clean` marks objects, posts and writes that rest on the
row as it stands: the row's last write unmarks everything under way.

### PeerConfirm

| Action | Code |
|---|---|
| `host_check_request` | the function of that name, called when the local checks of a site are exhausted |
| `processQueuedRetries` | the remote half of the five-second tick: send what is new, purge what is answered or too old |
| `checkHostStatus` | a reply an SSL worker accepts and forwards, counted for the first entry of its site |
| `addChecks`, `finishedChecking` | the list of checks of a veriflier: the requests of a post are added in one go, under its lock |
| `LosePost`, `LoseReply` | a post that fails or is refused, at either end |
| `ReloadConfig` | SIGHUP: VERIFIERS changes for the master, not for the SSL workers |

An entry is a record with the counters of the code and five fields of history
that no action reads: who was asked, who was heard, who confirmed, how long the
entry has been queued, and whether it was ever together with another request of
its site.  Requests, checks and replies carry the number of the request they
belong to, as the real ones do not; `Answers` ignores it, as the code does.
Time is counted in ticks.  The requests of a tick go to each veriflier in posts
of VERIFLIER_BATCH_SIZE, and batching matters: of two requests of a site in one
post the veriflier drops the second, so that only requests of different ticks,
or of different posts, can both be answered.

### Veriflier and CheckController

`Veriflier` has two variables: the sites under check, and the number of results
about each that are on their way.  A site is not checked twice at a time, a
check yields one result, and results are delivered or lost.  That
`CheckController` and the verifliers of `PeerConfirm` both implement it says that
neither breaks this promise; it does not by itself allow one to be put in the
place of the other.

| Action of `CheckController` | Code |
|---|---|
| `addChecks`, `addCheck` | a client thread takes the lock, then adds the checks of its request one by one |
| `startChecking` | the queued `startCheck` signal, handled on the main thread without the lock |
| `finishedChecking` | a check ends: entry removed, result kept, and the next waiting check started by a direct call of the same slot |
| `ticked`, `finishedSending` | the five-second timer takes the results, server by server; a post ends, well or not |

Which signal is queued and which is a direct call follows from Qt's rules: the
controller and every checker live on the main thread (the runners' threads run
empty event loops, since a `QThread` object lives where it was created), client
threads do not.  The mapping of the refinement takes the entries of `m_checks`
to the sites under check, and results kept or in a post to results on their way.

### Database

| Action | Code |
|---|---|
| `QueryIsMade`, `execQuery` | reload if flagged, then ask the exported cluster for a connection of a slave |
| `Connected`, `ConnectFails` | mysql2 gives one out, or reports that none can be had: a failover is tried, then the caller is called back with the error |
| `QueryEnds`, `QueryEndsInAnother` | callback, then release; a callback that queries again may throw, and the connection is never released (`lost`) |
| `reload`: `Loads`, `LoadThrows` | the load succeeds, or returns false halfway (`Partial`) and the flag is reset all the same, or throws |
| `update`, `ScriptEnds`, `Compare`, `GivesUp` | the three asynchronous stages of the check for a new configuration, and every early end |
| `FilesWritten`, `ReadableOrNot` | the script or anybody else writes either file, or both, at any time; the file cannot be read for a while |

A configuration is its version, which is also the time its file was written.
`original` is the file whose time is looked at, `conf` the one that is loaded.
`exported` and `poolCluster` are the two references the code has to a cluster.

### HttpChecker

| Action | Code |
|---|---|
| `http_check`, `http_check_async`, `http_check_async_fin` | the three functions of `main.cpp`; the last deletes the checker, whose destructor disconnects |
| `getaddrinfo`, `TryAddress`, `ConnectGivesUp` | `connect_getaddrinfo` and `init_socket`, one iteration of the loop at a time |
| `SSL_connect` | `init_ssl` and the TLS half of `connect`: one outcome per exit |
| `send_http_get`, `NoAnswer`, `Answered`, `Redirected` | the calls of `set_host_response`, and its recursion as a return to `resolve` |
| `Expire` | `m_cutofftime` passes |

A check is on one thread, so its members change only by its own steps; checks
meet in the queue.  `lost` and `downgraded` are history.
To `Worker` the whole module is the fact that each check calls back, once.

## 3. Runs

| Run | Instance | Shows |
|---|---|---|
| `worker` | 4 sites, window 2, batches of up to 3 | the properties below and the refinement |
| `pool` | 2 pids, 2 jobs of one site, batches of 1, NUM_WORKERS 1 or 2, one crash, shutdown or reload, pids symmetric | the safety of the pool |
| `pool_liveness` | 2 pids, 2 jobs of different sites, one row per query, no incident, no symmetry | the pool's liveness |
| `rounds` | buckets 2..12 in batches of 3, up to 3 errors, 2 throws and 3 early restarts | the sweep |
| `rounds_stall` | buckets 2..8, one error | *violation*: without DEBUG one failed query ends all sweeps |
| `site` | 2 checks before the peers are asked, 2 confirmations, 2 callbacks per post; 2 objects, 2 posts and 2 writes at a time; one change of the site, one loss; any row at the start | the status of a site from end to end |
| `peers` | 2 verifliers, both needed; 2 sites, 2 requests, batches of 2; time-out of 2 ticks; 2 reloads; sites and peers symmetric | counting and purging |
| `peers_limit` | same, 1 site, no reload, both verifliers listed | *violation*: a site queued twice is confirmed by one veriflier |
| `controller` | 5 checks of 3 sites from 2 servers, requests of up to 2 checks; 2 runners of 1 check | the veriflier's queue and its refinement |
| `checker` | 2 checks, 1 thread, up to 2 addresses | resources, results and progress of checks |
| `db` | 2 callers, 2 connections per pool, 2 overlapping checks, 3 versions | queries and configuration |
| `db_reload` | 3 callers, 1 connection per pool, 2 checks, 2 versions | *violation*: queries do not use a configuration that was reloaded |

The longest take about two minutes (`pool`, 2.9 million states; `site`, 650,000;
`db`, 760,000; `pool_liveness`, 78,000), the others seconds.

The properties of the passing runs:

- **worker.** `ResultsReachTheirSite`: an index handed to the addon still
  denotes the site it was handed for when the callback comes.
  `ParallelismBound`: window, refill and top-up together stay within
  NUM_TO_PROCESS.  `NoJobAbandonedAtExit`: no exit path leaves an accepted job.
  `NeverStuck`: no state in which worker and master wait for each other, or a
  pass for a callback that will not come.  `ImplementsContract`,
  `EveryJobReported`.
- **pool.** `JobInOnePlace`: queue, retry list, messages, workers and finished
  jobs never share a job.  `JobLostInKnownWays`: a job vanishes in four ways
  only: in a message that a worker which exits has not read, in a worker that
  crashes or is shut down after accepting it, sent to a worker that is gone
  without the master knowing, or, when it is to be checked again, because a job
  of its site waits for that already (`add_server_to_local_retries`).  A worker
  that retires loses nothing it accepted, and no other handler drops a job.
  `FreeListIsExact`: the free list, which four handlers rewrite, holds no worker
  twice or about to leave, forgets none that idles, and is empty while work is
  queued.
- **pool_liveness.** `WorkKeepsFlowing`: rows are asked for again and again,
  queued work and retries are handed out, halted workers leave.
- **rounds.** `SingleLoop`: without DEBUG at most one query or timer is
  outstanding, and one always is while `gettingSites` says so, unless a query
  has failed or `execQuery` has thrown.  `EachBucketOncePerSweep`.
  `QueriesStayInRange`: as long as no query fails, none but the first of the
  process leaves the range, and the first by no more than its batch.
  `RoundsArePaced`.  `SweepsGoOnUnlessFailed`: with DEBUG, whatever happens;
  without, as long as no query fails and no reload throws.
- **site.** `RowFollowsFlows`: as long as nothing overtook it, a write takes the
  row along an arrow of the README's table, never elsewhere and never to where
  it is.  `SiteSettles`: whatever was stale, repeated, reordered or lost before,
  once the site stays up (or down) the row says so for good and the posts end,
  provided that the site is fetched again and again (`RoundsGoOn`) and, if it is
  down, that the verifliers go on confirming what is queued for them
  (`OutagesAreConfirmed`).  Without either condition it fails, and the code
  guarantees neither: a failed query ends the rounds (`rounds_stall`), and
  every post to or from a veriflier may be lost.
- **peers.** `CountsAreExact`: of an entry that never shared its site the
  counters are the numbers of peers not yet heard and confirming, and it is
  called down exactly when enough different peers have confirmed, through
  losses, delays, refusals and reloads.  `NoEarlyPurge`: it is not dropped while
  an answer may still come in time.  `ResidenceBound`: no entry, whatever
  replies it takes for its own, stays longer than the time-out per peer asked.
  `PeersAreVerifliers`: the verifliers assumed here keep the promise that
  `CheckController` implements.
- **controller.** `NoDanglingCheck`: an entry is found by its site and freed, and
  no signal or checker points to one that is gone.  `WaitsOnlyWhenFull`: although
  `m_checking` lags behind, no check is left waiting with room to start it.
  `TypeOK` includes that the counters are those of the checks at work, and that
  only the first runner can be overloaded.  `ImplementsVeriflier`,
  `EveryCheckAnswered`.
- **checker.** `ResourcesReleased`: nothing stays open or allocated over
  addresses, redirects and failures, except that a redirect from https to http
  loses the TLS objects.  `OwnSession`: no stale or missing session is used.
  `UpWasAnswered`: no failure is reported with the code of the redirect before
  it.  `EveryCheckCallsBack`.
- **db.** `ChangeNoticed`: a new version is loaded, flagged, or still to be
  found by a check under way, however checks overlap and reloads throw, but for
  four ways in which the code overlooks one: the loaded file is written without
  the one whose time is looked at; or between two checks; or the check under way
  gives up; or the load returns false, for the flag is reset all the same.
  `QueriesAnswered`: every query made calls back, over slave and
  failover, however many wait and whichever callbacks throw, as long as no pool
  has lost all its connections to callbacks that threw before the release.

Each property also fails for at least one plausible error in the code: the
modules hold mutated definitions beside the faithful ones (`addToQueueReschedules`
beside `addToQueue`), and substituting one makes TLC find the violation.

### Bounds and why they are enough

- *Worker.* With a window of 2 and batches of 3 a batch does not fit the window
  and a second batch arrives while the window is full, partly drained or empty.
  Four sites let a pass be appended to, end, and a new one start while the site
  identities still differ.  A site may be sent again once the array has dropped
  it, so passes repeat without bound.
- *Pool.* Two processes are what races need: one exits, the other takes over,
  a pid is reused.  One incident keeps the run within minutes; two jobs are
  enough for one to be queued while the other is out, and being of one site, for
  one to be dropped from the retries because of the other.  Statistics are sent only
  when the master has read what the worker sent before, which bounds the
  channel.  A job is rechecked locally at most once.
- *Rounds.* 11 buckets in batches of 3 end in a partial batch; three errors move
  the cursor below the range, three restarts run three loops, and the second
  throw meets a loop that the first has stopped and DEBUG restarted.
- *SiteStatus.* Two objects are an old and a new round, two posts or writes are
  what can be reordered, and the row starts anywhere, so one change of the site
  stands for any number: a long history ends in one of these starts with
  something stale under way, and the loss may fall before or after the change.
  An entry may leave the verifliers unconfirmed at any time, without counting.
- *PeerConfirm.* Two requests are what it takes to confuse replies: the two of
  one site may be queued together, and share a post, or one after the other, the
  two of different sites are what must not mix.  With two ticks of time-out an entry can be
  answered before, at and after its purge.  Two reloads take a peer out of
  VERIFIERS and bring it back.  A third peer or a third request multiplies the
  states beyond what is checked in minutes; neither adds a kind of confusion.
- *CheckController.* The queue exceeds the runners, one site is asked about
  twice by one server and one by both, and a request may hold a check that is
  dropped beside one that is not.
- *Database.* Once one of the two connections is lost, two callers queue for the
  other, which may be lost too; the second check begins before, during or after the script of the
  first; the third version is written while the second is being noticed.
- *HttpChecker.* Two redirects are followed, so schemes change twice; the second
  of two addresses is the one that finds the first still open; with one thread
  the second check waits.

`Worker` and `Rounds` may stop: a worker exits, a host without DEBUG stalls
after an error.  Once its requests are dealt with, nothing is left to do in
`PeerConfirm` and `CheckController`.  These runs do not check for deadlock; the
others do.

### Fairness

`Worker`: a timer that is due runs, and the addon answers each check, because
each of its phases has a timeout (`EveryCheckCallsBack` of `HttpChecker`).
Nothing obliges the master.
`WorkerPool`: events are handled, timers and intervals fire, checks end, the
database answers, retries come due.  Crashes, retirement, statistics and
reloads are never obliged.  `Rounds`: workers ask when work runs out, the oldest
query is answered or fails, timers fire, a stalled loop ends up late.  Neither a
failure nor a throw is obliged to happen, so `SweepsGoOnUnlessFailed` does not
rest on one.
`SiteStatus`: what is queued is checked, retried or purged, requests end (the
socket time-out of `wpcom.js`), updates are executed, the notice period passes.
That the site is fetched again, and that an outage is confirmed, is not assumed:
the property names them as its conditions.  Nothing obliges the site to change
or an object to be lost.
`CheckController`: threads run, queued signals are handled, the ticker fires, and
some check at work ends, since each has a timer.  Nobody is obliged to ask.
`Database`: a free connection is given out or fails, and a query ends.
`PeerConfirm` has only safety properties.
`HttpChecker`: blocking calls return and time passes, for sockets have a send and
a receive timeout and the waits test the cut-off time.  A site may stay silent,
but one that never stops sending is assumed away: reading an answer is one step.

## 4. Proofs

Each `X_proofs` module holds the inductive invariant `IInv` of `X`, one lemma per
action that the action preserves it, and the theorems; TLC found every `IInv`
to hold on the instance of the run before it was proved.  All are for arbitrary
constants under the `ASSUME`s of the module, so they say of every size what the
runs of section 3 say of a small one.  Proofs are cut into leaves that the
provers find in about a second: records that a handler builds are given a name
and their fields stated before they are used, and their definitions hidden.

| Module | Properties proved |
|---|---|
| `Worker_proofs` | `TypeOK`, `ResultsReachTheirSite`, `ParallelismBound`, `NoJobAbandonedAtExit`, `NeverStuck`, `ImplementsContract` |
| `WorkerPool_proofs` | `TypeOK`, `JobInOnePlace`, `JobLostInKnownWays`, `FreeListIsExact` |
| `Rounds_proofs` | `TypeOK`, `SingleLoop`, `EachBucketOncePerSweep`, `QueriesStayInRange`, `RoundsArePaced` |
| `SiteStatus_proofs` | `TypeOK`, `RowFollowsFlows` |
| `PeerConfirm_proofs` | `TypeOK`, `CountsAreExact`, `ResidenceBound`, `NoEarlyPurge`, `PeersAreVerifliers` |
| `CheckController_proofs` | `TypeOK`, `NoDanglingCheck`, `WaitsOnlyWhenFull`, `ImplementsVeriflier` |
| `HttpChecker_proofs` | `TypeOK`, `ResourcesReleased`, `OwnSession`, `UpWasAnswered` |
| `Database_proofs` | `TypeOK`, `ChangeNoticed` |

`Worker`.  None of the invariants is inductive:
that an index stays valid depends on there being no check in flight whenever
`arrCheck` is replaced, that on what `running` means, and the bound on the number
in flight on the first window starting with none.  `PassInv` says so by phase:
nothing queued; queued and waiting for the timer; under way, when exactly the
started and unprocessed entries are in flight, one at least.  The refinement of
`WorkerContract` needs one thing more, that a job is in `arrCheck` once
(`NoJobTwiceStep`): reporting an entry then takes its job, and only that, off
what is owed (`ReportedJob`).  `StartNext` reports in silence because the entry
it starts is still owed; `AtEnd` is split by whether anything is left, which is
what `allChecksProcessed` computes.  `Contract!Hidden` is `CheckServers`.

`WorkerPool`.  The invariant has three parts besides the types.  The free list
(`FreeListIsSound`, `NoWorkWhileFree`): no worker is on it twice, none that is
halted is on it, and nothing is queued while it has one.  `Remembered`, why no worker is
forgotten: it owes a result, its start-up request is pending, or something is
under way between it and the free list.  `JobsOnce`, where jobs are: at the
master; out with a process, in a message to it, owed, or in a message from it;
or done; these are disjoint, and a channel carries a job once.

A handler runs from `Begin` to `Commit` through several functions of the master,
so each has a lemma on the record it works on: it keeps `Good(m)` (the
invariant in the middle of a handler), and `Kept(m, r)` holds from its argument
to its result (the jobs held are the same, messages go to the pool only, and
who leaves the free list is sent something).  `freeWorkersToWork`,
`processLocalRetries`, `Fork` and `Without` are folds.  A fold is a recursive
function on the subsets of a finite set; `FoldExists` and `FoldStays` give its
existence, and that what each of its steps preserves holds of its value, by a
subset of least size among those where it fails.  `JobInOnePlace`
counts places, of which the disjointness leaves one (`PlaceUnique`).
`JobLostInKnownWays` is `NoneLost`, proved of each action with the invariant:
a job that is anywhere has a place (`HasPlace`), and keeps one unless it was
unread (`Unread`), accepted by a worker that crashed or was shut down (`Killed`),
handed out to one that is gone (`SentGone`), or dropped from the retries
(`Duplicate`).

`Rounds`.  The strengthening ties the cursor to the range (`CursorInRange`: the
batch is the one `BatchEnd` gives, or the first one) and the timer to the end of the round
(`BetweenRounds`).  All callers of `getMoreSites` go through one lemma,
`FetchStep`, stated on the arguments they pass.

`SiteStatus`.  `RestsOnRow` says what the mark `clean` means: the object was
fetched with the status the row has, one past its first local check with that of
a site that is up, and what is posted or being written is a flow from the row.
Every action but `Store` only adds what satisfies this, and `Store` unmarks
everything (`StaleBag`), including what the same notification has posted.  The
end of the notice period changes the row but only widens the flows.  The bound
on local checks in `TypeOK` needs that whatever is not with the verifliers has
one left.

`PeerConfirm`.  Two layers: of the network, that of each request and peer at most
one message, check or reply exists (`OnePerPeer`); of an entry, that it ages and
is put off as often as replies were counted (`EntryInv`, whence `ResidenceBound`
for every entry), and, if it is alone on its site, that everything about its site
on the network is its own and of a peer it asked and has not heard (`AloneInv`).
The last is what makes matching replies by site harmless, and gives
`CountsAreExact` and `NoEarlyPurge`.

`CheckController`.  `thread_index` of an entry tells its phase (`PhaseInv`): it is
`PRE_ASSIGNED` exactly while a start signal for the entry is queued, and a runner
exactly while that runner checks it, so a signal never outlives its entry.  There
is one entry per site (`OneEntryPerSite`), hence `finishedChecking`,
which looks for the entry by the site, finds its own.  `m_checking` and the runners'
counters are the numbers of entries being checked (`CountInv`).  The refinement
of `Veriflier` maps the queue to the checks of a site under way and the results
and posts to the replies owed.

`HttpChecker`.  `CheckerInv` says by phase what a checker holds: the socket from
the connection to the end, a session only with a context and only for the
current socket, and what `is_ssl` hides from `disconnect` left by a redirect to
http.  The queue holds each waiting check once.

`Database`.  `ChangeNoticed` is inductive once it is known which writes of the
files no check can find: `FilesWritten` either is such a write, and is recorded
in `missed`, or leaves a check under way that will find the file newer
(`FindsChange`).  With it goes `UsableCluster`: an empty cluster, left by a load
that threw, is never used to ask for a connection, because the flag is still up.

Assumptions: those of the modules, all of them on the constants: sizes and
limits are positive, sets of callers or peers finite where the code counts them.

Only model-checked is the liveness (`EveryJobReported`, `WorkKeepsFlowing`,
`SweepsGoOnUnlessFailed`, `SiteSettles`, `EveryCheckAnswered`,
`EveryCheckCallsBack`, `QueriesAnswered`): it rests on fairness and `ENABLED`,
which the proof system does not reason about.  Every invariant and every action
property of a passing run, and each refinement, is a theorem.

## 5. Where code and documentation disagree

Shown by a run:

1. The README promises a sweep every five minutes; one failed query ends them
   (`rounds_stall`).
2. `PEER_OFFLINE_LIMIT` is documented as a number of verifliers; replies are
   matched by site only, so when a site is queued again and its second request
   goes out in a later tick, the two replies of one veriflier count for one entry
   and one veriflier may suffice (`peers_limit`).
3. `DB_CONFIG_UPDATES_MIN` is documented as the interval of checks for changes
   "in order to reload"; a reload fills a cluster no query uses (`db_reload`).

Met while modelling, without a run of their own:

4. A check of the configuration compares the file with its own start, so that one
   written between two checks is never found; it is among the exceptions of
   `ChangeNoticed`.
5. `BUCKET_NO_MAX` is documented as the last bucket to be processed; the first
   batch is not held against it, which `QueriesStayInRange` excepts.
6. `send_work` asks a worker to leave because there are more than needed; those
   already asked are still counted, so more may leave than are surplus.
7. `maybeEndRound` says that the round has ended when all workers are free; a
   worker is listed as free while its last checks are in flight.  Only
   statistics depend on it.
8. `BUCKET_NO_MAX` is documented as the last bucket to be processed; it is
   also skipped when it would be a batch of its own.  `EachBucketOncePerSweep`
   is therefore stated for the buckets below it.
9. The README says that a HEAD request is performed for each site; a check that
   waited in the addon's queue until its cut-off time is reported as unable to
   connect without one.
10. A comment of `execQuery` says that it selects a read-only server; `updateSite`
   sends its UPDATE there.
11. `TIMEOUT_FOR_REQUESTS_SEC` is documented as the time an entry can remain in
   `queuedRetries`; each reply starts it anew, hence the bound of
   `ResidenceBound`.

## 6. Not modelled, and plan

Not modelled: statistics (buffers nothing else reads), the parsing of the
configuration, of URLs, of HTTP and of TLS, logging, the shutdown (it
disconnects the workers and exits; no state of the models survives it),
`commitUpdates` and `getNowDateTime` (their list of statements is never filled),
durations other than as the order of events (the destructor of a TLS check
sleeps on the event loop of its worker, which delays everything else there), and
memory: that the array of a worker under constant top-up is only dropped at the
end of a pass is not stated.

No safety property is left to prove.  What is left is to state more and then
prove it: the growth of a worker's array under constant top-up, which needs a
bound on how long a pass can be extended; the lock order of the controller,
where `startCheck` is emitted with the lock held and must not finish
synchronously; the composition of `PeerConfirm` with `CheckController`, of which
the two refinements of `Veriflier` are no substitute; the composition of
`SiteStatus` with `PeerConfirm`, whose verdicts are an arbitrary choice there;
and how often an outage is confirmed, on which `SiteSettles` depends.
