----------------------------- MODULE WorkerPool -----------------------------
(***************************************************************************)
(* The master's side of the worker pool (lib/jetmon.js) together with the  *)
(* workers, each of which follows WorkerContract.  The master and every    *)
(* worker are processes of their own: messages travel on a FIFO channel    *)
(* per direction and worker, a worker may exit or crash while messages to  *)
(* it are under way, and the exit event of a worker may be handled before  *)
(* the last messages it sent.                                              *)
(*                                                                         *)
(* The master's variables are one record, so that a handler is an operator *)
(* from the record to the record and handlers can call one another as they *)
(* do in the code.  Jobs are numbered in the order they are fetched.       *)
(*                                                                         *)
(* Abstracted: what the database returns (Rounds.tla has the cursor, the   *)
(* errors and what DEBUG adds), what becomes of a reported job, the        *)
(* statistics.                                                             *)
(***************************************************************************)
EXTENDS WorkerProtocol, SequencesExt

CONSTANTS Pid,             \* process ids the system may use and reuse
          site,            \* site[j]: blog_id and monitor_url of job j
          DATASET_SIZE,    \* config: most jobs in one queue-add
          NUM_TO_PROCESS,  \* config: a worker with fewer jobs to start is topped up
          NumWorkers,      \* config: values NUM_WORKERS takes over reloads
          MaxRows,         \* bound: rows a query returns
          MaxIncidents     \* bound: crashes of workers and reloads of NUM_WORKERS

ASSUME PoolAssumption ==
  /\ IsFiniteSet(Pid) /\ IsFiniteSet(Job) /\ Job = 1 .. Cardinality(Job)
  /\ DATASET_SIZE \in Nat \ {0} /\ NUM_TO_PROCESS \in Nat
  /\ NumWorkers \subseteq 1 .. Cardinality(Pid)
  /\ MaxRows \in Nat /\ MaxIncidents \in Nat

VARIABLES
  master,      \* the lists of the master process
  numWorkers,  \* config: NUM_WORKERS
  fetched,     \* the database has returned jobs 1 .. fetched
  workers,     \* workers[p]: the last process that had pid p
  toWorker,    \* toWorker[p]: messages sent to p and not yet read
  toMaster,    \* toMaster[p]: messages p sent and the master has not read
  rechecked,   \* jobs that used up their local check
  done,        \* jobs whose verdict left the pool
  incidents    \* crashes and reloads so far

vars == <<master, numWorkers, fetched, workers, toWorker, toMaster, rechecked,
          done, incidents>>

queueAdd(jobs) == [request |-> "queue-add", payload |-> jobs]
evaporatePls   == [request |-> "evaporate"]
recheck(j)     == [msgtype |-> "recheck", server |-> j]

Crashed  == 4    \* stands for the exit codes without a meaning of their own
ShutDown == 130  \* a worker shut down from outside
NoWorker == [FreshWorker EXCEPT !.exit = Crashed, !.askTimer = FALSE]

IsAlive(p) == workers[p].exit = Alive

Init ==
  /\ master = [arrWorkers |-> {}, freeWorkers |-> <<>>, haltedWorkers |-> {},
               arrObjects |-> <<>>, localRetries |-> {},
               gettingSites |-> FALSE, inRound |-> FALSE]
  /\ numWorkers \in NumWorkers
  /\ fetched = 0 /\ rechecked = {} /\ done = {}
  /\ workers = [p \in Pid |-> NoWorker]
  /\ toWorker = [p \in Pid |-> <<>>]
  /\ toMaster = [p \in Pid |-> <<>>]
  /\ incidents = 0

-----------------------------------------------------------------------------
(***************************************************************************)
(* The master's functions.  While a handler runs, the record also holds    *)
(* the messages it sends to each process.                                  *)
(***************************************************************************)
Begin ==
  [arrWorkers |-> master.arrWorkers, freeWorkers |-> master.freeWorkers,
   haltedWorkers |-> master.haltedWorkers, arrObjects |-> master.arrObjects,
   localRetries |-> master.localRetries, gettingSites |-> master.gettingSites,
   inRound |-> master.inRound, sends |-> [p \in Pid |-> <<>>]]

Send(m, p, msg) == [m EXCEPT !.sends[p] = Append(@, msg)]

Without(seq, p) ==
  FoldLeft(LAMBDA rest, q : IF q = p THEN rest ELSE Append(rest, q), <<>>, seq)

deleteWorker(m, p) == [m EXCEPT !.arrWorkers    = @ \ {p},
                                !.freeWorkers   = Without(@, p),
                                !.haltedWorkers = @ \ {p}]

spawnWorker(m, p) == [deleteWorker(m, p) EXCEPT !.arrWorkers = @ \cup {p}]

maybeEndRound(m) ==
  IF /\ m.inRound
     /\ m.arrObjects = <<>>
     /\ Cardinality(m.arrWorkers) = Len(m.freeWorkers)
    THEN [m EXCEPT !.inRound = FALSE]
    ELSE m

\* From here on a query, or the timer that starts the next round, is pending.
getMoreSites(m) == [m EXCEPT !.gettingSites = TRUE, !.inRound = TRUE]

fetchUnlessGetting(m) == IF m.gettingSites THEN m ELSE getMoreSites(m)

get_work_dataset(m, size) ==
  LET most == IF size \in 1 .. DATASET_SIZE THEN size ELSE DATASET_SIZE
  IN  IF Len(m.arrObjects) < most THEN Len(m.arrObjects) ELSE most

\* Mutants of assign_work_to_worker: the jobs sent stay queued; one too many
\* is removed from the queue.
assignCopies(m, p, size) ==
  LET n == get_work_dataset(m, size)
  IN  IF p \in m.arrWorkers \ m.haltedWorkers /\ n > 0
        THEN Send(m, p, queueAdd(ToSet(SubSeq(m.arrObjects, 1, n))))
        ELSE m
assignDropsOne(m, p, size) ==
  LET n == get_work_dataset(m, size)
  IN  IF p \in m.arrWorkers \ m.haltedWorkers /\ n > 0
        THEN [Send(m, p, queueAdd(ToSet(SubSeq(m.arrObjects, 1, n))))
                EXCEPT !.arrObjects = SubSeq(@, n + 2, Len(@))]
        ELSE m

assign_work_to_worker(m, p, size) ==
  LET n == get_work_dataset(m, size)
  IN  IF p \in m.arrWorkers \ m.haltedWorkers /\ n > 0
        THEN [Send(m, p, queueAdd(ToSet(SubSeq(m.arrObjects, 1, n))))
                EXCEPT !.arrObjects = SubSeq(@, n + 1, Len(@))]
        ELSE m

flagAsFree(m, p) ==
  IF p \in m.haltedWorkers \cup ToSet(m.freeWorkers)
    THEN m ELSE [m EXCEPT !.freeWorkers = Append(@, p)]

sendWork(m, p) ==
  IF Cardinality(m.arrWorkers) > numWorkers
    THEN IF p \in m.arrWorkers THEN Send(m, p, evaporatePls) ELSE m
  ELSE IF m.arrObjects = <<>>
    THEN maybeEndRound(fetchUnlessGetting(flagAsFree(m, p)))
  ELSE assign_work_to_worker(m, p, DATASET_SIZE)

stopWork(m, p) ==
  maybeEndRound(
    IF p \in m.arrWorkers \ m.haltedWorkers
      THEN [m EXCEPT !.haltedWorkers = @ \cup {p},
                     !.freeWorkers   = Without(@, p)]
      ELSE m)

stats(m, p, left) ==
  IF left < NUM_TO_PROCESS THEN assign_work_to_worker(m, p, DATASET_SIZE - left)
                           ELSE m

\* A job of a site that is among the retries already is dropped.
add_server_to_local_retries(m, j) ==
  IF \E k \in m.localRetries : site[k] = site[j]
    THEN m ELSE [m EXCEPT !.localRetries = @ \cup {j}]

workerMsgCallback(m, p, msg) ==
  CASE msg.msgtype = "send_work" -> sendWork(m, p)
    [] msg.msgtype = "stop_work" -> stopWork(m, p)
    [] msg.msgtype = "stats"     -> stats(m, p, msg.left)
    [] msg.msgtype = "recheck"   -> add_server_to_local_retries(m, msg.server)

\* Mutant of freeWorkersToWork: a worker that gets no work is not put back.
freeWorkersToWorkForgets(m) ==
  IF m.arrObjects = <<>> THEN m
  ELSE FoldLeft(LAMBDA acc, p : IF p \in acc.arrWorkers /\ acc.arrObjects # <<>>
                                  THEN sendWork(acc, p) ELSE acc,
                [m EXCEPT !.freeWorkers = <<>>],
                m.freeWorkers)

\* Every worker of the old free list asks again, on its behalf.
freeWorkersToWork(m) ==
  IF m.arrObjects = <<>> THEN m
  ELSE FoldLeft(LAMBDA acc, p : IF p \in acc.arrWorkers THEN sendWork(acc, p) ELSE acc,
                [m EXCEPT !.freeWorkers = <<>>],
                m.freeWorkers)

\* A local retry goes to the first free worker that exists, or to the queue.
retryLocally(m, j) ==
  LET usable == {i \in DOMAIN m.freeWorkers : m.freeWorkers[i] \in m.arrWorkers}
      taken  == [m EXCEPT !.localRetries = @ \ {j}]
      i      == Min(usable)
  IN  IF usable # {}
        THEN [Send(taken, m.freeWorkers[i], queueAdd({j}))
                EXCEPT !.freeWorkers = RemoveAt(@, i)]
        ELSE [taken EXCEPT !.arrObjects = Append(@, j)]

processLocalRetries(m, due) ==
  LET dispatched == FoldSet(LAMBDA j, acc : retryLocally(acc, j), m, due)
      addedWork  == Len(dispatched.arrObjects) > Len(m.arrObjects)
  IN  IF addedWork THEN freeWorkersToWork(dispatched) ELSE dispatched

-----------------------------------------------------------------------------
(***************************************************************************)
(* Steps of the master.                                                    *)
(***************************************************************************)
\* What is sent to a process that has exited is lost.
Delivered(m, p) == IF IsAlive(p) THEN toWorker[p] \o m.sends[p] ELSE <<>>

Commit(m) ==
  /\ master' = [arrWorkers |-> m.arrWorkers, freeWorkers |-> m.freeWorkers,
                haltedWorkers |-> m.haltedWorkers, arrObjects |-> m.arrObjects,
                localRetries |-> m.localRetries, gettingSites |-> m.gettingSites,
                inRound |-> m.inRound]
  /\ toWorker' = [p \in Pid |-> Delivered(m, p)]

HandleMessage(p) ==
  /\ toMaster[p] # <<>>
  /\ toMaster' = [toMaster EXCEPT ![p] = Tail(@)]
  /\ UNCHANGED <<numWorkers, fetched, workers, rechecked, done, incidents>>
  /\ Commit(workerMsgCallback(Begin, p, Head(toMaster[p])))

\* Pids of processes that are gone and whose messages have all been read.
Reusable(m) == {p \in Pid \ m.arrWorkers : ~IsAlive(p) /\ toMaster[p] = <<>>}

Fork(m, new) ==
  /\ UNCHANGED <<numWorkers, fetched, toMaster, rechecked, done, incidents>>
  /\ workers' = [p \in Pid |-> IF p \in new THEN FreshWorker ELSE workers[p]]
  /\ Commit(FoldSet(LAMBDA p, acc : spawnWorker(acc, p), m, new))

HandleExit(p) ==
  LET m == deleteWorker(Begin, p)
  IN  /\ p \in master.arrWorkers /\ ~IsAlive(p)
      /\ IF workers[p].exit \in {SUICIDE_SIGNAL, ShutDown}
           THEN Fork(m, {})
           ELSE \E q \in Reusable(m) : Fork(m, {q})

ensure_worker_count ==
  \E new \in SUBSET Reusable(master) :
    /\ new # {}
    /\ Cardinality(new) + Cardinality(master.arrWorkers) = numWorkers
    /\ Fork(Begin, new)

\* Mutant of nextRows: the last row of the previous query is returned again.
nextRowsOverlap(n) == [i \in 1 .. n |-> fetched + i - 1]

nextRows(n) == [i \in 1 .. n |-> fetched + i]

\* The next n jobs.
RowsArrive(n) ==
  LET rows == nextRows(n)
  IN  /\ master.gettingSites
      /\ fetched + n \in Job
      /\ fetched' = fetched + n
      /\ UNCHANGED <<numWorkers, workers, toMaster, rechecked, done, incidents>>
      /\ Commit(freeWorkersToWork([Begin EXCEPT !.arrObjects   = @ \o rows,
                                                !.gettingSites = FALSE]))

\* An empty result, or the timer of the next round, makes the master go on.
GoOnGettingSites ==
  /\ master.gettingSites
  /\ Commit(getMoreSites(Begin))
  /\ UNCHANGED <<numWorkers, fetched, workers, toMaster, rechecked, done, incidents>>

processQueuedRetries(due) ==
  /\ due # {}
  /\ UNCHANGED <<numWorkers, fetched, workers, toMaster, rechecked, done, incidents>>
  /\ Commit(processLocalRetries(Begin, due))

ReloadConfig ==
  /\ incidents < MaxIncidents /\ incidents' = incidents + 1
  /\ numWorkers' \in NumWorkers \ {numWorkers}
  /\ Commit(Begin)
  /\ UNCHANGED <<fetched, workers, toMaster, rechecked, done>>

-----------------------------------------------------------------------------
(***************************************************************************)
(* Steps of worker p.                                                      *)
(***************************************************************************)
\* Messages a process has not read when it exits are lost with it.
Become(p, w, msgs, unread) ==
  /\ workers' = [workers EXCEPT ![p] = w]
  /\ toMaster' = [toMaster EXCEPT ![p] = @ \o msgs]
  /\ toWorker' = [toWorker EXCEPT ![p] = IF w.exit = Alive THEN unread ELSE <<>>]
  /\ UNCHANGED <<master, numWorkers, fetched>>

WorkerReads(p) ==
  /\ IsAlive(p) /\ toWorker[p] # <<>>
  /\ LET msg == Head(toWorker[p])
     IN  Become(p, IF msg.request = "queue-add"
                     THEN AfterQueueAdd(workers[p], msg.payload)
                     ELSE AfterEvaporate(workers[p]),
                <<>>, Tail(toWorker[p]))
  /\ UNCHANGED <<rechecked, done, incidents>>

WorkerAsks(p) ==
  /\ IsAlive(p) /\ workers[p].askTimer
  /\ LET step == AfterAskTimer(workers[p])
     IN  Become(p, step.worker, step.msgs, toWorker[p])
  /\ UNCHANGED <<rechecked, done, incidents>>

\* Bound: a worker sends its statistics when the master has read all else.
WorkerSendsStats(p) ==
  /\ IsAlive(p) /\ toMaster[p] = <<>>
  /\ \E step \in StatsSteps(workers[p]) :
       Become(p, step.worker, step.msgs, toWorker[p])
  /\ UNCHANGED <<rechecked, done, incidents>>

\* The verdict leaves the pool, or asks for another local check (once).
WorkerReports(p, j) ==
  /\ IsAlive(p)
  /\ \E step \in ReportSteps(workers[p], j) :
       \/ /\ Become(p, step.worker, step.msgs, toWorker[p])
          /\ done' = done \cup {j} /\ UNCHANGED rechecked
       \/ /\ j \notin rechecked
          /\ Become(p, step.worker, <<recheck(j)>> \o step.msgs, toWorker[p])
          /\ rechecked' = rechecked \cup {j} /\ UNCHANGED done
  /\ UNCHANGED incidents

\* The process dies, or is shut down by somebody else.
Crash(p) ==
  /\ IsAlive(p) /\ incidents < MaxIncidents
  /\ incidents' = incidents + 1
  /\ \E code \in {Crashed, ShutDown} :
       Become(p, [workers[p] EXCEPT !.exit = code, !.owed = {}], <<>>, <<>>)
  /\ UNCHANGED <<rechecked, done>>

-----------------------------------------------------------------------------
WorkerStep(p) ==
  \/ WorkerReads(p)
  \/ WorkerAsks(p)
  \/ WorkerSendsStats(p)
  \/ \E j \in workers[p].owed : WorkerReports(p, j)
  \/ Crash(p)

Next ==
  \/ \E p \in Pid : HandleMessage(p) \/ HandleExit(p) \/ WorkerStep(p)
  \/ ensure_worker_count
  \/ \E n \in 1 .. MaxRows : RowsArrive(n)
  \/ GoOnGettingSites
  \/ \E due \in SUBSET master.localRetries : processQueuedRetries(due)
  \/ ReloadConfig

Spec == Init /\ [][Next]_vars

(***************************************************************************)
(* Events that have occurred are handled, timers and intervals fire, every *)
(* check ends, the database answers and local retries come due.  Nothing   *)
(* makes a worker crash, retire or send statistics, nor NUM_WORKERS change.*)
(***************************************************************************)
Fairness ==
  /\ \A p \in Pid : /\ WF_vars(HandleMessage(p))
                    /\ WF_vars(HandleExit(p))
                    /\ WF_vars(WorkerReads(p))
                    /\ WF_vars(WorkerAsks(p))
                    /\ WF_vars(\E j \in workers[p].owed : WorkerReports(p, j))
  /\ WF_vars(ensure_worker_count)
  /\ WF_vars(\E n \in 1 .. MaxRows : RowsArrive(n))
  /\ WF_vars(processQueuedRetries(master.localRetries))

FairSpec == Spec /\ Fairness

-----------------------------------------------------------------------------
(***************************************************************************)
(* Where a job can be.                                                     *)
(***************************************************************************)
Queued(j)        == {i \in DOMAIN master.arrObjects : master.arrObjects[i] = j}
InTransit(p, j)  == {i \in DOMAIN toWorker[p] : /\ toWorker[p][i].request = "queue-add"
                                                /\ j \in toWorker[p][i].payload}
Rechecking(p, j) == {i \in DOMAIN toMaster[p] : toMaster[p][i] = recheck(j)}

PlacesInside(j) ==
  [kind : {"arrObjects"}, at : Queued(j)]
  \cup [kind : {"localRetries"}, at : master.localRetries \cap {j}]
  \cup [kind : {"done"}, at : done \cap {j}]

PlacesOut(p, j) ==
  [kind : {"transit"}, pid : {p}, at : InTransit(p, j)]
  \cup [kind : {"worker"}, pid : {p}, at : workers[p].owed \cap {j}]
  \cup [kind : {"recheck"}, pid : {p}, at : Rechecking(p, j)]

Places(j) == PlacesInside(j) \cup UNION {PlacesOut(p, j) : p \in Pid}

TypeOK ==
  /\ master.arrWorkers \subseteq Pid /\ master.haltedWorkers \subseteq Pid
  /\ master.freeWorkers \in Seq(Pid) /\ master.arrObjects \in Seq(Job)
  /\ master.localRetries \subseteq Job
  /\ {master.gettingSites, master.inRound} \subseteq BOOLEAN
  /\ numWorkers \in NumWorkers /\ fetched \in Nat
  /\ \A p \in Pid : /\ workers[p].owed \subseteq Job
                    /\ workers[p].exit \in ExitCode \cup {Crashed, ShutDown}
  /\ rechecked \subseteq Job /\ done \subseteq Job

(***************************************************************************)
(* A job is checked by one worker at a time: it is never queued twice, nor *)
(* handed out while a worker, a message or the retry list still holds it.  *)
(***************************************************************************)
JobInOnePlace == \A j \in Job : Cardinality(Places(j)) <= 1

(***************************************************************************)
(* Work is lost in four ways only: a worker exits, for whatever reason,    *)
(* with the job in a message it has not read; a worker crashes or is shut  *)
(* down with the job it accepted; the master hands the job to a worker     *)
(* that is gone without it knowing; a worker asks to check the job again   *)
(* while a job of the same site waits for that already.  A worker that     *)
(* retires or is told to go keeps what it accepted, and no other handler   *)
(* drops a job.                                                            *)
(***************************************************************************)
LostTo(p, j) ==
  \/ IsAlive(p) /\ ~IsAlive(p)' /\ InTransit(p, j) # {}
  \/ IsAlive(p) /\ workers'[p].exit \in {Crashed, ShutDown} /\ j \in workers[p].owed
  \/ /\ p \in master.arrWorkers /\ ~IsAlive(p)
     /\ j \in ToSet(master.arrObjects) \cup master.localRetries
  \/ /\ Rechecking(p, j) # {}
     /\ \E k \in master.localRetries : site[k] = site[j]

JobLostInKnownWays ==
  [][\A j \in Job : Places(j) # {} /\ Places(j)' = {} => \E p \in Pid : LostTo(p, j)]_vars

(***************************************************************************)
(* The master sends work on request only and finds the workers waiting for *)
(* it in a list that four handlers rewrite.  The list holds a worker once, *)
(* and none that is to be recycled: work would go to a process about to    *)
(* exit.  It holds every worker that is idle and has nothing under way: it *)
(* would idle for ever.  And it is empty while work is queued.             *)
(***************************************************************************)
FreeListIsSound ==
  /\ IsInjective(master.freeWorkers)
  /\ ToSet(master.freeWorkers) \cap master.haltedWorkers = {}
  /\ master.haltedWorkers \subseteq master.arrWorkers

Idle(p) == /\ IsAlive(p) /\ workers[p].owed = {} /\ ~workers[p].askTimer
           /\ toWorker[p] = <<>> /\ SendWork \notin ToSet(toMaster[p])

NoWorkerForgotten ==
  \A p \in master.arrWorkers : Idle(p) => p \in ToSet(master.freeWorkers)

NoWorkWhileFree == master.arrObjects # <<>> => master.freeWorkers = <<>>

FreeListIsExact == FreeListIsSound /\ NoWorkerForgotten /\ NoWorkWhileFree

(***************************************************************************)
(* The master always comes back to the database for more sites, whatever   *)
(* workers it loses; queued work and local retries are all handed to       *)
(* workers in the end; and a worker that is to be recycled leaves.         *)
(***************************************************************************)
FetchingContinues == ~master.gettingSites ~> master.gettingSites

WorkIsHandedOut ==
  master.arrObjects # <<>> \/ master.localRetries # {}
    ~> master.arrObjects = <<>> /\ master.localRetries = {}

HaltedWorkersLeave == master.haltedWorkers # {} ~> master.haltedWorkers = {}

WorkKeepsFlowing == FetchingContinues /\ WorkIsHandedOut /\ HaltedWorkersLeave
=============================================================================
