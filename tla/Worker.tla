------------------------------- MODULE Worker -------------------------------
(***************************************************************************)
(* One jetmon-worker process: lib/httpcheck.js and the native calls it     *)
(* makes.  The process is single threaded: each action below is one event  *)
(* handler or timer callback, run to completion.  http_check() hands the   *)
(* check to a thread pool and returns; its callback arrives later, in any  *)
(* order, carrying the array index the check was started with.             *)
(*                                                                         *)
(* Abstracted: the result of a check, the verdict on it and the message    *)
(* about it, which depend on the server object only (SiteStatus.tla); the  *)
(* memory and check count limits to a Boolean read at each use; counters   *)
(* kept for statsd.  Array indices start at 1 instead of 0.                *)
(***************************************************************************)
EXTENDS WorkerProtocol, Functions

CONSTANTS NUM_TO_PROCESS,  \* config: checks a worker runs in parallel
          DATASET_SIZE     \* config: most jobs the master sends in a message

ASSUME NumToProcessAssumption == NUM_TO_PROCESS \in Nat \ {0}
ASSUME DatasetSizeAssumption  == DATASET_SIZE \in Nat \ {0}

VARIABLES
  arrCheck,          \* the jobs accepted since the worker was last idle
  processed,         \* indices of arrCheck whose `processed' flag is set
  pointer,           \* how many entries of arrCheck have been started
  running,           \* a pass over arrCheck is under way
  checkTimer,        \* checkServers is scheduled (setTimeout 50)
  inflight,          \* checks handed to the thread pool: <<index, job>>
  askedForWork,      \* a send_work is considered outstanding
  askTimer,          \* the first request for work is scheduled
  availableForWork,  \* FALSE once the worker has decided to retire
  suicideSignal,     \* the master asked it to evaporate
  exitCode,          \* Alive, or the code it exited with
  sent               \* the control messages the last step sent

queueVars == <<arrCheck, processed, pointer, running, checkTimer, inflight>>
stateVars == <<askedForWork, askTimer, availableForWork, suicideSignal, exitCode>>
vars      == <<queueVars, stateVars, sent>>

Unprocessed == DOMAIN arrCheck \ processed
owed        == {arrCheck[i] : i \in Unprocessed}

Init ==
  /\ arrCheck = <<>> /\ processed = {} /\ pointer = 0
  /\ running = FALSE /\ checkTimer = FALSE /\ inflight = {}
  /\ askedForWork = FALSE /\ askTimer = TRUE
  /\ availableForWork = TRUE /\ suicideSignal = FALSE
  /\ exitCode = Alive
  /\ sent = <<>>

-----------------------------------------------------------------------------
(***************************************************************************)
(* Messages from the master.  A batch holds server objects that are new to *)
(* the worker: the message is deserialised into fresh, unprocessed ones.   *)
(***************************************************************************)
Batches == UNION {Injection(1 .. n, Job \ Range(arrCheck)) : n \in 1 .. DATASET_SIZE}

\* Mutant of addToQueue: a batch for a running pass schedules checkServers again.
addToQueueReschedules(batch) ==
  /\ running' = TRUE /\ checkTimer' = TRUE
  /\ IF running THEN arrCheck' = arrCheck \o batch /\ UNCHANGED <<processed, pointer>>
                ELSE arrCheck' = batch /\ processed' = {} /\ pointer' = 0
  /\ UNCHANGED inflight

\* Mutant of addToQueue: the array is replaced whether a pass runs or not.
addToQueueReplaces(batch) ==
  /\ arrCheck' = batch /\ processed' = {} /\ pointer' = 0
  /\ running' = TRUE /\ checkTimer' = TRUE
  /\ UNCHANGED inflight

addToQueue(batch) ==
  IF running
    THEN /\ arrCheck' = arrCheck \o batch
         /\ UNCHANGED <<processed, pointer, running, checkTimer, inflight>>
    ELSE /\ arrCheck' = batch /\ processed' = {} /\ pointer' = 0
         /\ running' = TRUE /\ checkTimer' = TRUE
         /\ UNCHANGED inflight

\* Mutant of QueueAdd: the flag of the request it answers is not reset.
QueueAddKeepsAsked(batch) ==
  /\ exitCode = Alive
  /\ addToQueue(batch)
  /\ sent' = <<>>
  /\ UNCHANGED <<askedForWork, askTimer, availableForWork, suicideSignal, exitCode>>

QueueAdd(batch) ==
  /\ exitCode = Alive
  /\ addToQueue(batch)
  /\ askedForWork' = FALSE
  /\ sent' = <<>>
  /\ UNCHANGED <<askTimer, availableForWork, suicideSignal, exitCode>>

Evaporate ==
  /\ exitCode = Alive
  /\ IF running THEN suicideSignal' = TRUE /\ UNCHANGED exitCode
                ELSE exitCode' = SUICIDE_SIGNAL /\ UNCHANGED suicideSignal
  /\ sent' = <<>>
  /\ UNCHANGED <<queueVars, askedForWork, askTimer, availableForWork>>

-----------------------------------------------------------------------------
(***************************************************************************)
(* Timers.                                                                 *)
(***************************************************************************)
Started(first, last) == {<<i, arrCheck[i]>> : i \in first .. last}

LastOfWindow == IF pointer + NUM_TO_PROCESS > Len(arrCheck)
                  THEN Len(arrCheck) ELSE pointer + NUM_TO_PROCESS

CheckServers ==
  /\ exitCode = Alive /\ checkTimer
  /\ checkTimer' = FALSE
  /\ pointer' = LastOfWindow
  /\ inflight' = inflight \cup Started(pointer + 1, LastOfWindow)
  /\ sent' = <<>>
  /\ UNCHANGED <<arrCheck, processed, running, stateVars>>

AskTimer ==
  /\ exitCode = Alive /\ askTimer
  /\ askTimer' = FALSE /\ askedForWork' = TRUE
  /\ sent' = <<SendWork>>
  /\ UNCHANGED <<queueVars, availableForWork, suicideSignal, exitCode>>

\* An idle worker keeps the pointer of its last pass, hence the maximum.
QueueLeft == IF Len(arrCheck) > pointer THEN Len(arrCheck) - pointer ELSE 0

SendStats ==
  /\ exitCode = Alive
  /\ sent' = <<Stats(QueueLeft)>>
  /\ UNCHANGED <<queueVars, stateVars>>

-----------------------------------------------------------------------------
(***************************************************************************)
(* The callback of a check: processResultsCallback.                        *)
(***************************************************************************)
\* Mutant of StartNext: the pointer moves on but the check is not started.
StartNextSkips(check) ==
  /\ pointer < Len(arrCheck)
  /\ pointer' = pointer + 1
  /\ processed' = processed \cup {check[1]}
  /\ inflight' = inflight \ {check}
  /\ sent' = <<>>
  /\ UNCHANGED <<arrCheck, running, checkTimer, stateVars>>

\* The slot of a finished check goes to the next entry not yet started.
StartNext(check) ==
  /\ pointer < Len(arrCheck)
  /\ pointer' = pointer + 1
  /\ processed' = processed \cup {check[1]}
  /\ inflight' = (inflight \ {check}) \cup Started(pointer + 1, pointer + 1)
  /\ sent' = <<>>
  /\ UNCHANGED <<arrCheck, running, checkTimer, stateVars>>

stopsWork(overLimit) == availableForWork /\ (suicideSignal \/ overLimit)

\* Mutants of AllProcessed: all but one; every check started.
AllButOneProcessed(done) == Cardinality(DOMAIN arrCheck \ done) <= 1
AllStarted(done)         == pointer >= Len(arrCheck)

AllProcessed(done) == DOMAIN arrCheck \ done = {}

\* Mutant of asksForWork: only while checks of the pass are outstanding.
asksWhileBusy(done) == availableForWork' /\ ~askedForWork /\ ~AllProcessed(done)

asksForWork(done) == availableForWork' /\ ~askedForWork

RetireWithCode ==
  IF suicideSignal THEN exitCode' = SUICIDE_SIGNAL
                   ELSE exitCode' \in {EXIT_MAXRAMUSAGE, EXIT_MAXCHECKS}

\* process.exit() leaves the queue as it is; otherwise a finished pass drops it.
FinishPass(done) ==
  IF AllProcessed(done) /\ availableForWork'
    THEN arrCheck' = <<>> /\ processed' = {} /\ running' = FALSE
    ELSE processed' = done /\ UNCHANGED <<arrCheck, running>>

\* Every entry has been started: retire, finish the pass, ask for more.
AtEnd(check, overLimit) ==
  LET done == processed \cup {check[1]}
  IN  /\ pointer >= Len(arrCheck)
      /\ inflight' = inflight \ {check}
      /\ availableForWork' = (availableForWork /\ ~stopsWork(overLimit))
      /\ IF AllProcessed(done) /\ ~availableForWork' THEN RetireWithCode
                                                     ELSE UNCHANGED exitCode
      /\ FinishPass(done)
      /\ askedForWork' = (askedForWork \/ asksForWork(done))
      /\ sent' = IF stopsWork(overLimit) THEN <<StopWork>>
                 ELSE IF asksForWork(done) THEN <<SendWork>> ELSE <<>>
      /\ UNCHANGED <<pointer, checkTimer, askTimer, suicideSignal>>

Callback(check) ==
  /\ exitCode = Alive
  /\ \/ StartNext(check)
     \/ \E overLimit \in BOOLEAN : AtEnd(check, overLimit)

-----------------------------------------------------------------------------
Next ==
  \/ \E batch \in Batches : QueueAdd(batch)
  \/ Evaporate
  \/ CheckServers
  \/ AskTimer
  \/ SendStats
  \/ \E check \in inflight : Callback(check)

Spec == Init /\ [][Next]_vars

(***************************************************************************)
(* The event loop runs a timer that is due, and the native checker answers *)
(* every check it was handed: each of its phases has a timeout.            *)
(***************************************************************************)
Fairness ==
  /\ WF_vars(CheckServers)
  /\ \A i \in 1 .. Cardinality(Job), j \in Job :
       WF_vars(<<i, j>> \in inflight /\ Callback(<<i, j>>))

FairSpec == Spec /\ Fairness

-----------------------------------------------------------------------------
TypeOK ==
  /\ arrCheck \in Seq(Job)
  /\ processed \subseteq DOMAIN arrCheck
  /\ pointer \in Nat
  /\ running \in BOOLEAN /\ checkTimer \in BOOLEAN
  /\ inflight \subseteq Nat \X Job
  /\ askedForWork \in BOOLEAN /\ askTimer \in BOOLEAN
  /\ availableForWork \in BOOLEAN /\ suicideSignal \in BOOLEAN
  /\ exitCode \in ExitCode
  /\ sent \in Seq(ControlMsg)

(***************************************************************************)
(* A check is identified by an index only, while the array it indexes is   *)
(* appended to, dropped and replaced: the entry a pending callback will    *)
(* mark and report is the one its check was started for.                   *)
(***************************************************************************)
ResultsReachTheirSite ==
  \A check \in inflight :
    /\ check[1] \in Unprocessed
    /\ arrCheck[check[1]] = check[2]

(***************************************************************************)
(* No more than NUM_TO_PROCESS checks run at a time, whatever is appended  *)
(* to the queue of a running worker, and whenever passes start.            *)
(***************************************************************************)
ParallelismBound == Cardinality(inflight) <= NUM_TO_PROCESS

(***************************************************************************)
(* A worker never exits, for whatever reason, with a job in its queue: the *)
(* master keeps no record of the jobs it hands out.                        *)
(***************************************************************************)
NoJobAbandonedAtExit == exitCode # Alive => owed = {}

(***************************************************************************)
(* The master sends work only on request: an idle worker that may work has *)
(* asked, or will when its start-up timer fires.                           *)
(***************************************************************************)
IdleWorkerHasAsked ==
  exitCode = Alive /\ ~running => availableForWork /\ (askedForWork \/ askTimer)

(***************************************************************************)
(* A running pass always has a check in flight, or its first window still  *)
(* to start: only callbacks move it forward, so it would otherwise hang.   *)
(***************************************************************************)
BusyWorkerProgresses ==
  exitCode = Alive /\ running => checkTimer \/ inflight # {}

(***************************************************************************)
(* A worker is never stuck for want of work it has not asked for, nor in a *)
(* pass that nothing moves forward.                                        *)
(***************************************************************************)
NeverStuck == IdleWorkerHasAsked /\ BusyWorkerProgresses

(***************************************************************************)
(* The phases of a pass: nothing queued; queued and waiting for the        *)
(* checkServers timer; under way, when exactly the entries started and not *)
(* yet processed are in flight and, unless the worker has exited, there is *)
(* one.  With the other clauses this is inductive.                         *)
(***************************************************************************)
NoPass    == arrCheck = <<>> /\ processed = {} /\ inflight = {} /\ ~checkTimer
FreshPass == arrCheck # <<>> /\ processed = {} /\ inflight = {} /\ pointer = 0
OpenPass  == /\ pointer \in 0 .. Len(arrCheck)
             /\ processed \subseteq 1 .. pointer
             /\ inflight = {<<i, arrCheck[i]>> : i \in (1 .. pointer) \ processed}
             /\ exitCode = Alive => inflight # {}

PassInv ==
  /\ ~running               => NoPass
  /\ running /\ checkTimer  => FreshPass
  /\ running /\ ~checkTimer => OpenPass
  /\ IdleWorkerHasAsked
  /\ NoJobAbandonedAtExit
  /\ IsFiniteSet(inflight) /\ ParallelismBound

(***************************************************************************)
(* The worker implements its contract.                                     *)
(***************************************************************************)
Contract == INSTANCE WorkerContract WITH
  worker <- [owed |-> owed, asked |-> askedForWork, askTimer |-> askTimer,
             available |-> availableForWork, suicide |-> suicideSignal,
             exit |-> exitCode]

ImplementsContract == Contract!Spec

(***************************************************************************)
(* Every job the worker accepts is reported, even when it retires.         *)
(***************************************************************************)
EveryJobReported == \A j \in Job : j \in owed ~> j \notin owed
=============================================================================
