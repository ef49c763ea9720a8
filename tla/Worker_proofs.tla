--------------------------- MODULE Worker_proofs ---------------------------
(***************************************************************************)
(* Proofs about Worker.tla, for every set of jobs, NUM_TO_PROCESS and      *)
(* DATASET_SIZE.                                                           *)
(***************************************************************************)
EXTENDS Worker, FiniteSetTheorems, SequenceTheorems, TLAPS

IInv == TypeOK /\ PassInv

(***************************************************************************)
(* A batch is a non-empty sequence of jobs: addToQueue never starts a pass *)
(* with nothing to check.                                                  *)
(***************************************************************************)
LEMMA BatchIsSeq ==
  ASSUME NEW batch \in Batches
  PROVE  batch \in Seq(Job) /\ Len(batch) \in Nat \ {0}
<1>1. PICK n \in 1 .. DATASET_SIZE : batch \in Injection(1 .. n, Job \ Range(arrCheck))
  BY DEF Batches
<1>2. batch \in [1 .. n -> Job] /\ n \in Nat \ {0}
  BY <1>1, DatasetSizeAssumption DEF Injection
<1> QED  BY <1>2

(***************************************************************************)
(* The initial state satisfies the invariant.                              *)
(***************************************************************************)
LEMMA InitInv == Init => IInv
<1> SUFFICES ASSUME Init PROVE IInv
  OBVIOUS
<1>1. TypeOK
  <2>1. arrCheck \in Seq(Job) /\ sent \in Seq(ControlMsg)
    BY DEF Init
  <2>2. exitCode \in ExitCode
    BY DEF Init, ExitCode
  <2> QED  BY <2>1, <2>2 DEF Init, TypeOK
<1>2. PassInv
  BY FS_EmptySet, NumToProcessAssumption
     DEF Init, PassInv, NoPass, IdleWorkerHasAsked, NoJobAbandonedAtExit,
         ParallelismBound, Alive
<1> QED  BY <1>1, <1>2 DEF IInv

(***************************************************************************)
(* A pending callback names an entry of the queue that is not processed.   *)
(***************************************************************************)
LEMMA CheckIsOpen ==
  ASSUME IInv, NEW check \in inflight
  PROVE  /\ running /\ ~checkTimer /\ OpenPass
         /\ check[1] \in (1 .. pointer) \ processed
         /\ check = <<check[1], arrCheck[check[1]]>>
         /\ check[1] \in DOMAIN arrCheck
         /\ arrCheck[check[1]] \in Job
<1>1. running /\ ~checkTimer /\ OpenPass
  BY DEF IInv, PassInv, NoPass, FreshPass, TypeOK
<1>2. PICK i \in (1 .. pointer) \ processed : check = <<i, arrCheck[i]>>
  BY <1>1 DEF OpenPass
<1>3. check[1] = i /\ i \in 1 .. Len(arrCheck)
  BY <1>1, <1>2 DEF OpenPass, IInv, TypeOK
<1>4. DOMAIN arrCheck = 1 .. Len(arrCheck) /\ \A k \in 1 .. Len(arrCheck) : arrCheck[k] \in Job
  BY DEF IInv, TypeOK
<1> QED  BY <1>1, <1>2, <1>3, <1>4

(***************************************************************************)
(* Messages from the master.                                               *)
(***************************************************************************)
LEMMA QueueAddStep ==
  ASSUME IInv, NEW batch \in Batches, QueueAdd(batch)
  PROVE  IInv'
<1> USE DEF IInv
<1>1. batch \in Seq(Job) /\ Len(batch) \in Nat \ {0}
  BY BatchIsSeq
<1>2. running' = TRUE /\ exitCode = Alive /\ exitCode' = Alive
  BY DEF QueueAdd, addToQueue, TypeOK
<1>3. CASE running
  <2>1. /\ arrCheck' = arrCheck \o batch /\ running
        /\ UNCHANGED <<processed, pointer, running, checkTimer, inflight>>
    BY <1>3 DEF QueueAdd, addToQueue
  <2>2. /\ arrCheck' \in Seq(Job) /\ Len(arrCheck') = Len(arrCheck) + Len(batch)
        /\ \A i \in 1 .. Len(arrCheck) : arrCheck'[i] = arrCheck[i]
    BY <1>1, <2>1 DEF TypeOK
  <2>3. TypeOK'
    <3>1. processed' \subseteq DOMAIN arrCheck'
      BY <1>1, <2>1, <2>2 DEF TypeOK
    <3>2. sent' \in Seq(ControlMsg)
      BY DEF QueueAdd
    <3> QED  BY <2>1, <2>2, <3>1, <3>2 DEF TypeOK, QueueAdd
  <2>4. checkTimer => FreshPass'
    BY <1>1, <2>1, <2>2 DEF PassInv, FreshPass, TypeOK
  <2>5. ~checkTimer => OpenPass'
    <3> SUFFICES ASSUME ~checkTimer PROVE OpenPass'
      OBVIOUS
    <3>1. OpenPass /\ pointer \in 0 .. Len(arrCheck)
      BY <2>1 DEF PassInv, OpenPass
    <3>2. pointer' \in 0 .. Len(arrCheck')
      BY <1>1, <2>1, <2>2, <3>1 DEF TypeOK
    <3>3. inflight' = {<<i, arrCheck'[i]>> : i \in (1 .. pointer') \ processed'}
      <4>1. \A i \in (1 .. pointer) \ processed : arrCheck'[i] = arrCheck[i]
        BY <2>2, <3>1 DEF TypeOK
      <4> QED  BY <2>1, <3>1, <4>1 DEF OpenPass
    <3> QED  BY <1>2, <2>1, <3>1, <3>2, <3>3 DEF OpenPass
  <2> QED
    BY <1>2, <2>1, <2>3, <2>4, <2>5
       DEF PassInv, IdleWorkerHasAsked, NoJobAbandonedAtExit, ParallelismBound
<1>4. CASE ~running
  <2>1. /\ arrCheck' = batch /\ processed' = {} /\ pointer' = 0
        /\ running' /\ checkTimer' /\ inflight' = inflight /\ inflight = {}
    BY <1>4 DEF QueueAdd, addToQueue, PassInv, NoPass
  <2>2. TypeOK'
    <3>1. sent' \in Seq(ControlMsg)
      BY DEF QueueAdd
    <3>2. checkTimer' \in BOOLEAN
      BY <1>4 DEF QueueAdd, addToQueue
    <3> QED  BY <1>1, <1>2, <2>1, <3>1, <3>2 DEF TypeOK, QueueAdd
  <2>3. FreshPass'
    BY <1>1, <2>1 DEF FreshPass
  <2> QED
    BY <1>2, <2>1, <2>2, <2>3
       DEF PassInv, IdleWorkerHasAsked, NoJobAbandonedAtExit, ParallelismBound
<1> QED  BY <1>3, <1>4

LEMMA EvaporateStep ==
  ASSUME IInv, Evaporate
  PROVE  IInv'
<1> USE DEF IInv
<1>1. TypeOK'
  <2>1. sent' \in Seq(ControlMsg)
    BY DEF Evaporate
  <2>2. suicideSignal' \in BOOLEAN /\ exitCode' \in ExitCode
    BY DEF Evaporate, TypeOK, ExitCode
  <2> QED  BY <2>1, <2>2 DEF TypeOK, Evaporate, queueVars
<1>2. PassInv'
  <2>1. UNCHANGED queueVars /\ exitCode = Alive
    BY DEF Evaporate
  <2>2. CASE running
    BY <2>1, <2>2
       DEF Evaporate, queueVars, PassInv, NoPass, FreshPass, OpenPass,
           IdleWorkerHasAsked, NoJobAbandonedAtExit, ParallelismBound
  <2>3. CASE ~running
    <3>1. owed' = {}
      BY <2>1, <2>3 DEF PassInv, NoPass, owed, Unprocessed, queueVars
    <3> QED
      BY <2>1, <2>3, <3>1
         DEF Evaporate, queueVars, PassInv, NoPass, IdleWorkerHasAsked,
             NoJobAbandonedAtExit, ParallelismBound, SUICIDE_SIGNAL, Alive
  <2> QED  BY <2>2, <2>3
<1> QED  BY <1>1, <1>2

(***************************************************************************)
(* Timers.                                                                 *)
(***************************************************************************)
LEMMA CheckServersStep ==
  ASSUME IInv, CheckServers
  PROVE  IInv'
<1> USE DEF IInv
<1>1. running /\ FreshPass /\ exitCode = Alive /\ checkTimer' = FALSE
  BY DEF CheckServers, PassInv, NoPass, TypeOK
<1>2. /\ LastOfWindow \in 1 .. Len(arrCheck)
      /\ LastOfWindow <= NUM_TO_PROCESS
  BY <1>1, NumToProcessAssumption DEF LastOfWindow, FreshPass, TypeOK
<1>3. inflight' = Started(1, LastOfWindow) /\ pointer' = LastOfWindow
  BY <1>1 DEF CheckServers, FreshPass
<1>4. TypeOK'
  <2>1. inflight' \subseteq Nat \X Job
    BY <1>2, <1>3 DEF Started, TypeOK
  <2>2. sent' \in Seq(ControlMsg)
    BY DEF CheckServers
  <2>3. pointer' \in Nat
    BY <1>2, <1>3 DEF TypeOK
  <2>4. checkTimer' \in BOOLEAN
    BY <1>1
  <2> QED  BY <2>1, <2>2, <2>3, <2>4 DEF TypeOK, CheckServers, stateVars
<1>5. OpenPass'
  <2>1. inflight' # {}
    <3>1. 1 \in 1 .. LastOfWindow
      BY <1>2 DEF TypeOK
    <3> QED  BY <1>3, <3>1 DEF Started
  <2>2. inflight' = {<<i, arrCheck'[i]>> : i \in (1 .. pointer') \ processed'}
    BY <1>1, <1>3 DEF Started, CheckServers, FreshPass
  <2> QED  BY <1>1, <1>2, <1>3, <2>1, <2>2 DEF OpenPass, CheckServers, FreshPass, TypeOK
<1>6. IsFiniteSet(inflight') /\ Cardinality(inflight') <= NUM_TO_PROCESS
  <2>1. LastOfWindow \in Nat
    BY <1>2
  <2>2. /\ IsFiniteSet(1 .. LastOfWindow)
        /\ Cardinality(1 .. LastOfWindow) = LastOfWindow
    BY <1>2, <2>1, FS_Interval
  <2> DEFINE entry == [i \in 1 .. LastOfWindow |-> <<i, arrCheck[i]>>]
  <2>3. entry \in Surjection(1 .. LastOfWindow, inflight')
    BY <1>3 DEF Started, Surjection
  <2>4. IsFiniteSet(inflight') /\ Cardinality(inflight') <= Cardinality(1 .. LastOfWindow)
    BY <2>2, <2>3, FS_Surjection
  <2>5. Cardinality(inflight') \in Nat
    BY <2>4, FS_CardinalityType
  <2> QED  BY <1>2, <2>1, <2>2, <2>4, <2>5, NumToProcessAssumption
<1>7. PassInv'
  BY <1>1, <1>5, <1>6
     DEF PassInv, CheckServers, stateVars, IdleWorkerHasAsked,
         NoJobAbandonedAtExit, ParallelismBound
<1> QED  BY <1>4, <1>7

LEMMA AskTimerStep ==
  ASSUME IInv, AskTimer
  PROVE  IInv'
<1> USE DEF IInv
<1>1. TypeOK'
  <2>1. sent' \in Seq(ControlMsg)
    <3>1. SendWork \in ControlMsg
      BY DEF ControlMsg
    <3>2. <<SendWork>> \in Seq(ControlMsg)
      BY <3>1
    <3> QED  BY <3>2 DEF AskTimer
  <2>2. askTimer' \in BOOLEAN /\ askedForWork' \in BOOLEAN
    BY DEF AskTimer
  <2> QED  BY <2>1, <2>2 DEF TypeOK, AskTimer, queueVars
<1>2. PassInv'
  BY DEF AskTimer, queueVars, PassInv, NoPass, FreshPass, OpenPass,
         IdleWorkerHasAsked, NoJobAbandonedAtExit, ParallelismBound
<1> QED  BY <1>1, <1>2

LEMMA SendStatsStep ==
  ASSUME IInv, SendStats
  PROVE  IInv'
<1> USE DEF IInv
<1>1. TypeOK'
  <2>1. sent' \in Seq(ControlMsg)
    <3>1. Stats(QueueLeft) \in ControlMsg
      BY DEF ControlMsg, Stats, QueueLeft, TypeOK
    <3>2. <<Stats(QueueLeft)>> \in Seq(ControlMsg)
      BY <3>1
    <3> QED  BY <3>2 DEF SendStats
  <2> QED  BY <2>1 DEF TypeOK, SendStats, queueVars, stateVars
<1>2. PassInv'
  BY DEF SendStats, queueVars, stateVars, PassInv, NoPass, FreshPass, OpenPass,
         IdleWorkerHasAsked, NoJobAbandonedAtExit, ParallelismBound, owed, Unprocessed
<1> QED  BY <1>1, <1>2

(***************************************************************************)
(* The callback of a check, the next entry taking its slot.                *)
(***************************************************************************)
LEMMA StartNextStep ==
  ASSUME IInv, NEW check \in inflight, StartNext(check),
         exitCode = Alive
  PROVE  IInv'
<1> USE DEF IInv
<1> DEFINE next == <<pointer + 1, arrCheck[pointer + 1]>>
<1>1. /\ running /\ ~checkTimer /\ OpenPass
      /\ check[1] \in (1 .. pointer) \ processed
      /\ check = <<check[1], arrCheck[check[1]]>>
  BY CheckIsOpen
<1>2. pointer + 1 \in 1 .. Len(arrCheck) /\ pointer \in Nat
  BY DEF StartNext, TypeOK
<1>3. inflight' = (inflight \ {check}) \cup {next}
  BY <1>2 DEF StartNext, Started
<1>4. TypeOK'
  <2>1. sent' \in Seq(ControlMsg)
    BY DEF StartNext
  <2>2. next \in Nat \X Job
    BY <1>2 DEF TypeOK
  <2>3. pointer' \in Nat /\ processed' \subseteq DOMAIN arrCheck'
    BY <1>1, <1>2 DEF StartNext, TypeOK
  <2> HIDE DEF next
  <2> QED  BY <1>3, <2>1, <2>2, <2>3 DEF TypeOK, StartNext, stateVars
<1>5. OpenPass'
  <2>1. /\ pointer' \in 0 .. Len(arrCheck') /\ processed' \subseteq 1 .. pointer'
    BY <1>1, <1>2 DEF StartNext, OpenPass, TypeOK
  <2>2. (1 .. pointer') \ processed'
          = (((1 .. pointer) \ processed) \ {check[1]}) \cup {pointer + 1}
    BY <1>1, <1>2 DEF StartNext, OpenPass
  <2>3. inflight' = {<<i, arrCheck'[i]>> : i \in (1 .. pointer') \ processed'}
    BY <1>1, <1>3, <2>2 DEF OpenPass, StartNext
  <2> QED  BY <1>3, <2>1, <2>3 DEF OpenPass
<1>6. IsFiniteSet(inflight') /\ Cardinality(inflight') <= NUM_TO_PROCESS
  <2>1. /\ IsFiniteSet(inflight \ {check})
        /\ Cardinality(inflight \ {check}) = Cardinality(inflight) - 1
    BY FS_RemoveElement DEF PassInv
  <2>2. /\ IsFiniteSet(inflight')
        /\ Cardinality(inflight') <= Cardinality(inflight \ {check}) + 1
    <3> HIDE DEF next
    <3> DEFINE others == inflight \ {check}
    <3>1. IsFiniteSet(others) /\ Cardinality(others) \in Nat
      BY <2>1, FS_CardinalityType
    <3> HIDE DEF others
    <3>2. /\ IsFiniteSet(others \cup {next})
          /\ Cardinality(others \cup {next}) <= Cardinality(others) + 1
      <4>1. /\ IsFiniteSet(others \cup {next})
            /\ Cardinality(others \cup {next}) =
                 IF next \in others THEN Cardinality(others) ELSE Cardinality(others) + 1
        BY <3>1, FS_AddElement
      <4> QED  BY <3>1, <4>1
    <3> QED  BY <1>3, <3>2 DEF others
  <2>3. Cardinality(inflight) \in Nat /\ Cardinality(inflight') \in Nat
    BY <2>2, FS_CardinalityType DEF PassInv
  <2> QED  BY <2>1, <2>2, <2>3, NumToProcessAssumption DEF PassInv, ParallelismBound
<1>7. PassInv'
  BY <1>1, <1>5, <1>6
     DEF PassInv, StartNext, stateVars, IdleWorkerHasAsked,
         NoJobAbandonedAtExit, ParallelismBound
<1> QED  BY <1>4, <1>7

(***************************************************************************)
(* The callback of a check when every entry has been started.              *)
(***************************************************************************)
LEMMA AtEndStep ==
  ASSUME IInv, NEW check \in inflight, NEW overLimit \in BOOLEAN,
         AtEnd(check, overLimit), exitCode = Alive
  PROVE  IInv'
<1> USE DEF IInv
<1> DEFINE done == processed \cup {check[1]}
<1>1. /\ running /\ ~checkTimer /\ OpenPass
      /\ check[1] \in (1 .. pointer) \ processed
      /\ check = <<check[1], arrCheck[check[1]]>>
      /\ check[1] \in DOMAIN arrCheck
  BY CheckIsOpen
<1>2. pointer = Len(arrCheck) /\ DOMAIN arrCheck = 1 .. pointer
  BY <1>1 DEF AtEnd, OpenPass, TypeOK
<1>3. inflight' = {<<i, arrCheck[i]>> : i \in (1 .. pointer) \ done}
  BY <1>1 DEF AtEnd, OpenPass
<1>4. /\ availableForWork' \in BOOLEAN /\ askedForWork' \in BOOLEAN
      /\ exitCode' \in ExitCode /\ sent' \in Seq(ControlMsg)
  <2>1. availableForWork' \in BOOLEAN
    BY DEF AtEnd, stopsWork, TypeOK
  <2>2. askedForWork' \in BOOLEAN
    BY <2>1 DEF AtEnd, asksForWork, TypeOK
  <2>3. exitCode' \in ExitCode
    BY DEF AtEnd, RetireWithCode, ExitCode, TypeOK
  <2>4. /\ <<SendWork>> \in Seq(ControlMsg) /\ <<StopWork>> \in Seq(ControlMsg)
        /\ <<>> \in Seq(ControlMsg)
    <3>1. SendWork \in ControlMsg /\ StopWork \in ControlMsg
      BY DEF ControlMsg
    <3> QED  BY <3>1
  <2>5. sent' \in {<<SendWork>>, <<StopWork>>, <<>>}
    BY DEF AtEnd
  <2>6. sent' \in Seq(ControlMsg)
    BY <2>4, <2>5
  <2> QED  BY <2>1, <2>2, <2>3, <2>6
<1>5. IsFiniteSet(inflight') /\ Cardinality(inflight') <= NUM_TO_PROCESS
  <2>1. inflight' \subseteq inflight
    BY DEF AtEnd
  <2>2. IsFiniteSet(inflight') /\ Cardinality(inflight') <= Cardinality(inflight)
    BY <2>1, FS_Subset DEF PassInv
  <2>3. Cardinality(inflight) \in Nat /\ Cardinality(inflight') \in Nat
    BY <2>2, FS_CardinalityType DEF PassInv
  <2> QED  BY <2>2, <2>3, NumToProcessAssumption DEF PassInv, ParallelismBound
<1>6. CASE AllProcessed(done) /\ availableForWork'
  <2>1. /\ arrCheck' = <<>> /\ processed' = {} /\ running' = FALSE
        /\ exitCode' = exitCode /\ UNCHANGED <<pointer, checkTimer, askTimer, suicideSignal>>
    BY <1>6 DEF AtEnd, FinishPass
  <2>2. inflight' = {}
    BY <1>2, <1>3, <1>6 DEF AllProcessed
  <2>3. askedForWork'
    BY <1>6 DEF AtEnd, asksForWork, TypeOK
  <2>4. TypeOK'
    <3>1. running' \in BOOLEAN
      BY <2>1
    <3>2. /\ arrCheck' \in Seq(Job) /\ processed' \subseteq DOMAIN arrCheck'
          /\ inflight' \subseteq Nat \X Job
      BY <2>1, <2>2
    <3> QED  BY <1>4, <2>1, <3>1, <3>2 DEF TypeOK
  <2>5. PassInv'
    BY <1>1, <1>5, <1>6, <2>1, <2>2, <2>3
       DEF PassInv, NoPass, IdleWorkerHasAsked, NoJobAbandonedAtExit, ParallelismBound
  <2> QED  BY <2>4, <2>5
<1>7. CASE ~(AllProcessed(done) /\ availableForWork')
  <2>1. /\ processed' = done /\ UNCHANGED <<arrCheck, running>>
        /\ UNCHANGED <<pointer, checkTimer, askTimer, suicideSignal>>
    BY <1>7 DEF AtEnd, FinishPass
  <2>2. TypeOK'
    <3>1. inflight' \subseteq Nat \X Job /\ processed' \subseteq DOMAIN arrCheck'
      BY <1>1, <2>1 DEF AtEnd, TypeOK
    <3> QED  BY <1>4, <2>1, <3>1 DEF TypeOK
  <2>3. exitCode' = Alive => ~AllProcessed(done)
    BY <1>7 DEF AtEnd, RetireWithCode, Alive, SUICIDE_SIGNAL, EXIT_MAXRAMUSAGE, EXIT_MAXCHECKS
  <2>4. exitCode' # Alive => owed' = {}
    BY <1>7, <2>1 DEF AtEnd, AllProcessed, owed, Unprocessed
  <2>5. OpenPass'
    <3>1. exitCode' = Alive => inflight' # {}
      BY <1>2, <1>3, <2>3 DEF AllProcessed
    <3>2. processed' \subseteq 1 .. pointer'
      BY <1>1, <2>1 DEF OpenPass
    <3> QED  BY <1>1, <1>3, <2>1, <3>1, <3>2 DEF OpenPass
  <2> QED
    BY <1>1, <1>5, <2>1, <2>2, <2>4, <2>5
       DEF PassInv, IdleWorkerHasAsked, NoJobAbandonedAtExit, ParallelismBound
<1> QED  BY <1>6, <1>7

(***************************************************************************)
(* Every step keeps the invariant.                                         *)
(***************************************************************************)
LEMMA StutterStep ==
  ASSUME IInv, UNCHANGED vars
  PROVE  IInv'
BY DEF IInv, vars, queueVars, stateVars, TypeOK, PassInv, NoPass, FreshPass, OpenPass,
       IdleWorkerHasAsked, NoJobAbandonedAtExit, ParallelismBound, owed, Unprocessed

LEMMA StepInv ==
  ASSUME IInv, [Next]_vars
  PROVE  IInv'
<1>1. ASSUME NEW batch \in Batches, QueueAdd(batch) PROVE IInv'
  BY <1>1, QueueAddStep
<1>2. CASE Evaporate
  BY <1>2, EvaporateStep
<1>3. CASE CheckServers
  BY <1>3, CheckServersStep
<1>4. CASE AskTimer
  BY <1>4, AskTimerStep
<1>5. CASE SendStats
  BY <1>5, SendStatsStep
<1>6. ASSUME NEW check \in inflight, Callback(check) PROVE IInv'
  <2>1. CASE StartNext(check)
    BY <1>6, <2>1, StartNextStep DEF Callback
  <2>2. ASSUME NEW overLimit \in BOOLEAN, AtEnd(check, overLimit) PROVE IInv'
    BY <1>6, <2>2, AtEndStep DEF Callback
  <2> QED  BY <1>6, <2>1, <2>2 DEF Callback
<1>7. CASE UNCHANGED vars
  BY <1>7, StutterStep
<1> QED  BY <1>1, <1>2, <1>3, <1>4, <1>5, <1>6, <1>7 DEF Next

(***************************************************************************)
(* The invariant holds of every behaviour of the worker.                   *)
(***************************************************************************)
THEOREM InvariantHolds == Spec => []IInv
<1> QED  BY InitInv, StepInv, PTL DEF Spec

(***************************************************************************)
(* Type correctness, and with it that no callback reads past arrCheck.     *)
(***************************************************************************)
THEOREM TypeCorrect == Spec => []TypeOK
<1>1. IInv => TypeOK
  BY DEF IInv
<1> QED  BY <1>1, InvariantHolds, PTL

(***************************************************************************)
(* A pending callback marks and reports the site its check was made of.    *)
(***************************************************************************)
THEOREM SiteIdentity == Spec => []ResultsReachTheirSite
<1>1. IInv => ResultsReachTheirSite
  <2> SUFFICES ASSUME IInv, NEW check \in inflight
               PROVE  check[1] \in Unprocessed /\ arrCheck[check[1]] = check[2]
    BY DEF ResultsReachTheirSite
  <2> QED  BY CheckIsOpen DEF Unprocessed
<1> QED  BY <1>1, InvariantHolds, PTL

(***************************************************************************)
(* At most NUM_TO_PROCESS checks of a worker are in flight.                *)
(***************************************************************************)
THEOREM ParallelismIsBounded == Spec => []ParallelismBound
<1>1. IInv => ParallelismBound
  BY DEF IInv, PassInv
<1> QED  BY <1>1, InvariantHolds, PTL

(***************************************************************************)
(* A worker leaves no accepted job behind when it exits.                   *)
(***************************************************************************)
THEOREM ExitOwesNothing == Spec => []NoJobAbandonedAtExit
<1>1. IInv => NoJobAbandonedAtExit
  BY DEF IInv, PassInv
<1> QED  BY <1>1, InvariantHolds, PTL

(***************************************************************************)
(* An idle worker has asked for work, and a busy one has a check in flight *)
(* or its first window still to start.                                     *)
(***************************************************************************)
THEOREM WorkerNeverStuck == Spec => []NeverStuck
<1>1. IInv => NeverStuck
  BY DEF IInv, PassInv, OpenPass, NeverStuck, IdleWorkerHasAsked, BusyWorkerProgresses, TypeOK
<1> QED  BY <1>1, InvariantHolds, PTL
-----------------------------------------------------------------------------
(***************************************************************************)
(* The refinement needs one invariant more: a job is in arrCheck once, so  *)
(* that reporting one entry settles the job.                               *)
(***************************************************************************)
LEMMA BatchIsNew ==
  ASSUME NEW batch \in Batches
  PROVE  IsInjective(batch) /\ Range(batch) \subseteq Job \ Range(arrCheck)
<1>1. PICK n \in 1 .. DATASET_SIZE : batch \in Injection(1 .. n, Job \ Range(arrCheck))
  BY DEF Batches
<1> QED  BY <1>1 DEF Injection, IsInjective, Range

LEMMA AppendBatch ==
  ASSUME IInv, NEW batch \in Batches
  PROVE  /\ DOMAIN (arrCheck \o batch) = 1 .. Len(arrCheck) + Len(batch)
         /\ Len(arrCheck) \in Nat /\ Len(batch) \in Nat
         /\ DOMAIN arrCheck = 1 .. Len(arrCheck) /\ DOMAIN batch = 1 .. Len(batch)
         /\ \A i \in DOMAIN arrCheck : (arrCheck \o batch)[i] = arrCheck[i]
         /\ \A i \in DOMAIN batch : (arrCheck \o batch)[Len(arrCheck) + i] = batch[i]
<1>1. arrCheck \in Seq(Job) /\ batch \in Seq(Job)
  BY BatchIsSeq DEF IInv, TypeOK
<1> QED  BY <1>1

LEMMA NoJobTwiceStep ==
  ASSUME IInv, IsInjective(arrCheck), [Next]_vars
  PROVE  IsInjective(arrCheck')
<1>1. ASSUME NEW batch \in Batches, QueueAdd(batch) PROVE IsInjective(arrCheck')
  <2>1. CASE running
    <3> DEFINE t == arrCheck \o batch
    <3>1. arrCheck' = t
      BY <1>1, <2>1 DEF QueueAdd, addToQueue
    <3>2. /\ DOMAIN t = 1 .. Len(arrCheck) + Len(batch)
          /\ Len(arrCheck) \in Nat /\ Len(batch) \in Nat
          /\ DOMAIN arrCheck = 1 .. Len(arrCheck) /\ DOMAIN batch = 1 .. Len(batch)
          /\ \A i \in DOMAIN arrCheck : t[i] = arrCheck[i]
          /\ \A i \in DOMAIN batch : t[Len(arrCheck) + i] = batch[i]
      BY AppendBatch
    <3> HIDE DEF t
    <3>3. \A i \in DOMAIN arrCheck, k \in DOMAIN batch : arrCheck[i] # batch[k]
      BY BatchIsNew DEF Range
    <3>4. \A i \in DOMAIN t : i \in DOMAIN arrCheck \/ \E k \in DOMAIN batch : i = Len(arrCheck) + k
      <4> SUFFICES ASSUME NEW i \in DOMAIN t, i \notin DOMAIN arrCheck
                   PROVE  \E k \in DOMAIN batch : i = Len(arrCheck) + k
        OBVIOUS
      <4>1. i - Len(arrCheck) \in DOMAIN batch /\ i = Len(arrCheck) + (i - Len(arrCheck))
        BY <3>2
      <4> QED  BY <4>1
    <3>5. IsInjective(t)
      <4> SUFFICES ASSUME NEW i \in DOMAIN t, NEW j \in DOMAIN t, t[i] = t[j] PROVE i = j
        BY DEF IsInjective
      <4>1. CASE i \in DOMAIN arrCheck /\ j \in DOMAIN arrCheck
        BY <3>2, <4>1 DEF IsInjective
      <4>2. CASE i \notin DOMAIN arrCheck /\ j \notin DOMAIN arrCheck
        <5>1. PICK k \in DOMAIN batch, l \in DOMAIN batch :
                i = Len(arrCheck) + k /\ j = Len(arrCheck) + l
          BY <3>4, <4>2
        <5>2. batch[k] = batch[l]
          BY <3>2, <5>1
        <5> QED  BY <5>1, <5>2, BatchIsNew DEF IsInjective
      <4>3. CASE i \in DOMAIN arrCheck <=> j \notin DOMAIN arrCheck
        BY <3>2, <3>3, <3>4, <4>3
      <4> QED  BY <4>1, <4>2, <4>3
    <3> QED  BY <3>1, <3>5
  <2>2. CASE ~running
    BY <1>1, <2>2, BatchIsNew DEF QueueAdd, addToQueue
  <2> QED  BY <2>1, <2>2
<1>2. ASSUME arrCheck' = arrCheck \/ arrCheck' = <<>> PROVE IsInjective(arrCheck')
  BY <1>2 DEF IsInjective
<1>3. ASSUME NEW check \in inflight, Callback(check) PROVE IsInjective(arrCheck')
  BY <1>2, <1>3 DEF Callback, StartNext, AtEnd, FinishPass
<1>4. CASE Evaporate \/ CheckServers \/ AskTimer \/ SendStats \/ UNCHANGED vars
  BY <1>2, <1>4 DEF Evaporate, CheckServers, AskTimer, SendStats, vars, queueVars
<1> QED  BY <1>1, <1>3, <1>4 DEF Next

(***************************************************************************)
(* The worker as its contract sees it.                                     *)
(***************************************************************************)
Seen == [owed |-> owed, asked |-> askedForWork, askTimer |-> askTimer,
         available |-> availableForWork, suicide |-> suicideSignal, exit |-> exitCode]

View(o, a, t, v, s, e) == [owed |-> o, asked |-> a, askTimer |-> t,
                           available |-> v, suicide |-> s, exit |-> e]

RefInv == IInv /\ IsInjective(arrCheck)

LEMMA SeenIsView ==
  /\ Seen = View(owed, askedForWork, askTimer, availableForWork, suicideSignal, exitCode)
  /\ Seen' = View(owed', askedForWork', askTimer', availableForWork', suicideSignal', exitCode')
  BY DEF Seen, View

LEMMA SeenUpdates ==
  \A x, y :
    /\ [Seen EXCEPT !.owed = x]
         = View(x, askedForWork, askTimer, availableForWork, suicideSignal, exitCode)
    /\ [Seen EXCEPT !.suicide = x]
         = View(owed, askedForWork, askTimer, availableForWork, x, exitCode)
    /\ [Seen EXCEPT !.owed = x, !.asked = y]
         = View(x, y, askTimer, availableForWork, suicideSignal, exitCode)
    /\ [Seen EXCEPT !.askTimer = x, !.asked = y]
         = View(owed, y, x, availableForWork, suicideSignal, exitCode)
<1> SUFFICES ASSUME NEW x, NEW y
    PROVE  /\ [Seen EXCEPT !.owed = x]
                = View(x, askedForWork, askTimer, availableForWork, suicideSignal, exitCode)
           /\ [Seen EXCEPT !.suicide = x]
                = View(owed, askedForWork, askTimer, availableForWork, x, exitCode)
           /\ [Seen EXCEPT !.owed = x, !.asked = y]
                = View(x, y, askTimer, availableForWork, suicideSignal, exitCode)
           /\ [Seen EXCEPT !.askTimer = x, !.asked = y]
                = View(owed, y, x, availableForWork, suicideSignal, exitCode)
  OBVIOUS
<1>1. [Seen EXCEPT !.owed = x] = View(x, askedForWork, askTimer, availableForWork, suicideSignal, exitCode)
  BY DEF Seen, View
<1>2. [Seen EXCEPT !.suicide = x] = View(owed, askedForWork, askTimer, availableForWork, x, exitCode)
  BY DEF Seen, View
<1>3. [Seen EXCEPT !.owed = x, !.asked = y] = View(x, y, askTimer, availableForWork, suicideSignal, exitCode)
  <2>1. PICK z : z = [Seen EXCEPT !.owed = x]
    OBVIOUS
  <2>2. [Seen EXCEPT !.owed = x, !.asked = y] = [z EXCEPT !.asked = y]
    BY <2>1
  <2>3. [Seen EXCEPT !.owed = x] = View(x, askedForWork, askTimer, availableForWork, suicideSignal, exitCode)
    BY DEF Seen, View
  <2>4. z = View(x, askedForWork, askTimer, availableForWork, suicideSignal, exitCode)
    BY <2>1, <2>3
  <2>5. [z EXCEPT !.asked = y] = View(x, y, askTimer, availableForWork, suicideSignal, exitCode)
    BY <2>4 DEF View
  <2> QED  BY <2>2, <2>5
<1>4. [Seen EXCEPT !.askTimer = x, !.asked = y] = View(owed, y, x, availableForWork, suicideSignal, exitCode)
  <2>1. PICK z : z = [Seen EXCEPT !.askTimer = x]
    OBVIOUS
  <2>2. [Seen EXCEPT !.askTimer = x, !.asked = y] = [z EXCEPT !.asked = y]
    BY <2>1
  <2>3. [Seen EXCEPT !.askTimer = x] = View(owed, askedForWork, x, availableForWork, suicideSignal, exitCode)
    BY DEF Seen, View
  <2>4. z = View(owed, askedForWork, x, availableForWork, suicideSignal, exitCode)
    BY <2>1, <2>3
  <2>5. [z EXCEPT !.asked = y] = View(owed, y, x, availableForWork, suicideSignal, exitCode)
    BY <2>4 DEF View
  <2> QED  BY <2>2, <2>5
<1> QED  BY <1>1, <1>2, <1>3, <1>4

LEMMA SeenFields ==
  /\ Seen.owed = owed /\ Seen.asked = askedForWork /\ Seen.askTimer = askTimer
  /\ Seen.available = availableForWork /\ Seen.suicide = suicideSignal
  /\ Seen.exit = exitCode
  BY DEF Seen

LEMMA RunningMeansOwed ==
  ASSUME IInv
  PROVE  /\ ~running => owed = {}
         /\ running /\ exitCode = Alive => owed # {}
<1>1. ~running => owed = {}
  BY DEF IInv, PassInv, NoPass, owed, Unprocessed
<1>2. ASSUME running, exitCode = Alive PROVE Unprocessed # {}
  <2>1. CASE checkTimer
    <3>1. arrCheck # <<>> /\ processed = {}
      BY <1>2, <2>1 DEF IInv, PassInv, FreshPass
    <3>2. arrCheck \in Seq(Job)
      BY DEF IInv, TypeOK
    <3>3. DOMAIN arrCheck # {}
      <4>1. Len(arrCheck) \in Nat /\ DOMAIN arrCheck = 1 .. Len(arrCheck)
        BY <3>2
      <4>2. Len(arrCheck) # 0
        BY <3>1, <3>2, EmptySeq
      <4> QED  BY <4>1, <4>2
    <3> QED  BY <3>1, <3>3 DEF Unprocessed
  <2>2. CASE ~checkTimer
    <3>1. OpenPass /\ inflight # {}
      BY <1>2, <2>2 DEF IInv, PassInv, OpenPass
    <3> QED  BY <3>1 DEF OpenPass, IInv, TypeOK, Unprocessed
  <2> QED  BY <2>1, <2>2
<1> QED  BY <1>1, <1>2 DEF owed

LEMMA ContractInit == Init => Contract!Init
<1> SUFFICES ASSUME Init PROVE Contract!Init
  OBVIOUS
<1>1. owed = {}
  BY DEF Init, owed, Unprocessed
<1> QED  BY <1>1 DEF Init, Contract!Init, Contract!FreshWorker, Contract!Alive, Alive

(***************************************************************************)
(* Messages from the master, and timers.                                   *)
(***************************************************************************)
LEMMA ContractQueueAdd ==
  ASSUME RefInv, NEW batch \in Batches, QueueAdd(batch)
  PROVE  Contract!Next
<1> DEFINE jobs == Range(batch)
<1>1. jobs \in SUBSET (Job \ owed) /\ jobs # {}
  <2>1. owed \subseteq Range(arrCheck)
    BY DEF owed, Unprocessed, Range
  <2>2. 1 \in DOMAIN batch
    BY BatchIsSeq
  <2> QED  BY <2>1, <2>2, BatchIsNew DEF Range
<1>2. owed' = owed \cup jobs
  <2>1. CASE running
    <3> DEFINE t == arrCheck \o batch
    <3>1. arrCheck' = t /\ processed' = processed
      BY <2>1 DEF QueueAdd, addToQueue
    <3>2. /\ DOMAIN t = 1 .. Len(arrCheck) + Len(batch)
          /\ Len(arrCheck) \in Nat /\ Len(batch) \in Nat
          /\ DOMAIN arrCheck = 1 .. Len(arrCheck) /\ DOMAIN batch = 1 .. Len(batch)
          /\ \A i \in DOMAIN arrCheck : t[i] = arrCheck[i]
          /\ \A i \in DOMAIN batch : t[Len(arrCheck) + i] = batch[i]
      BY AppendBatch DEF RefInv
    <3>3. processed \subseteq DOMAIN arrCheck
      BY DEF RefInv, IInv, TypeOK
    <3> HIDE DEF t
    <3>4. ASSUME NEW j \in owed' PROVE j \in owed \cup jobs
      <4>1. PICK i \in DOMAIN t \ processed : j = t[i]
        BY <3>1 DEF owed, Unprocessed
      <4>2. CASE i \in DOMAIN arrCheck
        BY <3>2, <4>1, <4>2 DEF owed, Unprocessed
      <4>3. CASE i \notin DOMAIN arrCheck
        <5>1. i - Len(arrCheck) \in DOMAIN batch /\ i = Len(arrCheck) + (i - Len(arrCheck))
          BY <3>2, <4>3
        <5> QED  BY <3>2, <4>1, <5>1 DEF Range
      <4> QED  BY <4>2, <4>3
    <3>5. ASSUME NEW j \in owed PROVE j \in owed'
      <4>1. PICK i \in DOMAIN arrCheck \ processed : j = arrCheck[i]
        BY DEF owed, Unprocessed
      <4>2. i \in DOMAIN t \ processed /\ t[i] = j
        BY <3>2, <4>1
      <4> QED  BY <3>1, <4>2 DEF owed, Unprocessed
    <3>6. ASSUME NEW j \in jobs PROVE j \in owed'
      <4>1. PICK k \in DOMAIN batch : j = batch[k]
        BY DEF Range
      <4>2. Len(arrCheck) + k \in DOMAIN t \ processed /\ t[Len(arrCheck) + k] = j
        BY <3>2, <3>3, <4>1
      <4> QED  BY <3>1, <4>2 DEF owed, Unprocessed
    <3> QED  BY <3>4, <3>5, <3>6
  <2>2. CASE ~running
    <3>1. arrCheck' = batch /\ processed' = {} /\ owed = {}
      BY <2>2, RunningMeansOwed DEF QueueAdd, addToQueue, RefInv
    <3> QED  BY <3>1 DEF owed, Unprocessed, Range
  <2> QED  BY <2>1, <2>2
<1>3. /\ exitCode = Alive /\ askedForWork' = FALSE /\ sent' = <<>>
      /\ UNCHANGED <<askTimer, availableForWork, suicideSignal, exitCode>>
  BY DEF QueueAdd
<1> HIDE DEF jobs
<1>4. Contract!QueueAdd(jobs)
  <2>1. Seen' = [Seen EXCEPT !.owed = owed \cup jobs, !.asked = FALSE]
    <3>1. [Seen EXCEPT !.owed = owed \cup jobs, !.asked = FALSE]
            = View(owed \cup jobs, FALSE, askTimer, availableForWork, suicideSignal, exitCode)
      BY SeenUpdates, Zenon
    <3> QED  BY <1>2, <1>3, <3>1, SeenIsView, Zenon
  <2>2. Seen' = [Seen EXCEPT !.owed = @ \cup jobs, !.asked = FALSE]
    BY <2>1, SeenFields, Zenon
  <2> QED
    BY <1>3, <2>2
       DEF Seen, Contract!QueueAdd, Contract!Take, Contract!Step, Contract!AfterQueueAdd
<1> QED  BY <1>1, <1>3, <1>4 DEF Contract!Next, Contract!Alive, Alive

LEMMA ContractEvaporate ==
  ASSUME RefInv, Evaporate
  PROVE  Contract!Next
<1>1. /\ exitCode = Alive /\ sent' = <<>>
      /\ UNCHANGED <<arrCheck, processed, askedForWork, askTimer, availableForWork>>
      /\ IF running THEN suicideSignal' = TRUE /\ UNCHANGED exitCode
                    ELSE exitCode' = SUICIDE_SIGNAL /\ UNCHANGED suicideSignal
  BY DEF Evaporate, queueVars
<1>2. owed' = owed /\ (running <=> owed # {})
  BY <1>1, RunningMeansOwed DEF owed, Unprocessed, RefInv, IInv, TypeOK
<1>3. Contract!Evaporate
  <2>1. CASE running
    <3>1. Seen' = [Seen EXCEPT !.suicide = TRUE]
      <4>1. [Seen EXCEPT !.suicide = TRUE]
              = View(owed, askedForWork, askTimer, availableForWork, TRUE, exitCode)
        BY SeenUpdates, Zenon
      <4> QED  BY <1>1, <1>2, <2>1, <4>1, SeenIsView, Zenon
    <3> QED
      BY <1>1, <1>2, <2>1, <3>1
         DEF Seen, Contract!Evaporate, Contract!Take, Contract!Step, Contract!AfterEvaporate
  <2>2. CASE ~running
    <3>1. Seen' = [Seen EXCEPT !.exit = SUICIDE_SIGNAL]
      BY <1>1, <1>2, <2>2 DEF Seen
    <3> QED
      BY <1>1, <1>2, <2>2, <3>1
         DEF Seen, Contract!Evaporate, Contract!Take, Contract!Step, Contract!AfterEvaporate,
             SUICIDE_SIGNAL, Contract!SUICIDE_SIGNAL
  <2> QED  BY <2>1, <2>2
<1> QED  BY <1>1, <1>3 DEF Contract!Next, Contract!Alive, Alive

LEMMA ContractCheckServers ==
  ASSUME RefInv, CheckServers
  PROVE  Contract!Next
<1>1. /\ exitCode = Alive /\ sent' = <<>> /\ UNCHANGED <<arrCheck, processed, stateVars>>
  BY DEF CheckServers
<1>2. owed' = owed
  BY <1>1 DEF owed, Unprocessed
<1>3. Contract!Hidden
  BY <1>1, <1>2 DEF stateVars, Contract!Hidden, Contract!Take, Contract!Step
<1> QED  BY <1>1, <1>3 DEF Contract!Next, Contract!Alive, Alive

LEMMA ContractAskTimer ==
  ASSUME RefInv, AskTimer
  PROVE  Contract!Next
<1>1. /\ exitCode = Alive /\ askTimer /\ askTimer' = FALSE /\ askedForWork' = TRUE
      /\ sent' = <<SendWork>>
      /\ UNCHANGED <<arrCheck, processed, availableForWork, suicideSignal, exitCode>>
  BY DEF AskTimer, queueVars
<1>2. owed' = owed
  BY <1>1 DEF owed, Unprocessed
<1>3. Seen' = [Seen EXCEPT !.askTimer = FALSE, !.asked = TRUE]
  <2>1. [Seen EXCEPT !.askTimer = FALSE, !.asked = TRUE]
          = View(owed, TRUE, FALSE, availableForWork, suicideSignal, exitCode)
    BY SeenUpdates, Zenon
  <2> QED  BY <1>1, <1>2, <2>1, SeenIsView, Zenon
<1>4. Contract!AskTimer
  BY <1>1, <1>3
     DEF Seen, Contract!AskTimer, Contract!Take, Contract!Step, Contract!AfterAskTimer,
         Contract!SendWork, SendWork
<1> QED  BY <1>1, <1>4 DEF Contract!Next, Contract!Alive, Alive

\* What is not started is owed.
LEMMA QueueLeftIsOwed ==
  ASSUME RefInv, exitCode = Alive
  PROVE  QueueLeft \in 0 .. Cardinality(owed)
<1> USE DEF RefInv, IInv
<1> DEFINE n    == Len(arrCheck)
           left == pointer + 1 .. n
           jobs == {arrCheck[i] : i \in left}
<1>1. /\ n \in Nat /\ pointer \in Nat /\ DOMAIN arrCheck = 1 .. n
      /\ \A i \in 1 .. n : arrCheck[i] \in Job
  BY DEF TypeOK
<1>2. processed \cap left = {}
  BY <1>1 DEF PassInv, NoPass, FreshPass, OpenPass, TypeOK
<1>3. jobs \subseteq owed
  BY <1>1, <1>2 DEF owed, Unprocessed
<1>4. IsFiniteSet(owed)
  <2>1. IsFiniteSet(Unprocessed)
    <3>1. IsFiniteSet(1 .. n)
      BY <1>1, FS_Interval
    <3> QED  BY <1>1, <3>1, FS_Subset DEF Unprocessed
  <2>2. [i \in Unprocessed |-> arrCheck[i]] \in Surjection(Unprocessed, owed)
    BY DEF owed, Surjection
  <2> QED  BY <2>1, <2>2, FS_Surjection
<1>5. IsFiniteSet(left) /\ Cardinality(left) = IF pointer + 1 > n THEN 0 ELSE n - (pointer + 1) + 1
  <2>1. pointer + 1 \in Int /\ n \in Int
    BY <1>1
  <2> HIDE DEF n
  <2> QED  BY <2>1, FS_Interval
<1>6. Cardinality(jobs) = Cardinality(left) /\ IsFiniteSet(jobs)
  <2> DEFINE f == [i \in left |-> arrCheck[i]]
  <2>1. f \in Surjection(left, jobs)
    BY DEF Surjection
  <2>2. f \in Injection(left, jobs)
    BY <1>1 DEF Injection, IsInjective
  <2> QED  BY <1>5, <2>1, <2>2, FS_Surjection
<1>7. Cardinality(jobs) <= Cardinality(owed)
  BY <1>3, <1>4, FS_Subset
<1>8. Cardinality(owed) \in Nat /\ Cardinality(left) \in Nat
  BY <1>4, <1>5, FS_CardinalityType
<1>9. QueueLeft \in Nat /\ QueueLeft <= Cardinality(left)
  BY <1>1, <1>5 DEF QueueLeft
<1> HIDE DEF jobs, left
<1> QED  BY <1>6, <1>7, <1>8, <1>9

LEMMA ContractSendStats ==
  ASSUME RefInv, SendStats
  PROVE  Contract!Next
<1>1. /\ exitCode = Alive /\ sent' = <<Stats(QueueLeft)>>
      /\ UNCHANGED <<queueVars, stateVars>>
  BY DEF SendStats
<1>2. Seen' = Seen
  BY <1>1 DEF Seen, queueVars, stateVars, owed, Unprocessed
<1>3. QueueLeft \in 0 .. Cardinality(Seen.owed)
  BY <1>1, QueueLeftIsOwed DEF Seen
<1>4. Contract!SendStats
  <2> DEFINE step == Contract!Step(Seen, <<Contract!Stats(QueueLeft)>>)
  <2>1. Contract!Cardinality(Seen.owed) = Cardinality(Seen.owed)
    BY DEF Contract!Cardinality, Cardinality
  <2>3. step \in Contract!StatsSteps(Seen)
    BY <1>3, <2>1, Zenon DEF Contract!StatsSteps
  <2>2. step.worker = Seen /\ step.msgs = <<Stats(QueueLeft)>>
    BY DEF Contract!Step, Contract!Stats, Stats
  <2> HIDE DEF step
  <2>4. Seen' = step.worker /\ sent' = step.msgs
    BY <1>1, <1>2, <2>2
  <2> QED  BY <2>3, <2>4 DEF Contract!SendStats, Contract!Take, Seen
<1> QED  BY <1>1, <1>4 DEF Contract!Next, Contract!Alive, Alive

(***************************************************************************)
(* The callback of a check.                                                *)
(***************************************************************************)
\* What a worker decides at the end of its queue.
Stays(overLimit) == availableForWork /\ ~stopsWork(overLimit)
Asks(overLimit)  == Stays(overLimit) /\ ~askedForWork
Said(overLimit)  == IF stopsWork(overLimit) THEN <<Contract!StopWork>>
                    ELSE IF Asks(overLimit) THEN <<Contract!SendWork>> ELSE <<>>

\* AtEndSteps, by what it computes on the way.
AtEndOf(w, stays, asks, said) ==
  IF w.owed = {} /\ ~stays
    THEN {Contract!Step([w EXCEPT !.available = FALSE, !.exit = code], said)
            : code \in Contract!RetireCodes(w)}
    ELSE {Contract!Step([w EXCEPT !.available = stays, !.asked = @ \/ asks], said)}

\* What AtEndSteps leaves of a worker that has reported and owes o.
LEMMA AtEndView ==
  ASSUME TypeOK, NEW o, NEW w, NEW overLimit \in BOOLEAN,
         w = View(o, askedForWork, askTimer, availableForWork, suicideSignal, exitCode)
  PROVE  /\ o = {} /\ ~Stays(overLimit) =>
              \A code \in Contract!RetireCodes(w) :
                Contract!Step(View(o, askedForWork, askTimer, FALSE, suicideSignal, code),
                              Said(overLimit))
                  \in Contract!AtEndSteps(w, overLimit)
         /\ ~(o = {} /\ ~Stays(overLimit)) =>
              Contract!Step(View(o, askedForWork \/ Asks(overLimit), askTimer,
                                 Stays(overLimit), suicideSignal, exitCode),
                            Said(overLimit))
                \in Contract!AtEndSteps(w, overLimit)
<1> DEFINE a     == askedForWork
           t     == askTimer
           v     == availableForWork
           s     == suicideSignal
           e     == exitCode
           stops == stopsWork(overLimit)
           stays == Stays(overLimit)
           asks  == Asks(overLimit)
           said  == Said(overLimit)
<1>1. ASSUME NEW x, NEW y
      PROVE  [w EXCEPT !.available = x, !.asked = y] = View(o, y, t, x, s, e)
  <2>1. PICK z : z = [w EXCEPT !.available = x]
    OBVIOUS
  <2>2. [w EXCEPT !.available = x, !.asked = y] = [z EXCEPT !.asked = y]
    BY <2>1
  <2>3. [w EXCEPT !.available = x] = View(o, a, t, x, s, e)
    BY DEF View
  <2>4. z = View(o, a, t, x, s, e)
    BY <2>1, <2>3
  <2>5. [z EXCEPT !.asked = y] = View(o, y, t, x, s, e)
    BY <2>4 DEF View
  <2> QED  BY <2>2, <2>5
<1>2. ASSUME NEW x, NEW y
      PROVE  [w EXCEPT !.available = x, !.exit = y] = View(o, a, t, x, s, y)
  <2>1. PICK z : z = [w EXCEPT !.available = x]
    OBVIOUS
  <2>2. [w EXCEPT !.available = x, !.exit = y] = [z EXCEPT !.exit = y]
    BY <2>1
  <2>3. [w EXCEPT !.available = x] = View(o, a, t, x, s, e)
    BY DEF View
  <2>4. z = View(o, a, t, x, s, e)
    BY <2>1, <2>3
  <2>5. [z EXCEPT !.exit = y] = View(o, a, t, x, s, y)
    BY <2>4 DEF View
  <2> QED  BY <2>2, <2>5
<1>3. w.owed = o /\ w.asked = a /\ w.available = v /\ w.suicide = s
  BY DEF View
<1>4. /\ stops = (v /\ (s \/ overLimit)) /\ stays = (v /\ ~stops)
      /\ asks = (stays /\ ~a)
      /\ said = (IF stops THEN <<Contract!StopWork>>
                 ELSE IF asks THEN <<Contract!SendWork>> ELSE <<>>)
  BY Zenon DEF stopsWork, Stays, Asks, Said
<1> HIDE DEF stops, stays, asks, said
<1>5. Contract!AtEndSteps(w, overLimit) =
        IF o = {} /\ ~stays
          THEN {Contract!Step([w EXCEPT !.available = FALSE, !.exit = code], said)
                  : code \in Contract!RetireCodes(w)}
          ELSE {Contract!Step([w EXCEPT !.available = stays, !.asked = w.asked \/ asks], said)}
  <2>1. PICK b : b = (w.available /\ (w.suicide \/ overLimit))
    OBVIOUS
  <2>2. PICK y : y = (w.available /\ ~(w.available /\ (w.suicide \/ overLimit)))
    OBVIOUS
  <2>3. PICK q : q = (w.available /\ ~(w.available /\ (w.suicide \/ overLimit)) /\ ~w.asked)
    OBVIOUS
  <2>4. b = stops /\ y = stays /\ q = asks
    BY <1>3, <1>4, <2>1, <2>2, <2>3, Zenon
  <2>5. Contract!AtEndSteps(w, overLimit) =
          AtEndOf(w, y, q, IF b THEN <<Contract!StopWork>>
                           ELSE IF q THEN <<Contract!SendWork>> ELSE <<>>)
    BY <2>1, <2>2, <2>3, Zenon DEF Contract!AtEndSteps, AtEndOf
  <2>6. Contract!AtEndSteps(w, overLimit) = AtEndOf(w, stays, asks, said)
    BY <1>4, <2>4, <2>5, Zenon
  <2> QED  BY <2>6, <1>3 DEF AtEndOf
<1>6. ASSUME o = {}, ~stays, NEW code \in Contract!RetireCodes(w)
      PROVE  Contract!Step(View(o, a, t, FALSE, s, code), said)
               \in Contract!AtEndSteps(w, overLimit)
  <2>1. [w EXCEPT !.available = FALSE, !.exit = code] = View(o, a, t, FALSE, s, code)
    BY <1>2, Zenon
  <2> QED  BY <1>5, <1>6, <2>1, Zenon
<1>7. ASSUME ~(o = {} /\ ~stays)
      PROVE  Contract!Step(View(o, a \/ asks, t, stays, s, e), said)
               \in Contract!AtEndSteps(w, overLimit)
  <2>1. PICK y : y = (w.asked \/ asks)
    OBVIOUS
  <2>2. y = (a \/ asks)
    BY <1>3, <2>1, Zenon
  <2>3. [w EXCEPT !.available = stays, !.asked = y] = View(o, y, t, stays, s, e)
    BY <1>1, Zenon
  <2>4. [w EXCEPT !.available = stays, !.asked = w.asked \/ asks] = View(o, y, t, stays, s, e)
    BY <2>1, <2>3, Zenon
  <2> QED  BY <1>5, <1>7, <2>2, <2>4, Zenon
<1> QED  BY <1>6, <1>7, Zenon DEF stays, asks, said

\* Reporting a check takes its job, and only that, off what is owed.
LEMMA ReportedJob ==
  ASSUME RefInv, NEW check \in inflight
  PROVE  /\ check[2] \in owed
         /\ {arrCheck[i] : i \in DOMAIN arrCheck \ (processed \cup {check[1]})}
              = owed \ {check[2]}
<1>1. /\ check[1] \in DOMAIN arrCheck \ processed
      /\ check[2] = arrCheck[check[1]]
  BY CheckIsOpen DEF RefInv
<1>2. \A i, k \in DOMAIN arrCheck : arrCheck[i] = arrCheck[k] => i = k
  BY DEF RefInv, IsInjective
<1> QED  BY <1>1, <1>2 DEF owed, Unprocessed

LEMMA ContractStartNext ==
  ASSUME RefInv, exitCode = Alive, NEW check \in inflight, StartNext(check)
  PROVE  Contract!Next
<1> DEFINE j    == check[2]
           rest == [Seen EXCEPT !.owed = @ \ {j}]
           step == Contract!Step(rest, <<>>)
<1>1. /\ pointer < Len(arrCheck) /\ processed' = processed \cup {check[1]}
      /\ sent' = <<>> /\ UNCHANGED <<arrCheck, stateVars>>
  BY DEF StartNext
<1>2. j \in owed /\ owed' = owed \ {j}
  BY <1>1, ReportedJob DEF owed, Unprocessed
<1>3. owed' # {}
  <2>1. OpenPass /\ check[1] \in 1 .. pointer
    BY CheckIsOpen DEF RefInv
  <2>2. /\ pointer + 1 \in DOMAIN arrCheck \ (processed \cup {check[1]})
    BY <1>1, <2>1 DEF OpenPass, RefInv, IInv, TypeOK
  <2> QED  BY <1>1, <2>2 DEF owed, Unprocessed
<1>4. Seen' = rest
  <2>1. rest = View(owed \ {j}, askedForWork, askTimer, availableForWork, suicideSignal, exitCode)
    BY SeenUpdates, SeenFields, Zenon
  <2> QED  BY <1>1, <1>2, <2>1, SeenIsView, Zenon DEF stateVars
<1>5. rest.owed # {}
  BY <1>3, <1>4, Zenon DEF Seen
<1>6. step \in Contract!ReportSteps(Seen, j)
  BY <1>5, Zenon DEF Contract!ReportSteps
<1>7. step.worker = rest /\ step.msgs = <<>>
  BY DEF Contract!Step
<1> HIDE DEF rest, step, j
<1>8. Seen' = step.worker /\ sent' = step.msgs
  BY <1>1, <1>4, <1>7, Zenon
<1>9. Contract!Report(j)
  BY <1>6, <1>8, Zenon DEF Contract!Report, Contract!Take, Seen
<1>10. exitCode = Contract!Alive
  BY DEF Contract!Alive, Alive
<1> QED
  BY <1>2, <1>9, <1>10 DEF Contract!Next

LEMMA ContractAtEnd ==
  ASSUME RefInv, exitCode = Alive, NEW check \in inflight, NEW overLimit \in BOOLEAN,
         AtEnd(check, overLimit)
  PROVE  Contract!Next
<1> DEFINE j     == check[2]
           done  == processed \cup {check[1]}
           rest  == [Seen EXCEPT !.owed = @ \ {j}]
           stops == stopsWork(overLimit)
           stays == Stays(overLimit)
           asks  == Asks(overLimit)
           said  == Said(overLimit)
           left  == owed \ {j}
<1>1. /\ availableForWork' = (availableForWork /\ ~stops)
      /\ IF AllProcessed(done) /\ ~availableForWork' THEN RetireWithCode
                                                     ELSE UNCHANGED exitCode
      /\ FinishPass(done)
      /\ askedForWork' = (askedForWork \/ asksForWork(done))
      /\ sent' = IF stops THEN <<StopWork>>
                 ELSE IF asksForWork(done) THEN <<SendWork>> ELSE <<>>
      /\ UNCHANGED <<askTimer, suicideSignal>>
  BY DEF AtEnd
<1>2. availableForWork' = stays /\ asksForWork(done) = asks
  BY <1>1, Zenon DEF asksForWork, Stays, Asks
<1>3. /\ j \in owed
      /\ {arrCheck[i] : i \in DOMAIN arrCheck \ done} = left
  BY ReportedJob, Zenon
<1>4. AllProcessed(done) <=> left = {}
  BY <1>3 DEF AllProcessed
<1>5. owed' = left
  <2>1. CASE AllProcessed(done) /\ availableForWork'
    <3>1. arrCheck' = <<>>
      BY <1>1, <2>1, Zenon DEF FinishPass
    <3> QED  BY <1>4, <2>1, <3>1 DEF owed, Unprocessed
  <2>2. CASE ~(AllProcessed(done) /\ availableForWork')
    <3>1. arrCheck' = arrCheck /\ processed' = done
      BY <1>1, <2>2, Zenon DEF FinishPass
    <3> QED  BY <1>3, <3>1 DEF owed, Unprocessed
  <2> QED  BY <2>1, <2>2, Zenon
<1>6. rest = View(left, askedForWork, askTimer, availableForWork, suicideSignal, exitCode)
  BY SeenUpdates, SeenFields, Zenon
<1>7. /\ askedForWork \in BOOLEAN /\ availableForWork \in BOOLEAN /\ suicideSignal \in BOOLEAN
  BY DEF RefInv, IInv, TypeOK
<1>8. sent' = said
  BY <1>1, <1>2, Zenon DEF Said, StopWork, SendWork, Contract!StopWork, Contract!SendWork
<1>9. rest.suicide = suicideSignal
  BY DEF Seen
<1>10. /\ stays = (availableForWork /\ ~stops)
       /\ asks = (stays /\ ~askedForWork)
  BY Zenon DEF Stays, Asks
<1>11. IF left = {} /\ ~stays THEN RetireWithCode ELSE exitCode' = exitCode
  <2>1. CASE AllProcessed(done) /\ ~availableForWork'
    BY <1>1, <1>2, <1>4, <2>1, Zenon
  <2>2. CASE ~(AllProcessed(done) /\ ~availableForWork')
    BY <1>1, <1>2, <1>4, <2>2, Zenon
  <2> QED  BY <2>1, <2>2, Zenon
<1> HIDE DEF rest, stops, stays, asks, said, left, j, done
<1>12. Contract!Step(Seen', sent') \in Contract!AtEndSteps(rest, overLimit)
  <2>1. /\ left = {} /\ ~stays =>
             \A code \in Contract!RetireCodes(rest) :
               Contract!Step(View(left, askedForWork, askTimer, FALSE, suicideSignal, code), said)
                 \in Contract!AtEndSteps(rest, overLimit)
        /\ ~(left = {} /\ ~stays) =>
             Contract!Step(View(left, askedForWork \/ asks, askTimer, stays, suicideSignal, exitCode), said)
               \in Contract!AtEndSteps(rest, overLimit)
    BY <1>6, AtEndView, Zenon DEF RefInv, IInv, stays, asks, said
  <2>2. CASE left = {} /\ ~stays
    <3>1. exitCode' \in Contract!RetireCodes(rest)
      BY <1>11, <1>9, <2>2, Zenon
         DEF RetireWithCode, Contract!RetireCodes, SUICIDE_SIGNAL, EXIT_MAXRAMUSAGE, EXIT_MAXCHECKS,
             Contract!SUICIDE_SIGNAL, Contract!EXIT_MAXRAMUSAGE, Contract!EXIT_MAXCHECKS
    <3>2. askedForWork' = askedForWork /\ availableForWork' = FALSE
      <4>1. availableForWork' = FALSE
        BY <1>2, <1>10, <2>2, Zenon
      <4>2. asks = FALSE
        BY <1>10, <2>2, Zenon
      <4>3. (askedForWork \/ FALSE) = askedForWork
        BY <1>7, Zenon
      <4> QED  BY <1>1, <1>2, <4>1, <4>2, <4>3, Zenon
    <3>3. Seen' = View(left, askedForWork, askTimer, FALSE, suicideSignal, exitCode')
      BY <1>1, <1>5, <3>2, SeenIsView, Zenon
    <3> QED  BY <1>8, <2>1, <2>2, <3>1, <3>3, Zenon
  <2>3. CASE ~(left = {} /\ ~stays)
    <3>1. exitCode' = exitCode
      BY <1>11, <2>3, Zenon
    <3>2. Seen' = View(left, askedForWork \/ asks, askTimer, stays, suicideSignal, exitCode)
      BY <1>1, <1>2, <1>5, <3>1, SeenIsView, Zenon
    <3> QED  BY <1>8, <2>1, <2>3, <3>2, Zenon
  <2> QED  BY <2>2, <2>3, Zenon
<1>13. Contract!Step(Seen', sent') \in Contract!ReportSteps(Seen, j)
  BY <1>12, Zenon DEF Contract!ReportSteps, rest
<1>14. /\ Contract!Step(Seen', sent').worker = Seen'
       /\ Contract!Step(Seen', sent').msgs = sent'
  BY DEF Contract!Step
<1>15. Contract!Report(j)
  BY <1>13, <1>14, Zenon DEF Contract!Report, Contract!Take, Seen
<1>16. exitCode = Contract!Alive
  BY DEF Contract!Alive, Alive
<1> QED
  BY <1>3, <1>15, <1>16 DEF Contract!Next

\* Every step maps to a step of the contract or to a stutter.
LEMMA ContractStep ==
  ASSUME RefInv, [Next]_vars
  PROVE  Contract!Next \/ UNCHANGED <<Seen, sent>>
<1>1. ASSUME NEW batch \in Batches, QueueAdd(batch) PROVE Contract!Next
  BY <1>1, ContractQueueAdd
<1>2. CASE Evaporate
  BY <1>2, ContractEvaporate
<1>3. CASE CheckServers
  BY <1>3, ContractCheckServers
<1>4. CASE AskTimer
  BY <1>4, ContractAskTimer
<1>5. CASE SendStats
  BY <1>5, ContractSendStats
<1>6. ASSUME NEW check \in inflight, Callback(check) PROVE Contract!Next
  BY <1>6, ContractStartNext, ContractAtEnd DEF Callback
<1>7. CASE UNCHANGED vars
  BY <1>7 DEF vars, queueVars, stateVars, Seen, owed, Unprocessed
<1> QED  BY <1>1, <1>2, <1>3, <1>4, <1>5, <1>6, <1>7 DEF Next

(***************************************************************************)
(* The worker implements its contract (WorkerContract.tla), whatever the   *)
(* order its callbacks arrive in, and whatever is appended to the queue of *)
(* a running pass: processResultsCallback reports one job it owes, asks    *)
(* for work and retires when, and only when, the contract allows it.       *)
(***************************************************************************)
THEOREM WorkerKeepsContract == Spec => ImplementsContract
<1>1. Init => IInv /\ IsInjective(arrCheck)
  BY InitInv DEF Init, IsInjective
<1>2. IInv /\ IsInjective(arrCheck) /\ [Next]_vars => IInv' /\ IsInjective(arrCheck)'
  BY StepInv, NoJobTwiceStep
<1>3. IInv /\ IsInjective(arrCheck) /\ [Next]_vars => [Contract!Next]_<<Seen, sent>>
  BY ContractStep DEF RefInv
<1>4. Spec => Contract!Init /\ [][Contract!Next]_<<Seen, sent>>
  BY <1>1, <1>2, <1>3, ContractInit, PTL DEF Spec
<1> QED  BY <1>4 DEF ImplementsContract, Contract!Spec, Seen
=============================================================================
