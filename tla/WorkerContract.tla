--------------------------- MODULE WorkerContract ---------------------------
(***************************************************************************)
(* What one jetmon-worker process promises, its master being the           *)
(* environment: the array of checks, its read pointer, the timer of the    *)
(* check loop and the calls into the native checker are hidden.            *)
(* Worker.tla implements this specification.                               *)
(***************************************************************************)
EXTENDS WorkerProtocol

VARIABLES worker,   \* the worker
          sent      \* the control messages its last step sent

Init == worker = FreshWorker /\ sent = <<>>

Take(step) == worker' = step.worker /\ sent' = step.msgs

QueueAdd(jobs) == Take(Step(AfterQueueAdd(worker, jobs), <<>>))
Evaporate      == Take(Step(AfterEvaporate(worker), <<>>))
AskTimer       == worker.askTimer /\ Take(AfterAskTimer(worker))
SendStats      == \E step \in StatsSteps(worker) : Take(step)
Report(j)      == \E step \in ReportSteps(worker, j) : Take(step)
Hidden         == Take(Step(worker, <<>>))

Next ==
  /\ worker.exit = Alive
  /\ \/ \E jobs \in SUBSET (Job \ worker.owed) : jobs # {} /\ QueueAdd(jobs)
     \/ Evaporate
     \/ AskTimer
     \/ SendStats
     \/ \E j \in worker.owed : Report(j)
     \/ Hidden

Spec == Init /\ [][Next]_<<worker, sent>>
=============================================================================
