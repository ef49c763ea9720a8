--------------------------- MODULE WorkerProtocol ---------------------------
(***************************************************************************)
(* The protocol between a jetmon-worker process (lib/httpcheck.js) and the *)
(* master, as operators on one worker.  A worker is a record of what the   *)
(* master can tell apart: the jobs it owes a result for and its flags.  An *)
(* operation is an operator from a worker to the steps that may follow: a  *)
(* step is the worker it leaves and the control messages it sends.         *)
(*                                                                         *)
(* WorkerContract.tla makes a specification of one worker out of these     *)
(* operators, and WorkerPool.tla a pool of them.                           *)
(***************************************************************************)
EXTENDS Naturals, Sequences, FiniteSets

CONSTANT Job      \* the server objects the master sends to be checked

(***************************************************************************)
(* Exit codes of httpcheck.js.  Alive stands for a process still running.  *)
(***************************************************************************)
Alive            == 0
SUICIDE_SIGNAL   == 1
EXIT_MAXRAMUSAGE == 2
EXIT_MAXCHECKS   == 3
ExitCode         == {Alive, SUICIDE_SIGNAL, EXIT_MAXRAMUSAGE, EXIT_MAXCHECKS}

(***************************************************************************)
(* Control messages from a worker to the master.  The `stats' message      *)
(* carries the part of the queue not yet started, the only figure of it    *)
(* the master acts upon.                                                   *)
(***************************************************************************)
SendWork    == [msgtype |-> "send_work"]
StopWork    == [msgtype |-> "stop_work"]
Stats(left) == [msgtype |-> "stats", left |-> left]

ControlMsg == {SendWork, StopWork} \cup [msgtype : {"stats"}, left : Nat]

WorkerState == [owed      : SUBSET Job,   \* accepted, result not yet reported
                asked     : BOOLEAN,      \* askedForWork
                askTimer  : BOOLEAN,      \* the start-up request is pending
                available : BOOLEAN,      \* availableForWork
                suicide   : BOOLEAN,      \* suicideSignal
                exit      : ExitCode]

FreshWorker == [owed |-> {}, asked |-> FALSE, askTimer |-> TRUE,
                available |-> TRUE, suicide |-> FALSE, exit |-> Alive]

-----------------------------------------------------------------------------
(***************************************************************************)
(* Messages from the master.                                               *)
(***************************************************************************)
\* Mutant of AfterQueueAdd: the flag of the request it answers is not reset.
AfterQueueAddKeepsAsked(w, jobs) == [w EXCEPT !.owed = @ \cup jobs]

AfterQueueAdd(w, jobs) == [w EXCEPT !.owed = @ \cup jobs, !.asked = FALSE]

AfterEvaporate(w) ==
  IF w.owed = {} THEN [w EXCEPT !.exit = SUICIDE_SIGNAL]
                 ELSE [w EXCEPT !.suicide = TRUE]

(***************************************************************************)
(* A step of the worker's own: the worker it leaves and what it sends.     *)
(***************************************************************************)
Step(w, msgs) == [worker |-> w, msgs |-> msgs]

AfterAskTimer(w) ==
  Step([w EXCEPT !.askTimer = FALSE, !.asked = TRUE], <<SendWork>>)

StatsSteps(w) == {Step(w, <<Stats(n)>>) : n \in 0 .. Cardinality(w.owed)}

(***************************************************************************)
(* The worker reported the last job it had not started.  It may decide to  *)
(* retire (it was told to, or is over a limit), and leaves once it owes    *)
(* nothing; an available worker asks for more unless it already has.       *)
(***************************************************************************)
RetireCodes(w) ==
  IF w.suicide THEN {SUICIDE_SIGNAL} ELSE {EXIT_MAXRAMUSAGE, EXIT_MAXCHECKS}

AtEndSteps(w, overLimit) ==
  LET stops == w.available /\ (w.suicide \/ overLimit)
      stays == w.available /\ ~stops
      asks  == stays /\ ~w.asked
      said  == IF stops THEN <<StopWork>> ELSE IF asks THEN <<SendWork>> ELSE <<>>
  IN  IF w.owed = {} /\ ~stays
        THEN {Step([w EXCEPT !.available = FALSE, !.exit = code], said)
                : code \in RetireCodes(w)}
        ELSE {Step([w EXCEPT !.available = stays, !.asked = @ \/ asks], said)}

(***************************************************************************)
(* Reporting job j.  Either a queued job takes its place, in silence, or   *)
(* every job the worker holds has been started.                            *)
(***************************************************************************)
ReportSteps(w, j) ==
  LET rest == [w EXCEPT !.owed = @ \ {j}]
  IN  {s \in {Step(rest, <<>>)} : rest.owed # {}}
        \cup UNION {AtEndSteps(rest, overLimit) : overLimit \in BOOLEAN}
=============================================================================
