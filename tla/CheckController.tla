--------------------------- MODULE CheckController ---------------------------
(***************************************************************************)
(* The check controller of a veriflier (veriflier/source): the client      *)
(* threads that bring the checks jetmon servers ask for, the queue of      *)
(* checks, the runners they are spread over, and the posts that carry the  *)
(* results back.                                                           *)
(*                                                                         *)
(* Two kinds of threads: client threads, one of which at a time holds      *)
(* m_check_lock and adds its checks; and the main thread, where every slot *)
(* runs and every HTTP_Checker lives (the runners' own threads are idle).  *)
(* The signal startCheck is queued when a client thread emits it, to be    *)
(* handled later and without the lock; when the main thread emits it, its  *)
(* slot runs at once.                                                      *)
(*                                                                         *)
(* Assumed of Qt: a socket reports from the event loop, never from within  *)
(* the call that opens it, so no check ends in the slot that starts it.    *)
(*                                                                         *)
(* A HealthCheck is one allocated object, made of one element of one       *)
(* request: two of them may be about the same site.  Left out: JSON,       *)
(* headers, and counters kept for the log.  Runners count from 0.          *)
(***************************************************************************)
EXTENDS Integers, Sequences, FiniteSets, SequencesExt, Functions

CONSTANTS Site,          \* blog_id and monitor_url
          JetmonServer,  \* addresses requests come from
          HealthCheck,   \* the checks requested in a run
          site,          \* site[hc]: its blog_id and monitor_url
          jetmon_server, \* jetmon_server[hc]: where its request came from
          MAX_RUNNERS,   \* config: max_runners
          MAX_CHECKS,    \* config: max_checks, per runner
          MaxBatch       \* bound: checks in one request

ASSUME CheckAssumption   == /\ site \in [HealthCheck -> Site]
                            /\ jetmon_server \in [HealthCheck -> JetmonServer]
ASSUME RunnersAssumption == MAX_RUNNERS \in Nat \ {0} /\ MAX_CHECKS \in Nat \ {0}
ASSUME BatchAssumption   == MaxBatch \in Nat \ {0}

NOT_ASSIGNED == -1
PRE_ASSIGNED == -2
Runner       == 0 .. MAX_RUNNERS - 1
Limit        == MAX_RUNNERS * MAX_CHECKS

VARIABLES
  requested,     \* the HealthChecks allocated so far
  adding,        \* what the client thread that holds the lock has yet to add
  m_checks,      \* the queue
  thread_index,  \* of each HealthCheck: a runner, or one of the two marks
  signals,       \* startCheck signals not yet handled
  m_checking,    \* checks started and not finished ...
  checking,      \* ... and the same by runner
  running,       \* HealthChecks with an HTTP_Checker at work
  results,       \* m_check_results: HealthChecks whose result is to be sent
  sending        \* posts under way: sets of HealthChecks of one server

vars == <<requested, adding, m_checks, thread_index, signals, m_checking, checking,
          running, results, sending>>

Locked == adding # <<>>

Init ==
  /\ requested = {} /\ adding = <<>> /\ m_checks = <<>>
  /\ thread_index = [hc \in HealthCheck |-> NOT_ASSIGNED]
  /\ signals = <<>> /\ m_checking = 0 /\ checking = [r \in Runner |-> 0]
  /\ running = {} /\ results = {} /\ sending = {}

-----------------------------------------------------------------------------
(***************************************************************************)
(* Client threads.                                                         *)
(***************************************************************************)
\* The checks of one request, in some order.
Batches == UNION {Injection(1 .. n, HealthCheck \ requested) : n \in 1 .. MaxBatch}

\* A request has been read: its checks are allocated, and the lock taken.
addChecks(batch) ==
  /\ ~Locked
  /\ \A i, j \in DOMAIN batch : jetmon_server[batch[i]] = jetmon_server[batch[j]]
  /\ requested' = requested \cup Range(batch)
  /\ adding' = batch
  /\ UNCHANGED <<m_checks, thread_index, signals, m_checking, checking, running,
                 results, sending>>

\* Mutant of haveCheck: another server's check of the site does not count.
haveCheckOfServer(hc) ==
  \E h \in ToSet(m_checks) : site[h] = site[hc] /\ jetmon_server[h] = jetmon_server[hc]

haveCheck(hc) == \E h \in ToSet(m_checks) : site[h] = site[hc]

\* m_checking is read while the main thread may be about to increment it.  A
\* check of a site in the queue is dropped (and its memory never freed).
addCheck ==
  /\ Locked
  /\ LET hc == Head(adding)
     IN  IF haveCheck(hc)
           THEN UNCHANGED <<m_checks, thread_index, signals>>
           ELSE /\ m_checks' = Append(m_checks, hc)
                /\ IF m_checking < Limit
                     THEN /\ thread_index' = [thread_index EXCEPT ![hc] = PRE_ASSIGNED]
                          /\ signals' = Append(signals, hc)
                     ELSE UNCHANGED <<thread_index, signals>>
  /\ adding' = Tail(adding)
  /\ UNCHANGED <<requested, m_checking, checking, running, results, sending>>

-----------------------------------------------------------------------------
(***************************************************************************)
(* The main thread.  start(hc, ...) is the slot startChecking, applied to  *)
(* the counters as its caller leaves them.                                 *)
(***************************************************************************)
\* The least loaded runner below max_checks, the first of them; else the first.
selectRunner(load) ==
  LET free == {r \in Runner : load[r] < MAX_CHECKS}
      best == {r \in free : \A s \in free : load[r] <= load[s]}
  IN  IF free = {} THEN 0 ELSE CHOOSE r \in best : \A s \in best : r <= s

start(hc, started, load, runs) ==
  LET runner == selectRunner(load)
  IN  /\ m_checking' = started + 1
      /\ checking' = [load EXCEPT ![runner] = @ + 1]
      /\ thread_index' = [thread_index EXCEPT ![hc] = runner]
      /\ running' = runs \cup {hc}

\* The queued signal, handled without the lock.
startChecking ==
  /\ signals # <<>>
  /\ start(Head(signals), m_checking, checking, running)
  /\ signals' = Tail(signals)
  /\ UNCHANGED <<requested, adding, m_checks, results, sending>>

\* Mutant of Released: the runner keeps the check on its account.
ReleasedByTotal(runner) == checking

Released(runner) == [checking EXCEPT ![runner] = @ - 1]

\* Mutants of Waiting: the next check is not looked for; one less than the
\* runners could take is enough.
WaitingForTick(started, queue)  == {}
WaitingWithSlack(started, queue) ==
  {h \in ToSet(queue) : started + 1 < Limit /\ thread_index[h] = NOT_ASSIGNED}

\* Checks of the queue that are to be started, if the runners have room.
Waiting(started, queue) ==
  {h \in ToSet(queue) : started < Limit /\ thread_index[h] = NOT_ASSIGNED}

FirstOf(queue, set) == SelectInSeq(queue, LAMBDA h : h \in set)

\* A checker is done, answered or timed out: its entry, found by the site, is
\* removed and freed, and the first waiting check takes its place.
finishedChecking(hc) ==
  /\ hc \in running /\ ~Locked
  /\ LET at    == SelectInSeq(m_checks, LAMBDA h : site[h] = site[hc])
         queue == RemoveAt(m_checks, at)
         load  == Released(thread_index[hc])
         runs  == running \ {hc}
         next  == Waiting(m_checking - 1, queue)
     IN  /\ at # 0
         /\ m_checks' = queue
         /\ results' = results \cup {m_checks[at]}
         /\ IF next = {}
              THEN /\ m_checking' = m_checking - 1
                   /\ checking' = load /\ running' = runs
                   /\ UNCHANGED thread_index
              ELSE start(queue[FirstOf(queue, next)], m_checking - 1, load, runs)
  /\ UNCHANGED <<requested, adding, signals, sending>>

\* The results of each server go in one post.
Taken == {{h \in results : jetmon_server[h] = s} : s \in JetmonServer} \ {{}}

\* Every five seconds: the results are taken under the lock, then posted.
ticked ==
  /\ results # {} /\ ~Locked
  /\ results' = {}
  /\ sending' = sending \cup Taken
  /\ UNCHANGED <<requested, adding, m_checks, thread_index, signals, m_checking,
                 checking, running>>

\* Whether a post succeeded is only logged.
finishedSending(post) ==
  /\ sending' = sending \ {post}
  /\ UNCHANGED <<requested, adding, m_checks, thread_index, signals, m_checking,
                 checking, running, results>>

-----------------------------------------------------------------------------
finishSome == \E hc \in running : finishedChecking(hc)

Next ==
  \/ \E batch \in Batches : addChecks(batch)
  \/ addCheck
  \/ startChecking
  \/ finishSome
  \/ ticked
  \/ \E post \in sending : finishedSending(post)

Spec == Init /\ [][Next]_vars

(***************************************************************************)
(* Threads run, queued signals are handled, the ticker fires, and every    *)
(* HTTP_Checker has a timer that ends it (as many as are started, so it is *)
(* enough that some of those at work end).                                 *)
(***************************************************************************)
Fairness ==
  /\ WF_vars(addCheck) /\ WF_vars(startChecking) /\ WF_vars(ticked)
  /\ WF_vars(finishSome)

FairSpec == Spec /\ Fairness

-----------------------------------------------------------------------------
RunsOn(r) == {h \in running : thread_index[h] = r}

(***************************************************************************)
(* Type correctness; the counters, which two threads read, are those of    *)
(* the checks at work; and no runner but the first is overloaded by checks *)
(* added faster than their signals are handled.                            *)
(***************************************************************************)
TypeOK ==
  /\ adding \in Seq(requested) /\ m_checks \in Seq(requested)
  /\ signals \in Seq(requested) /\ running \cup results \subseteq requested
  /\ requested \subseteq HealthCheck /\ sending \subseteq SUBSET requested
  /\ thread_index \in [HealthCheck -> Runner \cup {NOT_ASSIGNED, PRE_ASSIGNED}]
  /\ m_checking = Cardinality(running)
  /\ \A r \in Runner : checking[r] = Cardinality(RunsOn(r))
  /\ \A r \in Runner \ {0} : checking[r] <= MAX_CHECKS

(***************************************************************************)
(* A finished check frees the entry found by its site.  Whatever holds a   *)
(* pointer to a HealthCheck - a queued signal, an HTTP_Checker - holds one *)
(* that is still in the queue, and the entry freed is the one that ends.   *)
(***************************************************************************)
NoDanglingCheck ==
  /\ ToSet(signals) \cup running \subseteq ToSet(m_checks)
  /\ \A h, g \in ToSet(m_checks) : site[h] = site[g] => h = g

(***************************************************************************)
(* A check is left waiting only while the runners are full: m_checking is  *)
(* read before the signals that raise it are handled, but never so that a  *)
(* check stays behind with nothing left to start it.                       *)
(***************************************************************************)
WaitsOnlyWhenFull ==
  \A h \in ToSet(m_checks) : thread_index[h] = NOT_ASSIGNED => m_checking >= Limit

(***************************************************************************)
(* The result of every check that enters the queue is posted, in time, to  *)
(* the server that asked for it.                                           *)
(***************************************************************************)
EveryCheckAnswered ==
  \A hc \in HealthCheck :
    hc \in ToSet(m_checks) ~>
      \E post \in sending : hc \in post /\ \A h \in post : jetmon_server[h] = jetmon_server[hc]

(***************************************************************************)
(* The controller does what a veriflier promises.                          *)
(***************************************************************************)
Unsent == [s \in Site |-> Cardinality({h \in results \cup UNION sending : site[h] = s})]

Promise == INSTANCE Veriflier WITH
  pending <- {site[h] : h \in ToSet(m_checks)}, replies <- Unsent

ImplementsVeriflier == Promise!Spec
=============================================================================
