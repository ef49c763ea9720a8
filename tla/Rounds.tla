------------------------------- MODULE Rounds -------------------------------
(***************************************************************************)
(* How the master sweeps over the buckets of jetpack_monitor_sites: the    *)
(* cursor of getNextBatch (lib/database.js) and the loop of getMoreSites,  *)
(* the round timer and the DEBUG restart that drive it (lib/jetmon.js).    *)
(* A query is outstanding while the database works on it; the code lets    *)
(* several be, so they are kept as a sequence and answered in any order.   *)
(*                                                                         *)
(* Abstracted: the rows themselves to none / some, time to the order in    *)
(* which timers fire, the workers to a request made when work runs out.    *)
(***************************************************************************)
EXTENDS Integers, SequencesExt

CONSTANTS BUCKET_NO_MIN, BUCKET_NO_MAX, BATCH_SIZE,  \* config
          MaxErrors,    \* bound: queries that fail
          MaxThrows,    \* bound: queries whose reload of the configuration throws
          MaxRestarts   \* bound: DEBUG restarts of a loop that is merely late

ASSUME ConfigAssumption ==
  /\ BUCKET_NO_MIN \in Nat /\ BUCKET_NO_MAX \in Nat /\ BATCH_SIZE \in Nat \ {0}
  /\ BUCKET_NO_MIN <= BUCKET_NO_MAX
ASSUME BoundsAssumption ==
  MaxErrors \in Nat /\ MaxThrows \in Nat /\ MaxRestarts \in Nat

VARIABLES
  debug,          \* config: DEBUG
  fromBucketNo,   \* the first bucket of the next query
  toBucketNo,     \* the last bucket of the next query
  endOfRound,     \* the cursor wrapped around
  gettingSites,   \* a fetch is believed to be under way
  queries,        \* queries the database has not answered
  roundTimers,    \* timers set to start the next round
  restartTimer,   \* the DEBUG restart is scheduled
  asked,          \* history: a query has been made
  visits,         \* history: how often this sweep queried each bucket, up to 2
  errors,         \* queries that failed so far
  throws,         \* queries that were not made because execQuery threw
  restarts        \* late restarts so far

vars == <<debug, fromBucketNo, toBucketNo, endOfRound, gettingSites, queries,
          roundTimers, restartTimer, asked, visits, errors, throws, restarts>>

Bucket  == BUCKET_NO_MIN .. BUCKET_NO_MAX
NoVisit == [b \in Bucket |-> 0]

\* The first batch is not held against BUCKET_NO_MAX.
Init ==
  /\ debug \in BOOLEAN
  /\ fromBucketNo = BUCKET_NO_MIN
  /\ toBucketNo = BUCKET_NO_MIN + BATCH_SIZE - 1
  /\ endOfRound = FALSE /\ gettingSites = FALSE
  /\ queries = <<>> /\ roundTimers = 0 /\ restartTimer = FALSE
  /\ asked = FALSE /\ visits = NoVisit
  /\ errors = 0 /\ throws = 0 /\ restarts = 0

-----------------------------------------------------------------------------
(***************************************************************************)
(* The cursor.                                                             *)
(***************************************************************************)
\* Mutants of NextFrom and BatchEnd: the cursor steps over a bucket; the end
\* of a batch is not clamped to the range.
NextFromSkips == LET next == fromBucketNo + BATCH_SIZE + 1
                 IN  IF next >= BUCKET_NO_MAX THEN BUCKET_NO_MIN ELSE next
BatchEndUnclamped(first) == first + BATCH_SIZE - 1

NextFrom == LET next == fromBucketNo + BATCH_SIZE
            IN  IF next >= BUCKET_NO_MAX THEN BUCKET_NO_MIN ELSE next

BatchEnd(first) == LET last == first + BATCH_SIZE - 1
                   IN  IF last > BUCKET_NO_MAX THEN BUCKET_NO_MAX ELSE last

Visited(seen) ==
  [b \in Bucket |-> IF b \in fromBucketNo .. toBucketNo /\ seen[b] < 2
                      THEN seen[b] + 1 ELSE seen[b]]

(***************************************************************************)
(* The query is sent, and the cursor moves on before it is answered.  Or   *)
(* execQuery throws, when the configuration to be reloaded cannot be read: *)
(* then no query is made, the cursor stays, and getMoreSites, which is     *)
(* left with it, has not assigned endOfRound.  The try of                  *)
(* workerMsgCallback or the handler of uncaught exceptions swallows it.    *)
(***************************************************************************)
QueryMade(pending, seen) ==
  /\ queries' = Append(pending, [first |-> fromBucketNo, last |-> toBucketNo,
                                 initial |-> ~asked])
  /\ asked' = TRUE
  /\ visits' = Visited(seen)
  /\ fromBucketNo' = NextFrom
  /\ toBucketNo' = BatchEnd(NextFrom)
  /\ endOfRound' = (BUCKET_NO_MIN = NextFrom)
  /\ UNCHANGED throws

ReloadThrows(pending, seen) ==
  /\ throws < MaxThrows /\ throws' = throws + 1
  /\ queries' = pending /\ visits' = seen /\ endOfRound' = FALSE
  /\ UNCHANGED <<asked, fromBucketNo, toBucketNo>>

getNextBatch(pending, seen) == QueryMade(pending, seen) \/ ReloadThrows(pending, seen)

\* Mutants of getMoreSites: the fetch is not flagged; the round is not paced.
getMoreSitesUnflagged(ended, pending, timers, seen) ==
  /\ UNCHANGED gettingSites
  /\ IF ended
       THEN /\ roundTimers' = timers + 1
            /\ queries' = pending /\ visits' = seen /\ endOfRound' = TRUE
            /\ UNCHANGED <<asked, fromBucketNo, toBucketNo, throws>>
       ELSE /\ roundTimers' = timers
            /\ getNextBatch(pending, seen)
getMoreSitesUnpaced(ended, pending, timers, seen) ==
  /\ gettingSites' = TRUE
  /\ roundTimers' = timers
  /\ getNextBatch(pending, seen)

\* With the queries, timers and visits that the caller leaves.
getMoreSites(ended, pending, timers, seen) ==
  /\ gettingSites' = TRUE
  /\ IF ended
       THEN /\ roundTimers' = timers + 1
            /\ queries' = pending /\ visits' = seen /\ endOfRound' = TRUE
            /\ UNCHANGED <<asked, fromBucketNo, toBucketNo, throws>>
       ELSE /\ roundTimers' = timers
            /\ getNextBatch(pending, seen)

-----------------------------------------------------------------------------
(***************************************************************************)
(* Steps.                                                                  *)
(***************************************************************************)
\* A worker asks for work and none is queued.
SendWork ==
  /\ ~gettingSites
  /\ getMoreSites(endOfRound, queries, roundTimers, visits)
  /\ UNCHANGED <<debug, restartTimer, errors, restarts>>

QueryReturns(i) ==
  /\ queries' = RemoveAt(queries, i)
  /\ gettingSites' = FALSE
  /\ UNCHANGED <<debug, fromBucketNo, toBucketNo, endOfRound, roundTimers,
                 restartTimer, asked, visits, errors, throws, restarts>>

QueryReturnsNothing(i) ==
  /\ getMoreSites(endOfRound, RemoveAt(queries, i), roundTimers, visits)
  /\ UNCHANGED <<debug, restartTimer, errors, restarts>>

\* The cursor is set back; nobody is told.
QueryFails(i) ==
  /\ errors < MaxErrors /\ errors' = errors + 1
  /\ queries' = RemoveAt(queries, i)
  /\ fromBucketNo' = fromBucketNo - BATCH_SIZE
  /\ toBucketNo' = toBucketNo - BATCH_SIZE
  /\ UNCHANGED <<debug, endOfRound, gettingSites, roundTimers, restartTimer,
                 asked, visits, throws, restarts>>

\* Mutants of RoundTimer: it fires without having been set; endOfRound is not
\* reset.
RoundTimerUnarmed ==
  /\ getMoreSites(FALSE, queries, roundTimers - 1, NoVisit)
  /\ UNCHANGED <<debug, restartTimer, errors, restarts>>
RoundTimerWithoutReset ==
  /\ roundTimers > 0
  /\ getMoreSites(endOfRound, queries, roundTimers - 1, NoVisit)
  /\ UNCHANGED <<debug, restartTimer, errors, restarts>>

\* resetVariables and getMoreSites.
RoundTimer ==
  /\ roundTimers > 0
  /\ getMoreSites(FALSE, queries, roundTimers - 1, NoVisit)
  /\ UNCHANGED <<debug, restartTimer, errors, restarts>>

(***************************************************************************)
(* In DEBUG mode, updateStats restarts a loop that is 20 seconds late.  No *)
(* timer is pending then: it would have fired when the round was due.  A   *)
(* loop that has stalled is late sooner or later.                          *)
(***************************************************************************)
Stalled == gettingSites /\ queries = <<>> /\ roundTimers = 0 /\ ~restartTimer

DebugRestart ==
  /\ debug /\ roundTimers = 0 /\ ~restartTimer
  /\ \/ Stalled /\ UNCHANGED restarts
     \/ ~Stalled /\ restarts < MaxRestarts /\ restarts' = restarts + 1
  /\ restartTimer' = TRUE
  /\ endOfRound' = FALSE /\ visits' = NoVisit
  /\ UNCHANGED <<debug, fromBucketNo, toBucketNo, gettingSites, queries,
                 roundTimers, asked, errors, throws>>

RestartTimer ==
  /\ restartTimer /\ restartTimer' = FALSE
  /\ getMoreSites(endOfRound, queries, roundTimers, visits)
  /\ UNCHANGED <<debug, errors, restarts>>

Next ==
  \/ SendWork
  \/ \E i \in DOMAIN queries : QueryReturns(i) \/ QueryReturnsNothing(i) \/ QueryFails(i)
  \/ RoundTimer
  \/ DebugRestart
  \/ RestartTimer

Spec == Init /\ [][Next]_vars

(***************************************************************************)
(* Workers ask when they run out of work (FetchingContinues in             *)
(* WorkerPool.tla), the database answers the oldest query sooner or later, *)
(* timers fire, and a stalled loop ends up late.  A failure is an answer,  *)
(* but neither it nor a throw must ever come.                              *)
(***************************************************************************)
FairSpec ==
  /\ Spec
  /\ WF_vars(SendWork)
  /\ WF_vars(queries # <<>> /\ (QueryReturns(1) \/ QueryReturnsNothing(1)))
  /\ WF_vars(RoundTimer)
  /\ WF_vars(Stalled /\ DebugRestart)
  /\ WF_vars(RestartTimer)

-----------------------------------------------------------------------------
Query == [first : Int, last : Int, initial : BOOLEAN]

TypeOK ==
  /\ debug \in BOOLEAN /\ endOfRound \in BOOLEAN
  /\ gettingSites \in BOOLEAN /\ restartTimer \in BOOLEAN /\ asked \in BOOLEAN
  /\ fromBucketNo \in Int /\ toBucketNo \in Int
  /\ queries \in Seq(Query)
  /\ roundTimers \in Nat
  /\ errors \in Nat /\ throws \in Nat /\ restarts \in Nat
  /\ visits \in [Bucket -> 0 .. 2]

(***************************************************************************)
(* Without DEBUG there is one loop, whatever the database does: at most    *)
(* one query or round timer is outstanding, and always one while the       *)
(* master believes so, unless a query has failed or execQuery has thrown.  *)
(***************************************************************************)
SingleLoop ==
  ~debug =>
    /\ Len(queries) + roundTimers <= 1
    /\ Len(queries) + roundTimers = 1 => gettingSites
    /\ gettingSites => Len(queries) + roundTimers = 1 \/ errors > 0 \/ throws > 0

(***************************************************************************)
(* A sweep queries the buckets in order, each of them once: those before   *)
(* the cursor have been queried, those from it on have not, and when the   *)
(* round ends all have been, BUCKET_NO_MAX perhaps excepted.               *)
(***************************************************************************)
EachBucketOncePerSweep ==
  ~debug /\ errors = 0 =>
    \A b \in BUCKET_NO_MIN .. BUCKET_NO_MAX - 1 :
      visits[b] = IF endOfRound \/ b < fromBucketNo THEN 1 ELSE 0

(***************************************************************************)
(* Hosts own disjoint ranges of buckets: without errors no query but the   *)
(* first of the process leaves the configured range, not even when DEBUG   *)
(* runs several loops; and the first leaves it only past BUCKET_NO_MAX,    *)
(* by no more than a batch.                                                *)
(***************************************************************************)
QueriesStayInRange ==
  errors = 0 => \A i \in DOMAIN queries : LET q == queries[i] IN
    /\ q.first \in Bucket /\ q.first <= q.last
    /\ q.last > BUCKET_NO_MAX =>
         q.initial /\ q.last = BUCKET_NO_MIN + BATCH_SIZE - 1

(***************************************************************************)
(* The sweep as a single loop: while no query has failed the cursor stands *)
(* on a batch of the range, or on the first batch as it was configured,    *)
(* and at its first bucket between two rounds.  With the other clauses     *)
(* this is inductive.                                                      *)
(***************************************************************************)
CursorInRange ==
  /\ fromBucketNo \in Bucket
  /\ fromBucketNo = BUCKET_NO_MIN \/ fromBucketNo < BUCKET_NO_MAX
  /\ \/ toBucketNo = BatchEnd(fromBucketNo)
     \/ /\ ~asked /\ fromBucketNo = BUCKET_NO_MIN
        /\ toBucketNo = BUCKET_NO_MIN + BATCH_SIZE - 1

BetweenRounds ==
  /\ roundTimers > 0 => endOfRound
  /\ endOfRound      => fromBucketNo = BUCKET_NO_MIN

SweepInv ==
  /\ restartTimer => debug
  /\ SingleLoop
  /\ errors = 0 => CursorInRange
  /\ ~debug /\ errors = 0 => BetweenRounds
  /\ EachBucketOncePerSweep
  /\ QueriesStayInRange

(***************************************************************************)
(* "Jetmon will periodically (every 5 minutes) loop over a list of Jetpack *)
(* sites" (README.md): every bucket is queried again and again.            *)
(***************************************************************************)
QueriedNow(b) == \E i \in DOMAIN queries : b \in queries[i].first .. queries[i].last

SweepsGoOn ==
  \A b \in BUCKET_NO_MIN .. BUCKET_NO_MAX - 1 : []<>QueriedNow(b)

(***************************************************************************)
(* Sweeps go on as long as no query fails or throws; with DEBUG, even if   *)
(* some do.                                                                *)
(***************************************************************************)
SweepsGoOnUnlessFailed == debug \/ [](errors = 0 /\ throws = 0) => SweepsGoOn

(***************************************************************************)
(* A new sweep waits for its timer: without DEBUG, once a round has ended  *)
(* no bucket is queried before the round timer fires.                      *)
(***************************************************************************)
RoundsArePaced ==
  [][~debug /\ endOfRound /\ Len(queries') > Len(queries) => roundTimers > 0]_vars
=============================================================================
