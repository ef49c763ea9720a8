---------------------------- MODULE Rounds_proofs ----------------------------
(***************************************************************************)
(* Proofs about the sweeps of Rounds.tla, for every range of buckets and   *)
(* every batch size that ConfigAssumption admits.                          *)
(***************************************************************************)
EXTENDS Rounds, SequenceTheorems, TLAPS

\* Removing an entry leaves a shorter sequence of some of the other entries.
LEMMA RemoveAtType ==
  ASSUME NEW S, NEW s \in Seq(S), NEW i \in DOMAIN s
  PROVE  /\ RemoveAt(s, i) \in Seq(S)
         /\ Len(RemoveAt(s, i)) = Len(s) - 1
         /\ \A k \in DOMAIN RemoveAt(s, i) : \E m \in DOMAIN s : RemoveAt(s, i)[k] = s[m]
<1> DEFINE a == SubSeq(s, 1, i - 1)
           b == SubSeq(s, i + 1, Len(s))
<1>0. i \in 1 .. Len(s) /\ Len(s) \in Nat
  OBVIOUS
<1>1. /\ a \in Seq(S) /\ Len(a) = i - 1
      /\ \A k \in 1 .. i - 1 : a[k] = s[k]
  BY <1>0, SubSeqProperties
<1>2. /\ b \in Seq(S) /\ Len(b) = Len(s) - i
      /\ \A k \in 1 .. Len(s) - i : b[k] = s[k + i]
  BY <1>0, SubSeqProperties
<1>3. RemoveAt(s, i) = a \o b
  BY DEF RemoveAt
<1> HIDE DEF a, b
<1>4. /\ a \o b \in Seq(S)
      /\ Len(a \o b) = Len(s) - 1
  BY <1>0, <1>1, <1>2, ConcatProperties
<1>5. ASSUME NEW k \in DOMAIN (a \o b)
      PROVE  \E m \in DOMAIN s : (a \o b)[k] = s[m]
  <2>1. k \in 1 .. Len(s) - 1
    BY <1>4
  <2>2. CASE k <= i - 1
    BY <1>0, <1>1, <1>2, <2>1, <2>2
  <2>3. CASE k > i - 1
    <3>1. (a \o b)[k] = b[k - (i - 1)] /\ k - (i - 1) \in 1 .. Len(s) - i
      <4>1. Len(a) + Len(b) = Len(s) - 1 /\ ~(k <= Len(a))
        BY <1>0, <1>1, <1>2, <2>1, <2>3
      <4>2. \A m \in 1 .. Len(a) + Len(b) :
              (a \o b)[m] = IF m <= Len(a) THEN a[m] ELSE b[m - Len(a)]
        BY <1>1, <1>2, ConcatProperties
      <4>3. (a \o b)[k] = b[k - Len(a)]
        BY <2>1, <4>1, <4>2
      <4> QED  BY <1>0, <1>1, <2>1, <2>3, <4>3
    <3>2. b[k - (i - 1)] = s[k + 1] /\ k + 1 \in 1 .. Len(s)
      <4>1. PICK j : j = k - (i - 1)
        OBVIOUS
      <4>2. j \in 1 .. Len(s) - i /\ j + i = k + 1
        BY <1>0, <2>1, <3>1, <4>1
      <4>3. b[j] = s[j + i]
        BY <1>2, <4>2
      <4>4. k + 1 \in 1 .. Len(s)
        BY <1>0, <2>1
      <4> QED  BY <4>1, <4>2, <4>3, <4>4
    <3> QED
      BY <3>1, <3>2
  <2> QED
    BY <1>0, <2>1, <2>2, <2>3
<1> QED
  BY <1>3, <1>4, <1>5

-----------------------------------------------------------------------------
(***************************************************************************)
(* The inductive invariant, and what it says of a list of queries and of   *)
(* the visits of a sweep, for lists and visits other than the current.     *)
(***************************************************************************)
IInv == TypeOK /\ SweepInv

InRange(qs) ==
  \A i \in DOMAIN qs :
    /\ qs[i].first \in Bucket /\ qs[i].first <= qs[i].last
    /\ qs[i].last > BUCKET_NO_MAX =>
         qs[i].initial /\ qs[i].last = BUCKET_NO_MIN + BATCH_SIZE - 1

SweptUpTo(seen, from, ended) ==
  \A b \in BUCKET_NO_MIN .. BUCKET_NO_MAX - 1 :
    seen[b] = IF ended \/ b < from THEN 1 ELSE 0

LEMMA InitInv == Init => IInv
<1> SUFFICES ASSUME Init PROVE IInv
  OBVIOUS
<1> USE ConfigAssumption DEF Init
<1>1. TypeOK
  <2>1. /\ queries \in Seq(Query) /\ visits \in [Bucket -> 0 .. 2]
        /\ fromBucketNo \in Int /\ toBucketNo \in Int
    BY DEF NoVisit
  <2> QED
    BY <2>1 DEF TypeOK
<1>2. CursorInRange /\ BetweenRounds
  BY DEF CursorInRange, BetweenRounds, BatchEnd, Bucket
<1>3. EachBucketOncePerSweep
  BY DEF EachBucketOncePerSweep, NoVisit, Bucket
<1>4. SingleLoop /\ QueriesStayInRange
  BY DEF SingleLoop, QueriesStayInRange
<1> QED
  BY <1>1, <1>2, <1>3, <1>4 DEF IInv, SweepInv

\* The cursor: from a batch of the range it moves to a batch of the range.
LEMMA CursorStep ==
  ASSUME CursorInRange,
         fromBucketNo' = NextFrom, toBucketNo' = BatchEnd(NextFrom)
  PROVE  CursorInRange'
BY ConfigAssumption DEF CursorInRange, NextFrom, BatchEnd, Bucket

\* The visits: the batch just queried is added to the buckets before it.
LEMMA VisitsStep ==
  ASSUME CursorInRange, fromBucketNo' = NextFrom,
         NEW seen \in [Bucket -> 0 .. 2], SweptUpTo(seen, fromBucketNo, FALSE),
         endOfRound' = (BUCKET_NO_MIN = NextFrom)
  PROVE  SweptUpTo(Visited(seen), fromBucketNo', endOfRound')
<1> SUFFICES ASSUME NEW b \in BUCKET_NO_MIN .. BUCKET_NO_MAX - 1
             PROVE  Visited(seen)[b] = IF endOfRound' \/ b < fromBucketNo' THEN 1 ELSE 0
  BY DEF SweptUpTo
<1>1. b \in Bucket /\ seen[b] = IF b < fromBucketNo THEN 1 ELSE 0
  BY ConfigAssumption DEF SweptUpTo, Bucket
<1>2. Visited(seen)[b] = IF b \in fromBucketNo .. toBucketNo THEN seen[b] + 1 ELSE seen[b]
  BY <1>1 DEF Visited
<1>3. /\ fromBucketNo \in BUCKET_NO_MIN .. BUCKET_NO_MAX
      /\ \/ toBucketNo = BatchEnd(fromBucketNo)
         \/ toBucketNo = fromBucketNo + BATCH_SIZE - 1
  BY DEF CursorInRange, Bucket
<1>4. CASE fromBucketNo + BATCH_SIZE >= BUCKET_NO_MAX
  <2>1. endOfRound' = TRUE
    BY <1>4 DEF NextFrom
  <2>2. b <= toBucketNo
    BY <1>3, <1>4, ConfigAssumption DEF BatchEnd
  <2> QED
    BY <1>1, <1>2, <1>3, <2>1, <2>2, ConfigAssumption
<1>5. CASE ~(fromBucketNo + BATCH_SIZE >= BUCKET_NO_MAX)
  <2>1. fromBucketNo' = fromBucketNo + BATCH_SIZE
    BY <1>5 DEF NextFrom
  <2>2. endOfRound' = FALSE
    <3>1. BUCKET_NO_MIN # NextFrom
      BY <1>3, <2>1, ConfigAssumption
    <3> QED
      BY <3>1
  <2>3. toBucketNo = fromBucketNo + BATCH_SIZE - 1
    BY <1>3, <1>5, ConfigAssumption DEF BatchEnd
  <2> QED
    BY <1>1, <1>2, <1>3, <2>1, <2>2, <2>3, ConfigAssumption
<1> QED
  BY <1>4, <1>5

(***************************************************************************)
(* A call of getMoreSites, with the queries, timers and visits its caller  *)
(* leaves: without DEBUG none is pending, and the visits are those of a    *)
(* sweep that has come as far as the cursor, or is over.                   *)
(***************************************************************************)
LEMMA FetchStep ==
  ASSUME IInv, debug' = debug, errors' = errors, restartTimer' \in BOOLEAN,
         restarts' \in Nat, restartTimer' => debug',
         NEW ended \in BOOLEAN, NEW pending \in Seq(Query), NEW timers \in Nat,
         NEW seen \in [Bucket -> 0 .. 2],
         errors = 0 => InRange(pending),
         ~debug => pending = <<>> /\ timers = 0,
         ~debug /\ errors = 0 => /\ ended => fromBucketNo = BUCKET_NO_MIN
                                /\ SweptUpTo(seen, fromBucketNo, ended),
         getMoreSites(ended, pending, timers, seen)
  PROVE  IInv'
<1> DEFINE query == [first |-> fromBucketNo, last |-> toBucketNo, initial |-> ~asked]
<1>0. TypeOK /\ SweepInv
  BY DEF IInv
<1>1. CASE ended
  <2>1. /\ gettingSites' = TRUE /\ endOfRound' = TRUE
        /\ roundTimers' = timers + 1 /\ queries' = pending /\ visits' = seen
        /\ fromBucketNo' = fromBucketNo /\ toBucketNo' = toBucketNo
        /\ asked' = asked /\ throws' = throws
    BY <1>1 DEF getMoreSites
  <2>2. TypeOK'
    BY <1>0, <2>1 DEF TypeOK
  <2>3. SingleLoop'
    BY <1>0, <2>1, <2>2 DEF SingleLoop, TypeOK
  <2>4. errors' = 0 => CursorInRange'
    BY <1>0, <2>1 DEF SweepInv, CursorInRange, BatchEnd
  <2>5. ~debug' /\ errors' = 0 => BetweenRounds' /\ SweptUpTo(visits', fromBucketNo', endOfRound')
    BY <1>1, <2>1 DEF BetweenRounds, SweptUpTo
  <2>6. QueriesStayInRange'
    BY <2>1 DEF QueriesStayInRange, InRange
  <2> QED
    BY <2>2, <2>3, <2>4, <2>5, <2>6 DEF IInv, SweepInv, EachBucketOncePerSweep, SweptUpTo
<1>2. CASE ~ended /\ QueryMade(pending, seen)
  <2>1. /\ gettingSites' = TRUE /\ endOfRound' = (BUCKET_NO_MIN = NextFrom)
        /\ roundTimers' = timers /\ queries' = Append(pending, query)
        /\ visits' = Visited(seen) /\ asked' = TRUE /\ throws' = throws
        /\ fromBucketNo' = NextFrom /\ toBucketNo' = BatchEnd(NextFrom)
    BY <1>2 DEF getMoreSites, QueryMade
  <2>2. TypeOK'
    <3>1. NextFrom \in Int /\ BatchEnd(NextFrom) \in Int /\ query \in Query
      BY <1>0, ConfigAssumption DEF TypeOK, NextFrom, BatchEnd, Query
    <3>2. Visited(seen) \in [Bucket -> 0 .. 2]
      BY DEF Visited
    <3>3. Append(pending, query) \in Seq(Query)
      BY <3>1
    <3>4. endOfRound' \in BOOLEAN
      BY <2>1
    <3> QED
      BY <1>0, <2>1, <3>1, <3>2, <3>3, <3>4 DEF TypeOK
  <2>3. SingleLoop'
    <3>1. ~debug => Len(queries') = 1 /\ roundTimers' = 0
      BY <2>1
    <3> QED
      BY <2>1, <3>1 DEF SingleLoop
  <2>4. errors' = 0 => CursorInRange'
    BY <1>0, <2>1, CursorStep DEF SweepInv
  <2>5. ~debug' /\ errors' = 0 => BetweenRounds'
    BY <2>1 DEF BetweenRounds
  <2>6. ~debug' /\ errors' = 0 => SweptUpTo(visits', fromBucketNo', endOfRound')
    BY <1>0, <1>2, <2>1, VisitsStep DEF SweepInv
  <2>7. QueriesStayInRange'
    <3> SUFFICES ASSUME errors = 0, NEW i \in DOMAIN queries'
                 PROVE  InRange(queries')!(i)
      BY DEF QueriesStayInRange, InRange
    <3>1. i \in 1 .. Len(pending) + 1
      BY <2>1
    <3>2. CASE i = Len(pending) + 1
      <4>1. queries'[i] = query
        BY <2>1, <3>2
      <4>2. query.first = fromBucketNo /\ query.last = toBucketNo /\ query.initial = ~asked
        OBVIOUS
      <4>3. /\ fromBucketNo \in Bucket /\ fromBucketNo <= toBucketNo
            /\ toBucketNo > BUCKET_NO_MAX =>
                 ~asked /\ toBucketNo = BUCKET_NO_MIN + BATCH_SIZE - 1
        BY <1>0, ConfigAssumption DEF SweepInv, CursorInRange, BatchEnd, Bucket
      <4> HIDE DEF query
      <4> QED
        BY <4>1, <4>2, <4>3
    <3>3. CASE i \in 1 .. Len(pending)
      <4>1. queries'[i] = pending[i]
        BY <2>1, <3>3
      <4> QED
        BY <3>3, <4>1 DEF InRange
    <3> QED
      BY <3>1, <3>2, <3>3
  <2> QED
    BY <2>2, <2>3, <2>4, <2>5, <2>6, <2>7 DEF IInv, SweepInv, EachBucketOncePerSweep, SweptUpTo
<1>3. CASE ~ended /\ ReloadThrows(pending, seen)
  <2>1. /\ gettingSites' = TRUE /\ endOfRound' = FALSE /\ roundTimers' = timers
        /\ queries' = pending /\ visits' = seen
        /\ throws' = throws + 1 /\ asked' = asked
        /\ fromBucketNo' = fromBucketNo /\ toBucketNo' = toBucketNo
    BY <1>3 DEF getMoreSites, ReloadThrows
  <2>2. TypeOK'
    <3>1. gettingSites' \in BOOLEAN /\ endOfRound' \in BOOLEAN /\ asked' \in BOOLEAN
      BY <1>0, <2>1, Zenon DEF TypeOK
    <3>2. throws' \in Nat
      BY <1>0, <2>1 DEF TypeOK
    <3> QED
      BY <1>0, <2>1, <3>1, <3>2, Zenon DEF TypeOK
  <2>3. SingleLoop'
    <3>1. ~debug => Len(queries') = 0 /\ roundTimers' = 0
      BY <2>1
    <3>2. throws' > 0
      BY <1>0, <2>1 DEF TypeOK
    <3> QED
      BY <2>1, <3>1, <3>2 DEF SingleLoop
  <2>4. errors' = 0 => CursorInRange'
    BY <1>0, <2>1 DEF SweepInv, CursorInRange, BatchEnd
  <2>5. ~debug' /\ errors' = 0 => BetweenRounds' /\ SweptUpTo(visits', fromBucketNo', endOfRound')
    BY <1>3, <2>1 DEF BetweenRounds, SweptUpTo
  <2>6. QueriesStayInRange'
    BY <2>1 DEF QueriesStayInRange, InRange
  <2> QED
    BY <2>2, <2>3, <2>4, <2>5, <2>6 DEF IInv, SweepInv, EachBucketOncePerSweep, SweptUpTo
<1> QED
  BY <1>1, <1>2, <1>3 DEF getMoreSites, getNextBatch

-----------------------------------------------------------------------------
(***************************************************************************)
(* One lemma per action.                                                   *)
(***************************************************************************)
\* What the invariant says of the lists FetchStep asks about.
LEMMA CurrentSweep ==
  ASSUME IInv
  PROVE  /\ errors = 0 => InRange(queries)
         /\ ~debug => gettingSites \/ (queries = <<>> /\ roundTimers = 0)
         /\ ~debug /\ errors = 0 => /\ endOfRound => fromBucketNo = BUCKET_NO_MIN
                                    /\ SweptUpTo(visits, fromBucketNo, endOfRound)
<1>1. TypeOK /\ SweepInv
  BY DEF IInv
<1>2. ~debug => gettingSites \/ (queries = <<>> /\ roundTimers = 0)
  BY <1>1 DEF TypeOK, SweepInv, SingleLoop
<1> QED
  BY <1>1, <1>2 DEF SweepInv, QueriesStayInRange, InRange, BetweenRounds,
                    EachBucketOncePerSweep, SweptUpTo

LEMMA SendWorkStep == IInv /\ SendWork => IInv'
<1> SUFFICES ASSUME IInv, SendWork PROVE IInv'
  OBVIOUS
<1>1. /\ endOfRound \in BOOLEAN /\ queries \in Seq(Query) /\ roundTimers \in Nat
      /\ visits \in [Bucket -> 0 .. 2] /\ restartTimer \in BOOLEAN /\ restarts \in Nat
      /\ restartTimer => debug
  BY DEF IInv, TypeOK, SweepInv
<1>2. /\ ~gettingSites /\ getMoreSites(endOfRound, queries, roundTimers, visits)
      /\ debug' = debug /\ errors' = errors /\ restartTimer' = restartTimer
      /\ restarts' = restarts
  BY DEF SendWork
<1> QED
  BY <1>1, <1>2, CurrentSweep, FetchStep

\* An answer to query i leaves the others, and none of a single loop.
LEMMA AnswerStep ==
  ASSUME IInv, NEW i \in DOMAIN queries
  PROVE  /\ RemoveAt(queries, i) \in Seq(Query)
         /\ Len(RemoveAt(queries, i)) = Len(queries) - 1
         /\ errors = 0 => InRange(RemoveAt(queries, i))
         /\ ~debug => RemoveAt(queries, i) = <<>> /\ roundTimers = 0
<1> DEFINE rest == RemoveAt(queries, i)
<1>1. queries \in Seq(Query) /\ roundTimers \in Nat /\ SingleLoop
  BY DEF IInv, TypeOK, SweepInv
<1>2. /\ rest \in Seq(Query) /\ Len(rest) = Len(queries) - 1
      /\ \A k \in DOMAIN rest : \E m \in DOMAIN queries : rest[k] = queries[m]
  BY <1>1, RemoveAtType
<1> HIDE DEF rest
<1>3. errors = 0 => InRange(rest)
  BY <1>2, CurrentSweep DEF InRange
<1>4. ~debug => rest = <<>> /\ roundTimers = 0
  BY <1>1, <1>2 DEF SingleLoop
<1> QED
  BY <1>2, <1>3, <1>4 DEF rest

LEMMA QueryReturnsStep ==
  ASSUME IInv, NEW i \in DOMAIN queries, QueryReturns(i)
  PROVE  IInv'
<1>1. TypeOK /\ SweepInv
  BY DEF IInv
<1>2. /\ queries' = RemoveAt(queries, i) /\ gettingSites' = FALSE
      /\ UNCHANGED <<debug, fromBucketNo, toBucketNo, endOfRound, roundTimers,
                     restartTimer, asked, visits, errors, throws, restarts>>
  BY DEF QueryReturns
<1>3. TypeOK'
  BY <1>1, <1>2, AnswerStep DEF TypeOK
<1>4. SingleLoop'
  <2>1. ~debug' => Len(queries') = 0 /\ roundTimers' = 0
    BY <1>2, AnswerStep
  <2> QED
    BY <1>2, <2>1 DEF SingleLoop
<1>5. QueriesStayInRange'
  BY <1>2, AnswerStep DEF QueriesStayInRange, InRange
<1> QED
  BY <1>1, <1>2, <1>3, <1>4, <1>5
  DEF IInv, SweepInv, CursorInRange, BatchEnd, BetweenRounds, EachBucketOncePerSweep

LEMMA QueryReturnsNothingStep ==
  ASSUME IInv, NEW i \in DOMAIN queries, QueryReturnsNothing(i)
  PROVE  IInv'
<1>1. /\ endOfRound \in BOOLEAN /\ roundTimers \in Nat
      /\ visits \in [Bucket -> 0 .. 2] /\ restartTimer \in BOOLEAN /\ restarts \in Nat
      /\ restartTimer => debug
  BY DEF IInv, TypeOK, SweepInv
<1>2. /\ getMoreSites(endOfRound, RemoveAt(queries, i), roundTimers, visits)
      /\ debug' = debug /\ errors' = errors /\ restartTimer' = restartTimer
      /\ restarts' = restarts
  BY DEF QueryReturnsNothing
<1>3. /\ RemoveAt(queries, i) \in Seq(Query)
      /\ errors = 0 => InRange(RemoveAt(queries, i))
      /\ ~debug => RemoveAt(queries, i) = <<>> /\ roundTimers = 0
  BY AnswerStep
<1> HIDE DEF RemoveAt
<1> QED
  BY <1>1, <1>2, <1>3, CurrentSweep, FetchStep

LEMMA QueryFailsStep ==
  ASSUME IInv, NEW i \in DOMAIN queries, QueryFails(i)
  PROVE  IInv'
<1>1. TypeOK /\ SweepInv
  BY DEF IInv
<1>2. /\ queries' = RemoveAt(queries, i) /\ errors' = errors + 1
      /\ fromBucketNo' = fromBucketNo - BATCH_SIZE
      /\ toBucketNo' = toBucketNo - BATCH_SIZE
      /\ UNCHANGED <<debug, endOfRound, gettingSites, roundTimers, restartTimer,
                     asked, visits, throws, restarts>>
  BY DEF QueryFails
<1>3. TypeOK'
  BY <1>1, <1>2, AnswerStep, ConfigAssumption DEF TypeOK
<1>4. errors' > 0
  BY <1>1, <1>2 DEF TypeOK
<1>5. SingleLoop'
  <2>1. ~debug' => Len(queries') = 0 /\ roundTimers' = 0
    BY <1>2, AnswerStep
  <2> QED
    BY <1>4, <2>1 DEF SingleLoop
<1>6. errors' # 0
  BY <1>4
<1> QED
  BY <1>1, <1>2, <1>3, <1>5, <1>6
  DEF IInv, SweepInv, EachBucketOncePerSweep, QueriesStayInRange

LEMMA RoundTimerStep == IInv /\ RoundTimer => IInv'
<1> SUFFICES ASSUME IInv, RoundTimer PROVE IInv'
  OBVIOUS
<1>1. TypeOK /\ SweepInv
  BY DEF IInv
<1>2. /\ roundTimers > 0 /\ getMoreSites(FALSE, queries, roundTimers - 1, NoVisit)
      /\ debug' = debug /\ errors' = errors /\ restartTimer' = restartTimer
      /\ restarts' = restarts
  BY DEF RoundTimer
<1>3. /\ queries \in Seq(Query) /\ roundTimers - 1 \in Nat
      /\ NoVisit \in [Bucket -> 0 .. 2] /\ restartTimer \in BOOLEAN /\ restarts \in Nat
      /\ restartTimer => debug
  BY <1>1, <1>2 DEF TypeOK, NoVisit, SweepInv
<1>4. ~debug => queries = <<>> /\ roundTimers - 1 = 0
  BY <1>1, <1>2 DEF TypeOK, SweepInv, SingleLoop
<1>5. ~debug /\ errors = 0 => fromBucketNo = BUCKET_NO_MIN
  BY <1>1, <1>2 DEF SweepInv, BetweenRounds
<1>6. fromBucketNo = BUCKET_NO_MIN => SweptUpTo(NoVisit, fromBucketNo, FALSE)
  BY ConfigAssumption DEF SweptUpTo, NoVisit, Bucket
<1> QED
  BY <1>2, <1>3, <1>4, <1>5, <1>6, CurrentSweep, FetchStep

LEMMA DebugRestartStep == IInv /\ DebugRestart => IInv'
<1> SUFFICES ASSUME IInv, DebugRestart PROVE IInv'
  OBVIOUS
<1>1. TypeOK /\ SweepInv
  BY DEF IInv
<1>2. /\ debug /\ restartTimer' = TRUE /\ endOfRound' = FALSE /\ visits' = NoVisit
      /\ restarts' = restarts \/ restarts' = restarts + 1
      /\ UNCHANGED <<debug, fromBucketNo, toBucketNo, gettingSites, queries,
                     roundTimers, asked, errors, throws>>
  BY DEF DebugRestart
<1>3. NoVisit \in [Bucket -> 0 .. 2]
  BY DEF NoVisit
<1>4. TypeOK'
  <2>1. restarts' \in Nat
    BY <1>1, <1>2 DEF TypeOK
  <2> QED
    BY <1>1, <1>2, <1>3, <2>1 DEF TypeOK
<1> QED
  BY <1>1, <1>2, <1>4
  DEF IInv, SweepInv, SingleLoop, CursorInRange, BatchEnd, EachBucketOncePerSweep,
      QueriesStayInRange

LEMMA RestartTimerStep == IInv /\ RestartTimer => IInv'
<1> SUFFICES ASSUME IInv, RestartTimer PROVE IInv'
  OBVIOUS
<1>1. /\ endOfRound \in BOOLEAN /\ queries \in Seq(Query) /\ roundTimers \in Nat
      /\ visits \in [Bucket -> 0 .. 2] /\ restarts \in Nat
      /\ restartTimer => debug
  BY DEF IInv, TypeOK, SweepInv
<1>2. /\ restartTimer /\ restartTimer' = FALSE
      /\ getMoreSites(endOfRound, queries, roundTimers, visits)
      /\ debug' = debug /\ errors' = errors /\ restarts' = restarts
  BY DEF RestartTimer
<1> QED
  BY <1>1, <1>2, CurrentSweep, FetchStep

LEMMA StutterStep == IInv /\ UNCHANGED vars => IInv'
BY DEF IInv, TypeOK, SweepInv, SingleLoop, CursorInRange, BatchEnd, BetweenRounds,
       EachBucketOncePerSweep, QueriesStayInRange, vars

LEMMA StepInv == IInv /\ [Next]_vars => IInv'
<1> SUFFICES ASSUME IInv, [Next]_vars PROVE IInv'
  OBVIOUS
<1>1. CASE SendWork
  BY <1>1, SendWorkStep
<1>2. CASE \E i \in DOMAIN queries :
             QueryReturns(i) \/ QueryReturnsNothing(i) \/ QueryFails(i)
  BY <1>2, QueryReturnsStep, QueryReturnsNothingStep, QueryFailsStep
<1>3. CASE RoundTimer
  BY <1>3, RoundTimerStep
<1>4. CASE DebugRestart
  BY <1>4, DebugRestartStep
<1>5. CASE RestartTimer
  BY <1>5, RestartTimerStep
<1>6. CASE UNCHANGED vars
  BY <1>6, StutterStep
<1> QED
  BY <1>1, <1>2, <1>3, <1>4, <1>5, <1>6 DEF Next

-----------------------------------------------------------------------------
(***************************************************************************)
(* The invariant holds throughout.                                         *)
(***************************************************************************)
THEOREM InvariantHolds == Spec => []IInv
<1>1. Init => IInv
  BY InitInv
<1>2. IInv /\ [Next]_vars => IInv'
  BY StepInv
<1> QED
  BY <1>1, <1>2, PTL DEF Spec

(***************************************************************************)
(* The variables keep their types, whatever fails and restarts.            *)
(***************************************************************************)
THEOREM TypeCorrect == Spec => []TypeOK
<1>1. IInv => TypeOK
  BY DEF IInv
<1> QED
  BY <1>1, InvariantHolds, PTL

(***************************************************************************)
(* Without DEBUG, getMoreSites runs as one loop: its callers (requests for *)
(* work, empty results, the round timer) never start a second one, and the *)
(* loop is given up only by a query that failed or was never made because  *)
(* execQuery threw.                                                        *)
(***************************************************************************)
THEOREM OneLoop == Spec => []SingleLoop
<1>1. IInv => SingleLoop
  BY DEF IInv, SweepInv
<1> QED
  BY <1>1, InvariantHolds, PTL

(***************************************************************************)
(* A round queries every bucket below BUCKET_NO_MAX exactly once, for any  *)
(* range and batch size, as long as no query fails.                        *)
(***************************************************************************)
THEOREM SweepIsExact == Spec => []EachBucketOncePerSweep
<1>1. IInv => EachBucketOncePerSweep
  BY DEF IInv, SweepInv
<1> QED
  BY <1>1, InvariantHolds, PTL

(***************************************************************************)
(* As long as no query fails a host reads no bucket of another, not even   *)
(* when DEBUG runs several loops over the one cursor, but by its first     *)
(* query, and by that only if a batch is larger than its range.            *)
(***************************************************************************)
THEOREM OwnBucketsOnly == Spec => []QueriesStayInRange
<1>1. IInv => QueriesStayInRange
  BY DEF IInv, SweepInv
<1> QED
  BY <1>1, InvariantHolds, PTL

(***************************************************************************)
(* Without DEBUG no round starts before the timer of the last one fires.   *)
(***************************************************************************)
LEMMA PacedStep ==
  ASSUME IInv, Next, ~debug, endOfRound, Len(queries') > Len(queries)
  PROVE  roundTimers > 0
<1>1. queries \in Seq(Query)
  BY DEF IInv, TypeOK
<1>2. CASE SendWork
  <2>1. queries' = queries
    BY <1>2 DEF SendWork, getMoreSites
  <2> QED
    BY <1>1, <2>1
<1>3. ASSUME NEW i \in DOMAIN queries,
             QueryReturns(i) \/ QueryReturnsNothing(i) \/ QueryFails(i)
      PROVE  FALSE
  <2>1. queries' = RemoveAt(queries, i)
    BY <1>3 DEF QueryReturns, QueryReturnsNothing, QueryFails, getMoreSites
  <2>2. Len(RemoveAt(queries, i)) = Len(queries) - 1
    BY AnswerStep
  <2> QED
    BY <1>1, <2>1, <2>2
<1>4. CASE RoundTimer
  BY <1>4 DEF RoundTimer
<1>5. CASE DebugRestart
  BY <1>5 DEF DebugRestart
<1>6. CASE RestartTimer
  BY <1>6 DEF RestartTimer, IInv, SweepInv
<1> QED
  BY <1>2, <1>3, <1>4, <1>5, <1>6 DEF Next

THEOREM RoundsWaitForTimer == Spec => RoundsArePaced
<1>1. IInv /\ [Next]_vars =>
        [~debug /\ endOfRound /\ Len(queries') > Len(queries) => roundTimers > 0]_vars
  BY PacedStep
<1> QED
  BY <1>1, InvariantHolds, PTL DEF Spec, RoundsArePaced
=============================================================================
