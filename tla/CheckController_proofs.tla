----------------------- MODULE CheckController_proofs -----------------------
(***************************************************************************)
(* Proofs about CheckController.tla, for every set of sites, of servers    *)
(* and of checks, and every number of runners and of checks per runner.    *)
(***************************************************************************)
EXTENDS CheckController, FiniteSetTheorems, SequenceTheorems, TLAPS

-----------------------------------------------------------------------------
(***************************************************************************)
(* Numbers and sequences.                                                  *)
(***************************************************************************)
LEMMA Least ==
  ASSUME NEW S \in SUBSET Nat, S # {}
  PROVE  \E x \in S : \A y \in S : x <= y
<1> DEFINE R == OpToRel(<, Nat)
<1>1. IsWellFoundedOn(R, Nat)
  BY NatLessThanWellFounded
<1>2. \A x, y \in Nat : <<y, x>> \in R <=> y < x
  BY DEF OpToRel
<1> HIDE DEF R
<1>3. \E x \in S : \A y \in S : ~(<<y, x>> \in R)
  BY <1>1, WFMin
<1>4. PICK x \in S : \A y \in S : ~(<<y, x>> \in R)
  BY <1>3
<1>5. \A y \in S : x <= y
  <2> SUFFICES ASSUME NEW y \in S PROVE x <= y
    OBVIOUS
  <2>1. x \in Nat /\ y \in Nat /\ ~(y < x)
    BY <1>2, <1>4
  <2> QED  BY <2>1
<1> QED  BY <1>5

LEMMA AppendSet ==
  ASSUME NEW S, NEW s \in Seq(S), NEW x \in S
  PROVE  /\ Append(s, x) \in Seq(S) /\ ToSet(Append(s, x)) = ToSet(s) \cup {x}
         /\ IsInjective(s) /\ x \notin ToSet(s) => IsInjective(Append(s, x))
<1> DEFINE t == Append(s, x)
<1>1. /\ t \in Seq(S) /\ DOMAIN t = 1 .. Len(s) + 1 /\ DOMAIN s = 1 .. Len(s) /\ Len(s) \in Nat
      /\ \A i \in 1 .. Len(s) : t[i] = s[i]
      /\ t[Len(s) + 1] = x
  BY AppendProperties, LenProperties
<1> HIDE DEF t
<1>2. ToSet(t) = ToSet(s) \cup {x}
  BY <1>1 DEF ToSet
<1>3. ASSUME IsInjective(s), x \notin ToSet(s) PROVE IsInjective(t)
  <2> SUFFICES ASSUME NEW i \in DOMAIN t, NEW j \in DOMAIN t, t[i] = t[j] PROVE i = j
    BY DEF IsInjective
  <2>1. \A k \in 1 .. Len(s) : t[k] # x
    BY <1>1, <1>3 DEF ToSet
  <2> QED  BY <1>1, <1>3, <2>1 DEF IsInjective
<1> QED  BY <1>1, <1>2, <1>3 DEF t

LEMMA RemoveAtSet ==
  ASSUME NEW S, NEW s \in Seq(S), NEW k \in DOMAIN s, IsInjective(s)
  PROVE  /\ RemoveAt(s, k) \in Seq(S) /\ IsInjective(RemoveAt(s, k))
         /\ ToSet(RemoveAt(s, k)) = ToSet(s) \ {s[k]}
<1> DEFINE a == SubSeq(s, 1, k - 1)
           b == SubSeq(s, k + 1, Len(s))
           t == RemoveAt(s, k)
<1>1. /\ Len(s) \in Nat /\ DOMAIN s = 1 .. Len(s) /\ k \in 1 .. Len(s)
      /\ \A i \in 1 .. Len(s) : s[i] \in S
  BY LenProperties
<1>2. /\ a \in Seq(S) /\ Len(a) = k - 1 /\ \A i \in 1 .. k - 1 : a[i] = s[i]
  BY <1>1
<1>3. /\ b \in Seq(S) /\ Len(b) = Len(s) - k /\ \A i \in 1 .. Len(s) - k : b[i] = s[k + i]
  <2>1. \A i \in k + 1 .. Len(s) : s[i] \in S
    BY <1>1
  <2>2. /\ b \in Seq(S) /\ Len(b) = IF k + 1 <= Len(s) THEN Len(s) - (k + 1) + 1 ELSE 0
        /\ \A i \in 1 .. Len(s) - (k + 1) + 1 : b[i] = s[k + 1 + i - 1]
    BY <1>1, <2>1, SubSeqProperties
  <2> HIDE DEF b
  <2>3. Len(b) = Len(s) - k /\ Len(s) - (k + 1) + 1 = Len(s) - k
    BY <1>1, <2>2
  <2>4. \A i \in 1 .. Len(s) - k : k + 1 + i - 1 = k + i
    BY <1>1
  <2> QED  BY <2>2, <2>3, <2>4
<1> HIDE DEF a, b
<1>4. /\ a \o b \in Seq(S) /\ Len(a \o b) = Len(s) - 1
      /\ \A i \in 1 .. Len(s) - 1 : (a \o b)[i] = IF i <= k - 1 THEN a[i] ELSE b[i - (k - 1)]
  <2>1. /\ a \o b \in Seq(S) /\ Len(a \o b) = Len(a) + Len(b)
        /\ \A i \in 1 .. Len(a) + Len(b) :
             (a \o b)[i] = IF i <= Len(a) THEN a[i] ELSE b[i - Len(a)]
    BY <1>2, <1>3, ConcatProperties
  <2>2. Len(a) + Len(b) = Len(s) - 1
    BY <1>1, <1>2, <1>3
  <2> QED  BY <1>2, <2>1, <2>2
<1>5. t = a \o b
  BY DEF RemoveAt, a, b
<1>6. \A i \in 1 .. Len(s) - 1 : t[i] = IF i < k THEN s[i] ELSE s[i + 1]
  <2> SUFFICES ASSUME NEW i \in 1 .. Len(s) - 1 PROVE t[i] = IF i < k THEN s[i] ELSE s[i + 1]
    OBVIOUS
  <2>1. CASE i < k
    BY <1>1, <1>2, <1>4, <1>5, <2>1
  <2>2. CASE ~(i < k)
    <3>1. i - (k - 1) \in 1 .. Len(s) - k /\ k + (i - (k - 1)) = i + 1 /\ ~(i <= k - 1)
      BY <1>1, <2>2
    <3>2. t[i] = b[i - (k - 1)]
      BY <1>4, <1>5, <3>1
    <3>3. b[i - (k - 1)] = s[k + (i - (k - 1))]
      BY <1>3, <3>1
    <3> QED  BY <2>2, <3>1, <3>2, <3>3
  <2> QED  BY <2>1, <2>2
<1>7. t \in Seq(S) /\ DOMAIN t = 1 .. Len(s) - 1
  BY <1>4, <1>5, LenProperties
<1> HIDE DEF t
<1>8. IsInjective(t)
  <2> SUFFICES ASSUME NEW i \in DOMAIN t, NEW j \in DOMAIN t, t[i] = t[j] PROVE i = j
    BY DEF IsInjective
  <2>1. i \in 1 .. Len(s) /\ i + 1 \in 1 .. Len(s) /\ j \in 1 .. Len(s) /\ j + 1 \in 1 .. Len(s)
    BY <1>1, <1>7
  <2> QED  BY <1>1, <1>6, <1>7, <2>1 DEF IsInjective
<1>9. ASSUME NEW x \in ToSet(t) PROVE x \in ToSet(s) \ {s[k]}
  <2>1. PICK i \in 1 .. Len(s) - 1 : x = t[i]
    BY <1>7 DEF ToSet
  <2>2. \E j \in 1 .. Len(s) : x = s[j] /\ j # k
    BY <1>1, <1>6, <2>1
  <2> QED  BY <1>1, <2>2 DEF ToSet, IsInjective
<1>10. ASSUME NEW x \in ToSet(s) \ {s[k]} PROVE x \in ToSet(t)
  <2>1. PICK j \in 1 .. Len(s) : x = s[j] /\ j # k
    BY <1>1 DEF ToSet
  <2>2. CASE j < k
    <3>1. j \in 1 .. Len(s) - 1 /\ t[j] = s[j]
      BY <1>1, <1>6, <2>2
    <3> QED  BY <1>7, <2>1, <3>1 DEF ToSet
  <2>3. CASE j > k
    <3>1. j - 1 \in 1 .. Len(s) - 1 /\ ~(j - 1 < k) /\ j - 1 + 1 = j
      BY <1>1, <2>3
    <3>2. t[j - 1] = s[j]
      BY <1>6, <3>1
    <3> QED  BY <1>7, <2>1, <3>1, <3>2 DEF ToSet
  <2> QED  BY <1>1, <2>1, <2>2, <2>3
<1> QED  BY <1>7, <1>8, <1>9, <1>10 DEF t

LEMMA TailSet ==
  ASSUME NEW S, NEW s \in Seq(S), s # <<>>, IsInjective(s)
  PROVE  /\ Head(s) \in ToSet(s) /\ Tail(s) \in Seq(S) /\ IsInjective(Tail(s))
         /\ ToSet(Tail(s)) = ToSet(s) \ {Head(s)}
<1>1. Len(s) \in Nat \ {0} /\ DOMAIN s = 1 .. Len(s) /\ Head(s) = s[1]
  BY EmptySeq, LenProperties
<1>2. /\ Tail(s) \in Seq(S) /\ Len(Tail(s)) = Len(s) - 1
      /\ \A i \in 1 .. Len(s) - 1 : Tail(s)[i] = s[i + 1]
  BY HeadTailProperties
<1>3. DOMAIN Tail(s) = 1 .. Len(s) - 1
  BY <1>2, LenProperties
<1>4. IsInjective(Tail(s))
  <2> DEFINE t == Tail(s)
  <2> SUFFICES ASSUME NEW i \in DOMAIN t, NEW j \in DOMAIN t, t[i] = t[j] PROVE i = j
    BY DEF IsInjective
  <2>1. i + 1 \in DOMAIN s /\ j + 1 \in DOMAIN s /\ s[i + 1] = s[j + 1]
    BY <1>1, <1>2, <1>3
  <2>2. i + 1 = j + 1
    BY <2>1 DEF IsInjective
  <2> QED  BY <1>3, <2>2
<1>5. ASSUME NEW x \in ToSet(Tail(s)) PROVE x \in ToSet(s) \ {Head(s)}
  <2>1. PICK i \in 1 .. Len(s) - 1 : x = s[i + 1]
    BY <1>2, <1>3 DEF ToSet
  <2>2. i + 1 \in DOMAIN s /\ 1 \in DOMAIN s /\ i + 1 # 1
    BY <1>1
  <2> QED  BY <1>1, <2>1, <2>2 DEF ToSet, IsInjective
<1>6. ASSUME NEW x \in ToSet(s) \ {Head(s)} PROVE x \in ToSet(Tail(s))
  <2>1. PICK i \in 1 .. Len(s) : x = s[i] /\ i # 1
    BY <1>1 DEF ToSet
  <2>2. i - 1 \in 1 .. Len(s) - 1 /\ i - 1 + 1 = i
    BY <1>1, <2>1
  <2> QED  BY <1>2, <1>3, <2>1, <2>2 DEF ToSet
<1>7. Head(s) \in ToSet(s)
  BY <1>1 DEF ToSet
<1> QED  BY <1>2, <1>4, <1>5, <1>6, <1>7

LEMMA MinIsIn ==
  ASSUME NEW S \in SUBSET Nat, S # {}
  PROVE  Min(S) \in S
BY Least DEF Min

(***************************************************************************)
(* The two searches in the queue, and the choice of a runner.              *)
(***************************************************************************)
LEMMA FirstOfIsIn ==
  ASSUME NEW queue \in Seq(HealthCheck), NEW set \in SUBSET ToSet(queue), set # {}
  PROVE  FirstOf(queue, set) \in DOMAIN queue /\ queue[FirstOf(queue, set)] \in set
<1> DEFINE I == {k \in 1 .. Len(queue) : queue[k] \in set}
<1>1. DOMAIN queue = 1 .. Len(queue) /\ Len(queue) \in Nat
  BY LenProperties
<1>2. I \in SUBSET Nat /\ I # {}
  BY <1>1 DEF ToSet
<1>3. FirstOf(queue, set) = Min(I)
  BY <1>2 DEF FirstOf, SelectInSeq
<1>4. Min(I) \in I
  <2> HIDE DEF I
  <2> QED  BY <1>2, MinIsIn
<1> QED  BY <1>1, <1>3, <1>4

LEMMA EntryIsFound ==
  ASSUME m_checks \in Seq(HealthCheck), NEW hc \in ToSet(m_checks)
  PROVE  LET at == SelectInSeq(m_checks, LAMBDA h : site[h] = site[hc])
         IN  at \in DOMAIN m_checks /\ at # 0 /\ site[m_checks[at]] = site[hc]
<1> DEFINE I  == {k \in 1 .. Len(m_checks) : site[m_checks[k]] = site[hc]}
           at == SelectInSeq(m_checks, LAMBDA h : site[h] = site[hc])
<1>1. DOMAIN m_checks = 1 .. Len(m_checks) /\ Len(m_checks) \in Nat
  BY LenProperties
<1>2. I \in SUBSET Nat /\ I # {}
  BY <1>1 DEF ToSet
<1>3. at = Min(I)
  BY <1>2 DEF SelectInSeq
<1>4. Min(I) \in I
  <2> HIDE DEF I
  <2> QED  BY <1>2, MinIsIn
<1> HIDE DEF at
<1> QED  BY <1>1, <1>3, <1>4 DEF at

LEMMA RunnerIsSelected ==
  ASSUME NEW load \in [Runner -> Nat]
  PROVE  LET r == selectRunner(load)
         IN  r \in Runner /\ (r # 0 => load[r] < MAX_CHECKS)
<1> DEFINE free  == {r \in Runner : load[r] < MAX_CHECKS}
           best  == {r \in free : \A s \in free : load[r] <= load[s]}
           first == CHOOSE r \in best : \A s \in best : r <= s
<1>1. 0 \in Runner /\ Runner \in SUBSET Nat
  BY RunnersAssumption DEF Runner
<1>2. CASE free = {}
  BY <1>1, <1>2 DEF selectRunner
<1>3. CASE free # {}
  <2>1. {load[r] : r \in free} \in SUBSET Nat /\ {load[r] : r \in free} # {}
    BY <1>3
  <2>2. PICK n \in {load[r] : r \in free} : \A m \in {load[r] : r \in free} : n <= m
    BY <2>1, Least
  <2>3. best # {} /\ best \in SUBSET Nat
    <3>1. PICK r \in free : n = load[r]
      OBVIOUS
    <3>2. \A s \in free : load[r] <= load[s]
      BY <2>2, <3>1
    <3> QED  BY <1>1, <3>2
  <2>4. \E r \in best : \A s \in best : r <= s
    <3> HIDE DEF best
    <3> QED  BY <2>3, Least
  <2>5. first \in best
    <3> HIDE DEF best
    <3> QED  BY <2>4
  <2>6. selectRunner(load) = first
    BY <1>3 DEF selectRunner
  <2> HIDE DEF first
  <2> QED  BY <2>5, <2>6
<1> QED  BY <1>2, <1>3

-----------------------------------------------------------------------------
(***************************************************************************)
(* The invariant.  A check in the queue waits, is signalled, or runs, and  *)
(* its thread_index tells which; what has left the queue is going out, and *)
(* nothing is in the queue and beyond it, or before it, at once.           *)
(***************************************************************************)
Queue    == ToSet(m_checks)
Outgoing == results \cup UNION sending

Types ==
  /\ requested \subseteq HealthCheck
  /\ adding \in Seq(requested) /\ m_checks \in Seq(requested) /\ signals \in Seq(requested)
  /\ running \cup results \subseteq requested /\ sending \subseteq SUBSET requested
  /\ thread_index \in [HealthCheck -> Runner \cup {NOT_ASSIGNED, PRE_ASSIGNED}]
  /\ IsFiniteSet(running) /\ IsFiniteSet(Outgoing)
  /\ IsInjective(adding) /\ IsInjective(m_checks) /\ IsInjective(signals)

PhaseInv ==
  /\ \A h \in (HealthCheck \ requested) \cup ToSet(adding) : thread_index[h] = NOT_ASSIGNED
  /\ ToSet(adding) \cap (Queue \cup Outgoing) = {}
  /\ Queue \cap Outgoing = {}
  /\ ToSet(signals) \cup running \subseteq Queue
  /\ \A h \in Queue : h \in ToSet(signals) <=> thread_index[h] = PRE_ASSIGNED
  /\ \A h \in Queue : h \in running        <=> thread_index[h] \in Runner

OneEntryPerSite == \A h, g \in Queue : site[h] = site[g] => h = g

CountsOf(started, load, runs) ==
  /\ started = Cardinality(runs)
  /\ \A r \in Runner : load[r] = Cardinality({h \in runs : thread_index[h] = r})
  /\ \A r \in Runner \ {0} : load[r] <= MAX_CHECKS

CountInv == checking \in [Runner -> Nat] /\ CountsOf(m_checking, checking, running)

IInv == Types /\ PhaseInv /\ OneEntryPerSite /\ CountInv /\ WaitsOnlyWhenFull
-----------------------------------------------------------------------------
LEMMA Marks ==
  NOT_ASSIGNED \notin Runner /\ PRE_ASSIGNED \notin Runner /\ NOT_ASSIGNED # PRE_ASSIGNED
BY DEF NOT_ASSIGNED, PRE_ASSIGNED, Runner

LEMMA QueueTypes ==
  ASSUME Types
  PROVE  /\ m_checks \in Seq(HealthCheck)
         /\ Queue \subseteq requested /\ ToSet(signals) \subseteq requested
         /\ ToSet(adding) \subseteq requested /\ Outgoing \subseteq requested
<1>1. m_checks \in Seq(HealthCheck)
  BY SeqMonotonic DEF Types
<1>2. \A s \in Seq(requested) : ToSet(s) \subseteq requested
  BY ElementOfSeq, LenProperties DEF ToSet
<1> QED  BY <1>1, <1>2 DEF Types, Queue, Outgoing

LEMMA InitInv == Init => IInv
<1> SUFFICES ASSUME Init PROVE IInv
  OBVIOUS
<1>1. ToSet(<<>>) = {}
  BY DEF ToSet
<1>2. Queue = {} /\ Outgoing = {} /\ ToSet(signals) = {} /\ ToSet(adding) = {} /\ running = {}
  BY <1>1 DEF Init, Queue, Outgoing
<1>3. Types
  <2>1. <<>> \in Seq(requested) /\ IsInjective(<<>>)
    BY DEF IsInjective
  <2> QED  BY <1>2, <2>1, FS_EmptySet DEF Init, Types
<1>4. CountInv
  <2>1. \A r \in Runner : {h \in running : thread_index[h] = r} = {}
    BY <1>2
  <2>2. checking \in [Runner -> Nat] /\ \A r \in Runner : checking[r] = 0
    BY DEF Init
  <2> QED  BY <1>2, <2>1, <2>2, FS_EmptySet, RunnersAssumption DEF Init, CountInv, CountsOf
<1>5. PhaseInv /\ OneEntryPerSite /\ WaitsOnlyWhenFull
  BY <1>2 DEF Init, PhaseInv, OneEntryPerSite, WaitsOnlyWhenFull, Queue
<1> QED  BY <1>3, <1>4, <1>5 DEF IInv

(***************************************************************************)
(* Client threads.                                                         *)
(***************************************************************************)
LEMMA CountsUnchanged ==
  ASSUME CountInv, UNCHANGED <<m_checking, checking, running>>,
         \A h \in running : thread_index'[h] = thread_index[h]
  PROVE  CountInv'
<1>1. \A r \in Runner : {h \in running' : thread_index'[h] = r}
                          = {h \in running : thread_index[h] = r}
  OBVIOUS
<1> QED  BY <1>1 DEF CountInv, CountsOf

LEMMA addChecksStep ==
  ASSUME IInv, NEW batch \in Batches, addChecks(batch)
  PROVE  IInv'
<1> USE DEF IInv
<1>1. /\ requested' = requested \cup Range(batch) /\ adding' = batch
      /\ UNCHANGED <<m_checks, thread_index, signals, m_checking, checking, running,
                     results, sending>>
  BY DEF addChecks
<1>2. PICK n \in 1 .. MaxBatch : batch \in Injection(1 .. n, HealthCheck \ requested)
  BY DEF Batches
<1>3. /\ batch \in [1 .. n -> HealthCheck \ requested] /\ IsInjective(batch) /\ n \in Nat
      /\ Range(batch) \subseteq HealthCheck \ requested /\ ToSet(batch) = Range(batch)
  BY <1>2, BatchAssumption DEF Injection, Range, ToSet
<1>4. batch \in Seq(requested')
  <2>1. batch \in [1 .. n -> requested']
    BY <1>1, <1>3 DEF Range
  <2> QED  BY <1>3, <2>1
<1>5. Queue' = Queue /\ Outgoing' = Outgoing /\ ToSet(signals') = ToSet(signals)
  BY <1>1 DEF Queue, Outgoing
<1>6. Types'
  <2>1. \A s \in Seq(requested) : s \in Seq(requested')
    BY <1>1, SeqMonotonic
  <2> QED  BY <1>1, <1>3, <1>4, <1>5, <2>1 DEF Types
<1>7. PhaseInv'
  BY <1>1, <1>3, <1>5, QueueTypes DEF PhaseInv
<1>8. CountInv'
  BY <1>1, CountsUnchanged
<1>9. OneEntryPerSite' /\ WaitsOnlyWhenFull'
  BY <1>1, <1>5 DEF OneEntryPerSite, WaitsOnlyWhenFull
<1> QED  BY <1>6, <1>7, <1>8, <1>9

LEMMA addCheckStep ==
  ASSUME IInv, addCheck
  PROVE  IInv'
<1> USE DEF IInv
<1> DEFINE hc == Head(adding)
<1>1. /\ adding # <<>> /\ adding' = Tail(adding)
      /\ UNCHANGED <<requested, m_checking, checking, running, results, sending>>
      /\ IF haveCheck(hc)
           THEN UNCHANGED <<m_checks, thread_index, signals>>
           ELSE /\ m_checks' = Append(m_checks, hc)
                /\ IF m_checking < Limit
                     THEN /\ thread_index' = [thread_index EXCEPT ![hc] = PRE_ASSIGNED]
                          /\ signals' = Append(signals, hc)
                     ELSE UNCHANGED <<thread_index, signals>>
  BY DEF addCheck, Locked
<1>2. /\ hc \in ToSet(adding) /\ adding' \in Seq(requested) /\ IsInjective(adding')
      /\ ToSet(adding') = ToSet(adding) \ {hc}
  BY <1>1, TailSet DEF Types
<1>3. /\ hc \in requested /\ hc \in HealthCheck /\ thread_index[hc] = NOT_ASSIGNED
      /\ hc \notin Queue /\ hc \notin Outgoing /\ hc \notin ToSet(signals) /\ hc \notin running
  BY <1>2, QueueTypes DEF PhaseInv, Types
<1> HIDE DEF hc
<1>4. Outgoing' = Outgoing
  BY <1>1 DEF Outgoing
<1>5. CASE haveCheck(hc)
  <2>1. UNCHANGED <<m_checks, thread_index, signals>> /\ Queue' = Queue
    BY <1>1, <1>5 DEF Queue
  <2>2. Types'
    BY <1>1, <1>2, <1>4, <2>1 DEF Types
  <2>3. PhaseInv'
    BY <1>1, <1>2, <1>4, <2>1 DEF PhaseInv
  <2>4. CountInv'
    BY <1>1, <2>1, CountsUnchanged
  <2> QED  BY <1>1, <2>1, <2>2, <2>3, <2>4 DEF OneEntryPerSite, WaitsOnlyWhenFull
<1>6. CASE ~haveCheck(hc)
  <2>1. m_checks' = Append(m_checks, hc)
    BY <1>1, <1>6
  <2>2. m_checks' \in Seq(requested) /\ Queue' = Queue \cup {hc} /\ IsInjective(m_checks')
    BY <1>3, <2>1, AppendSet DEF Types, Queue
  <2>3. OneEntryPerSite'
    <3>1. \A h \in Queue : site[h] # site[hc]
      BY <1>6 DEF haveCheck, Queue
    <3> QED  BY <2>2, <3>1 DEF OneEntryPerSite
  <2>4. CASE m_checking < Limit
    <3>1. /\ thread_index' = [thread_index EXCEPT ![hc] = PRE_ASSIGNED]
          /\ signals' = Append(signals, hc)
      BY <1>1, <1>6, <2>4
    <3>2. /\ signals' \in Seq(requested) /\ IsInjective(signals')
          /\ ToSet(signals') = ToSet(signals) \cup {hc}
      BY <1>3, <3>1, AppendSet DEF Types
    <3>3. /\ thread_index'[hc] = PRE_ASSIGNED
          /\ \A h \in HealthCheck : h # hc => thread_index'[h] = thread_index[h]
      BY <1>3, <3>1 DEF Types
    <3>4. Types'
      BY <1>1, <1>2, <1>3, <1>4, <2>2, <3>1, <3>2 DEF Types
    <3>5. PhaseInv'
      BY <1>1, <1>2, <1>3, <1>4, <2>2, <3>2, <3>3, QueueTypes, Marks DEF PhaseInv, Types
    <3>6. CountInv'
      BY <1>1, <1>3, <3>3, CountsUnchanged DEF Types
    <3>7. WaitsOnlyWhenFull'
      BY <1>1, <2>2, <3>3, Marks, QueueTypes DEF WaitsOnlyWhenFull, Queue, Types
    <3> QED  BY <2>3, <3>4, <3>5, <3>6, <3>7
  <2>5. CASE ~(m_checking < Limit)
    <3>1. UNCHANGED <<thread_index, signals>>
      BY <1>1, <1>6, <2>5
    <3>2. Types'
      BY <1>1, <1>2, <1>4, <2>2, <3>1 DEF Types
    <3>3. PhaseInv'
      BY <1>1, <1>2, <1>3, <1>4, <2>2, <3>1, Marks DEF PhaseInv
    <3>4. CountInv'
      BY <1>1, <3>1, CountsUnchanged
    <3>5. WaitsOnlyWhenFull'
      <4>1. m_checking \in Nat /\ Limit \in Nat
        BY RunnersAssumption, FS_CardinalityType DEF CountInv, CountsOf, Types, Limit
      <4>2. m_checking >= Limit
        BY <2>5, <4>1
      <4> QED  BY <1>1, <4>2 DEF WaitsOnlyWhenFull, Limit
    <3> QED  BY <2>3, <3>2, <3>3, <3>4, <3>5
  <2> QED  BY <2>4, <2>5
<1> QED  BY <1>5, <1>6
(***************************************************************************)
(* The main thread: the counters when a check is released and started.     *)
(***************************************************************************)
LEMMA StartCounts ==
  ASSUME thread_index \in [HealthCheck -> Runner \cup {NOT_ASSIGNED, PRE_ASSIGNED}],
         NEW load \in [Runner -> Nat], NEW started, NEW runs \in SUBSET HealthCheck,
         IsFiniteSet(runs), CountsOf(started, load, runs),
         NEW hc \in HealthCheck \ runs, start(hc, started, load, runs)
  PROVE  /\ CountInv' /\ running' = runs \cup {hc} /\ IsFiniteSet(running')
         /\ m_checking' = started + 1 /\ started \in Nat
         /\ thread_index' \in [HealthCheck -> Runner \cup {NOT_ASSIGNED, PRE_ASSIGNED}]
         /\ thread_index'[hc] \in Runner
         /\ \A h \in HealthCheck : h # hc => thread_index'[h] = thread_index[h]
<1> DEFINE runner == selectRunner(load)
           on(r)  == {h \in runs : thread_index[h] = r}
           on2(r) == {h \in running' : thread_index'[h] = r}
<1>1. /\ m_checking' = started + 1 /\ running' = runs \cup {hc}
      /\ checking' = [load EXCEPT ![runner] = @ + 1]
      /\ thread_index' = [thread_index EXCEPT ![hc] = runner]
  BY DEF start
<1>2. runner \in Runner /\ (runner # 0 => load[runner] < MAX_CHECKS)
  BY RunnerIsSelected
<1> HIDE DEF runner
<1>3. IsFiniteSet(running') /\ Cardinality(running') = Cardinality(runs) + 1
  BY <1>1, FS_AddElement
<1>4. started \in Nat /\ started = Cardinality(runs)
  BY FS_CardinalityType DEF CountsOf
<1>5. /\ thread_index'[hc] = runner
      /\ \A h \in HealthCheck : h # hc => thread_index'[h] = thread_index[h]
  BY <1>1
<1>6. checking' \in [Runner -> Nat]
  BY <1>1, <1>2
<1>7. ASSUME NEW r \in Runner
      PROVE  checking'[r] = Cardinality(on2(r))
  <2>1. IsFiniteSet(on(r)) /\ load[r] = Cardinality(on(r))
    BY FS_Subset DEF CountsOf
  <2>2. CASE r = runner
    <3>1. on2(r) = on(r) \cup {hc} /\ hc \notin on(r)
      BY <1>1, <1>5, <2>2
    <3>2. checking'[r] = load[r] + 1
      BY <1>1, <1>2, <2>2
    <3> HIDE DEF on, on2
    <3>3. Cardinality(on2(r)) = Cardinality(on(r)) + 1
      BY <2>1, <3>1, FS_AddElement
    <3> QED  BY <2>1, <3>2, <3>3
  <2>3. CASE r # runner
    <3>1. on2(r) = on(r)
      BY <1>1, <1>5, <2>3
    <3> HIDE DEF on, on2
    <3> QED  BY <1>1, <1>2, <2>1, <2>3, <3>1
  <2> QED  BY <2>2, <2>3
<1>8. ASSUME NEW r \in Runner \ {0} PROVE checking'[r] <= MAX_CHECKS
  <2>1. load[r] \in Nat /\ load[r] <= MAX_CHECKS /\ MAX_CHECKS \in Nat
    BY RunnersAssumption DEF CountsOf
  <2>2. CASE r = runner
    BY <1>1, <1>2, <2>1, <2>2
  <2>3. CASE r # runner
    BY <1>1, <2>1, <2>3
  <2> QED  BY <2>2, <2>3
<1>9. CountInv'
  BY <1>1, <1>3, <1>4, <1>6, <1>7, <1>8 DEF CountInv, CountsOf
<1> QED  BY <1>1, <1>2, <1>3, <1>4, <1>5, <1>9

LEMMA ReleasedCounts ==
  ASSUME Types, CountInv, NEW hc \in running, thread_index[hc] \in Runner
  PROVE  LET load == Released(thread_index[hc])
         IN  /\ load \in [Runner -> Nat] /\ IsFiniteSet(running \ {hc})
             /\ CountsOf(m_checking - 1, load, running \ {hc})
<1> DEFINE runner == thread_index[hc]
           load   == Released(runner)
           on(r)  == {h \in running : thread_index[h] = r}
           on2(r) == {h \in running \ {hc} : thread_index[h] = r}
<1>1. load = [checking EXCEPT ![runner] = checking[runner] - 1]
  BY DEF Released
<1>2. /\ IsFiniteSet(running \ {hc})
      /\ Cardinality(running \ {hc}) = Cardinality(running) - 1
  BY FS_RemoveElement DEF Types
<1>3. ASSUME NEW r \in Runner
      PROVE  /\ load[r] = Cardinality(on2(r)) /\ load[r] \in Nat
             /\ load[r] <= checking[r] /\ checking[r] \in Nat
  <2>1. IsFiniteSet(on(r)) /\ checking[r] = Cardinality(on(r)) /\ checking[r] \in Nat
    BY FS_Subset DEF CountInv, CountsOf, Types
  <2>2. CASE r = runner
    <3>1. on2(r) = on(r) \ {hc} /\ hc \in on(r)
      BY <2>2
    <3>2. load[r] = checking[r] - 1
      BY <1>1, <2>2 DEF CountInv
    <3> HIDE DEF on, on2, load
    <3>3. IsFiniteSet(on2(r)) /\ Cardinality(on2(r)) = Cardinality(on(r)) - 1
      BY <2>1, <3>1, FS_RemoveElement
    <3>4. Cardinality(on2(r)) \in Nat
      BY <3>3, FS_CardinalityType
    <3> QED  BY <2>1, <3>2, <3>3, <3>4
  <2>3. CASE r # runner
    <3>1. on2(r) = on(r)
      BY <2>3
    <3>2. load[r] = checking[r]
      BY <1>1, <2>3 DEF CountInv
    <3> HIDE DEF on, on2, load
    <3> QED  BY <2>1, <3>1, <3>2
  <2> QED  BY <2>2, <2>3
<1>4. DOMAIN load = Runner /\ load = [r \in Runner |-> load[r]]
  BY <1>1 DEF CountInv
<1> HIDE DEF load
<1>5. load \in [Runner -> Nat]
  BY <1>3, <1>4
<1>6. \A r \in Runner \ {0} : load[r] <= MAX_CHECKS
  <2> SUFFICES ASSUME NEW r \in Runner \ {0} PROVE load[r] <= MAX_CHECKS
    OBVIOUS
  <2>1. checking[r] <= MAX_CHECKS /\ load[r] <= checking[r] /\ load[r] \in Nat /\ checking[r] \in Nat
    BY <1>3 DEF CountInv, CountsOf
  <2> QED  BY <2>1, RunnersAssumption
<1>7. m_checking - 1 = Cardinality(running \ {hc})
  BY <1>2 DEF CountInv, CountsOf
<1> QED  BY <1>2, <1>3, <1>5, <1>6, <1>7 DEF CountsOf, load

LEMMA startCheckingStep ==
  ASSUME IInv, startChecking
  PROVE  IInv'
<1> USE DEF IInv
<1> DEFINE hc == Head(signals)
<1>1. /\ signals # <<>> /\ signals' = Tail(signals)
      /\ start(hc, m_checking, checking, running)
      /\ UNCHANGED <<requested, adding, m_checks, results, sending>>
  BY DEF startChecking
<1>2. /\ hc \in ToSet(signals) /\ signals' \in Seq(requested) /\ IsInjective(signals')
      /\ ToSet(signals') = ToSet(signals) \ {hc}
  BY <1>1, TailSet DEF Types
<1>3. /\ hc \in Queue /\ hc \in requested /\ hc \in HealthCheck
      /\ thread_index[hc] = PRE_ASSIGNED /\ hc \notin running
  BY <1>2, QueueTypes, Marks DEF PhaseInv, Types
<1> HIDE DEF hc
<1>4. /\ running \in SUBSET HealthCheck /\ IsFiniteSet(running) /\ hc \in HealthCheck \ running
      /\ checking \in [Runner -> Nat] /\ CountsOf(m_checking, checking, running)
      /\ thread_index \in [HealthCheck -> Runner \cup {NOT_ASSIGNED, PRE_ASSIGNED}]
  BY <1>3 DEF Types, CountInv
<1>5. /\ CountInv' /\ running' = running \cup {hc} /\ IsFiniteSet(running')
      /\ m_checking' = m_checking + 1 /\ m_checking \in Nat
      /\ thread_index' \in [HealthCheck -> Runner \cup {NOT_ASSIGNED, PRE_ASSIGNED}]
      /\ thread_index'[hc] \in Runner
      /\ \A h \in HealthCheck : h # hc => thread_index'[h] = thread_index[h]
  <2>1. start(hc, m_checking, checking, running)
    BY <1>1
  <2> QED  BY <1>4, <2>1, StartCounts
<1>6. Queue' = Queue /\ Outgoing' = Outgoing
  BY <1>1 DEF Queue, Outgoing
<1>7. Types'
  BY <1>1, <1>2, <1>3, <1>5, <1>6 DEF Types
<1>8. PhaseInv'
  <2>1. hc \notin (HealthCheck \ requested) \cup ToSet(adding)
    BY <1>3 DEF PhaseInv
  <2>2. (HealthCheck \ requested) \cup ToSet(adding) \cup Queue \subseteq HealthCheck
    BY QueueTypes DEF Types
  <2> QED  BY <1>1, <1>2, <1>3, <1>5, <1>6, <2>1, <2>2, Marks DEF PhaseInv
<1>9. OneEntryPerSite' /\ WaitsOnlyWhenFull'
  <2>1. WaitsOnlyWhenFull'
    <3> SUFFICES ASSUME NEW h \in Queue, thread_index'[h] = NOT_ASSIGNED
                 PROVE  m_checking' >= Limit
      BY <1>1, <1>6 DEF WaitsOnlyWhenFull, Queue, Limit
    <3>1. thread_index[h] = NOT_ASSIGNED
      BY <1>5, QueueTypes, Marks DEF Types
    <3>2. m_checking >= Limit /\ Limit \in Nat
      BY <3>1, RunnersAssumption DEF WaitsOnlyWhenFull, Queue, Limit
    <3> QED  BY <1>5, <3>2
  <2> QED  BY <1>6, <2>1 DEF OneEntryPerSite
<1> QED  BY <1>5, <1>7, <1>8, <1>9
(***************************************************************************)
(* A check ends: the entry found by its site is its own, and it waits      *)
(* neither in the queue nor for a signal any more.                         *)
(***************************************************************************)
LEMMA OwnEntryIsFreed ==
  ASSUME IInv, NEW hc \in running, finishedChecking(hc)
  PROVE  /\ hc \in Queue /\ hc \in requested /\ thread_index[hc] \in Runner
         /\ hc \notin Outgoing /\ hc \notin ToSet(signals) /\ hc \notin ToSet(adding)
         /\ m_checks' \in Seq(requested) /\ IsInjective(m_checks')
         /\ Queue' = Queue \ {hc} /\ results' = results \cup {hc} /\ sending' = sending
<1> USE DEF IInv
<1> DEFINE at == SelectInSeq(m_checks, LAMBDA h : site[h] = site[hc])
<1>1. /\ hc \in Queue /\ hc \in requested /\ thread_index[hc] \in Runner
      /\ hc \notin Outgoing /\ hc \notin ToSet(signals) /\ hc \notin ToSet(adding)
  BY Marks DEF PhaseInv, Types
<1>2. /\ m_checks' = RemoveAt(m_checks, at) /\ results' = results \cup {m_checks[at]}
      /\ sending' = sending
  BY DEF finishedChecking
<1>3. at \in DOMAIN m_checks /\ site[m_checks[at]] = site[hc]
  BY <1>1, QueueTypes, EntryIsFound DEF Queue
<1> HIDE DEF at
<1>4. m_checks[at] = hc
  BY <1>1, <1>3 DEF OneEntryPerSite, Queue, ToSet
<1>5. /\ m_checks' \in Seq(requested) /\ IsInjective(m_checks')
      /\ ToSet(m_checks') = ToSet(m_checks) \ {hc}
  BY <1>2, <1>3, <1>4, RemoveAtSet DEF Types
<1> QED  BY <1>1, <1>2, <1>4, <1>5 DEF Queue

LEMMA finishedCheckingStep ==
  ASSUME IInv, NEW hc \in running, finishedChecking(hc)
  PROVE  IInv'
<1> USE DEF IInv
<1> DEFINE load == Released(thread_index[hc])
           runs == running \ {hc}
           next == Waiting(m_checking - 1, m_checks')
           h1   == m_checks'[FirstOf(m_checks', next)]
<1>1. /\ hc \in Queue /\ hc \in requested /\ thread_index[hc] \in Runner
      /\ hc \notin Outgoing /\ hc \notin ToSet(signals) /\ hc \notin ToSet(adding)
      /\ m_checks' \in Seq(requested) /\ IsInjective(m_checks')
      /\ Queue' = Queue \ {hc} /\ results' = results \cup {hc} /\ sending' = sending
  BY OwnEntryIsFreed
<1>2. /\ UNCHANGED <<requested, adding, signals>>
      /\ IF next = {}
           THEN /\ m_checking' = m_checking - 1
                /\ checking' = load /\ running' = runs
                /\ UNCHANGED thread_index
           ELSE start(h1, m_checking - 1, load, runs)
  BY DEF finishedChecking
<1>3. /\ load \in [Runner -> Nat] /\ IsFiniteSet(runs) /\ CountsOf(m_checking - 1, load, runs)
      /\ runs \in SUBSET HealthCheck
  BY <1>1, ReleasedCounts DEF Types
<1>4. next = {h \in Queue' : m_checking - 1 < Limit /\ thread_index[h] = NOT_ASSIGNED}
  BY DEF Waiting, Queue
<1> HIDE DEF load, runs, next, h1
<1>5. runs = running \ {hc} /\ m_checking \in Nat /\ Limit \in Nat /\ Limit' = Limit
  BY RunnersAssumption, FS_CardinalityType DEF runs, CountInv, CountsOf, Types, Limit
<1>6. Outgoing' = Outgoing \cup {hc} /\ IsFiniteSet(Outgoing')
  <2>1. Outgoing' = Outgoing \cup {hc}
    BY <1>1 DEF Outgoing
  <2> QED  BY <2>1, FS_AddElement DEF Types
<1>7. Queue' \subseteq Queue /\ Queue \subseteq HealthCheck /\ OneEntryPerSite'
  BY <1>1, QueueTypes DEF OneEntryPerSite, Types
<1>8. CASE next = {}
  <2>1. /\ m_checking' = m_checking - 1 /\ checking' = load /\ running' = runs
        /\ thread_index' = thread_index
    BY <1>2, <1>8
  <2>2. Types'
    BY <1>1, <1>2, <1>3, <1>5, <1>6, <2>1 DEF Types
  <2>3. PhaseInv'
    BY <1>1, <1>2, <1>5, <1>6, <2>1 DEF PhaseInv
  <2>4. CountInv'
    BY <1>3, <2>1 DEF CountInv, CountsOf
  <2>5. WaitsOnlyWhenFull'
    <3> SUFFICES ASSUME NEW h \in Queue', thread_index[h] = NOT_ASSIGNED
                 PROVE  m_checking - 1 >= Limit
      BY <1>5, <2>1 DEF WaitsOnlyWhenFull, Queue
    <3>1. ~(m_checking - 1 < Limit)
      BY <1>4, <1>8
    <3> QED  BY <1>5, <3>1
  <2> QED  BY <1>7, <2>2, <2>3, <2>4, <2>5
<1>9. CASE next # {}
  <2>1. h1 \in next
    <3>1. m_checks' \in Seq(HealthCheck) /\ next \in SUBSET ToSet(m_checks')
      BY <1>1, <1>4, SeqMonotonic DEF Types, Queue
    <3> QED  BY <1>9, <3>1, FirstOfIsIn DEF h1
  <2>2. /\ h1 \in Queue' /\ h1 \in Queue /\ h1 # hc /\ h1 \in HealthCheck
        /\ thread_index[h1] = NOT_ASSIGNED /\ m_checking - 1 < Limit
    BY <1>1, <1>4, <1>7, <2>1
  <2>3. /\ h1 \notin running /\ h1 \notin runs /\ h1 \notin ToSet(signals)
        /\ h1 \notin Outgoing /\ h1 \notin ToSet(adding) /\ h1 \in requested
    BY <1>5, <2>2, QueueTypes, Marks DEF PhaseInv
  <2>4. /\ CountInv' /\ running' = runs \cup {h1} /\ IsFiniteSet(running')
        /\ m_checking' = m_checking - 1 + 1
        /\ thread_index' \in [HealthCheck -> Runner \cup {NOT_ASSIGNED, PRE_ASSIGNED}]
        /\ thread_index'[h1] \in Runner
        /\ \A h \in HealthCheck : h # h1 => thread_index'[h] = thread_index[h]
    <3>1. /\ start(h1, m_checking - 1, load, runs) /\ h1 \in HealthCheck \ runs
          /\ thread_index \in [HealthCheck -> Runner \cup {NOT_ASSIGNED, PRE_ASSIGNED}]
      BY <1>2, <1>9, <2>2, <2>3 DEF Types
    <3> QED  BY <1>3, <3>1, StartCounts
  <2>5. Types'
    BY <1>1, <1>2, <1>5, <1>6, <2>3, <2>4 DEF Types
  <2>6. PhaseInv'
    <3>1. h1 \notin (HealthCheck \ requested) \cup ToSet(adding)
      BY <2>3
    <3>2. (HealthCheck \ requested) \cup ToSet(adding) \subseteq HealthCheck
      BY QueueTypes DEF Types
    <3> QED
      BY <1>1, <1>2, <1>5, <1>6, <1>7, <2>2, <2>3, <2>4, <3>1, <3>2, Marks DEF PhaseInv
  <2>7. WaitsOnlyWhenFull'
    <3> SUFFICES ASSUME NEW h \in Queue', thread_index'[h] = NOT_ASSIGNED
                 PROVE  m_checking' >= Limit
      BY <1>5 DEF WaitsOnlyWhenFull, Queue
    <3>1. h # h1 /\ thread_index[h] = NOT_ASSIGNED /\ h \in Queue
      BY <1>7, <2>4, Marks
    <3>2. m_checking >= Limit
      BY <3>1 DEF WaitsOnlyWhenFull, Queue
    <3> QED  BY <1>5, <2>4, <3>2
  <2> QED  BY <1>7, <2>4, <2>5, <2>6, <2>7
<1> QED  BY <1>8, <1>9

(***************************************************************************)
(* Results are taken, posted, and forgotten.                               *)
(***************************************************************************)
LEMMA OutgoingStep ==
  ASSUME IInv, Outgoing' \subseteq Outgoing, results' \cup UNION sending' \subseteq requested,
         UNCHANGED <<requested, adding, m_checks, thread_index, signals, m_checking,
                     checking, running>>
  PROVE  IInv'
<1> USE DEF IInv
<1>1. Queue' = Queue
  BY DEF Queue
<1>2. Types'
  <2>1. IsFiniteSet(Outgoing')
    BY FS_Subset DEF Types
  <2> QED  BY <2>1 DEF Types
<1>3. PhaseInv'
  BY <1>1 DEF PhaseInv
<1> QED  BY <1>1, <1>2, <1>3, CountsUnchanged DEF OneEntryPerSite, WaitsOnlyWhenFull

LEMMA TakenIsOutgoing ==
  ASSUME IInv, ticked
  PROVE  Outgoing' = Outgoing
<1>1. results' = {} /\ sending' = sending \cup Taken
  BY DEF ticked
<1>2. UNION Taken = results
  <2>1. \A h \in results : jetmon_server[h] \in JetmonServer
    BY CheckAssumption DEF IInv, Types
  <2>2. \A h \in results : {g \in results : jetmon_server[g] = jetmon_server[h]} \in Taken
    BY <2>1 DEF Taken
  <2>3. \A post \in Taken : post \subseteq results
    BY DEF Taken
  <2>4. results \subseteq UNION Taken
    <3> SUFFICES ASSUME NEW h \in results PROVE \E post \in Taken : h \in post
      OBVIOUS
    <3>1. h \in {g \in results : jetmon_server[g] = jetmon_server[h]}
      OBVIOUS
    <3> QED  BY <2>2, <3>1
  <2>5. UNION Taken \subseteq results
    BY <2>3
  <2> QED  BY <2>4, <2>5
<1> QED  BY <1>1, <1>2 DEF Outgoing

LEMMA StepInv ==
  ASSUME IInv, [Next]_vars
  PROVE  IInv'
<1>1. Outgoing \subseteq requested
  BY QueueTypes DEF IInv
<1>2. CASE ticked
  <2>1. Outgoing' = Outgoing
    BY <1>2, TakenIsOutgoing
  <2> QED  BY <1>1, <1>2, <2>1, OutgoingStep DEF ticked, Outgoing
<1>3. ASSUME NEW post \in sending, finishedSending(post) PROVE IInv'
  <2>1. Outgoing' \subseteq Outgoing
    BY <1>3 DEF finishedSending, Outgoing
  <2> QED  BY <1>1, <1>3, <2>1, OutgoingStep DEF finishedSending, Outgoing
<1>4. CASE UNCHANGED vars
  <2>1. Outgoing' = Outgoing
    BY <1>4 DEF vars, Outgoing
  <2> QED  BY <1>1, <1>4, <2>1, OutgoingStep DEF vars, Outgoing
<1> QED
  BY <1>2, <1>3, <1>4, addChecksStep, addCheckStep, startCheckingStep, finishedCheckingStep
     DEF Next, finishSome
-----------------------------------------------------------------------------
(***************************************************************************)
(* The invariant holds in every reachable state.                           *)
(***************************************************************************)
THEOREM InvariantHolds == Spec => []IInv
<1>1. IInv /\ [Next]_vars => IInv'
  BY StepInv
<1> QED  BY InitInv, <1>1, PTL DEF Spec

(***************************************************************************)
(* m_checking and the runners' counters, which client threads read while   *)
(* the main thread changes them, are the numbers of checks at work, and    *)
(* selectRunner overloads no runner but the first.                         *)
(***************************************************************************)
THEOREM TypeCorrect == Spec => []TypeOK
<1>1. IInv => TypeOK
  <2> SUFFICES ASSUME IInv PROVE TypeOK
    OBVIOUS
  <2>1. \A r \in Runner : checking[r] = Cardinality(RunsOn(r))
    BY DEF IInv, CountInv, CountsOf, RunsOn
  <2> QED  BY <2>1 DEF IInv, Types, CountInv, CountsOf, TypeOK
<1> QED  BY <1>1, InvariantHolds, PTL

(***************************************************************************)
(* Whatever a queued signal or an HTTP_Checker points to is still in the   *)
(* queue: finishedChecking frees the entry it finds by the site, and that  *)
(* is always the entry of the check that ended.                            *)
(***************************************************************************)
THEOREM NoCheckDangles == Spec => []NoDanglingCheck
<1>1. IInv => NoDanglingCheck
  BY DEF IInv, PhaseInv, OneEntryPerSite, NoDanglingCheck, Queue
<1> QED  BY <1>1, InvariantHolds, PTL

(***************************************************************************)
(* addCheck decides by a counter that startChecking has yet to raise; even *)
(* so a check is left waiting only while m_checking is at its limit, when  *)
(* there are checks whose end will start it.                               *)
(***************************************************************************)
THEOREM WaitingMeansFull == Spec => []WaitsOnlyWhenFull
<1>1. IInv => WaitsOnlyWhenFull
  BY DEF IInv
<1> QED  BY <1>1, InvariantHolds, PTL

-----------------------------------------------------------------------------
(***************************************************************************)
(* The refinement: the sites in the queue are pending, and what is going   *)
(* out about a site are its replies.                                       *)
(***************************************************************************)
PendingSites == {site[h] : h \in ToSet(m_checks)}

OutgoingOf(s) == {h \in Outgoing : site[h] = s}

LEMMA UnsentIsCount ==
  /\ Unsent = [s \in Site |-> Cardinality(OutgoingOf(s))]
  /\ Unsent' = [s \in Site |-> Cardinality(OutgoingOf(s)')]
BY DEF Unsent, OutgoingOf, Outgoing

LEMMA OutgoingOfFinite ==
  ASSUME IInv, NEW s
  PROVE  IsFiniteSet(OutgoingOf(s)) /\ Cardinality(OutgoingOf(s)) \in Nat
<1>1. IsFiniteSet(OutgoingOf(s))
  BY FS_Subset DEF IInv, Types, OutgoingOf
<1> QED  BY <1>1, FS_CardinalityType

LEMMA PromiseInit == Init => Promise!Init
<1> SUFFICES ASSUME Init PROVE Promise!Init
  OBVIOUS
<1>1. ToSet(m_checks) = {} /\ Outgoing = {}
  BY DEF Init, ToSet, Outgoing
<1>2. \A s : OutgoingOf(s) = {}
  BY <1>1 DEF OutgoingOf
<1>3. Unsent = [s \in Site |-> 0]
  BY <1>2, UnsentIsCount, FS_EmptySet
<1> QED  BY <1>1, <1>3 DEF Promise!Init

\* A check enters the queue unless its site is there.
LEMMA PromiseAddCheck ==
  ASSUME IInv, addCheck
  PROVE  \/ \E sites \in SUBSET Site : Promise!addChecks(sites)
         \/ UNCHANGED <<PendingSites, Unsent>>
<1> DEFINE hc == Head(adding)
<1>1. Unsent' = Unsent
  BY DEF addCheck, Unsent
<1>2. CASE haveCheck(hc)
  BY <1>1, <1>2 DEF addCheck, PendingSites
<1>3. CASE ~haveCheck(hc)
  <2>1. m_checks' = Append(m_checks, hc) /\ adding # <<>>
    BY <1>3 DEF addCheck, Locked
  <2>2. hc \in ToSet(adding)
    BY <2>1, TailSet DEF IInv, Types
  <2>3. hc \in requested /\ hc \in HealthCheck
    BY <2>2, QueueTypes DEF IInv, Types
  <2> HIDE DEF hc
  <2>4. ToSet(m_checks') = ToSet(m_checks) \cup {hc}
    BY <2>1, <2>3, AppendSet DEF IInv, Types
  <2>5. PendingSites' = PendingSites \cup {site[hc]}
    BY <2>4 DEF PendingSites
  <2>6. site[hc] \notin PendingSites /\ site[hc] \in Site
    BY <1>3, <2>3, CheckAssumption DEF PendingSites, haveCheck
  <2>7. PICK sites : sites = {site[hc]}
    OBVIOUS
  <2>8. sites \in SUBSET Site /\ Promise!addChecks(sites)
    BY <1>1, <2>5, <2>6, <2>7 DEF Promise!addChecks, PendingSites
  <2> QED  BY <2>8
<1> QED  BY <1>2, <1>3

\* A check leaves the queue for the outgoing results.
LEMMA PromiseFinishedChecking ==
  ASSUME IInv, NEW hc \in running, finishedChecking(hc)
  PROVE  site[hc] \in Site /\ Promise!finishedChecking(site[hc])
<1>1. /\ hc \in Queue /\ hc \in requested /\ hc \notin Outgoing
      /\ Queue' = Queue \ {hc} /\ results' = results \cup {hc} /\ sending' = sending
  BY OwnEntryIsFreed
<1>2. site[hc] \in Site
  BY <1>1, CheckAssumption DEF IInv, Types
<1>3. site[hc] \in PendingSites /\ PendingSites' = PendingSites \ {site[hc]}
  <2>1. \A h \in Queue : site[h] = site[hc] => h = hc
    BY <1>1 DEF IInv, OneEntryPerSite
  <2> QED  BY <1>1, <2>1 DEF PendingSites, Queue
<1>4. OutgoingOf(site[hc])' = OutgoingOf(site[hc]) \cup {hc} /\ hc \notin OutgoingOf(site[hc])
  BY <1>1 DEF OutgoingOf, Outgoing
<1>5. \A s \in Site : s # site[hc] => OutgoingOf(s)' = OutgoingOf(s)
  BY <1>1 DEF OutgoingOf, Outgoing
<1>6. Cardinality(OutgoingOf(site[hc])') = Cardinality(OutgoingOf(site[hc])) + 1
  BY <1>4, OutgoingOfFinite, FS_AddElement
<1>7. Unsent' = [Unsent EXCEPT ![site[hc]] = @ + 1]
  BY <1>2, <1>5, <1>6, UnsentIsCount
<1> QED  BY <1>2, <1>3, <1>7 DEF Promise!finishedChecking, PendingSites

\* A post arrives or is lost.
LEMMA PromiseFinishedSending ==
  ASSUME IInv, m_checks' = m_checks, Outgoing' \subseteq Outgoing
  PROVE  Promise!finishedSending
<1>1. ASSUME NEW s \in Site PROVE Unsent'[s] \in 0 .. Unsent[s]
  <2>1. OutgoingOf(s)' \subseteq OutgoingOf(s)
    BY DEF OutgoingOf
  <2>2. IsFiniteSet(OutgoingOf(s)) /\ Cardinality(OutgoingOf(s)) \in Nat
    BY OutgoingOfFinite
  <2>3. /\ IsFiniteSet(OutgoingOf(s)')
        /\ Cardinality(OutgoingOf(s)') <= Cardinality(OutgoingOf(s))
    BY <2>1, <2>2, FS_Subset
  <2>4. Cardinality(OutgoingOf(s)') \in Nat
    BY <2>3, FS_CardinalityType
  <2> QED  BY <2>2, <2>3, <2>4, UnsentIsCount
<1>2. DOMAIN Unsent' = Site
  BY UnsentIsCount
<1> QED  BY <1>1, <1>2 DEF Promise!finishedSending

LEMMA PromiseStep ==
  ASSUME IInv, [Next]_vars
  PROVE  [Promise!Next]_<<PendingSites, Unsent>>
<1> DEFINE Simulated == Promise!Next \/ UNCHANGED <<PendingSites, Unsent>>
<1>1. ASSUME UNCHANGED <<m_checks, Outgoing>> PROVE Simulated
  BY <1>1 DEF PendingSites, Unsent, Outgoing
<1>2. ASSUME NEW batch \in Batches, addChecks(batch) PROVE Simulated
  BY <1>1, <1>2 DEF addChecks, Outgoing
<1>3. CASE addCheck
  BY <1>3, PromiseAddCheck DEF Promise!Next
<1>4. CASE startChecking
  BY <1>1, <1>4 DEF startChecking, Outgoing
<1>5. CASE finishSome
  BY <1>5, PromiseFinishedChecking DEF finishSome, Promise!Next
<1>6. CASE ticked
  BY <1>1, <1>6, TakenIsOutgoing DEF ticked
<1>7. ASSUME NEW post \in sending, finishedSending(post) PROVE Simulated
  <2>1. m_checks' = m_checks /\ Outgoing' \subseteq Outgoing
    BY <1>7 DEF finishedSending, Outgoing
  <2> QED  BY <2>1, PromiseFinishedSending DEF Promise!Next
<1>8. CASE UNCHANGED vars
  BY <1>1, <1>8 DEF vars, Outgoing
<1> QED  BY <1>2, <1>3, <1>4, <1>5, <1>6, <1>7, <1>8 DEF Next

(***************************************************************************)
(* The controller, with its queue, runners, signals and two kinds of       *)
(* threads, does what Veriflier.tla promises the jetmon servers: one check *)
(* of a site at a time, one result for each, which leaves in some post.    *)
(***************************************************************************)
THEOREM ControllerKeepsPromise == Spec => ImplementsVeriflier
<1>1. IInv /\ [Next]_vars => [Promise!Next]_<<PendingSites, Unsent>>
  BY PromiseStep
<1> QED
  BY <1>1, PromiseInit, InvariantHolds, PTL
     DEF Spec, ImplementsVeriflier, Promise!Spec, PendingSites
=============================================================================
