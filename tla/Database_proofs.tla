--------------------------- MODULE Database_proofs ---------------------------
(***************************************************************************)
(* Proofs about Database.tla, for every set of callers and of checks,      *)
(* every connection limit and any number of configurations.                *)
(***************************************************************************)
EXTENDS Database, FiniteSetTheorems, TLAPS

(***************************************************************************)
(* What type correctness rests on: a query is made only with a cluster     *)
(* that was filled, or that load() reported as one it could not fill.      *)
(***************************************************************************)
UsableCluster == ~reloadConfig => poolCluster \in Version \cup {Partial}

IInv == TypeOK /\ ChangeNoticed /\ UsableCluster

Checks == [Check -> [phase : {"none", "script", "compare"}, mDate : Nat]]

(***************************************************************************)
(* The configuration is loaded before the first query.                     *)
(***************************************************************************)
LEMMA InitInv == Init => IInv
<1> SUFFICES ASSUME Init PROVE IInv
  OBVIOUS
<1>1. 1 \in Version /\ 1 \in Nat
  BY VersionAssumption DEF Version
<1>2. \A p \in Pool : /\ waiting[p] = <<>> /\ busy[p] = {} /\ lost[p] = 0
                     /\ Cardinality(busy[p]) + lost[p] <= ConnectionLimit
  BY LimitAssumption, FS_EmptySet DEF Init
<1>3. TypeOK
  <2>1. /\ waiting \in [Pool -> Seq(Query)] /\ busy \in [Pool -> SUBSET Query]
        /\ lost \in [Pool -> Nat]
    BY DEF Init
  <2>2. checks \in [Check -> [phase : {"none", "script", "compare"}, mDate : Nat]]
    BY DEF Init, NoCheck
  <2> QED  BY <1>1, <1>2, <2>1, <2>2 DEF Init, TypeOK
<1>4. ChangeNoticed /\ UsableCluster
  BY <1>1 DEF Init, ChangeNoticed, UsableCluster
<1> QED  BY <1>3, <1>4 DEF IInv

(***************************************************************************)
(* Adding a query to the holders of a connection, when one is free.        *)
(***************************************************************************)
LEMMA OneMoreBusy ==
  ASSUME NEW held \in SUBSET Query, NEW q, NEW gone \in Nat,
         Cardinality(held) + gone < ConnectionLimit
  PROVE  Cardinality(held \cup {q}) + gone <= ConnectionLimit
<1>1. IsFiniteSet(held)
  BY QueryAssumption, FS_Subset
<1>2. /\ Cardinality(held) \in Nat
      /\ Cardinality(held \cup {q}) \in {Cardinality(held), Cardinality(held) + 1}
  BY <1>1, FS_CardinalityType, FS_AddElement
<1> QED  BY <1>2, LimitAssumption

\* A query that ends frees its connection, or loses it.
LEMMA OneLessBusy ==
  ASSUME NEW held \in SUBSET Query, NEW q \in held, NEW gone \in Nat,
         Cardinality(held) + gone <= ConnectionLimit
  PROVE  /\ Cardinality(held \ {q}) + gone <= ConnectionLimit
         /\ Cardinality(held \ {q}) + (gone + 1) <= ConnectionLimit
<1>1. IsFiniteSet(held)
  BY QueryAssumption, FS_Subset
<1>2. /\ Cardinality(held) \in Nat
      /\ Cardinality(held \ {q}) = Cardinality(held) - 1
  BY <1>1, FS_CardinalityType, FS_RemoveElement
<1> QED  BY <1>2, LimitAssumption

\* What does not change when only queries move on.
LEMMA ConfigKept ==
  ASSUME IInv, UNCHANGED configVars
  PROVE  /\ ChangeNoticed' /\ UsableCluster'
         /\ exported' \in Version /\ original' \in Version /\ conf' \in Version
         /\ poolCluster' \in Version \cup {Empty, Partial}
         /\ readable' \in BOOLEAN /\ reloadConfig' \in BOOLEAN /\ missed' \in BOOLEAN
         /\ checks' \in Checks
BY DEF configVars, loadVars, fileVars, IInv, TypeOK, ChangeNoticed, FindsChange, InPhase,
       UsableCluster, Checks

(***************************************************************************)
(* A call of execQuery, by a handler or from within a callback: it asks    *)
(* for a connection of a usable cluster, or throws and leaves the flag.    *)
(***************************************************************************)
LEMMA execQueryStep ==
  ASSUME IInv, NEW q \in Query, execQuery(q)
  PROVE  /\ ChangeNoticed' /\ UsableCluster'
         /\ exported' \in Version /\ original' \in Version /\ conf' \in Version
         /\ poolCluster' \in Version \cup {Empty, Partial}
         /\ readable' \in BOOLEAN /\ reloadConfig' \in BOOLEAN /\ missed' \in BOOLEAN
         /\ checks' \in Checks
         /\ waiting' \in [Pool -> Seq(Query)]
         /\ asked' \in [Query -> Version \cup {Partial}]
<1> USE DEF IInv
<1>1. UNCHANGED <<exported, original, conf, readable, checks>>
  BY DEF execQuery, fileVars
<1>2. /\ poolCluster' \in Version \cup {Empty, Partial}
      /\ reloadConfig' \in BOOLEAN /\ missed' \in BOOLEAN /\ UsableCluster'
      /\ (reloadConfig' \/ missed' \/ poolCluster' = conf
           \/ UNCHANGED <<poolCluster, reloadConfig, missed>>)
  <2>1. CASE reloadConfig /\ Loads
    BY <2>1, <1>1 DEF Loads, TypeOK, UsableCluster
  <2>2. CASE reloadConfig /\ LoadThrows
    BY <2>2, <1>1 DEF LoadThrows, TypeOK, UsableCluster
  <2>3. CASE ~reloadConfig
    BY <2>3, <1>1 DEF execQuery, loadVars, TypeOK, UsableCluster
  <2> QED  BY <2>1, <2>2, <2>3 DEF execQuery, reload
<1>3. ChangeNoticed'
  BY <1>1, <1>2 DEF ChangeNoticed, FindsChange, InPhase
<1>4. waiting' \in [Pool -> Seq(Query)] /\ asked' \in [Query -> Version \cup {Partial}]
  <2>1. CASE reloadConfig'
    BY <2>1 DEF execQuery, Threw, TypeOK
  <2>2. CASE ~reloadConfig'
    <3>1. /\ waiting' = [waiting EXCEPT !["SLAVE"] = Append(@, q)]
          /\ asked' = [asked EXCEPT ![q] = poolCluster']
      BY <2>2 DEF execQuery, Threw
    <3>2. poolCluster' \in Version \cup {Partial}
      BY <1>2, <2>2 DEF UsableCluster
    <3> QED  BY <3>1, <3>2 DEF TypeOK, Pool
  <2> QED  BY <2>1, <2>2
<1> QED  BY <1>1, <1>2, <1>3, <1>4 DEF TypeOK, Checks

LEMMA QueryIsMadeStep ==
  ASSUME IInv, NEW q \in Query, QueryIsMade(q)
  PROVE  IInv'
BY execQueryStep DEF QueryIsMade, IInv, TypeOK, Checks

(***************************************************************************)
(* A connection is given out, or not, and given back, or lost.             *)
(***************************************************************************)
LEMMA ConnectedStep ==
  ASSUME IInv, NEW p \in Pool, Connected(p)
  PROVE  IInv'
<1> USE DEF IInv
<1>1. /\ busy' = [busy EXCEPT ![p] = busy[p] \cup {Head(waiting[p])}]
      /\ waiting' = [waiting EXCEPT ![p] = Tail(waiting[p])]
      /\ UNCHANGED <<lost, asked, configVars>> /\ waiting[p] # <<>>
      /\ Cardinality(busy[p]) + lost[p] < ConnectionLimit
  BY DEF Connected, Free
<1>2. Head(waiting[p]) \in Query /\ Tail(waiting[p]) \in Seq(Query)
  BY <1>1 DEF TypeOK
<1>3. waiting' \in [Pool -> Seq(Query)] /\ busy' \in [Pool -> SUBSET Query]
  BY <1>1, <1>2 DEF TypeOK
<1>4. \A r \in Pool : Cardinality(busy'[r]) + lost'[r] <= ConnectionLimit
  <2>1. \A r \in Pool \ {p} : busy'[r] = busy[r] /\ lost'[r] = lost[r]
    BY <1>1 DEF TypeOK
  <2>2. /\ busy'[p] = busy[p] \cup {Head(waiting[p])} /\ busy[p] \in SUBSET Query
        /\ lost'[p] = lost[p] /\ lost[p] \in Nat
    BY <1>1 DEF TypeOK
  <2> QED  BY <1>1, <2>1, <2>2, OneMoreBusy DEF TypeOK
<1> QED  BY <1>1, <1>3, <1>4, ConfigKept DEF TypeOK, Checks

LEMMA ConnectFailsStep ==
  ASSUME IInv, NEW p \in Pool, ConnectFails(p)
  PROVE  IInv'
<1> USE DEF IInv
<1>1. UNCHANGED <<busy, lost, asked, configVars>> /\ waiting[p] # <<>>
  BY DEF ConnectFails
<1>2. Head(waiting[p]) \in Query /\ Tail(waiting[p]) \in Seq(Query)
  BY <1>1 DEF TypeOK
<1>3. waiting' \in [Pool -> Seq(Query)]
  <2>1. CASE p = "SLAVE"
    <3>1. Append(waiting["FAILOVER"], Head(waiting["SLAVE"])) \in Seq(Query)
      BY <1>2, <2>1 DEF TypeOK, Pool
    <3> QED  BY <1>2, <2>1, <3>1 DEF ConnectFails, TypeOK, Pool
  <2>2. CASE p # "SLAVE"
    BY <1>2, <2>2 DEF ConnectFails, TypeOK, Pool
  <2> QED  BY <2>1, <2>2
<1> QED  BY <1>1, <1>3, ConfigKept DEF TypeOK, Checks

\* The connections after query q of pool p has given back or lost its own.
LEMMA ConnectionsStep ==
  ASSUME TypeOK, NEW p \in Pool, NEW q \in busy[p],
         busy' = [busy EXCEPT ![p] = busy[p] \ {q}],
         lost' = lost \/ lost' = [lost EXCEPT ![p] = lost[p] + 1]
  PROVE  /\ busy' \in [Pool -> SUBSET Query] /\ lost' \in [Pool -> Nat]
         /\ \A r \in Pool : Cardinality(busy'[r]) + lost'[r] <= ConnectionLimit
<1>1. busy' \in [Pool -> SUBSET Query]
  BY DEF TypeOK
<1>2. lost' \in [Pool -> Nat]
  <2>1. lost \in [Pool -> Nat] /\ lost[p] + 1 \in Nat
    BY DEF TypeOK
  <2> QED  BY <2>1
<1>3. \A r \in Pool \ {p} : busy'[r] = busy[r] /\ lost'[r] = lost[r]
  BY DEF TypeOK
<1>4. /\ busy'[p] = busy[p] \ {q} /\ busy[p] \in SUBSET Query
      /\ lost'[p] \in {lost[p], lost[p] + 1} /\ lost[p] \in Nat
  BY DEF TypeOK
<1>5. Cardinality(busy[p]) + lost[p] <= ConnectionLimit
  BY DEF TypeOK
<1>6. Cardinality(busy'[p]) + lost'[p] <= ConnectionLimit
  BY <1>4, <1>5, OneLessBusy
<1> QED  BY <1>1, <1>2, <1>3, <1>6 DEF TypeOK

LEMMA QueryEndsStep ==
  ASSUME IInv, NEW p \in Pool, NEW q \in Query, QueryEnds(p, q)
  PROVE  IInv'
<1> USE DEF IInv
<1>1. /\ q \in busy[p] /\ busy' = [busy EXCEPT ![p] = busy[p] \ {q}]
      /\ lost' = lost /\ UNCHANGED <<waiting, asked, configVars>>
  BY DEF QueryEnds, Released
<1> QED  BY <1>1, ConnectionsStep, ConfigKept DEF TypeOK, Checks

LEMMA QueryEndsInAnotherStep ==
  ASSUME IInv, NEW p \in Pool, NEW q \in Query, NEW r \in Query,
         QueryEndsInAnother(p, q, r)
  PROVE  IInv'
<1> USE DEF IInv
<1>1. /\ q \in busy[p] /\ execQuery(r)
      /\ busy' = [busy EXCEPT ![p] = busy[p] \ {q}]
      /\ lost' = lost \/ lost' = [lost EXCEPT ![p] = lost[p] + 1]
  BY DEF QueryEndsInAnother, Released
<1> QED  BY <1>1, ConnectionsStep, execQueryStep DEF TypeOK, Checks

(***************************************************************************)
(* The checks for a new configuration.                                     *)
(***************************************************************************)
\* What does not change when only checks move on.
LEMMA LoadKept ==
  ASSUME IInv, checks' \in Checks, reloadConfig' \in BOOLEAN, missed' \in BOOLEAN,
         reloadConfig => reloadConfig',
         UNCHANGED <<queryVars, exported, poolCluster, fileVars>>
  PROVE  TypeOK' /\ UsableCluster'
BY DEF IInv, TypeOK, UsableCluster, queryVars, fileVars, Checks

LEMMA updateStep ==
  ASSUME IInv, NEW k \in Check, update(k)
  PROVE  IInv'
<1>1. /\ checks[k].phase = "none"
      /\ checks' = [checks EXCEPT ![k] = [phase |-> "script", mDate |-> original]]
      /\ UNCHANGED <<queryVars, exported, poolCluster, reloadConfig, missed, fileVars>>
  BY DEF update, InPhase, loadVars
<1>2. checks' \in Checks /\ \A i \in Check \ {k} : checks'[i] = checks[i]
  BY <1>1 DEF IInv, TypeOK, Checks, Version
<1>3. TypeOK' /\ UsableCluster'
  BY <1>1, <1>2, LoadKept DEF IInv, TypeOK
<1>4. ChangeNoticed'
  BY <1>1, <1>2 DEF IInv, ChangeNoticed, FindsChange, InPhase, fileVars
<1> QED  BY <1>3, <1>4 DEF IInv

LEMMA ScriptEndsStep ==
  ASSUME IInv, NEW k \in Check, ScriptEnds(k)
  PROVE  IInv'
<1>1. /\ checks[k].phase = "script"
      /\ checks' = [checks EXCEPT ![k].phase = "compare"]
      /\ UNCHANGED <<queryVars, exported, poolCluster, reloadConfig, missed, fileVars>>
  BY DEF ScriptEnds, InPhase, loadVars
<1>2. /\ checks' \in Checks /\ \A i \in Check \ {k} : checks'[i] = checks[i]
      /\ checks'[k].phase = "compare" /\ checks'[k].mDate = checks[k].mDate
  BY <1>1 DEF IInv, TypeOK, Checks
<1>3. TypeOK' /\ UsableCluster'
  BY <1>1, <1>2, LoadKept DEF IInv, TypeOK
<1>4. ChangeNoticed'
  BY <1>1, <1>2 DEF IInv, ChangeNoticed, FindsChange, InPhase, fileVars
<1> QED  BY <1>3, <1>4 DEF IInv

LEMMA GivesUpStep ==
  ASSUME IInv, NEW k \in Check, GivesUp(k)
  PROVE  IInv'
<1>1. /\ checks' = [checks EXCEPT ![k] = NoCheck]
      /\ missed' = (missed \/ FindsChange(k))
      /\ UNCHANGED <<queryVars, exported, poolCluster, reloadConfig, fileVars>>
  BY DEF GivesUp, Ended
<1>2. /\ checks' \in Checks /\ \A i \in Check \ {k} : checks'[i] = checks[i]
      /\ missed' \in BOOLEAN
  BY <1>1 DEF IInv, TypeOK, Checks, NoCheck, FindsChange, InPhase
<1>3. TypeOK' /\ UsableCluster'
  BY <1>1, <1>2, LoadKept DEF IInv, TypeOK
<1>4. ChangeNoticed'
  BY <1>1, <1>2 DEF IInv, ChangeNoticed, FindsChange, InPhase, fileVars
<1> QED  BY <1>3, <1>4 DEF IInv

LEMMA CompareStep ==
  ASSUME IInv, NEW k \in Check, Compare(k)
  PROVE  IInv'
<1>1. /\ checks' = [checks EXCEPT ![k] = NoCheck]
      /\ reloadConfig' = (reloadConfig \/ original > checks[k].mDate)
      /\ UNCHANGED <<queryVars, exported, poolCluster, missed, fileVars>>
  BY DEF Compare, mtime, Ended
<1>2. /\ checks' \in Checks /\ \A i \in Check \ {k} : checks'[i] = checks[i]
      /\ reloadConfig' \in BOOLEAN /\ (reloadConfig => reloadConfig')
      /\ FindsChange(k) => reloadConfig'
  BY <1>1 DEF IInv, TypeOK, Checks, Version, FindsChange, NoCheck
<1>3. TypeOK' /\ UsableCluster'
  BY <1>1, <1>2, LoadKept DEF IInv, TypeOK
<1>4. ChangeNoticed'
  BY <1>1, <1>2 DEF IInv, ChangeNoticed, FindsChange, InPhase, fileVars
<1> QED  BY <1>3, <1>4 DEF IInv

(***************************************************************************)
(* The files: what a check under way was to find, it still is.             *)
(***************************************************************************)
LEMMA FilesWrittenStep ==
  ASSUME IInv, FilesWritten
  PROVE  IInv'
<1> USE DEF IInv
<1>1. /\ original' \in {original, Latest + 1} /\ conf' \in {conf, Latest + 1}
      /\ Latest < MaxVersion
      /\ UNCHANGED <<queryVars, exported, poolCluster, reloadConfig, readable, checks>>
  BY DEF FilesWritten
<1>2. /\ original \in Version /\ conf \in Version
      /\ \A k \in Check : checks[k].mDate \in Nat
  BY DEF TypeOK
<1>3. /\ original' \in Version /\ conf' \in Version /\ original <= original'
  BY <1>1, <1>2, VersionAssumption DEF Latest, Version
<1>4. missed' \in BOOLEAN /\ (missed => missed')
  BY DEF FilesWritten, TypeOK
<1>5. TypeOK' /\ UsableCluster'
  BY <1>1, <1>3, <1>4 DEF TypeOK, UsableCluster, queryVars
<1>6. \A k \in Check : FindsChange(k) => FindsChange(k)'
  BY <1>1, <1>2, <1>3 DEF FindsChange, InPhase, Version
<1>7. conf' # conf => missed' \/ \E k \in Check : FindsChange(k)'
  <2> SUFFICES ASSUME conf' # conf, ~missed' PROVE \E k \in Check : FindsChange(k)'
    OBVIOUS
  <2>1. PICK k \in Check : ~InPhase(k, "none") /\ ~(checks[k].mDate >= original')
    BY DEF FilesWritten
  <2> QED  BY <1>1, <1>2, <1>3, <2>1 DEF FindsChange, InPhase, Version
<1>8. ChangeNoticed'
  BY <1>1, <1>4, <1>6, <1>7 DEF ChangeNoticed
<1> QED  BY <1>5, <1>8

LEMMA ReadableOrNotStep ==
  ASSUME IInv, ReadableOrNot
  PROVE  IInv'
BY DEF IInv, ReadableOrNot, queryVars, loadVars, TypeOK, ChangeNoticed, FindsChange, InPhase,
       UsableCluster

-----------------------------------------------------------------------------
LEMMA StepInv ==
  ASSUME IInv, [Next]_vars
  PROVE  IInv'
<1>1. ASSUME NEW q \in Query, QueryIsMade(q) PROVE IInv'
  BY <1>1, QueryIsMadeStep
<1>2. ASSUME NEW p \in Pool, Connected(p) \/ ConnectFails(p) PROVE IInv'
  BY <1>2, ConnectedStep, ConnectFailsStep
<1>3. ASSUME NEW p \in Pool, NEW q \in Query,
             QueryEnds(p, q) \/ \E r \in Query : QueryEndsInAnother(p, q, r)
      PROVE  IInv'
  BY <1>3, QueryEndsStep, QueryEndsInAnotherStep
<1>4. ASSUME NEW k \in Check, update(k) \/ ScriptEnds(k) \/ GivesUp(k) \/ Compare(k)
      PROVE  IInv'
  BY <1>4, updateStep, ScriptEndsStep, GivesUpStep, CompareStep
<1>5. CASE FilesWritten \/ ReadableOrNot
  BY <1>5, FilesWrittenStep, ReadableOrNotStep
<1>6. CASE UNCHANGED vars
  BY <1>6
     DEF vars, queryVars, configVars, loadVars, fileVars, IInv, TypeOK, ChangeNoticed,
         FindsChange, InPhase, UsableCluster
<1> QED  BY <1>1, <1>2, <1>3, <1>4, <1>5, <1>6 DEF Next

(***************************************************************************)
(* The invariant holds of every behaviour.                                 *)
(***************************************************************************)
THEOREM InvariantHolds == Spec => []IInv
<1> QED  BY InitInv, StepInv, PTL DEF Spec

(***************************************************************************)
(* Type correctness: no pool gives out more connections than its limit,    *)
(* those it has lost included, and no query is made with a cluster that    *)
(* was not filled because the file could not be read.                      *)
(***************************************************************************)
THEOREM TypeCorrect == Spec => []TypeOK
<1>1. IInv => TypeOK
  BY DEF IInv
<1> QED  BY <1>1, InvariantHolds, PTL

(***************************************************************************)
(* A version of the configuration is overlooked in none but the four ways  *)
(* that ChangeNoticed names, however many checks overlap.                  *)
(***************************************************************************)
THEOREM ChangeIsNoticed == Spec => []ChangeNoticed
<1>1. IInv => ChangeNoticed
  BY DEF IInv
<1> QED  BY <1>1, InvariantHolds, PTL
=============================================================================
