------------------------------ MODULE Database ------------------------------
(***************************************************************************)
(* The master's access to the database: execQuery (lib/database.js), the   *)
(* pools of connections it takes, and the periodic look for a new DB       *)
(* configuration (lib/dbpools.js).                                         *)
(*                                                                         *)
(* External: the pool cluster of mysql2, where a request for a connection  *)
(* waits in turn while all are taken, and fails when no node can be        *)
(* reached; and the two files of the configuration, DB_ORIGINAL_FILE whose *)
(* time is looked at and DB_CONF_FILE which is loaded: DB_UPDATE_SCRIPT or *)
(* anybody else may write either at any time.                              *)
(*                                                                         *)
(* Abstracted: a configuration is its version, which is also the time the  *)
(* file was written; the nodes of a name pattern are one pool.  Not here:  *)
(* the bucket cursor (Rounds.tla), and commitUpdates, whose list of        *)
(* statements nothing fills.                                               *)
(***************************************************************************)
EXTENDS Integers, Sequences, FiniteSets, SequencesExt

CONSTANTS Query,            \* callers of execQuery, each with one query at a time
          Check,            \* bound: checks for a new version at a time
          ConnectionLimit,  \* connections of a pool
          MaxVersion        \* bound: versions of the configuration

ASSUME QueryAssumption   == IsFiniteSet(Query)
ASSUME LimitAssumption   == ConnectionLimit \in Nat \ {0}
ASSUME VersionAssumption == MaxVersion \in Nat \ {0}

Pool    == {"SLAVE", "FAILOVER"}
Version == 1 .. MaxVersion
Empty   == 0    \* of a cluster that was made but not filled
Partial == -1   \* of one that load() gave up filling

VARIABLES
  waiting,       \* requests for a connection, by pool, in order
  busy,          \* queries that hold a connection, by pool
  lost,          \* connections that are never released, by pool
  exported,      \* the cluster execQuery uses: pool.cluster
  poolCluster,   \* the cluster that was loaded last
  asked,         \* history, by query: poolCluster when it asked for a connection
  original,      \* the mtime of DB_ORIGINAL_FILE
  conf,          \* the version in DB_CONF_FILE
  readable,      \* DB_CONF_FILE can be read
  reloadConfig,  \* a new version has been noticed
  checks,        \* the checks for a new version: their phase, and mDate
  missed         \* history: a version was overlooked in one of the known ways,
                 \* and no version has been loaded since

queryVars  == <<waiting, busy, lost, asked>>
loadVars   == <<poolCluster, reloadConfig, missed>>
fileVars   == <<original, conf, readable>>
configVars == <<exported, loadVars, fileVars, checks>>
vars       == <<queryVars, configVars>>

NoCheck == [phase |-> "none", mDate |-> 0]

\* The configuration is loaded when the module is, before the first query.
Init ==
  /\ waiting = [p \in Pool |-> <<>>] /\ busy = [p \in Pool |-> {}]
  /\ lost = [p \in Pool |-> 0] /\ asked = [q \in Query |-> 1]
  /\ exported = 1 /\ poolCluster = 1
  /\ original = 1 /\ conf = 1 /\ readable = TRUE
  /\ reloadConfig = FALSE /\ checks = [k \in Check |-> NoCheck] /\ missed = FALSE

-----------------------------------------------------------------------------
(***************************************************************************)
(* Queries.                                                                *)
(***************************************************************************)
InProgress(q) == \E p \in Pool : q \in busy[p] \cup ToSet(waiting[p])

Free(p) == Cardinality(busy[p]) + lost[p] < ConnectionLimit

\* Mutant of LoadThrows: the flag is reset before the reload, which may not work.
LoadThrowsAfterReset ==
  /\ ~readable
  /\ poolCluster' = Empty /\ reloadConfig' = FALSE /\ UNCHANGED missed

\* If the file cannot be read, an exception leaves the flag as it is.
LoadThrows ==
  /\ ~readable
  /\ poolCluster' = Empty /\ UNCHANGED <<reloadConfig, missed>>

\* load() returns true; or false, with the nodes it had come to, because the
\* name of the host does not tell its data centre.  The flag is reset.
Loads ==
  /\ readable
  /\ \/ poolCluster' = conf    /\ missed' = FALSE
     \/ poolCluster' = Partial /\ missed' = TRUE
  /\ reloadConfig' = FALSE

\* A new cluster is made, then filled; the exported one stays.
reload == Loads \/ LoadThrows

\* The exception ends the call: no query is made and nobody called back.
Threw == reloadConfig'

execQuery(q) ==
  /\ ~InProgress(q)
  /\ IF reloadConfig THEN reload ELSE UNCHANGED loadVars
  /\ IF Threw
       THEN UNCHANGED <<waiting, asked>>
       ELSE /\ waiting' = [waiting EXCEPT !["SLAVE"] = Append(@, q)]
            /\ asked' = [asked EXCEPT ![q] = poolCluster']
  /\ UNCHANGED <<exported, fileVars, checks>>

\* A query made by a handler or a timer.
QueryIsMade(q) == execQuery(q) /\ UNCHANGED <<busy, lost>>

Connected(p) ==
  /\ waiting[p] # <<>> /\ Free(p)
  /\ busy' = [busy EXCEPT ![p] = @ \cup {Head(waiting[p])}]
  /\ waiting' = [waiting EXCEPT ![p] = Tail(@)]
  /\ UNCHANGED <<lost, asked, configVars>>

\* No slave can be reached: a failover is tried.  No failover can: the caller
\* is called back with the error.
ConnectFails(p) ==
  /\ waiting[p] # <<>> /\ Free(p)
  /\ waiting' = IF p = "SLAVE"
                  THEN [waiting EXCEPT !["SLAVE"] = Tail(@),
                                       !["FAILOVER"] = Append(@, Head(waiting["SLAVE"]))]
                  ELSE [waiting EXCEPT !["FAILOVER"] = Tail(@)]
  /\ UNCHANGED <<busy, lost, asked, configVars>>

\* Mutant of Released: the connection of a failover is kept.
ReleasedIfSlave(p, q) == IF p = "SLAVE" THEN [busy EXCEPT ![p] = @ \ {q}] ELSE busy

Released(p, q) == [busy EXCEPT ![p] = @ \ {q}]

(***************************************************************************)
(* Rows or an error: the caller is called back, then the connection        *)
(* released.  The caller may query again from within its callback, as      *)
(* getMoreSites does when there are no rows; if that throws, the           *)
(* connection is never released.                                           *)
(***************************************************************************)
QueryEnds(p, q) ==
  /\ q \in busy[p]
  /\ busy' = Released(p, q)
  /\ UNCHANGED <<lost, waiting, asked, configVars>>

QueryEndsInAnother(p, q, r) ==
  /\ q \in busy[p]
  /\ execQuery(r)
  /\ IF Threw
       THEN /\ busy' = [busy EXCEPT ![p] = @ \ {q}]
            /\ lost' = [lost EXCEPT ![p] = @ + 1]
       ELSE /\ busy' = Released(p, q)
            /\ UNCHANGED lost

-----------------------------------------------------------------------------
(***************************************************************************)
(* The configuration.                                                      *)
(***************************************************************************)
InPhase(k, phase) == checks[k].phase = phase
Ended(k)          == [checks EXCEPT ![k] = NoCheck]

\* A check that has noted the time of the file, and finds it older than the
\* file is when it compares.
FindsChange(k) == ~InPhase(k, "none") /\ checks[k].mDate < original

\* Mutant of mtime: the comparison is made with the file as it is then.
mtimeNow(k) == original

mtime(k) == checks[k].mDate

\* The interval fires, and the time of the file is noted.
update(k) ==
  /\ InPhase(k, "none")
  /\ checks' = [checks EXCEPT ![k] = [phase |-> "script", mDate |-> original]]
  /\ UNCHANGED <<queryVars, exported, loadVars, fileVars>>

\* The script ends, with success and nothing printed.
ScriptEnds(k) ==
  /\ InPhase(k, "script")
  /\ checks' = [checks EXCEPT ![k].phase = "compare"]
  /\ UNCHANGED <<queryVars, exported, loadVars, fileVars>>

\* The script fails or prints, or the second stat fails.
GivesUp(k) ==
  /\ ~InPhase(k, "none")
  /\ checks' = Ended(k)
  /\ missed' = (missed \/ FindsChange(k))
  /\ UNCHANGED <<queryVars, exported, poolCluster, reloadConfig, fileVars>>

Compare(k) ==
  /\ InPhase(k, "compare")
  /\ checks' = Ended(k)
  /\ reloadConfig' = (reloadConfig \/ original > mtime(k))
  /\ UNCHANGED <<queryVars, exported, poolCluster, missed, fileVars>>

(***************************************************************************)
(* The script of a check, or anybody else, writes one file or both.  A     *)
(* check finds it if it began before, and if DB_ORIGINAL_FILE is written.  *)
(***************************************************************************)
Latest == IF conf > original THEN conf ELSE original

FilesWritten ==
  /\ Latest < MaxVersion
  /\ original' \in {original, Latest + 1} /\ conf' \in {conf, Latest + 1}
  /\ missed' = (missed \/ (conf' # conf /\
       \A k \in Check : InPhase(k, "none") \/ checks[k].mDate >= original'))
  /\ UNCHANGED <<queryVars, exported, poolCluster, reloadConfig, readable, checks>>

\* The file cannot be read for a while.
ReadableOrNot ==
  /\ readable' = ~readable
  /\ UNCHANGED <<queryVars, exported, loadVars, original, conf, checks>>

-----------------------------------------------------------------------------
Next ==
  \/ \E q \in Query : QueryIsMade(q)
  \/ \E p \in Pool : Connected(p) \/ ConnectFails(p)
  \/ \E p \in Pool, q \in Query :
       QueryEnds(p, q) \/ \E r \in Query : QueryEndsInAnother(p, q, r)
  \/ \E k \in Check : update(k) \/ ScriptEnds(k) \/ GivesUp(k) \/ Compare(k)
  \/ FilesWritten
  \/ ReadableOrNot

Spec == Init /\ [][Next]_vars

\* A connection that is free is given out or fails; queries end.
FairSpec ==
  /\ Spec
  /\ \A p \in Pool :
       /\ WF_vars(Connected(p) \/ ConnectFails(p))
       /\ \A q \in Query :
            WF_vars(QueryEnds(p, q) \/ \E r \in Query : QueryEndsInAnother(p, q, r))

-----------------------------------------------------------------------------
TypeOK ==
  /\ waiting \in [Pool -> Seq(Query)]
  /\ busy \in [Pool -> SUBSET Query]
  /\ lost \in [Pool -> Nat]
  /\ \A p \in Pool : Cardinality(busy[p]) + lost[p] <= ConnectionLimit
  /\ asked \in [Query -> Version \cup {Partial}]
  /\ exported \in Version /\ original \in Version /\ conf \in Version
  /\ poolCluster \in Version \cup {Empty, Partial}
  /\ readable \in BOOLEAN /\ reloadConfig \in BOOLEAN /\ missed \in BOOLEAN
  /\ checks \in [Check -> [phase : {"none", "script", "compare"}, mDate : Nat]]

(***************************************************************************)
(* A version is overlooked in no way but four: DB_CONF_FILE is written     *)
(* without DB_ORIGINAL_FILE, or between two checks, or the check during    *)
(* which it was written gives up, or load() returns false.  Else it is     *)
(* loaded, or a reload is due, or a check under way will find it, however  *)
(* checks overlap each other and reloads that throw.                       *)
(***************************************************************************)
ChangeNoticed ==
  poolCluster = conf \/ reloadConfig \/ missed \/ \E k \in Check : FindsChange(k)

(***************************************************************************)
(* Every query made calls back, whatever nodes cannot be reached, however  *)
(* many others wait and whichever callbacks have thrown, as long as no     *)
(* pool has lost all its connections to them.                              *)
(***************************************************************************)
QueriesAnswered ==
  \A q \in Query : InProgress(q) ~> \/ ~InProgress(q)
                                    \/ \E p \in Pool : lost[p] = ConnectionLimit

(***************************************************************************)
(* config.readme: "How frequently in minutes the database library should   *)
(* check for DB config changes in order to reload."  A query uses the      *)
(* configuration that had been loaded when it asked for a connection.      *)
(***************************************************************************)
ReloadTakesEffect ==
  \A q \in Query : InProgress(q) /\ asked[q] \in Version => exported = asked[q]
=============================================================================
