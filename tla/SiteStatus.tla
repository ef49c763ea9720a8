----------------------------- MODULE SiteStatus -----------------------------
(***************************************************************************)
(* The status of one site, from end to end: the row of the database that   *)
(* holds it, the server objects jetmon makes of the row, the verdicts of   *)
(* the workers (lib/httpcheck.js), the retries and confirmations of the    *)
(* master (lib/jetmon.js), the notifications (lib/wpcom.js) and the writes *)
(* that set the row anew (lib/database.js, or WPCOM).                      *)
(*                                                                         *)
(* Rounds overlap: the row is fetched again while an object of an earlier  *)
(* round is still in a queue, a notification on its way or a write under   *)
(* way, so a verdict may rest on a status that has been replaced since.    *)
(* `clean' marks what rests on the row as it stands; the program has no    *)
(* such mark, and only the notice period and a property read it.           *)
(*                                                                         *)
(* Abstracted: the worker's check and the master's handling of its verdict *)
(* are one step; the workers' queues and the master's are one pool         *)
(* (WorkerPool.tla); the verifliers (PeerConfirm.tla) are the number of    *)
(* times an entry posts, and an entry may be purged at any time.           *)
(***************************************************************************)
EXTENDS Integers, Bags, BagsExt

CONSTANTS NUM_OF_CHECKS,  \* config: failed checks before the verifliers are asked
          MaxConfirms,    \* peers that answer offline at or beyond the limit
          MaxCalls,       \* bound: callbacks of one notification
          MaxObjects,     \* bound: objects of the site under way
          MaxPosts,       \* bound: notifications, and writes, under way
          MaxFlips,       \* bound: times the site goes down or comes back
          MaxLosses       \* bound: objects and writes lost

ASSUME ChecksAssumption   == NUM_OF_CHECKS \in Nat \ {0}
ASSUME ConfirmsAssumption == MaxConfirms \in Nat \ {0}
ASSUME BoundsAssumption   == /\ MaxCalls \in Nat \ {0} /\ MaxObjects \in Nat \ {0}
                             /\ MaxPosts \in Nat \ {0}
                             /\ MaxFlips \in Nat /\ MaxLosses \in Nat

SITE_DOWN           == 0
SITE_RUNNING        == 1
SITE_CONFIRMED_DOWN == 2
Status              == {SITE_DOWN, SITE_RUNNING, SITE_CONFIRMED_DOWN}

VARIABLES
  up,       \* the site answers
  flips,    \* how often it has changed
  row,      \* its row: site_status, and whether the notice period has passed
  objects,  \* the server objects made of the row
  posts,    \* notifications sent to WPCOM
  writes,   \* updates of the row on their way
  losses    \* how many objects and writes have been lost

vars == <<up, flips, row, objects, posts, writes, losses>>

(***************************************************************************)
(* An object is in the pool, waiting for a worker or checked by one; in    *)
(* localRetries; or an entry of queuedRetries.  oldStatus is the status it *)
(* was fetched with, checks the number of failed checks in its `checks'.   *)
(***************************************************************************)
Place  == {"pool", "localRetries", "queuedRetries"}
Object == [place : Place, oldStatus : Status, checks : 0 .. NUM_OF_CHECKS,
           confirms : 0 .. MaxConfirms, clean : BOOLEAN]
Post   == [status : Status, retry : BOOLEAN, calls : 0 .. MaxCalls, clean : BOOLEAN]
Write  == [status : Status, clean : BOOLEAN]
Row    == [status : Status, noticeOver : BOOLEAN]

In(place) == {o \in BagToSet(objects) : o.place = place}
Moved(old, new) == BagAdd(BagRemove(objects, old), new)
Copies(e, bag)  == IF BagIn(e, bag) THEN bag[e] ELSE 0

\* Unmarked, the marked copies of an element join the unmarked ones.
Stale(bag) ==
  [e \in {[d EXCEPT !.clean = FALSE] : d \in BagToSet(bag)} |->
     Copies(e, bag) + Copies([e EXCEPT !.clean = TRUE], bag)]

Init ==
  /\ up \in BOOLEAN /\ flips = 0
  /\ row \in [status : Status, noticeOver : {FALSE}]
  /\ objects = EmptyBag /\ posts = EmptyBag /\ writes = EmptyBag
  /\ losses = 0

-----------------------------------------------------------------------------
(***************************************************************************)
(* Notifying WPCOM.  Each call sends one request and leads to one write of *)
(* the row: the UPDATE of updateSite when DB_UPDATES_ENABLE is set, else   *)
(* the one WPCOM makes when the request reaches it.  Neither the request   *)
(* nor the write waits for the other, or for those of other calls.         *)
(***************************************************************************)
\* `others' are the notifications that stay under way.
notifyStatusChange(others, status, retry, clean) ==
  /\ BagCardinality(others) < MaxPosts /\ BagCardinality(writes) < MaxPosts
  /\ posts' = BagAdd(others, [status |-> status, retry |-> retry,
                              calls |-> 0, clean |-> clean])
  /\ writes' = BagAdd(writes, [status |-> status, clean |-> clean])

retriesOn(post, success) == ~success /\ ~post.retry

\* The response, an error or a timeout: each calls back, and the request may
\* still be open after it.
Callback(post, success, open) ==
  LET others == IF open THEN BagAdd(BagRemove(posts, post),
                                    [post EXCEPT !.calls = @ + 1])
                        ELSE BagRemove(posts, post)
  IN  /\ open => post.calls + 1 < MaxCalls
      /\ IF retriesOn(post, success)
           THEN notifyStatusChange(others, post.status, TRUE, post.clean)
           ELSE posts' = others /\ UNCHANGED writes
      /\ UNCHANGED <<up, flips, row, objects, losses>>

\* A response without a body ends the request without a call.
NoCallback(post) ==
  /\ posts' = BagRemove(posts, post)
  /\ UNCHANGED <<up, flips, row, objects, writes, losses>>

-----------------------------------------------------------------------------
(***************************************************************************)
(* The row.                                                                *)
(***************************************************************************)
Store(w) ==
  /\ row' = [status |-> w.status, noticeOver |-> FALSE]
  /\ writes' = Stale(BagRemove(writes, w))
  /\ objects' = Stale(objects)
  /\ posts' = Stale(posts)
  /\ UNCHANGED <<up, flips, losses>>

\* TIME_BETWEEN_NOTICES_MIN after last_status_change.  Only the notice of a
\* confirmed outage waits for it.
NoticePeriodEnds ==
  /\ row.status = SITE_DOWN /\ ~row.noticeOver
  /\ row' = [row EXCEPT !.noticeOver = TRUE]
  /\ UNCHANGED <<up, flips, objects, posts, writes, losses>>

Fetch ==
  /\ BagCardinality(objects) < MaxObjects
  /\ objects' = BagAdd(objects, [place |-> "pool", oldStatus |-> row.status,
                                 checks |-> 0, confirms |-> 0, clean |-> TRUE])
  /\ UNCHANGED <<up, flips, row, posts, writes, losses>>

-----------------------------------------------------------------------------
(***************************************************************************)
(* A check, the worker's verdict and what the master makes of it.          *)
(***************************************************************************)
\* Mutants of Verdict: a confirmed outage is not told from one just stored;
\* an outage is reported as confirmed at once.
VerdictForgetsConfirmed(oldStatus, answers, noticeOver) ==
  IF answers THEN SITE_RUNNING
  ELSE IF oldStatus = SITE_RUNNING \/ ~noticeOver THEN SITE_DOWN
                                                  ELSE SITE_CONFIRMED_DOWN

VerdictIgnoresNotice(oldStatus, answers, noticeOver) ==
  IF answers THEN SITE_RUNNING
  ELSE IF oldStatus = SITE_RUNNING THEN SITE_DOWN ELSE SITE_CONFIRMED_DOWN

Verdict(oldStatus, answers, noticeOver) ==
  IF answers THEN SITE_RUNNING
  ELSE IF \/ oldStatus = SITE_RUNNING
          \/ oldStatus # SITE_CONFIRMED_DOWN /\ ~noticeOver
         THEN SITE_DOWN
         ELSE SITE_CONFIRMED_DOWN

\* last_status_change is a copy: if the row has been written since, the copy
\* is older, and the period it starts may or may not be over.
NoticeOver(o) == IF o.clean THEN {row.noticeOver} ELSE BOOLEAN

\* Mutant of recheck: one local check too many.
recheckOffByOne(o) ==
  objects' =
    IF o.checks + 1 > NUM_OF_CHECKS
      THEN Moved(o, [o EXCEPT !.place = "queuedRetries", !.checks = @ + 1])
    ELSE IF In("localRetries") = {}
      THEN Moved(o, [o EXCEPT !.place = "localRetries", !.checks = @ + 1])
    ELSE BagRemove(objects, o)

\* The object of a failed check: one more local check if the site is not
\* waiting for one already, or the verifliers.
recheck(o) ==
  objects' =
    IF o.checks + 1 >= NUM_OF_CHECKS
      THEN Moved(o, [o EXCEPT !.place = "queuedRetries", !.checks = @ + 1])
    ELSE IF In("localRetries") = {}
      THEN Moved(o, [o EXCEPT !.place = "localRetries", !.checks = @ + 1])
    ELSE BagRemove(objects, o)

Check(o) ==
  /\ o.place = "pool"
  /\ \E over \in NoticeOver(o) :
       LET status == Verdict(o.oldStatus, up, over)
       IN  CASE status = o.oldStatus ->
                  objects' = BagRemove(objects, o) /\ UNCHANGED <<posts, writes>>
             [] status # o.oldStatus /\ status = SITE_DOWN ->
                  recheck(o) /\ UNCHANGED <<posts, writes>>
             [] OTHER ->
                  /\ objects' = BagRemove(objects, o)
                  /\ notifyStatusChange(posts, status, FALSE, o.clean)
  /\ UNCHANGED <<up, flips, row, losses>>

LocalRetry(o) ==
  /\ o.place = "localRetries"
  /\ objects' = Moved(o, [o EXCEPT !.place = "pool"])
  /\ UNCHANGED <<up, flips, row, posts, writes, losses>>

\* Every offline reply at or beyond the limit posts the outage.
Confirm(o) ==
  /\ o.place = "queuedRetries" /\ o.confirms < MaxConfirms
  /\ objects' = Moved(o, [o EXCEPT !.confirms = @ + 1])
  /\ notifyStatusChange(posts, SITE_DOWN, FALSE, o.clean)
  /\ UNCHANGED <<up, flips, row, losses>>

\* An entry leaves, confirmed or not.
Purge(o) ==
  /\ o.place = "queuedRetries"
  /\ objects' = BagRemove(objects, o)
  /\ UNCHANGED <<up, flips, row, posts, writes, losses>>

-----------------------------------------------------------------------------
(***************************************************************************)
(* The environment: the site, a worker that dies with an object, a write   *)
(* that fails or a request that never reaches WPCOM.                       *)
(***************************************************************************)
Flip ==
  /\ flips < MaxFlips
  /\ up' = ~up /\ flips' = flips + 1
  /\ UNCHANGED <<row, objects, posts, writes, losses>>

Lose ==
  /\ losses < MaxLosses /\ losses' = losses + 1
  /\ \/ /\ \E o \in In("pool") : objects' = BagRemove(objects, o)
        /\ UNCHANGED writes
     \/ /\ \E w \in BagToSet(writes) : writes' = BagRemove(writes, w)
        /\ UNCHANGED objects
  /\ UNCHANGED <<up, flips, row, posts>>

CheckSome   == \E o \in BagToSet(objects) : Check(o)
RetrySome   == \E o \in BagToSet(objects) : LocalRetry(o)
ConfirmSome == \E o \in BagToSet(objects) : Confirm(o)
PurgeSome   == \E o \in BagToSet(objects) : Purge(o)
StoreSome   == \E w \in BagToSet(writes) : Store(w)
AnswerSome  == \E p \in BagToSet(posts) :
                 NoCallback(p) \/ \E success, open \in BOOLEAN : Callback(p, success, open)

Next ==
  \/ Fetch \/ CheckSome \/ RetrySome \/ ConfirmSome \/ PurgeSome
  \/ AnswerSome \/ StoreSome \/ NoticePeriodEnds
  \/ Flip \/ Lose

Spec == Init /\ [][Next]_vars

(***************************************************************************)
(* What is queued is checked, retried or purged, unless lost; requests     *)
(* end, writes are executed, and time passes.  Nothing makes the site be   *)
(* fetched again, or a veriflier confirm an outage: one failed query ends *)
(* the rounds (Rounds.tla), and a request to a veriflier may be lost.     *)
(***************************************************************************)
Fairness ==
  /\ WF_vars(CheckSome) /\ WF_vars(RetrySome) /\ WF_vars(PurgeSome)
  /\ WF_vars(AnswerSome) /\ WF_vars(StoreSome) /\ WF_vars(NoticePeriodEnds)

FairSpec == Spec /\ Fairness

-----------------------------------------------------------------------------
TypeOK ==
  /\ up \in BOOLEAN /\ flips \in 0 .. MaxFlips /\ losses \in 0 .. MaxLosses
  /\ row \in Row
  /\ IsABag(objects) /\ BagToSet(objects) \subseteq Object
  /\ IsABag(posts) /\ BagToSet(posts) \subseteq Post
  /\ IsABag(writes) /\ BagToSet(writes) \subseteq Write

(***************************************************************************)
(* The flows of README.md: unless another write has come between the fetch *)
(* of an object and the write its verdict led to, the write takes the row  *)
(* from up to down, from down to confirmed once the notice period is over, *)
(* or from either back to up - and it never writes what is there already.  *)
(***************************************************************************)
Flow(from, to) ==
  \/ from.status = SITE_RUNNING /\ to = SITE_DOWN
  \/ from.status = SITE_DOWN /\ from.noticeOver /\ to = SITE_CONFIRMED_DOWN
  \/ from.status # SITE_RUNNING /\ to = SITE_RUNNING

RowFollowsFlows ==
  [][\A w \in BagToSet(writes) : w.clean /\ Store(w) => Flow(row, w.status)]_vars

(***************************************************************************)
(* Whatever stale verdicts, repeated posts and lost writes came before:    *)
(* if the site is fetched again and again and stays up, the row comes to   *)
(* say so for good, and the notifications stop; and likewise if it stays   *)
(* down and the verifliers go on confirming the outages queued for them.   *)
(* Neither condition is one the code guarantees.                           *)
(***************************************************************************)
Settled(status) == row.status = status /\ posts = EmptyBag

RoundsGoOn          == []<><<Fetch>>_vars
OutagesAreConfirmed == []<>(In("queuedRetries") # {}) => []<><<ConfirmSome>>_vars

SiteSettles ==
  RoundsGoOn =>
    /\ <>[]up => <>[]Settled(SITE_RUNNING)
    /\ <>[]~up /\ OutagesAreConfirmed => <>[]Settled(SITE_CONFIRMED_DOWN)
=============================================================================
