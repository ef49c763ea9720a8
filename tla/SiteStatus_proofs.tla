------------------------- MODULE SiteStatus_proofs -------------------------
(***************************************************************************)
(* Proofs about SiteStatus.tla, for every NUM_OF_CHECKS and every bound on *)
(* what is under way, what is lost and how often the site changes.         *)
(***************************************************************************)
EXTENDS SiteStatus, TLAPS

(***************************************************************************)
(* What is marked `clean' rests on the row: an object was fetched with the *)
(* status the row has, one that failed a local check with the status of a  *)
(* site that is up, and what is posted or on its way to the row is a flow  *)
(* from the row as it stands.  An object that is not with the verifliers   *)
(* has local checks left.  With TypeOK this is inductive.                  *)
(***************************************************************************)
ObjectsRest(objs, r) ==
  \A o \in BagToSet(objs) :
    /\ o.place # "queuedRetries" => o.checks < NUM_OF_CHECKS
    /\ o.clean => o.oldStatus = r.status
    /\ o.clean /\ o.place # "pool" => o.oldStatus = SITE_RUNNING

FlowsRest(bag, r) == \A e \in BagToSet(bag) : e.clean => Flow(r, e.status)

RestsOnRow == ObjectsRest(objects, row) /\ FlowsRest(posts, row) /\ FlowsRest(writes, row)

IInv == TypeOK /\ RestsOnRow

-----------------------------------------------------------------------------
(***************************************************************************)
(* Bags.                                                                   *)
(***************************************************************************)
BagOver(B, S) == IsABag(B) /\ BagToSet(B) \subseteq S

LEMMA EmptyIsBag ==
  ASSUME NEW S
  PROVE  BagOver(EmptyBag, S) /\ BagToSet(EmptyBag) = {}
  BY DEF BagOver, EmptyBag, SetToBag, IsABag, BagToSet

LEMMA AddToBag ==
  ASSUME NEW S, NEW B, BagOver(B, S), NEW x \in S
  PROVE  BagOver(BagAdd(B, x), S) /\ BagToSet(BagAdd(B, x)) = BagToSet(B) \cup {x}
<1> USE DEF BagOver, BagAdd, IsABag, BagToSet
<1>1. CASE x \in DOMAIN B
  BY <1>1
<1>2. CASE x \notin DOMAIN B
  BY <1>2
<1> QED  BY <1>1, <1>2

LEMMA RemoveFromBag ==
  ASSUME NEW S, NEW B, BagOver(B, S), NEW x
  PROVE  BagOver(BagRemove(B, x), S) /\ BagToSet(BagRemove(B, x)) \subseteq BagToSet(B)
<1> USE DEF BagOver, BagRemove, IsABag, BagToSet
<1>1. CASE x \notin DOMAIN B
  BY <1>1
<1>2. CASE x \in DOMAIN B /\ B[x] = 1
  BY <1>2
<1>3. CASE x \in DOMAIN B /\ B[x] # 1
  BY <1>3
<1> QED  BY <1>1, <1>2, <1>3

Unmarked(d) == [d EXCEPT !.clean = FALSE]

\* A set of records is closed under unmarking, and unmarking can be undone.
Unmarkable(S) ==
  \A d \in S : LET e == Unmarked(d)
               IN  e \in S /\ ~e.clean /\ d \in {e, [e EXCEPT !.clean = TRUE]}

LEMMA StaleBag ==
  ASSUME NEW S, NEW B, BagOver(B, S), Unmarkable(S)
  PROVE  /\ BagOver(Stale(B), S)
         /\ \A e \in BagToSet(Stale(B)) :
              ~e.clean /\ \E d \in BagToSet(B) : e = Unmarked(d)
<1>1. DOMAIN Stale(B) = {Unmarked(d) : d \in DOMAIN B}
  BY DEF Stale, BagToSet, Unmarked
<1>2. \A e : Copies(e, B) \in Nat /\ (e \in DOMAIN B => Copies(e, B) > 0)
  BY DEF Copies, BagIn, BagOver, IsABag, BagToSet
<1>3. ASSUME NEW e \in DOMAIN Stale(B)
      PROVE  /\ e \in S /\ ~e.clean
             /\ \E d \in DOMAIN B : e = Unmarked(d)
             /\ Stale(B)[e] \in {n \in Nat : n > 0}
  <2>1. PICK d \in DOMAIN B : e = Unmarked(d)
    BY <1>1
  <2>2. d \in S
    BY DEF BagOver, BagToSet
  <2>3. e \in S /\ ~e.clean /\ d \in {e, [e EXCEPT !.clean = TRUE]}
    BY <2>1, <2>2 DEF Unmarkable
  <2>4. Stale(B)[e] = Copies(e, B) + Copies([e EXCEPT !.clean = TRUE], B)
    BY <1>1 DEF Stale, BagToSet
  <2>5. Copies(e, B) > 0 \/ Copies([e EXCEPT !.clean = TRUE], B) > 0
    BY <1>2, <2>3
  <2>6. Copies(e, B) \in Nat /\ Copies([e EXCEPT !.clean = TRUE], B) \in Nat
    BY <1>2
  <2>7. Stale(B)[e] \in {n \in Nat : n > 0}
    BY <2>4, <2>5, <2>6
  <2> QED  BY <2>1, <2>3, <2>7
<1>4. IsABag(Stale(B))
  BY <1>3 DEF IsABag, Stale
<1> QED  BY <1>3, <1>4 DEF BagOver, BagToSet

LEMMA Records == Unmarkable(Object) /\ Unmarkable(Post) /\ Unmarkable(Write)
<1>1. Unmarkable(Object)
  BY DEF Unmarkable, Unmarked, Object
<1>2. Unmarkable(Post)
  BY DEF Unmarkable, Unmarked, Post
<1>3. Unmarkable(Write)
  BY DEF Unmarkable, Unmarked, Write
<1> QED  BY <1>1, <1>2, <1>3

-----------------------------------------------------------------------------
(***************************************************************************)
(* The initial state satisfies the invariant.                              *)
(***************************************************************************)
LEMMA InitInv == Init => IInv
<1> SUFFICES ASSUME Init PROVE IInv
  OBVIOUS
<1>1. TypeOK
  <2>1. row \in Row
    BY DEF Init, Row
  <2>2. flips \in 0 .. MaxFlips /\ losses \in 0 .. MaxLosses
    BY BoundsAssumption DEF Init
  <2>3. /\ BagOver(EmptyBag, Object) /\ BagOver(EmptyBag, Post) /\ BagOver(EmptyBag, Write)
    BY EmptyIsBag
  <2> QED  BY <2>1, <2>2, <2>3 DEF Init, TypeOK, BagOver
<1>2. RestsOnRow
  BY EmptyIsBag DEF Init, RestsOnRow, ObjectsRest, FlowsRest
<1> QED  BY <1>1, <1>2 DEF IInv

\* What IInv says of the variables, part by part.
LEMMA InvParts ==
  IInv <=> /\ up \in BOOLEAN /\ flips \in 0 .. MaxFlips /\ losses \in 0 .. MaxLosses
           /\ row \in Row
           /\ BagOver(objects, Object) /\ BagOver(posts, Post) /\ BagOver(writes, Write)
           /\ ObjectsRest(objects, row) /\ FlowsRest(posts, row) /\ FlowsRest(writes, row)
  BY DEF IInv, TypeOK, RestsOnRow, BagOver

LEMMA RemovedObject ==
  ASSUME IInv, NEW o
  PROVE  /\ BagOver(BagRemove(objects, o), Object)
         /\ ObjectsRest(BagRemove(objects, o), row)
  BY InvParts, RemoveFromBag DEF ObjectsRest

LEMMA MovedObject ==
  ASSUME IInv, NEW o, NEW p \in Object,
         p.place # "queuedRetries" => p.checks < NUM_OF_CHECKS,
         p.clean => p.oldStatus = row.status,
         p.clean /\ p.place # "pool" => p.oldStatus = SITE_RUNNING
  PROVE  BagOver(Moved(o, p), Object) /\ ObjectsRest(Moved(o, p), row)
<1>1. BagOver(BagRemove(objects, o), Object) /\ ObjectsRest(BagRemove(objects, o), row)
  BY RemovedObject
<1>2. BagOver(Moved(o, p), Object) /\ BagToSet(Moved(o, p)) = BagToSet(BagRemove(objects, o)) \cup {p}
  BY <1>1, AddToBag DEF Moved
<1> QED  BY <1>1, <1>2 DEF ObjectsRest

\* A notification that is a flow from the row adds a post and a write that are.
LEMMA Notified ==
  ASSUME IInv, NEW others, BagOver(others, Post), FlowsRest(others, row),
         NEW status \in Status, NEW retry \in BOOLEAN, NEW clean \in BOOLEAN,
         clean => Flow(row, status), notifyStatusChange(others, status, retry, clean)
  PROVE  /\ BagOver(posts', Post) /\ FlowsRest(posts', row)
         /\ BagOver(writes', Write) /\ FlowsRest(writes', row)
<1> DEFINE post  == [status |-> status, retry |-> retry, calls |-> 0, clean |-> clean]
           write == [status |-> status, clean |-> clean]
<1>1. post \in Post /\ write \in Write
  BY BoundsAssumption DEF Post, Write
<1>2. /\ post.clean => Flow(row, post.status)
      /\ write.clean => Flow(row, write.status)
  OBVIOUS
<1> HIDE DEF post, write
<1>3. posts' = BagAdd(others, post) /\ writes' = BagAdd(writes, write)
  BY DEF notifyStatusChange, post, write
<1>4. BagOver(writes, Write) /\ FlowsRest(writes, row)
  BY InvParts
<1>5. BagOver(posts', Post) /\ BagToSet(posts') = BagToSet(others) \cup {post}
  BY <1>1, <1>3, AddToBag
<1>6. BagOver(writes', Write) /\ BagToSet(writes') = BagToSet(writes) \cup {write}
  BY <1>1, <1>3, <1>4, AddToBag
<1> QED  BY <1>2, <1>4, <1>5, <1>6 DEF FlowsRest

(***************************************************************************)
(* The row.                                                                *)
(***************************************************************************)
LEMMA FetchStep ==
  ASSUME IInv, Fetch
  PROVE  IInv'
<1> DEFINE o == [place |-> "pool", oldStatus |-> row.status,
                 checks |-> 0, confirms |-> 0, clean |-> TRUE]
<1>1. o \in Object /\ 0 < NUM_OF_CHECKS
  BY InvParts, ChecksAssumption, ConfirmsAssumption DEF Object, Place, Row
<1>2. o.place = "pool" /\ o.checks = 0 /\ o.oldStatus = row.status
  OBVIOUS
<1> HIDE DEF o
<1>3. objects' = BagAdd(objects, o) /\ UNCHANGED <<up, flips, row, posts, writes, losses>>
  BY DEF Fetch, o
<1>4. BagOver(objects', Object) /\ BagToSet(objects') = BagToSet(objects) \cup {o}
  BY <1>1, <1>3, AddToBag, InvParts
<1>5. ObjectsRest(objects', row)
  BY <1>1, <1>2, <1>4, InvParts DEF ObjectsRest
<1> QED  BY <1>3, <1>4, <1>5, InvParts DEF IInv, TypeOK, RestsOnRow, BagOver

LEMMA StaleObjects ==
  ASSUME IInv, NEW r
  PROVE  BagOver(Stale(objects), Object) /\ ObjectsRest(Stale(objects), r)
<1>1. BagOver(objects, Object)
  BY InvParts
<1>2. /\ BagOver(Stale(objects), Object)
      /\ \A e \in BagToSet(Stale(objects)) :
           ~e.clean /\ \E d \in BagToSet(objects) : e = Unmarked(d)
  BY <1>1, StaleBag, Records
<1>3. ASSUME NEW e \in BagToSet(Stale(objects)), e.place # "queuedRetries"
      PROVE  e.checks < NUM_OF_CHECKS
  <2>1. PICK d \in BagToSet(objects) : e = Unmarked(d)
    BY <1>2
  <2>2. d \in Object
    BY <1>1 DEF BagOver
  <2>3. e.place = d.place /\ e.checks = d.checks
    BY <2>1, <2>2 DEF Object, Unmarked
  <2> QED  BY <1>3, <2>3, InvParts DEF ObjectsRest
<1> QED  BY <1>2, <1>3 DEF ObjectsRest

LEMMA StaleFlows ==
  ASSUME NEW B, NEW S, BagOver(B, S), Unmarkable(S), NEW r
  PROVE  BagOver(Stale(B), S) /\ FlowsRest(Stale(B), r)
  BY StaleBag DEF FlowsRest

LEMMA StoreStep ==
  ASSUME IInv, NEW w \in BagToSet(writes), Store(w)
  PROVE  IInv'
<1>1. row' \in Row
  BY InvParts DEF Store, BagOver, Write, Row
<1>2. BagOver(BagRemove(writes, w), Write)
  BY InvParts, RemoveFromBag
<1>3. /\ writes' = Stale(BagRemove(writes, w)) /\ objects' = Stale(objects)
      /\ posts' = Stale(posts) /\ UNCHANGED <<up, flips, losses>>
  BY DEF Store
<1>4. BagOver(writes', Write) /\ FlowsRest(writes', row')
  BY <1>2, <1>3, StaleFlows, Records
<1>5. BagOver(posts', Post) /\ FlowsRest(posts', row')
  BY <1>3, StaleFlows, Records, InvParts
<1>6. BagOver(objects', Object) /\ ObjectsRest(objects', row')
  BY <1>3, StaleObjects
<1> QED  BY <1>1, <1>3, <1>4, <1>5, <1>6, InvParts DEF IInv, TypeOK, RestsOnRow, BagOver

LEMMA NoticePeriodEndsStep ==
  ASSUME IInv, NoticePeriodEnds
  PROVE  IInv'
<1>1. /\ row \in Row /\ row' = [row EXCEPT !.noticeOver = TRUE]
      /\ UNCHANGED <<up, flips, objects, posts, writes, losses>>
  BY InvParts DEF NoticePeriodEnds
<1>2. row' \in Row /\ row'.status = row.status /\ row'.noticeOver
  BY <1>1 DEF Row
<1>3. \A to : Flow(row, to) => Flow(row', to)
  BY <1>2 DEF Flow
<1> HIDE DEF Flow
<1>4. ObjectsRest(objects', row') /\ FlowsRest(posts', row') /\ FlowsRest(writes', row')
  BY <1>1, <1>2, <1>3, InvParts DEF ObjectsRest, FlowsRest
<1> QED  BY <1>1, <1>2, <1>4, InvParts DEF IInv, TypeOK, RestsOnRow, BagOver

(***************************************************************************)
(* Checks, retries, confirmations.                                         *)
(***************************************************************************)
LEMMA LocalRetryStep ==
  ASSUME IInv, NEW o \in BagToSet(objects), LocalRetry(o)
  PROVE  IInv'
<1> DEFINE p == [o EXCEPT !.place = "pool"]
<1>1. o \in Object /\ o.place = "localRetries"
  BY InvParts DEF BagOver, LocalRetry
<1>2. /\ p \in Object /\ p.place = "pool" /\ p.checks = o.checks
      /\ p.clean = o.clean /\ p.oldStatus = o.oldStatus
  BY <1>1 DEF Object, Place
<1>3. objects' = Moved(o, p) /\ UNCHANGED <<up, flips, row, posts, writes, losses>>
  BY DEF LocalRetry
<1> HIDE DEF p
<1>4. BagOver(objects', Object) /\ ObjectsRest(objects', row)
  BY <1>1, <1>2, <1>3, MovedObject, InvParts DEF ObjectsRest
<1> QED  BY <1>3, <1>4, InvParts DEF IInv, TypeOK, RestsOnRow, BagOver

LEMMA ConfirmStep ==
  ASSUME IInv, NEW o \in BagToSet(objects), Confirm(o)
  PROVE  IInv'
<1> DEFINE p == [o EXCEPT !.confirms = @ + 1]
<1>1. o \in Object /\ o.place = "queuedRetries" /\ o.confirms < MaxConfirms
  BY InvParts DEF BagOver, Confirm
<1>2. /\ p \in Object /\ p.place = o.place /\ p.checks = o.checks
      /\ p.clean = o.clean /\ p.oldStatus = o.oldStatus
  BY <1>1, ConfirmsAssumption DEF Object
<1>3. /\ objects' = Moved(o, p) /\ notifyStatusChange(posts, SITE_DOWN, FALSE, o.clean)
      /\ UNCHANGED <<up, flips, row, losses>>
  BY DEF Confirm
<1> HIDE DEF p
<1>4. /\ o.clean => row.status = SITE_RUNNING /\ o.oldStatus = row.status
      /\ o.clean \in BOOLEAN
  BY <1>1, InvParts DEF ObjectsRest, Object
<1>5. BagOver(objects', Object) /\ ObjectsRest(objects', row)
  BY <1>1, <1>2, <1>3, <1>4, MovedObject, InvParts
<1>6. o.clean => Flow(row, SITE_DOWN)
  BY <1>4 DEF Flow
<1>7. SITE_DOWN \in Status
  BY DEF Status
<1>8. /\ BagOver(posts', Post) /\ FlowsRest(posts', row)
      /\ BagOver(writes', Write) /\ FlowsRest(writes', row)
  BY <1>3, <1>4, <1>6, <1>7, Notified, InvParts
<1> QED  BY <1>3, <1>5, <1>8, InvParts DEF IInv, TypeOK, RestsOnRow, BagOver

LEMMA PurgeStep ==
  ASSUME IInv, NEW o, Purge(o)
  PROVE  IInv'
<1>1. objects' = BagRemove(objects, o) /\ UNCHANGED <<up, flips, row, posts, writes, losses>>
  BY DEF Purge
<1>2. BagOver(objects', Object) /\ ObjectsRest(objects', row)
  BY <1>1, RemovedObject
<1> QED  BY <1>1, <1>2, InvParts DEF IInv, TypeOK, RestsOnRow, BagOver

LEMMA RecheckStep ==
  ASSUME IInv, NEW o \in BagToSet(objects), o.place = "pool", recheck(o),
         o.clean => o.oldStatus = SITE_RUNNING
  PROVE  BagOver(objects', Object) /\ ObjectsRest(objects', row)
<1>1. /\ o \in Object /\ o.checks < NUM_OF_CHECKS
      /\ o.clean => o.oldStatus = row.status
  BY InvParts DEF BagOver, ObjectsRest
<1>2. o.checks + 1 \in 0 .. NUM_OF_CHECKS
  BY <1>1, ChecksAssumption DEF Object
<1>3. CASE o.checks + 1 >= NUM_OF_CHECKS
  <2> DEFINE p == [o EXCEPT !.place = "queuedRetries", !.checks = @ + 1]
  <2>1. p \in Object
    BY <1>1, <1>2, ChecksAssumption DEF Object, Place
  <2>2. /\ p \in Object /\ p.place = "queuedRetries"
        /\ p.clean = o.clean /\ p.oldStatus = o.oldStatus
    BY <1>1, <2>1 DEF Object
  <2>3. objects' = Moved(o, p)
    BY <1>3 DEF recheck
  <2> HIDE DEF p
  <2> QED  BY <1>1, <2>2, <2>3, MovedObject
<1>4. CASE o.checks + 1 < NUM_OF_CHECKS /\ In("localRetries") = {}
  <2> DEFINE p == [o EXCEPT !.place = "localRetries", !.checks = @ + 1]
  <2>1. p \in Object
    BY <1>1, <1>2, ChecksAssumption DEF Object, Place
  <2>2. /\ p \in Object /\ p.place = "localRetries" /\ p.checks < NUM_OF_CHECKS
        /\ p.clean = o.clean /\ p.oldStatus = o.oldStatus
    BY <1>1, <1>4, <2>1 DEF Object
  <2>3. objects' = Moved(o, p)
    BY <1>1, <1>4, ChecksAssumption DEF recheck, Object
  <2> HIDE DEF p
  <2> QED  BY <1>1, <2>2, <2>3, MovedObject
<1>5. CASE o.checks + 1 < NUM_OF_CHECKS /\ In("localRetries") # {}
  <2>1. objects' = BagRemove(objects, o)
    BY <1>1, <1>5, ChecksAssumption DEF recheck, Object
  <2> QED  BY <2>1, RemovedObject
<1>6. o.checks \in Nat /\ NUM_OF_CHECKS \in Nat
  BY <1>1, ChecksAssumption DEF Object
<1> QED  BY <1>3, <1>4, <1>5, <1>6

\* A verdict that rests on the row and differs from it is a flow from it.
LEMMA VerdictFlows ==
  ASSUME NEW r \in Row, NEW answers,
         NEW status, status = Verdict(r.status, answers, r.noticeOver), status # r.status
  PROVE  Flow(r, status) /\ (status = SITE_DOWN => r.status = SITE_RUNNING)
  BY DEF Verdict, Flow, Row, Status, SITE_DOWN, SITE_RUNNING, SITE_CONFIRMED_DOWN

LEMMA CheckStep ==
  ASSUME IInv, NEW o \in BagToSet(objects), Check(o)
  PROVE  IInv'
<1>1. /\ o \in Object /\ o.place = "pool" /\ o.clean \in BOOLEAN
      /\ o.clean => o.oldStatus = row.status
  BY InvParts DEF BagOver, ObjectsRest, Object, Check
<1>2. PICK over \in NoticeOver(o) :
        LET status == Verdict(o.oldStatus, up, over)
        IN  CASE status = o.oldStatus ->
                   objects' = BagRemove(objects, o) /\ UNCHANGED <<posts, writes>>
              [] status # o.oldStatus /\ status = SITE_DOWN ->
                   recheck(o) /\ UNCHANGED <<posts, writes>>
              [] OTHER ->
                   /\ objects' = BagRemove(objects, o)
                   /\ notifyStatusChange(posts, status, FALSE, o.clean)
  BY DEF Check
<1>3. UNCHANGED <<up, flips, row, losses>>
  BY DEF Check
<1> DEFINE status == Verdict(o.oldStatus, up, over)
<1>4. status \in Status
  BY DEF Verdict, Status
<1>5. o.clean => over = row.noticeOver
  BY <1>1, <1>2 DEF NoticeOver
<1>6. ASSUME o.clean, status # o.oldStatus
      PROVE  Flow(row, status) /\ (status = SITE_DOWN => o.oldStatus = SITE_RUNNING)
  BY <1>1, <1>5, <1>6, VerdictFlows, InvParts
<1> HIDE DEF status
<1>7. /\ BagOver(objects', Object) /\ ObjectsRest(objects', row)
      /\ BagOver(posts', Post) /\ FlowsRest(posts', row)
      /\ BagOver(writes', Write) /\ FlowsRest(writes', row)
  <2>1. CASE status = o.oldStatus
    <3>1. objects' = BagRemove(objects, o) /\ UNCHANGED <<posts, writes>>
      BY <1>2, <2>1 DEF status
    <3> QED  BY <3>1, RemovedObject, InvParts
  <2>2. CASE status # o.oldStatus /\ status = SITE_DOWN
    <3>1. recheck(o) /\ UNCHANGED <<posts, writes>>
      BY <1>2, <2>2 DEF status
    <3>2. BagOver(objects', Object) /\ ObjectsRest(objects', row)
      BY <1>1, <1>6, <2>2, <3>1, RecheckStep
    <3> QED  BY <3>1, <3>2, InvParts
  <2>3. CASE status # o.oldStatus /\ status # SITE_DOWN
    <3>1. /\ objects' = BagRemove(objects, o)
          /\ notifyStatusChange(posts, status, FALSE, o.clean)
      BY <1>2, <2>3 DEF status
    <3>2. /\ BagOver(posts', Post) /\ FlowsRest(posts', row)
          /\ BagOver(writes', Write) /\ FlowsRest(writes', row)
      BY <1>1, <1>4, <1>6, <2>3, <3>1, Notified, InvParts
    <3> QED  BY <3>1, <3>2, RemovedObject
  <2> QED  BY <2>1, <2>2, <2>3
<1> QED  BY <1>3, <1>7, InvParts DEF IInv, TypeOK, RestsOnRow, BagOver

(***************************************************************************)
(* The callbacks of a notification.                                        *)
(***************************************************************************)
LEMMA RemovedPost ==
  ASSUME IInv, NEW p
  PROVE  BagOver(BagRemove(posts, p), Post) /\ FlowsRest(BagRemove(posts, p), row)
  BY InvParts, RemoveFromBag DEF FlowsRest

LEMMA NoCallbackStep ==
  ASSUME IInv, NEW p, NoCallback(p)
  PROVE  IInv'
  BY RemovedPost, InvParts DEF NoCallback, IInv, TypeOK, RestsOnRow, BagOver

LEMMA CallbackStep ==
  ASSUME IInv, NEW p \in BagToSet(posts), NEW success \in BOOLEAN, NEW open \in BOOLEAN,
         Callback(p, success, open)
  PROVE  IInv'
<1> DEFINE q      == [p EXCEPT !.calls = @ + 1]
           others == IF open THEN BagAdd(BagRemove(posts, p), q) ELSE BagRemove(posts, p)
<1>1. p \in Post /\ (p.clean => Flow(row, p.status))
  BY InvParts DEF BagOver, FlowsRest
<1>2. p.status \in Status /\ p.clean \in BOOLEAN
  BY <1>1 DEF Post
<1>3. ASSUME open PROVE q \in Post /\ q.clean = p.clean /\ q.status = p.status
  <2>1. p.calls + 1 < MaxCalls
    BY <1>3 DEF Callback
  <2> QED  BY <1>1, <2>1, BoundsAssumption DEF Post
<1>4. /\ IF retriesOn(p, success)
           THEN notifyStatusChange(others, p.status, TRUE, p.clean)
           ELSE posts' = others /\ UNCHANGED writes
      /\ UNCHANGED <<up, flips, row, objects, losses>>
  BY DEF Callback
<1> HIDE DEF q
<1>5. BagOver(others, Post) /\ FlowsRest(others, row)
  <2>1. BagOver(BagRemove(posts, p), Post) /\ FlowsRest(BagRemove(posts, p), row)
    BY RemovedPost
  <2>2. CASE open
    <3>1. /\ BagOver(BagAdd(BagRemove(posts, p), q), Post)
          /\ BagToSet(BagAdd(BagRemove(posts, p), q)) = BagToSet(BagRemove(posts, p)) \cup {q}
      BY <1>3, <2>1, <2>2, AddToBag
    <3> QED  BY <1>1, <1>3, <2>1, <2>2, <3>1 DEF FlowsRest
  <2>3. CASE ~open
    BY <2>1, <2>3
  <2> QED  BY <2>2, <2>3
<1> HIDE DEF others
<1>6. /\ BagOver(posts', Post) /\ FlowsRest(posts', row)
      /\ BagOver(writes', Write) /\ FlowsRest(writes', row)
  <2>1. CASE retriesOn(p, success)
    BY <1>1, <1>2, <1>4, <1>5, <2>1, Notified
  <2>2. CASE ~retriesOn(p, success)
    BY <1>4, <1>5, <2>2, InvParts
  <2> QED  BY <2>1, <2>2
<1> QED  BY <1>4, <1>6, InvParts DEF IInv, TypeOK, RestsOnRow, BagOver

(***************************************************************************)
(* The environment.                                                        *)
(***************************************************************************)
LEMMA FlipStep ==
  ASSUME IInv, Flip
  PROVE  IInv'
<1>1. up' \in BOOLEAN /\ flips' \in 0 .. MaxFlips
  BY InvParts, BoundsAssumption DEF Flip
<1> QED  BY <1>1, InvParts DEF Flip, IInv, TypeOK, RestsOnRow, BagOver

LEMMA LoseStep ==
  ASSUME IInv, Lose
  PROVE  IInv'
<1>1. losses' \in 0 .. MaxLosses /\ UNCHANGED <<up, flips, row, posts>>
  BY InvParts, BoundsAssumption DEF Lose
<1>2. CASE (\E o \in In("pool") : objects' = BagRemove(objects, o)) /\ UNCHANGED writes
  <2>1. BagOver(objects', Object) /\ ObjectsRest(objects', row)
    BY <1>2, RemovedObject
  <2> QED  BY <1>1, <1>2, <2>1, InvParts DEF IInv, TypeOK, RestsOnRow, BagOver
<1>3. CASE (\E w \in BagToSet(writes) : writes' = BagRemove(writes, w)) /\ UNCHANGED objects
  <2>1. BagOver(writes', Write) /\ FlowsRest(writes', row)
    BY <1>3, RemoveFromBag, InvParts DEF FlowsRest
  <2> QED  BY <1>1, <1>3, <2>1, InvParts DEF IInv, TypeOK, RestsOnRow, BagOver
<1> QED  BY <1>2, <1>3 DEF Lose

-----------------------------------------------------------------------------
LEMMA StepInv ==
  ASSUME IInv, [Next]_vars
  PROVE  IInv'
<1>1. CASE CheckSome
  BY <1>1, CheckStep DEF CheckSome
<1>2. CASE RetrySome
  BY <1>2, LocalRetryStep DEF RetrySome
<1>3. CASE ConfirmSome
  BY <1>3, ConfirmStep DEF ConfirmSome
<1>4. CASE PurgeSome
  BY <1>4, PurgeStep DEF PurgeSome
<1>5. CASE AnswerSome
  BY <1>5, NoCallbackStep, CallbackStep DEF AnswerSome
<1>6. CASE StoreSome
  BY <1>6, StoreStep DEF StoreSome
<1>7. CASE Fetch \/ NoticePeriodEnds
  BY <1>7, FetchStep, NoticePeriodEndsStep
<1>8. CASE Flip \/ Lose
  BY <1>8, FlipStep, LoseStep
<1>9. CASE UNCHANGED vars
  BY <1>9, InvParts DEF vars, IInv, TypeOK, RestsOnRow, BagOver
<1> QED  BY <1>1, <1>2, <1>3, <1>4, <1>5, <1>6, <1>7, <1>8, <1>9 DEF Next

(***************************************************************************)
(* What is marked clean rests on the row, in every reachable state.        *)
(***************************************************************************)
THEOREM InvariantHolds == Spec => []IInv
  BY InitInv, StepInv, PTL DEF Spec

(***************************************************************************)
(* An object is checked NUM_OF_CHECKS times at most before the verifliers  *)
(* have it, and whatever is queued, posted or written carries a status of  *)
(* the site_status column.                                                 *)
(***************************************************************************)
THEOREM TypeCorrect == Spec => []TypeOK
<1>1. IInv => TypeOK
  BY DEF IInv
<1> QED  BY <1>1, InvariantHolds, PTL

(***************************************************************************)
(* A write that rests on the row as it stands takes it along a flow of     *)
(* README.md: whatever rounds overlap, callbacks repeat or writes are      *)
(* lost, it never writes what is there already, nor reports an outage as   *)
(* confirmed before the notice period is over.                             *)
(***************************************************************************)
THEOREM WritesFollowFlows == Spec => RowFollowsFlows
<1>1. IInv /\ [Next]_vars =>
        [\A w \in BagToSet(writes) : w.clean /\ Store(w) => Flow(row, w.status)]_vars
  BY InvParts DEF FlowsRest
<1> QED  BY <1>1, InvariantHolds, PTL DEF Spec, RowFollowsFlows
=============================================================================
