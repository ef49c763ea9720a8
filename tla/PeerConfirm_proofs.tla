------------------------- MODULE PeerConfirm_proofs -------------------------
(***************************************************************************)
(* Proofs about PeerConfirm.tla, for every set of sites and of verifliers, *)
(* every limit and time-out, and any number of requests and reloads.       *)
(***************************************************************************)
EXTENDS PeerConfirm, FiniteSetTheorems, TLAPS

-----------------------------------------------------------------------------
(***************************************************************************)
(* The network.  A request is sent once, and a peer turns it into a check  *)
(* and the check into a reply: at most one of the three exists of each     *)
(* request and peer.  Posts do not overlap.  A peer checks a site once at  *)
(* a time.                                                                 *)
(***************************************************************************)
Messages == requests \cup checks \cup replies

SamePair(m, n) == m.id = n.id /\ m.peer = n.peer

OnePerPeer ==
  /\ \A m, n \in requests : SamePair(m, n) => m = n
  /\ \A p, q \in posts : \A m \in p, n \in q : SamePair(m, n) => p = q
  /\ \A m, n \in checks   : SamePair(m, n) => m = n
  /\ \A m, n \in replies  : SamePair(m, n) => m = n
  /\ \A r \in requests, c \in checks  : ~SamePair(r, c)
  /\ \A r \in requests, a \in replies : ~SamePair(r, a)
  /\ \A c \in checks,   a \in replies : ~SamePair(c, a)

SentFirst ==
  \A m \in Messages : m.id \in Queued => queuedRetries[m.id].requests_sent

OneCheckPerSite ==
  \A c, d \in checks : c.peer = d.peer /\ c.site = d.site => c = d

NetworkInv == OnePerPeer /\ SentFirst /\ OneCheckPerSite /\ IsFiniteSet(replies)

(***************************************************************************)
(* An entry.  Until its requests are sent it has not aged.  From then on   *)
(* every reply it counts allows it one more time-out, as long as there is  *)
(* one to wait for.                                                        *)
(***************************************************************************)
Answered(e) == Cardinality(e.asked) - e.requests_outstanding

EntryInv(e) ==
  /\ ~e.requests_sent => e.age = 0 /\ e.ticks = 0
  /\ e.requests_sent =>
       /\ e.asked # {}
       /\ e.requests_outstanding > 0 => e.ticks <= Answered(e) * Timeout + e.age
       /\ e.ticks <= Cardinality(e.asked) * Timeout

(***************************************************************************)
(* An entry that is alone: no other is of its site, and what is on the     *)
(* network about its site is its own, of a peer it asked and has not heard.*)
(***************************************************************************)
Exact(e) ==
  /\ e.heard \subseteq e.asked /\ e.confirmed \subseteq e.heard
  /\ e.requests_outstanding = Cardinality(e.asked) - Cardinality(e.heard)
  /\ e.offline_confirms = Cardinality(e.confirmed)
  /\ e.down <=> Cardinality(e.confirmed) >= PEER_OFFLINE_LIMIT
  /\ ~e.requests_sent => e.asked = {}

AloneInv(id) ==
  LET e == queuedRetries[id]
  IN  /\ \A other \in Queued \ {id} : queuedRetries[other].site # e.site
      /\ \A m \in Messages :
           m.site = e.site => m.id = id /\ m.peer \in e.asked \ e.heard
      /\ Exact(e)

IInv ==
  /\ TypeOK /\ verifiers # {}
  /\ NetworkInv
  /\ \A id \in Queued : EntryInv(queuedRetries[id])
  /\ \A id \in Queued : queuedRetries[id].alone => AloneInv(id)

-----------------------------------------------------------------------------
(***************************************************************************)
(* Numbers of peers, and multiples of the time-out.                        *)
(***************************************************************************)
LEMMA PeersCount ==
  ASSUME NEW S \in SUBSET Peer
  PROVE  /\ IsFiniteSet(S) /\ Cardinality(S) \in Nat
         /\ S # {} => Cardinality(S) > 0
         /\ \A x \in Peer \ S : Cardinality(S \cup {x}) = Cardinality(S) + 1
<1>1. IsFiniteSet(S)
  BY PeerAssumption, FS_Subset
<1>2. Cardinality(S) \in Nat
  BY <1>1, FS_CardinalityType
<1>3. S # {} => Cardinality(S) # 0
  BY <1>1, FS_EmptySet
<1>4. \A x \in Peer \ S : Cardinality(S \cup {x}) = Cardinality(S) + 1
  BY <1>1, FS_AddElement
<1> QED  BY <1>1, <1>2, <1>3, <1>4

LEMMA OneMoreTimeout ==
  ASSUME NEW n \in Int, NEW m \in Int, n < m
  PROVE  n * Timeout + Timeout <= m * Timeout
<1>1. Timeout \in Nat /\ m - n - 1 \in Nat
  BY TimeoutAssumption
<1>2. (m - n - 1) * Timeout >= 0
  BY <1>1
<1>3. (m - n - 1) * Timeout = m * Timeout - n * Timeout - Timeout
  BY <1>1
<1> QED  BY <1>1, <1>2, <1>3

(***************************************************************************)
(* What the master does to an entry.                                       *)
(***************************************************************************)
LEMMA NewEntryType ==
  ASSUME NEW st \in Site
  PROVE  LET e == NewEntry(st)
         IN  /\ e \in Entry /\ e.site = st /\ ~e.requests_sent /\ e.requests_outstanding = 0
             /\ e.offline_confirms = 0 /\ e.age = 0 /\ e.ticks = 0 /\ ~e.down
             /\ e.asked = {} /\ e.heard = {} /\ e.confirmed = {}
             /\ e.alone <=> ~Pending(st)
<1> DEFINE e == NewEntry(st)
<1>1. (~Pending(st)) \in BOOLEAN
  OBVIOUS
<1>2. 0 \in 0 .. Timeout
  BY TimeoutAssumption
<1>3. e \in Entry
  BY <1>1, <1>2 DEF NewEntry, Entry
<1>4. /\ e.site = st /\ ~e.requests_sent /\ e.requests_outstanding = 0
      /\ e.offline_confirms = 0 /\ e.age = 0 /\ e.ticks = 0 /\ ~e.down
      /\ e.asked = {} /\ e.heard = {} /\ e.confirmed = {}
      /\ e.alone <=> ~Pending(st)
  BY DEF NewEntry
<1> QED  BY <1>3, <1>4

LEMMA TickedType ==
  ASSUME NEW e \in Entry, e.age + 1 <= Timeout
  PROVE  LET t == Ticked(e)
         IN  /\ t \in Entry /\ t.age = e.age + 1 /\ t.ticks = e.ticks + 1
             /\ t.site = e.site /\ t.requests_sent = e.requests_sent
             /\ t.requests_outstanding = e.requests_outstanding
             /\ t.offline_confirms = e.offline_confirms /\ t.down = e.down
             /\ t.asked = e.asked /\ t.heard = e.heard /\ t.confirmed = e.confirmed
             /\ t.alone = e.alone
<1>1. e.age + 1 \in 0 .. Timeout /\ e.ticks + 1 \in Nat
  BY TimeoutAssumption DEF Entry
<1> QED  BY <1>1 DEF Ticked, Entry

LEMMA SentType ==
  ASSUME NEW e \in Entry, verifiers \in SUBSET Peer
  PROVE  LET t == Sent(e)
         IN  /\ t \in Entry /\ t.requests_sent /\ t.asked = verifiers
             /\ t.requests_outstanding = Cardinality(verifiers)
             /\ t.age = e.age /\ t.ticks = e.ticks /\ t.site = e.site
             /\ t.offline_confirms = e.offline_confirms /\ t.down = e.down
             /\ t.heard = e.heard /\ t.confirmed = e.confirmed
             /\ t.alone = e.alone
<1>1. Cardinality(verifiers) \in Int
  BY PeersCount
<1> QED  BY <1>1 DEF Sent, Entry

LEMMA CountedType ==
  ASSUME NEW e \in Entry, NEW reply,
         reply.peer \in Peer, reply.offline \in BOOLEAN
  PROVE  LET t == Counted(e, reply.peer, reply.offline)
         IN  /\ t \in Entry /\ t.age = 0 /\ t.ticks = e.ticks /\ t.site = e.site
             /\ t.requests_sent = e.requests_sent /\ t.asked = e.asked
             /\ t.requests_outstanding = e.requests_outstanding - 1
             /\ t.heard = e.heard \cup {reply.peer}
             /\ t.confirmed = IF reply.offline THEN e.confirmed \cup {reply.peer} ELSE e.confirmed
             /\ t.offline_confirms = e.offline_confirms + (IF reply.offline THEN 1 ELSE 0)
             /\ t.down <=> e.down \/ (reply.offline /\ t.offline_confirms >= PEER_OFFLINE_LIMIT)
             /\ t.alone = e.alone
<1> DEFINE confirms  == e.offline_confirms + (IF reply.offline THEN 1 ELSE 0)
           down      == e.down \/ (reply.offline /\ confirms >= PEER_OFFLINE_LIMIT)
           confirmed == IF reply.offline THEN e.confirmed \cup {reply.peer} ELSE e.confirmed
           t         == Counted(e, reply.peer, reply.offline)
<1>1. t = [e EXCEPT !.requests_outstanding = e.requests_outstanding - 1, !.age = 0,
                    !.offline_confirms = confirms, !.down = down,
                    !.heard = e.heard \cup {reply.peer}, !.confirmed = confirmed]
  BY DEF Counted
<1>2. confirms \in Nat /\ confirmed \in SUBSET Peer /\ down \in BOOLEAN
      /\ e.requests_outstanding - 1 \in Int /\ e.heard \cup {reply.peer} \in SUBSET Peer
      /\ 0 \in 0 .. Timeout
  BY TimeoutAssumption DEF Entry
<1> HIDE DEF confirms, confirmed, down, t
<1>3. t \in Entry
  BY <1>1, <1>2 DEF Entry
<1>4. /\ t.age = 0 /\ t.ticks = e.ticks /\ t.site = e.site
      /\ t.requests_sent = e.requests_sent /\ t.asked = e.asked
      /\ t.requests_outstanding = e.requests_outstanding - 1
      /\ t.heard = e.heard \cup {reply.peer} /\ t.alone = e.alone
      /\ t.confirmed = confirmed /\ t.offline_confirms = confirms /\ t.down = down
  BY <1>1 DEF Entry
<1> QED  BY <1>3, <1>4 DEF confirms, confirmed, down, t

-----------------------------------------------------------------------------
LEMMA InitInv == Init => IInv
<1> SUFFICES ASSUME Init PROVE IInv
  OBVIOUS
<1>1. Queued = {} /\ requests = {} /\ Messages = {} /\ pushed = 0
  BY DEF Init, Queued, requests, Messages
<1>2. TypeOK /\ verifiers # {}
  <2>1. queuedRetries \in [Queued -> Entry]
    BY <1>1 DEF Init, Queued
  <2> QED  BY <1>1, <2>1 DEF Init, TypeOK
<1>3. NetworkInv
  BY <1>1, FS_EmptySet DEF Init, NetworkInv, OnePerPeer, SentFirst, OneCheckPerSite
<1> QED  BY <1>1, <1>2, <1>3 DEF IInv

(***************************************************************************)
(* The verifliers and the network: every message comes from one of the     *)
(* same request, site and peer.                                            *)
(***************************************************************************)
LEMMA MessageTypes ==
  ASSUME TypeOK
  PROVE  \A m \in Messages : m.id \in 1 .. pushed /\ m.site \in Site /\ m.peer \in Peer
BY DEF TypeOK, Messages, Request, Reply

LEMMA NetworkStep ==
  ASSUME IInv, UNCHANGED <<queuedRetries, pushed, config>>,
         requests' \subseteq Request, checks' \subseteq Request, replies' \subseteq Reply,
         \A m \in Messages' : \E n \in Messages : SamePair(m, n) /\ m.site = n.site,
         OnePerPeer', OneCheckPerSite', IsFiniteSet(replies')
  PROVE  IInv'
<1> USE DEF IInv
<1>1. Queued' = Queued /\ queuedRetries' = queuedRetries
  BY DEF Queued
<1>2. TypeOK'
  <2>1. requests' \subseteq Request' /\ checks' \subseteq Request' /\ replies' \subseteq Reply'
    BY DEF Request, Reply
  <2>2. Entry' = Entry
    BY DEF Entry
  <2> QED  BY <1>1, <2>1, <2>2 DEF TypeOK, config
<1>3. SentFirst'
  <2> SUFFICES ASSUME NEW m \in Messages', m.id \in Queued
               PROVE  queuedRetries[m.id].requests_sent
    BY <1>1 DEF SentFirst
  <2>1. PICK n \in Messages : SamePair(m, n)
    OBVIOUS
  <2> QED  BY <2>1 DEF SamePair, NetworkInv, SentFirst
<1>4. ASSUME NEW id \in Queued, queuedRetries[id].alone
      PROVE  AloneInv(id)'
  <2> DEFINE e == queuedRetries[id]
  <2>1. AloneInv(id) /\ Exact(e)
    BY <1>4 DEF AloneInv
  <2>2. ASSUME NEW m \in Messages', m.site = e.site
        PROVE  m.id = id /\ m.peer \in e.asked \ e.heard
    <3>1. PICK n \in Messages : SamePair(m, n) /\ m.site = n.site
      OBVIOUS
    <3> QED  BY <2>1, <2>2, <3>1 DEF SamePair, AloneInv
  <2> QED  BY <1>1, <2>1, <2>2 DEF AloneInv, Exact
<1>5. \A id \in Queued : EntryInv(queuedRetries[id])'
  BY <1>1 DEF EntryInv, Answered
<1> QED  BY <1>1, <1>2, <1>3, <1>4, <1>5 DEF NetworkInv, config

\* The checks a post adds: of sites not under check, one of each.
Added(post) ==
  {r \in post : ~haveCheck(r) /\ \A s \in post : s.site = r.site => s.id <= r.id}

LEMMA addChecksStep ==
  ASSUME IInv, NEW post \in posts, addChecks(post)
  PROVE  IInv'
<1> USE DEF IInv
<1>1. /\ posts' = posts \ {post} /\ replies' = replies
      /\ UNCHANGED <<queuedRetries, pushed, config>>
      /\ checks' = checks \cup Added(post)
  BY DEF addChecks, Added
<1>2. /\ post \subseteq requests /\ Added(post) \subseteq requests
      /\ Added(post) \subseteq post /\ requests' \subseteq requests
  BY <1>1 DEF requests, Added
<1>3. requests' \subseteq Request /\ checks' \subseteq Request /\ replies' \subseteq Reply
  BY <1>1, <1>2 DEF TypeOK
<1>4. \A m \in Messages' : \E n \in Messages : SamePair(m, n) /\ m.site = n.site
  <2>1. Messages' \subseteq Messages
    BY <1>1, <1>2 DEF Messages
  <2> QED  BY <2>1 DEF SamePair
<1>5. OnePerPeer'
  <2>1. \A r \in requests', c \in Added(post) : ~SamePair(r, c)
    <3> SUFFICES ASSUME NEW r \in requests', NEW c \in Added(post), SamePair(r, c)
                 PROVE  FALSE
      OBVIOUS
    <3>1. PICK other \in posts : other # post /\ r \in other
      BY <1>1 DEF requests
    <3> QED  BY <1>2, <3>1 DEF NetworkInv, OnePerPeer
  <2>2. \A r \in requests, c \in checks : ~SamePair(r, c)
    BY DEF NetworkInv, OnePerPeer
  <2>3. \A m, n \in checks' : SamePair(m, n) => m = n
    BY <1>1, <1>2 DEF NetworkInv, OnePerPeer, SamePair
  <2>4. \A p, q \in posts' : \A m \in p, n \in q : SamePair(m, n) => p = q
    BY <1>1 DEF NetworkInv, OnePerPeer
  <2>5. \A c \in checks', a \in replies' : ~SamePair(c, a)
    BY <1>1, <1>2 DEF NetworkInv, OnePerPeer
  <2>6. /\ \A m, n \in requests' : SamePair(m, n) => m = n
        /\ \A m, n \in replies' : SamePair(m, n) => m = n
        /\ \A r \in requests', a \in replies' : ~SamePair(r, a)
    BY <1>1, <1>2 DEF NetworkInv, OnePerPeer
  <2>7. \A r \in requests', c \in checks' : ~SamePair(r, c)
    BY <1>1, <1>2, <2>1, <2>2
  <2> QED  BY <2>3, <2>4, <2>5, <2>6, <2>7 DEF OnePerPeer, SamePair
<1>6. OneCheckPerSite'
  <2>1. ASSUME NEW c \in Added(post), NEW d \in Added(post), c.peer = d.peer, c.site = d.site
        PROVE  c = d
    <3>1. c.id <= d.id /\ d.id <= c.id /\ c \in requests /\ d \in requests
      BY <1>2, <2>1 DEF Added
    <3>2. c.id \in Nat /\ d.id \in Nat
      BY <3>1 DEF TypeOK, Request
    <3>3. c.id = d.id
      BY <3>1, <3>2
    <3> QED  BY <2>1, <3>1, <3>3 DEF NetworkInv, OnePerPeer, SamePair
  <2>2. ASSUME NEW c \in Added(post), NEW d \in checks PROVE ~(c.peer = d.peer /\ c.site = d.site)
    BY DEF Added, haveCheck
  <2> QED  BY <1>1, <2>1, <2>2 DEF NetworkInv, OneCheckPerSite
<1>7. IsFiniteSet(replies')
  BY <1>1 DEF NetworkInv
<1> QED  BY <1>1, <1>3, <1>4, <1>5, <1>6, <1>7, NetworkStep

LEMMA finishedCheckingStep ==
  ASSUME IInv, NEW check \in checks, NEW offline \in BOOLEAN, finishedChecking(check, offline)
  PROVE  IInv'
<1> USE DEF IInv
<1> DEFINE reply == [id |-> check.id, site |-> check.site,
                     peer |-> check.peer, offline |-> offline]
<1>1. /\ checks' = checks \ {check} /\ replies' = replies \cup {reply}
      /\ posts' = posts /\ requests' = requests
      /\ UNCHANGED <<queuedRetries, pushed, config>>
  BY DEF finishedChecking, requests
<1>2. /\ reply.id = check.id /\ reply.site = check.site /\ reply.peer = check.peer
      /\ reply \in Reply
  BY DEF TypeOK, Request, Reply
<1> HIDE DEF reply
<1>3. requests' \subseteq Request /\ checks' \subseteq Request /\ replies' \subseteq Reply
  BY <1>1, <1>2 DEF TypeOK
<1>4. \A m \in Messages' : \E n \in Messages : SamePair(m, n) /\ m.site = n.site
  <2>1. Messages' \subseteq Messages \cup {reply} /\ check \in Messages
    BY <1>1 DEF Messages
  <2> QED  BY <1>2, <2>1 DEF SamePair
<1>5. OnePerPeer'
  BY <1>1, <1>2 DEF NetworkInv, OnePerPeer, SamePair
<1>6. OneCheckPerSite'
  BY <1>1 DEF NetworkInv, OneCheckPerSite
<1>7. IsFiniteSet(replies')
  BY <1>1, FS_AddElement DEF NetworkInv
<1> QED  BY <1>1, <1>3, <1>4, <1>5, <1>6, <1>7, NetworkStep

LEMMA LoseStep ==
  ASSUME IInv, posts' \subseteq posts, checks' = checks, replies' \subseteq replies,
         UNCHANGED <<queuedRetries, pushed, config>>
  PROVE  IInv'
<1> USE DEF IInv
<1>0. requests' \subseteq requests
  BY DEF requests
<1>1. requests' \subseteq Request /\ checks' \subseteq Request /\ replies' \subseteq Reply
  BY <1>0 DEF TypeOK
<1>2. \A m \in Messages' : \E n \in Messages : SamePair(m, n) /\ m.site = n.site
  <2>1. Messages' \subseteq Messages
    BY <1>0 DEF Messages
  <2> QED  BY <2>1 DEF SamePair
<1>3. OnePerPeer' /\ OneCheckPerSite'
  BY <1>0 DEF NetworkInv, OnePerPeer, OneCheckPerSite, SamePair
<1>4. IsFiniteSet(replies')
  BY FS_Subset DEF NetworkInv
<1> QED  BY <1>1, <1>2, <1>3, <1>4, NetworkStep

(***************************************************************************)
(* The master: a new entry.  Nothing on the network has its number.        *)
(***************************************************************************)
LEMMA host_check_requestStep ==
  ASSUME IInv, NEW st \in Site, host_check_request(st)
  PROVE  IInv'
<1> USE DEF IInv
<1> DEFINE new == pushed + 1
<1>1. /\ pushed' = new /\ UNCHANGED <<network, config>>
      /\ queuedRetries' =
           [id \in Queued \cup {new} |->
              IF id = new THEN NewEntry(st)
              ELSE [queuedRetries[id] EXCEPT
                      !.alone = queuedRetries[id].alone /\ queuedRetries[id].site # st]]
  BY DEF host_check_request
<1>2. /\ Queued' = Queued \cup {new} /\ new \notin Queued /\ new \in Nat
      /\ Queued' \subseteq 1 .. pushed' /\ pushed' \in Nat
  BY <1>1 DEF Queued, TypeOK
<1>3. queuedRetries'[new] = NewEntry(st)
  BY <1>1
<1>4. ASSUME NEW id \in Queued
      PROVE  LET e == queuedRetries[id]
                 t == queuedRetries'[id]
             IN  /\ e \in Entry /\ t \in Entry /\ t.site = e.site
                 /\ t.alone <=> e.alone /\ e.site # st
                 /\ t.requests_sent = e.requests_sent /\ t.age = e.age /\ t.ticks = e.ticks
                 /\ t.requests_outstanding = e.requests_outstanding
                 /\ t.offline_confirms = e.offline_confirms /\ t.down = e.down
                 /\ t.asked = e.asked /\ t.heard = e.heard /\ t.confirmed = e.confirmed
  <2> DEFINE e == queuedRetries[id]
             t == queuedRetries'[id]
             alone == e.alone /\ e.site # st
  <2>1. e \in Entry
    BY DEF TypeOK
  <2>2. t = [e EXCEPT !.alone = alone] /\ alone \in BOOLEAN
    BY <1>1, <1>2
  <2> HIDE DEF alone, e, t
  <2>3. t \in Entry /\ t.alone = alone
    BY <2>1, <2>2 DEF Entry
  <2>4. /\ t.site = e.site /\ t.requests_sent = e.requests_sent /\ t.age = e.age
        /\ t.ticks = e.ticks /\ t.requests_outstanding = e.requests_outstanding
        /\ t.offline_confirms = e.offline_confirms /\ t.down = e.down
        /\ t.asked = e.asked /\ t.heard = e.heard /\ t.confirmed = e.confirmed
    BY <2>1, <2>2 DEF Entry
  <2> QED  BY <2>1, <2>3, <2>4 DEF alone, e, t
<1>5. /\ posts' = posts /\ requests' = requests /\ checks' = checks /\ replies' = replies
      /\ Messages' = Messages
  BY <1>1 DEF network, requests, Messages
<1>6. TypeOK'
  <2>1. queuedRetries' \in [Queued' -> Entry]
    <3>1. \A id \in Queued' : queuedRetries'[id] \in Entry
      BY <1>2, <1>3, <1>4, NewEntryType
    <3> QED  BY <1>1, <1>2, <3>1
  <2>2. Request \subseteq Request' /\ Reply \subseteq Reply'
    BY <1>1 DEF Request, Reply, TypeOK
  <2>3. Entry' = Entry
    BY DEF Entry
  <2> QED  BY <1>1, <1>2, <1>5, <2>1, <2>2, <2>3 DEF TypeOK, config
<1>7. NetworkInv'
  <2>1. SentFirst'
    <3> SUFFICES ASSUME NEW m \in Messages, m.id \in Queued'
                 PROVE  queuedRetries'[m.id].requests_sent
      BY <1>5 DEF SentFirst
    <3>1. m.id \in Queued
      BY <1>2, MessageTypes DEF TypeOK
    <3> QED  BY <1>4, <3>1 DEF NetworkInv, SentFirst
  <2> QED  BY <1>5, <2>1 DEF NetworkInv, OnePerPeer, OneCheckPerSite
<1>8. \A id \in Queued' : EntryInv(queuedRetries'[id])
  <2>1. ASSUME NEW id \in Queued PROVE EntryInv(queuedRetries'[id])
    BY <1>4 DEF EntryInv, Answered
  <2>2. EntryInv(queuedRetries'[new])
    BY <1>3, NewEntryType DEF EntryInv
  <2> QED  BY <1>2, <2>1, <2>2
<1>9. ASSUME NEW id \in Queued', queuedRetries'[id].alone
      PROVE  AloneInv(id)'
  <2>1. CASE id = new
    <3> DEFINE e == queuedRetries'[new]
    <3>1. /\ e.site = st /\ ~Pending(st) /\ e.asked = {} /\ e.heard = {} /\ e.confirmed = {}
          /\ e.requests_outstanding = 0 /\ e.offline_confirms = 0 /\ ~e.down
      BY <1>3, <1>9, <2>1, NewEntryType
    <3>2. \A other \in Queued' \ {new} : queuedRetries'[other].site # st
      BY <1>2, <1>4, <3>1 DEF Pending
    <3>3. \A m \in Messages' : m.site # st
      BY <1>5, <3>1 DEF Pending, Messages
    <3>4. Exact(e)
      BY <3>1, FS_EmptySet, LimitAssumption DEF Exact
    <3> QED  BY <2>1, <3>1, <3>2, <3>3, <3>4 DEF AloneInv, Exact
  <2>2. CASE id \in Queued
    <3> DEFINE e == queuedRetries[id]
               t == queuedRetries'[id]
    <3>1. AloneInv(id) /\ Exact(e) /\ e.site # st
      BY <1>4, <1>9, <2>2 DEF AloneInv
    <3>2. Exact(t)
      BY <1>4, <2>2, <3>1 DEF Exact
    <3>3. \A other \in Queued' \ {id} : queuedRetries'[other].site # t.site
      BY <1>2, <1>3, <1>4, <2>2, <3>1, NewEntryType DEF AloneInv
    <3>4. \A m \in Messages' : m.site = t.site => m.id = id /\ m.peer \in t.asked \ t.heard
      BY <1>4, <1>5, <2>2, <3>1 DEF AloneInv
    <3> QED  BY <3>2, <3>3, <3>4 DEF AloneInv, Exact
  <2> QED  BY <1>2, <2>1, <2>2
<1>10. verifiers' # {}
  BY <1>1 DEF config
<1> QED  BY <1>6, <1>7, <1>8, <1>9, <1>10 DEF EntryInv, Answered

(***************************************************************************)
(* The master: a tick.  Requests are sent of entries nothing on the        *)
(* network is about yet; the others get older, until they are due.         *)
(***************************************************************************)
LEMMA TickedInv ==
  ASSUME NEW e \in Entry, EntryInv(e), e.requests_sent, ~Due(e)
  PROVE  Ticked(e) \in Entry /\ EntryInv(Ticked(e))
<1> DEFINE t == Ticked(e)
<1>1. e.requests_outstanding > 0 /\ e.age + 1 <= Timeout
  BY TimeoutAssumption DEF Due, TimedOut, Entry
<1>2. /\ t \in Entry /\ t.requests_sent /\ t.age = e.age + 1 /\ t.ticks = e.ticks + 1
      /\ t.asked = e.asked /\ t.requests_outstanding = e.requests_outstanding
  BY <1>1, TickedType
<1> HIDE DEF t
<1>3. /\ Cardinality(e.asked) \in Nat /\ e.requests_outstanding \in Int /\ e.ticks \in Nat
      /\ e.age \in Nat /\ Timeout \in Nat /\ Answered(e) \in Int
      /\ Answered(e) * Timeout \in Int /\ Cardinality(e.asked) * Timeout \in Int
  BY PeersCount, TimeoutAssumption DEF Entry, Answered
<1>4. e.ticks <= Answered(e) * Timeout + e.age /\ e.asked # {}
  BY <1>1 DEF EntryInv
<1>5. Answered(t) = Answered(e) /\ t.ticks <= Answered(e) * Timeout + t.age
  BY <1>2, <1>3, <1>4 DEF Answered
<1>6. Answered(e) * Timeout + Timeout <= Cardinality(e.asked) * Timeout
  BY <1>1, <1>3, OneMoreTimeout DEF Answered
<1>7. t.ticks <= Cardinality(t.asked) * Timeout
  BY <1>1, <1>2, <1>3, <1>5, <1>6
<1> QED  BY <1>2, <1>4, <1>5, <1>7 DEF EntryInv, t

LEMMA SentInv ==
  ASSUME NEW e \in Entry, EntryInv(e), ~e.requests_sent,
         verifiers \in SUBSET Peer, verifiers # {}
  PROVE  /\ Sent(Ticked(e)) \in Entry /\ EntryInv(Sent(Ticked(e)))
         /\ Sent(Ticked(e)).requests_sent /\ Sent(Ticked(e)).asked = verifiers
         /\ Sent(Ticked(e)).requests_outstanding = Cardinality(verifiers)
         /\ Sent(Ticked(e)).site = e.site /\ Sent(Ticked(e)).heard = e.heard
         /\ Sent(Ticked(e)).confirmed = e.confirmed /\ Sent(Ticked(e)).down = e.down
         /\ Sent(Ticked(e)).offline_confirms = e.offline_confirms
         /\ Sent(Ticked(e)).alone = e.alone
<1> DEFINE t == Ticked(e)
           u == Sent(t)
<1>1. e.age = 0 /\ e.ticks = 0 /\ e.age + 1 <= Timeout
  BY TimeoutAssumption DEF EntryInv
<1>2. /\ t \in Entry /\ t.age = 1 /\ t.ticks = 1 /\ t.site = e.site /\ t.down = e.down
      /\ t.offline_confirms = e.offline_confirms /\ t.heard = e.heard
      /\ t.confirmed = e.confirmed /\ t.alone = e.alone
  BY <1>1, TickedType
<1> HIDE DEF t
<1>3. /\ u \in Entry /\ u.requests_sent /\ u.asked = verifiers
      /\ u.requests_outstanding = Cardinality(verifiers)
      /\ u.age = t.age /\ u.ticks = t.ticks /\ u.site = t.site /\ u.down = t.down
      /\ u.offline_confirms = t.offline_confirms /\ u.heard = t.heard
      /\ u.confirmed = t.confirmed /\ u.alone = t.alone
  BY <1>2, SentType
<1> HIDE DEF u
<1>4. Cardinality(verifiers) \in Nat /\ 0 < Cardinality(verifiers)
  BY PeersCount
<1>5. 0 * Timeout + Timeout <= Cardinality(verifiers) * Timeout /\ 0 * Timeout = 0
  BY <1>4, OneMoreTimeout, TimeoutAssumption
<1>6. Cardinality(verifiers) * Timeout \in Int /\ Timeout >= 1 /\ Timeout \in Nat
  BY <1>4, TimeoutAssumption
<1>7. Answered(u) = 0
  BY <1>3, <1>4 DEF Answered
<1>8. EntryInv(u)
  BY <1>2, <1>3, <1>5, <1>6, <1>7 DEF EntryInv
<1> QED  BY <1>2, <1>3, <1>8 DEF t, u

\* The batches are disjoint: a request is in its own only.
LEMMA SamePostIfSamePair ==
  ASSUME NEW unsent, NEW i \in unsent, NEW k \in unsent, NEW a, NEW b,
         NEW m \in Post(Batch(i, unsent), a), NEW n \in Post(Batch(k, unsent), b),
         SamePair(m, n)
  PROVE  Post(Batch(i, unsent), a) = Post(Batch(k, unsent), b)
<1>1. m.id \in Batch(i, unsent) /\ m.peer = a /\ n.id \in Batch(k, unsent) /\ n.peer = b
  BY DEF Post
<1>2. BatchNo(m.id, unsent) = BatchNo(i, unsent) /\ BatchNo(n.id, unsent) = BatchNo(k, unsent)
  BY <1>1 DEF Batch
<1>3. BatchNo(i, unsent) = BatchNo(k, unsent) /\ a = b
  BY <1>1, <1>2 DEF SamePair
<1> QED  BY <1>3 DEF Batch

LEMMA processQueuedRetriesStep ==
  ASSUME IInv, processQueuedRetries
  PROVE  IInv'
<1> USE DEF IInv
<1> DEFINE due    == {id \in Queued : Due(queuedRetries[id])}
           unsent == {id \in Queued : ~queuedRetries[id].requests_sent}
           new    == {Post(Batch(id, unsent), peer) : id \in unsent, peer \in verifiers}
           fresh  == UNION new
<1>1. /\ queuedRetries' = [id \in Queued \ due |->
                             IF id \in unsent THEN Sent(Ticked(queuedRetries[id]))
                                              ELSE Ticked(queuedRetries[id])]
      /\ posts' = posts \cup new /\ requests' = requests \cup fresh
      /\ UNCHANGED <<pushed, checks, replies, config>>
  BY DEF processQueuedRetries, requests
<1>2. /\ Queued' = Queued \ due /\ Queued' \subseteq Queued
      /\ unsent \subseteq Queued'
  BY <1>1 DEF Queued, Due
<1>3. /\ verifiers \in SUBSET Peer
      /\ \A id \in Queued : queuedRetries[id] \in Entry
  BY DEF TypeOK
<1>4. ASSUME NEW id \in unsent
      PROVE  LET e == queuedRetries[id]
                 t == queuedRetries'[id]
             IN  /\ t \in Entry /\ EntryInv(t) /\ t.requests_sent /\ t.asked = verifiers
                 /\ t.requests_outstanding = Cardinality(verifiers)
                 /\ t.site = e.site /\ t.heard = e.heard /\ t.confirmed = e.confirmed
                 /\ t.down = e.down /\ t.offline_confirms = e.offline_confirms
                 /\ t.alone = e.alone
  <2>1. queuedRetries'[id] = Sent(Ticked(queuedRetries[id]))
    BY <1>1, <1>2
  <2>2. id \in Queued /\ ~queuedRetries[id].requests_sent
    OBVIOUS
  <2> QED  BY <1>3, <2>1, <2>2, SentInv
<1>5. ASSUME NEW id \in Queued' \ unsent
      PROVE  LET e == queuedRetries[id]
                 t == queuedRetries'[id]
             IN  /\ t \in Entry /\ EntryInv(t) /\ t.requests_sent /\ t.asked = e.asked
                 /\ t.requests_outstanding = e.requests_outstanding
                 /\ t.site = e.site /\ t.heard = e.heard /\ t.confirmed = e.confirmed
                 /\ t.down = e.down /\ t.offline_confirms = e.offline_confirms
                 /\ t.alone = e.alone /\ e.requests_sent
  <2> DEFINE e == queuedRetries[id]
  <2>1. queuedRetries'[id] = Ticked(e)
    BY <1>1, <1>2
  <2>2. e \in Entry /\ e.requests_sent /\ ~Due(e) /\ EntryInv(e)
    BY <1>2, <1>3
  <2>3. e.age + 1 <= Timeout
    BY <2>2, TimeoutAssumption DEF Due, TimedOut, Entry
  <2> QED  BY <2>1, <2>2, <2>3, TickedInv, TickedType
<1> HIDE DEF due, unsent, fresh, new
<1>6. \A m \in fresh : \E id \in unsent, peer \in verifiers :
        m = [id |-> id, site |-> queuedRetries[id].site, peer |-> peer]
  BY DEF fresh, new, Post, Batch
<1>7. \A m \in fresh : /\ m.id \in unsent /\ m.peer \in verifiers
                       /\ m.site = queuedRetries[m.id].site
                       /\ m = [id |-> m.id, site |-> m.site, peer |-> m.peer]
  BY <1>6
<1>8. \A m \in Messages : m.id \notin unsent
  BY DEF unsent, NetworkInv, SentFirst
<1>9. Messages' = Messages \cup fresh
  BY <1>1 DEF Messages
<1>10. TypeOK'
  <2>1. fresh \subseteq Request
    <3> SUFFICES ASSUME NEW m \in fresh PROVE m \in Request
      OBVIOUS
    <3>1. m.id \in Queued
      BY <1>2, <1>7 DEF unsent
    <3>2. m.id \in 1 .. pushed /\ m.site \in Site /\ m.peer \in Peer
      BY <1>3, <1>7, <3>1 DEF TypeOK, Entry
    <3> QED  BY <1>7, <3>2 DEF Request
  <2>2. requests' \subseteq Request' /\ checks' \subseteq Request' /\ replies' \subseteq Reply'
    BY <1>1, <2>1 DEF TypeOK, Request, Reply
  <2>3. queuedRetries' \in [Queued' -> Entry]
    <3>1. \A id \in Queued' : queuedRetries'[id] \in Entry
      BY <1>4, <1>5
    <3> QED  BY <1>1, <1>2, <3>1
  <2>4. Entry' = Entry
    BY DEF Entry
  <2> QED  BY <1>1, <1>2, <2>2, <2>3, <2>4 DEF TypeOK, config
<1>11. NetworkInv'
  <2>1. OnePerPeer'
    <3>1. \A m \in fresh, n \in Messages : ~SamePair(m, n) /\ ~SamePair(n, m)
      BY <1>7, <1>8 DEF SamePair
    <3>2. \A m, n \in fresh : SamePair(m, n) => m = n
      BY <1>7 DEF SamePair
    <3>3. \A p, q \in posts' : \A m \in p, n \in q : SamePair(m, n) => p = q
      <4> SUFFICES ASSUME NEW p \in posts', NEW q \in posts', NEW m \in p, NEW n \in q,
                          SamePair(m, n)
                   PROVE  p = q
        OBVIOUS
      <4>1. /\ p \in posts => m \in Messages
            /\ q \in posts => n \in Messages
            /\ p \in new => m \in fresh
            /\ q \in new => n \in fresh
        BY DEF Messages, requests, fresh
      <4>2. CASE p \in new /\ q \in new
        BY <4>2, SamePostIfSamePair DEF new
      <4>3. CASE p \in posts /\ q \in posts
        BY <4>3 DEF NetworkInv, OnePerPeer
      <4> QED  BY <1>1, <3>1, <4>1, <4>2, <4>3
    <3> QED  BY <1>1, <3>1, <3>2, <3>3 DEF NetworkInv, OnePerPeer, Messages
  <2>2. SentFirst'
    <3> SUFFICES ASSUME NEW m \in Messages', m.id \in Queued'
                 PROVE  queuedRetries'[m.id].requests_sent
      BY DEF SentFirst
    <3> QED  BY <1>4, <1>5
  <2> QED  BY <1>1, <2>1, <2>2 DEF NetworkInv, OneCheckPerSite
<1>12. \A id \in Queued' : EntryInv(queuedRetries'[id])
  BY <1>4, <1>5
<1>13. ASSUME NEW id \in Queued', queuedRetries'[id].alone
       PROVE  AloneInv(id)'
  <2> DEFINE e == queuedRetries[id]
             t == queuedRetries'[id]
  <2>1. t.site = e.site /\ e.alone /\ AloneInv(id)
    BY <1>2, <1>4, <1>5, <1>13
  <2>2. Exact(e) /\ e \in Entry
    BY <1>2, <1>3, <2>1 DEF AloneInv
  <2>3. \A other \in Queued' \ {id} : queuedRetries'[other].site # t.site
    BY <1>2, <1>4, <1>5, <2>1 DEF AloneInv
  <2>4. CASE id \in unsent
    <3>1. e.asked = {} /\ e.heard = {} /\ e.confirmed = {}
      BY <2>2, <2>4 DEF Exact, unsent
    <3>2. \A m \in Messages' : m.site = t.site => m.id = id /\ m.peer \in t.asked \ t.heard
      <4>1. \A m \in Messages : m.site # e.site
        BY <2>1, <3>1 DEF AloneInv
      <4>2. \A m \in fresh : m.site = e.site => m.id = id
        BY <1>2, <1>7, <2>1 DEF AloneInv
      <4> QED  BY <1>4, <1>7, <1>9, <2>1, <2>4, <3>1, <4>1, <4>2
    <3>3. Exact(t)
      <4>1. Cardinality(verifiers) \in Nat /\ Cardinality({}) = 0
        BY <1>3, PeersCount, FS_EmptySet
      <4>2. /\ t.requests_sent /\ t.asked = verifiers
            /\ t.requests_outstanding = Cardinality(verifiers)
            /\ t.heard = {} /\ t.confirmed = {} /\ t.down = e.down
            /\ t.offline_confirms = e.offline_confirms
        BY <1>4, <2>4, <3>1
      <4>3. /\ t.heard \subseteq t.asked /\ t.confirmed \subseteq t.heard
            /\ t.requests_outstanding = Cardinality(t.asked) - Cardinality(t.heard)
        BY <4>1, <4>2
      <4>4. t.offline_confirms = Cardinality(t.confirmed)
        BY <2>2, <3>1, <4>2 DEF Exact
      <4>5. t.down <=> Cardinality(t.confirmed) >= PEER_OFFLINE_LIMIT
        BY <2>2, <3>1, <4>2 DEF Exact
      <4> HIDE DEF t
      <4> QED  BY <4>2, <4>3, <4>4, <4>5 DEF Exact
    <3> QED  BY <2>3, <3>2, <3>3 DEF AloneInv, Exact
  <2>5. CASE id \notin unsent
    <3>1. \A m \in Messages' : m.site = t.site => m.id = id /\ m.peer \in t.asked \ t.heard
      <4>1. \A m \in fresh : m.site # e.site
        BY <1>2, <1>7, <2>1, <2>5 DEF AloneInv
      <4> QED  BY <1>5, <1>9, <2>1, <2>5, <4>1 DEF AloneInv
    <3>2. Exact(t)
      BY <1>5, <2>2, <2>5 DEF Exact
    <3> QED  BY <2>3, <3>1, <3>2 DEF AloneInv, Exact
  <2> QED  BY <2>4, <2>5
<1>14. verifiers' # {}
  BY <1>1 DEF config
<1> QED  BY <1>10, <1>11, <1>12, <1>13, <1>14 DEF EntryInv, Answered

(***************************************************************************)
(* The master: a reply, counted by the first entry of its site.            *)
(***************************************************************************)
LEMMA CountedInv ==
  ASSUME NEW e \in Entry, EntryInv(e), NEW reply,
         reply.peer \in Peer, reply.offline \in BOOLEAN, e.requests_sent
  PROVE  EntryInv(Counted(e, reply.peer, reply.offline))
<1> DEFINE t == Counted(e, reply.peer, reply.offline)
<1>1. /\ t.requests_sent /\ t.age = 0 /\ t.ticks = e.ticks /\ t.asked = e.asked
      /\ t.requests_outstanding = e.requests_outstanding - 1
  BY CountedType
<1> HIDE DEF t
<1>2. /\ Cardinality(e.asked) \in Nat /\ e.requests_outstanding \in Int /\ e.ticks \in Nat
      /\ e.age \in 0 .. Timeout /\ Timeout \in Nat
      /\ Answered(e) \in Int /\ Answered(t) = Answered(e) + 1
      /\ Answered(e) * Timeout \in Int /\ Answered(t) * Timeout \in Int
  BY <1>1, PeersCount, TimeoutAssumption DEF Entry, Answered
<1>3. Answered(e) * Timeout + Timeout <= Answered(t) * Timeout
  BY <1>2, OneMoreTimeout
<1>4. e.requests_outstanding > 0 => e.ticks <= Answered(e) * Timeout + e.age
  BY DEF EntryInv
<1>5. t.requests_outstanding > 0 => t.ticks <= Answered(t) * Timeout + t.age
  BY <1>1, <1>2, <1>3, <1>4
<1> QED  BY <1>1, <1>5 DEF EntryInv, t

LEMMA checkHostStatusStep ==
  ASSUME IInv, NEW reply \in replies, checkHostStatus(reply)
  PROVE  IInv'
<1> USE DEF IInv
<1>1. /\ replies' = replies \ {reply}
      /\ queuedRetries' =
           [id \in Queued |->
              IF Answers(reply, id)
                THEN Counted(queuedRetries[id], reply.peer, reply.offline)
                ELSE queuedRetries[id]]
      /\ posts' = posts /\ requests' = requests /\ UNCHANGED <<pushed, checks, config>>
  BY DEF checkHostStatus, requests
<1>2. /\ Queued' = Queued /\ reply.peer \in Peer /\ reply.offline \in BOOLEAN
      /\ \A id \in Queued : queuedRetries[id] \in Entry
  BY <1>1 DEF Queued, TypeOK, Reply
<1>3. ASSUME NEW id \in Queued
      PROVE  LET e == queuedRetries[id]
                 t == queuedRetries'[id]
             IN  /\ t \in Entry /\ t.site = e.site /\ t.alone = e.alone
                 /\ t.requests_sent = e.requests_sent
  <2> DEFINE e == queuedRetries[id]
             t == queuedRetries'[id]
             c == Counted(e, reply.peer, reply.offline)
  <2>1. /\ c \in Entry /\ c.site = e.site /\ c.alone = e.alone
        /\ c.requests_sent = e.requests_sent
    BY <1>2, CountedType
  <2>2. t = c \/ t = e
    BY <1>1
  <2> QED  BY <1>2, <2>1, <2>2, Zenon
<1>4. Messages' \subseteq Messages
  BY <1>1 DEF Messages
<1>5. TypeOK'
  <2>1. queuedRetries' \in [Queued' -> Entry]
    BY <1>1, <1>2, <1>3
  <2>2. requests' \subseteq Request' /\ checks' \subseteq Request' /\ replies' \subseteq Reply'
    BY <1>1 DEF TypeOK, Request, Reply
  <2>3. Entry' = Entry
    BY DEF Entry
  <2> QED  BY <1>1, <1>2, <2>1, <2>2, <2>3 DEF TypeOK, config
<1>6. NetworkInv'
  <2>1. SentFirst'
    BY <1>2, <1>3, <1>4 DEF NetworkInv, SentFirst
  <2>2. OnePerPeer' /\ OneCheckPerSite'
    BY <1>1 DEF NetworkInv, OnePerPeer, OneCheckPerSite
  <2>3. IsFiniteSet(replies')
    BY <1>1, FS_Subset DEF NetworkInv
  <2> QED  BY <2>1, <2>2, <2>3 DEF NetworkInv
<1>7. ASSUME NEW id \in Queued PROVE EntryInv(queuedRetries'[id])
  <2> DEFINE e == queuedRetries[id]
  <2>1. CASE Answers(reply, id) /\ e.requests_sent
    BY <1>1, <1>2, <2>1, CountedInv
  <2>2. CASE Answers(reply, id) /\ ~e.requests_sent
    <3>1. /\ queuedRetries'[id].age = 0 /\ queuedRetries'[id].ticks = e.ticks
          /\ ~queuedRetries'[id].requests_sent
      <4> DEFINE c == Counted(e, reply.peer, reply.offline)
      <4>1. queuedRetries'[id] = c
        BY <1>1, <2>2
      <4>2. e \in Entry
        BY <1>2
      <4>3. c.age = 0 /\ c.ticks = e.ticks /\ c.requests_sent = e.requests_sent
        BY <1>2, <4>2, CountedType
      <4> HIDE DEF c
      <4> QED  BY <2>2, <4>1, <4>3
    <3> QED  BY <2>2, <3>1 DEF EntryInv
  <2>3. CASE ~Answers(reply, id)
    BY <1>1, <2>3
  <2> QED  BY <2>1, <2>2, <2>3
<1>8. ASSUME NEW id \in Queued, queuedRetries'[id].alone
      PROVE  AloneInv(id)'
  <2> DEFINE e == queuedRetries[id]
             t == queuedRetries'[id]
  <2>1. AloneInv(id) /\ e \in Entry /\ Exact(e) /\ t.site = e.site
    BY <1>2, <1>3, <1>8 DEF AloneInv
  <2>2. \A other \in Queued' \ {id} : queuedRetries'[other].site # t.site
    BY <1>2, <1>3, <2>1 DEF AloneInv
  <2>3. CASE reply.site # e.site
    <3>1. t = e
      BY <1>1, <2>3 DEF Answers
    <3> QED  BY <1>4, <2>1, <2>2, <3>1 DEF AloneInv, Exact
  <2>4. CASE reply.site = e.site
    <3>1. Answers(reply, id)
      <4>1. id <= id
        BY DEF TypeOK
      <4> QED  BY <2>1, <2>4, <4>1 DEF Answers, AloneInv
    <3>2. t = Counted(e, reply.peer, reply.offline)
      BY <1>1, <3>1
    <3>3. reply.id = id /\ reply.peer \in e.asked \ e.heard /\ reply \in Messages
      BY <2>1, <2>4 DEF AloneInv, Messages
    <3>6. /\ t.asked = e.asked /\ t.heard = e.heard \cup {reply.peer}
          /\ t.requests_outstanding = e.requests_outstanding - 1
          /\ t.confirmed = IF reply.offline THEN e.confirmed \cup {reply.peer} ELSE e.confirmed
          /\ t.offline_confirms = e.offline_confirms + (IF reply.offline THEN 1 ELSE 0)
          /\ t.down <=> e.down \/ (reply.offline /\ t.offline_confirms >= PEER_OFFLINE_LIMIT)
          /\ t.requests_sent = e.requests_sent
      <4> DEFINE c == Counted(e, reply.peer, reply.offline)
      <4>1. /\ c.asked = e.asked /\ c.heard = e.heard \cup {reply.peer}
            /\ c.requests_outstanding = e.requests_outstanding - 1
            /\ c.confirmed = IF reply.offline THEN e.confirmed \cup {reply.peer} ELSE e.confirmed
            /\ c.offline_confirms = e.offline_confirms + (IF reply.offline THEN 1 ELSE 0)
            /\ c.down <=> e.down \/ (reply.offline /\ c.offline_confirms >= PEER_OFFLINE_LIMIT)
            /\ c.requests_sent = e.requests_sent
        <5>1. e \in Entry
          BY <2>1
        <5> HIDE DEF e
        <5> QED  BY <1>2, <5>1, CountedType
      <4>2. t = c
        BY <3>2
      <4> HIDE DEF c, t, e
      <4> QED  BY <4>1, <4>2, Zenon
    <3>4. \A m \in Messages' : m.site = t.site => m.id = id /\ m.peer \in t.asked \ t.heard
      <4> SUFFICES ASSUME NEW m \in Messages', m.site = e.site
                   PROVE  m.id = id /\ m.peer \in t.asked \ t.heard
        BY <2>1
      <4>1. m \in Messages /\ m.id = id /\ m.peer \in e.asked \ e.heard
        BY <1>4, <2>1 DEF AloneInv
      <4>2. ~SamePair(m, reply)
        BY <1>1 DEF Messages, NetworkInv, OnePerPeer, SamePair
      <4> QED  BY <3>3, <3>6, <4>1, <4>2 DEF SamePair
    <3>5. Exact(t)
      <4>2. /\ reply.peer \in Peer \ e.heard /\ reply.peer \in Peer \ e.confirmed
            /\ e.heard \in SUBSET Peer /\ e.confirmed \in SUBSET Peer /\ e.asked \in SUBSET Peer
            /\ e.confirmed \subseteq e.heard /\ e.heard \subseteq e.asked
        BY <1>2, <2>1, <3>3 DEF Exact, Entry
      <4>3. /\ Cardinality(e.heard) \in Nat /\ Cardinality(e.confirmed) \in Nat
            /\ Cardinality(e.asked) \in Nat
            /\ Cardinality(e.heard \cup {reply.peer}) = Cardinality(e.heard) + 1
            /\ Cardinality(e.confirmed \cup {reply.peer}) = Cardinality(e.confirmed) + 1
        BY <4>2, PeersCount
      <4>4. t.heard \subseteq t.asked /\ t.confirmed \subseteq t.heard
        BY <3>3, <3>6, <4>2
      <4>5. t.requests_outstanding = Cardinality(t.asked) - Cardinality(t.heard)
        BY <2>1, <3>6, <4>3 DEF Exact
      <4>6. t.offline_confirms = Cardinality(t.confirmed)
        BY <2>1, <3>6, <4>3 DEF Exact
      <4>7. t.down <=> Cardinality(t.confirmed) >= PEER_OFFLINE_LIMIT
        BY <1>2, <2>1, <3>6, <4>3, <4>6, LimitAssumption DEF Exact
      <4>8. ~t.requests_sent => t.asked = {}
        BY <2>1, <3>6 DEF Exact
      <4> QED  BY <4>4, <4>5, <4>6, <4>7, <4>8 DEF Exact
    <3> QED  BY <2>2, <3>4, <3>5 DEF AloneInv, Exact
  <2> QED  BY <2>3, <2>4
<1>9. verifiers' # {}
  BY <1>1 DEF config
<1> QED  BY <1>2, <1>5, <1>6, <1>7, <1>8, <1>9 DEF EntryInv, Answered

(***************************************************************************)
(* The configuration is read again.                                        *)
(***************************************************************************)
LEMMA ReloadConfigStep ==
  ASSUME IInv, ReloadConfig
  PROVE  IInv'
<1> USE DEF IInv
<1>1. /\ verifiers' \in SUBSET Peer /\ verifiers' # {} /\ reloads' = reloads + 1
      /\ UNCHANGED <<queuedRetries, pushed, posts, requests, checks, replies, veriflierArray>>
  BY DEF ReloadConfig, network, requests
<1>2. TypeOK'
  BY <1>1 DEF TypeOK, Queued, Request, Reply, Entry
<1>3. NetworkInv'
  BY <1>1 DEF NetworkInv, OnePerPeer, SentFirst, OneCheckPerSite, Messages, Queued
<1>4. \A id \in Queued' : EntryInv(queuedRetries'[id])
  BY <1>1 DEF Queued
<1>5. \A id \in Queued : AloneInv(id) => AloneInv(id)'
  BY <1>1 DEF AloneInv, Exact, Messages, Queued
<1> QED  BY <1>1, <1>2, <1>3, <1>4, <1>5 DEF Queued, EntryInv, Answered

LEMMA StutterStep ==
  ASSUME IInv, UNCHANGED vars
  PROVE  IInv'
<1> USE DEF IInv
<1>1. UNCHANGED <<queuedRetries, pushed, posts, requests, checks, replies, verifiers,
                  veriflierArray, reloads>>
  BY DEF vars, network, config, requests
<1>2. \A id \in Queued : AloneInv(id) => AloneInv(id)'
  BY <1>1 DEF AloneInv, Exact, Messages, Queued
<1> QED
  BY <1>1, <1>2
     DEF TypeOK, Queued, Request, Reply, Entry, NetworkInv, OnePerPeer, SentFirst,
         OneCheckPerSite, Messages, EntryInv, Answered

-----------------------------------------------------------------------------
LEMMA StepInv ==
  ASSUME IInv, [Next]_vars
  PROVE  IInv'
<1>1. ASSUME NEW st \in Site, host_check_request(st) PROVE IInv'
  BY <1>1, host_check_requestStep
<1>2. CASE processQueuedRetries
  BY <1>2, processQueuedRetriesStep
<1>3. ASSUME NEW post \in posts, addChecks(post) \/ LosePost(post)
      PROVE  IInv'
  BY <1>3, addChecksStep, LoseStep DEF LosePost
<1>4. ASSUME NEW check \in checks, NEW offline \in BOOLEAN, finishedChecking(check, offline)
      PROVE  IInv'
  BY <1>4, finishedCheckingStep
<1>5. ASSUME NEW reply \in replies, checkHostStatus(reply) \/ LoseReply(reply)
      PROVE  IInv'
  BY <1>5, checkHostStatusStep, LoseStep DEF LoseReply
<1>6. CASE ReloadConfig
  BY <1>6, ReloadConfigStep
<1>7. CASE UNCHANGED vars
  BY <1>7, StutterStep
<1> QED  BY <1>1, <1>2, <1>3, <1>4, <1>5, <1>6, <1>7 DEF Next

(***************************************************************************)
(* The invariant holds in every reachable state.                           *)
(***************************************************************************)
THEOREM InvariantHolds == Spec => []IInv
<1>1. IInv /\ [Next]_vars => IInv'
  BY StepInv
<1> QED  BY InitInv, <1>1, PTL DEF Spec

(***************************************************************************)
(* The entries of queuedRetries and what is on the network stay well       *)
(* formed; in particular the age of an entry never passes the time-out.    *)
(***************************************************************************)
THEOREM TypeCorrect == Spec => []TypeOK
<1>1. IInv => TypeOK
  BY DEF IInv
<1> QED  BY <1>1, InvariantHolds, PTL

(***************************************************************************)
(* requests_outstanding and offline_confirms of checkHostStatus are exact, *)
(* and an outage is called exactly when PEER_OFFLINE_LIMIT different peers *)
(* confirm it, for every entry that shares its site with no other request. *)
(***************************************************************************)
THEOREM CountsHold == Spec => []CountsAreExact
<1>1. IInv => CountsAreExact
  <2> SUFFICES ASSUME IInv, NEW id \in Queued, queuedRetries[id].alone
               PROVE  Exact(queuedRetries[id])
    BY DEF CountsAreExact, PeersCountedOnce, DownWhenConfirmed, Exact
  <2> QED  BY DEF IInv, AloneInv
<1> QED  BY <1>1, InvariantHolds, PTL

(***************************************************************************)
(* No entry, alone or not, stays in queuedRetries longer than the time-out *)
(* for every peer it was sent to, whatever replies put the time-out off.   *)
(***************************************************************************)
THEOREM ResidenceIsBounded == Spec => []ResidenceBound
<1>1. IInv => ResidenceBound
  <2> SUFFICES ASSUME IInv, NEW id \in Queued
               PROVE  LET e == queuedRetries[id]
                      IN  e.ticks <= (IF e.requests_sent THEN Cardinality(e.asked) ELSE 1)
                                       * Timeout
    BY DEF ResidenceBound
  <2> DEFINE e == queuedRetries[id]
  <2>1. EntryInv(e)
    BY DEF IInv
  <2>2. CASE e.requests_sent
    BY <2>1, <2>2 DEF EntryInv
  <2>3. CASE ~e.requests_sent
    BY <2>1, <2>3, TimeoutAssumption DEF EntryInv
  <2> QED  BY <2>2, <2>3
<1> QED  BY <1>1, InvariantHolds, PTL

(***************************************************************************)
(* processQueuedRetries drops an entry that is alone only once it has timed *)
(* out or every peer has been heard: nothing else removes one, and         *)
(* requests_outstanding says how many peers are missing.                   *)
(***************************************************************************)
LEMMA SubsetOfSameSize ==
  ASSUME NEW T \in SUBSET Peer, NEW S \in SUBSET T, Cardinality(T) - Cardinality(S) <= 0
  PROVE  S = T
<1>1. IsFiniteSet(T)
  BY PeerAssumption, FS_Subset
<1>2. Cardinality(S) \in Nat /\ Cardinality(T) \in Nat
  BY PeersCount
<1>3. Cardinality(S) <= Cardinality(T) /\ (Cardinality(S) = Cardinality(T) => S = T)
  BY <1>1, FS_Subset
<1> QED  BY <1>2, <1>3

LEMMA DueHasHeardAll ==
  ASSUME IInv, NEW id \in Queued, Due(queuedRetries[id]), queuedRetries[id].alone
  PROVE  TimedOut(queuedRetries[id]) \/ queuedRetries[id].heard = queuedRetries[id].asked
<1> DEFINE e == queuedRetries[id]
<1>1. e \in Entry /\ Exact(e)
  BY DEF IInv, TypeOK, AloneInv
<1>2. e.asked \in SUBSET Peer /\ e.heard \in SUBSET e.asked
  BY <1>1 DEF Exact, Entry
<1>3. CASE e.requests_outstanding <= 0
  <2>1. Cardinality(e.asked) - Cardinality(e.heard) <= 0
    BY <1>1, <1>3 DEF Exact
  <2> QED  BY <1>2, <2>1, SubsetOfSameSize
<1>4. CASE TimedOut(e)
  BY <1>4
<1> QED  BY <1>3, <1>4 DEF Due

THEOREM NoEntryPurgedEarly == Spec => NoEarlyPurge
<1> DEFINE P == \A id \in Queued \ Queued' :
                  LET entry == queuedRetries[id]
                  IN  entry.alone => TimedOut(entry) \/ entry.heard = entry.asked
<1>1. IInv /\ [Next]_vars => [P]_vars
  <2> SUFFICES ASSUME IInv, Next PROVE P
    OBVIOUS
  <2>1. CASE processQueuedRetries
    <3>1. \A id \in Queued \ Queued' : Due(queuedRetries[id])
      BY <2>1 DEF processQueuedRetries, Queued
    <3> QED  BY <3>1, DueHasHeardAll
  <2>2. CASE ~processQueuedRetries
    <3>1. Queued \subseteq Queued'
      BY <2>2 DEF Next, host_check_request, addChecks, LosePost, finishedChecking,
                  checkHostStatus, LoseReply, ReloadConfig, Queued
    <3> QED  BY <3>1
  <2> QED  BY <2>1, <2>2
<1> QED  BY <1>1, InvariantHolds, PTL DEF Spec, NoEarlyPurge

-----------------------------------------------------------------------------
(***************************************************************************)
(* The refinement.  The sites under check and the number of replies on     *)
(* their way change as the promise of the verifliers allows.               *)
(***************************************************************************)
Checking == {<<c.peer, c.site>> : c \in checks}

RepliesOf(ps) == {r \in replies : r.peer = ps[1] /\ r.site = ps[2]}

LEMMA UnsentIsCount ==
  /\ Unsent = [ps \in Peer \X Site |-> Cardinality(RepliesOf(ps))]
  /\ Unsent' = [ps \in Peer \X Site |-> Cardinality(RepliesOf(ps)')]
BY DEF Unsent, RepliesOf

LEMMA RepliesOfFinite ==
  ASSUME IsFiniteSet(replies)
  PROVE  \A ps \in Peer \X Site : IsFiniteSet(RepliesOf(ps)) /\ Cardinality(RepliesOf(ps)) \in Nat
<1> SUFFICES ASSUME NEW ps \in Peer \X Site
             PROVE  IsFiniteSet(RepliesOf(ps)) /\ Cardinality(RepliesOf(ps)) \in Nat
  OBVIOUS
<1>1. RepliesOf(ps) \subseteq replies
  BY DEF RepliesOf
<1> QED  BY <1>1, FS_Subset, FS_CardinalityType

LEMMA PromiseInit == Init => Promise!Init
<1> SUFFICES ASSUME Init PROVE Promise!Init
  OBVIOUS
<1>1. checks = {} /\ replies = {}
  BY DEF Init
<1>2. \A ps : RepliesOf(ps) = {}
  BY <1>1 DEF RepliesOf
<1>3. Unsent = [ps \in Peer \X Site |-> 0]
  BY <1>2, UnsentIsCount, FS_EmptySet
<1> QED  BY <1>1, <1>3 DEF Promise!Init

\* A peer starts the checks of sites it is not checking.
LEMMA PromiseAddChecks ==
  ASSUME IInv, NEW post \in posts, addChecks(post)
  PROVE  \E sites \in SUBSET (Peer \X Site) : Promise!addChecks(sites)
<1>0. PICK sites : sites = {<<r.peer, r.site>> : r \in Added(post)}
  OBVIOUS
<1>1. replies' = replies /\ Unsent' = Unsent /\ checks' = checks \cup Added(post)
  BY DEF addChecks, Added, Unsent
<1>2. Checking' = Checking \cup sites
  BY <1>0, <1>1 DEF Checking
<1>3. sites \cap Checking = {}
  BY <1>0 DEF Checking, Added, haveCheck
<1>4. sites \in SUBSET (Peer \X Site)
  <2>1. \A r \in Added(post) : r \in Request
    BY DEF Added, requests, IInv, TypeOK
  <2> QED  BY <1>0, <2>1 DEF Request
<1>5. Promise!addChecks(sites)
  BY <1>1, <1>2, <1>3 DEF Promise!addChecks, Checking
<1> QED  BY <1>4, <1>5

\* A check yields one reply, and it was the only one of its peer and site.
LEMMA PromiseFinishedChecking ==
  ASSUME IInv, NEW check \in checks, NEW offline \in BOOLEAN, finishedChecking(check, offline)
  PROVE  Promise!finishedChecking(<<check.peer, check.site>>)
<1> DEFINE this  == <<check.peer, check.site>>
           reply == [id |-> check.id, site |-> check.site,
                     peer |-> check.peer, offline |-> offline]
<1>1. checks' = checks \ {check} /\ replies' = replies \cup {reply}
  BY DEF finishedChecking
<1>2. this \in Checking
  BY DEF Checking
<1>3. Checking' = Checking \ {this}
  BY <1>1 DEF Checking, IInv, NetworkInv, OneCheckPerSite
<1>4. reply.peer = check.peer /\ reply.site = check.site /\ reply.id = check.id
  OBVIOUS
<1> HIDE DEF reply
<1>5. reply \notin replies
  BY <1>4 DEF IInv, NetworkInv, OnePerPeer, SamePair
<1>6. Unsent' = [Unsent EXCEPT ![this] = @ + 1]
  <2>1. RepliesOf(this)' = RepliesOf(this) \cup {reply} /\ reply \notin RepliesOf(this)
    BY <1>1, <1>4, <1>5 DEF RepliesOf
  <2>2. \A ps \in Peer \X Site : ps # this => RepliesOf(ps)' = RepliesOf(ps)
    BY <1>1, <1>4 DEF RepliesOf
  <2>3. this \in Peer \X Site
    BY DEF IInv, TypeOK, Request
  <2>4. Cardinality(RepliesOf(this)') = Cardinality(RepliesOf(this)) + 1
    BY <2>1, <2>3, RepliesOfFinite, FS_AddElement DEF IInv, NetworkInv
  <2> HIDE DEF this
  <2> QED  BY <2>2, <2>3, <2>4, UnsentIsCount
<1> QED  BY <1>2, <1>3, <1>6 DEF Promise!finishedChecking, Checking

\* Replies reach the master, or are lost.
LEMMA PromiseFinishedSending ==
  ASSUME IInv, checks' = checks, replies' \subseteq replies
  PROVE  Promise!finishedSending
<1>1. ASSUME NEW ps \in Peer \X Site PROVE Unsent'[ps] \in 0 .. Unsent[ps]
  <2>1. RepliesOf(ps)' \subseteq RepliesOf(ps)
    BY DEF RepliesOf
  <2>2. IsFiniteSet(RepliesOf(ps))
    BY RepliesOfFinite DEF IInv, NetworkInv
  <2>3. /\ IsFiniteSet(RepliesOf(ps)') /\ Cardinality(RepliesOf(ps)') <= Cardinality(RepliesOf(ps))
    BY <2>1, <2>2, FS_Subset
  <2>4. Cardinality(RepliesOf(ps)') \in Nat /\ Cardinality(RepliesOf(ps)) \in Nat
    BY <2>2, <2>3, FS_CardinalityType
  <2> QED  BY <2>3, <2>4, UnsentIsCount
<1>2. DOMAIN Unsent' = Peer \X Site
  BY UnsentIsCount
<1> QED  BY <1>1, <1>2 DEF Promise!finishedSending

LEMMA PromiseStep ==
  ASSUME IInv, [Next]_vars
  PROVE  [Promise!Next]_<<Checking, Unsent>>
<1> DEFINE Simulated == Promise!Next \/ UNCHANGED <<Checking, Unsent>>
<1>1. ASSUME UNCHANGED <<checks, replies>> PROVE Simulated
  BY <1>1 DEF Checking, Unsent
<1>2. ASSUME NEW post \in posts, addChecks(post) PROVE Simulated
  BY <1>2, PromiseAddChecks DEF Promise!Next
<1>3. ASSUME NEW check \in checks, NEW offline \in BOOLEAN, finishedChecking(check, offline)
      PROVE  Simulated
  <2>1. <<check.peer, check.site>> \in Peer \X Site
    BY DEF IInv, TypeOK, Request
  <2> QED  BY <1>3, <2>1, PromiseFinishedChecking DEF Promise!Next
<1>4. ASSUME NEW reply \in replies, checkHostStatus(reply) \/ LoseReply(reply)
      PROVE  Simulated
  <2>1. checks' = checks /\ replies' \subseteq replies
    BY <1>4 DEF checkHostStatus, LoseReply
  <2> QED  BY <2>1, PromiseFinishedSending DEF Promise!Next
<1>5. ASSUME NEW site \in Site, host_check_request(site) PROVE Simulated
  BY <1>1, <1>5 DEF host_check_request, network
<1>6. CASE processQueuedRetries
  BY <1>1, <1>6 DEF processQueuedRetries
<1>7. ASSUME NEW post \in posts, LosePost(post) PROVE Simulated
  BY <1>1, <1>7 DEF LosePost
<1>8. CASE ReloadConfig \/ UNCHANGED vars
  BY <1>1, <1>8 DEF ReloadConfig, vars, network
<1> QED  BY <1>2, <1>3, <1>4, <1>5, <1>6, <1>7, <1>8 DEF Next

(***************************************************************************)
(* Every veriflier, seen by the jetmon servers, keeps the promise that     *)
(* CheckController.tla implements: it checks a site once at a time         *)
(* (Checker::haveCheck), and answers each check once.                      *)
(***************************************************************************)
THEOREM PeersKeepPromise == Spec => PeersAreVerifliers
<1>1. IInv /\ [Next]_vars => [Promise!Next]_<<Checking, Unsent>>
  BY PromiseStep
<1> QED  BY <1>1, PromiseInit, InvariantHolds, PTL DEF Spec, PeersAreVerifliers, Promise!Spec, Checking
=============================================================================
