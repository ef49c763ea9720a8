----------------------------- MODULE PeerConfirm -----------------------------
(***************************************************************************)
(* How the verifliers confirm that a site is down: the queuedRetries of    *)
(* the master (lib/jetmon.js), the requests it posts to every veriflier    *)
(* (lib/comms.js), the checks there (veriflier/) and the replies, which    *)
(* come back over connections of their own through the SSL workers         *)
(* (lib/server.js).  A post that fails, either way, is logged and lost;    *)
(* posts are not ordered.  The requests of a tick go to a veriflier in     *)
(* batches, and it adds those of a batch in one go, under its lock.        *)
(*                                                                         *)
(* queuedRetries maps the number of a request to its entry: entries are    *)
(* pushed at the end, so the order of the array is that of the numbers.    *)
(* Requests, checks and replies carry the number of the request they       *)
(* belong to; the program does not, and nothing but the properties uses it.*)
(*                                                                         *)
(* The list of verifliers is read twice: by the master whenever it needs   *)
(* it, and by the SSL workers when they start.  A reload of the            *)
(* configuration reaches the master only.                                  *)
(*                                                                         *)
(* Abstracted: time, to the five-second ticks; the grouping of replies in  *)
(* posts: those of a post are counted one after the other, by themselves,  *)
(* and here may also be lost by themselves; the posting of the status.     *)
(***************************************************************************)
EXTENDS Integers, FiniteSets

CONSTANTS Site,                \* blog_id and monitor_url
          Peer,                \* verifliers that VERIFIERS may list
          PEER_OFFLINE_LIMIT,  \* config: peers that must confirm an outage
          VERIFLIER_BATCH_SIZE,\* config: most requests in one post
          Timeout,             \* config: TIMEOUT_FOR_REQUESTS_SEC, in ticks
          MaxRequests,         \* bound: sites handed over for confirmation
          MaxReloads           \* bound: reloads of the configuration

ASSUME PeerAssumption    == IsFiniteSet(Peer) /\ Peer # {}
ASSUME LimitAssumption   == PEER_OFFLINE_LIMIT \in Nat \ {0}
ASSUME BatchAssumption   == VERIFLIER_BATCH_SIZE \in Nat \ {0}
ASSUME TimeoutAssumption == Timeout \in Nat \ {0}
ASSUME MaxAssumption     == MaxRequests \in Nat /\ MaxReloads \in Nat

VARIABLES
  queuedRetries,  \* the entries, by number
  pushed,         \* how many have been pushed so far
  posts,          \* posts on their way: sets of requests to one veriflier
  checks,         \* checks the verifliers work on
  replies,        \* results on their way back
  verifiers,      \* VERIFIERS as the master has it
  veriflierArray, \* VERIFIERS as the SSL workers have it
  reloads         \* how often it has been reloaded

network == <<posts, checks, replies>>
config  == <<verifiers, veriflierArray, reloads>>
vars    == <<queuedRetries, pushed, network, config>>

Queued   == DOMAIN queuedRetries
requests == UNION posts

Init ==
  /\ queuedRetries = [id \in {} |-> 0]
  /\ pushed = 0
  /\ posts = {} /\ checks = {} /\ replies = {}
  /\ verifiers \in (SUBSET Peer) \ {{}}
  /\ veriflierArray = verifiers
  /\ reloads = 0

-----------------------------------------------------------------------------
(***************************************************************************)
(* The master.                                                             *)
(***************************************************************************)
\* Something about the site is still queued or under way.
Pending(site) ==
  \/ \E id \in Queued : queuedRetries[id].site = site
  \/ \E r \in requests \cup checks \cup replies : r.site = site

NewEntry(site) ==
  [site |-> site, requests_sent |-> FALSE, requests_outstanding |-> 0,
   offline_confirms |-> 0, age |-> 0, down |-> FALSE,
   asked |-> {},                     \* history: the peers it was sent to
   heard |-> {}, confirmed |-> {},   \* hosts in its `checks' array
   ticks |-> 0,                      \* history: ticks since it was pushed
   alone |-> ~Pending(site)]         \* history: no other request of the site

\* The local checks of a site are exhausted.  Sites come back, round by round.
host_check_request(site) ==
  /\ pushed < MaxRequests
  /\ pushed' = pushed + 1
  /\ queuedRetries' =
       [id \in Queued \cup {pushed + 1} |->
          IF id = pushed + 1 THEN NewEntry(site)
          ELSE [queuedRetries[id] EXCEPT !.alone = @ /\ queuedRetries[id].site # site]]
  /\ UNCHANGED <<network, config>>

\* Mutant of TimedOut: off by one.
TimedOutLate(entry) == entry.age > Timeout

\* At the tick that makes the entry older than the time-out.
TimedOut(entry) == entry.age + 1 > Timeout

Due(entry) ==
  entry.requests_sent /\ (entry.requests_outstanding <= 0 \/ TimedOut(entry))

Ticked(entry) == [entry EXCEPT !.age = @ + 1, !.ticks = @ + 1]

\* Mutant of Sent: one peer is not waited for.
SentExceptOne(entry) ==
  [entry EXCEPT !.requests_sent = TRUE, !.asked = verifiers,
                !.requests_outstanding = Cardinality(verifiers) - 1]

Sent(entry) ==
  [entry EXCEPT !.requests_sent = TRUE, !.asked = verifiers,
                !.requests_outstanding = Cardinality(verifiers)]

\* The batch that request id of those unsent goes in: the oldest come first.
Older(id, unsent)   == Cardinality({other \in unsent : other < id})
BatchNo(id, unsent) == Older(id, unsent) \div VERIFLIER_BATCH_SIZE
Batch(id, unsent)   == {other \in unsent : BatchNo(other, unsent) = BatchNo(id, unsent)}

Post(ids, peer) ==
  {[id |-> id, site |-> queuedRetries[id].site, peer |-> peer] : id \in ids}

\* The remote half of the tick.
processQueuedRetries ==
  LET due    == {id \in Queued : Due(queuedRetries[id])}
      unsent == {id \in Queued : ~queuedRetries[id].requests_sent}
  IN  /\ Queued # {}
      /\ queuedRetries' =
           [id \in Queued \ due |->
              IF id \in unsent THEN Sent(Ticked(queuedRetries[id]))
                               ELSE Ticked(queuedRetries[id])]
      /\ posts' = posts \cup {Post(Batch(id, unsent), peer) : id \in unsent, peer \in verifiers}
      /\ UNCHANGED <<pushed, checks, replies, config>>

\* Mutants of Counted: the reply is not subtracted; the limit is off by one.
CountedStillOutstanding(entry, peer, offline) ==
  LET confirms == entry.offline_confirms + (IF offline THEN 1 ELSE 0)
  IN  [entry EXCEPT !.age = 0, !.offline_confirms = confirms,
                    !.down = @ \/ (offline /\ confirms >= PEER_OFFLINE_LIMIT),
                    !.heard = @ \cup {peer},
                    !.confirmed = IF offline THEN @ \cup {peer} ELSE @]
CountedBeyondLimit(entry, peer, offline) ==
  LET confirms == entry.offline_confirms + (IF offline THEN 1 ELSE 0)
  IN  [entry EXCEPT !.requests_outstanding = @ - 1, !.age = 0,
                    !.offline_confirms = confirms,
                    !.down = @ \/ (offline /\ confirms > PEER_OFFLINE_LIMIT),
                    !.heard = @ \cup {peer},
                    !.confirmed = IF offline THEN @ \cup {peer} ELSE @]

\* A reply is counted, and the outage posted each time it is confirmed.
Counted(entry, peer, offline) ==
  LET confirms == entry.offline_confirms + (IF offline THEN 1 ELSE 0)
  IN  [entry EXCEPT !.requests_outstanding = @ - 1, !.age = 0,
                    !.offline_confirms = confirms,
                    !.down = @ \/ (offline /\ confirms >= PEER_OFFLINE_LIMIT),
                    !.heard = @ \cup {peer},
                    !.confirmed = IF offline THEN @ \cup {peer} ELSE @]

\* An SSL worker refuses, and so loses, the reply of a peer it does not know.
Accepted(reply) == reply.peer \in veriflierArray

\* The reply goes to the first entry of its site, if any.
Answers(reply, id) ==
  /\ id \in Queued /\ queuedRetries[id].site = reply.site
  /\ \A other \in Queued : queuedRetries[other].site = reply.site => id <= other

checkHostStatus(reply) ==
  /\ Accepted(reply)
  /\ replies' = replies \ {reply}
  /\ queuedRetries' =
       [id \in Queued |->
          IF Answers(reply, id)
            THEN Counted(queuedRetries[id], reply.peer, reply.offline)
            ELSE queuedRetries[id]]
  /\ UNCHANGED <<pushed, posts, checks, config>>

-----------------------------------------------------------------------------
(***************************************************************************)
(* The verifliers, and the network between.                                *)
(***************************************************************************)
\* Mutant of haveCheck: only a repeated request is recognised.
haveCheckOfRequest(request) ==
  \E check \in checks : check.peer = request.peer /\ check.id = request.id

haveCheck(request) ==
  \E check \in checks : check.peer = request.peer /\ check.site = request.site

\* A site a veriflier is checking already is not checked, or answered, twice.
\* The newest request of a site comes first in its post.
addChecks(post) ==
  /\ posts' = posts \ {post}
  /\ checks' = checks \cup
       {r \in post : ~haveCheck(r) /\ \A s \in post : s.site = r.site => s.id <= r.id}
  /\ UNCHANGED <<queuedRetries, pushed, replies, config>>

finishedChecking(check, offline) ==
  /\ checks' = checks \ {check}
  /\ replies' = replies \cup {[id |-> check.id, site |-> check.site,
                               peer |-> check.peer, offline |-> offline]}
  /\ UNCHANGED <<queuedRetries, pushed, posts, config>>

LosePost(post) ==
  /\ posts' = posts \ {post}
  /\ UNCHANGED <<queuedRetries, pushed, checks, replies, config>>

LoseReply(reply) ==
  /\ replies' = replies \ {reply}
  /\ UNCHANGED <<queuedRetries, pushed, posts, checks, config>>

-----------------------------------------------------------------------------
\* SIGHUP: the master reads the file again, the SSL workers are not told.
ReloadConfig ==
  /\ reloads < MaxReloads /\ reloads' = reloads + 1
  /\ verifiers' \in (SUBSET Peer) \ {{}}
  /\ UNCHANGED <<queuedRetries, pushed, network, veriflierArray>>

Next ==
  \/ \E site \in Site : host_check_request(site)
  \/ processQueuedRetries
  \/ \E post \in posts : addChecks(post) \/ LosePost(post)
  \/ \E check \in checks, offline \in BOOLEAN : finishedChecking(check, offline)
  \/ \E reply \in replies : checkHostStatus(reply) \/ LoseReply(reply)
  \/ ReloadConfig

Spec == Init /\ [][Next]_vars

-----------------------------------------------------------------------------
Request == [id : 1 .. pushed, site : Site, peer : Peer]
Reply   == [id : 1 .. pushed, site : Site, peer : Peer, offline : BOOLEAN]
Entry   == [site : Site, requests_sent : BOOLEAN, requests_outstanding : Int,
            offline_confirms : Nat, age : 0 .. Timeout, down : BOOLEAN,
            asked : SUBSET Peer, heard : SUBSET Peer, confirmed : SUBSET Peer,
            ticks : Nat, alone : BOOLEAN]

TypeOK ==
  /\ pushed \in Nat
  /\ Queued \subseteq 1 .. pushed
  /\ queuedRetries \in [Queued -> Entry]
  /\ requests \subseteq Request /\ checks \subseteq Request
  /\ replies \subseteq Reply
  /\ verifiers \subseteq Peer /\ veriflierArray \subseteq Peer /\ reloads \in Nat

(***************************************************************************)
(* The counters say what they are taken to say: of an entry that was never *)
(* beside another request of its site, requests_outstanding is the number  *)
(* of peers not heard from, and offline_confirms the number of peers that  *)
(* called the site offline.                                                *)
(***************************************************************************)
PeersCountedOnce ==
  \A id \in Queued :
    LET entry == queuedRetries[id]
    IN  entry.alone =>
          /\ entry.requests_outstanding =
               Cardinality(entry.asked) - Cardinality(entry.heard)
          /\ entry.heard \subseteq entry.asked
          /\ entry.offline_confirms = Cardinality(entry.confirmed)

(***************************************************************************)
(* PEER_OFFLINE_LIMIT: such an entry is called down as soon as, and only   *)
(* if, that many different peers have confirmed.                           *)
(***************************************************************************)
DownWhenConfirmed ==
  \A id \in Queued :
    LET entry == queuedRetries[id]
    IN  entry.alone =>
          (entry.down <=> Cardinality(entry.confirmed) >= PEER_OFFLINE_LIMIT)

(***************************************************************************)
(* With the numbers exact, they are used rightly, however many requests,   *)
(* replies, rejections and reloads there are.                              *)
(***************************************************************************)
CountsAreExact == PeersCountedOnce /\ DownWhenConfirmed

(***************************************************************************)
(* Replies put the time-out off, but not for ever: no entry, whatever      *)
(* replies it takes for its own, and whatever peers it waits for that will *)
(* never be heard, stays longer than the time-out per peer.                *)
(***************************************************************************)
ResidenceBound ==
  \A id \in Queued :
    LET entry == queuedRetries[id]
    IN  entry.ticks <= (IF entry.requests_sent THEN Cardinality(entry.asked) ELSE 1) * Timeout

(***************************************************************************)
(* Such an entry is not dropped while a peer may still answer in time: it  *)
(* has timed out, or every peer has been heard.                            *)
(***************************************************************************)
NoEarlyPurge ==
  [][\A id \in Queued \ Queued' :
       LET entry == queuedRetries[id]
       IN  entry.alone => TimedOut(entry) \/ entry.heard = entry.asked]_vars

(***************************************************************************)
(* Every veriflier keeps the promise that CheckController.tla implements.  *)
(***************************************************************************)
Unsent == [ps \in Peer \X Site |->
             Cardinality({r \in replies : r.peer = ps[1] /\ r.site = ps[2]})]

Promise == INSTANCE Veriflier WITH
  Site <- Peer \X Site, pending <- {<<c.peer, c.site>> : c \in checks}, replies <- Unsent

PeersAreVerifliers == Promise!Spec

(***************************************************************************)
(* PEER_OFFLINE_LIMIT in config.readme: "The minimum number of verifliers  *)
(* that must confirm that a site is down before changing the site status   *)
(* to down."                                                               *)
(***************************************************************************)
DownNeedsPeers ==
  \A id \in Queued :
    queuedRetries[id].down
      => Cardinality(queuedRetries[id].confirmed) >= PEER_OFFLINE_LIMIT
=============================================================================
