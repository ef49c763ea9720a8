------------------------- MODULE HttpChecker_proofs -------------------------
(***************************************************************************)
(* Proofs about HttpChecker.tla, for every set of checks, every number of  *)
(* threads and every number of addresses a name resolves to.               *)
(***************************************************************************)
EXTENDS HttpChecker, FiniteSetTheorems, TLAPS

(***************************************************************************)
(* What holds of a checker, by its phase.  The socket is open from the     *)
(* connection to the end; a session belongs to it whenever is_ssl says     *)
(* that there is one; and what is_ssl hides from disconnect() was left     *)
(* behind by a redirect to http.                                           *)
(***************************************************************************)
HoldsTls(r) == r.ctx \/ r.ssl # "none"

SocketInv(r) ==
  /\ r.sock => r.phase \in {"handshake", "send", "receive", "finished"}
  /\ r.phase \in {"handshake", "send", "receive"} => r.sock
  /\ "socket" \notin r.lost

SessionInv(r) ==
  /\ r.phase \in {"idle", "queued"} => ~HoldsTls(r)
  /\ r.phase \in {"resolve", "connect", "handshake"} /\ r.is_ssl => ~HoldsTls(r)
  /\ r.phase = "handshake" => r.is_ssl
  /\ r.phase \in {"send", "receive"} /\ r.is_ssl => r.ctx /\ r.ssl = "current"
  /\ ~r.is_ssl => r.ssl # "current"

DowngradeInv(r) ==
  ~r.downgraded => /\ "tls" \notin r.lost /\ r.ssl # "old"
                   /\ ~r.is_ssl => ~HoldsTls(r)

ResultInv(r) ==
  /\ r.phase # "finished" => r.redirects <= MAX_REDIRECTS
  /\ r.phase = "finished" /\ r.code \in {"up", "redirect"} => r.error = "none"

CheckerInv(r) ==
  SocketInv(r) /\ SessionInv(r) /\ DowngradeInv(r) /\ ResultInv(r)

Queued == {c \in Check : InPhase(c, "queued")}

\* The queue holds each check that is queued, once; Len(queue) counts them.
QueueInv ==
  /\ queue \in Seq(Check)
  /\ \A i, j \in 1 .. Len(queue) : queue[i] = queue[j] => i = j
  /\ {queue[i] : i \in 1 .. Len(queue)} = Queued
  /\ IsFiniteSet(Queued) /\ Cardinality(Queued) = Len(queue)

BusyInv == IsFiniteSet(Busy) /\ Cardinality(Busy) <= Threads

IInv ==
  /\ checker \in [Check -> Checker]
  /\ \A c \in Check : CheckerInv(checker[c])
  /\ QueueInv /\ BusyInv

-----------------------------------------------------------------------------
(***************************************************************************)
(* The members of HTTP_Checker keep the type of a checker, and say what    *)
(* they change of it.                                                      *)
(***************************************************************************)
LEMMA CloseSocketType ==
  ASSUME NEW r \in Checker
  PROVE  /\ CloseSocket(r) \in Checker
         /\ CloseSocket(r) = [r EXCEPT !.sock = FALSE,
                                       !.ssl = IF r.ssl = "current" THEN "old" ELSE r.ssl]
BY DEF CloseSocket, Checker

LEMMA NoSessionToClose ==
  ASSUME NEW r \in Checker, r.ssl # "current"
  PROVE  CloseSocket(r) = [r EXCEPT !.sock = FALSE] /\ CloseSocket(r) \in Checker
<1>1. CloseSocket(r) = [r EXCEPT !.sock = FALSE, !.ssl = r.ssl]
  BY DEF CloseSocket, Checker
<1>2. [r EXCEPT !.sock = FALSE, !.ssl = r.ssl] = [r EXCEPT !.sock = FALSE]
  BY DEF Checker
<1> QED  BY <1>1, <1>2, CloseSocketType

LEMMA DisconnectType ==
  ASSUME NEW r \in Checker
  PROVE  /\ disconnect(r) \in Checker
         /\ r.is_ssl  => disconnect(r) = [r EXCEPT !.sock = FALSE, !.ctx = FALSE, !.ssl = "none"]
         /\ ~r.is_ssl => disconnect(r) = CloseSocket(r)
<1>1. CASE r.is_ssl
  <2>1. PICK f : f = [r EXCEPT !.ctx = FALSE, !.ssl = "none"]
    OBVIOUS
  <2>2. f \in Checker /\ f.ssl = "none"
    BY <2>1 DEF Checker
  <2>3. disconnect(r) = CloseSocket(f)
    BY <1>1, <2>1 DEF disconnect, FreeTls
  <2>4. CloseSocket(f) \in Checker /\ CloseSocket(f) = [f EXCEPT !.sock = FALSE]
    BY <2>2, NoSessionToClose
  <2>5. [f EXCEPT !.sock = FALSE] = [r EXCEPT !.sock = FALSE, !.ctx = FALSE, !.ssl = "none"]
    BY <2>1 DEF Checker
  <2> QED  BY <1>1, <2>3, <2>4, <2>5
<1>2. CASE ~r.is_ssl
  BY <1>2, CloseSocketType DEF disconnect
<1> QED  BY <1>1, <1>2

LEMMA OpenSocketType ==
  ASSUME NEW r \in Checker
  PROVE  /\ OpenSocket(r) \in Checker
         /\ ~r.sock => OpenSocket(r) = [r EXCEPT !.sock = TRUE]
BY DEF OpenSocket, Checker

LEMMA NewContextType ==
  ASSUME NEW r \in Checker
  PROVE  /\ NewContext(r) \in Checker
         /\ ~r.ctx => NewContext(r) = [r EXCEPT !.ctx = TRUE]
BY DEF NewContext, Checker

LEMMA ConnectFailedType ==
  ASSUME NEW r \in Checker
  PROVE  \E error \in {"connect", "connect_redirect"} :
           /\ ConnectFailed(r) = [r EXCEPT !.phase = "finished", !.code = "none", !.error = error]
           /\ ConnectFailed(r) \in Checker
BY DEF ConnectFailed, Finished, Checker

LEMMA ParseType ==
  ASSUME NEW r \in Checker, NEW url
  PROVE  /\ parse_host_values(r, url) \in Checker
         /\ \E is_ssl \in BOOLEAN :
              /\ parse_host_values(r, url) = [r EXCEPT !.is_ssl = is_ssl]
              /\ is_ssl <=> r.is_ssl \/ url = "https"
<1>1. CASE r.is_ssl \/ url = "https"
  <2>1. parse_host_values(r, url) = [r EXCEPT !.is_ssl = TRUE]
    BY <1>1 DEF parse_host_values
  <2> QED  BY <1>1, <2>1 DEF Checker
<1>2. CASE ~(r.is_ssl \/ url = "https")
  <2>1. parse_host_values(r, url) = [r EXCEPT !.is_ssl = FALSE]
    BY <1>2 DEF parse_host_values
  <2> QED  BY <1>2, <2>1 DEF Checker
<1> QED  BY <1>1, <1>2

(***************************************************************************)
(* The invariant survives a step that leaves the queue alone and puts a    *)
(* checker with the right members in the place of another, unless a thread *)
(* takes up work by it.                                                    *)
(***************************************************************************)
LEMMA BecomesInv ==
  ASSUME IInv, NEW c \in Check, NEW r \in Checker, CheckerInv(r),
         r.phase = "queued" <=> InPhase(c, "queued"),
         r.phase \in Working => c \in Busy,
         Becomes(c, r)
  PROVE  IInv'
<1> USE DEF IInv
<1>1. /\ checker' = [checker EXCEPT ![c] = r] /\ checker' \in [Check -> Checker]
      /\ checker'[c] = r /\ \A d \in Check \ {c} : checker'[d] = checker[d]
  BY DEF Becomes
<1>2. \A d \in Check : CheckerInv(checker'[d])
  BY <1>1
<1>3. Queued' = Queued
  BY <1>1 DEF Queued, InPhase
<1>4. QueueInv'
  BY <1>3 DEF QueueInv, Becomes
<1>5. BusyInv'
  <2>1. Busy' \subseteq Busy
    BY <1>1 DEF Busy
  <2>2. IsFiniteSet(Busy') /\ Cardinality(Busy') <= Cardinality(Busy)
    BY <2>1, FS_Subset DEF BusyInv
  <2>3. Cardinality(Busy) \in Nat /\ Cardinality(Busy') \in Nat
    BY <2>2, FS_CardinalityType DEF BusyInv
  <2> QED  BY <2>2, <2>3, ThreadsAssumption DEF BusyInv
<1> QED  BY <1>1, <1>2, <1>4, <1>5

(***************************************************************************)
(* A checker just made, and one that is no more, hold nothing.             *)
(***************************************************************************)
LEMMA NewType ==
  /\ New \in Checker /\ New.phase = "queued" /\ CheckerInv(New)
  /\ ~New.downgraded /\ New.lost = {} /\ New.redirects = 0 /\ ~New.is_ssl
<1>1. New \in Checker
  <2>1. 0 \in 0 .. MaxAddresses /\ 0 \in 0 .. MAX_REDIRECTS + 1
    BY AddressesAssumption DEF MAX_REDIRECTS
  <2> QED  BY <2>1 DEF New, Checker
<1>2. CheckerInv(New)
  BY DEF New, CheckerInv, SocketInv, SessionInv, DowngradeInv, ResultInv, HoldsTls,
         MAX_REDIRECTS
<1> QED  BY <1>1, <1>2 DEF New

LEMMA IdleType ==
  /\ Idle \in Checker /\ Idle.phase = "idle" /\ CheckerInv(Idle)
  /\ ~Idle.sock /\ ~HoldsTls(Idle) /\ ~Idle.is_ssl /\ Idle.redirects = 0
<1>1. Idle = [New EXCEPT !.phase = "idle"]
  BY DEF Idle
<1>2. Idle \in Checker
  BY <1>1, NewType DEF Checker
<1>3. CheckerInv(Idle)
  BY <1>1 DEF New, CheckerInv, SocketInv, SessionInv, DowngradeInv, ResultInv, HoldsTls,
         MAX_REDIRECTS
<1> QED  BY <1>1, <1>2, <1>3 DEF New, HoldsTls

(***************************************************************************)
(* Nothing is queued or under way at first.                                *)
(***************************************************************************)
LEMMA InitInv == Init => IInv
<1> SUFFICES ASSUME Init PROVE IInv
  OBVIOUS
<1>1. Idle \in Checker /\ CheckerInv(Idle) /\ Idle.phase = "idle"
  BY NewType, IdleType
<1>2. checker = [c \in Check |-> Idle] /\ queue = <<>>
  BY DEF Init
<1>3. Queued = {} /\ Busy = {}
  BY <1>1, <1>2 DEF Queued, Busy, InPhase, Working
<1>4. QueueInv
  BY <1>2, <1>3, FS_EmptySet DEF QueueInv
<1>5. BusyInv
  BY <1>3, FS_EmptySet, ThreadsAssumption DEF BusyInv
<1> QED  BY <1>1, <1>2, <1>4, <1>5 DEF IInv

-----------------------------------------------------------------------------
(***************************************************************************)
(* The queue: a check enters it at the end, and a thread takes the first.  *)
(***************************************************************************)
LEMMA http_checkStep ==
  ASSUME IInv, NEW c \in Check, http_check(c)
  PROVE  IInv'
<1> USE DEF IInv
<1>1. /\ queue' = Append(queue, c) /\ checker' = [checker EXCEPT ![c] = New]
      /\ InPhase(c, "idle")
  BY DEF http_check
<1>2. /\ checker' \in [Check -> Checker] /\ checker'[c] = New
      /\ \A d \in Check \ {c} : checker'[d] = checker[d]
  BY <1>1, NewType
<1>3. \A d \in Check : CheckerInv(checker'[d])
  BY <1>2, NewType
<1>4. c \notin Queued /\ Queued' = Queued \cup {c}
  BY <1>1, <1>2, NewType DEF Queued, InPhase
<1>5. /\ queue' \in Seq(Check) /\ Len(queue') = Len(queue) + 1
      /\ queue'[Len(queue) + 1] = c
      /\ \A i \in 1 .. Len(queue) : queue'[i] = queue[i]
  BY <1>1 DEF QueueInv
<1>6. \A i \in 1 .. Len(queue) : queue[i] \in Queued
  BY DEF QueueInv
<1>7. QueueInv'
  <2>1. \A i, j \in 1 .. Len(queue') : queue'[i] = queue'[j] => i = j
    BY <1>4, <1>5, <1>6 DEF QueueInv
  <2>2. {queue'[i] : i \in 1 .. Len(queue')} = Queued'
    BY <1>4, <1>5 DEF QueueInv
  <2>3. IsFiniteSet(Queued') /\ Cardinality(Queued') = Cardinality(Queued) + 1
    BY <1>4, FS_AddElement DEF QueueInv
  <2> QED  BY <1>5, <2>1, <2>2, <2>3 DEF QueueInv
<1>8. BusyInv'
  <2>1. Busy' = Busy
    BY <1>1, <1>2, NewType DEF Busy, InPhase, Working
  <2> QED  BY <2>1 DEF BusyInv
<1> QED  BY <1>2, <1>3, <1>7, <1>8

LEMMA http_check_asyncStep ==
  ASSUME IInv, NEW c \in Check, http_check_async(c)
  PROVE  IInv'
<1> USE DEF IInv
<1>1. PICK url \in {"http", "https"} :
        checker' = [checker EXCEPT
                      ![c] = parse_host_values([@ EXCEPT !.phase = "resolve"], url)]
  BY DEF http_check_async
<1>2. /\ queue # <<>> /\ Head(queue) = c /\ queue' = Tail(queue)
      /\ Cardinality(Busy) < Threads
  BY DEF http_check_async
<1>3. c \in Queued /\ checker[c].phase = "queued"
  <2>1. queue[1] = c /\ 1 \in 1 .. Len(queue)
    BY <1>2 DEF QueueInv
  <2> QED  BY <2>1 DEF QueueInv, Queued, InPhase
<1> DEFINE r == parse_host_values([checker[c] EXCEPT !.phase = "resolve"], url)
<1>4. /\ r \in Checker
      /\ \E is_ssl \in BOOLEAN :
           r = [checker[c] EXCEPT !.phase = "resolve", !.is_ssl = is_ssl]
  <2>1. /\ [checker[c] EXCEPT !.phase = "resolve"] \in Checker
    BY DEF Checker, Working
  <2>2. PICK is_ssl \in BOOLEAN :
          r = [[checker[c] EXCEPT !.phase = "resolve"] EXCEPT !.is_ssl = is_ssl]
    BY <2>1, ParseType
  <2>3. r = [checker[c] EXCEPT !.phase = "resolve", !.is_ssl = is_ssl]
    BY <2>2 DEF Checker
  <2> QED  BY <2>1, <2>3, ParseType
<1>5. CheckerInv(r)
  <2>1. /\ r.phase = "resolve" /\ r.sock = checker[c].sock /\ r.ctx = checker[c].ctx
        /\ r.ssl = checker[c].ssl /\ r.lost = checker[c].lost
        /\ r.downgraded = checker[c].downgraded /\ r.redirects = checker[c].redirects
    <3>1. PICK is_ssl \in BOOLEAN : r = [checker[c] EXCEPT !.phase = "resolve", !.is_ssl = is_ssl]
      BY <1>4
    <3>2. checker[c] \in Checker
      OBVIOUS
    <3> HIDE DEF r
    <3> QED  BY <3>1, <3>2 DEF Checker
  <2>2. /\ ~checker[c].sock /\ "socket" \notin checker[c].lost /\ ~HoldsTls(checker[c])
        /\ ~checker[c].downgraded => "tls" \notin checker[c].lost
        /\ checker[c].redirects <= MAX_REDIRECTS
    BY <1>3 DEF CheckerInv, SocketInv, SessionInv, DowngradeInv, ResultInv
  <2> HIDE DEF r
  <2> QED
    BY <2>1, <2>2 DEF CheckerInv, SocketInv, SessionInv, DowngradeInv, ResultInv, HoldsTls
<1>6. /\ checker' \in [Check -> Checker] /\ checker'[c] = r
      /\ \A d \in Check \ {c} : checker'[d] = checker[d]
  BY <1>1, <1>4
<1>7. \A d \in Check : CheckerInv(checker'[d])
  BY <1>5, <1>6
<1>8. r.phase = "resolve"
  BY <1>4 DEF Checker
<1>9. QueueInv'
  <2>1. Queued' = Queued \ {c}
    BY <1>6, <1>8 DEF Queued, InPhase
  <2>2. /\ queue' \in Seq(Check) /\ Len(queue) \in Nat \ {0} /\ Len(queue') = Len(queue) - 1
        /\ \A i \in 1 .. Len(queue') : queue'[i] = queue[i + 1]
    BY <1>2 DEF QueueInv
  <2>3. \A i, j \in 1 .. Len(queue') : queue'[i] = queue'[j] => i = j
    BY <2>2 DEF QueueInv
  <2>4. {queue'[i] : i \in 1 .. Len(queue')} = Queued'
    <3>1. queue[1] = c /\ 1 \in 1 .. Len(queue)
      BY <1>2, <2>2 DEF QueueInv
    <3>2. \A i \in 1 .. Len(queue') : queue'[i] \in Queued'
      BY <2>1, <2>2, <3>1 DEF QueueInv
    <3>3. ASSUME NEW d \in Queued' PROVE \E i \in 1 .. Len(queue') : queue'[i] = d
      <4>1. PICK k \in 1 .. Len(queue) : queue[k] = d
        BY <2>1, <3>3 DEF QueueInv
      <4>2. k - 1 \in 1 .. Len(queue') /\ queue'[k - 1] = d
        BY <2>1, <2>2, <3>1, <3>3, <4>1
      <4> QED  BY <4>2
    <3> QED  BY <3>2, <3>3
  <2>5. IsFiniteSet(Queued') /\ Cardinality(Queued') = Cardinality(Queued) - 1
    BY <1>3, <2>1, FS_RemoveElement DEF QueueInv
  <2> QED  BY <2>2, <2>3, <2>4, <2>5 DEF QueueInv
<1>10. BusyInv'
  <2>1. Busy' = Busy \cup {c} /\ c \notin Busy
    BY <1>3, <1>6, <1>8 DEF Busy, Working
  <2>2. IsFiniteSet(Busy') /\ Cardinality(Busy') = Cardinality(Busy) + 1
    BY <2>1, FS_AddElement DEF BusyInv
  <2>3. Cardinality(Busy) \in Nat
    BY FS_CardinalityType DEF BusyInv
  <2> QED  BY <1>2, <2>2, <2>3, ThreadsAssumption DEF BusyInv
<1> QED  BY <1>6, <1>7, <1>9, <1>10

-----------------------------------------------------------------------------
(***************************************************************************)
(* A check may end, by a result or a failure, with a socket and a session  *)
(* that disconnect() will find: nothing more is asked of it.               *)
(***************************************************************************)
Code  == {"none", "up", "redirect", "error", "unknown"}
Error == {"none", "connect", "connect_redirect", "timeout", "unknown", "location"}

MayEnd(r) ==
  /\ "socket" \notin r.lost
  /\ ~r.is_ssl => r.ssl # "current"
  /\ DowngradeInv(r)

LEMMA FinishedInv ==
  ASSUME NEW r \in Checker, MayEnd(r), NEW code \in Code, NEW error \in Error,
         code \in {"up", "redirect"} => error = "none"
  PROVE  /\ Finished(r, code, error) \in Checker /\ CheckerInv(Finished(r, code, error))
         /\ Finished(r, code, error).phase = "finished"
<1> DEFINE f == Finished(r, code, error)
<1>1. f = [r EXCEPT !.phase = "finished", !.code = code, !.error = error]
  BY DEF Finished
<1>2. f \in Checker /\ f.phase = "finished"
  <2>1. /\ code \in {"none", "up", "redirect", "error", "unknown"}
        /\ error \in {"none", "connect", "connect_redirect", "timeout", "unknown", "location"}
    BY DEF Code, Error
  <2> HIDE DEF f
  <2> QED  BY <1>1, <2>1 DEF Checker
<1>3. SocketInv(f) /\ SessionInv(f) /\ ResultInv(f)
  BY <1>1 DEF MayEnd, SocketInv, SessionInv, ResultInv, Checker
<1>4. DowngradeInv(f)
  BY <1>1 DEF MayEnd, DowngradeInv, HoldsTls, Checker
<1> QED  BY <1>2, <1>3, <1>4 DEF CheckerInv

LEMMA ConnectFailedInv ==
  ASSUME NEW r \in Checker, MayEnd(r)
  PROVE  /\ ConnectFailed(r) \in Checker /\ CheckerInv(ConnectFailed(r))
         /\ ConnectFailed(r).phase = "finished"
BY FinishedInv DEF ConnectFailed, Code, Error

(***************************************************************************)
(* A step that ends a check keeps the invariant.                           *)
(***************************************************************************)
LEMMA EndsInv ==
  ASSUME IInv, NEW c \in Check, ~InPhase(c, "queued"), NEW r \in Checker,
         CheckerInv(r), r.phase = "finished", Becomes(c, r)
  PROVE  IInv'
BY BecomesInv DEF Working

(***************************************************************************)
(* The steps of a check: finding an address and connecting to it.          *)
(***************************************************************************)
LEMMA getaddrinfoStep ==
  ASSUME IInv, NEW c \in Check, getaddrinfo(c)
  PROVE  IInv'
<1> DEFINE r == checker[c]
<1>1. r \in Checker /\ CheckerInv(r) /\ r.phase = "resolve" /\ ~InPhase(c, "queued")
  BY DEF IInv, getaddrinfo, InPhase
<1>2. CASE Becomes(c, ConnectFailed(r))
  <2>1. MayEnd(r)
    BY <1>1 DEF MayEnd, CheckerInv, SocketInv, SessionInv
  <2> QED  BY <1>1, <1>2, <2>1, ConnectFailedInv, EndsInv
<1>3. ASSUME NEW n \in 1 .. MaxAddresses,
             Becomes(c, [r EXCEPT !.phase = "connect", !.addresses = n])
      PROVE  IInv'
  <2> DEFINE next == [r EXCEPT !.phase = "connect", !.addresses = n]
  <2>1. next \in Checker /\ next.phase = "connect"
    <3>1. n \in 0 .. MaxAddresses
      BY AddressesAssumption
    <3> QED  BY <1>1, <3>1 DEF Checker, Working
  <2>2. CheckerInv(next)
    BY <1>1 DEF CheckerInv, SocketInv, SessionInv, DowngradeInv, ResultInv, HoldsTls, Checker
  <2>3. c \in Busy
    BY <1>1 DEF Busy, Working
  <2> QED  BY <1>1, <1>3, <2>1, <2>2, <2>3, BecomesInv
<1> QED  BY <1>2, <1>3 DEF getaddrinfo

LEMMA TryAddressStep ==
  ASSUME IInv, NEW c \in Check, TryAddress(c)
  PROVE  IInv'
<1> DEFINE r    == checker[c]
           next == [r EXCEPT !.addresses = r.addresses - 1]
<1>1. /\ r \in Checker /\ CheckerInv(r) /\ r.phase = "connect" /\ r.addresses > 0
      /\ ~InPhase(c, "queued") /\ c \in Busy
  BY DEF IInv, TryAddress, MoreAddresses, InPhase, Busy, Working
<1>2. next \in Checker /\ CheckerInv(next) /\ next.phase = "connect" /\ ~next.sock
  <2>1. r.addresses - 1 \in 0 .. MaxAddresses
    BY <1>1, AddressesAssumption DEF Checker
  <2>2. next \in Checker /\ next.phase = "connect"
    BY <1>1, <2>1 DEF Checker
  <2>3. CheckerInv(next)
    BY <1>1 DEF CheckerInv, SocketInv, SessionInv, DowngradeInv, ResultInv, HoldsTls, Checker
  <2> QED  BY <2>2, <2>3 DEF CheckerInv, SocketInv
<1> DEFINE open == OpenSocket(next)
<1>3. open = [next EXCEPT !.sock = TRUE] /\ open \in Checker
  BY <1>2, OpenSocketType
<1>4. CASE Becomes(c, next)
  BY <1>1, <1>2, <1>4, BecomesInv
<1>5. CASE Becomes(c, Refused(open))
  <2>1. next.ssl # "current" /\ open.ssl = next.ssl
    BY <1>2, <1>3 DEF CheckerInv, SessionInv, HoldsTls, Checker
  <2>2. Refused(open) \in Checker /\ Refused(open) = [open EXCEPT !.sock = FALSE]
    BY <1>3, <2>1, NoSessionToClose DEF Refused
  <2>3. Refused(open) = next
    <3>1. next.sock = FALSE
      BY <1>2 DEF Checker
    <3>2. PICK s : s = Refused(open)
      OBVIOUS
    <3> HIDE DEF open, next
    <3>3. s = [[next EXCEPT !.sock = TRUE] EXCEPT !.sock = FALSE]
      BY <1>3, <2>2, <3>2
    <3>4. s = next
      BY <1>2, <3>1, <3>3 DEF Checker
    <3> QED  BY <3>2, <3>4
  <2> QED  BY <1>1, <1>2, <1>5, <2>3, BecomesInv
<1>6. CASE Becomes(c, [open EXCEPT !.phase = IF next.is_ssl THEN "handshake" ELSE "send"])
  <2> DEFINE made == [open EXCEPT !.phase = IF next.is_ssl THEN "handshake" ELSE "send"]
  <2>1. made \in Checker /\ made.phase # "queued"
    BY <1>3 DEF Checker, Working
  <2>2. CheckerInv(made)
    <3>1. made = [open EXCEPT !.phase = IF next.is_ssl THEN "handshake" ELSE "send"]
      OBVIOUS
    <3> HIDE DEF made, open, next
    <3>2. /\ made.phase = (IF next.is_ssl THEN "handshake" ELSE "send") /\ made.sock
          /\ made.is_ssl = next.is_ssl /\ made.ctx = next.ctx /\ made.ssl = next.ssl
          /\ made.lost = next.lost /\ made.downgraded = next.downgraded
          /\ made.redirects = next.redirects
      BY <1>2, <1>3, <3>1 DEF Checker
    <3> QED
      BY <1>2, <3>2 DEF CheckerInv, SocketInv, SessionInv, DowngradeInv, ResultInv, HoldsTls
  <2> QED  BY <1>1, <1>6, <2>1, <2>2, BecomesInv
<1> QED  BY <1>4, <1>5, <1>6 DEF TryAddress

LEMMA ConnectGivesUpStep ==
  ASSUME IInv, NEW c \in Check, ConnectGivesUp(c)
  PROVE  IInv'
<1> DEFINE r == checker[c]
<1>1. r \in Checker /\ CheckerInv(r) /\ r.phase = "connect" /\ ~InPhase(c, "queued")
  BY DEF IInv, ConnectGivesUp, InPhase
<1>2. r.ssl # "current"
  BY <1>1 DEF CheckerInv, SessionInv, HoldsTls
<1>3. CloseSocket(r) \in Checker /\ CloseSocket(r) = [r EXCEPT !.sock = FALSE]
  BY <1>1, <1>2, NoSessionToClose
<1>4. MayEnd(CloseSocket(r))
  BY <1>1, <1>3 DEF MayEnd, CheckerInv, SocketInv, SessionInv, DowngradeInv, HoldsTls, Checker
<1> QED  BY <1>1, <1>3, <1>4, ConnectFailedInv, EndsInv DEF ConnectGivesUp

(***************************************************************************)
(* The handshake, the request and its answer.                              *)
(***************************************************************************)
LEMMA SSL_connectStep ==
  ASSUME IInv, NEW c \in Check, SSL_connect(c)
  PROVE  IInv'
<1> DEFINE r   == checker[c]
           new == NewContext(r)
<1>1. /\ r \in Checker /\ CheckerInv(r) /\ r.phase = "handshake"
      /\ ~InPhase(c, "queued") /\ c \in Busy
  BY DEF IInv, SSL_connect, InPhase, Busy, Working
<1>2. /\ r.sock /\ r.is_ssl /\ ~r.ctx /\ r.ssl = "none" /\ "socket" \notin r.lost
      /\ r.redirects <= MAX_REDIRECTS /\ (~r.downgraded => "tls" \notin r.lost)
  BY <1>1 DEF CheckerInv, SocketInv, SessionInv, DowngradeInv, ResultInv, HoldsTls
<1>3. new = [r EXCEPT !.ctx = TRUE] /\ new \in Checker
  BY <1>1, <1>2, NewContextType
<1>4. ASSUME NEW ctx \in BOOLEAN, NEW ssl \in {"none", "unbound"},
             Becomes(c, ConnectFailed(CloseSocket([new EXCEPT !.ctx = ctx, !.ssl = ssl])))
      PROVE  IInv'
  <2> DEFINE failed == [new EXCEPT !.ctx = ctx, !.ssl = ssl]
  <2>1. failed \in Checker /\ failed.ssl = ssl
    BY <1>3 DEF Checker
  <2>2. CloseSocket(failed) = [failed EXCEPT !.sock = FALSE] /\ CloseSocket(failed) \in Checker
    BY <2>1, NoSessionToClose
  <2>3. /\ CloseSocket(failed).ssl = ssl /\ CloseSocket(failed).lost = r.lost
        /\ CloseSocket(failed).is_ssl = r.is_ssl
        /\ CloseSocket(failed).downgraded = r.downgraded
    <3>1. /\ failed.lost = r.lost /\ failed.is_ssl = r.is_ssl
          /\ failed.downgraded = r.downgraded
      BY <1>1, <1>3 DEF Checker
    <3> HIDE DEF failed
    <3> QED  BY <2>1, <2>2, <3>1 DEF Checker
  <2>4. MayEnd(CloseSocket(failed))
    BY <1>2, <2>3 DEF MayEnd, DowngradeInv
  <2> QED  BY <1>1, <1>4, <2>2, <2>4, ConnectFailedInv, EndsInv
<1>5. CASE Becomes(c, ConnectFailed([new EXCEPT !.ssl = "current"]))
  <2> DEFINE failed == [new EXCEPT !.ssl = "current"]
  <2>1. failed \in Checker
    BY <1>3 DEF Checker
  <2>2. MayEnd(failed)
    BY <1>2, <1>3 DEF MayEnd, DowngradeInv, Checker
  <2> QED  BY <1>1, <1>5, <2>1, <2>2, ConnectFailedInv, EndsInv
<1>6. CASE Becomes(c, [new EXCEPT !.ssl = "current", !.phase = "send"])
  <2> DEFINE made == [new EXCEPT !.ssl = "current", !.phase = "send"]
  <2>1. made \in Checker /\ made.phase = "send"
    BY <1>3 DEF Checker, Working
  <2>2. CheckerInv(made)
    BY <1>2, <1>3
       DEF CheckerInv, SocketInv, SessionInv, DowngradeInv, ResultInv, HoldsTls, Checker
  <2> QED  BY <1>1, <1>6, <2>1, <2>2, BecomesInv
<1>7. /\ [new EXCEPT !.ctx = FALSE] = [new EXCEPT !.ctx = FALSE, !.ssl = "none"]
      /\ new = [new EXCEPT !.ctx = TRUE, !.ssl = "none"]
      /\ [new EXCEPT !.ssl = "none"] = [new EXCEPT !.ctx = TRUE, !.ssl = "none"]
      /\ [new EXCEPT !.ssl = "unbound"] = [new EXCEPT !.ctx = TRUE, !.ssl = "unbound"]
  <2>1. new.ctx = TRUE /\ new.ssl = "none"
    BY <1>1, <1>2, <1>3 DEF Checker
  <2>2. new \in Checker
    BY <1>3
  <2> HIDE DEF new
  <2>3. new = [new EXCEPT !.ctx = TRUE, !.ssl = "none"]
    BY <2>1, <2>2 DEF Checker
  <2>4. [new EXCEPT !.ssl = "none"] = [new EXCEPT !.ctx = TRUE, !.ssl = "none"]
    BY <2>1, <2>2 DEF Checker
  <2>5. [new EXCEPT !.ssl = "unbound"] = [new EXCEPT !.ctx = TRUE, !.ssl = "unbound"]
    BY <2>1, <2>2 DEF Checker
  <2>6. [new EXCEPT !.ctx = FALSE] = [new EXCEPT !.ctx = FALSE, !.ssl = "none"]
    BY <2>1, <2>2 DEF Checker
  <2> QED  BY <2>3, <2>4, <2>5, <2>6
<1>8. PICK s \in Handshakes(r) : Becomes(c, s)
  BY DEF SSL_connect
<1>9. \/ \E ctx \in BOOLEAN, ssl \in {"none", "unbound"} :
           s = ConnectFailed(CloseSocket([new EXCEPT !.ctx = ctx, !.ssl = ssl]))
      \/ s = ConnectFailed([new EXCEPT !.ssl = "current"])
      \/ s = [new EXCEPT !.ssl = "current", !.phase = "send"]
  BY <1>7 DEF Handshakes
<1> QED  BY <1>4, <1>5, <1>6, <1>8, <1>9

\* A check in these phases may end as it is.
LEMMA MayEndOverConnection ==
  ASSUME IInv, NEW c \in Check, checker[c].phase \in {"send", "receive"}
  PROVE  /\ checker[c] \in Checker /\ CheckerInv(checker[c]) /\ MayEnd(checker[c])
         /\ ~InPhase(c, "queued") /\ c \in Busy
BY DEF IInv, MayEnd, CheckerInv, SocketInv, SessionInv, InPhase, Busy, Working

LEMMA send_http_getStep ==
  ASSUME IInv, NEW c \in Check, send_http_get(c)
  PROVE  IInv'
<1> DEFINE r == checker[c]
<1>1. r.phase = "send"
  BY DEF send_http_get, InPhase
<1>2. r \in Checker /\ CheckerInv(r) /\ MayEnd(r) /\ ~InPhase(c, "queued") /\ c \in Busy
  BY <1>1, MayEndOverConnection
<1>3. CASE Becomes(c, [r EXCEPT !.phase = "receive"])
  <2> DEFINE next == [r EXCEPT !.phase = "receive"]
  <2>1. next \in Checker /\ next.phase = "receive"
    BY <1>2 DEF Checker, Working
  <2>2. CheckerInv(next)
    BY <1>1, <1>2
       DEF CheckerInv, SocketInv, SessionInv, DowngradeInv, ResultInv, HoldsTls, Checker
  <2> QED  BY <1>2, <1>3, <2>1, <2>2, BecomesInv
<1>4. CASE Becomes(c, Finished(r, "none", "timeout"))
  BY <1>2, <1>4, FinishedInv, EndsInv DEF Code, Error
<1> QED  BY <1>3, <1>4 DEF send_http_get

LEMMA NoAnswerStep ==
  ASSUME IInv, NEW c \in Check, NoAnswer(c)
  PROVE  IInv'
<1>1. checker[c].phase = "receive"
  BY DEF NoAnswer, InPhase
<1> QED  BY <1>1, MayEndOverConnection, FinishedInv, EndsInv DEF NoAnswer, Code, Error

LEMMA AnsweredStep ==
  ASSUME IInv, NEW c \in Check, Answered(c)
  PROVE  IInv'
<1>1. checker[c].phase = "receive"
  BY DEF Answered, InPhase
<1>2. PICK answer \in Answers : Becomes(c, Finished(checker[c], answer[1], answer[2]))
  BY DEF Answered
<1>3. /\ answer[1] \in Code /\ answer[2] \in Error
      /\ answer[1] \in {"up", "redirect"} => answer[2] = "none"
  BY DEF Answers, Code, Error
<1> QED  BY <1>1, <1>2, <1>3, MayEndOverConnection, FinishedInv, EndsInv

(***************************************************************************)
(* A redirect leads to a checker without a socket, and without a session   *)
(* unless it goes from https to http.                                      *)
(***************************************************************************)
LEMMA DisconnectLeaves ==
  ASSUME NEW r \in Checker
  PROVE  LET d == disconnect(r)
         IN  /\ d \in Checker /\ ~d.sock
             /\ d.is_ssl = r.is_ssl /\ d.downgraded = r.downgraded /\ d.lost = r.lost
             /\ d.redirects = r.redirects
             /\ r.is_ssl  => ~d.ctx /\ d.ssl = "none"
             /\ ~r.is_ssl => /\ d.ctx = r.ctx
                             /\ d.ssl = IF r.ssl = "current" THEN "old" ELSE r.ssl
<1>1. CASE r.is_ssl
  <2>1. disconnect(r) = [r EXCEPT !.sock = FALSE, !.ctx = FALSE, !.ssl = "none"]
    BY <1>1, DisconnectType
  <2>2. PICK d : d = disconnect(r)
    OBVIOUS
  <2>3. d \in Checker /\ d = [r EXCEPT !.sock = FALSE, !.ctx = FALSE, !.ssl = "none"]
    BY <2>1, <2>2, DisconnectType
  <2>4. /\ ~d.sock /\ d.is_ssl = r.is_ssl /\ d.downgraded = r.downgraded /\ d.lost = r.lost
        /\ d.redirects = r.redirects /\ ~d.ctx /\ d.ssl = "none"
    BY <2>3 DEF Checker
  <2> QED  BY <1>1, <2>2, <2>3, <2>4
<1>2. CASE ~r.is_ssl
  <2>1. disconnect(r) = [r EXCEPT !.sock = FALSE,
                                  !.ssl = IF r.ssl = "current" THEN "old" ELSE r.ssl]
    BY <1>2, DisconnectType, CloseSocketType
  <2>2. /\ disconnect(r).sock = FALSE /\ disconnect(r).ctx = r.ctx
        /\ disconnect(r).ssl = IF r.ssl = "current" THEN "old" ELSE r.ssl
    BY <2>1 DEF Checker
  <2>3. /\ disconnect(r).is_ssl = r.is_ssl /\ disconnect(r).downgraded = r.downgraded
        /\ disconnect(r).lost = r.lost /\ disconnect(r).redirects = r.redirects
    BY <2>1 DEF Checker
  <2>4. disconnect(r) \in Checker
    BY DisconnectType
  <2> QED  BY <1>2, <2>2, <2>3, <2>4
<1> QED  BY <1>1, <1>2

LEMMA RedirectHost ==
  ASSUME NEW r \in Checker, NEW location
  PROVE  LET s == set_redirect_host_values(r, location)
         IN  /\ s \in Checker /\ (s.is_ssl <=> location = "https")
             /\ s.downgraded <=> r.downgraded \/ (r.is_ssl /\ location # "https")
             /\ s.lost = r.lost /\ s.redirects = r.redirects
             /\ s.ssl = r.ssl /\ s.ctx = r.ctx
<1> DEFINE gone == r.downgraded \/ (r.is_ssl /\ location # "https")
           p    == [r EXCEPT !.is_ssl = FALSE, !.downgraded = gone]
           s    == set_redirect_host_values(r, location)
<1>1. s = parse_host_values(p, location)
  BY DEF set_redirect_host_values
<1>2. PICK g \in BOOLEAN : g <=> gone
  OBVIOUS
<1>3. p = [r EXCEPT !.is_ssl = FALSE, !.downgraded = g]
  <2>1. gone = g
    BY <1>2 DEF Checker
  <2> QED  BY <2>1, Zenon
<1> HIDE DEF gone, p
<1>4. /\ p \in Checker /\ p.is_ssl = FALSE /\ p.downgraded = g
      /\ p.lost = r.lost /\ p.redirects = r.redirects /\ p.ssl = r.ssl /\ p.ctx = r.ctx
  BY <1>2, <1>3 DEF Checker
<1>5. PICK b \in BOOLEAN : /\ s = [p EXCEPT !.is_ssl = b]
                           /\ b <=> p.is_ssl \/ location = "https"
  BY <1>1, <1>4, ParseType
<1>6. s \in Checker
  BY <1>1, <1>4, ParseType
<1> HIDE DEF s
<1>7. /\ s.is_ssl = b /\ s.downgraded = g
      /\ s.lost = r.lost /\ s.redirects = r.redirects /\ s.ssl = r.ssl /\ s.ctx = r.ctx
  BY <1>4, <1>5 DEF Checker
<1> QED  BY <1>2, <1>4, <1>5, <1>6, <1>7 DEF gone, s

LEMMA RedirectTarget ==
  ASSUME NEW r \in Checker, CheckerInv(r), r.phase = "receive", NEW location,
         NEW next \in Checker, next.redirects <= MAX_REDIRECTS,
         next.is_ssl = r.is_ssl, next.downgraded = r.downgraded,
         next.lost = r.lost, next.ssl = r.ssl, next.ctx = r.ctx
  PROVE  LET to == [disconnect(set_redirect_host_values(next, location))
                      EXCEPT !.phase = "resolve"]
         IN  to \in Checker /\ to.phase = "resolve" /\ CheckerInv(to)
<1> DEFINE s  == set_redirect_host_values(next, location)
           d  == disconnect(s)
           to == [d EXCEPT !.phase = "resolve"]
<1>1. /\ s \in Checker /\ (s.is_ssl <=> location = "https")
      /\ s.downgraded <=> r.downgraded \/ (r.is_ssl /\ location # "https")
      /\ s.lost = r.lost /\ s.redirects = next.redirects
      /\ s.ssl = r.ssl /\ s.ctx = r.ctx
  BY RedirectHost
<1> HIDE DEF s
<1>2. /\ d \in Checker /\ ~d.sock
      /\ d.is_ssl = s.is_ssl /\ d.downgraded = s.downgraded /\ d.lost = s.lost
      /\ d.redirects = s.redirects
      /\ s.is_ssl  => ~d.ctx /\ d.ssl = "none"
      /\ ~s.is_ssl => d.ctx = s.ctx /\ d.ssl = IF s.ssl = "current" THEN "old" ELSE s.ssl
  BY <1>1, DisconnectLeaves
<1> HIDE DEF d
<1>3. /\ to \in Checker /\ to.phase = "resolve" /\ to.sock = d.sock
      /\ to.is_ssl = d.is_ssl /\ to.lost = d.lost /\ to.downgraded = d.downgraded
      /\ to.redirects = d.redirects /\ to.ctx = d.ctx /\ to.ssl = d.ssl
  BY <1>2 DEF Checker, Working
<1>4. /\ "socket" \notin r.lost /\ (~r.is_ssl => r.ssl # "current")
      /\ ~r.downgraded => /\ "tls" \notin r.lost /\ r.ssl # "old"
                          /\ ~r.is_ssl => ~r.ctx /\ r.ssl = "none"
  BY DEF CheckerInv, SocketInv, SessionInv, DowngradeInv, HoldsTls
<1> HIDE DEF to
<1>5. SocketInv(to) /\ ResultInv(to) /\ SessionInv(to)
  BY <1>1, <1>2, <1>3, <1>4 DEF SocketInv, ResultInv, SessionInv, HoldsTls
<1>6. DowngradeInv(to)
  BY <1>1, <1>2, <1>3, <1>4 DEF DowngradeInv, HoldsTls
<1> QED  BY <1>3, <1>5, <1>6 DEF CheckerInv, to, d, s

LEMMA RedirectedStep ==
  ASSUME IInv, NEW c \in Check, Redirected(c)
  PROVE  IInv'
<1> DEFINE r    == checker[c]
           next == [r EXCEPT !.redirects = r.redirects + 1, !.code = "redirect"]
<1>1. r.phase = "receive"
  BY DEF Redirected, InPhase
<1>2. r \in Checker /\ CheckerInv(r) /\ MayEnd(r) /\ ~InPhase(c, "queued") /\ c \in Busy
  BY <1>1, MayEndOverConnection
<1>3. /\ next \in Checker /\ MayEnd(next)
      /\ next.is_ssl = r.is_ssl /\ next.downgraded = r.downgraded
      /\ next.lost = r.lost /\ next.ssl = r.ssl /\ next.ctx = r.ctx
  <2>1. r.redirects + 1 \in 0 .. MAX_REDIRECTS + 1
    BY <1>1, <1>2 DEF CheckerInv, ResultInv, Checker, MAX_REDIRECTS
  <2>2. next \in Checker
    BY <1>2, <2>1 DEF Checker
  <2> QED  BY <1>2, <2>2 DEF MayEnd, DowngradeInv, HoldsTls, Checker
<1>4. CASE Becomes(c, Finished(next, "redirect", "none"))
  BY <1>2, <1>3, <1>4, FinishedInv, EndsInv DEF Code, Error
<1>5. CASE Becomes(c, Finished(next, "none", "location"))
  BY <1>2, <1>3, <1>5, FinishedInv, EndsInv DEF Code, Error
<1>6. ASSUME NEW location, ~TooManyRedirects(next.redirects),
             Becomes(c, [disconnect(set_redirect_host_values(next, location))
                           EXCEPT !.phase = "resolve"])
      PROVE  IInv'
  <2>1. next.redirects <= MAX_REDIRECTS
    <3>1. next.redirects \in 0 .. MAX_REDIRECTS + 1
      BY <1>3 DEF Checker
    <3> HIDE DEF next
    <3> QED  BY <1>6, <3>1 DEF TooManyRedirects, MAX_REDIRECTS
  <2> QED  BY <1>1, <1>2, <1>3, <1>6, <2>1, RedirectTarget, BecomesInv
<1> QED  BY <1>4, <1>5, <1>6 DEF Redirected

(***************************************************************************)
(* The callback finds what is left by is_ssl; only time passes otherwise.  *)
(***************************************************************************)
LEMMA http_check_async_finStep ==
  ASSUME IInv, NEW c \in Check, http_check_async_fin(c)
  PROVE  IInv'
<1> DEFINE r    == checker[c]
           last == disconnect(r)
           lost == last.lost \cup (IF last.sock THEN {"socket"} ELSE {})
                             \cup (IF last.ctx \/ last.ssl # "none" THEN {"tls"} ELSE {})
           end  == [Idle EXCEPT !.downgraded = last.downgraded, !.lost = lost]
<1>1. r \in Checker /\ CheckerInv(r) /\ r.phase = "finished" /\ ~InPhase(c, "queued")
  BY DEF IInv, http_check_async_fin, InPhase
<1>2. /\ last \in Checker /\ ~last.sock /\ last.lost = r.lost
      /\ last.downgraded = r.downgraded
      /\ ~r.downgraded => ~last.ctx /\ last.ssl = "none"
  <2>1. ~r.is_ssl /\ ~r.downgraded => ~r.ctx /\ r.ssl = "none"
    BY <1>1 DEF CheckerInv, DowngradeInv, HoldsTls
  <2> QED  BY <1>1, <2>1, DisconnectLeaves
<1>3. /\ lost \subseteq {"socket", "tls"} /\ "socket" \notin lost
      /\ ~r.downgraded => "tls" \notin lost
  BY <1>1, <1>2 DEF CheckerInv, SocketInv, DowngradeInv, Checker
<1>4. end \in Checker /\ end.phase = "idle" /\ CheckerInv(end)
  <2>1. last.downgraded \in BOOLEAN
    BY <1>2 DEF Checker
  <2>2. /\ end \in Checker /\ end.phase = "idle" /\ end.lost = lost
        /\ end.downgraded = r.downgraded /\ ~end.sock /\ ~end.is_ssl /\ end.redirects = 0
        /\ ~end.ctx /\ end.ssl = "none"
    <3>1. /\ Idle \in Checker /\ Idle.phase = "idle" /\ ~Idle.sock /\ ~Idle.is_ssl
          /\ Idle.redirects = 0 /\ ~Idle.ctx /\ Idle.ssl = "none"
      BY IdleType DEF HoldsTls
    <3>2. end = [Idle EXCEPT !.downgraded = last.downgraded, !.lost = lost]
      OBVIOUS
    <3> HIDE DEF end, lost, last
    <3> QED  BY <1>2, <1>3, <2>1, <3>1, <3>2 DEF Checker
  <2> HIDE DEF end, lost
  <2> QED
    BY <1>3, <2>2
       DEF CheckerInv, SocketInv, SessionInv, DowngradeInv, ResultInv, HoldsTls, MAX_REDIRECTS
<1>5. Becomes(c, end)
  BY DEF http_check_async_fin
<1> QED  BY <1>1, <1>4, <1>5, BecomesInv DEF Working

LEMMA ExpireStep ==
  ASSUME IInv, NEW c \in Check, Expire(c)
  PROVE  IInv'
<1> DEFINE r    == checker[c]
           next == [r EXCEPT !.expired = TRUE]
<1>1. r \in Checker /\ CheckerInv(r)
  BY DEF IInv
<1>2. next \in Checker /\ next.phase = r.phase
  BY <1>1 DEF Checker
<1>3. CheckerInv(next)
  BY <1>1
     DEF CheckerInv, SocketInv, SessionInv, DowngradeInv, ResultInv, HoldsTls, Checker
<1>4. (next.phase = "queued" <=> InPhase(c, "queued")) /\ (next.phase \in Working => c \in Busy)
  BY <1>2 DEF InPhase, Busy
<1> QED  BY <1>2, <1>3, <1>4, BecomesInv DEF Expire

-----------------------------------------------------------------------------
LEMMA StepInv ==
  ASSUME IInv, [Next]_vars
  PROVE  IInv'
<1>1. ASSUME NEW c \in Check, CodeStep(c) PROVE IInv'
  BY <1>1, http_check_asyncStep, getaddrinfoStep, TryAddressStep, ConnectGivesUpStep,
     SSL_connectStep, send_http_getStep, NoAnswerStep, http_check_async_finStep
     DEF CodeStep
<1>2. ASSUME NEW c \in Check, http_check(c) \/ Answered(c) \/ Redirected(c) \/ Expire(c)
      PROVE  IInv'
  BY <1>2, http_checkStep, AnsweredStep, RedirectedStep, ExpireStep
<1>3. CASE UNCHANGED vars
  BY <1>3 DEF vars, IInv, QueueInv, BusyInv, Queued, Busy, InPhase
<1> QED  BY <1>1, <1>2, <1>3 DEF Next

(***************************************************************************)
(* The invariant holds of every behaviour of the addon.                    *)
(***************************************************************************)
THEOREM InvariantHolds == Spec => []IInv
<1> QED  BY InitInv, StepInv, PTL DEF Spec

(***************************************************************************)
(* Type correctness: the queue holds the checks no thread has taken, each  *)
(* once, and never more checks are performed than there are threads.       *)
(***************************************************************************)
THEOREM TypeCorrect == Spec => []TypeOK
<1>1. IInv => TypeOK
  <2> SUFFICES ASSUME IInv PROVE TypeOK
    OBVIOUS
  <2>1. DOMAIN queue = 1 .. Len(queue)
    BY DEF IInv, QueueInv
  <2> QED  BY <2>1 DEF IInv, QueueInv, BusyInv, Queued, TypeOK
<1> QED  BY <1>1, InvariantHolds, PTL

(***************************************************************************)
(* No path through a check leaves a socket behind, nor a session or a      *)
(* context unless a redirect led from https to http.                       *)
(***************************************************************************)
THEOREM NothingIsLeaked == Spec => []ResourcesReleased
<1>1. IInv => ResourcesReleased
  BY DEF IInv, CheckerInv, SocketInv, DowngradeInv, ResourcesReleased, SocketsReleased,
         TlsReleased
<1> QED  BY <1>1, InvariantHolds, PTL

(***************************************************************************)
(* A request goes over an open socket and, with https, its own session.    *)
(***************************************************************************)
THEOREM SessionIsOwn == Spec => []OwnSession
<1>1. IInv => OwnSession
  BY DEF IInv, CheckerInv, SocketInv, SessionInv, OwnSession
<1> QED  BY <1>1, InvariantHolds, PTL

(***************************************************************************)
(* A check that failed is never reported with the code of a site that is   *)
(* up, whatever redirects came before the failure.                         *)
(***************************************************************************)
THEOREM UpMeansAnswered == Spec => []UpWasAnswered
<1>1. IInv => UpWasAnswered
  BY DEF IInv, CheckerInv, ResultInv, UpWasAnswered, InPhase
<1> QED  BY <1>1, InvariantHolds, PTL
=============================================================================
