----------------------------- MODULE HttpChecker -----------------------------
(***************************************************************************)
(* The native addon of a worker (src/main.cpp, src/http_checker.cpp):      *)
(* http_check() queues a check for the threads of libuv, a thread performs *)
(* it, and the after-work callback reports the result to the JavaScript    *)
(* and deletes the checker.                                                *)
(*                                                                         *)
(* A check is a record of the members of its HTTP_Checker; `phase' is the  *)
(* blocking call its thread is in.  The build is the one of the header:    *)
(* blocking sockets and getaddrinfo().                                     *)
(*                                                                         *)
(* Abstracted: a URL, to its scheme; time, to whether m_cutofftime is      *)
(* past; response codes, to the classes the program tells apart; reading   *)
(* an answer, to one step: a site is silent, or its answer comes to an end.*)
(***************************************************************************)
EXTENDS Integers, Sequences, FiniteSets

CONSTANTS Check,         \* checks, each under way at most once at a time
          Threads,       \* threads of libuv
          MaxAddresses   \* bound: addresses a name resolves to

ASSUME ThreadsAssumption   == Threads \in Nat \ {0}
ASSUME AddressesAssumption == MaxAddresses \in Nat

MAX_REDIRECTS == 2

VARIABLES
  queue,    \* checks no thread has taken yet
  checker   \* the checker of each check

vars == <<queue, checker>>

\* Set up by the constructor, on the main thread; the cut-off time runs from here.
New ==
  [phase |-> "queued", is_ssl |-> FALSE, sock |-> FALSE, ctx |-> FALSE,
   ssl |-> "none",            \* bound to the "current" socket or an "old" one
   addresses |-> 0, redirects |-> 0, expired |-> FALSE,
   code |-> "none",           \* m_response_code, "none" being 0
   error |-> "none",          \* m_error_code
   downgraded |-> FALSE,      \* history: redirected from https to http
   lost |-> {}]               \* history: what nothing refers to any more

Idle == [New EXCEPT !.phase = "idle"]

Working  == {"resolve", "connect", "handshake", "send", "receive"}
InPhase(c, phase) == checker[c].phase = phase
Busy     == {c \in Check : checker[c].phase \in Working}

Becomes(c, r) == checker' = [checker EXCEPT ![c] = r] /\ UNCHANGED queue

Init == queue = <<>> /\ checker = [c \in Check |-> Idle]

-----------------------------------------------------------------------------
(***************************************************************************)
(* Members of HTTP_Checker.                                                *)
(***************************************************************************)
CloseSocket(r) ==
  [r EXCEPT !.sock = FALSE, !.ssl = IF @ = "current" THEN "old" ELSE @]

\* Mutant of FreeTls: the context is not freed.
FreeTlsKeepsContext(r) == [r EXCEPT !.ssl = "none"]

FreeTls(r) == [r EXCEPT !.ctx = FALSE, !.ssl = "none"]

disconnect(r) == CloseSocket(IF r.is_ssl THEN FreeTls(r) ELSE r)

Finished(r, code, error) ==
  [r EXCEPT !.phase = "finished", !.code = code, !.error = error]

\* Mutant of ConnectFailed: the code of the redirect response stays.
ConnectFailedKeepsCode(r) ==
  Finished(r, r.code, IF r.redirects = 0 THEN "connect" ELSE "connect_redirect")

ConnectFailed(r) ==
  Finished(r, "none", IF r.redirects = 0 THEN "connect" ELSE "connect_redirect")

OpenSocket(r) ==
  [r EXCEPT !.sock = TRUE, !.lost = IF r.sock THEN @ \cup {"socket"} ELSE @]

\* Mutant of Refused: the socket is not closed before the next address.
RefusedStaysOpen(r) == r

Refused(r) == CloseSocket(r)

\* Mutant of MoreAddresses: the end of the list is not tested.
MoreAddressesUnchecked(r) == ~r.expired

MoreAddresses(r) == r.addresses > 0 /\ ~r.expired

NewContext(r) ==
  [r EXCEPT !.ctx = TRUE, !.lost = IF r.ctx THEN @ \cup {"tls"} ELSE @]

\* Mutant of Handshakes: the result of init_ssl is not tested.
HandshakesUnchecked(r) ==
  LET new == NewContext(r)
  IN  {[CloseSocket(new) EXCEPT !.phase = "send"],
       [new EXCEPT !.ssl = "current", !.phase = "send"]}

\* init_ssl and SSL_connect: no context, no certificates, no session, no BIO,
\* the handshake fails (the socket stays open), or it succeeds.
Handshakes(r) ==
  LET new == NewContext(r)
  IN  {ConnectFailed(CloseSocket([new EXCEPT !.ctx = FALSE])),
       ConnectFailed(CloseSocket(new)),
       ConnectFailed(CloseSocket([new EXCEPT !.ssl = "none"])),
       ConnectFailed(CloseSocket([new EXCEPT !.ssl = "unbound"])),
       ConnectFailed([new EXCEPT !.ssl = "current"]),
       [new EXCEPT !.ssl = "current", !.phase = "send"]}

\* Only the scheme of a URL matters here.
parse_host_values(r, url) == [r EXCEPT !.is_ssl = @ \/ url = "https"]

\* A relative location leaves the scheme out, and stands for http.
set_redirect_host_values(r, location) ==
  parse_host_values(
    [r EXCEPT !.is_ssl = FALSE,
              !.downgraded = @ \/ (r.is_ssl /\ location # "https")],
    location)

TooManyRedirects(redirects) == redirects > MAX_REDIRECTS

\* Mutant of GivesUp: the wait for a response has no end.
GivesUpNever(r) == FALSE

GivesUp(r) == r.expired

\* Response code and error of an answer that is no redirect: connection closed,
\* no status line, no number in it, up, and an HTTP error.
Answers == {<<"none", "timeout">>, <<"unknown", "unknown">>, <<"none", "none">>,
            <<"up", "none">>, <<"error", "none">>}

-----------------------------------------------------------------------------
(***************************************************************************)
(* The steps of a check.                                                   *)
(***************************************************************************)
http_check(c) ==
  /\ InPhase(c, "idle")
  /\ queue' = Append(queue, c)
  /\ checker' = [checker EXCEPT ![c] = New]

http_check_async(c) ==
  /\ queue # <<>> /\ Head(queue) = c
  /\ Cardinality(Busy) < Threads
  /\ queue' = Tail(queue)
  /\ \E url \in {"http", "https"} :
       checker' = [checker EXCEPT
                     ![c] = parse_host_values([@ EXCEPT !.phase = "resolve"], url)]

getaddrinfo(c) ==
  /\ InPhase(c, "resolve")
  /\ \/ Becomes(c, ConnectFailed(checker[c]))
     \/ \E n \in 1 .. MaxAddresses :
          Becomes(c, [checker[c] EXCEPT !.phase = "connect", !.addresses = n])

\* No socket, no connection, or one.
TryAddress(c) ==
  LET next == [checker[c] EXCEPT !.addresses = @ - 1]
  IN  /\ InPhase(c, "connect") /\ MoreAddresses(checker[c])
      /\ \/ Becomes(c, next)
         \/ Becomes(c, Refused(OpenSocket(next)))
         \/ Becomes(c, [OpenSocket(next) EXCEPT
                          !.phase = IF next.is_ssl THEN "handshake" ELSE "send"])

ConnectGivesUp(c) ==
  /\ InPhase(c, "connect") /\ ~MoreAddresses(checker[c])
  /\ Becomes(c, ConnectFailed(CloseSocket(checker[c])))

SSL_connect(c) ==
  /\ InPhase(c, "handshake")
  /\ \E r \in Handshakes(checker[c]) : Becomes(c, r)

send_http_get(c) ==
  /\ InPhase(c, "send")
  /\ \/ Becomes(c, [checker[c] EXCEPT !.phase = "receive"])
     \/ Becomes(c, Finished(checker[c], "none", "timeout"))

NoAnswer(c) ==
  /\ InPhase(c, "receive") /\ GivesUp(checker[c])
  /\ Becomes(c, Finished(checker[c], "none", "timeout"))

Answered(c) ==
  /\ InPhase(c, "receive")
  /\ \E answer \in Answers : Becomes(c, Finished(checker[c], answer[1], answer[2]))

\* The connection is closed with the new scheme already in place.
Redirected(c) ==
  LET next == [checker[c] EXCEPT !.redirects = @ + 1, !.code = "redirect"]
  IN  /\ InPhase(c, "receive")
      /\ \/ /\ TooManyRedirects(next.redirects)
            /\ Becomes(c, Finished(next, "redirect", "none"))
         \/ /\ ~TooManyRedirects(next.redirects)
            /\ \/ Becomes(c, Finished(next, "none", "location"))
               \/ \E location \in {"http", "https", "relative"} :
                    Becomes(c, [disconnect(set_redirect_host_values(next, location))
                                  EXCEPT !.phase = "resolve"])

\* The result is reported and the checker deleted.
http_check_async_fin(c) ==
  LET last == disconnect(checker[c])
  IN  /\ InPhase(c, "finished")
      /\ Becomes(c, [Idle EXCEPT
           !.downgraded = last.downgraded,
           !.lost = last.lost \cup (IF last.sock THEN {"socket"} ELSE {})
                              \cup (IF last.ctx \/ last.ssl # "none" THEN {"tls"} ELSE {})])

\* Time passes, in the queue as well.
Expire(c) ==
  /\ checker[c].phase \in Working \cup {"queued"} /\ ~checker[c].expired
  /\ Becomes(c, [checker[c] EXCEPT !.expired = TRUE])

-----------------------------------------------------------------------------
CodeStep(c) ==
  \/ http_check_async(c) \/ getaddrinfo(c) \/ TryAddress(c) \/ ConnectGivesUp(c)
  \/ SSL_connect(c) \/ send_http_get(c) \/ NoAnswer(c) \/ http_check_async_fin(c)

Next ==
  \E c \in Check :
    http_check(c) \/ CodeStep(c) \/ Answered(c) \/ Redirected(c) \/ Expire(c)

Spec == Init /\ [][Next]_vars

\* Calls return and time passes; no site needs to answer.
FairSpec == Spec /\ \A c \in Check : WF_vars(CodeStep(c)) /\ WF_vars(Expire(c))

-----------------------------------------------------------------------------
Checker ==
  [phase : Working \cup {"idle", "queued", "finished"},
   is_ssl : BOOLEAN, sock : BOOLEAN, ctx : BOOLEAN,
   ssl : {"none", "unbound", "current", "old"},
   addresses : 0 .. MaxAddresses, redirects : 0 .. MAX_REDIRECTS + 1,
   expired : BOOLEAN, code : {"none", "up", "redirect", "error", "unknown"},
   error : {"none", "connect", "connect_redirect", "timeout", "unknown", "location"},
   downgraded : BOOLEAN, lost : SUBSET {"socket", "tls"}]

TypeOK ==
  /\ checker \in [Check -> Checker]
  /\ {queue[i] : i \in DOMAIN queue} = {c \in Check : InPhase(c, "queued")}
  /\ Len(queue) = Cardinality({c \in Check : InPhase(c, "queued")})
  /\ Cardinality(Busy) <= Threads

(***************************************************************************)
(* No socket is left open, over every address tried, every redirect        *)
(* followed and every way a check can fail.  Neither is a TLS session or   *)
(* context, or a session shut down over a socket that is no longer its     *)
(* own, unless a redirect led from https to http: disconnect() then        *)
(* believes that there is none.                                            *)
(***************************************************************************)
SocketsReleased == \A c \in Check : "socket" \notin checker[c].lost

TlsReleased ==
  \A c \in Check :
    ~checker[c].downgraded => "tls" \notin checker[c].lost /\ checker[c].ssl # "old"

ResourcesReleased == SocketsReleased /\ TlsReleased

(***************************************************************************)
(* A request is sent, and its answer read, over an open socket and, with   *)
(* https, the session of that very socket, whatever redirects led there.   *)
(***************************************************************************)
OwnSession ==
  \A c \in Check :
    LET r == checker[c]
    IN  r.phase \in {"send", "receive"} =>
          r.sock /\ (r.ssl = "current" <=> r.is_ssl) /\ (r.is_ssl => r.ctx)

(***************************************************************************)
(* The worker takes any code from 1 to 399 for a site that is up.  None is *)
(* reported with an error: the code of a redirect does not outlive a       *)
(* failure at its target.                                                  *)
(***************************************************************************)
UpWasAnswered ==
  \A c \in Check :
    InPhase(c, "finished") /\ checker[c].code \in {"up", "redirect"}
      => checker[c].error = "none"

(***************************************************************************)
(* Every check calls back, which is what the worker relies on: it waits in *)
(* turn for a thread, and no silent site holds the thread for ever.        *)
(***************************************************************************)
EveryCheckCallsBack == \A c \in Check : ~InPhase(c, "idle") ~> InPhase(c, "idle")
=============================================================================
