---------------------------- MODULE HttpClient ----------------------------
(***************************************************************************)
(* HTTP_request/lib/MyHttp.c and HTTPS_request/lib/MyHttps.c: get() and    *)
(* post() start a thread that resolves the host, connects, in the TLS      *)
(* library does the handshake and looks at the certificate, sends the      *)
(* request, receives the response into buf and passes its body to the      *)
(* callback.                                                               *)
(*                                                                         *)
(* In the TLS library data can be read when the TLS record that holds it   *)
(* has arrived.  A response is described by the lengths and positions of   *)
(* its parts, in units.  A definition Op_Fault is Op with a fault a        *)
(* programmer could make; it is used only to test that the properties      *)
(* notice it.                                                              *)
(***************************************************************************)
EXTENDS Integers, FiniteSetsExt

CONSTANTS
    Request,   \* calls of get and post
    Host, NoHost,
    HostOf,    \* HostOf[r]: the host in the URL of r
    Posts,     \* the calls of post
    Bare,      \* the calls whose URL ends with the host
    HostStates, \* HostStates[tls]: what hosts may be like, functions from Host to HostState
    SendCalls, \* send() calls for one request
    Responses, \* Responses[tls]: what servers may answer to the calls of either library
    BUF_SIZE,
    Beyond,    \* units behind a full buffer before the next zero byte, at most
    MayReset   \* TRUE: a server may reset its connection

(* header: end of the empty line; name, value: end of "Content-Length" and *)
(* of its value, 0 without it; body: length of the body, which is what     *)
(* Content-Length announces; records: ends of TLS records; keepAlive: the  *)
(* server does not close.                                                  *)
Response ==
    [header : Nat, name : Nat, value : Nat, body : Nat, records : SUBSET Nat, keepAlive : BOOLEAN]
Size(p) == p.header + p.body

(* A host that is up presents no certificate, or one whose subject has a   *)
(* common name (whosever it is), has "Inc/CN=", or has no common name.     *)
Certificate == {"none", "named", "Inc", "unnamed"}
HostState == {"unknown", "down", "noTls"} \cup Certificate

ASSUME HostAssumption ==
    /\ HostOf \in [Request -> Host] /\ NoHost \notin Host
    /\ \A t \in BOOLEAN : HostStates[t] \subseteq [Host -> HostState]
    /\ Posts \subseteq Request /\ Bare \subseteq Request
ASSUME BoundAssumption ==
    BUF_SIZE \in Nat \ {0} /\ Beyond \in Nat
    /\ MayReset \in BOOLEAN /\ SendCalls \in Nat \ {0}
(* The code relies on a server that closes or announces the length.        *)
ASSUME ResponseAssumption ==
    \A t \in BOOLEAN : \A f \in Responses[t], r \in Request : LET p == f[r] IN
        /\ p \in Response
        /\ p.name <= p.value /\ p.value < p.header /\ p.header <= BUF_SIZE
        /\ Size(p) \in p.records
        /\ p.keepAlive => p.name > 0

VARIABLES
    tls,      \* the library: TRUE HTTPS_request, FALSE HTTP_request
    hostState, \* what the hosts are like
    ended,    \* how the process ended, if it did
    hostent,  \* the result of gethostbyname, one for all threads
    pc, peer, \* next statement of each request's thread; host it is connected to
    overtaken, \* history: another thread resolved before r connected
    toSend,   \* send() calls left
    response, \* the response its server gives
    sent,     \* units of it the server has sent
    link,     \* the server's side of the connection
    received, \* units recv has returned
    recvLen,  \* units in buf (decryptedBuf)
    given     \* given[r]: length of the string the callback got, or -1

fixed == <<tls, hostState, response>>
begin == <<hostent, overtaken, peer, toSend>>
data == <<sent, received, recvLen, given>>
vars == <<fixed, ended, begin, pc, link, data>>

Answering(r) == pc[r] = "recv"

TypeOK ==
    /\ tls \in BOOLEAN
    /\ hostState \in HostStates[tls]
    /\ ended \in {"no", "exit", "crash", "SIGPIPE"}
    /\ hostent \in Host \cup {NoHost}
    /\ pc \in [Request -> {"none", "resolve", "connect", "SSL_connect", "check",
                         "send", "recv", "then", "done"}]
    /\ peer \in [Request -> Host \cup {NoHost}]
    /\ overtaken \in [Request -> BOOLEAN] /\ toSend \in [Request -> 0..SendCalls]
    /\ response \in Responses[tls]
    /\ link \in [Request -> {"open", "closed", "reset", "broken"}]
    /\ \A r \in Request :
          /\ sent[r] \in 0..Size(response[r])
          /\ received[r] \in 0..sent[r]
          /\ recvLen[r] \in 0..BUF_SIZE
          /\ given[r] \in -1..(BUF_SIZE + Beyond)

Init ==
    /\ tls \in BOOLEAN /\ hostState \in HostStates[tls]
    /\ ended = "no" /\ hostent = NoHost
    /\ pc = [r \in Request |-> "none"]
    /\ peer = [r \in Request |-> NoHost]
    /\ overtaken = [r \in Request |-> FALSE]
    /\ toSend = [r \in Request |-> SendCalls]
    /\ response \in Responses[tls]
    /\ sent = [r \in Request |-> 0]
    /\ link = [r \in Request |-> "open"]
    /\ received = [r \in Request |-> 0] /\ recvLen = [r \in Request |-> 0]
    /\ given = [r \in Request |-> -1]

-----------------------------------------------------------------------------
(* Servers (external)                                                      *)

ServerSends(r) ==
    /\ Answering(r) /\ link[r] = "open"
    /\ \E n \in (sent[r] + 1)..Size(response[r]) : sent' = [sent EXCEPT ![r] = n]
    /\ UNCHANGED <<fixed, ended, begin, pc, link, received, recvLen, given>>

ServerCloses(r) ==
    /\ Answering(r) /\ link[r] = "open"
    /\ sent[r] = Size(response[r]) /\ ~response[r].keepAlive
    /\ link' = [link EXCEPT ![r] = "closed"]
    /\ UNCHANGED <<fixed, ended, begin, pc, data>>

ServerResets(r) ==
    /\ pc[r] \in {"send", "recv"} /\ link[r] = "open" /\ MayReset
    /\ link' = [link EXCEPT ![r] = "reset"]
    /\ UNCHANGED <<fixed, ended, begin, pc, data>>

-----------------------------------------------------------------------------
(* threadRun_get and threadRun_post                                        *)

Goto(r, from, to) == pc[r] = from /\ pc' = [pc EXCEPT ![r] = to]

Start(r) ==
    /\ Goto(r, "none", "resolve")
    /\ UNCHANGED <<fixed, ended, begin, link, data>>

(* gethostbyname returns the same structure to every thread.               *)
Resolved_Once(r) == IF hostent = NoHost THEN HostOf[r] ELSE hostent
Resolved(r) == HostOf[r]

(* NULL ends the process: get() tests for it, post() follows it.           *)
Resolve(r) ==
    /\ Goto(r, "resolve", "connect")
    /\ IF hostState[HostOf[r]] = "unknown"
       THEN ended' = (IF r \in Posts THEN "crash" ELSE "exit") /\ UNCHANGED hostent
       ELSE hostent' = Resolved(r) /\ UNCHANGED ended
    /\ overtaken' = [q \in Request |-> overtaken[q] \/ pc[q] = "connect"]
    /\ UNCHANGED <<fixed, peer, toSend, link, data>>

(* A connect that fails ends the process with all its requests.            *)
Connect(r) ==
    /\ Goto(r, "connect", IF tls THEN "SSL_connect" ELSE "send")
    /\ peer' = [peer EXCEPT ![r] = hostent]
    /\ ended' = IF hostState[hostent] = "down" THEN "exit" ELSE ended
    /\ UNCHANGED <<fixed, hostent, overtaken, toSend, link, data>>

SSLConnect(r) ==
    /\ Goto(r, "SSL_connect", "check")
    /\ ended' = IF hostState[peer[r]] = "noTls" THEN "exit" ELSE ended
    /\ UNCHANGED <<fixed, begin, link, data>>

(* checkCertificateDomainName follows a null pointer for the subjects it   *)
(* does not expect, and for a URL without '/' or ':' after the host it     *)
(* reads on, and may write, past its end.  Its result is only printed.     *)
Checked(k, r) ==
    IF k \in {"Inc", "unnamed"} THEN {"crash"}
    ELSE IF k = "named" /\ r \in Bare THEN {"no", "crash"} ELSE {"no"}

CheckCertificate(r) ==
    /\ Goto(r, "check", "send")
    /\ ended' \in Checked(hostState[peer[r]], r)
    /\ UNCHANGED <<fixed, begin, link, data>>

(* The first send() after a reset reports it, the next raises SIGPIPE,     *)
(* which the TLS library suppresses with MSG_NOSIGNAL.                     *)
NoSignal == tls

Send(r) ==
    /\ pc[r] = "send" /\ toSend[r] > 0
    /\ toSend' = [toSend EXCEPT ![r] = @ - 1]
    /\ link' = [link EXCEPT ![r] = IF @ = "reset" THEN "broken" ELSE @]
    /\ ended' = IF link[r] = "broken" /\ ~NoSignal THEN "SIGPIPE" ELSE ended
    /\ UNCHANGED <<fixed, hostent, overtaken, peer, pc, data>>

Sent(r) ==
    /\ Goto(r, "send", "recv")
    /\ toSend[r] = 0
    /\ UNCHANGED <<fixed, ended, begin, link, data>>

(* Units that can be read of the first n units of the response             *)
Readable(r, n) ==
    IF tls THEN Max({0} \cup {m \in response[r].records : m <= n}) ELSE n

Least(m, n) == Min({m, n})
Room(r) == IF tls THEN BUF_SIZE ELSE BUF_SIZE - recvLen[r]

(* getContentLength of a buffer that ends after the name and before the    *)
(* end of the value follows a null pointer, or copies past numString.      *)
HalfLength(r, n) == response[r].name <= n /\ n < response[r].value
LengthKnown_Never(r, n) == FALSE
LengthKnown(r, n) == response[r].name > 0 /\ n >= response[r].value

BodyReceived_Header(r, n) == n
BodyReceived(r, n) == Max({0, n - response[r].header})

Enough(r, n) ==
    \/ LengthKnown(r, n) /\ BodyReceived(r, n) >= response[r].body
    \/ n > BUF_SIZE - 1

Receive(r) ==
    /\ pc[r] = "recv"
    /\ \E m \in 1..Room(r) :
          LET n == Readable(r, received[r] + m) IN
          /\ received[r] + m <= sent[r]
          /\ received' = [received EXCEPT ![r] = @ + m]
          /\ recvLen' = [recvLen EXCEPT ![r] = IF tls THEN Least(n, BUF_SIZE) ELSE n]
          /\ ended' = IF HalfLength(r, recvLen'[r]) THEN "crash" ELSE ended
          /\ pc' = [pc EXCEPT ![r] = IF Enough(r, recvLen'[r]) THEN "then" ELSE "recv"]
    /\ UNCHANGED <<fixed, begin, sent, link, given>>

EndOfResponse(r) ==
    \/ received[r] = sent[r] /\ link[r] = "closed"
    \/ link[r] \in {"reset", "broken"}

(* recv() returns 0 or -1                                                  *)
ReceiveEnd(r) ==
    /\ Goto(r, "recv", "then")
    /\ EndOfResponse(r)
    /\ UNCHANGED <<fixed, ended, begin, link, data>>

(* The callback gets a pointer to what follows the empty line, or "" if    *)
(* there is none, and no length.  buf started full of zeros: unless it is  *)
(* filled, one of them ends the string.  Behind a full one the string goes *)
(* on, up to whatever zero comes next in memory.                           *)
PastEnd(r) == IF recvLen[r] < BUF_SIZE THEN {0} ELSE 0..Beyond
Strings(r) == {BodyReceived(r, recvLen[r]) + n : n \in PastEnd(r)}

Then(r) ==
    /\ Goto(r, "then", "done")
    /\ \E n \in Strings(r) : given' = [given EXCEPT ![r] = n]
    /\ UNCHANGED <<fixed, ended, begin, link, sent, received, recvLen>>

ThreadStep(r) ==
    \/ Resolve(r) \/ Connect(r) \/ SSLConnect(r) \/ CheckCertificate(r)
    \/ Send(r) \/ Sent(r) \/ Receive(r) \/ ReceiveEnd(r) \/ Then(r)

Next ==
    /\ ended = "no"
    /\ \E r \in Request : Start(r) \/ ThreadStep(r) \/ ServerSends(r) \/ ServerCloses(r) \/ ServerResets(r)

Spec == Init /\ [][Next]_vars

(* The threads run; servers send their whole response and close unless     *)
(* they keep the connection; none has to reset.                            *)
FairSpec ==
    /\ Spec
    /\ \A r \in Request :
          /\ WF_vars(ended = "no" /\ ThreadStep(r))
          /\ WF_vars(ended = "no" /\ ServerSends(r)) /\ WF_vars(ended = "no" /\ ServerCloses(r))

-----------------------------------------------------------------------------
(* Properties                                                              *)

(* "call the corresponding callback after having received all the body     *)
(* data" (README.md:1): whatever the segments and records it came in, the  *)
(* callback gets exactly the body of a response that is shorter than the   *)
(* buffer, and all that the buffer holds of a longer one, unless the       *)
(* server reset the connection (MyHttp.c:86-112).                          *)
CompleteBody ==
    \A r \in Request : pc[r] = "done" /\ link[r] \notin {"reset", "broken"} =>
        IF Size(response[r]) < BUF_SIZE THEN given[r] = response[r].body
        ELSE given[r] >= BUF_SIZE - response[r].header

(* Every request started ends in its callback (README.md:1), as long as    *)
(* the process has not ended.                                              *)
EveryRequestCalledBack ==
    \A r \in Request : pc[r] = "resolve" ~> (pc[r] = "done" \/ ended # "no")

(* A request reaches its own host unless another thread has overwritten    *)
(* the one structure of gethostbyname before its connect (MyHttp.c:60-70). *)
OwnHost == \A r \in Request : peer[r] \in {NoHost, HostOf[r]} \/ overtaken[r]

(* With it, the buffer is never written past its end (MyHttp.c:86, 102).   *)
RequestsConsistent == TypeOK /\ OwnHost
=============================================================================
