-------------------------- MODULE HttpClientProofs --------------------------
(***************************************************************************)
(* Proofs about module HttpClient: whose host a request talks to and what  *)
(* the callback gets, for any requests, hosts, responses and buffer size.  *)
(***************************************************************************)
EXTENDS HttpClient, TLAPS, WellFoundedInduction

-----------------------------------------------------------------------------
(* Maxima and minima                                                       *)

LEMMA BoundedMax ==
  ASSUME NEW S \in SUBSET Nat, S # {}, NEW b \in Nat, \A x \in S : x <= b
  PROVE  Max(S) \in S /\ \A y \in S : Max(S) >= y
<1> DEFINE T == {b - x : x \in S}
<1> DEFINE Less == {p \in Nat \X Nat : p[1] < p[2]}
<1>1. \A u \in T : u \in Nat
  <2> TAKE u \in T
  <2>1. PICK x \in S : u = b - x OBVIOUS
  <2>2. x \in Nat /\ x <= b OBVIOUS
  <2> HIDE DEF T, Less
  <2> QED BY <2>1, <2>2
<1>2. PICK x \in S : TRUE OBVIOUS
<1>3. b - x \in T BY <1>2
<1>4. PICK t \in T : \A u \in T : ~ (u < t)
  <2>1. IsWellFoundedOn(Less, Nat) BY NatLessThanWellFounded, Zenon DEF OpToRel
  <2>2. PICK t \in T : \A u \in T : <<u, t>> \notin Less
    <3> HIDE DEF T, Less
    <3>1. T \subseteq Nat /\ T # {} BY <1>1, <1>3
    <3> QED BY <3>1, <2>1, WFMin
  <2> QED BY <2>2, <1>1
<1>5. PICK z \in S : t = b - z BY <1>4
<1>6. \A y \in S : z >= y
  <2> TAKE y \in S
  <2>1. b - y \in T /\ b - y \in Nat BY <1>1
  <2>2. ~ (b - y < t) BY <1>4, <2>1
  <2> QED BY <2>2, <1>5
<1> QED BY <1>6 DEF Max

LEMMA LeastIs == ASSUME NEW m \in Int, NEW n \in Int PROVE Least(m, n) = IF m <= n THEN m ELSE n
BY DEF Least, Min

LEMMA PositivePart == ASSUME NEW n \in Int PROVE Max({0, n}) = IF n > 0 THEN n ELSE 0
BY DEF Max

(* What can be read of n units is at most n, and all of them if a TLS      *)
(* record ends there.                                                      *)
LEMMA ReadableBounds ==
  ASSUME NEW r \in Request, response[r].records \in SUBSET Nat, NEW n \in Nat
  PROVE  /\ Readable(r, n) \in Nat /\ Readable(r, n) <= n
         /\ n \in response[r].records => Readable(r, n) = n
<1> DEFINE S == {0} \cup {m \in response[r].records : m <= n}
<1>1. S \in SUBSET Nat /\ S # {} /\ \A x \in S : x <= n OBVIOUS
<1>2. n \in response[r].records => n \in S OBVIOUS
<1>3. Max(S) \in S /\ \A y \in S : Max(S) >= y
  <2> HIDE DEF S
  <2> QED BY <1>1, BoundedMax
<1>4. Max(S) \in Nat /\ Max(S) <= n /\ (n \in response[r].records => Max(S) = n)
  <2> DEFINE a == Max(S)
  <2>1. a \in Nat /\ a <= n BY <1>1, <1>3
  <2>2. n \in S => a >= n BY <1>3
  <2> HIDE DEF S, a
  <2>3. n \in response[r].records => a = n BY <2>1, <2>2, <1>2
  <2> QED BY <2>1, <2>3 DEF a
<1> QED BY <1>4 DEF Readable

-----------------------------------------------------------------------------
(* The inductive invariant                                                 *)

Counts ==
    /\ sent \in [Request -> Nat] /\ received \in [Request -> Nat]
    /\ recvLen \in [Request -> Nat] /\ given \in [Request -> Int]

(* A thread that is about to connect finds its own host in the structure,  *)
(* or that of one that has resolved since.                                 *)
Resolving ==
    ended = "no" => \A r \in Request : pc[r] = "connect" =>
        hostent \in Host /\ (hostent = HostOf[r] \/ overtaken[r])
ConnectedOK ==
    \A r \in Request :
        /\ pc[r] \in {"SSL_connect", "check", "send", "recv", "then", "done"} => peer[r] # NoHost
        /\ pc[r] \in {"SSL_connect", "check"} => tls

(* The buffer holds what can be read of what was received: of the first n  *)
(* units of response p, in the library t.                                  *)
InBuffer(t, p, n) ==
    IF t THEN Least(Max({0} \cup {m \in p.records : m <= n}), BUF_SIZE) ELSE n
Accounted ==
    \A r \in Request :
        /\ recvLen[r] = InBuffer(tls, response[r], received[r])
        /\ ~tls => received[r] <= BUF_SIZE

(* A thread leaves the receive loop with enough, with everything, or with  *)
(* a connection that was reset.                                            *)
BodyIn(p, n) == Max({0, n - p.header})
Suffices(p, n) ==
    \/ p.name > 0 /\ n >= p.value /\ BodyIn(p, n) >= p.body
    \/ n > BUF_SIZE - 1
LinkOK(r) == link[r] \notin {"reset", "broken"}
ClosedAtEnd == \A r \in Request : link[r] = "closed" => sent[r] = Size(response[r])
LoopLeft ==
    \A r \in Request : pc[r] = "then" /\ LinkOK(r) =>
        Suffices(response[r], recvLen[r]) \/ received[r] = Size(response[r])

Inv ==
    /\ TypeOK /\ Counts /\ Resolving /\ ConnectedOK /\ OwnHost
    /\ Accounted /\ ClosedAtEnd /\ LoopLeft /\ CompleteBody

(* What the assumptions and the types say of one response.                 *)
LEMMA ResponseFacts ==
  ASSUME TypeOK, NEW r \in Request
  PROVE  /\ response[r].header \in Nat /\ response[r].name \in Nat /\ response[r].value \in Nat
         /\ response[r].body \in Nat /\ response[r].records \in SUBSET Nat
         /\ response[r].header <= BUF_SIZE /\ BUF_SIZE \in Nat \ {0}
         /\ Size(response[r]) = response[r].header + response[r].body
         /\ Size(response[r]) \in Nat /\ Size(response[r]) \in response[r].records
BY ResponseAssumption, BoundAssumption DEF TypeOK, Response, Size

LEMMA BufferBounds ==
  ASSUME TypeOK, NEW r \in Request, NEW n \in Nat
  PROVE  /\ InBuffer(tls, response[r], n) \in Nat /\ InBuffer(tls, response[r], n) <= n
         /\ tls => InBuffer(tls, response[r], n) <= BUF_SIZE
         /\ n = Size(response[r]) /\ tls => InBuffer(tls, response[r], n) = Least(n, BUF_SIZE)
<1>1. /\ Readable(r, n) \in Nat /\ Readable(r, n) <= n
      /\ n \in response[r].records => Readable(r, n) = n
  BY ReadableBounds, ResponseFacts
<1>2. Least(Readable(r, n), BUF_SIZE) = IF Readable(r, n) <= BUF_SIZE THEN Readable(r, n) ELSE BUF_SIZE
  BY <1>1, LeastIs, ResponseFacts
<1>3. tls => InBuffer(tls, response[r], n) = Least(Readable(r, n), BUF_SIZE) BY DEF InBuffer, Readable
<1>4. ~tls => InBuffer(tls, response[r], n) = n BY DEF InBuffer
<1> QED BY <1>1, <1>2, <1>3, <1>4, ResponseFacts

LEMMA BodyBounds ==
  ASSUME TypeOK, NEW r \in Request, NEW n \in Nat
  PROVE  /\ BodyIn(response[r], n) = IF n > response[r].header THEN n - response[r].header ELSE 0
         /\ BodyIn(response[r], n) \in Nat /\ BodyIn(response[r], n) <= n
         /\ BodyReceived(r, n) = BodyIn(response[r], n)
         /\ Enough(r, n) <=> Suffices(response[r], n)
<1>1. n - response[r].header \in Int BY ResponseFacts
<1>2. BodyIn(response[r], n) = IF n - response[r].header > 0 THEN n - response[r].header ELSE 0
  BY <1>1, PositivePart DEF BodyIn
<1>3. BodyReceived(r, n) = BodyIn(response[r], n) BY DEF BodyIn, BodyReceived
<1>4. Enough(r, n) <=> Suffices(response[r], n) BY <1>3 DEF Enough, Suffices, LengthKnown
<1> QED BY <1>2, <1>3, <1>4, ResponseFacts

(* What the callback may get of response p: all of a body that is shorter  *)
(* than the buffer with its header, or all that fits, and more.            *)
BodyGiven(p, k) == IF Size(p) < BUF_SIZE THEN k = p.body ELSE k >= BUF_SIZE - p.header

(* Enough or everything: either way the buffer holds the whole body, or    *)
(* the part of it that fits, and only a full one leaves the string open.   *)
LEMMA WholeBody ==
  ASSUME Inv, NEW r \in Request, NEW k \in Strings(r),
         Suffices(response[r], recvLen[r]) \/ received[r] = Size(response[r])
  PROVE  BodyGiven(response[r], k)
<1> DEFINE p == response[r]
<1> DEFINE n == recvLen[r]
<1> DEFINE s == Size(p)
<1> DEFINE b == BodyIn(p, n)
<1>1. /\ p.header \in Nat /\ p.body \in Nat /\ p.header <= BUF_SIZE /\ BUF_SIZE \in Nat
      /\ s = p.header + p.body
  BY ResponseFacts DEF Inv
<1>2. received[r] \in Nat /\ received[r] <= s /\ n = InBuffer(tls, response[r], received[r]) /\ n \in Nat
  BY <1>1 DEF Inv, TypeOK, Counts, Accounted
<1>3. n <= s /\ n <= BUF_SIZE
  <2>1. n <= received[r] /\ (tls => n <= BUF_SIZE) BY <1>2, BufferBounds DEF Inv
  <2>2. ~tls => n = received[r] /\ received[r] <= BUF_SIZE BY <1>2 DEF InBuffer, Inv, Accounted
  <2> QED BY <2>1, <2>2, <1>1, <1>2
<1>4. b = IF n > p.header THEN n - p.header ELSE 0 BY BodyBounds, <1>2 DEF Inv
<1>5. k >= b /\ k \in Nat /\ (n < BUF_SIZE => k = b)
  <2>1. PICK i \in PastEnd(r) : k = BodyReceived(r, n) + i BY DEF Strings
  <2>2. BodyReceived(r, n) = b /\ b \in Nat BY BodyBounds, <1>2 DEF Inv
  <2>3. i \in Nat /\ (n < BUF_SIZE => i = 0) BY BoundAssumption DEF PastEnd
  <2> QED BY <2>1, <2>2, <2>3
<1>6. CASE received[r] = s
  <2>1. Least(s, BUF_SIZE) = IF s <= BUF_SIZE THEN s ELSE BUF_SIZE BY LeastIs, <1>1
  <2>2. n = IF s <= BUF_SIZE THEN s ELSE BUF_SIZE
    <3>1. CASE tls BY <3>1, <2>1, <1>6, <1>1, <1>2, BufferBounds DEF Inv
    <3>2. CASE ~tls BY <3>2, <1>6, <1>1, <1>2, <1>3 DEF InBuffer
    <3> QED BY <3>1, <3>2
  <2>3. IF s < BUF_SIZE THEN k = p.body ELSE k >= BUF_SIZE - p.header
    <3> HIDE DEF p, n, s, b
    <3> QED BY <2>2, <1>1, <1>4, <1>5
  <2> QED BY <2>3 DEF BodyGiven
<1>7. CASE Suffices(p, n)
  <2>1. b >= p.body \/ n > BUF_SIZE - 1 BY <1>7 DEF Suffices
  <2>2. IF s < BUF_SIZE THEN k = p.body ELSE k >= BUF_SIZE - p.header
    <3> HIDE DEF p, n, s, b
    <3> QED BY <2>1, <1>1, <1>2, <1>3, <1>4, <1>5
  <2> QED BY <2>2 DEF BodyGiven
<1> QED BY <1>6, <1>7

LEMMA InitInv == Init => Inv
<1> SUFFICES ASSUME Init PROVE Inv OBVIOUS
<1> USE DEF Init
<1>1. TypeOK
  <2>1. \A r \in Request : Size(response[r]) \in Nat
    BY ResponseAssumption DEF Response, Size
  <2> QED BY <2>1, BoundAssumption, HostAssumption DEF TypeOK
<1>2. Counts BY DEF Counts
<1>3. Resolving /\ ConnectedOK /\ OwnHost /\ ClosedAtEnd /\ LoopLeft /\ CompleteBody
  BY DEF Resolving, ConnectedOK, OwnHost, ClosedAtEnd, LoopLeft, CompleteBody
<1>4. Accounted
  <2> SUFFICES ASSUME NEW r \in Request PROVE InBuffer(tls, response[r], 0) = 0
    BY BoundAssumption DEF Accounted
  <2>1. 0 \in Nat OBVIOUS
  <2>2. InBuffer(tls, response[r], 0) \in Nat /\ InBuffer(tls, response[r], 0) <= 0
    BY ONLY <1>1, <2>1, r \in Request, BufferBounds
  <2> QED BY <2>2
<1> QED BY <1>1, <1>2, <1>3, <1>4 DEF Inv

-----------------------------------------------------------------------------
(* Steps                                                                   *)

(* A step that leaves alone what was received keeps the account of it.     *)
LEMMA AccountKept ==
  ASSUME Inv, UNCHANGED <<fixed, received, recvLen>> PROVE Accounted'
BY DEF Inv, Accounted, fixed

(* A step of the server of q, or of its thread before the receive loop     *)
(* ends, that leaves alone what was received and given.                    *)
LEMMA DataKept ==
  ASSUME Inv, NEW q \in Request, UNCHANGED <<fixed, received, recvLen, given>>,
         pc[q] \notin {"then", "done"}, pc'[q] \notin {"then", "done"},
         \A r \in Request \ {q} : pc'[r] = pc[r] /\ link'[r] = link[r]
  PROVE  LoopLeft' /\ CompleteBody'
<1>1. LoopLeft'
  <2> SUFFICES ASSUME NEW r \in Request, pc'[r] = "then", LinkOK(r)'
               PROVE  Suffices(response[r], recvLen[r]) \/ received[r] = Size(response[r])
    BY DEF LoopLeft, fixed
  <2>1. pc[r] = "then" /\ LinkOK(r) BY DEF LinkOK
  <2> QED BY <2>1 DEF Inv, LoopLeft
<1>2. CompleteBody' BY DEF Inv, CompleteBody, fixed
<1> QED BY <1>1, <1>2

LEMMA ServerSendsInv == ASSUME Inv, NEW q \in Request, ServerSends(q) PROVE Inv'
<1> USE DEF ServerSends, begin, fixed
<1>1. PICK n \in (sent[q] + 1)..Size(response[q]) : sent' = [sent EXCEPT ![q] = n] OBVIOUS
<1>2. sent[q] \in Nat /\ Size(response[q]) \in Nat BY ResponseFacts DEF Inv, Counts
<1>3. n \in Nat /\ n <= Size(response[q]) /\ sent[q] <= n BY <1>1, <1>2
<1>4. sent'[q] = n /\ \A r \in Request \ {q} : sent'[r] = sent[r] BY <1>1 DEF Inv, Counts
<1>5. Counts' BY <1>1, <1>3 DEF Inv, Counts
<1>6. TypeOK'
  <2>1. \A r \in Request : sent'[r] \in 0..Size(response[r]) /\ received[r] \in 0..sent'[r]
    BY <1>3, <1>4 DEF Inv, Counts, TypeOK
  <2> QED BY <2>1 DEF Inv, TypeOK, Size
<1>7. Resolving' /\ ConnectedOK' /\ OwnHost' BY DEF Inv, Resolving, ConnectedOK, OwnHost
<1>8. ClosedAtEnd' BY <1>4 DEF Inv, ClosedAtEnd, Size
<1>9. LoopLeft' /\ CompleteBody' BY DataKept DEF Answering
<1> QED BY <1>5, <1>6, <1>7, <1>8, <1>9, AccountKept DEF Inv

LEMMA ServerEndsInv == ASSUME Inv, NEW q \in Request, ServerCloses(q) \/ ServerResets(q) PROVE Inv'
<1> USE DEF ServerCloses, ServerResets, begin, fixed, data, Answering
<1>1. pc[q] \in {"send", "recv"} /\ \A r \in Request \ {q} : link'[r] = link[r] BY DEF Inv, TypeOK
<1>2. TypeOK' /\ Counts' BY DEF Inv, TypeOK, Counts, Size
<1>3. Resolving' /\ ConnectedOK' /\ OwnHost' BY DEF Inv, Resolving, ConnectedOK, OwnHost
<1>4. ClosedAtEnd' BY DEF Inv, TypeOK, ClosedAtEnd, Size
<1>5. LoopLeft' /\ CompleteBody' BY <1>1, DataKept
<1> QED BY <1>2, <1>3, <1>4, <1>5, AccountKept DEF Inv

(* The steps before the receive loop.                                      *)
LEMMA BeginInv ==
  ASSUME Inv, ended = "no", NEW q \in Request,
         \/ Start(q) \/ Resolve(q) \/ Connect(q) \/ SSLConnect(q) \/ CheckCertificate(q)
         \/ Send(q) \/ Sent(q)
  PROVE  Inv'
<1> USE DEF begin, fixed, data, Goto
<1>1. UNCHANGED <<fixed, data>>
  BY DEF Start, Resolve, Connect, SSLConnect, CheckCertificate, Send, Sent
<1>2. /\ pc[q] \notin {"then", "done"} /\ pc'[q] \notin {"then", "done"}
      /\ \A r \in Request \ {q} : pc'[r] = pc[r] /\ link'[r] = link[r]
  BY DEF Start, Resolve, Connect, SSLConnect, CheckCertificate, Send, Sent, Inv, TypeOK
<1>3. LoopLeft' /\ CompleteBody' BY <1>1, <1>2, DataKept
<1>4. Counts' BY <1>1 DEF Inv, Counts
<1>5. ClosedAtEnd'
  BY <1>1, <1>2 DEF Start, Resolve, Connect, SSLConnect, CheckCertificate, Send, Sent,
                    Inv, TypeOK, ClosedAtEnd, Size
<1>6. Resolving'
  <2> SUFFICES ASSUME ended' = "no", NEW r \in Request, pc'[r] = "connect"
               PROVE  hostent' \in Host /\ (hostent' = HostOf[r] \/ overtaken'[r])
    BY DEF Resolving
  <2>1. CASE Resolve(q)
    <3>1. hostent' = HostOf[q] BY <2>1 DEF Resolve, Resolved
    <3>2. r # q => overtaken'[r] BY <1>2, <2>1 DEF Resolve
    <3> QED BY <3>1, <3>2, HostAssumption
  <2>2. CASE ~Resolve(q)
    <3>1. pc[r] = "connect" /\ UNCHANGED <<hostent, overtaken>>
      BY <2>2 DEF Start, Connect, SSLConnect, CheckCertificate, Send, Sent, Inv, TypeOK
    <3> QED BY <3>1 DEF Inv, Resolving
  <2> QED BY <2>1, <2>2
<1>7. ConnectedOK' /\ OwnHost'
  <2>1. CASE Connect(q)
    <3>1. hostent \in Host /\ (hostent = HostOf[q] \/ overtaken[q])
      BY <2>1 DEF Inv, Resolving, Connect
    <3>2. peer' = [peer EXCEPT ![q] = hostent] /\ UNCHANGED overtaken BY <2>1 DEF Connect
    <3>3. pc'[q] \in {"SSL_connect", "check"} => tls BY <2>1 DEF Connect, Inv, TypeOK
    <3> QED BY <1>1, <1>2, <3>1, <3>2, <3>3, HostAssumption DEF Inv, TypeOK, ConnectedOK, OwnHost
  <2>2. CASE ~Connect(q)
    <3>1. UNCHANGED peer /\ \A r \in Request : overtaken[r] => overtaken'[r]
      BY <2>2 DEF Start, Resolve, SSLConnect, CheckCertificate, Send, Sent, Inv, TypeOK
    <3>2. OwnHost' BY <3>1 DEF Inv, OwnHost
    <3>3. /\ pc'[q] \in {"SSL_connect", "check", "send", "recv", "then", "done"} =>
                pc[q] \in {"SSL_connect", "check", "send", "recv", "then", "done"}
          /\ pc'[q] \in {"SSL_connect", "check"} => pc[q] \in {"SSL_connect", "check"}
      BY <2>2 DEF Start, Resolve, SSLConnect, CheckCertificate, Send, Sent, Inv, TypeOK
    <3>4. ConnectedOK' BY <1>1, <1>2, <3>1, <3>3 DEF Inv, ConnectedOK
    <3> QED BY <3>2, <3>4
  <2> QED BY <2>1, <2>2
<1>8. TypeOK'
  <2>1. \A r \in Request :
          /\ sent'[r] \in 0..Size(response'[r]) /\ received'[r] \in 0..sent'[r]
          /\ recvLen'[r] \in 0..BUF_SIZE /\ given'[r] \in -1..(BUF_SIZE + Beyond)
    BY <1>1 DEF Inv, TypeOK
  <2>2. ended' \in {"no", "exit", "crash", "SIGPIPE"}
    BY DEF Start, Resolve, Connect, SSLConnect, CheckCertificate, Checked, Send, Sent, Inv, TypeOK
  <2>3. hostent' \in Host \cup {NoHost} /\ peer' \in [Request -> Host \cup {NoHost}]
    BY HostAssumption DEF Start, Resolve, Resolved, Connect, SSLConnect, CheckCertificate, Send, Sent, Inv, TypeOK
  <2>4. pc' \in [Request -> {"none", "resolve", "connect", "SSL_connect", "check",
                         "send", "recv", "then", "done"}]
    BY DEF Start, Resolve, Connect, SSLConnect, CheckCertificate, Send, Sent, Inv, TypeOK
  <2>5. overtaken' \in [Request -> BOOLEAN]
    <3>1. overtaken' = overtaken \/ overtaken' = [r \in Request |-> overtaken[r] \/ pc[r] = "connect"]
      BY DEF Start, Resolve, Connect, SSLConnect, CheckCertificate, Send, Sent
    <3>2. overtaken \in [Request -> BOOLEAN] BY DEF Inv, TypeOK
    <3> QED BY ONLY <3>1, <3>2
  <2>7. toSend' \in [Request -> 0..SendCalls]
    BY BoundAssumption DEF Start, Resolve, Connect, SSLConnect, CheckCertificate, Send, Sent, Inv, TypeOK
  <2>6. link' \in [Request -> {"open", "closed", "reset", "broken"}]
    BY DEF Start, Resolve, Connect, SSLConnect, CheckCertificate, Send, Sent, Inv, TypeOK
  <2> QED BY <1>1, <2>1, <2>2, <2>3, <2>4, <2>5, <2>6, <2>7 DEF Inv, TypeOK, Size
<1> QED BY <1>1, <1>3, <1>4, <1>5, <1>6, <1>7, <1>8, AccountKept DEF Inv

(* recv(): what is read goes to the account, and the loop ends with enough.*)
LEMMA ReceiveInv == ASSUME Inv, NEW q \in Request, Receive(q) PROVE Inv'
<1> USE DEF fixed
<1>1. PICK m \in 1..Room(q) :
        LET n == Readable(q, received[q] + m) IN
        /\ received[q] + m <= sent[q]
        /\ received' = [received EXCEPT ![q] = @ + m]
        /\ recvLen' = [recvLen EXCEPT ![q] = IF tls THEN Least(n, BUF_SIZE) ELSE n]
        /\ ended' = IF HalfLength(q, recvLen'[q]) THEN "crash" ELSE ended
        /\ pc' = [pc EXCEPT ![q] = IF Enough(q, recvLen'[q]) THEN "then" ELSE "recv"]
  BY DEF Receive
<1> DEFINE n == received[q] + m
<1> DEFINE len == InBuffer(tls, response[q], n)
<1>2. pc[q] = "recv" /\ UNCHANGED <<fixed, begin, sent, link, given>> BY DEF Receive
<1>3. m \in Nat /\ received[q] \in Nat /\ recvLen[q] \in Nat /\ n \in Nat /\ n <= sent[q] /\ sent[q] \in Nat
  <2>1. Room(q) \in Int BY BoundAssumption DEF Inv, Counts, Room
  <2> QED BY <1>1, <2>1 DEF Inv, Counts
<1>4. ~tls => recvLen[q] = received[q] /\ n <= BUF_SIZE
  BY <1>1, <1>3, BoundAssumption DEF Inv, Accounted, InBuffer, Room
<1>5. len \in 0..BUF_SIZE /\ len \in Nat
  <2>1. len \in Nat /\ (tls => len <= BUF_SIZE) /\ len <= n BY <1>3, BufferBounds DEF Inv
  <2> QED BY <2>1, <1>3, <1>4, BoundAssumption
<1>6. len = IF tls THEN Least(Readable(q, n), BUF_SIZE) ELSE Readable(q, n)
  BY DEF InBuffer, Readable
<1> HIDE DEF n, len
<1>7. received' = [received EXCEPT ![q] = n] /\ recvLen' = [recvLen EXCEPT ![q] = len]
  BY <1>1, <1>6 DEF n
<1>8. received'[q] = n /\ recvLen'[q] = len BY <1>7 DEF Inv, Counts
<1>9. \A r \in Request \ {q} : received'[r] = received[r] /\ recvLen'[r] = recvLen[r] /\ pc'[r] = pc[r]
  BY <1>1, <1>7 DEF Inv, Counts, TypeOK
<1>10. pc'[q] = IF Suffices(response[q], len) THEN "then" ELSE "recv"
  BY <1>1, <1>5, <1>8, BodyBounds DEF Inv, TypeOK
<1>11. Counts' BY <1>2, <1>3, <1>5, <1>7 DEF Inv, Counts
<1>12. TypeOK'
  <2>1. \A r \in Request : received'[r] \in 0..sent[r] /\ recvLen'[r] \in 0..BUF_SIZE
    BY <1>3, <1>5, <1>8, <1>9 DEF Inv, TypeOK
  <2>2. ended' \in {"no", "exit", "crash", "SIGPIPE"} BY <1>1 DEF Inv, TypeOK
  <2>3. pc' \in [Request -> {"none", "resolve", "connect", "SSL_connect", "check",
                         "send", "recv", "then", "done"}]
    BY <1>1 DEF Inv, TypeOK
  <2> QED BY <1>2, <2>1, <2>2, <2>3 DEF Inv, TypeOK, begin, Size
<1>13. Resolving' /\ ConnectedOK' /\ OwnHost'
  <2>1. ended' = "no" => ended = "no" BY <1>1
  <2> QED BY <1>2, <1>9, <1>10, <2>1 DEF Inv, Resolving, ConnectedOK, OwnHost, begin
<1>14. Accounted' BY <1>2, <1>4, <1>8, <1>9 DEF Inv, Accounted, len
<1>15. ClosedAtEnd' BY <1>2 DEF Inv, ClosedAtEnd, Size
<1>16. LoopLeft'
  <2> SUFFICES ASSUME NEW r \in Request, pc'[r] = "then", LinkOK(r)'
               PROVE  Suffices(response[r], recvLen'[r]) \/ received'[r] = Size(response[r])
    BY <1>2 DEF LoopLeft, Size
  <2>1. LinkOK(r) BY <1>2 DEF LinkOK
  <2>2. CASE r = q BY <2>2, <1>8, <1>10
  <2>3. CASE r # q BY <2>1, <2>3, <1>9 DEF Inv, LoopLeft
  <2> QED BY <2>2, <2>3
<1>17. CompleteBody' BY <1>2, <1>9, <1>10 DEF Inv, CompleteBody
<1> QED BY <1>11, <1>12, <1>13, <1>14, <1>15, <1>16, <1>17 DEF Inv

LEMMA ReceiveEndInv == ASSUME Inv, NEW q \in Request, ReceiveEnd(q) PROVE Inv'
<1> USE DEF ReceiveEnd, Goto, fixed, begin, data
<1>1. pc'[q] = "then" /\ \A r \in Request \ {q} : pc'[r] = pc[r] BY DEF Inv, TypeOK
<1>2. TypeOK' BY DEF Inv, TypeOK, Size
<1>3. Counts' BY DEF Inv, Counts
<1>4. Resolving' /\ ConnectedOK' /\ OwnHost' BY <1>1 DEF Inv, Resolving, ConnectedOK, OwnHost
<1>5. ClosedAtEnd' BY DEF Inv, ClosedAtEnd, Size
<1>6. LoopLeft'
  <2> SUFFICES ASSUME NEW r \in Request, pc'[r] = "then", LinkOK(r)
               PROVE  Suffices(response[r], recvLen[r]) \/ received[r] = Size(response[r])
    BY DEF LoopLeft, Size, LinkOK
  <2>1. CASE r = q BY <2>1 DEF EndOfResponse, LinkOK, Inv, ClosedAtEnd
  <2>2. CASE r # q BY <2>2, <1>1 DEF Inv, LoopLeft
  <2> QED BY <2>1, <2>2
<1>7. CompleteBody' BY <1>1 DEF Inv, CompleteBody
<1> QED BY <1>2, <1>3, <1>4, <1>5, <1>6, <1>7, AccountKept DEF Inv

(* The callback                                                            *)
LEMMA ThenInv == ASSUME Inv, NEW q \in Request, Then(q) PROVE Inv'
<1> USE DEF Then, Goto, fixed, begin
<1>1. pc'[q] = "done" /\ \A r \in Request \ {q} : pc'[r] = pc[r] BY DEF Inv, TypeOK
<1>2. PICK k \in Strings(q) :
        /\ given'[q] = k /\ \A r \in Request \ {q} : given'[r] = given[r]
        /\ given' = [given EXCEPT ![q] = k]
  BY DEF Inv, Counts
<1>3. k \in Nat /\ k <= BUF_SIZE + Beyond
  <2>1. PICK i \in PastEnd(q) : k = BodyReceived(q, recvLen[q]) + i BY DEF Strings
  <2>2. recvLen[q] \in Nat /\ recvLen[q] <= BUF_SIZE BY BoundAssumption DEF Inv, Counts, TypeOK
  <2>3. BodyReceived(q, recvLen[q]) \in Nat /\ BodyReceived(q, recvLen[q]) <= recvLen[q]
    BY <2>2, BodyBounds DEF Inv
  <2>4. i \in Nat /\ i <= Beyond BY BoundAssumption DEF PastEnd
  <2> QED BY <2>1, <2>2, <2>3, <2>4, BoundAssumption
<1>4. TypeOK'
  <2>1. \A r \in Request : given'[r] \in -1..(BUF_SIZE + Beyond) BY <1>2, <1>3, BoundAssumption DEF Inv, TypeOK
  <2> QED BY <2>1 DEF Inv, TypeOK, Size
<1>5. Counts' BY <1>2, <1>3 DEF Inv, Counts
<1>6. Resolving' /\ ConnectedOK' /\ OwnHost' BY <1>1 DEF Inv, Resolving, ConnectedOK, OwnHost
<1>7. ClosedAtEnd' BY DEF Inv, ClosedAtEnd, Size
<1>8. LoopLeft' BY <1>1 DEF Inv, LoopLeft, LinkOK, Size
<1>9. CompleteBody'
  <2> SUFFICES ASSUME NEW r \in Request, pc'[r] = "done", link[r] \notin {"reset", "broken"}
               PROVE  BodyGiven(response[r], given'[r])
    BY DEF CompleteBody, BodyGiven, Size
  <2>1. CASE r = q BY <2>1, <1>2, WholeBody DEF Inv, LoopLeft, LinkOK
  <2>2. CASE r # q BY <2>2, <1>1, <1>2 DEF Inv, CompleteBody, BodyGiven
  <2> QED BY <2>1, <2>2
<1> QED BY <1>4, <1>5, <1>6, <1>7, <1>8, <1>9, AccountKept DEF Inv

LEMMA NextInv == Inv /\ [Next]_vars => Inv'
<1> SUFFICES ASSUME Inv, [Next]_vars PROVE Inv' OBVIOUS
<1>1. CASE UNCHANGED vars
  BY <1>1, AccountKept DEF vars, fixed, begin, data, Inv, TypeOK, Counts, Resolving, ConnectedOK, OwnHost,
                           ClosedAtEnd, LoopLeft, LinkOK, CompleteBody, Size
<1>2. ASSUME ended = "no", NEW q \in Request,
             Start(q) \/ ThreadStep(q) \/ ServerSends(q) \/ ServerCloses(q) \/ ServerResets(q)
      PROVE  Inv'
  BY <1>2, BeginInv, ReceiveInv, ReceiveEndInv, ThenInv, ServerSendsInv, ServerEndsInv DEF ThreadStep
<1> QED BY <1>1, <1>2 DEF Next

LEMMA InvHolds == Spec => []Inv
BY InitInv, NextInv, PTL DEF Spec

-----------------------------------------------------------------------------
(* Theorems                                                                *)

(* No buffer is written past its end, and a request talks to its own host  *)
(* or to that of a request that resolved in between (MyHttp.c:60-70, 86,   *)
(* 102).                                                                   *)
THEOREM RequestsOK == Spec => []RequestsConsistent
<1>1. Inv => RequestsConsistent BY DEF Inv, RequestsConsistent
<1> QED BY <1>1, InvHolds, PTL

(* Whatever segments and TLS records the response comes in, the callback   *)
(* gets exactly the body of a response that is shorter than the buffer,    *)
(* and no less of a longer one than fits (MyHttp.c:86-112).                *)
THEOREM BodyComplete == Spec => []CompleteBody
<1>1. Inv => CompleteBody BY DEF Inv
<1> QED BY <1>1, InvHolds, PTL
=============================================================================
