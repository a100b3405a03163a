-------------------------- MODULE HttpsServerProofs --------------------------
(***************************************************************************)
(* Proofs about module HttpsServer: who holds which connection, when SSL   *)
(* objects are used and freed, and what answers clients get, for any       *)
(* clients, requests, workers and buffer size.                             *)
(***************************************************************************)
EXTENDS HttpsServer, SequenceTheorems, WellFoundedInduction, TLAPS

-----------------------------------------------------------------------------
(* Sequences                                                               *)

LEMMA LeastNat ==
  ASSUME NEW T \in SUBSET Nat, T # {}
  PROVE  \E t \in T : \A u \in T : t <= u
<1> DEFINE Less == {p \in Nat \X Nat : p[1] < p[2]}
<1>1. IsWellFoundedOn(Less, Nat) BY NatLessThanWellFounded, Zenon DEF OpToRel
<1>2. PICK t \in T : \A u \in T : <<u, t>> \notin Less
  <2> HIDE DEF Less
  <2> QED BY <1>1, WFMin
<1>3. ASSUME NEW u \in T PROVE t <= u
  <2>1. u \in Nat /\ t \in Nat /\ <<u, t>> \notin Less BY <1>2
  <2> QED BY <2>1
<1> QED BY <1>3

(* The function flatten of FlattenSeq.                                     *)
Flatten(g, seqs, n) == g = [i \in 1..n |-> IF i = 1 THEN seqs[i] ELSE g[i - 1] \o seqs[i]]

LEMMA FlattenExists ==
  ASSUME NEW seqs, NEW n \in Nat
  PROVE  \E g : Flatten(g, seqs, n)
<1> DEFINE T == {k \in Nat : ~ \E g : Flatten(g, seqs, k)}
<1> SUFFICES ASSUME T # {} PROVE FALSE OBVIOUS
<1>1. PICK t \in T : \A u \in T : t <= u BY LeastNat
<1>2. CASE t = 0
  <2> DEFINE g == [i \in 1..0 |-> seqs]
  <2>1. Flatten(g, seqs, 0) BY DEF Flatten
  <2> QED BY <2>1, <1>2
<1>3. CASE t # 0
  <2>1. t - 1 \in Nat /\ t - 1 \notin T BY <1>1, <1>3
  <2>2. PICK g : Flatten(g, seqs, t - 1) BY <2>1
  <2> DEFINE h == [i \in 1..t |-> IF i < t THEN g[i] ELSE IF i = 1 THEN seqs[i] ELSE g[i - 1] \o seqs[i]]
  <2>3. ASSUME NEW i \in 1..t PROVE h[i] = IF i = 1 THEN seqs[i] ELSE h[i - 1] \o seqs[i]
    <3>1. i # 1 => i - 1 \in 1..t /\ i - 1 < t BY <1>3
    <3>2. i # 1 => h[i - 1] = g[i - 1] BY <3>1
    <3>3. CASE i < t
      <4>1. i \in 1..(t - 1) BY <3>3
      <4>2. g[i] = IF i = 1 THEN seqs[i] ELSE g[i - 1] \o seqs[i] BY <2>2, <4>1 DEF Flatten
      <4> QED BY <3>2, <3>3, <4>2
    <3>4. CASE i = t BY <3>2, <3>4
    <3> QED BY <3>3, <3>4
  <2>4. Flatten(h, seqs, t) BY <2>3 DEF Flatten
  <2> QED BY <2>4
<1> QED BY <1>2, <1>3

(* What sequences of elements of S are flattened to is one.                *)
LEMMA FlattenType == ASSUME NEW S, NEW seqs \in Seq(Seq(S)) PROVE FlattenSeq(seqs) \in Seq(S)
<1>1. CASE Len(seqs) = 0 BY <1>1 DEF FlattenSeq
<1>2. CASE Len(seqs) # 0
  <2> DEFINE N == Len(seqs)
             F == CHOOSE g : Flatten(g, seqs, N)
             T == {k \in Nat : k \in 1..N /\ F[k] \notin Seq(S)}
  <2>1. N \in Nat \ {0} BY <1>2
  <2>2. Flatten(F, seqs, N) BY <2>1, FlattenExists
  <2>3. FlattenSeq(seqs) = F[N] BY <1>2 DEF FlattenSeq, Flatten
  <2> HIDE DEF F
  <2>4. T = {}
    <3> SUFFICES ASSUME T # {} PROVE FALSE OBVIOUS
    <3>1. PICK t \in T : \A u \in T : t <= u BY LeastNat
    <3>2. t \in 1..N /\ F[t] \notin Seq(S) OBVIOUS
    <3>3. t # 1 => t - 1 \in 1..N /\ t - 1 \notin T BY <3>1
    <3>4. t # 1 => F[t - 1] \in Seq(S) BY <3>3
    <3>5. F[t] = IF t = 1 THEN seqs[t] ELSE F[t - 1] \o seqs[t] BY <2>2, <3>2 DEF Flatten
    <3>6. seqs[t] \in Seq(S) BY <3>2
    <3> HIDE DEF T, N
    <3> QED BY <3>2, <3>4, <3>5, <3>6
  <2> QED BY <2>1, <2>3, <2>4
<1> QED BY <1>1, <1>2

LEMMA AppendSet ==
  ASSUME NEW S, NEW q \in Seq(S), NEW x \in S
  PROVE  /\ Append(q, x) \in Seq(S) /\ ToSet(Append(q, x)) = ToSet(q) \cup {x}
         /\ x \notin ToSet(q) /\ (\A i, j \in 1..Len(q) : q[i] = q[j] => i = j) =>
              \A i, j \in 1..Len(Append(q, x)) : Append(q, x)[i] = Append(q, x)[j] => i = j
BY DEF ToSet

LEMMA ConcatSet ==
  ASSUME NEW S, NEW q \in Seq(S), NEW r \in Seq(S)
  PROVE  q \o r \in Seq(S) /\ ToSet(q \o r) = ToSet(q) \cup ToSet(r)
<1>1. q \o r \in Seq(S) /\ Len(q \o r) = Len(q) + Len(r) /\ Len(q) \in Nat /\ Len(r) \in Nat OBVIOUS
<1>2. \A i \in 1..Len(q) : (q \o r)[i] = q[i] OBVIOUS
<1>3. \A i \in 1..Len(r) : (q \o r)[Len(q) + i] = r[i] OBVIOUS
<1>4. ASSUME NEW x \in ToSet(q \o r) PROVE x \in ToSet(q) \cup ToSet(r)
  <2>1. PICK i \in 1..(Len(q) + Len(r)) : x = (q \o r)[i] BY <1>1 DEF ToSet
  <2>2. CASE i <= Len(q) BY <1>1, <1>2, <2>1, <2>2 DEF ToSet
  <2>3. CASE i > Len(q)
    <3>1. i - Len(q) \in 1..Len(r) /\ Len(q) + (i - Len(q)) = i BY <1>1, <2>3
    <3>2. x = r[i - Len(q)] BY <1>3, <2>1, <3>1
    <3> QED BY <3>1, <3>2 DEF ToSet
  <2> QED BY <1>1, <2>2, <2>3
<1>5. ASSUME NEW x \in ToSet(q) PROVE x \in ToSet(q \o r)
  <2>1. PICK i \in 1..Len(q) : x = q[i] BY DEF ToSet
  <2>2. i \in 1..Len(q \o r) /\ x = (q \o r)[i] BY <1>1, <1>2, <2>1
  <2> QED BY <1>1, <2>2 DEF ToSet
<1>6. ASSUME NEW x \in ToSet(r) PROVE x \in ToSet(q \o r)
  <2>1. PICK i \in 1..Len(r) : x = r[i] BY DEF ToSet
  <2>2. Len(q) + i \in 1..Len(q \o r) /\ x = (q \o r)[Len(q) + i] BY <1>1, <1>3, <2>1
  <2> QED BY <1>1, <2>2 DEF ToSet
<1> QED BY <1>1, <1>4, <1>5, <1>6

LEMMA HeadTailSet ==
  ASSUME NEW S, NEW q \in Seq(S), q # <<>>, \A i, j \in 1..Len(q) : q[i] = q[j] => i = j
  PROVE  /\ Head(q) \in S /\ Head(q) \in ToSet(q) /\ Tail(q) \in Seq(S)
         /\ ToSet(Tail(q)) = ToSet(q) \ {Head(q)}
         /\ \A i, j \in 1..Len(Tail(q)) : Tail(q)[i] = Tail(q)[j] => i = j
<1>1. /\ Len(q) \in Nat \ {0} /\ Head(q) = q[1] /\ Tail(q) \in Seq(S) /\ Len(Tail(q)) = Len(q) - 1
      /\ \A i \in 1..(Len(q) - 1) : Tail(q)[i] = q[i + 1]
  OBVIOUS
<1>2. Head(q) \in ToSet(q) /\ Head(q) \in S BY <1>1 DEF ToSet
<1>3. ASSUME NEW x \in ToSet(Tail(q)) PROVE x \in ToSet(q) /\ x # Head(q)
  <2>1. PICK i \in 1..(Len(q) - 1) : x = q[i + 1] BY <1>1 DEF ToSet
  <2>2. i + 1 \in 1..Len(q) /\ 1 \in 1..Len(q) /\ i + 1 # 1 BY <1>1
  <2> QED BY <1>1, <2>1, <2>2 DEF ToSet
<1>4. ASSUME NEW x \in ToSet(q), x # Head(q) PROVE x \in ToSet(Tail(q))
  <2>1. PICK i \in 1..Len(q) : x = q[i] BY <1>1 DEF ToSet
  <2>2. i - 1 \in 1..(Len(q) - 1) /\ (i - 1) + 1 = i BY <1>1, <1>4, <2>1
  <2>3. x = Tail(q)[i - 1] /\ i - 1 \in DOMAIN Tail(q) BY <1>1, <2>1, <2>2
  <2> QED BY <2>3 DEF ToSet
<1>5. \A i, j \in 1..Len(Tail(q)) : Tail(q)[i] = Tail(q)[j] => i = j
  <2> TAKE i, j \in 1..Len(Tail(q))
  <2>1. i + 1 \in 1..Len(q) /\ j + 1 \in 1..Len(q) BY <1>1
  <2> QED BY <1>1, <2>1
<1> QED BY <1>1, <1>2, <1>3, <1>4, <1>5

(* A part of a sequence from an index on, or before one.                   *)
LEMMA PartType ==
  ASSUME NEW S, NEW q \in Seq(S), NEW x
  PROVE  /\ SubSeq(q, SelectInSeq(q, LAMBDA u : u = x) + 1, Len(q)) \in Seq(S)
         /\ x \in ToSet(q) => SubSeq(q, 1, SelectInSeq(q, LAMBDA u : u = x) - 1) \in Seq(S)
<1> DEFINE I == {i \in 1..Len(q) : q[i] = x}
<1>1. I # {} => Min(I) \in 1..Len(q)
  <2> SUFFICES ASSUME I # {} PROVE Min(I) \in 1..Len(q) OBVIOUS
  <2>1. I \in SUBSET Nat BY DEF I
  <2>2. \E t \in I : \A u \in I : t <= u
    <3> HIDE DEF I
    <3> QED BY <2>1, LeastNat
  <2>3. Min(I) \in I
    <3> HIDE DEF I
    <3> QED BY <2>2 DEF Min
  <2> QED BY <2>3
<1>2. SelectInSeq(q, LAMBDA u : u = x) = IF I # {} THEN Min(I) ELSE 0 BY DEF SelectInSeq
<1> DEFINE k == SelectInSeq(q, LAMBDA u : u = x)
<1>3. k \in 0..Len(q) /\ (x \in ToSet(q) => k \in 1..Len(q))
  <2>1. x \in ToSet(q) => I # {} BY DEF ToSet
  <2> HIDE DEF I
  <2> QED BY <1>1, <1>2, <2>1
<1> HIDE DEF k
<1>4. SubSeq(q, k + 1, Len(q)) \in Seq(S) BY <1>3
<1>5. x \in ToSet(q) => SubSeq(q, 1, k - 1) \in Seq(S) BY <1>3
<1> QED BY <1>4, <1>5 DEF k

LEMMA SingletonSet ==
  ASSUME NEW S, NEW x \in S
  PROVE  <<x>> \in Seq(S) /\ ToSet(<<x>>) = {x} /\ <<>> \in Seq(S) /\ ToSet(<<>>) = {}
<1>1. Len(<<x>>) = 1 /\ <<x>>[1] = x /\ DOMAIN <<x>> = 1..1 /\ <<x>> \in Seq(S) OBVIOUS
<1>2. DOMAIN <<>> = {} /\ <<>> \in Seq(S) OBVIOUS
<1> QED BY <1>1, <1>2 DEF ToSet

-----------------------------------------------------------------------------
(* The inductive invariant                                                 *)

(* What travels to the server are messages and records of the request.     *)
FragmentOf(c) == {f \in Fragment : f.of = "data" => f.record \in 1..Len(request[c].records)}
FragmentsOK == \A c \in Conn : net[c] \in Seq(FragmentOf(c)) /\ wire[c] \in Seq(FragmentOf(c))

(* A connection that waits is not served yet, one that is not made is      *)
(* nowhere; an idle worker holds none.                                     *)
Waits(c) == c \in ToSet(backlog) \/ c \in interest \/ c \in ToSet(queue)
PlacesOK ==
    /\ \A w \in Worker : wpc[w] = "dequeue" <=> sock[w] = NoConn
    /\ \A i, j \in 1..Len(backlog) : backlog[i] = backlog[j] => i = j
    /\ ToSet(backlog) \cap ToSet(queue) = {}
    /\ Listener \in events => backlog # <<>>
    /\ \A c \in Conn : client[c] = "new" \/ Waits(c) => tls[c].state = "none"
    /\ \A c \in Conn : client[c] = "new" => ~Waits(c) /\ \A w \in Worker : sock[w] # c

(* A worker that is past the answer has answered, no other has; between    *)
(* the two the SSL object is in use.                                       *)
Status == {"200", "400"}
InUse(c) == tls[c].state \in {"hello", "finished", "up"}
FreedIfAnswered(c) == tls[c].state # "none" /\ (tls[c].state = "freed" <=> Answered(c))
LifeAt(w) ==
    /\ wpc[w] \in {"accept", "read", "respond"} => InUse(sock[w]) /\ ~Answered(sock[w])
    /\ wpc[w] \in {"body", "free"} => InUse(sock[w]) /\ Answered(sock[w])
    /\ wpc[w] = "close" => FreedIfAnswered(sock[w])
LifeOK ==
    /\ \A w \in Busy : LifeAt(w)
    /\ \A c \in Conn : ToSet(tls[c].wbio) \cap Status = {}
    /\ \A c \in Conn : tls[c].state = "none" => ~Answered(c)
    /\ \A c \in Conn : tls[c].state # "none" =>
          (\E w \in Worker : sock[w] = c) \/ FreedIfAnswered(c)

Inv == TypeOK /\ FragmentsOK /\ OneOwner /\ PlacesOK /\ LifeOK

LEMMA InitInv == Init => Inv
<1> SUFFICES ASSUME Init PROVE Inv OBVIOUS
<1> USE DEF Init
<1>1. <<>> \in Seq(Conn) /\ <<>> \in Seq(Fragment) /\ <<>> \in Seq(Message) /\ <<>> \in Seq(Unit)
  OBVIOUS
<1>2. TypeOK BY <1>1 DEF TypeOK
<1>3. FragmentsOK
  <2>1. \A c \in Conn : <<>> \in Seq(FragmentOf(c)) OBVIOUS
  <2> QED BY <2>1 DEF FragmentsOK
<1>4. ToSet(<<>>) = {} /\ Len(<<>>) = 0 BY DEF ToSet
<1>5. OneOwner BY <1>4, NameAssumption DEF OneOwner, Busy
<1>6. PlacesOK BY <1>4, NameAssumption DEF PlacesOK, Waits
<1>7. LifeOK
  <2>1. \A c \in Conn : tls[c].state = "none" /\ tls[c].wbio = <<>> /\ ~Answered(c) BY <1>4 DEF Answered
  <2> QED BY <1>4, <2>1 DEF LifeOK, Busy
<1> QED BY <1>2, <1>3, <1>5, <1>6, <1>7 DEF Inv

-----------------------------------------------------------------------------
(* Requests and SSL                                                        *)

LEMMA RequestFacts ==
  ASSUME TypeOK, NEW c \in Conn
  PROVE  /\ request[c].records \in Seq(Seq(Unit)) /\ request[c].parts \in Nat
         /\ request[c].hello \in Nat
<1>1. request[c] \in Request BY RequestAssumption DEF TypeOK
<1> QED BY <1>1 DEF Request

LEMMA FragmentsType ==
  ASSUME NEW c \in Conn, NEW kind \in {"hello", "finished", "data"}, NEW i \in Nat, NEW n \in Nat,
         kind = "data" => i \in 1..Len(request[c].records)
  PROVE  Fragments(kind, i, n) \in Seq(FragmentOf(c))
<1>1. \A j \in 1..n : [of |-> kind, record |-> i, last |-> j = n] \in FragmentOf(c)
  BY DEF FragmentOf, Fragment
<1> HIDE DEF FragmentOf
<1> QED BY <1>1 DEF Fragments

LEMMA RequestFragmentsType ==
  ASSUME TypeOK, NEW c \in Conn
  PROVE  RequestFragments(request[c]) \in Seq(FragmentOf(c))
<1> DEFINE r == request[c]
           S == FragmentOf(c)
<1>1. Len(r.records) \in Nat BY RequestFacts
<1>2. \A i \in 1..Len(r.records) : Fragments("data", i, r.parts) \in Seq(S)
  <2> TAKE i \in 1..Len(r.records)
  <2>1. i \in Nat /\ r.parts \in Nat BY <1>1, RequestFacts
  <2> QED BY <2>1, FragmentsType
<1> HIDE DEF S, r
<1>3. [i \in 1..Len(r.records) |-> Fragments("data", i, r.parts)] \in Seq(Seq(S)) BY <1>1, <1>2
<1>4. FlattenSeq([i \in 1..Len(r.records) |-> Fragments("data", i, r.parts)]) \in Seq(S)
  BY <1>3, FlattenType
<1> QED BY <1>4 DEF RequestFragments, S, r

LEMMA FedType ==
  ASSUME TypeOK, NEW c \in Conn, NEW state, NEW out \in Seq(Message),
         NEW fragments \in Seq(FragmentOf(c))
  PROVE  /\ Fed(request[c], state, out, fragments).state \in {state, "finished", "up"}
         /\ Fed(request[c], state, out, fragments).plain \in Seq(Unit)
         /\ Fed(request[c], state, out, fragments).out \in Seq(Message)
         /\ ToSet(Fed(request[c], state, out, fragments).out) \subseteq ToSet(out) \cup {"flight", "finished"}
<1> DEFINE s == Fed(request[c], state, out, fragments)
           r == request[c]
           plain == [i \in DOMAIN fragments |->
               IF fragments[i].of = "data" /\ fragments[i].last THEN r.records[fragments[i].record] ELSE <<>>]
<1>1. s.state \in {state, "finished", "up"} BY DEF Fed
<1>2. s.plain \in Seq(Unit)
  <2>1. DOMAIN fragments = 1..Len(fragments) /\ Len(fragments) \in Nat OBVIOUS
  <2>2. ASSUME NEW i \in DOMAIN fragments PROVE plain[i] \in Seq(Unit)
    <3>1. fragments[i] \in FragmentOf(c) BY <2>1
    <3>2. fragments[i].of = "data" => fragments[i].record \in 1..Len(r.records)
      BY <3>1 DEF FragmentOf
    <3>3. r.records \in Seq(Seq(Unit)) BY RequestFacts
    <3>4. fragments[i].of = "data" => r.records[fragments[i].record] \in Seq(Unit)
      <4> HIDE DEF r
      <4> QED BY <3>2, <3>3
    <3>5. <<>> \in Seq(Unit) OBVIOUS
    <3> QED BY <3>4, <3>5
  <2>3. plain \in Seq(Seq(Unit))
    <3>1. DOMAIN plain = 1..Len(fragments) BY <2>1
    <3>2. plain = [i \in 1..Len(fragments) |-> plain[i]] BY <2>1
    <3> HIDE DEF plain
    <3> QED BY <2>1, <2>2, <3>1, <3>2
  <2>4. s.plain = FlattenSeq(plain) BY DEF Fed, Plaintext
  <2> HIDE DEF plain, s
  <2> QED BY <2>3, <2>4, FlattenType
<1>3. s.out \in Seq(Message) /\ ToSet(s.out) \subseteq ToSet(out) \cup {"flight", "finished"}
  <2> DEFINE a == IF HasLast("hello", fragments) THEN <<"flight">> ELSE <<>>
             b == IF HasLast("finished", fragments) /\ r.tls = "1.2" THEN <<"finished">> ELSE <<>>
  <2>1. "flight" \in Message /\ "finished" \in Message BY DEF Message
  <2>2. a \in Seq(Message) /\ ToSet(a) \subseteq {"flight", "finished"} BY <2>1, SingletonSet
  <2>3. b \in Seq(Message) /\ ToSet(b) \subseteq {"flight", "finished"} BY <2>1, SingletonSet
  <2>4. s.out = out \o a \o b BY DEF Fed
  <2> HIDE DEF a, b, s
  <2> DEFINE p == out \o a
  <2>5. p \in Seq(Message) /\ ToSet(p) = ToSet(out) \cup ToSet(a) BY <2>2, ConcatSet
  <2> HIDE DEF p
  <2>6. p \o b \in Seq(Message) /\ ToSet(p \o b) = ToSet(p) \cup ToSet(b) BY <2>3, <2>5, ConcatSet
  <2> QED BY <2>2, <2>3, <2>4, <2>5, <2>6 DEF p
<1> QED BY <1>1, <1>2, <1>3

-----------------------------------------------------------------------------
(* What a step leaves alone                                                *)

(* Nobody gets or loses a connection.                                      *)
SamePlaces ==
    /\ UNCHANGED <<backlog, interest, queue, sock>>
    /\ \A w \in Worker : wpc'[w] = "dequeue" <=> wpc[w] = "dequeue"
    /\ \A c \in Conn : client'[c] = "new" <=> client[c] = "new"
    /\ \A c \in Conn : tls'[c].state = "none" <=> tls[c].state = "none"

LEMMA SamePlacesInv ==
  ASSUME Inv, SamePlaces,
         events' \subseteq interest \cup {Listener}, Listener \in events' => backlog # <<>>
  PROVE  OneOwner' /\ PlacesOK'
<1>1. OneOwner /\ PlacesOK BY DEF Inv
<1>2. Busy' = Busy BY DEF SamePlaces, Busy
<1>3. \A c \in Conn : Closed(c)' <=> Closed(c) BY DEF SamePlaces, Closed
<1>4. OneOwner' BY <1>1, <1>2, <1>3 DEF SamePlaces, OneOwner
<1>5. PlacesOK' BY <1>1 DEF SamePlaces, PlacesOK, Waits
<1> QED BY <1>4, <1>5

(* The SSL objects and what was answered are untouched.                    *)
LEMMA SameLife ==
  ASSUME Inv, UNCHANGED <<toClient, tls, wpc, sock>>
  PROVE  LifeOK'
<1>1. \A c \in Conn : Answered(c)' <=> Answered(c) BY DEF Answered
<1>2. Busy' = Busy BY DEF Busy
<1>3. \A w \in Busy : sock[w] \in Conn BY DEF Inv, TypeOK, PlacesOK, Busy
<1>4. \A w \in Busy : LifeAt(w)' <=> LifeAt(w)
  BY <1>1, <1>3 DEF LifeAt, InUse, FreedIfAnswered
<1> QED BY <1>1, <1>2, <1>4 DEF Inv, LifeOK, FreedIfAnswered

(* Worker w works on its connection.                                       *)
WorksOn(w) ==
    /\ wpc[w] # "dequeue" /\ wpc'[w] # "dequeue"
    /\ UNCHANGED sock
    /\ \A x \in Worker \ {w} : wpc'[x] = wpc[x]
    /\ \A c \in Conn \ {sock[w]} : tls'[c] = tls[c] /\ toClient'[c] = toClient[c]

LEMMA WorkerHolds ==
  ASSUME Inv, NEW w \in Worker, wpc[w] # "dequeue"
  PROVE  /\ w \in Busy /\ sock[w] \in Conn /\ LifeAt(w) /\ client[sock[w]] # "new"
         /\ tls[sock[w]].state # "none"
<1>1. sock[w] \in Conn \cup {NoConn} /\ sock[w] # NoConn BY DEF Inv, TypeOK, PlacesOK
<1>2. client[sock[w]] # "new" BY <1>1 DEF Inv, PlacesOK
<1>3. w \in Busy /\ LifeAt(w) BY DEF Inv, LifeOK, Busy
<1>4. wpc[w] \in {"accept", "read", "respond", "body", "free", "close"} BY DEF Inv, TypeOK
<1>5. tls[sock[w]].state # "none" BY <1>3, <1>4 DEF LifeAt, InUse, FreedIfAnswered
<1> QED BY <1>1, <1>2, <1>3, <1>5

LEMMA WorkLife ==
  ASSUME Inv, NEW w \in Worker, WorksOn(w),
         LifeAt(w)', tls'[sock[w]].state # "none", ToSet(tls'[sock[w]].wbio) \cap Status = {}
  PROVE  LifeOK'
<1>1. Busy' = Busy /\ w \in Busy BY DEF Busy, WorksOn
<1>2. ASSUME NEW x \in Busy, x # w PROVE LifeAt(x)'
  <2>1. sock[x] \in Conn \ {sock[w]} /\ LifeAt(x)
    BY <1>1, <1>2, WorkerHolds DEF Inv, OneOwner, Busy
  <2>2. wpc'[x] = wpc[x] /\ sock'[x] = sock[x] BY <1>2 DEF WorksOn, Busy
  <2>3. tls'[sock[x]] = tls[sock[x]] /\ toClient'[sock[x]] = toClient[sock[x]] BY <2>1 DEF WorksOn
  <2> QED BY <2>1, <2>2, <2>3 DEF LifeAt, InUse, FreedIfAnswered, Answered
<1>3. \A c \in Conn : \/ c = sock[w] /\ \E x \in Worker : sock'[x] = c
                      \/ tls'[c] = tls[c] /\ toClient'[c] = toClient[c]
  BY DEF WorksOn
<1>4. \A c \in Conn : ToSet(tls'[c].wbio) \cap Status = {} BY <1>3 DEF Inv, LifeOK
<1>5. \A c \in Conn : tls'[c].state = "none" => ~Answered(c)' BY <1>3 DEF Inv, LifeOK, Answered
<1>6. \A c \in Conn : tls'[c].state # "none" =>
          (\E x \in Worker : sock'[x] = c) \/ FreedIfAnswered(c)'
  BY <1>3 DEF Inv, LifeOK, Answered, FreedIfAnswered, WorksOn
<1> QED BY <1>1, <1>2, <1>4, <1>5, <1>6 DEF LifeOK

-----------------------------------------------------------------------------
(* Clients and network                                                     *)

(* What a client sends is added to what is under way.                      *)
LEMMA SendsType ==
  ASSUME Inv, NEW c \in Conn, NEW state, NEW more \in Seq(FragmentOf(c)),
         Sends(c, state, more), UNCHANGED <<request, wire>>
  PROVE  net' \in [Conn -> Seq(Fragment)] /\ FragmentsOK'
<1>1. \A d \in Conn : net[d] \in Seq(FragmentOf(d)) /\ wire[d] \in Seq(FragmentOf(d))
  BY DEF Inv, FragmentsOK
<1>2. net \in [Conn -> Seq(Fragment)] BY DEF Inv, TypeOK
<1>3. net' = [net EXCEPT ![c] = net[c] \o more] BY DEF Sends
<1>4. \A d \in Conn : FragmentOf(d)' = FragmentOf(d) BY DEF FragmentOf
<1>5. more \in Seq(Fragment) BY DEF FragmentOf
<1>6. FragmentsOK'
  <2>1. net[c] \o more \in Seq(FragmentOf(c)) BY <1>1, ConcatProperties
  <2>2. \A d \in Conn : net'[d] = IF d = c THEN net[c] \o more ELSE net[d] BY <1>2, <1>3
  <2>3. \A d \in Conn : net'[d] \in Seq(FragmentOf(d)) /\ wire'[d] \in Seq(FragmentOf(d))
    BY <1>1, <2>1, <2>2
  <2> QED BY <1>4, <2>3 DEF FragmentsOK
<1>7. net[c] \o more \in Seq(Fragment) BY <1>2, <1>5, ConcatProperties
<1> QED BY <1>2, <1>3, <1>6, <1>7

LEMMA SameFragments == ASSUME Inv, UNCHANGED <<request, net, wire>> PROVE FragmentsOK'
BY DEF Inv, FragmentsOK, FragmentOf

LEMMA ConnectInv == ASSUME Inv, NEW c \in Conn, Connect(c) PROVE Inv'
<1> USE DEF Connect, workerVars
<1>1. Fragments("hello", 1, request[c].hello) \in Seq(FragmentOf(c))
  BY FragmentsType, RequestFacts DEF Inv
<1>2. net' \in [Conn -> Seq(Fragment)] /\ FragmentsOK' BY <1>1, SendsType
<1>3. /\ backlog' \in Seq(Conn) /\ ToSet(backlog') = ToSet(backlog) \cup {c} /\ backlog' # <<>>
      /\ c \notin ToSet(backlog) /\ (\A i, j \in 1..Len(backlog) : backlog[i] = backlog[j] => i = j) =>
           \A i, j \in 1..Len(backlog') : backlog'[i] = backlog'[j] => i = j
  <2>1. backlog \in Seq(Conn) /\ backlog' = Append(backlog, c) BY DEF Inv, TypeOK
  <2>2. Append(backlog, c) # <<>> /\ c \notin ToSet(backlog)
    BY <2>1, AppendProperties DEF Inv, PlacesOK, Waits, Connect
  <2> QED BY <2>1, <2>2, AppendSet
<1>4. client' = [client EXCEPT ![c] = "hello"] /\ client[c] = "new" BY DEF Sends
<1>5. TypeOK' BY <1>2, <1>3, <1>4 DEF Inv, TypeOK
<1>6. ~Waits(c) /\ tls[c].state = "none" /\ \A w \in Worker : sock[w] # c
  BY <1>4 DEF Inv, PlacesOK
<1>7. \A d \in Conn : client'[d] = IF d = c THEN "hello" ELSE client[d] BY <1>4 DEF Inv, TypeOK
<1>8. OneOwner'
  <2>1. \A d \in Conn : Closed(d) => Closed(d)' BY <1>7 DEF Closed
  <2>2. Busy' = Busy BY DEF Busy
  <2>3. \A w \in Busy : sock[w] # c BY <1>6 DEF Busy
  <2> QED BY <1>3, <1>6, <1>7, <2>1, <2>2, <2>3 DEF Inv, OneOwner, Waits
<1>9. PlacesOK' BY <1>3, <1>6, <1>7 DEF Inv, PlacesOK, Waits
<1>10. LifeOK' BY SameLife
<1> QED BY <1>2, <1>5, <1>8, <1>9, <1>10 DEF Inv

LEMMA ClientInv ==
  ASSUME Inv, NEW c \in Conn, ClientSends(c) \/ ClientEnds(c) \/ ResetArrives(c) \/ Arrives(c)
  PROVE  Inv'
<1> USE DEF ClientSends, ClientEnds, ResetArrives, Arrives, mainVars, workerVars, clientVars
<1>1. LifeOK' BY SameLife
<1>2. \/ client' = client
      \/ \E s \in {"finished", "sent", "closed", "reset"} :
            client[c] # "new" /\ client' = [client EXCEPT ![c] = s]
  BY DEF Sends
<1>3. /\ client' \in [Conn -> {"new", "hello", "finished", "sent", "reset"} \cup Gone]
      /\ \A d \in Conn : client'[d] = "new" <=> client[d] = "new"
  <2>1. client \in [Conn -> {"new", "hello", "finished", "sent", "reset"} \cup Gone]
    BY DEF Inv, TypeOK
  <2> QED BY ONLY <1>2, <2>1, c \in Conn DEF Gone
<1>4. OneOwner' /\ PlacesOK'
  <2>1. OneOwner /\ PlacesOK BY DEF Inv
  <2>2. events' = events BY <2>1
  <2>3. SamePlaces BY <1>3 DEF SamePlaces
  <2> QED BY <2>1, <2>2, <2>3, SamePlacesInv DEF OneOwner, PlacesOK
<1>5. /\ net' \in [Conn -> Seq(Fragment)] /\ wire' \in [Conn -> Seq(Fragment)]
      /\ FragmentsOK'
  <2>0. /\ net \in [Conn -> Seq(Fragment)] /\ wire \in [Conn -> Seq(Fragment)]
        /\ \A d \in Conn : net[d] \in Seq(FragmentOf(d)) /\ wire[d] \in Seq(FragmentOf(d))
    BY DEF Inv, TypeOK, FragmentsOK
  <2>1. CASE ClientSends(c)
    <3>1. FinishedFragments \in Seq(FragmentOf(c)) BY FragmentsType DEF FinishedFragments
    <3>2. RequestFragments(request[c]) \in Seq(FragmentOf(c)) BY RequestFragmentsType DEF Inv
    <3>3. FinishedFragments \o RequestFragments(request[c]) \in Seq(FragmentOf(c))
      BY <3>1, <3>2, ConcatProperties
    <3>4. \E state : \E more \in Seq(FragmentOf(c)) : Sends(c, state, more)
      BY <2>1, <3>1, <3>2, <3>3 DEF ClientSends
    <3> QED BY <2>0, <2>1, <3>4, SendsType
  <2>2. CASE ClientEnds(c)
    <3>1. net' = net \/ net' = [net EXCEPT ![c] = <<>>] BY <2>2
    <3>2. \A d \in Conn : net'[d] = net[d] \/ net'[d] = <<>> BY <2>0, <3>1
    <3>3. net' \in [Conn -> Seq(Fragment)]
      <4>1. <<>> \in Seq(Fragment) OBVIOUS
      <4> QED BY <2>0, <3>1, <4>1
    <3> QED BY <2>0, <2>2, <3>2, <3>3 DEF FragmentsOK, FragmentOf
  <2>3. CASE ResetArrives(c) BY <2>0, <2>3, SameFragments
  <2>4. CASE Arrives(c)
    <3>1. /\ Head(net[c]) \in FragmentOf(c) /\ Tail(net[c]) \in Seq(FragmentOf(c))
      BY <2>0, <2>4, HeadTailProperties
    <3>2. Append(wire[c], Head(net[c])) \in Seq(FragmentOf(c)) BY <2>0, <3>1, AppendProperties
    <3>3. Head(net[c]) \in Fragment BY <3>1 DEF FragmentOf
    <3>4. /\ Tail(net[c]) \in Seq(Fragment) /\ Append(wire[c], Head(net[c])) \in Seq(Fragment)
      BY <2>0, <2>4, <3>3, HeadTailProperties, AppendProperties
    <3>5. /\ net' = [net EXCEPT ![c] = Tail(net[c])]
          /\ wire' = [wire EXCEPT ![c] = Append(wire[c], Head(net[c]))]
      BY <2>4
    <3>6. \A d \in Conn : net'[d] \in Seq(FragmentOf(d)) /\ wire'[d] \in Seq(FragmentOf(d))
      BY <2>0, <3>1, <3>2, <3>5
    <3>7. \A d \in Conn : FragmentOf(d)' = FragmentOf(d) BY <2>4 DEF FragmentOf
    <3> QED BY <2>0, <3>4, <3>5, <3>6, <3>7 DEF FragmentsOK
  <2> QED BY <2>1, <2>2, <2>3, <2>4
<1>6. TypeOK' BY <1>3, <1>5 DEF Inv, TypeOK
<1> QED BY <1>1, <1>4, <1>5, <1>6 DEF Inv

-----------------------------------------------------------------------------
(* Main thread, and what a worker takes and gives up                       *)

LEMMA EpollWaitInv == ASSUME Inv, EpollWait PROVE Inv'
<1> USE DEF EpollWait, clientVars, workerVars
<1>1. events' \subseteq interest \cup {Listener} /\ (Listener \in events' => backlog # <<>>)
  <2>1. Listener \notin interest BY NameAssumption DEF Inv, TypeOK
  <2> QED BY <2>1 DEF Ready
<1>2. TypeOK' BY <1>1 DEF Inv, TypeOK
<1>3. SamePlaces BY DEF SamePlaces
<1> QED BY <1>1, <1>2, <1>3, SamePlacesInv, SameLife, SameFragments DEF Inv

LEMMA AcceptInv == ASSUME Inv, Accept PROVE Inv'
<1> USE DEF Accept, clientVars, workerVars
<1> DEFINE c == Head(backlog)
<1>1. /\ c \in Conn /\ c \in ToSet(backlog) /\ backlog' \in Seq(Conn)
      /\ ToSet(backlog') = ToSet(backlog) \ {c}
      /\ \A i, j \in 1..Len(backlog') : backlog'[i] = backlog'[j] => i = j
  BY HeadTailSet DEF Inv, TypeOK, PlacesOK
<1>2. interest' = interest \cup {c} /\ events' = events \ {Listener} OBVIOUS
<1>3. c \notin interest /\ c \notin ToSet(queue) /\ \A w \in Busy : sock[w] # c
  BY <1>1 DEF Inv, OneOwner, PlacesOK
<1> HIDE DEF c
<1>4. TypeOK' BY <1>1, <1>2 DEF Inv, TypeOK
<1>5. \A d \in Conn : Waits(d)' <=> Waits(d) BY <1>1, <1>2 DEF Waits
<1>6. Busy' = Busy /\ \A d \in Conn : Closed(d)' <=> Closed(d) BY DEF Busy, Closed
<1>7. OneOwner' BY <1>1, <1>2, <1>3, <1>5, <1>6 DEF Inv, OneOwner, Waits
<1>8. PlacesOK' BY <1>1, <1>2, <1>5 DEF Inv, PlacesOK
<1> QED BY <1>4, <1>7, <1>8, SameLife, SameFragments DEF Inv

LEMMA HandOffInv == ASSUME Inv, NEW c \in Conn, HandOff(c) PROVE Inv'
<1> USE DEF HandOff, Deregistered, clientVars, workerVars
<1>1. c \in interest BY NameAssumption DEF Inv, OneOwner
<1>2. c \notin ToSet(queue) /\ c \notin ToSet(backlog) BY <1>1 DEF Inv, OneOwner
<1>3. /\ queue' \in Seq(Conn) /\ ToSet(queue') = ToSet(queue) \cup {c}
      /\ \A i, j \in 1..Len(queue') : queue'[i] = queue'[j] => i = j
  <2>1. /\ queue \in Seq(Conn) /\ queue' = Append(queue, c)
        /\ \A i, j \in 1..Len(queue) : queue[i] = queue[j] => i = j
    BY DEF Inv, TypeOK, OneOwner
  <2> QED BY <1>2, <2>1, AppendSet
<1>4. interest' = interest \ {c} /\ events' = events \ {c} OBVIOUS
<1>5. TypeOK' BY <1>3, <1>4 DEF Inv, TypeOK
<1>6. \A d \in Conn : Waits(d)' <=> Waits(d) BY <1>1, <1>3, <1>4 DEF Waits
<1>7. Busy' = Busy /\ \A d \in Conn : Closed(d)' <=> Closed(d) BY DEF Busy, Closed
<1>8. OneOwner' BY <1>1, <1>2, <1>3, <1>4, <1>6, <1>7 DEF Inv, OneOwner, Waits
<1>9. PlacesOK' BY <1>2, <1>3, <1>4, <1>6 DEF Inv, PlacesOK
<1> QED BY <1>5, <1>8, <1>9, SameLife, SameFragments DEF Inv

LEMMA DequeueInv == ASSUME Inv, NEW w \in Worker, Dequeue(w) PROVE Inv'
<1> USE DEF Dequeue, Goto, clientVars
<1> DEFINE c == Head(queue)
<1>1. /\ c \in Conn /\ c \in ToSet(queue) /\ queue' \in Seq(Conn)
      /\ ToSet(queue') = ToSet(queue) \ {c}
      /\ \A i, j \in 1..Len(queue') : queue'[i] = queue'[j] => i = j
  <2>1. /\ queue \in Seq(Conn) /\ queue # <<>> /\ queue' = Tail(queue)
        /\ \A i, j \in 1..Len(queue) : queue[i] = queue[j] => i = j
    BY DEF Inv, TypeOK, OneOwner
  <2> QED BY <2>1, HeadTailSet
<1>2. /\ sock' = [sock EXCEPT ![w] = c] /\ tls' = [tls EXCEPT ![c].state = "hello"]
      /\ wpc[w] = "dequeue" /\ wpc' = [wpc EXCEPT ![w] = "accept"]
  OBVIOUS
<1>3. /\ c \notin interest /\ c \notin ToSet(backlog) /\ \A x \in Busy : sock[x] # c
      /\ tls[c].state = "none" /\ client[c] # "new"
  BY <1>1 DEF Inv, OneOwner, PlacesOK, Waits
<1> HIDE DEF c
<1>4. /\ tls' \in [Conn -> [state : {"none", "hello", "finished", "up", "freed"},
                            bio : {"socket", "memory"}, wbio : Seq(Message)]]
      /\ tls'[c].state = "hello" /\ tls'[c].wbio = tls[c].wbio
      /\ \A d \in Conn \ {c} : tls'[d] = tls[d]
  <2>1. tls \in [Conn -> [state : {"none", "hello", "finished", "up", "freed"},
                            bio : {"socket", "memory"}, wbio : Seq(Message)]]
    BY DEF Inv, TypeOK
  <2> HIDE DEF Dequeue
  <2> QED BY <1>1, <1>2, <2>1
<1>5. TypeOK'
  <2>1. decryptedBuf' \in [Worker -> Seq(Unit)]
    <3>1. <<>> \in Seq(Unit) OBVIOUS
    <3> QED BY <3>1 DEF Inv, TypeOK, ClearedBuf
  <2>2. sock' \in [Worker -> Conn \cup {NoConn}]
    <3>1. sock \in [Worker -> Conn \cup {NoConn}] BY DEF Inv, TypeOK
    <3> QED BY ONLY <1>1, <1>2, <3>1
  <2>3. wpc' \in [Worker -> {"dequeue", "accept", "read", "respond", "body", "free", "close"}]
    BY <1>2 DEF Inv, TypeOK
  <2> QED BY <1>1, <1>4, <2>1, <2>2, <2>3 DEF Inv, TypeOK
<1>6. /\ sock'[w] = c /\ wpc'[w] = "accept"
      /\ \A x \in Worker \ {w} : sock'[x] = sock[x] /\ wpc'[x] = wpc[x]
  BY <1>2 DEF Inv, TypeOK
<1>7. sock[w] = NoConn /\ w \notin Busy /\ Busy' = Busy \cup {w} /\ c # NoConn
  BY <1>1, <1>2, <1>6, NameAssumption DEF Inv, PlacesOK, Busy
<1>8. OneOwner'
  <2>1. \A d \in Conn : client[d] # "new" => Waits(d)' \/ (\E x \in Worker : sock'[x] = d) \/ Closed(d)'
    <3> TAKE d \in Conn
    <3> HAVE client[d] # "new"
    <3>1. CASE d = c BY <1>6, <3>1
    <3>2. CASE d # c
      <4>1. Waits(d)' <=> Waits(d) BY <1>1, <3>2 DEF Waits
      <4>2. (\E x \in Worker : sock[x] = d) <=> (\E x \in Worker : sock'[x] = d)
        BY <1>6, <1>7, <3>2, NameAssumption
      <4>3. tls'[d] = tls[d] /\ client' = client BY <1>4, <3>2
      <4> QED BY <4>1, <4>2, <4>3 DEF Inv, OneOwner, Waits, Closed
    <3> QED BY <3>1, <3>2
  <2>2. \A x, y \in Busy' : sock'[x] = sock'[y] => x = y
    BY <1>3, <1>6, <1>7 DEF Inv, OneOwner, Busy
  <2>3. \A x \in Busy' : sock'[x] \notin interest \cup ToSet(backlog) \cup ToSet(queue')
    BY <1>1, <1>3, <1>6, <1>7 DEF Inv, OneOwner, Busy
  <2> QED BY <1>1, <2>1, <2>2, <2>3 DEF Inv, OneOwner, Waits
<1>9. PlacesOK'
  <2>1. \A d \in Conn : Waits(d)' => Waits(d) /\ d # c BY <1>1, <1>3 DEF Waits
  <2>2. \A x \in Worker : wpc'[x] = "dequeue" <=> sock'[x] = NoConn BY <1>6, <1>7 DEF Inv, PlacesOK
  <2> QED BY <1>1, <1>3, <1>4, <1>6, <2>1, <2>2 DEF Inv, PlacesOK
<1>10. LifeOK'
  <2>1. ~Answered(c) /\ \A d \in Conn : Answered(d)' <=> Answered(d)
    BY <1>1, <1>3 DEF Inv, LifeOK, Answered
  <2>2. \A x \in Busy : sock[x] \in Conn \ {c} BY <1>3, WorkerHolds DEF Busy
  <2>3. \A x \in Busy : LifeAt(x)'
    BY <1>4, <1>6, <1>7, <2>1, <2>2 DEF Inv, LifeOK, LifeAt, InUse, FreedIfAnswered, Busy
  <2>4. LifeAt(w)' BY <1>1, <1>4, <1>6, <2>1 DEF LifeAt, InUse
  <2>5. \A d \in Conn : ToSet(tls'[d].wbio) \cap Status = {} BY <1>4 DEF Inv, LifeOK
  <2>6. \A d \in Conn : tls'[d].state = "none" => ~Answered(d)' BY <1>4, <2>1 DEF Inv, LifeOK
  <2>7. \A d \in Conn : tls'[d].state # "none" =>
            (\E x \in Worker : sock'[x] = d) \/ FreedIfAnswered(d)'
    <3> TAKE d \in Conn
    <3>1. CASE d = c BY <1>6, <3>1
    <3>2. CASE d # c
      <4>1. \A x \in Worker : sock[x] = d => x # w BY <1>7, NameAssumption
      <4> QED BY <1>4, <1>6, <2>1, <3>2, <4>1 DEF Inv, LifeOK, FreedIfAnswered
    <3> QED BY <3>1, <3>2
  <2> QED BY <1>7, <2>3, <2>4, <2>5, <2>6, <2>7 DEF LifeOK
<1> QED BY <1>5, <1>8, <1>9, <1>10, SameFragments DEF Inv

LEMMA CloseSocketInv == ASSUME Inv, NEW w \in Worker, CloseSocket(w) PROVE Inv'
<1> USE DEF CloseSocket, Goto, clientVars, mainVars
<1>1. PICK c \in Conn :
        w \in Busy /\ c = sock[w] /\ client[c] # "new" /\ FreedIfAnswered(c)
  BY WorkerHolds DEF LifeAt
<1>2. /\ sock'[w] = NoConn /\ wpc'[w] = "dequeue"
      /\ \A x \in Worker \ {w} : sock'[x] = sock[x] /\ wpc'[x] = wpc[x]
  BY DEF Inv, TypeOK
<1>3. Busy' = Busy \ {w} BY <1>1, <1>2 DEF Busy
<1>4. TypeOK' BY DEF Inv, TypeOK
<1>5. \A d \in Conn : d # c => ((\E x \in Worker : sock'[x] = d) <=> (\E x \in Worker : sock[x] = d))
  BY <1>1, <1>2, NameAssumption
<1>6. \A x \in Worker : sock[x] = c => x = w
  BY <1>1, NameAssumption DEF Inv, OneOwner, PlacesOK, Busy
<1>7. \A x \in Worker : sock'[x] # c BY <1>1, <1>2, <1>6, NameAssumption
<1>8. OneOwner'
  <2>1. Closed(c)' BY <1>1, <1>7 DEF Closed, FreedIfAnswered
  <2>2. \A d \in Conn : d # c => (Closed(d)' <=> Closed(d)) BY <1>5 DEF Closed
  <2>3. \A x, y \in Busy' : sock'[x] = sock'[y] => x = y BY <1>2, <1>3 DEF Inv, OneOwner, Busy
  <2>4. \A x \in Busy' : sock'[x] \notin interest \cup ToSet(backlog) \cup ToSet(queue)
    BY <1>2, <1>3 DEF Inv, OneOwner, Busy
  <2> QED BY <1>5, <2>1, <2>2, <2>3, <2>4 DEF Inv, OneOwner
<1>9. PlacesOK' BY <1>1, <1>2, NameAssumption DEF Inv, PlacesOK, Waits
<1>10. LifeOK'
  <2>1. \A d \in Conn : Answered(d)' <=> Answered(d) BY DEF Answered
  <2>2. \A x \in Busy' : LifeAt(x)'
    BY <1>2, <1>3, <2>1, WorkerHolds DEF LifeAt, InUse, FreedIfAnswered, Busy
  <2>3. \A d \in Conn : tls[d].state # "none" =>
            (\E x \in Worker : sock'[x] = d) \/ FreedIfAnswered(d)
    BY <1>1, <1>5 DEF Inv, LifeOK
  <2> QED BY <2>1, <2>2, <2>3 DEF Inv, LifeOK, FreedIfAnswered
<1> QED BY <1>4, <1>8, <1>9, <1>10, SameFragments DEF Inv

-----------------------------------------------------------------------------
(* A worker at its connection                                              *)

SslObject == [state : {"none", "hello", "finished", "up", "freed"},
              bio : {"socket", "memory"}, wbio : Seq(Message)]

(* The invariant holds after a step at the connection of w if the parts    *)
(* the step changes are as they should be.                                 *)
LEMMA WorkInv ==
  ASSUME Inv, NEW w \in Worker, WorksOn(w), NEW c \in Conn, c = sock[w], UNCHANGED mainVars,
         \A d \in Conn : client'[d] = "new" <=> client[d] = "new",
         tls'[c].state # "none", ToSet(tls'[c].wbio) \cap Status = {},
         TypeOK', FragmentsOK', LifeAt(w)'
  PROVE  Inv'
<1>1. tls[c].state # "none" BY WorkerHolds DEF WorksOn
<1>2. \A d \in Conn : d # c => tls'[d] = tls[d] BY DEF WorksOn
<1>3. SamePlaces
  <2>1. \A x \in Worker : wpc'[x] = "dequeue" <=> wpc[x] = "dequeue" BY DEF WorksOn
  <2>2. \A d \in Conn : tls'[d].state = "none" <=> tls[d].state = "none" BY <1>1, <1>2
  <2> QED BY <2>1, <2>2 DEF SamePlaces, WorksOn, mainVars
<1>4. OneOwner' /\ PlacesOK'
  <2>1. events' = events BY DEF mainVars
  <2> QED BY <1>3, <2>1, SamePlacesInv DEF Inv, OneOwner, PlacesOK
<1>5. LifeOK' BY WorkLife
<1> QED BY <1>4, <1>5 DEF Inv

(* The type invariant, of what such a step changes.                        *)
Labels == {"dequeue", "accept", "read", "respond", "body", "free", "close"}
ClientStates == {"new", "hello", "finished", "sent", "reset"} \cup Gone

LEMMA WorkType ==
  ASSUME Inv, UNCHANGED <<request, mainVars, sock>>,
         client' \in [Conn -> ClientStates],
         net' \in [Conn -> Seq(Fragment)], wire' \in [Conn -> Seq(Fragment)],
         toClient' \in [Conn -> Seq(Message)], alive' \in BOOLEAN,
         wpc' \in [Worker -> Labels],
         decryptedBuf' \in [Worker -> Seq(Unit)], totalLen' \in [Worker -> Nat],
         tls' \in [Conn -> SslObject]
  PROVE  TypeOK'
BY DEF Inv, TypeOK, SslObject, ClientStates, Labels, mainVars

LEMMA OldType ==
  ASSUME Inv
  PROVE  /\ client \in [Conn -> ClientStates]
         /\ net \in [Conn -> Seq(Fragment)] /\ wire \in [Conn -> Seq(Fragment)]
         /\ toClient \in [Conn -> Seq(Message)] /\ alive \in BOOLEAN
         /\ wpc \in [Worker -> Labels]
         /\ decryptedBuf \in [Worker -> Seq(Unit)] /\ totalLen \in [Worker -> Nat]
         /\ tls \in [Conn -> SslObject] /\ \A c \in Conn : ToSet(tls[c].wbio) \cap Status = {}
BY DEF Inv, TypeOK, LifeOK, SslObject, ClientStates, Labels

LEMMA WireType ==
  ASSUME Inv, NEW c \in Conn, NEW rest \in Seq(FragmentOf(c)),
         wire' = [wire EXCEPT ![c] = rest], UNCHANGED <<request, net>>
  PROVE  wire' \in [Conn -> Seq(Fragment)] /\ FragmentsOK'
<1>1. \A d \in Conn : net[d] \in Seq(FragmentOf(d)) /\ wire[d] \in Seq(FragmentOf(d))
  BY DEF Inv, FragmentsOK
<1>2. wire \in [Conn -> Seq(Fragment)] BY DEF Inv, TypeOK
<1>3. rest \in Seq(Fragment)
  <2>1. FragmentOf(c) \subseteq Fragment BY DEF FragmentOf
  <2> HIDE DEF FragmentOf
  <2> QED BY <2>1
<1>4. \A d \in Conn : FragmentOf(d)' = FragmentOf(d) BY DEF FragmentOf
<1>5. \A d \in Conn : net'[d] \in Seq(FragmentOf(d)) /\ wire'[d] \in Seq(FragmentOf(d))
  BY <1>1, <1>2
<1> QED BY <1>2, <1>3, <1>4, <1>5 DEF FragmentsOK

LEMMA ReportedType ==
  ASSUME Inv, NEW c \in Conn, client' = Reported(c)
  PROVE  /\ client' \in [Conn -> ClientStates]
         /\ \A d \in Conn : client'[d] = "new" <=> client[d] = "new"
BY DEF Inv, TypeOK, Reported, Gone, ClientStates

(* What is sent when something is written.                                 *)
LEMMA WriteAndSendType ==
  ASSUME Inv, NEW w \in Worker, wpc[w] # "dequeue", NEW c \in Conn, c = sock[w],
         NEW s \in Seq(Message), WriteAndSend(c, s)
  PROVE  /\ client' \in [Conn -> ClientStates]
         /\ \A d \in Conn : client'[d] = "new" <=> client[d] = "new"
         /\ toClient' \in [Conn -> Seq(Message)]
         /\ \A d \in Conn \ {c} : toClient'[d] = toClient[d]
         /\ tls' = [tls EXCEPT ![c] = [tls[c] EXCEPT !.wbio = <<>>]]
         /\ Answered(c)' <=> Answered(c) \/ ToSet(s) \cap Status # {}
<1>1. client \in [Conn -> ClientStates]
  BY OldType
<1>2. client' = [client EXCEPT ![c] = CASE client[c] = "closed" -> "answered"
                    [] client[c] = "reset" -> "broken" [] OTHER -> client[c]]
  BY DEF WriteAndSend
<1>3. /\ client' \in [Conn -> ClientStates]
      /\ \A d \in Conn : client'[d] = "new" <=> client[d] = "new"
  BY <1>1, <1>2 DEF Gone, ClientStates
<1>4. toClient[c] \in Seq(Message) /\ tls[c].wbio \in Seq(Message) /\ toClient \in [Conn -> Seq(Message)]
      /\ ToSet(tls[c].wbio) \cap Status = {}
  BY DEF Inv, TypeOK, LifeOK
<1> DEFINE held == toClient[c] \o tls[c].wbio
<1>5. held \in Seq(Message) /\ ToSet(held) = ToSet(toClient[c]) \cup ToSet(tls[c].wbio)
  BY <1>4, ConcatSet
<1> HIDE DEF held
<1>6. held \o s \in Seq(Message) /\ ToSet(held \o s) = ToSet(held) \cup ToSet(s) BY <1>5, ConcatSet
<1>7. toClient' = [toClient EXCEPT ![c] = held \o s] BY DEF WriteAndSend, held
<1>8. /\ toClient' \in [Conn -> Seq(Message)] /\ toClient'[c] = held \o s
      /\ \A d \in Conn \ {c} : toClient'[d] = toClient[d]
  BY <1>4, <1>6, <1>7
<1>9. tls' = [tls EXCEPT ![c] = [tls[c] EXCEPT !.wbio = <<>>]] BY DEF WriteAndSend
<1>10. Answered(c)' <=> Answered(c) \/ ToSet(s) \cap Status # {}
  BY <1>4, <1>5, <1>6, <1>8 DEF Answered, Status
<1> QED BY <1>3, <1>8, <1>9, <1>10

LEMMA ObjectType ==
  ASSUME NEW object \in SslObject, NEW state \in {"none", "hello", "finished", "up", "freed"},
         NEW out \in Seq(Message)
  PROVE  /\ object.state \in {"none", "hello", "finished", "up", "freed"}
         /\ object.wbio \in Seq(Message)
         /\ [object EXCEPT !.bio = "memory"] \in SslObject
         /\ [object EXCEPT !.state = state] \in SslObject
         /\ [object EXCEPT !.wbio = out] \in SslObject
         /\ [object EXCEPT !.state = state, !.wbio = out] \in SslObject
BY DEF SslObject

LEMMA GotoType ==
  ASSUME Inv, NEW w \in Worker, NEW label \in Labels
  PROVE  /\ [wpc EXCEPT ![w] = label] \in [Worker -> Labels]
         /\ [wpc EXCEPT ![w] = label][w] = label
         /\ \A x \in Worker \ {w} : [wpc EXCEPT ![w] = label][x] = wpc[x]
BY DEF Inv, TypeOK, Labels

LEMMA TlsType ==
  ASSUME Inv, NEW c \in Conn, NEW object \in SslObject, tls' = [tls EXCEPT ![c] = object]
  PROVE  /\ tls' \in [Conn -> SslObject] /\ tls'[c] = object
         /\ \A d \in Conn \ {c} : tls'[d] = tls[d]
BY OldType

LEMMA AcceptReadsInv == ASSUME Inv, NEW w \in Worker, AcceptReads(w) PROVE Inv'
<1> USE DEF AcceptReads, clientVars
<1>1. PICK c \in Conn : c = sock[w] /\ tls[c].state \in {"hello", "finished"} /\ ~Answered(c)
  BY WorkerHolds DEF LifeAt, InUse
<1>2. wire[c] \in Seq(FragmentOf(c)) /\ wire[c] # <<>> /\ toClient[c] \in Seq(Message)
  BY <1>1 DEF Inv, TypeOK, FragmentsOK
<1> DEFINE s == Fed(request[c], tls[c].state, <<>>, <<Head(wire[c])>>)
           object == [tls[c] EXCEPT !.state = s.state]
<1>3. /\ tls' = [tls EXCEPT ![c] = object] /\ toClient' = [toClient EXCEPT ![c] = toClient[c] \o s.out]
      /\ wire' = [wire EXCEPT ![c] = Tail(wire[c])]
  BY <1>1
<1>4. /\ s.state \in {"hello", "finished", "up"} /\ s.out \in Seq(Message)
      /\ ToSet(s.out) \cap Status = {}
  <2>1. Head(wire[c]) \in FragmentOf(c) BY <1>2, HeadTailProperties
  <2>2. <<Head(wire[c])>> \in Seq(FragmentOf(c)) BY <2>1
  <2>3. <<>> \in Seq(Message) /\ ToSet(<<>>) = {} BY DEF ToSet
  <2>4. /\ s.state \in {tls[c].state, "finished", "up"} /\ s.out \in Seq(Message)
        /\ ToSet(s.out) \subseteq ToSet(<<>>) \cup {"flight", "finished"}
    BY <2>2, <2>3, FedType DEF Inv
  <2> QED BY <1>1, <2>3, <2>4 DEF Status
<1>5. Tail(wire[c]) \in Seq(FragmentOf(c)) BY <1>2, HeadTailProperties
<1>6. wire' \in [Conn -> Seq(Fragment)] /\ FragmentsOK' BY <1>3, <1>5, WireType
<1> HIDE DEF s, AcceptReads
<1>7. /\ object \in SslObject /\ object.state = s.state /\ object.wbio = tls[c].wbio
      /\ ToSet(object.wbio) \cap Status = {}
  BY <1>4, OldType DEF SslObject
<1> HIDE DEF object
<1>8. tls' \in [Conn -> SslObject] /\ tls'[c] = object /\ \A d \in Conn \ {c} : tls'[d] = tls[d]
  BY <1>3, <1>7, TlsType
<1>9. /\ toClient' \in [Conn -> Seq(Message)] /\ ~Answered(c)'
      /\ \A d \in Conn \ {c} : toClient'[d] = toClient[d]
  <2>1. /\ toClient[c] \o s.out \in Seq(Message)
        /\ ToSet(toClient[c] \o s.out) = ToSet(toClient[c]) \cup ToSet(s.out)
    BY <1>2, <1>4, ConcatSet
  <2>2. toClient \in [Conn -> Seq(Message)] BY OldType
  <2> QED BY <1>1, <1>3, <1>4, <2>1, <2>2 DEF Answered, Status
<1>10. TypeOK' BY <1>6, <1>8, <1>9, OldType, WorkType DEF AcceptReads
<1>11. WorksOn(w) BY <1>1, <1>8, <1>9 DEF WorksOn, AcceptReads
<1>12. LifeAt(w)' BY <1>1, <1>4, <1>7, <1>8, <1>9 DEF LifeAt, InUse, AcceptReads
<1>13. tls'[c].state # "none" BY <1>4, <1>7, <1>8
<1> QED BY <1>1, <1>6, <1>7, <1>8, <1>10, <1>11, <1>12, <1>13, WorkInv DEF AcceptReads

LEMMA AcceptReturnsInv == ASSUME Inv, NEW w \in Worker, AcceptReturns(w) PROVE Inv'
<1> USE DEF AcceptReturns, Goto, clientVars
<1>1. PICK c \in Conn :
        c = sock[w] /\ tls[c].state \in {"hello", "finished", "up"} /\ ~Answered(c)
  BY WorkerHolds DEF LifeAt, InUse
<1> DEFINE object == [tls[c] EXCEPT !.bio = "memory"]
<1>2. tls' = [tls EXCEPT ![c] = object] /\ (client' = client \/ client' = Reported(c)) BY <1>1
<1>3. client' \in [Conn -> ClientStates] /\ \A d \in Conn : client'[d] = "new" <=> client[d] = "new"
  BY <1>2, ReportedType, OldType
<1>4. /\ object \in SslObject /\ object.state = tls[c].state /\ object.wbio = tls[c].wbio
      /\ ToSet(object.wbio) \cap Status = {}
  BY OldType DEF SslObject
<1> HIDE DEF object
<1>5. tls' \in [Conn -> SslObject] /\ tls'[c] = object /\ \A d \in Conn \ {c} : tls'[d] = tls[d]
  BY <1>2, <1>4, TlsType
<1>6. /\ wpc' \in [Worker -> Labels] /\ wpc'[w] = "read"
      /\ \A x \in Worker \ {w} : wpc'[x] = wpc[x]
  BY GotoType DEF Labels
<1>7. TypeOK' BY <1>3, <1>5, <1>6, OldType, WorkType
<1>8. WorksOn(w) BY <1>1, <1>5, <1>6 DEF WorksOn
<1>9. LifeAt(w)' BY <1>1, <1>4, <1>5, <1>6 DEF LifeAt, InUse, Answered
<1>10. FragmentsOK' BY SameFragments
<1> QED BY <1>1, <1>3, <1>4, <1>5, <1>7, <1>8, <1>9, <1>10, WorkInv

LEMMA ReadInv == ASSUME Inv, NEW w \in Worker, Read(w) PROVE Inv'
<1> USE DEF Read, Goto, Decrypted, clientVars
<1>1. PICK c \in Conn :
        c = sock[w] /\ tls[c].state \in {"hello", "finished", "up"} /\ ~Answered(c)
  BY WorkerHolds DEF LifeAt, InUse
<1>2. /\ wire[c] \in Seq(FragmentOf(c)) /\ tls[c].wbio \in Seq(Message)
      /\ decryptedBuf[w] \in Seq(Unit) /\ ToSet(tls[c].wbio) \cap Status = {}
  BY <1>1 DEF Inv, TypeOK, FragmentsOK, LifeOK
<1> DEFINE s == Fed(request[c], tls[c].state, tls[c].wbio, wire[c])
           units == decryptedBuf[w] \o s.plain
           label == IF TooLong(units) THEN "close" ELSE IF Complete(units) THEN "respond" ELSE "read"
           object == [tls[c] EXCEPT !.state = s.state, !.wbio = s.out]
<1>3. /\ tls' = [tls EXCEPT ![c] = object] /\ decryptedBuf' = [decryptedBuf EXCEPT ![w] = units]
      /\ wire' = [wire EXCEPT ![c] = <<>>] /\ wpc' = [wpc EXCEPT ![w] = label]
      /\ alive' \in BOOLEAN
  BY <1>1 DEF NoEmptyLine
<1>4. /\ s.state \in {"hello", "finished", "up"} /\ s.plain \in Seq(Unit)
      /\ s.out \in Seq(Message) /\ ToSet(s.out) \cap Status = {}
  <2>1. /\ s.state \in {tls[c].state, "finished", "up"} /\ s.plain \in Seq(Unit)
        /\ s.out \in Seq(Message)
        /\ ToSet(s.out) \subseteq ToSet(tls[c].wbio) \cup {"flight", "finished"}
    BY <1>2, FedType DEF Inv
  <2> HIDE DEF s
  <2> QED BY <1>1, <1>2, <2>1 DEF Status
<1>5. label \in {"read", "respond", "close"} OBVIOUS
<1> HIDE DEF s, Read
<1>6. units \in Seq(Unit) BY <1>2, <1>4, ConcatProperties
<1> HIDE DEF units, label
<1>7. wire' \in [Conn -> Seq(Fragment)] /\ FragmentsOK'
  <2>1. <<>> \in Seq(FragmentOf(c)) OBVIOUS
  <2> QED BY <1>3, <2>1, WireType DEF Read
<1>8. object \in SslObject /\ object.state = s.state /\ object.wbio = s.out
  BY <1>4, OldType DEF SslObject
<1> HIDE DEF object
<1>9. tls' \in [Conn -> SslObject] /\ tls'[c] = object /\ \A d \in Conn \ {c} : tls'[d] = tls[d]
  BY <1>3, <1>8, TlsType
<1>10. /\ wpc' \in [Worker -> Labels] /\ wpc'[w] = label
       /\ \A x \in Worker \ {w} : wpc'[x] = wpc[x]
  BY <1>3, <1>5, GotoType DEF Labels
<1>11. decryptedBuf' \in [Worker -> Seq(Unit)] BY <1>3, <1>6, OldType
<1>12. TypeOK' BY <1>3, <1>7, <1>9, <1>10, <1>11, OldType, WorkType DEF Read
<1>13. WorksOn(w) BY <1>1, <1>5, <1>9, <1>10 DEF Read, WorksOn
<1>14. LifeAt(w)'
  <2>1. ~Answered(c)' /\ sock' = sock BY <1>1 DEF Read, Answered
  <2> QED BY <1>1, <1>4, <1>5, <1>8, <1>9, <1>10, <2>1 DEF LifeAt, InUse, FreedIfAnswered
<1> QED BY <1>1, <1>4, <1>7, <1>8, <1>9, <1>12, <1>13, <1>14, WorkInv DEF Read

(* Actions that leave SSL and the answer alone.                            *)
LEMMA EndInv == ASSUME Inv, NEW w \in Worker, ReadEnd(w) \/ BodyEnds(w) PROVE Inv'
<1> USE DEF ReadEnd, BodyEnds, Goto, clientVars
<1>1. PICK c \in Conn :
        /\ c = sock[w] /\ tls[c].state \in {"hello", "finished", "up"}
        /\ wpc[w] = "read" => ~Answered(c)
        /\ wpc[w] = "body" => Answered(c)
  BY WorkerHolds DEF LifeAt, InUse
<1>2. \/ client' = Reported(c)
      \/ client' = [client EXCEPT ![c] = IF client[c] = "closed" THEN "answered" ELSE client[c]]
  BY <1>1
<1>3. client' \in [Conn -> ClientStates] /\ \A d \in Conn : client'[d] = "new" <=> client[d] = "new"
  <2>1. client \in [Conn -> ClientStates] BY OldType
  <2> HIDE DEF ReadEnd, BodyEnds
  <2> QED BY <1>2, <2>1, ReportedType DEF ClientStates, Gone
<1>4. \/ wpc[w] = "read" /\ wpc' = [wpc EXCEPT ![w] = "close"]
      \/ wpc[w] = "body" /\ wpc' = wpc
      \/ wpc[w] = "body" /\ wpc' = [wpc EXCEPT ![w] = "free"]
  OBVIOUS
<1>5. UNCHANGED <<request, net, wire, toClient, alive, mainVars, sock, decryptedBuf, totalLen, tls>>
  OBVIOUS
<1> HIDE DEF ReadEnd, BodyEnds
<1>6. /\ wpc' \in [Worker -> Labels] /\ \A x \in Worker \ {w} : wpc'[x] = wpc[x]
      /\ \/ wpc[w] = "read" /\ wpc'[w] = "close"
         \/ wpc[w] = "body" /\ wpc'[w] \in {"body", "free"}
  <2>1. "close" \in Labels /\ "free" \in Labels /\ wpc \in [Worker -> Labels]
    BY OldType DEF Labels
  <2>2. CASE wpc' = wpc BY <1>4, <2>1, <2>2
  <2>3. CASE wpc' = [wpc EXCEPT ![w] = "close"] BY <1>4, <2>1, <2>3
  <2>4. CASE wpc' = [wpc EXCEPT ![w] = "free"] BY <1>4, <2>1, <2>4
  <2> QED BY <1>4, <2>2, <2>3, <2>4
<1>7. TypeOK' BY <1>3, <1>5, <1>6, OldType, WorkType
<1>8. WorksOn(w) BY <1>5, <1>6 DEF WorksOn
<1>9. LifeAt(w)'
  <2>1. Answered(c)' <=> Answered(c) BY <1>5 DEF Answered
  <2> QED BY <1>1, <1>5, <1>6, <2>1 DEF LifeAt, InUse, FreedIfAnswered
<1>10. FragmentsOK' BY <1>5, SameFragments
<1> QED BY <1>1, <1>3, <1>5, <1>7, <1>8, <1>9, <1>10, OldType, WorkInv

(* Actions that send an answer, or more of it.                             *)
LEMMA SendInv ==
  ASSUME Inv, NEW w \in Worker, wpc[w] \in {"respond", "body"}, NEW c \in Conn, c = sock[w],
         NEW s \in Seq(Message), WriteAndSend(c, s),
         wpc[w] = "respond" => ToSet(s) \cap Status # {},
         NEW label \in {"body", "free"}, wpc' = [wpc EXCEPT ![w] = label],
         UNCHANGED <<request, net, alive, mainVars, sock, decryptedBuf>>,
         wire' \in [Conn -> Seq(Fragment)], FragmentsOK', totalLen' \in [Worker -> Nat]
  PROVE  Inv'
<1>1. /\ tls[c].state \in {"hello", "finished", "up"} /\ (wpc[w] = "body" => Answered(c))
  BY WorkerHolds DEF LifeAt, InUse
<1> DEFINE object == [tls[c] EXCEPT !.wbio = <<>>]
<1>2. /\ client' \in [Conn -> ClientStates] /\ \A d \in Conn : client'[d] = "new" <=> client[d] = "new"
      /\ toClient' \in [Conn -> Seq(Message)]
      /\ \A d \in Conn \ {c} : toClient'[d] = toClient[d]
      /\ tls' = [tls EXCEPT ![c] = object]
      /\ Answered(c)'
  BY <1>1, WriteAndSendType
<1>3. object \in SslObject /\ object.state = tls[c].state /\ object.wbio = <<>>
  <2>1. <<>> \in Seq(Message) /\ tls[c] \in SslObject BY OldType
  <2> QED BY ONLY <2>1 DEF SslObject
<1>4. ToSet(<<>>) = {} BY DEF ToSet
<1> HIDE DEF object
<1>5. tls' \in [Conn -> SslObject] /\ tls'[c] = object /\ \A d \in Conn \ {c} : tls'[d] = tls[d]
  BY <1>2, <1>3, TlsType
<1>6. /\ wpc' \in [Worker -> Labels] /\ wpc'[w] = label
      /\ \A x \in Worker \ {w} : wpc'[x] = wpc[x]
  BY GotoType DEF Labels
<1>7. TypeOK' BY <1>2, <1>5, <1>6, OldType, WorkType
<1>8. WorksOn(w) BY <1>2, <1>5, <1>6 DEF WorksOn
<1>9. LifeAt(w)' BY <1>1, <1>2, <1>3, <1>5, <1>6 DEF LifeAt, InUse
<1> QED BY <1>1, <1>2, <1>3, <1>4, <1>5, <1>7, <1>8, <1>9, WorkInv

LEMMA RespondPageInv == ASSUME Inv, NEW w \in Worker, RespondPage(w) PROVE Inv'
<1> USE DEF RespondPage, Goto, clientVars
<1>1. PICK c \in Conn : c = sock[w] BY WorkerHolds
<1> DEFINE s == <<StatusLine(request[c].kind), "page">>
<1>2. s \in Seq(Message) /\ ToSet(s) \cap Status # {}
  <2>1. StatusLine(request[c].kind) \in Message \cap Status /\ "page" \in Message
    BY DEF StatusLine, Message, Status
  <2>2. s[1] = StatusLine(request[c].kind) /\ 1 \in DOMAIN s /\ s \in Seq(Message) BY <2>1
  <2> QED BY <2>1, <2>2 DEF ToSet
<1>3. WriteAndSend(c, s) BY <1>1
<1>4. wire' \in [Conn -> Seq(Fragment)] /\ totalLen' \in [Worker -> Nat] BY OldType
<1> HIDE DEF s
<1> QED BY <1>1, <1>2, <1>3, <1>4, SameFragments, SendInv

LEMMA StrayType ==
  ASSUME NEW units, NEW stray \in PastEnd(units)
  PROVE  stray \in Seq(Message)
<1>1. stray \in {<<>>, <<"stray">>} BY DEF PastEnd
<1>2. "stray" \in Message BY DEF Message
<1>3. <<>> \in Seq(Message) /\ <<"stray">> \in Seq(Message) BY <1>2
<1> QED BY <1>1, <1>3

LEMMA RespondPostInv == ASSUME Inv, NEW w \in Worker, RespondPost(w) PROVE Inv'
<1> USE DEF RespondPost, Goto, clientVars
<1>1. PICK c \in Conn : c = sock[w] BY WorkerHolds
<1> DEFINE body == ReceivedBody(w)
           sent == BeforeZero(body)
           answer == <<StatusLine("post")>> \o sent
           label == IF totalLen'[w] < ContentLength(c) THEN "body" ELSE "free"
<1>2. body \in Seq(Unit) /\ sent \in Seq(Unit)
  <2>1. decryptedBuf[w] \in Seq(Unit) BY OldType
  <2>2. body \in Seq(Unit) BY <2>1, PartType DEF ReceivedBody, AfterEmptyLine, SelectInSeq
  <2> HIDE DEF body
  <2> QED BY <2>2, PartType DEF BeforeZero, SelectInSeq
<1>3. PICK stray \in PastEnd(decryptedBuf[w]) : WriteAndSend(c, answer \o stray) BY <1>1
<1> DEFINE s == answer \o stray
<1>4. /\ wpc' = [wpc EXCEPT ![w] = label] /\ label \in {"body", "free"}
      /\ totalLen' = [totalLen EXCEPT ![w] = Len(body)]
  BY <1>1
<1> HIDE DEF body, sent, label
<1>5. s \in Seq(Message) /\ ToSet(s) \cap Status # {}
  <2>1. StatusLine("post") \in Message \cap Status BY DEF StatusLine, Message, Status
  <2>2. sent \in Seq(Message)
    <3>1. Unit \subseteq Message BY DEF Message
    <3> HIDE DEF RespondPost
    <3> QED BY <1>2, <3>1
  <2>3. <<StatusLine("post")>> \in Seq(Message) /\ ToSet(<<StatusLine("post")>>) = {StatusLine("post")}
    BY <2>1, SingletonSet
  <2>4. answer \in Seq(Message) /\ ToSet(answer) = {StatusLine("post")} \cup ToSet(sent)
    <3> DEFINE first == <<StatusLine("post")>>
    <3>1. answer = first \o sent /\ first \in Seq(Message) /\ ToSet(first) = {StatusLine("post")} BY <2>3
    <3> HIDE DEF first, answer
    <3> QED BY <2>2, <3>1, ConcatSet
  <2>5. stray \in Seq(Message) BY StrayType
  <2> HIDE DEF answer
  <2>6. s \in Seq(Message) /\ ToSet(s) = ToSet(answer) \cup ToSet(stray) BY <2>4, <2>5, ConcatSet
  <2> QED BY <2>1, <2>4, <2>6
<1>6. wire' \in [Conn -> Seq(Fragment)] /\ FragmentsOK' BY OldType, SameFragments
<1>7. totalLen' \in [Worker -> Nat]
  <2>1. Len(body) \in Nat BY <1>2
  <2> QED BY <1>4, <2>1, OldType
<1>8. WriteAndSend(c, s) BY <1>3
<1> HIDE DEF s
<1> QED BY <1>1, <1>4, <1>5, <1>6, <1>7, <1>8, SendInv

LEMMA BodyReadInv == ASSUME Inv, NEW w \in Worker, BodyRead(w) PROVE Inv'
<1> USE DEF BodyRead, Goto, clientVars
<1>1. PICK c \in Conn : c = sock[w] BY WorkerHolds
<1>2. wire[c] \in Seq(FragmentOf(c)) /\ wire \in [Conn -> Seq(Fragment)]
  BY DEF Inv, TypeOK, FragmentsOK
<1>3. PICK n \in 1..Len(wire[c]) :
        /\ \E m \in 0..(n + 1) : WriteAndSend(c, [i \in 1..m |-> "ciphertext"])
        /\ wire' = [wire EXCEPT ![c] = SubSeq(wire[c], n + 1, Len(wire[c]))]
        /\ totalLen' = [totalLen EXCEPT ![w] = totalLen[w] + n]
  BY <1>1
<1>4. PICK m \in 0..(n + 1) : WriteAndSend(c, [i \in 1..m |-> "ciphertext"]) BY <1>3
<1> DEFINE s == [i \in 1..m |-> "ciphertext"]
           label == IF totalLen'[w] < ContentLength(c) THEN "body" ELSE "free"
<1>5. s \in Seq(Message)
  <2>1. m \in Nat /\ "ciphertext" \in Message BY DEF Message
  <2> QED BY <2>1
<1>6. wpc' = [wpc EXCEPT ![w] = label] /\ label \in {"body", "free"} BY <1>1
<1>7. UNCHANGED <<request, net, alive, mainVars, sock, decryptedBuf>> /\ wpc[w] = "body" OBVIOUS
<1> HIDE DEF label, BodyRead, s
<1>8. SubSeq(wire[c], n + 1, Len(wire[c])) \in Seq(FragmentOf(c))
  <2>1. Len(wire[c]) \in Nat /\ n \in Nat BY <1>2
  <2> QED BY <1>2, <2>1
<1>9. wire' \in [Conn -> Seq(Fragment)] /\ FragmentsOK' BY <1>3, <1>7, <1>8, WireType
<1>10. totalLen' \in [Worker -> Nat]
  <2>1. totalLen \in [Worker -> Nat] /\ n \in Nat BY <1>2, OldType
  <2> QED BY <1>3, <2>1
<1> QED BY <1>1, <1>4, <1>5, <1>6, <1>7, <1>9, <1>10, SendInv DEF s

LEMMA FreeRequestInv == ASSUME Inv, NEW w \in Worker, FreeRequest(w) PROVE Inv'
<1> USE DEF FreeRequest, Freed, Goto, clientVars
<1>1. PICK c \in Conn : c = sock[w] /\ Answered(c) BY WorkerHolds DEF LifeAt
<1> DEFINE object == [tls[c] EXCEPT !.state = "freed"]
<1>2. tls' = [tls EXCEPT ![c] = object] BY <1>1
<1>3. /\ object \in SslObject /\ object.state = "freed" /\ object.wbio = tls[c].wbio
      /\ ToSet(object.wbio) \cap Status = {}
  BY OldType DEF SslObject
<1> HIDE DEF object
<1>4. tls' \in [Conn -> SslObject] /\ tls'[c] = object /\ \A d \in Conn \ {c} : tls'[d] = tls[d]
  BY <1>2, <1>3, TlsType
<1>5. /\ wpc' \in [Worker -> Labels] /\ wpc'[w] = "close"
      /\ \A x \in Worker \ {w} : wpc'[x] = wpc[x]
  BY GotoType DEF Labels
<1>6. TypeOK' BY <1>4, <1>5, OldType, WorkType
<1>7. WorksOn(w) BY <1>1, <1>4, <1>5 DEF WorksOn
<1>8. LifeAt(w)' BY <1>1, <1>3, <1>4, <1>5 DEF LifeAt, FreedIfAnswered, Answered
<1>9. FragmentsOK' BY SameFragments
<1> QED BY <1>1, <1>3, <1>4, <1>6, <1>7, <1>8, <1>9, WorkInv

-----------------------------------------------------------------------------
(* Flattened sequences                                                     *)

LEMMA FlattenStep ==
  ASSUME NEW g, NEW seqs, NEW n \in Nat, Flatten(g, seqs, n), NEW i \in 1..n
  PROVE  g[i] = IF i = 1 THEN seqs[i] ELSE g[i - 1] \o seqs[i]
BY DEF Flatten

LEMMA FlattenIs ==
  ASSUME NEW seqs, NEW n \in Nat \ {0}, Len(seqs) = n
  PROVE  \E g : Flatten(g, seqs, n) /\ FlattenSeq(seqs) = g[n]
<1> DEFINE g == CHOOSE h : Flatten(h, seqs, n)
<1>1. Flatten(g, seqs, n) BY FlattenExists
<1>2. FlattenSeq(seqs) = g[n] BY DEF FlattenSeq, Flatten
<1> HIDE DEF g
<1> QED BY <1>1, <1>2

(* Flattening one sequence more adds it at the end.                        *)
LEMMA FlattenAppend ==
  ASSUME NEW S, NEW seqs \in Seq(Seq(S)), NEW x \in Seq(S)
  PROVE  FlattenSeq(Append(seqs, x)) = FlattenSeq(seqs) \o x
<1> DEFINE all == Append(seqs, x)
<1>1. PICK n \in Nat : n = Len(seqs) OBVIOUS
<1>2. Len(all) = n + 1 /\ all[n + 1] = x /\ \A i \in 1..n : all[i] = seqs[i] BY <1>1
<1> HIDE DEF all
<1>3. PICK H : Flatten(H, all, n + 1) /\ FlattenSeq(all) = H[n + 1]
  <2>1. n + 1 \in Nat \ {0} BY <1>1
  <2> QED BY <1>2, <2>1, FlattenIs
<1>4. CASE n = 0
  <2>0. seqs = <<>> BY <1>1, <1>4, EmptySeq
  <2>1. FlattenSeq(seqs) = seqs BY <1>1, <1>4 DEF FlattenSeq
  <2>2. H[1] = all[1]
    <3>1. 1 \in 1..(n + 1) /\ n + 1 \in Nat BY <1>4
    <3> QED BY <1>3, <3>1, FlattenStep
  <2>3. <<>> \o x = x OBVIOUS
  <2> QED BY <1>2, <1>3, <1>4, <2>0, <2>1, <2>2, <2>3 DEF all
<1>5. CASE n # 0
  <2>1. PICK G : Flatten(G, seqs, n) /\ FlattenSeq(seqs) = G[n] BY <1>1, <1>5, FlattenIs
  <2> DEFINE T == {k \in Nat : k \in 1..n /\ H[k] # G[k]}
  <2>2. T = {}
    <3> SUFFICES ASSUME T # {} PROVE FALSE OBVIOUS
    <3>1. PICK t \in T : \A u \in T : t <= u BY LeastNat
    <3>2. t \in 1..n /\ t \in 1..(n + 1) /\ n + 1 \in Nat /\ H[t] # G[t] BY <1>1
    <3>3. t # 1 => t - 1 \in 1..n /\ t - 1 \notin T BY <3>1
    <3>4. t # 1 => H[t - 1] = G[t - 1] BY <3>3
    <3>5. H[t] = IF t = 1 THEN all[t] ELSE H[t - 1] \o all[t] BY <1>3, <3>2, FlattenStep
    <3>6. G[t] = IF t = 1 THEN seqs[t] ELSE G[t - 1] \o seqs[t] BY <2>1, <3>2, FlattenStep
    <3>7. all[t] = seqs[t] BY <1>2, <3>2
    <3> HIDE DEF T
    <3> QED BY <3>2, <3>4, <3>5, <3>6, <3>7
  <2>3. H[n] = G[n]
    <3>1. n \in Nat /\ n \in 1..n /\ n \notin T BY <1>1, <1>5, <2>2
    <3> QED BY <3>1
  <2>4. H[n + 1] = H[n] \o all[n + 1]
    <3>1. n + 1 \in 1..(n + 1) /\ n + 1 \in Nat /\ (n + 1) - 1 = n /\ n + 1 # 1 BY <1>1, <1>5
    <3>2. H[n + 1] = IF n + 1 = 1 THEN all[n + 1] ELSE H[(n + 1) - 1] \o all[n + 1]
      BY <1>3, <3>1, FlattenStep
    <3> QED BY <3>1, <3>2
  <2> QED BY <1>2, <1>3, <2>1, <2>3, <2>4 DEF all
<1> QED BY <1>4, <1>5

(* A sequence that is not empty has a last element and what is before it.  *)
LEMMA FrontLast ==
  ASSUME NEW S, NEW q \in Seq(S), q # <<>>
  PROVE  \E f \in Seq(S) : \E x \in S : q = Append(f, x) /\ Len(f) = Len(q) - 1 /\ x = q[Len(q)]
<1> DEFINE n == Len(q) - 1
           f == [i \in 1..n |-> q[i]]
<1>1. Len(q) \in Nat \ {0} /\ q[Len(q)] \in S OBVIOUS
<1>2. n \in Nat /\ \A i \in 1..n : q[i] \in S BY <1>1
<1> HIDE DEF n
<1>3. f \in Seq(S) /\ Len(f) = n /\ \A i \in 1..n : f[i] = q[i] BY <1>2
<1> USE DEF n
<1> HIDE DEF f
<1>4. Append(f, q[Len(q)]) = q
  <2>1. \A i \in 1..Len(q) : Append(f, q[Len(q)])[i] = q[i] BY <1>1, <1>2, <1>3
  <2> QED BY <1>1, <1>2, <1>3, <2>1
<1> QED BY <1>1, <1>2, <1>3, <1>4

(* Two ways to join three sequences, by a name that can be instantiated.   *)
Grouped(a, b, c) == (a \o b) \o c = a \o (b \o c)

LEMMA GroupedIs ==
  ASSUME NEW S, NEW a \in Seq(S), NEW b \in Seq(S), NEW c \in Seq(S)
  PROVE  Grouped(a, b, c)
BY ConcatAssociative DEF Grouped

LEMMA ConcatAppend ==
  ASSUME NEW S, NEW p \in Seq(S), NEW q \in Seq(S), NEW x \in S
  PROVE  p \o Append(q, x) = Append(p \o q, x) /\ p \o q \in Seq(S)
<1>1. Append(q, x) = q \o <<x>> /\ <<x>> \in Seq(S) /\ p \o q \in Seq(S) BY AppendIsConcat
<1>2. Append(p \o q, x) = (p \o q) \o <<x>> BY <1>1, AppendIsConcat
<1> DEFINE s == <<x>>
<1>3. s \in Seq(S) BY <1>1
<1> HIDE DEF s
<1>4. Grouped(p, q, s) BY <1>3, GroupedIs
<1> QED BY <1>1, <1>2, <1>4 DEF s, Grouped

LEMMA FlattenConcatStep ==
  ASSUME NEW S, NEW s \in Seq(Seq(S)), NEW f \in Seq(Seq(S)), NEW x \in Seq(S),
         FlattenSeq(s \o f) = FlattenSeq(s) \o FlattenSeq(f)
  PROVE  FlattenSeq(s \o Append(f, x)) = FlattenSeq(s) \o FlattenSeq(Append(f, x))
<1> DEFINE R == Seq(S)
<1>1. s \in Seq(R) /\ f \in Seq(R) /\ x \in R OBVIOUS
<1> HIDE DEF R
<1>2. s \o Append(f, x) = Append(s \o f, x) /\ s \o f \in Seq(R) BY <1>1, ConcatAppend
<1>3. FlattenSeq(Append(s \o f, x)) = FlattenSeq(s \o f) \o x BY <1>2, FlattenAppend DEF R
<1>4. FlattenSeq(Append(f, x)) = FlattenSeq(f) \o x BY FlattenAppend
<1>5. FlattenSeq(s) \in Seq(S) /\ FlattenSeq(f) \in Seq(S) BY FlattenType
<1>6. Grouped(FlattenSeq(s), FlattenSeq(f), x) BY <1>5, GroupedIs
<1> QED BY <1>2, <1>3, <1>4, <1>6 DEF Grouped

LEMMA FlattenConcat ==
  ASSUME NEW S, NEW s \in Seq(Seq(S)), NEW t \in Seq(Seq(S))
  PROVE  FlattenSeq(s \o t) = FlattenSeq(s) \o FlattenSeq(t)
<1> DEFINE Bad(k) == \E u \in Seq(Seq(S)) :
                       Len(u) = k /\ FlattenSeq(s \o u) # FlattenSeq(s) \o FlattenSeq(u)
           T == {k \in Nat : Bad(k)}
<1> SUFFICES ASSUME T # {} PROVE FALSE
  <2>1. Len(t) \in Nat OBVIOUS
  <2>2. T = {} => ~Bad(Len(t)) BY <2>1
  <2> QED BY <2>2
<1>1. PICK k \in T : \A j \in T : k <= j BY LeastNat
<1>2. PICK u \in Seq(Seq(S)) : Len(u) = k /\ FlattenSeq(s \o u) # FlattenSeq(s) \o FlattenSeq(u)
  OBVIOUS
<1>3. FlattenSeq(s) \in Seq(S) BY FlattenType
<1>4. CASE u = <<>>
  <2>1. FlattenSeq(<<>>) = <<>> BY DEF FlattenSeq
  <2>2. s \o <<>> = s /\ FlattenSeq(s) \o <<>> = FlattenSeq(s) BY <1>3
  <2> QED BY <1>2, <1>4, <2>1, <2>2
<1>5. CASE u # <<>>
  <2>1. PICK f \in Seq(Seq(S)), x \in Seq(S) : u = Append(f, x) /\ Len(f) = Len(u) - 1
    <3> DEFINE R == Seq(S)
    <3>1. u \in Seq(R) OBVIOUS
    <3> HIDE DEF R
    <3>2. \E f \in Seq(R) : \E x \in R : u = Append(f, x) /\ Len(f) = Len(u) - 1 BY <1>5, <3>1, FrontLast
    <3> QED BY <3>2 DEF R
  <2>2. Len(f) \in Nat /\ Len(f) < k
    <3>1. Len(f) \in Nat /\ k \in Nat OBVIOUS
    <3>2. Len(f) = k - 1 BY <1>2, <2>1
    <3> QED BY ONLY <3>1, <3>2
  <2>3. FlattenSeq(s \o f) = FlattenSeq(s) \o FlattenSeq(f)
    <3>1. Len(f) \notin T
      <4>1. k \in Nat OBVIOUS
      <4> HIDE DEF T
      <4> QED BY <1>1, <2>2, <4>1
    <3> QED BY <2>2, <3>1
  <2> QED BY <1>2, <2>1, <2>3, FlattenConcatStep
<1> QED BY <1>4, <1>5

(* n empty sequences.                                                      *)
Empties(n) == [i \in 1..n |-> <<>>]
LEMMA FlattenEmpties == ASSUME NEW n \in Nat PROVE FlattenSeq(Empties(n)) = <<>>
<1> DEFINE T == {k \in Nat : FlattenSeq(Empties(k)) # <<>>}
<1> SUFFICES ASSUME T # {} PROVE FALSE OBVIOUS
<1>1. PICK k \in T : \A j \in T : k <= j BY LeastNat
<1>2. k \in Nat /\ FlattenSeq(Empties(k)) # <<>> OBVIOUS
<1>3. \A i \in Nat : Empties(i) \in Seq(Seq({})) /\ Len(Empties(i)) = i
  <2>1. <<>> \in Seq({}) OBVIOUS
  <2> QED BY <2>1 DEF Empties
<1>4. CASE k = 0
  <2>1. Len(Empties(0)) = 0 /\ Empties(0) = <<>> BY <1>3
  <2> QED BY <1>2, <1>4, <2>1 DEF FlattenSeq
<1>5. CASE k # 0
  <2>1. k - 1 \in Nat /\ FlattenSeq(Empties(k - 1)) = <<>> BY <1>1, <1>5
  <2>2. <<>> \in Seq({}) OBVIOUS
  <2>3. Empties(k) = Append(Empties(k - 1), <<>>)
    <3>1. \A i \in 1..(k - 1) : Empties(k - 1)[i] = <<>> BY <1>3 DEF Empties
    <3>2. \A i \in 1..k : Empties(k)[i] = <<>> BY DEF Empties
    <3> DEFINE e == Empties(k - 1)
               q == <<>>
    <3>3. e \in Seq(Seq({})) /\ Len(e) = k - 1 /\ (\A i \in 1..(k - 1) : e[i] = q) BY <1>3, <2>1, <3>1
    <3>4. \A i \in 1..k : Empties(k)[i] = q BY <3>2
    <3>5. Empties(k) \in Seq(Seq({})) /\ Len(Empties(k)) = k BY <1>2, <1>3
    <3>6. q \in Seq({}) OBVIOUS
    <3> DEFINE R == Seq({})
    <3> HIDE DEF e, q, R
    <3>7. e \in Seq(R) /\ q \in R /\ Empties(k) \in Seq(R) BY <3>3, <3>5, <3>6 DEF R
    <3>8. Append(e, q) \in Seq(R) /\ Len(Append(e, q)) = k
          /\ \A i \in 1..k : Append(e, q)[i] = q
      BY <1>2, <1>5, <3>3, <3>7, AppendProperties
    <3>9. Empties(k) = Append(e, q) BY ONLY k \in Nat, <3>4, <3>5, <3>7, <3>8
    <3> QED BY <3>9 DEF e, q
  <2>4. Empties(k - 1) \in Seq(Seq({})) BY <1>3, <2>1
  <2>5. FlattenSeq(Empties(k)) = FlattenSeq(Empties(k - 1)) \o <<>> BY <2>2, <2>3, <2>4, FlattenAppend
  <2>6. <<>> \o <<>> = <<>> OBVIOUS
  <2> QED BY <1>2, <2>1, <2>5, <2>6
<1> QED BY <1>4, <1>5

(* The first k elements of a sequence.                                     *)
First(q, k) == [i \in 1..k |-> q[i]]

LEMMA FirstFacts ==
  ASSUME NEW S, NEW q \in Seq(S)
  PROVE  /\ First(q, Len(q)) = q /\ First(q, 0) = <<>>
         /\ \A k \in 0..Len(q) : First(q, k) \in Seq(S)
         /\ \A k \in 1..Len(q) : First(q, k) = Append(First(q, k - 1), q[k])
<1>1. Len(q) \in Nat /\ \A i \in 1..Len(q) : q[i] \in S OBVIOUS
<1>2. First(q, Len(q)) = q BY DEF First
<1>3. ASSUME NEW k \in 0..Len(q)
      PROVE  First(q, k) \in Seq(S) /\ Len(First(q, k)) = k /\ \A i \in 1..k : First(q, k)[i] = q[i]
  <2>1. k \in Nat /\ \A i \in 1..k : q[i] \in S BY <1>1
  <2> QED BY <2>1 DEF First
<1>4. First(q, 0) = <<>> BY <1>1, <1>3, EmptySeq
<1>5. ASSUME NEW k \in 1..Len(q) PROVE First(q, k) = Append(First(q, k - 1), q[k])
  <2>1. k \in 0..Len(q) /\ k - 1 \in 0..Len(q) /\ k \in Nat /\ q[k] \in S BY <1>1
  <2> DEFINE f == First(q, k)
             g == First(q, k - 1)
  <2>2. f \in Seq(S) /\ Len(f) = k /\ \A i \in 1..k : f[i] = q[i] BY <1>3, <2>1
  <2>3. g \in Seq(S) /\ Len(g) = k - 1 /\ \A i \in 1..(k - 1) : g[i] = q[i] BY <1>3, <2>1
  <2> HIDE DEF f, g
  <2>4. Append(g, q[k]) \in Seq(S) /\ Len(Append(g, q[k])) = k
        /\ \A i \in 1..k : Append(g, q[k])[i] = q[i]
    BY ONLY <2>1, <2>3, AppendProperties
  <2>5. f = Append(g, q[k]) BY ONLY <2>2, <2>4
  <2> QED BY <2>5 DEF f, g
<1> QED BY <1>2, <1>3, <1>4, <1>5

-----------------------------------------------------------------------------
(* The plaintext of fragments                                              *)

(* What a fragment adds to the plaintext: its record, if it is the last of it. *)
Piece(r, f) == IF f.of = "data" /\ f.last THEN r.records[f.record] ELSE <<>>
Pieces(r, fragments) == [i \in DOMAIN fragments |-> Piece(r, fragments[i])]

LEMMA PlaintextPieces == \A r, fragments : Plaintext(r, fragments) = FlattenSeq(Pieces(r, fragments))
BY DEF Plaintext, Pieces, Piece

(* Pieces of these fragments are of this type.                             *)
PiecesIn(r, F, S) == \A f \in F : Piece(r, f) \in S

LEMMA PiecesType ==
  ASSUME NEW r, NEW S, NEW F, PiecesIn(r, F, S), NEW a \in Seq(F)
  PROVE  /\ Pieces(r, a) \in Seq(S) /\ Len(Pieces(r, a)) = Len(a)
         /\ \A i \in 1..Len(a) : Pieces(r, a)[i] = Piece(r, a[i])
<1>1. Len(a) \in Nat /\ DOMAIN a = 1..Len(a) /\ \A i \in 1..Len(a) : a[i] \in F OBVIOUS
<1>2. \A i \in 1..Len(a) : Piece(r, a[i]) \in S BY <1>1 DEF PiecesIn
<1> QED BY <1>1, <1>2 DEF Pieces

LEMMA PiecesConcat ==
  ASSUME NEW r, NEW S, NEW F, PiecesIn(r, F, S), NEW a \in Seq(F), NEW b \in Seq(F)
  PROVE  Pieces(r, a \o b) = Pieces(r, a) \o Pieces(r, b)
<1>1. a \o b \in Seq(F) /\ Len(a \o b) = Len(a) + Len(b) /\ Len(a) \in Nat /\ Len(b) \in Nat
  BY ConcatProperties
<1>2. /\ Pieces(r, a) \in Seq(S) /\ Len(Pieces(r, a)) = Len(a)
      /\ \A i \in 1..Len(a) : Pieces(r, a)[i] = Piece(r, a[i])
  BY PiecesType
<1>3. /\ Pieces(r, b) \in Seq(S) /\ Len(Pieces(r, b)) = Len(b)
      /\ \A i \in 1..Len(b) : Pieces(r, b)[i] = Piece(r, b[i])
  BY PiecesType
<1> DEFINE ab == a \o b
<1>4. \A i \in 1..(Len(a) + Len(b)) : ab[i] = IF i <= Len(a) THEN a[i] ELSE b[i - Len(a)]
  BY ConcatProperties
<1>5. ab \in Seq(F) /\ Len(ab) = Len(a) + Len(b) BY <1>1
<1> HIDE DEF ab
<1> DEFINE p == Pieces(r, a)
           q == Pieces(r, b)
           m == Pieces(r, ab)
<1>6. /\ m \in Seq(S) /\ Len(m) = Len(a) + Len(b)
      /\ \A i \in 1..(Len(a) + Len(b)) : m[i] = Piece(r, ab[i])
  BY <1>5, PiecesType
<1>7. p \in Seq(S) /\ q \in Seq(S) /\ Len(p) = Len(a) /\ Len(q) = Len(b) BY <1>2, <1>3
<1>8. \A i \in 1..(Len(a) + Len(b)) : (p \o q)[i] = IF i <= Len(a) THEN p[i] ELSE q[i - Len(a)]
  <2> HIDE DEF p, q
  <2>1. \A i \in 1..(Len(p) + Len(q)) : (p \o q)[i] = IF i <= Len(p) THEN p[i] ELSE q[i - Len(p)]
    BY ONLY <1>7, ConcatProperties
  <2> QED BY ONLY <1>7, <2>1
<1>9. p \o q \in Seq(S) /\ Len(p \o q) = Len(a) + Len(b)
  <2> HIDE DEF p, q
  <2>1. p \o q \in Seq(S) /\ Len(p \o q) = Len(p) + Len(q) BY ONLY <1>7, ConcatProperties
  <2> QED BY ONLY <1>7, <2>1
<1>10. ASSUME NEW i \in 1..(Len(a) + Len(b)) PROVE m[i] = (p \o q)[i]
  <2>1. CASE i <= Len(a)
    <3>1. i \in 1..Len(a) BY <1>1, <2>1
    <3> QED BY <1>2, <1>4, <1>6, <1>8, <2>1, <3>1
  <2>2. CASE i > Len(a)
    <3>1. i - Len(a) \in 1..Len(b) /\ ~(i <= Len(a)) BY <1>1, <2>2
    <3> QED BY <1>3, <1>4, <1>6, <1>8, <3>1
  <2>3. i \in Nat /\ Len(a) \in Nat BY <1>1
  <2>4. i <= Len(a) \/ i > Len(a) BY ONLY <2>3
  <2> QED BY <2>1, <2>2, <2>4
<1>11. m = p \o q
  <2> HIDE DEF m, p, q
  <2> QED BY <1>6, <1>9, <1>10, SeqEqual
<1> QED BY <1>11 DEF ab

LEMMA PlainConcat ==
  ASSUME NEW r, NEW S, NEW F, PiecesIn(r, F, Seq(S)), NEW a \in Seq(F), NEW b \in Seq(F)
  PROVE  /\ Plaintext(r, a \o b) = Plaintext(r, a) \o Plaintext(r, b)
         /\ Plaintext(r, a) \in Seq(S)
<1>1. Pieces(r, a) \in Seq(Seq(S)) /\ Pieces(r, b) \in Seq(Seq(S)) BY PiecesType
<1>2. Pieces(r, a \o b) = Pieces(r, a) \o Pieces(r, b) BY PiecesConcat
<1>3. FlattenSeq(Pieces(r, a) \o Pieces(r, b)) = FlattenSeq(Pieces(r, a)) \o FlattenSeq(Pieces(r, b))
  BY <1>1, FlattenConcat
<1>4. FlattenSeq(Pieces(r, a)) \in Seq(S) BY <1>1, FlattenType
<1> QED BY <1>2, <1>3, <1>4, PlaintextPieces

LEMMA PlainOne ==
  ASSUME NEW r, NEW S, NEW f, Piece(r, f) \in Seq(S)
  PROVE  Plaintext(r, <<f>>) = Piece(r, f)
<1>1. Pieces(r, <<f>>) = <<Piece(r, f)>> BY DEF Pieces
<1>2. <<Piece(r, f)>> = Append(<<>>, Piece(r, f)) /\ <<>> \in Seq(Seq(S)) OBVIOUS
<1>3. FlattenSeq(<<>>) = <<>> BY DEF FlattenSeq
<1>4. FlattenSeq(Append(<<>>, Piece(r, f))) = FlattenSeq(<<>>) \o Piece(r, f) BY <1>2, FlattenAppend
<1>5. <<>> \o Piece(r, f) = Piece(r, f) OBVIOUS
<1> QED BY <1>1, <1>2, <1>3, <1>4, <1>5, PlaintextPieces

(* Messages of the handshake and parts of records have none.               *)
LEMMA PlainNone ==
  ASSUME NEW r, NEW n \in Nat, NEW a, DOMAIN a = 1..n, \A i \in 1..n : Piece(r, a[i]) = <<>>
  PROVE  Plaintext(r, a) = <<>>
<1>1. Pieces(r, a) = Empties(n) BY DEF Pieces, Empties
<1> QED BY <1>1, FlattenEmpties, PlaintextPieces

LEMMA PlainEmpty == ASSUME NEW r PROVE Plaintext(r, <<>>) = <<>>
<1> DEFINE a == <<>>
<1>1. DOMAIN a = 1..0 /\ 0 \in Nat /\ \A i \in 1..0 : Piece(r, a[i]) = <<>> OBVIOUS
<1> HIDE DEF a
<1>2. Plaintext(r, a) = <<>> BY <1>1, PlainNone
<1> QED BY <1>2 DEF a

LEMMA PlainHandshake ==
  ASSUME NEW r, NEW kind \in {"hello", "finished"}, NEW i, NEW n \in Nat
  PROVE  Plaintext(r, Fragments(kind, i, n)) = <<>>
<1>1. DOMAIN Fragments(kind, i, n) = 1..n BY DEF Fragments
<1>2. \A j \in 1..n : Piece(r, Fragments(kind, i, n)[j]) = <<>> BY DEF Fragments, Piece
<1> QED BY <1>1, <1>2, PlainNone

(* All fragments of a record have its plaintext, which is the last one's.  *)
Final(i) == [of |-> "data", record |-> i, last |-> TRUE]
Parts(i, n) == [j \in 1..(n - 1) |-> [of |-> "data", record |-> i, last |-> FALSE]]

LEMMA PlainRecord ==
  ASSUME NEW r, NEW S, NEW F, PiecesIn(r, F, Seq(S)),
         NEW i, NEW n \in Nat \ {0}, \A last \in BOOLEAN : [of |-> "data", record |-> i, last |-> last] \in F
  PROVE  /\ Fragments("data", i, n) = Append(Parts(i, n), Final(i))
         /\ Parts(i, n) \in Seq(F) /\ Final(i) \in F /\ Fragments("data", i, n) \in Seq(F)
         /\ Plaintext(r, Fragments("data", i, n)) = r.records[i]
         /\ Piece(r, Final(i)) = r.records[i]
<1> DEFINE a == Parts(i, n)
           f == Final(i)
           all == Fragments("data", i, n)
<1>1. n - 1 \in Nat /\ f \in F /\ Piece(r, f) = r.records[i]
  <2>1. TRUE \in BOOLEAN /\ n - 1 \in Nat OBVIOUS
  <2> QED BY <2>1 DEF Final, Piece
<1>2. a \in Seq(F) /\ Len(a) = n - 1 /\ DOMAIN a = 1..(n - 1)
  <2>1. [of |-> "data", record |-> i, last |-> FALSE] \in F
    <3>1. FALSE \in BOOLEAN OBVIOUS
    <3> QED BY <3>1
  <2> QED BY <1>1, <2>1 DEF Parts
<1>3. Plaintext(r, a) = <<>>
  <2>1. \A j \in 1..(n - 1) : Piece(r, a[j]) = <<>> BY DEF Parts, Piece
  <2> QED BY <1>1, <1>2, <2>1, PlainNone
<1>4. \A j \in 1..n : all[j] = IF j = n THEN f ELSE a[j]
  <2> TAKE j \in 1..n
  <2>1. j # n => j \in 1..(n - 1) OBVIOUS
  <2>2. all[j] = [of |-> "data", record |-> i, last |-> (j = n)] BY DEF Fragments
  <2> QED BY <2>1, <2>2 DEF Final, Parts
<1>5. all \in Seq(F) /\ Len(all) = n
  <2>1. \A j \in 1..n : [of |-> "data", record |-> i, last |-> (j = n)] \in F
    <3> TAKE j \in 1..n
    <3>1. (j = n) \in BOOLEAN OBVIOUS
    <3> QED BY <3>1
  <2> QED BY <2>1 DEF Fragments
<1> HIDE DEF a, f, all
<1>6. all = Append(a, f)
  <2>1. Append(a, f) \in Seq(F) /\ Len(Append(a, f)) = n
        /\ \A j \in 1..n : Append(a, f)[j] = IF j = n THEN f ELSE a[j]
    BY <1>1, <1>2, AppendProperties
  <2> QED BY ONLY <1>4, <1>5, <2>1, SeqEqual
<1>7. all = a \o <<f>> /\ <<f>> \in Seq(F) BY <1>1, <1>2, <1>6, AppendIsConcat
<1>8. Plaintext(r, all) = Plaintext(r, a) \o Plaintext(r, <<f>>)
  <2> DEFINE g == <<f>>
  <2>1. g \in Seq(F) /\ all = a \o g BY <1>7
  <2> HIDE DEF g
  <2>2. Plaintext(r, a \o g) = Plaintext(r, a) \o Plaintext(r, g) BY <1>2, <2>1, PlainConcat
  <2> QED BY <2>1, <2>2 DEF g
<1>9. Plaintext(r, <<f>>) = Piece(r, f)
  <2>1. Piece(r, f) \in Seq(S) BY <1>1 DEF PiecesIn
  <2> QED BY <2>1, PlainOne
<1>10. Plaintext(r, all) = r.records[i]
  <2>1. Piece(r, f) \in Seq(S) BY <1>1 DEF PiecesIn
  <2> QED BY <1>1, <1>3, <1>8, <1>9, <2>1
<1> QED BY <1>1, <1>2, <1>5, <1>6, <1>10 DEF a, f, all

-----------------------------------------------------------------------------
(* What a request is                                                       *)

(* The plaintext of a request, and what its client has not sent yet.       *)
Whole(c) == FlattenSeq(request[c].records)
Hello(c) == Fragments("hello", 1, request[c].hello)
Flow(c) == RequestFragments(request[c])
Full(c) == Hello(c) \o (FinishedFragments \o Flow(c))

LEMMA RequestIs ==
  ASSUME TypeOK, NEW c \in Conn
  PROVE  /\ request[c].records \in Seq(Seq(Unit)) /\ request[c].records # <<>>
         /\ request[c].parts \in Nat \ {0} /\ request[c].hello \in Nat \ {0}
         /\ Whole(c) \in Seq(Unit)
         /\ \E i \in 1..Len(Whole(c)) : \A j \in 1..Len(Whole(c)) : Whole(c)[j] = "end" <=> j = i
<1>1. request[c] \in Request BY RequestAssumption DEF TypeOK
<1>2. \E i \in 1..Len(Whole(c)) : \A j \in 1..Len(Whole(c)) : Whole(c)[j] = "end" <=> j = i
  BY RequestAssumption DEF TypeOK, Whole
<1>3. /\ request[c].records \in Seq(Seq(Unit)) /\ request[c].parts \in Nat \ {0}
      /\ request[c].hello \in Nat \ {0}
  BY <1>1 DEF Request
<1>4. Whole(c) \in Seq(Unit) BY <1>3, FlattenType DEF Whole
<1>5. request[c].records # <<>>
  <2> SUFFICES ASSUME request[c].records = <<>> PROVE FALSE OBVIOUS
  <2>1. FlattenSeq(<<>>) = <<>> BY DEF FlattenSeq
  <2>2. Len(Whole(c)) = 0 BY <2>1 DEF Whole
  <2> QED BY <1>2, <2>2
<1> QED BY <1>2, <1>3, <1>4, <1>5

LEMMA PiecesUnit ==
  ASSUME TypeOK, NEW c \in Conn
  PROVE  PiecesIn(request[c], FragmentOf(c), Seq(Unit))
<1>1. request[c].records \in Seq(Seq(Unit)) BY RequestIs
<1>2. ASSUME NEW f \in FragmentOf(c) PROVE Piece(request[c], f) \in Seq(Unit)
  <2>1. f.of = "data" => f.record \in 1..Len(request[c].records) BY DEF FragmentOf
  <2>2. f.of = "data" => request[c].records[f.record] \in Seq(Unit) BY <1>1, <2>1
  <2>3. <<>> \in Seq(Unit) OBVIOUS
  <2> QED BY <2>2, <2>3 DEF Piece
<1> QED BY <1>2 DEF PiecesIn

LEMMA RecordPlain ==
  ASSUME TypeOK, NEW c \in Conn, NEW i \in 1..Len(request[c].records)
  PROVE  /\ Fragments("data", i, request[c].parts) = Append(Parts(i, request[c].parts), Final(i))
         /\ Parts(i, request[c].parts) \in Seq(FragmentOf(c)) /\ Final(i) \in FragmentOf(c)
         /\ Fragments("data", i, request[c].parts) \in Seq(FragmentOf(c))
         /\ Plaintext(request[c], Fragments("data", i, request[c].parts)) = request[c].records[i]
         /\ Piece(request[c], Final(i)) = request[c].records[i]
<1>1. \A last \in BOOLEAN : [of |-> "data", record |-> i, last |-> last] \in FragmentOf(c)
  <2>1. Len(request[c].records) \in Nat /\ i \in Nat BY RequestIs
  <2> QED BY <2>1 DEF FragmentOf, Fragment
<1> DEFINE F == FragmentOf(c)
           r == request[c]
           n == request[c].parts
<1>2. n \in Nat \ {0} /\ PiecesIn(r, F, Seq(Unit)) BY RequestIs, PiecesUnit
<1>3. \A last \in BOOLEAN : [of |-> "data", record |-> i, last |-> last] \in F BY <1>1
<1> HIDE DEF F, r, n
<1>4. /\ Fragments("data", i, n) = Append(Parts(i, n), Final(i))
      /\ Parts(i, n) \in Seq(F) /\ Final(i) \in F
      /\ Fragments("data", i, n) \in Seq(F)
      /\ Plaintext(r, Fragments("data", i, n)) = r.records[i]
      /\ Piece(r, Final(i)) = r.records[i]
  BY <1>2, <1>3, PlainRecord
<1> QED BY <1>4 DEF F, r, n

LEMMA FlowPlain ==
  ASSUME TypeOK, NEW c \in Conn
  PROVE  /\ Flow(c) \in Seq(FragmentOf(c)) /\ Plaintext(request[c], Flow(c)) = Whole(c)
         /\ \E f \in Seq(FragmentOf(c)) : Flow(c) = Append(f, Final(Len(request[c].records)))
<1> DEFINE r == request[c]
           F == FragmentOf(c)
           records == request[c].records
           N == Len(records)
           all == [i \in 1..N |-> Fragments("data", i, r.parts)]
<1>1. records \in Seq(Seq(Unit)) /\ N \in Nat \ {0} BY RequestIs
<1>2. PiecesIn(r, F, Seq(Unit)) BY PiecesUnit
<1>3. \A i \in 1..N : /\ all[i] \in Seq(F) /\ Plaintext(r, all[i]) = records[i]
                      /\ all[i] = Append(Parts(i, r.parts), Final(i))
                      /\ Parts(i, r.parts) \in Seq(F) /\ Final(i) \in F
  BY RecordPlain
<1>4. all \in Seq(Seq(F)) /\ Len(all) = N
  <2> DEFINE R == Seq(F)
  <2>1. N \in Nat /\ \A i \in 1..N : all[i] \in R BY <1>1, <1>3
  <2>2. all = [i \in 1..N |-> all[i]] OBVIOUS
  <2> HIDE DEF R, N, all
  <2> QED BY <2>1, <2>2 DEF R
<1>5. Flow(c) = FlattenSeq(all) BY DEF Flow, RequestFragments
<1>6. Whole(c) = FlattenSeq(records) BY DEF Whole
<1> HIDE DEF F, r, records, all, N
<1>7. /\ \A k \in 0..N : First(all, k) \in Seq(Seq(F)) /\ First(records, k) \in Seq(Seq(Unit))
      /\ \A k \in 1..N : /\ First(all, k) = Append(First(all, k - 1), all[k])
                         /\ First(records, k) = Append(First(records, k - 1), records[k])
      /\ First(all, 0) = <<>> /\ First(records, 0) = <<>>
      /\ First(all, N) = all /\ First(records, N) = records
  <2> DEFINE R == Seq(F)
             Q == Seq(Unit)
  <2>1. all \in Seq(R) /\ records \in Seq(Q) /\ N = Len(records) BY <1>1, <1>4 DEF N
  <2> HIDE DEF R, Q
  <2>2. /\ First(all, Len(all)) = all /\ First(all, 0) = <<>>
        /\ \A k \in 0..Len(all) : First(all, k) \in Seq(R)
        /\ \A k \in 1..Len(all) : First(all, k) = Append(First(all, k - 1), all[k])
    BY <2>1, FirstFacts
  <2>3. /\ First(records, Len(records)) = records /\ First(records, 0) = <<>>
        /\ \A k \in 0..Len(records) : First(records, k) \in Seq(Q)
        /\ \A k \in 1..Len(records) : First(records, k) = Append(First(records, k - 1), records[k])
    BY <2>1, FirstFacts
  <2> QED BY <1>4, <2>1, <2>2, <2>3 DEF R, Q
<1>8. ASSUME NEW k \in 1..N
      PROVE  /\ FlattenSeq(First(all, k)) = FlattenSeq(First(all, k - 1)) \o all[k]
             /\ FlattenSeq(First(records, k)) = FlattenSeq(First(records, k - 1)) \o records[k]
             /\ FlattenSeq(First(all, k - 1)) \in Seq(F)
  <2>1. k - 1 \in 0..N BY <1>1
  <2>2. First(all, k - 1) \in Seq(Seq(F)) /\ First(records, k - 1) \in Seq(Seq(Unit)) BY <1>7, <2>1
  <2>3. all[k] \in Seq(F) /\ records[k] \in Seq(Unit) BY <1>1, <1>3 DEF N
  <2> QED BY <1>7, <2>2, <2>3, FlattenAppend, FlattenType
<1>9. Plaintext(r, FlattenSeq(First(all, N))) = FlattenSeq(First(records, N))
  <2> DEFINE Bad(k) == Plaintext(r, FlattenSeq(First(all, k))) # FlattenSeq(First(records, k))
             T == {k \in Nat : k \in 0..N /\ Bad(k)}
  <2>1. T = {}
    <3> SUFFICES ASSUME T # {} PROVE FALSE OBVIOUS
    <3>1. PICK k \in T : \A j \in T : k <= j BY LeastNat
    <3>2. k \in 0..N /\ Bad(k) OBVIOUS
    <3>3. k # 0
      <4>1. FlattenSeq(<<>>) = <<>> BY DEF FlattenSeq
      <4>2. Plaintext(r, <<>>) = <<>> BY PlainEmpty
      <4> QED BY <1>7, <3>2, <4>1, <4>2
    <3>4. k \in 1..N /\ k - 1 \in 0..N /\ k - 1 \in Nat /\ k - 1 \notin T BY <1>1, <3>1, <3>2, <3>3
    <3>5. Plaintext(r, FlattenSeq(First(all, k - 1))) = FlattenSeq(First(records, k - 1)) BY <3>4
    <3>6. /\ Plaintext(r, FlattenSeq(First(all, k - 1)) \o all[k])
               = Plaintext(r, FlattenSeq(First(all, k - 1))) \o Plaintext(r, all[k])
      <4>1. FlattenSeq(First(all, k - 1)) \in Seq(F) /\ all[k] \in Seq(F) BY <1>3, <1>8, <3>4
      <4> QED BY <1>2, <4>1, PlainConcat
    <3>7. Plaintext(r, all[k]) = records[k] BY <1>3, <3>4
    <3> QED BY <1>8, <3>2, <3>4, <3>5, <3>6, <3>7
  <2>2. N \in Nat /\ N \in 0..N /\ N \notin T BY <1>1, <2>1
  <2> QED BY <2>2
<1>10. Flow(c) \in Seq(F) BY <1>4, <1>5, FlattenType
<1>11. \E f \in Seq(F) : Flow(c) = Append(f, Final(N))
  <2>1. N \in 1..N BY <1>1
  <2> DEFINE a == FlattenSeq(First(all, N - 1))
             b == Parts(N, r.parts)
             f == Final(N)
  <2>2. a \in Seq(F) /\ b \in Seq(F) /\ f \in F /\ all[N] = Append(b, f) /\ Flow(c) = a \o all[N]
    BY <1>3, <1>5, <1>7, <1>8, <2>1
  <2> HIDE DEF a, b, f
  <2>3. a \o Append(b, f) = Append(a \o b, f) /\ a \o b \in Seq(F) BY <2>2, ConcatAppend
  <2> QED BY <2>2, <2>3 DEF f
<1>12. Plaintext(r, Flow(c)) = Whole(c) BY <1>5, <1>6, <1>7, <1>9
<1> QED BY <1>10, <1>11, <1>12 DEF r, F, N, records

LEMMA HeadTailConcat ==
  ASSUME NEW S, NEW q \in Seq(S), q # <<>>
  PROVE  q = <<Head(q)>> \o Tail(q) /\ Head(q) \in S /\ Tail(q) \in Seq(S) /\ <<Head(q)>> \in Seq(S)
         /\ Head(q) = q[1] /\ Len(q) \in Nat \ {0}
<1>1. Len(q) \in Nat \ {0} /\ Head(q) = q[1] /\ Head(q) \in S /\ Tail(q) \in Seq(S) /\ Len(Tail(q)) = Len(q) - 1
      /\ <<Head(q)>> \in Seq(S) /\ Len(<<Head(q)>>) = 1
  OBVIOUS
<1>2. \A i \in 1..(Len(q) - 1) : Tail(q)[i] = q[i + 1] BY <1>1
<1> DEFINE h == <<Head(q)>>
           t == Tail(q)
<1>3. h \in Seq(S) /\ t \in Seq(S) /\ Len(h) = 1 /\ Len(t) = Len(q) - 1 /\ h[1] = q[1]
      /\ \A i \in 1..(Len(q) - 1) : t[i] = q[i + 1]
  BY <1>1, <1>2
<1> HIDE DEF h, t
<1>4. h \o t \in Seq(S) /\ Len(h \o t) = Len(q) /\ \A i \in 1..Len(q) : (h \o t)[i] = q[i]
  <2>0. h \in Seq(S) /\ t \in Seq(S) BY <1>3
  <2>1. h \o t \in Seq(S) /\ Len(h \o t) = Len(h) + Len(t)
        /\ \A i \in 1..(Len(h) + Len(t)) : (h \o t)[i] = IF i <= Len(h) THEN h[i] ELSE t[i - Len(h)]
    BY ONLY <2>0, ConcatProperties
  <2>2. Len(h) + Len(t) = Len(q) BY <1>1, <1>3
  <2>3. ASSUME NEW i \in 1..Len(q) PROVE (h \o t)[i] = q[i]
    <3>1. CASE i = 1 BY <1>1, <1>3, <2>1, <2>2, <3>1
    <3>2. CASE i # 1
      <4>1. i - 1 \in 1..(Len(q) - 1) /\ ~(i <= 1) /\ (i - 1) + 1 = i BY <1>1, <3>2
      <4>2. (h \o t)[i] = t[i - 1] BY <1>3, <2>1, <2>2, <4>1
      <4> QED BY <1>3, <4>1, <4>2
    <3> QED BY <3>1, <3>2
  <2> QED BY <2>1, <2>2, <2>3
<1>5. h \o t = q BY <1>4, SeqEqual
<1> QED BY <1>1, <1>5 DEF h, t

(* The first elements of a part go to the part before it.                  *)
HeadMoved(b, w, x) == (b \o <<Head(w)>>) \o (Tail(w) \o x) = b \o (w \o x)

LEMMA HeadMoves ==
  ASSUME NEW S, NEW b \in Seq(S), NEW w \in Seq(S), NEW x \in Seq(S), w # <<>>
  PROVE  HeadMoved(b, w, x)
<1> DEFINE h == <<Head(w)>>
           t == Tail(w)
<1>1. w = h \o t /\ h \in Seq(S) /\ t \in Seq(S) BY HeadTailConcat
<1> HIDE DEF h, t
<1> DEFINE y == t \o x
<1>2. y \in Seq(S) BY <1>1, ConcatProperties
<1> HIDE DEF y
<1>3. Grouped(b, h, y) /\ Grouped(h, t, x) BY <1>1, <1>2, GroupedIs
<1>4. (b \o h) \o y = b \o (h \o y) BY <1>3 DEF Grouped
<1>5. (h \o t) \o x = h \o y BY <1>3 DEF Grouped, y
<1>6. (b \o h) \o y = b \o (w \o x) BY <1>1, <1>4, <1>5
<1> QED BY <1>6 DEF h, t, y, HeadMoved

(* ... and the first element of a part to the end of the part before.      *)
Advanced(b, w, n, a) == b \o (Append(w, Head(n)) \o (Tail(n) \o a)) = b \o (w \o (n \o a))

LEMMA HeadAppended ==
  ASSUME NEW S, NEW b \in Seq(S), NEW w \in Seq(S), NEW n \in Seq(S), NEW a \in Seq(S), n # <<>>
  PROVE  Advanced(b, w, n, a)
<1> DEFINE x == Head(n)
           h == <<x>>
           t == Tail(n)
<1>1. n = h \o t /\ h \in Seq(S) /\ t \in Seq(S) /\ x \in S BY HeadTailConcat
<1>2. Append(w, x) = w \o h BY <1>1, AppendIsConcat
<1> HIDE DEF h, t, x
<1> DEFINE y == t \o a
<1>3. y \in Seq(S) BY <1>1, ConcatProperties
<1> HIDE DEF y
<1>4. Grouped(w, h, y) /\ Grouped(h, t, a) BY <1>1, <1>3, GroupedIs
<1>5. (w \o h) \o y = w \o (h \o y) BY <1>4 DEF Grouped
<1>6. (h \o t) \o a = h \o y BY <1>4 DEF Grouped, y
<1>7. Append(w, x) \o y = w \o (n \o a) BY <1>1, <1>2, <1>5, <1>6
<1>8. b \o (Append(w, x) \o y) = b \o (w \o (n \o a)) BY <1>7
<1> QED BY <1>8 DEF x, t, y, Advanced

(* ... and all of a part to the part before it.                            *)
PartMoved(b, w, x) == (b \o w) \o (<<>> \o x) = b \o (w \o x)

LEMMA PartMoves ==
  ASSUME NEW S, NEW b \in Seq(S), NEW w \in Seq(S), NEW x \in Seq(S)
  PROVE  PartMoved(b, w, x)
<1>1. <<>> \o x = x OBVIOUS
<1>2. Grouped(b, w, x) BY GroupedIs
<1>3. (b \o w) \o x = b \o (w \o x) BY <1>2 DEF Grouped
<1> QED BY <1>1, <1>3 DEF PartMoved

(* An element in two parts of a sequence is in it twice.                   *)
LEMMA TwicePlaced ==
  ASSUME NEW S, NEW a \in Seq(S), NEW b \in Seq(S), NEW x, x \in ToSet(a), x \in ToSet(b)
  PROVE  \E i, j \in 1..Len(a \o b) : i # j /\ (a \o b)[i] = x /\ (a \o b)[j] = x
<1>1. PICK i \in 1..Len(a) : a[i] = x BY DEF ToSet
<1>2. PICK j \in 1..Len(b) : b[j] = x BY DEF ToSet
<1>3. Len(a) \in Nat /\ Len(b) \in Nat OBVIOUS
<1>4. Len(a \o b) = Len(a) + Len(b)
      /\ \A k \in 1..(Len(a) + Len(b)) : (a \o b)[k] = IF k <= Len(a) THEN a[k] ELSE b[k - Len(a)]
  BY ConcatProperties
<1>5. i \in 1..(Len(a) + Len(b)) /\ i <= Len(a) BY <1>3
<1>6. Len(a) + j \in 1..(Len(a) + Len(b)) /\ ~(Len(a) + j <= Len(a)) /\ (Len(a) + j) - Len(a) = j
      /\ i # Len(a) + j
  BY <1>3
<1>7. (a \o b)[i] = x BY <1>1, <1>4, <1>5
<1>8. (a \o b)[Len(a) + j] = x BY <1>2, <1>4, <1>6
<1> QED BY <1>4, <1>5, <1>6, <1>7, <1>8

-----------------------------------------------------------------------------
(* Everything a client sends                                               *)

LEMMA FullIs ==
  ASSUME TypeOK, NEW c \in Conn
  PROVE  /\ Full(c) \in Seq(FragmentOf(c)) /\ Flow(c) \in Seq(FragmentOf(c))
         /\ Hello(c) \in Seq(FragmentOf(c)) /\ Len(Hello(c)) = request[c].hello
         /\ FinishedFragments \in Seq(FragmentOf(c)) /\ Len(FinishedFragments) = 1
         /\ FinishedFragments \o Flow(c) \in Seq(FragmentOf(c))
         /\ Plaintext(request[c], Full(c)) = Whole(c)
         /\ \E f \in Seq(FragmentOf(c)) : Full(c) = Append(f, Final(Len(request[c].records)))
<1> DEFINE F == FragmentOf(c)
           r == request[c]
           h == Hello(c)
           fin == FinishedFragments
           flow == Flow(c)
           last == Final(Len(request[c].records))
<1>1. h \in Seq(F) /\ Len(h) = request[c].hello
  <2>1. request[c].hello \in Nat /\ 1 \in Nat BY RequestIs
  <2>2. Fragments("hello", 1, request[c].hello) \in Seq(FragmentOf(c)) BY <2>1, FragmentsType
  <2>3. Len(Fragments("hello", 1, request[c].hello)) = request[c].hello BY <2>1 DEF Fragments
  <2> QED BY <2>2, <2>3 DEF Hello
<1>2. fin \in Seq(F) /\ Len(fin) = 1
  <2>1. 1 \in Nat OBVIOUS
  <2>2. FinishedFragments \in Seq(FragmentOf(c)) BY <2>1, FragmentsType DEF FinishedFragments
  <2>3. Len(FinishedFragments) = 1 BY DEF FinishedFragments, Fragments
  <2> QED BY <2>2, <2>3
<1>3. flow \in Seq(F) /\ Plaintext(r, flow) = Whole(c) /\ PiecesIn(r, F, Seq(Unit)) BY FlowPlain, PiecesUnit
<1>4. PICK f \in Seq(F) : flow = Append(f, last) BY FlowPlain
<1>5. Plaintext(r, h) = <<>> /\ Plaintext(r, fin) = <<>>
  <2>1. request[c].hello \in Nat /\ 1 \in Nat BY RequestIs
  <2> QED BY <2>1, PlainHandshake DEF Hello, FinishedFragments
<1>6. Whole(c) \in Seq(Unit) BY RequestIs
<1>7. last \in F
  <2>1. Len(request[c].records) \in 1..Len(request[c].records) BY RequestIs
  <2> QED BY <2>1, RecordPlain
<1>8. Full(c) = h \o (fin \o flow) BY DEF Full
<1> HIDE DEF F, r, h, fin, flow, last
<1>9. fin \o flow \in Seq(F) /\ h \o (fin \o flow) \in Seq(F) BY <1>1, <1>2, <1>3, ConcatProperties
<1>10. Plaintext(r, h \o (fin \o flow)) = Whole(c)
  <2>1. Plaintext(r, h \o (fin \o flow)) = Plaintext(r, h) \o Plaintext(r, fin \o flow)
    <3> DEFINE rest == fin \o flow
    <3>1. rest \in Seq(F) /\ h \in Seq(F) /\ PiecesIn(r, F, Seq(Unit)) BY <1>1, <1>3, <1>9
    <3> HIDE DEF rest
    <3>2. Plaintext(r, h \o rest) = Plaintext(r, h) \o Plaintext(r, rest)
      BY ONLY <3>1, PlainConcat
    <3> QED BY <3>2 DEF rest
  <2>2. Plaintext(r, fin \o flow) = Plaintext(r, fin) \o Plaintext(r, flow) BY <1>2, <1>3, PlainConcat
  <2>3. <<>> \o Whole(c) = Whole(c) BY <1>6
  <2> QED BY <1>3, <1>5, <2>1, <2>2, <2>3
<1>11. \E g \in Seq(F) : h \o (fin \o flow) = Append(g, last)
  <2>1. fin \o Append(f, last) = Append(fin \o f, last) /\ fin \o f \in Seq(F)
    BY <1>2, <1>7, ConcatAppend
  <2>2. h \o Append(fin \o f, last) = Append(h \o (fin \o f), last) /\ h \o (fin \o f) \in Seq(F)
    BY <1>1, <1>7, <2>1, ConcatAppend
  <2> QED BY <1>4, <2>1, <2>2
<1> QED BY <1>1, <1>2, <1>3, <1>8, <1>9, <1>10, <1>11 DEF F, r, h, fin, flow, last

LEMMA ConcatAt ==
  ASSUME NEW S, NEW a \in Seq(S), NEW b \in Seq(S)
  PROVE  /\ a \o b \in Seq(S) /\ Len(a \o b) = Len(a) + Len(b) /\ Len(a) \in Nat /\ Len(b) \in Nat
         /\ \A i \in 1..Len(a) : (a \o b)[i] = a[i]
         /\ \A i \in 1..Len(b) : (a \o b)[Len(a) + i] = b[i]
<1>1. a \o b \in Seq(S) /\ Len(a \o b) = Len(a) + Len(b) /\ Len(a) \in Nat /\ Len(b) \in Nat OBVIOUS
<1>2. \A i \in 1..Len(a) : (a \o b)[i] = a[i] OBVIOUS
<1>3. \A i \in 1..Len(b) : (a \o b)[Len(a) + i] = b[i] OBVIOUS
<1> QED BY <1>1, <1>2, <1>3

(* An element that a sequence has once is in one of its two parts.         *)
LEMMA OneEnd ==
  ASSUME NEW S, NEW g \in Seq(S), NEW m \in Seq(S), NEW e, e \in ToSet(g),
         \E i \in 1..Len(g \o m) : \A j \in 1..Len(g \o m) : (g \o m)[j] = e <=> j = i
  PROVE  e \notin ToSet(m)
<1> SUFFICES ASSUME e \in ToSet(m) PROVE FALSE OBVIOUS
<1>1. \E i, j \in 1..Len(g \o m) : i # j /\ (g \o m)[i] = e /\ (g \o m)[j] = e
  BY TwicePlaced
<1> QED BY <1>1

(* The plaintext of the first fragments of a request is a prefix of the    *)
(* request's, and all of it if it has the empty line of a body that comes  *)
(* with it.                                                                *)
LEMMA PlainOfFirst ==
  ASSUME TypeOK, NEW c \in Conn, NEW before \in Seq(FragmentOf(c)), NEW rest \in Seq(FragmentOf(c)),
         before \o rest = Full(c)
  PROVE  /\ Plaintext(request[c], before) \in Seq(Unit)
         /\ Len(Plaintext(request[c], before)) <= Len(Whole(c))
         /\ Complete(Plaintext(request[c], before)) /\ "end" \in ToSet(Last(request[c].records))
              => Plaintext(request[c], before) = Whole(c)
<1> DEFINE F == FragmentOf(c)
           r == request[c]
           got == Plaintext(r, before)
           more == Plaintext(r, rest)
           records == request[c].records
           last == Final(Len(request[c].records))
<1>1. PiecesIn(r, F, Seq(Unit)) /\ before \in Seq(F) /\ rest \in Seq(F) BY PiecesUnit
<1>2. Plaintext(r, Full(c)) = Whole(c) BY FullIs
<1>3. PICK f \in Seq(F) : Full(c) = Append(f, last) BY FullIs
<1>4. records \in Seq(Seq(Unit)) /\ Len(records) \in 1..Len(records) BY RequestIs
<1>5. Piece(r, last) = records[Len(records)] /\ last \in F BY <1>4, RecordPlain
<1>6. \E i \in 1..Len(Whole(c)) : \A j \in 1..Len(Whole(c)) : Whole(c)[j] = "end" <=> j = i
  BY RequestIs
<1>7. Last(records) = records[Len(records)] BY DEF Last
<1> HIDE DEF F, r, records, last
<1>8. got \in Seq(Unit) /\ more \in Seq(Unit) BY <1>1, PlainConcat
<1>9. Plaintext(r, before \o rest) = got \o more
  <2>1. Plaintext(r, before \o rest) = Plaintext(r, before) \o Plaintext(r, rest) BY ONLY <1>1, PlainConcat
  <2> QED BY <2>1
<1>10. Whole(c) = got \o more BY <1>2, <1>9
<1> HIDE DEF got
<1>11. Len(got) <= Len(Whole(c))
  <2> HIDE DEF more
  <2>1. Len(got \o more) = Len(got) + Len(more) /\ Len(got) \in Nat /\ Len(more) \in Nat BY ONLY <1>8
  <2> QED BY ONLY <1>10, <2>1
<1>12. ASSUME Complete(got), "end" \in ToSet(Last(records)) PROVE got = Whole(c)
  <2>1. CASE rest = <<>>
    <3>1. more = <<>> BY <2>1, PlainEmpty
    <3> HIDE DEF more
    <3>2. got \o <<>> = got BY <1>8
    <3> QED BY <1>10, <3>1, <3>2
  <2>2. CASE rest # <<>>
    <3>1. PICK g \in Seq(F), x \in F : rest = Append(g, x) BY <1>1, <2>2, FrontLast
    <3>2. x = last
      <4>1. before \o Append(g, x) = Append(before \o g, x) /\ before \o g \in Seq(F) BY <1>1, ConcatAppend
      <4>2. Append(before \o g, x) = Append(f, last) BY <1>3, <3>1, <4>1
      <4> DEFINE p == before \o g
      <4>3. p \in Seq(F) /\ f \in Seq(F) /\ x \in F /\ last \in F /\ Append(p, x) = Append(f, last)
        BY <1>5, <4>1, <4>2
      <4> HIDE DEF p
      <4>4. Len(Append(p, x)) = Len(p) + 1 /\ Len(Append(f, last)) = Len(f) + 1
            /\ Append(p, x)[Len(p) + 1] = x /\ Append(f, last)[Len(f) + 1] = last
            /\ Len(p) \in Nat /\ Len(f) \in Nat
        BY ONLY <4>3, AppendProperties
      <4>5. Len(p) = Len(f) BY ONLY <4>3, <4>4
      <4> QED BY ONLY <4>3, <4>4, <4>5
    <3>3. rest = g \o <<last>> /\ <<last>> \in Seq(F) BY <1>5, <3>1, <3>2, AppendIsConcat
    <3> DEFINE l == <<last>>
    <3>4. rest = g \o l /\ l \in Seq(F) BY <3>3
    <3>5. Plaintext(r, l) = records[Len(records)] /\ records[Len(records)] \in Seq(Unit)
      <4>1. Piece(r, last) \in Seq(Unit) BY <1>1, <1>5 DEF PiecesIn
      <4> QED BY <1>5, <4>1, PlainOne
    <3> HIDE DEF l
    <3>6. Plaintext(r, g \o l) = Plaintext(r, g) \o Plaintext(r, l) /\ Plaintext(r, g) \in Seq(Unit)
      <4>1. PiecesIn(r, F, Seq(Unit)) /\ l \in Seq(F) /\ g \in Seq(F) BY <1>1, <3>4
      <4> QED BY ONLY <4>1, PlainConcat
    <3>7. more = Plaintext(r, g) \o records[Len(records)] BY <3>4, <3>5, <3>6
    <3>8. "end" \in ToSet(more)
      <4> DEFINE a == Plaintext(r, g)
                 b == records[Len(records)]
      <4>1. a \in Seq(Unit) /\ b \in Seq(Unit) /\ "end" \in ToSet(b) BY <1>7, <1>12, <3>5, <3>6
      <4> HIDE DEF a, b
      <4>2. ToSet(a \o b) = ToSet(a) \cup ToSet(b) BY ONLY <4>1, ConcatSet
      <4> QED BY <3>7, <4>1, <4>2 DEF a, b
    <3> HIDE DEF more
    <3>9. "end" \notin ToSet(more)
      <4>1. got \in Seq(Unit) /\ more \in Seq(Unit) /\ "end" \in ToSet(got) BY <1>8, <1>12 DEF Complete
      <4>2. \E i \in 1..Len(got \o more) : \A j \in 1..Len(got \o more) : (got \o more)[j] = "end" <=> j = i
        BY <1>6, <1>10
      <4> QED BY ONLY <4>1, <4>2, OneEnd
    <3> QED BY <3>8, <3>9
  <2> QED BY <2>1, <2>2
<1> QED BY <1>8, <1>11, <1>12 DEF got, r, records

(* While the handshake is not complete, what arrives next is of it.        *)
LEMMA NextOfHandshake ==
  ASSUME TypeOK, NEW c \in Conn, NEW before \in Seq(FragmentOf(c)), NEW w \in Seq(FragmentOf(c)),
         NEW x \in Seq(FragmentOf(c)), before \o (w \o x) = Full(c), w # <<>>,
         Len(before) <= request[c].hello
  PROVE  /\ Head(w).of # "data"
         /\ Len(before) = request[c].hello => Head(w).of = "finished" /\ Head(w).last
<1> DEFINE F == FragmentOf(c)
           n == Len(before) + 1
           h == Hello(c)
           fin == FinishedFragments
           rest == fin \o Flow(c)
<1>1. h \in Seq(F) /\ Len(h) = request[c].hello /\ fin \in Seq(F) /\ Len(fin) = 1
      /\ rest \in Seq(F) /\ Flow(c) \in Seq(F) /\ Full(c) = h \o rest
  BY FullIs DEF Full
<1>2. request[c].hello \in Nat \ {0} BY RequestIs
<1>3. \A i \in 1..request[c].hello : h[i].of = "hello" BY DEF Hello, Fragments
<1>4. fin[1].of = "finished" /\ fin[1].last
  <2>1. 1 \in 1..1 OBVIOUS
  <2>2. fin = [j \in 1..1 |-> [of |-> "finished", record |-> 1, last |-> j = 1]]
    BY DEF FinishedFragments, Fragments
  <2>3. fin[1] = [of |-> "finished", record |-> 1, last |-> TRUE]
    <3> HIDE DEF fin
    <3> QED BY <2>1, <2>2
  <2> HIDE DEF fin
  <2> QED BY <2>3
<1>5. Head(w) = w[1] /\ Len(w) \in Nat \ {0} BY HeadTailConcat
<1>6. Len(before) \in Nat OBVIOUS
<1> HIDE DEF F, h, fin
<1>7. before \in Seq(F) /\ w \in Seq(F) /\ x \in Seq(F) BY DEF F
<1>8. rest[1] = fin[1]
  <2> DEFINE l == Flow(c)
  <2>1. l \in Seq(F) /\ fin \in Seq(F) /\ Len(fin) = 1 BY <1>1
  <2> HIDE DEF l
  <2>2. 1 \in 1..Len(fin) BY <2>1
  <2>3. (fin \o l)[1] = fin[1] BY ONLY <2>1, <2>2, ConcatAt
  <2> QED BY <2>3 DEF l
<1> HIDE DEF rest
<1>9. (w \o x)[1] = w[1] /\ w \o x \in Seq(F) /\ Len(w \o x) \in Nat \ {0} BY ONLY <1>5, <1>7
<1> DEFINE wx == w \o x
<1>10. wx \in Seq(F) /\ wx[1] = w[1] /\ Len(wx) \in Nat \ {0} /\ before \o wx = h \o rest BY <1>1, <1>9
<1> HIDE DEF wx
<1>11. (before \o wx)[n] = wx[1]
  <2>1. 1 \in 1..Len(wx) /\ before \in Seq(F) /\ wx \in Seq(F) BY <1>7, <1>10
  <2> QED BY ONLY <2>1, ConcatAt
<1>12. CASE Len(before) < request[c].hello
  <2>1. n \in 1..Len(h) BY <1>1, <1>2, <1>6, <1>12
  <2>2. (h \o rest)[n] = h[n]
    <3> HIDE DEF n
    <3> QED BY ONLY <1>1, <2>1
  <2>3. Head(w) = h[n] BY <1>5, <1>10, <1>11, <2>2
  <2>4. h[n].of = "hello" BY <1>1, <1>3, <2>1
  <2> QED BY <1>12, <1>2, <1>6, <2>3, <2>4
<1>13. CASE Len(before) = request[c].hello
  <2>1. n = Len(h) + 1 /\ Len(h) \in Nat BY <1>1, <1>2, <1>13
  <2>2. Len(rest) \in Nat \ {0}
    <3>0. h \in Seq(F) /\ rest \in Seq(F) /\ before \in Seq(F) /\ wx \in Seq(F) BY <1>1, <1>7, <1>10
    <3>1. Len(h \o rest) = Len(h) + Len(rest) /\ Len(rest) \in Nat BY ONLY <3>0, ConcatAt
    <3>2. Len(before \o wx) = Len(before) + Len(wx) BY ONLY <3>0, ConcatAt
    <3> QED BY <1>1, <1>6, <1>10, <1>13, <3>1, <3>2
  <2>3. (h \o rest)[n] = rest[1]
    <3>1. 1 \in 1..Len(rest) /\ h \in Seq(F) /\ rest \in Seq(F) BY <1>1, <2>2
    <3>2. (h \o rest)[Len(h) + 1] = rest[1] BY ONLY <3>1, ConcatAt
    <3> QED BY <2>1, <3>2
  <2>4. Head(w) = fin[1] BY <1>5, <1>8, <1>10, <1>11, <2>3
  <2> QED BY <1>4, <2>4
<1> QED BY <1>2, <1>6, <1>12, <1>13

-----------------------------------------------------------------------------
(* What a client was sent                                                  *)

(* The least element of a set of indices, and the index at which the first *)
(* element with a property is.                                             *)
LEMMA MinIs ==
  ASSUME NEW I \in SUBSET Nat, NEW n \in I, \A i \in I : n <= i
  PROVE  Min(I) = n
<1>1. \E t \in I : \A u \in I : t <= u OBVIOUS
<1>2. Min(I) \in I /\ \A u \in I : Min(I) <= u BY <1>1 DEF Min
<1>3. Min(I) <= n /\ n <= Min(I) /\ Min(I) \in Nat /\ n \in Nat BY <1>2
<1> QED BY ONLY <1>3

(* What a client was sent from the first message on that is not of the     *)
(* handshake.                                                              *)
From(q) ==
    LET n == SelectInSeq(q, LAMBDA u : u \notin Handshake) IN
    IF n = 0 THEN <<>> ELSE SubSeq(q, n, Len(q))

LEMMA ReplyIs == \A c : Reply(c) = From(toClient[c])
BY DEF Reply, From

LEMMA FromNone ==
  ASSUME NEW S, NEW q \in Seq(S), ToSet(q) \subseteq Handshake
  PROVE  From(q) = <<>>
<1> DEFINE I == {i \in 1..Len(q) : q[i] \notin Handshake}
<1>1. I = {} BY DEF ToSet
<1>2. SelectInSeq(q, LAMBDA u : u \notin Handshake) = IF I # {} THEN Min(I) ELSE 0
  BY DEF SelectInSeq
<1> HIDE DEF I
<1>3. SelectInSeq(q, LAMBDA u : u \notin Handshake) = 0 BY <1>1, <1>2
<1> QED BY <1>3 DEF From

LEMMA FromAnswer ==
  ASSUME NEW S, NEW q \in Seq(S), ToSet(q) \subseteq Handshake,
         NEW s \in Seq(S), s # <<>>, s[1] \notin Handshake
  PROVE  From(q \o s) = s
<1> DEFINE all == q \o s
           n == Len(q) + 1
           I == {i \in 1..Len(all) : all[i] \notin Handshake}
<1>1. /\ all \in Seq(S) /\ Len(all) = Len(q) + Len(s) /\ Len(q) \in Nat /\ Len(s) \in Nat \ {0}
      /\ \A i \in 1..Len(q) : all[i] = q[i]
      /\ \A i \in 1..Len(s) : all[Len(q) + i] = s[i]
  <2>1. Len(s) # 0 BY EmptySeq
  <2> QED BY <2>1, ConcatAt
<1>2. SelectInSeq(all, LAMBDA u : u \notin Handshake) = IF I # {} THEN Min(I) ELSE 0
  BY DEF SelectInSeq
<1> HIDE DEF all
<1>3. n \in I
  <2>1. n \in 1..Len(all) /\ 1 \in 1..Len(s) BY <1>1
  <2> QED BY <1>1, <2>1
<1>4. \A i \in I : n <= i
  <2> SUFFICES ASSUME NEW i \in I, ~(n <= i) PROVE FALSE OBVIOUS
  <2>1. i \in 1..Len(q) BY <1>1
  <2>2. q[i] \in Handshake BY <2>1 DEF ToSet
  <2> QED BY <1>1, <2>1, <2>2
<1>5. I \in SUBSET Nat BY <1>1
<1> HIDE DEF I
<1>6. Min(I) = n BY <1>3, <1>4, <1>5, MinIs
<1>7. n # 0 /\ n \in Nat BY <1>1
<1>8. From(all) = SubSeq(all, n, Len(all)) BY <1>2, <1>3, <1>6, <1>7 DEF From
<1>9. SubSeq(all, n, Len(all)) = s
  <2>1. /\ SubSeq(all, n, Len(all)) \in Seq(S)
        /\ Len(SubSeq(all, n, Len(all))) = Len(all) - n + 1
        /\ \A i \in 1..(Len(all) - n + 1) : SubSeq(all, n, Len(all))[i] = all[n + i - 1]
    <3>1. n \in Int /\ Len(all) \in Int /\ n <= Len(all) BY <1>1
    <3>2. \A i \in n..Len(all) : all[i] \in S BY <1>1
    <3> QED BY ONLY <3>1, <3>2, SubSeqProperties
  <2>2. Len(all) - n + 1 = Len(s) BY <1>1
  <2>3. \A i \in 1..Len(s) : all[n + i - 1] = s[i]
    <3> TAKE i \in 1..Len(s)
    <3>1. n + i - 1 = Len(q) + i BY <1>1
    <3> QED BY <1>1, <3>1
  <2> DEFINE p == SubSeq(all, n, Len(all))
  <2>4. p \in Seq(S) /\ Len(p) = Len(s) /\ \A i \in 1..Len(s) : p[i] = s[i] BY <2>1, <2>2, <2>3
  <2> HIDE DEF p
  <2>5. p = s BY ONLY <2>4, s \in Seq(S)
  <2> QED BY <2>5 DEF p
<1> QED BY <1>8, <1>9 DEF all

(* What is before the first zero.                                          *)
LEMMA BeforeZeroIs ==
  ASSUME NEW S, NEW s \in Seq(S)
  PROVE  \/ /\ "zero" \notin ToSet(s)
            /\ BeforeZero(s) = s
         \/ \E k \in 1..Len(s) :
               /\ s[k] = "zero" /\ \A i \in 1..(k - 1) : s[i] # "zero"
               /\ BeforeZero(s) = SubSeq(s, 1, k - 1)
<1>1. CASE "zero" \notin ToSet(s) BY <1>1 DEF BeforeZero
<1>2. CASE "zero" \in ToSet(s)
  <2> DEFINE I == {i \in 1..Len(s) : s[i] = "zero"}
  <2>1. SelectInSeq(s, LAMBDA u : u = "zero") = IF I # {} THEN Min(I) ELSE 0 BY DEF SelectInSeq
  <2>2. I # {} BY <1>2 DEF ToSet
  <2>3. I \in SUBSET Nat BY DEF I
  <2>4. \A i \in 1..Len(s) : s[i] = "zero" <=> i \in I OBVIOUS
  <2>5. \A i \in I : i \in 1..Len(s) OBVIOUS
  <2> HIDE DEF I
  <2>6. PICK k \in I : \A i \in I : k <= i BY <2>2, <2>3, LeastNat
  <2>7. Min(I) = k BY <2>3, <2>6, MinIs
  <2>8. BeforeZero(s) = SubSeq(s, 1, k - 1) BY <1>2, <2>1, <2>2, <2>7 DEF BeforeZero
  <2>9. k \in 1..Len(s) /\ s[k] = "zero" BY <2>4, <2>5
  <2>10. \A i \in 1..(k - 1) : s[i] # "zero"
    <3> TAKE i \in 1..(k - 1)
    <3>1. i \in 1..Len(s) /\ ~(k <= i) BY <2>9
    <3> QED BY <2>4, <2>6, <3>1
  <2> QED BY <2>8, <2>9, <2>10
<1> QED BY <1>1, <1>2

LEMMA FirstPart ==
  ASSUME NEW S, NEW s \in Seq(S), NEW n \in 0..Len(s)
  PROVE  /\ SubSeq(s, 1, n) \in Seq(S) /\ Len(SubSeq(s, 1, n)) = n
         /\ \A i \in 1..n : SubSeq(s, 1, n)[i] = s[i]
<1>1. Len(s) \in Nat /\ n \in Nat OBVIOUS
<1>2. \A i \in 1..n : s[i] \in S BY <1>1
<1>3. /\ SubSeq(s, 1, n) \in Seq(S) /\ Len(SubSeq(s, 1, n)) = IF 1 <= n THEN n - 1 + 1 ELSE 0
      /\ \A i \in 1..(n - 1 + 1) : SubSeq(s, 1, n)[i] = s[1 + i - 1]
  <2>1. 1 \in Int /\ n \in Int BY <1>1
  <2> QED BY ONLY <1>2, <2>1, SubSeqProperties
<1>4. Len(SubSeq(s, 1, n)) = n BY <1>1, <1>3
<1>5. \A i \in 1..n : SubSeq(s, 1, n)[i] = s[i]
  <2> TAKE i \in 1..n
  <2>1. n - 1 + 1 = n /\ 1 + i - 1 = i BY <1>1
  <2> QED BY <1>3, <2>1
<1> QED BY <1>3, <1>4, <1>5

LEMMA BeforeZeroPrefix ==
  ASSUME NEW S, NEW s \in Seq(S)
  PROVE  IsPrefix(BeforeZero(s), s) /\ BeforeZero(s) \in Seq(S)
<1>0. Len(s) \in Nat OBVIOUS
<1>1. CASE BeforeZero(s) = s BY <1>0, <1>1 DEF IsPrefix
<1>2. ASSUME NEW k \in 1..Len(s), BeforeZero(s) = SubSeq(s, 1, k - 1)
      PROVE  IsPrefix(BeforeZero(s), s) /\ BeforeZero(s) \in Seq(S)
  <2> DEFINE n == k - 1
             p == SubSeq(s, 1, n)
  <2>1. n \in 0..Len(s) BY <1>0
  <2> HIDE DEF n
  <2>2. p \in Seq(S) /\ Len(p) = n BY <2>1, FirstPart
  <2>3. SubSeq(p, 1, Len(p)) = p
    <3> HIDE DEF p
    <3> QED BY <2>2, SubSeqFull
  <2>4. Len(p) <= Len(s) BY <1>0, <2>1, <2>2
  <2>5. IsPrefix(p, s) BY <2>2, <2>3, <2>4 DEF IsPrefix
  <2> QED BY <1>2, <2>2, <2>5 DEF n
<1> QED BY <1>1, <1>2, BeforeZeroIs

LEMMA BeforeZeroNone ==
  ASSUME NEW s, "zero" \notin ToSet(s)
  PROVE  BeforeZero(s) = s
BY DEF BeforeZero

(* What is not a zero stays in front.                                      *)
LEMMA BeforeZeroFirst ==
  ASSUME NEW S, NEW s \in Seq(S), NEW x \in S, x # "zero"
  PROVE  BeforeZero(<<x>> \o s) = <<x>> \o BeforeZero(s)
<1> DEFINE h == <<x>>
           all == h \o s
<1>0. h \in Seq(S) /\ Len(h) = 1 /\ h[1] = x OBVIOUS
<1> HIDE DEF h
<1>1. all \in Seq(S) /\ Len(all) = 1 + Len(s) /\ Len(s) \in Nat
      /\ \A i \in 1..Len(s) : all[1 + i] = s[i]
  BY <1>0, ConcatAt
<1>2. all[1] = x
  <2>1. 1 \in 1..Len(h) BY <1>0
  <2>2. all[1] = h[1] BY ONLY <1>0, <2>1, s \in Seq(S), ConcatAt
  <2> QED BY <1>0, <2>2
<1>3. ToSet(all) = {x} \cup ToSet(s)
  <2>1. ToSet(all) = ToSet(h) \cup ToSet(s) BY <1>0, ConcatSet
  <2>2. ToSet(h) = {x} BY SingletonSet DEF h
  <2> QED BY <2>1, <2>2
<1>4. CASE "zero" \notin ToSet(s)
  <2>1. BeforeZero(s) = s BY <1>4, BeforeZeroNone
  <2>2. "zero" \notin ToSet(all) BY <1>3, <1>4
  <2>3. BeforeZero(all) = all
    <3> HIDE DEF all
    <3> QED BY <2>2, BeforeZeroNone
  <2> QED BY <2>1, <2>3 DEF h
<1>5. CASE "zero" \in ToSet(s)
  <2>1. PICK k \in 1..Len(s) : /\ s[k] = "zero" /\ \A i \in 1..(k - 1) : s[i] # "zero"
                               /\ BeforeZero(s) = SubSeq(s, 1, k - 1)
    <3>1. \E k \in 1..Len(s) : s[k] = "zero" BY <1>5 DEF ToSet
    <3> QED BY <1>5, BeforeZeroIs
  <2> HIDE DEF all
  <2>2. PICK j \in 1..Len(all) : /\ all[j] = "zero" /\ \A i \in 1..(j - 1) : all[i] # "zero"
                                 /\ BeforeZero(all) = SubSeq(all, 1, j - 1)
    BY <1>1, <1>3, <1>5, BeforeZeroIs
  <2>3. j = k + 1
    <3>1. j # 1 BY <1>2, <2>2
    <3>2. j - 1 \in 1..Len(s) /\ 1 + (j - 1) = j BY <1>1, <3>1
    <3>3. s[j - 1] = "zero" BY <1>1, <2>2, <3>2
    <3>4. ~(j - 1 < k)
      <4> SUFFICES ASSUME j - 1 < k PROVE FALSE OBVIOUS
      <4>1. j - 1 \in 1..(k - 1) BY <3>2
      <4> QED BY <2>1, <3>3, <4>1
    <3>5. ~(k + 1 < j)
      <4> SUFFICES ASSUME k + 1 < j PROVE FALSE OBVIOUS
      <4>1. k + 1 \in 1..(j - 1) BY <1>1
      <4>2. all[1 + k] = "zero" /\ 1 + k = k + 1 BY <1>1, <2>1
      <4> QED BY <2>2, <4>1, <4>2
    <3> QED BY <1>1, <3>2, <3>4, <3>5
  <2> DEFINE n == k - 1
             p == SubSeq(s, 1, n)
             r == SubSeq(all, 1, k)
  <2>4. n \in 0..Len(s) /\ k \in 0..Len(all) /\ n + 1 = k /\ n \in Nat /\ k \in Nat BY <1>1
  <2>5. p \in Seq(S) /\ Len(p) = n /\ \A i \in 1..n : p[i] = s[i]
    <3> HIDE DEF n
    <3> QED BY <2>4, FirstPart
  <2>6. r \in Seq(S) /\ Len(r) = k /\ \A i \in 1..k : r[i] = all[i] BY <1>1, <2>4, FirstPart
  <2>7. BeforeZero(all) = r BY <2>2, <2>3, <2>4
  <2>8. BeforeZero(s) = p BY <2>1
  <2> HIDE DEF p, r, n
  <2>0. h \in Seq(S) /\ p \in Seq(S) BY <1>0, <2>5
  <2>a. /\ h \o p \in Seq(S) /\ Len(h \o p) = Len(h) + Len(p)
        /\ \A i \in 1..Len(h) : (h \o p)[i] = h[i]
        /\ \A i \in 1..Len(p) : (h \o p)[Len(h) + i] = p[i]
    BY ONLY <2>0, ConcatAt
  <2>9. h \o p \in Seq(S) /\ Len(h \o p) = 1 + n /\ \A i \in 1..n : (h \o p)[1 + i] = p[i]
    BY <1>0, <2>5, <2>a
  <2>10. (h \o p)[1] = x
    <3>1. 1 \in 1..Len(h) BY <1>0
    <3> QED BY <1>0, <2>a, <3>1
  <2>11. \A i \in 1..k : (h \o p)[i] = r[i]
    <3> TAKE i \in 1..k
    <3>1. CASE i = 1
      <4>1. 1 \in 1..k OBVIOUS
      <4> QED BY <1>2, <2>6, <2>10, <3>1, <4>1
    <3>2. CASE i # 1
      <4>1. i - 1 \in 1..n /\ 1 + (i - 1) = i /\ i - 1 \in 1..Len(s) BY <2>4, <3>2
      <4>2. (h \o p)[i] = s[i - 1] BY <2>5, <2>9, <4>1
      <4>3. all[i] = s[i - 1] BY <1>1, <4>1
      <4> QED BY <2>6, <4>2, <4>3
    <3> QED BY <3>1, <3>2
  <2> DEFINE t == h \o p
  <2>12. t \in Seq(S) /\ Len(t) = k /\ \A i \in 1..k : t[i] = r[i] BY <2>4, <2>9, <2>11
  <2> HIDE DEF t
  <2>13. t = r BY ONLY <2>6, <2>12
  <2> QED BY <2>7, <2>8, <2>13 DEF h, all, t
<1> QED BY <1>4, <1>5

-----------------------------------------------------------------------------
(* The plaintext a worker has read                                         *)

(* What a client in some state has still to send; and, with w and n in the *)
(* receive queue and under way, that the plaintext of what was read before *)
(* is got, and, early in the handshake, that this is part of the hello.    *)
Unsent(c, state, after) ==
    /\ state = "new" => after = Full(c)
    /\ state = "hello" => after = FinishedFragments \o Flow(c)
    /\ state = "finished" => after = Flow(c)
    /\ state = "sent" => after = <<>>
Carried(c, state, w, n, got, early) ==
    \E before, after \in Seq(FragmentOf(c)) :
        /\ before \o (w \o (n \o after)) = Full(c)
        /\ Unsent(c, state, after)
        /\ Plaintext(request[c], before) = got
        /\ early => Len(before) <= request[c].hello

LEMMA CarriedAtFirst ==
  ASSUME TypeOK, NEW c \in Conn
  PROVE  Carried(c, "new", <<>>, <<>>, <<>>, TRUE)
<1> DEFINE F == FragmentOf(c)
           full == Full(c)
<1>1. <<>> \in Seq(F) /\ full \in Seq(F) BY FullIs
<1>2. <<>> \o (<<>> \o (<<>> \o full)) = full
  <2> HIDE DEF full
  <2>1. <<>> \o full = full BY <1>1
  <2> QED BY <2>1
<1>3. Unsent(c, "new", full) BY DEF Unsent
<1>4. Plaintext(request[c], <<>>) = <<>> BY PlainEmpty
<1>5. Len(<<>>) <= request[c].hello BY RequestIs
<1> HIDE DEF F
<1>6. \E before, after \in Seq(F) :
        /\ before \o (<<>> \o (<<>> \o after)) = full
        /\ Unsent(c, "new", after)
        /\ Plaintext(request[c], before) = <<>>
        /\ TRUE => Len(before) <= request[c].hello
  <2> HIDE DEF full
  <2> QED BY <1>1, <1>2, <1>3, <1>4, <1>5
<1> QED BY <1>6 DEF F, full, Carried

(* In state the client sends m, and is in state next then.                 *)
Flight(c, state, next, m) ==
    \/ state = "new" /\ next = "hello" /\ m = Hello(c)
    \/ state = "hello" /\ next = "finished" /\ m = FinishedFragments
    \/ state = "hello" /\ next = "sent" /\ m = FinishedFragments \o Flow(c)
    \/ state = "finished" /\ next = "sent" /\ m = Flow(c)

LEMMA SentIs ==
  ASSUME TypeOK, NEW c \in Conn, NEW state, NEW next, NEW m \in Seq(FragmentOf(c)),
         Flight(c, state, next, m),
         NEW after, Unsent(c, state, after)
  PROVE  \E rest \in Seq(FragmentOf(c)) : after = m \o rest /\ Unsent(c, next, rest)
<1> DEFINE F == FragmentOf(c)
<1>1. /\ Flow(c) \in Seq(F) /\ Hello(c) \in Seq(F) /\ FinishedFragments \in Seq(F)
      /\ FinishedFragments \o Flow(c) \in Seq(F) /\ <<>> \in Seq(F)
  BY FullIs
<1> HIDE DEF F
<1>2. CASE state = "new" /\ next = "hello" /\ m = Hello(c)
  BY <1>1, <1>2 DEF Unsent, Full, F
<1>3. CASE state = "hello" /\ next = "finished" /\ m = FinishedFragments
  BY <1>1, <1>3 DEF Unsent, F
<1>4. m = m \o <<>>
  <2>1. m \in Seq(F) BY DEF F
  <2> QED BY ONLY <2>1
<1>5. CASE state = "hello" /\ next = "sent" /\ m = FinishedFragments \o Flow(c)
  <2>1. after = m \o <<>> /\ Unsent(c, next, <<>>) BY <1>4, <1>5 DEF Unsent
  <2> QED BY <1>1, <2>1 DEF F
<1>6. CASE state = "finished" /\ next = "sent" /\ m = Flow(c)
  <2>1. after = m \o <<>> /\ Unsent(c, next, <<>>) BY <1>4, <1>6 DEF Unsent
  <2> QED BY <1>1, <2>1 DEF F
<1> QED BY <1>2, <1>3, <1>5, <1>6 DEF Flight

LEMMA CarriedSends ==
  ASSUME TypeOK, NEW c \in Conn, NEW state, NEW next, NEW m \in Seq(FragmentOf(c)),
         Flight(c, state, next, m),
         NEW w, NEW n \in Seq(FragmentOf(c)), NEW got, NEW early,
         Carried(c, state, w, n, got, early)
  PROVE  Carried(c, next, w, n \o m, got, early)
<1> DEFINE F == FragmentOf(c)
<1>1. PICK before, after \in Seq(F) :
        /\ before \o (w \o (n \o after)) = Full(c)
        /\ Unsent(c, state, after)
        /\ Plaintext(request[c], before) = got
        /\ early => Len(before) <= request[c].hello
  BY DEF Carried
<1>2. PICK rest \in Seq(F) : after = m \o rest /\ Unsent(c, next, rest)
  <2>1. Unsent(c, state, after) BY <1>1
  <2> QED BY ONLY TypeOK, Flight(c, state, next, m), <2>1, SentIs
<1>3. (n \o m) \o rest = n \o (m \o rest)
  <2>1. n \in Seq(F) /\ m \in Seq(F) /\ rest \in Seq(F) BY <1>2
  <2>2. Grouped(n, m, rest) BY ONLY <2>1, GroupedIs
  <2> QED BY <2>2 DEF Grouped
<1>4. before \o (w \o ((n \o m) \o rest)) = Full(c) BY <1>1, <1>2, <1>3
<1> QED BY <1>1, <1>2, <1>4 DEF Carried

(* The client ends; with a reset, what is under way is lost.               *)
LEMMA CarriedEnds ==
  ASSUME NEW c \in Conn, NEW state, NEW next, next \notin {"new", "hello", "finished", "sent"},
         NEW w, NEW n \in Seq(FragmentOf(c)), NEW got, NEW early,
         Carried(c, state, w, n, got, early)
  PROVE  Carried(c, next, w, n, got, early) /\ Carried(c, next, w, <<>>, got, early)
<1> DEFINE F == FragmentOf(c)
<1>1. PICK before, after \in Seq(F) :
        /\ before \o (w \o (n \o after)) = Full(c)
        /\ Plaintext(request[c], before) = got
        /\ early => Len(before) <= request[c].hello
  BY DEF Carried
<1>2. \A x : Unsent(c, next, x) BY DEF Unsent
<1>3. n \o after \in Seq(F) /\ <<>> \o (n \o after) = n \o after
  <2> DEFINE x == n \o after
  <2>1. x \in Seq(F) BY ConcatProperties
  <2> HIDE DEF x
  <2>2. <<>> \o x = x BY <2>1
  <2> QED BY <2>1, <2>2 DEF x
<1>4. before \o (w \o (<<>> \o (n \o after))) = Full(c) BY <1>1, <1>3
<1> QED BY <1>1, <1>2, <1>3, <1>4 DEF Carried

LEMMA CarriedArrives ==
  ASSUME NEW c \in Conn, NEW state, NEW w \in Seq(FragmentOf(c)), NEW n \in Seq(FragmentOf(c)),
         n # <<>>, NEW got, NEW early, Carried(c, state, w, n, got, early)
  PROVE  Carried(c, state, Append(w, Head(n)), Tail(n), got, early)
<1> DEFINE F == FragmentOf(c)
<1>1. PICK before, after \in Seq(F) :
        /\ before \o (w \o (n \o after)) = Full(c)
        /\ Unsent(c, state, after)
        /\ Plaintext(request[c], before) = got
        /\ early => Len(before) <= request[c].hello
  BY DEF Carried
<1>2. before \o (Append(w, Head(n)) \o (Tail(n) \o after)) = before \o (w \o (n \o after))
  <2>1. w \in Seq(F) /\ n \in Seq(F) /\ before \in Seq(F) /\ after \in Seq(F) BY <1>1
  <2>2. Advanced(before, w, n, after) BY ONLY <2>1, n # <<>>, HeadAppended
  <2> QED BY <2>2 DEF Advanced
<1> QED BY <1>1, <1>2 DEF Carried

(* SSL_accept reads a fragment: it is one of the handshake's.              *)
LEMMA CarriedAccepts ==
  ASSUME TypeOK, NEW c \in Conn, NEW state, NEW w \in Seq(FragmentOf(c)), NEW n \in Seq(FragmentOf(c)),
         w # <<>>, Carried(c, state, w, n, <<>>, TRUE)
  PROVE  Carried(c, state, Tail(w), n, <<>>, ~(Head(w).of = "finished" /\ Head(w).last))
<1> DEFINE F == FragmentOf(c)
           r == request[c]
           hello == request[c].hello
           x == Head(w)
           h == <<Head(w)>>
<1>1. PICK before, after \in Seq(F) :
        /\ before \o (w \o (n \o after)) = Full(c)
        /\ Unsent(c, state, after)
        /\ Plaintext(r, before) = <<>>
        /\ Len(before) <= hello
  BY DEF Carried
<1>2. n \o after \in Seq(F) BY ConcatProperties
<1>3. x.of # "data" /\ (Len(before) = hello => x.of = "finished" /\ x.last)
  <2> DEFINE y == n \o after
  <2>1. y \in Seq(FragmentOf(c)) /\ before \o (w \o y) = Full(c) BY <1>1, <1>2
  <2> HIDE DEF y
  <2> QED BY <1>1, <2>1, NextOfHandshake
<1>4. h \in Seq(F) /\ x \in F BY HeadTailConcat
<1>5. Piece(r, x) = <<>> BY <1>3 DEF Piece
<1>6. PiecesIn(r, F, Seq(Unit)) BY PiecesUnit
<1>7. hello \in Nat BY RequestIs
<1>8. (before \o h) \o (Tail(w) \o (n \o after)) = before \o (w \o (n \o after))
  <2> DEFINE y == n \o after
  <2>1. y \in Seq(F) /\ w \in Seq(F) /\ before \in Seq(F) BY <1>1, <1>2
  <2> HIDE DEF y, F
  <2>2. HeadMoved(before, w, y) BY ONLY <2>1, w # <<>>, HeadMoves
  <2> QED BY <2>2 DEF y, HeadMoved
<1>9. Plaintext(r, h) = <<>>
  <2>1. <<>> \in Seq(Unit) OBVIOUS
  <2>2. Plaintext(r, <<x>>) = Piece(r, x)
    <3> HIDE DEF x, r
    <3> QED BY <1>5, <2>1, PlainOne
  <2> QED BY <1>5, <2>2
<1> HIDE DEF F, r, hello, x, h
<1>10. before \o h \in Seq(F) /\ Len(before \o h) = Len(before) + 1 /\ Len(before) \in Nat
  <2>1. Len(h) = 1 BY DEF h
  <2>2. before \in Seq(F) /\ h \in Seq(F) BY <1>1, <1>4
  <2>3. before \o h \in Seq(F) /\ Len(before \o h) = Len(before) + Len(h) /\ Len(before) \in Nat
    BY ONLY <2>2, ConcatAt
  <2> QED BY <2>1, <2>3
<1>11. Plaintext(r, before \o h) = <<>>
  <2>1. Plaintext(r, before \o h) = Plaintext(r, before) \o Plaintext(r, h)
    <3>1. before \in Seq(F) /\ h \in Seq(F) BY <1>1, <1>4
    <3> QED BY ONLY <3>1, <1>6, PlainConcat
  <2>2. <<>> \o <<>> = <<>> OBVIOUS
  <2> QED BY <1>1, <1>9, <2>1, <2>2
<1>12. ~(x.of = "finished" /\ x.last) => Len(before \o h) <= hello BY <1>1, <1>3, <1>7, <1>10
<1>13. (before \o h) \o (Tail(w) \o (n \o after)) = Full(c) BY <1>1, <1>8
<1> DEFINE b == before \o h
<1>14. /\ b \in Seq(F) /\ b \o (Tail(w) \o (n \o after)) = Full(c) /\ Plaintext(r, b) = <<>>
       /\ ~(x.of = "finished" /\ x.last) => Len(b) <= hello
  BY <1>10, <1>11, <1>12, <1>13
<1> HIDE DEF b
<1> QED BY <1>1, <1>14 DEF Carried, F, r, hello, x

(* A worker reads all that is in the receive queue.                        *)
LEMMA CarriedReads ==
  ASSUME TypeOK, NEW c \in Conn, NEW state, NEW w \in Seq(FragmentOf(c)), NEW n \in Seq(FragmentOf(c)),
         NEW got, Carried(c, state, w, n, got, FALSE)
  PROVE  Carried(c, state, <<>>, n, got \o Plaintext(request[c], w), FALSE)
<1> DEFINE F == FragmentOf(c)
           r == request[c]
<1>1. PICK before, after \in Seq(F) :
        /\ before \o (w \o (n \o after)) = Full(c)
        /\ Unsent(c, state, after)
        /\ Plaintext(r, before) = got
  BY DEF Carried
<1>2. n \o after \in Seq(F) BY ConcatProperties
<1>3. PiecesIn(r, F, Seq(Unit)) /\ w \in Seq(F) BY PiecesUnit
<1> HIDE DEF F, r
<1>4. (before \o w) \o (<<>> \o (n \o after)) = Full(c)
  <2> DEFINE y == n \o after
  <2>1. y \in Seq(F) /\ w \in Seq(F) /\ before \in Seq(F) BY <1>1, <1>2, <1>3
  <2> HIDE DEF y
  <2>2. PartMoved(before, w, y) BY ONLY <2>1, PartMoves
  <2> QED BY <1>1, <2>2 DEF y, PartMoved
<1>5. Plaintext(r, before \o w) = got \o Plaintext(r, w)
  <2>1. Plaintext(r, before \o w) = Plaintext(r, before) \o Plaintext(r, w)
    BY ONLY <1>3, before \in Seq(F), PlainConcat
  <2> QED BY <1>1, <2>1
<1> DEFINE b == before \o w
<1>6. b \in Seq(F) /\ b \o (<<>> \o (n \o after)) = Full(c) /\ Plaintext(r, b) = got \o Plaintext(r, w)
  BY <1>3, <1>4, <1>5, ConcatProperties
<1> HIDE DEF b
<1> QED BY <1>1, <1>6 DEF Carried, F, r

LEMMA CarriedLate ==
  ASSUME NEW c, NEW state, NEW w, NEW n, NEW got, NEW early, Carried(c, state, w, n, got, early)
  PROVE  Carried(c, state, w, n, got, FALSE)
BY DEF Carried

(* What was read of a request is not longer than its plaintext, and is it  *)
(* if it has the empty line of a body that comes with it.                  *)
LEMMA CarriedIs ==
  ASSUME TypeOK, NEW c \in Conn, NEW state, NEW w \in Seq(FragmentOf(c)), NEW n \in Seq(FragmentOf(c)),
         NEW got, NEW early, Carried(c, state, w, n, got, early)
  PROVE  /\ got \in Seq(Unit) /\ Len(got) <= Len(Whole(c))
         /\ Complete(got) /\ "end" \in ToSet(Last(request[c].records)) => got = Whole(c)
<1> DEFINE F == FragmentOf(c)
<1>1. PICK before, after \in Seq(F) :
        before \o (w \o (n \o after)) = Full(c) /\ Plaintext(request[c], before) = got
  BY DEF Carried
<1> DEFINE rest == w \o (n \o after)
<1>2. rest \in Seq(F)
  <2>1. n \o after \in Seq(F) BY ConcatProperties
  <2> QED BY <2>1, ConcatProperties
<1>3. before \o rest = Full(c) BY <1>1
<1> HIDE DEF rest
<1> QED BY <1>1, <1>2, <1>3, PlainOfFirst

-----------------------------------------------------------------------------
(* The inductive invariant of the answers                                  *)

(* The part of the plaintext of the request of c that was read, and what   *)
(* else was done for it.                                                   *)
Stream(c, got, early) == Carried(c, client[c], wire[c], net[c], got, early)
Unanswered(c) == ToSet(toClient[c]) \subseteq Handshake
Replied(c) == Ended(c) => Reply(c) = BeforeZero(Expected(c))
Fits(c) == ~TooLong(Plain(c))
Settled(c) ==
    BodyWithHeader(c) /\ Fits(c) =>
        Replied(c) \/ (Unanswered(c) /\ client[c] \in Gone \cup {"reset"})

(* The buffer of a worker has what it read of its connection, from the     *)
(* first byte on; nothing is answered before the request is complete, and  *)
(* what is left of a connection is an answer in whole, or a client that    *)
(* went away before it.                                                    *)
AnswerAt(w, c) ==
    /\ wpc[w] = "accept" =>
          /\ decryptedBuf[w] = <<>>
          /\ Stream(c, <<>>, TRUE) \/ (tls[c].state = "up" /\ Stream(c, <<>>, FALSE))
    /\ wpc[w] = "read" => \E got : decryptedBuf[w] = got /\ Stream(c, got, FALSE)
    /\ wpc[w] \in {"accept", "read", "respond"} => Unanswered(c)
    /\ wpc[w] = "respond" /\ request[c].kind = "post" /\ BodyWithHeader(c) =>
          decryptedBuf[w] = Whole(c)
    /\ wpc[w] = "body" => ~BodyWithHeader(c)
    /\ wpc[w] = "free" /\ BodyWithHeader(c) => Replied(c)
    /\ wpc[w] = "close" => Settled(c)
AnswersOK ==
    /\ \A w \in Busy, c \in Conn : sock[w] = c => AnswerAt(w, c)
    /\ \A c \in Conn : ToSet(tls[c].wbio) \subseteq Handshake
    /\ \A c \in Conn : tls[c].state = "none" => Stream(c, <<>>, TRUE) /\ Unanswered(c)
    /\ \A c \in Conn : Closed(c) => Settled(c)

LEMMA InitAnswers == Init => AnswersOK
<1> SUFFICES ASSUME Init PROVE AnswersOK OBVIOUS
<1>1. TypeOK BY InitInv DEF Inv
<1>2. Busy = {} /\ \A c \in Conn : tls[c].wbio = <<>> /\ tls[c].state = "none" /\ toClient[c] = <<>>
  BY DEF Init, Busy
<1>3. ToSet(<<>>) = {} BY DEF ToSet
<1>4. ASSUME NEW c \in Conn PROVE Stream(c, <<>>, TRUE)
  <2>1. client[c] = "new" /\ wire[c] = <<>> /\ net[c] = <<>> BY DEF Init
  <2> QED BY <1>1, <2>1, CarriedAtFirst DEF Stream
<1> QED BY <1>2, <1>3, <1>4 DEF AnswersOK, Unanswered, Closed

-----------------------------------------------------------------------------
(* What a step leaves alone                                                *)

Same(c) ==
    /\ request' = request /\ client'[c] = client[c] /\ net'[c] = net[c] /\ wire'[c] = wire[c]
    /\ toClient'[c] = toClient[c] /\ tls'[c] = tls[c]

LEMMA SameRequest ==
  ASSUME request' = request, NEW c \in Conn
  PROVE  /\ \A got, early : Stream(c, got, early)' <=>
                Carried(c, client'[c], wire'[c], net'[c], got, early)
         /\ BodyWithHeader(c)' <=> BodyWithHeader(c)
         /\ Fits(c)' <=> Fits(c)
         /\ Ended(c)' <=> Ended(c)
         /\ Whole(c)' = Whole(c) /\ Expected(c)' = Expected(c)
<1>1. FragmentOf(c)' = FragmentOf(c) /\ Full(c)' = Full(c) /\ Flow(c)' = Flow(c)
  BY DEF FragmentOf, Full, Flow, Hello
<1>2. \A got, early : Stream(c, got, early)' <=>
          Carried(c, client'[c], wire'[c], net'[c], got, early)
  BY <1>1 DEF Stream, Carried, Unsent
<1>3. (BodyWithHeader(c)' <=> BodyWithHeader(c)) /\ (Fits(c)' <=> Fits(c)) /\ (Ended(c)' <=> Ended(c))
      /\ Whole(c)' = Whole(c)
  BY DEF BodyWithHeader, Fits, Ended, Plain, Whole
<1>4. Expected(c)' = Expected(c) BY DEF Expected, RequestBody
<1> QED BY <1>2, <1>3, <1>4

LEMMA ReplyNext == ASSUME NEW c PROVE Reply(c)' = From(toClient'[c])
BY DEF Reply, From, SelectInSeq, Handshake

LEMMA SameReply == ASSUME NEW c, toClient'[c] = toClient[c] PROVE Reply(c)' = Reply(c)
BY ReplyIs, ReplyNext

LEMMA SameConnection ==
  ASSUME NEW c \in Conn, Same(c)
  PROVE  /\ \A got, early : Stream(c, got, early)' <=> Stream(c, got, early)
         /\ BodyWithHeader(c)' <=> BodyWithHeader(c)
         /\ Whole(c)' = Whole(c)
         /\ Unanswered(c)' <=> Unanswered(c)
         /\ Replied(c)' <=> Replied(c)
         /\ Settled(c)' <=> Settled(c)
<1>1. /\ request' = request /\ client'[c] = client[c] /\ net'[c] = net[c] /\ wire'[c] = wire[c]
      /\ toClient'[c] = toClient[c]
  BY DEF Same
<1>2. \A got, early : Stream(c, got, early)' <=> Stream(c, got, early)
  BY <1>1, SameRequest DEF Stream
<1>3. Unanswered(c)' <=> Unanswered(c) BY <1>1 DEF Unanswered
<1>4. Replied(c)' <=> Replied(c) BY <1>1, SameReply, SameRequest DEF Replied
<1>5. Settled(c)' <=> Settled(c) BY <1>1, <1>3, <1>4, SameRequest DEF Settled
<1> QED BY <1>1, <1>2, <1>3, <1>4, <1>5, SameRequest

LEMMA SameAnswer ==
  ASSUME NEW c \in Conn, Same(c), NEW w, wpc'[w] = wpc[w], decryptedBuf'[w] = decryptedBuf[w],
         AnswerAt(w, c)
  PROVE  AnswerAt(w, c)'
<1>1. request' = request /\ tls'[c] = tls[c] BY DEF Same
<1> QED BY <1>1, SameConnection DEF AnswerAt

LEMMA SameAnswers ==
  ASSUME AnswersOK, UNCHANGED <<request, client, net, wire, toClient, tls, wpc, sock, decryptedBuf>>
  PROVE  AnswersOK'
<1>1. \A c \in Conn : Same(c) BY DEF Same
<1>2. Busy' = Busy BY DEF Busy
<1>3. \A c \in Conn : Closed(c)' <=> Closed(c) BY DEF Closed
<1> QED BY <1>1, <1>2, <1>3, SameAnswer, SameConnection DEF AnswersOK

(* A client or the network does something to c.                            *)
LEMMA ClientAnswers ==
  ASSUME Inv, AnswersOK, NEW c \in Conn, UNCHANGED <<request, toClient, tls, wpc, sock, decryptedBuf>>,
         \A d \in Conn \ {c} : Same(d),
         \A got, early : Stream(c, got, early) =>
             Carried(c, client'[c], wire'[c], net'[c], got, early),
         client[c] \in Gone \cup {"reset"} => client'[c] \in Gone \cup {"reset"}
  PROVE  AnswersOK'
<1>1. \A got, early : Stream(c, got, early) => Stream(c, got, early)' BY SameRequest
<1>2. (Unanswered(c)' <=> Unanswered(c)) /\ (Replied(c)' <=> Replied(c))
  BY SameReply, SameRequest DEF Unanswered, Replied
<1>3. Settled(c) => Settled(c)' BY <1>2, SameRequest DEF Settled
<1>4. \A w \in Worker : AnswerAt(w, c) => AnswerAt(w, c)'
  BY <1>1, <1>2, <1>3, SameRequest DEF AnswerAt
<1>5. Busy' = Busy /\ Busy \subseteq Worker BY DEF Busy
<1>6. \A w \in Busy, d \in Conn : sock[w] = d => AnswerAt(w, d)'
  BY <1>4, <1>5, SameAnswer DEF AnswersOK
<1>7. \A d \in Conn : Settled(d) => Settled(d)' BY <1>3, SameConnection
<1>8. ASSUME NEW d \in Conn, Closed(d)' PROVE Closed(d)
  <2>1. client[d] = "new" => tls[d].state = "none" BY DEF Inv, PlacesOK
  <2> QED BY <1>8, <2>1 DEF Closed
<1>9. \A d \in Conn : tls[d].state = "none" => Stream(d, <<>>, TRUE)' /\ Unanswered(d)'
  BY <1>1, <1>2, SameConnection DEF AnswersOK
<1> QED BY <1>5, <1>6, <1>7, <1>8, <1>9 DEF AnswersOK

(* Worker w does something to its connection c.                            *)
OnlyAt(w, c) ==
    /\ w \in Worker /\ c = sock[w] /\ wpc[w] # "dequeue" /\ wpc'[w] # "dequeue"
    /\ UNCHANGED <<request, net, sock>>
    /\ \A x \in Worker \ {w} : wpc'[x] = wpc[x] /\ decryptedBuf'[x] = decryptedBuf[x]
    /\ \A d \in Conn \ {c} : Same(d)

LEMMA WorkAnswers ==
  ASSUME Inv, AnswersOK, NEW w \in Worker, NEW c \in Conn, OnlyAt(w, c),
         AnswerAt(w, c)', ToSet(tls'[c].wbio) \subseteq Handshake, tls'[c].state # "none"
  PROVE  AnswersOK'
<1>1. Busy' = Busy /\ w \in Busy BY DEF Busy, OnlyAt
<1>2. ASSUME NEW x \in Busy, NEW d \in Conn, sock[x] = d PROVE AnswerAt(x, d)'
  <2>1. CASE x = w BY <1>2, <2>1 DEF OnlyAt
  <2>2. CASE x # w
    <3>1. d # c BY <1>1, <1>2, <2>2 DEF Inv, OneOwner, OnlyAt
    <3>2. wpc'[x] = wpc[x] /\ decryptedBuf'[x] = decryptedBuf[x] /\ Same(d)
      BY <2>2, <3>1 DEF OnlyAt, Busy
    <3>3. AnswerAt(x, d) BY <1>2 DEF AnswersOK
    <3> QED BY <3>2, <3>3, SameAnswer
  <2> QED BY <2>1, <2>2
<1>3. sock' = sock BY DEF OnlyAt
<1>4. \A d \in Conn : ToSet(tls'[d].wbio) \subseteq Handshake BY DEF AnswersOK, OnlyAt, Same
<1>5. ASSUME NEW d \in Conn, tls'[d].state = "none" PROVE Stream(d, <<>>, TRUE)' /\ Unanswered(d)'
  <2>1. Same(d) /\ tls[d].state = "none" BY <1>5 DEF OnlyAt, Same
  <2> QED BY <2>1, SameConnection DEF AnswersOK
<1>6. ASSUME NEW d \in Conn, Closed(d)' PROVE Settled(d)'
  <2>1. d # c BY <1>3, <1>6 DEF Closed, OnlyAt
  <2>2. Same(d) BY <2>1 DEF OnlyAt
  <2>3. Closed(d) BY <1>3, <1>6, <2>2 DEF Closed, Same
  <2> QED BY <2>2, <2>3, SameConnection DEF AnswersOK
<1> QED BY <1>1, <1>2, <1>3, <1>4, <1>5, <1>6 DEF AnswersOK

-----------------------------------------------------------------------------
(* Clients, network and main thread                                        *)

LEMMA SendsAnswers ==
  ASSUME Inv, AnswersOK, NEW c \in Conn, NEW next, NEW m \in Seq(FragmentOf(c)),
         next \notin Gone \cup {"reset"}, Flight(c, client[c], next, m),
         Sends(c, next, m), UNCHANGED <<request, wire, toClient, tls, wpc, sock, decryptedBuf>>
  PROVE  AnswersOK'
<1>1. /\ client \in [Conn -> ClientStates] /\ net \in [Conn -> Seq(Fragment)] /\ TypeOK
      /\ net[c] \in Seq(FragmentOf(c)) /\ wire[c] \in Seq(FragmentOf(c))
  BY OldType DEF Inv, FragmentsOK
<1>2. client' = [client EXCEPT ![c] = next] /\ net' = [net EXCEPT ![c] = net[c] \o m] BY DEF Sends
<1>3. client'[c] = next /\ net'[c] = net[c] \o m /\ wire'[c] = wire[c] BY <1>1, <1>2
<1>4. \A d \in Conn \ {c} : Same(d) BY <1>1, <1>2 DEF Same
<1>5. ASSUME NEW got, NEW early, Stream(c, got, early)
      PROVE  Carried(c, client'[c], wire'[c], net'[c], got, early)
  <2>1. Carried(c, client[c], wire[c], net[c], got, early) BY <1>5 DEF Stream
  <2>2. Carried(c, next, wire[c], net[c] \o m, got, early) BY <1>1, <2>1, CarriedSends
  <2> QED BY <1>3, <2>2
<1>6. client[c] \notin Gone \cup {"reset"} BY DEF Flight, Gone
<1> QED BY <1>4, <1>5, <1>6, ClientAnswers

LEMMA ClientStepAnswers ==
  ASSUME Inv, AnswersOK, NEW c \in Conn,
         Connect(c) \/ ClientSends(c) \/ ClientEnds(c) \/ ResetArrives(c) \/ Arrives(c)
  PROVE  AnswersOK'
<1> USE DEF mainVars, workerVars, clientVars
<1>1. /\ client \in [Conn -> ClientStates] /\ net \in [Conn -> Seq(Fragment)] /\ TypeOK
      /\ wire \in [Conn -> Seq(Fragment)]
      /\ net[c] \in Seq(FragmentOf(c)) /\ wire[c] \in Seq(FragmentOf(c))
  BY OldType DEF Inv, FragmentsOK
<1>2. /\ Hello(c) \in Seq(FragmentOf(c)) /\ FinishedFragments \in Seq(FragmentOf(c))
      /\ Flow(c) \in Seq(FragmentOf(c)) /\ FinishedFragments \o Flow(c) \in Seq(FragmentOf(c))
  BY <1>1, FullIs
<1>3. CASE Connect(c)
  <2>1. Flight(c, client[c], "hello", Hello(c)) /\ "hello" \notin Gone \cup {"reset"}
    BY <1>3 DEF Connect, Flight, Gone
  <2>2. Sends(c, "hello", Hello(c)) BY <1>3 DEF Connect, Hello
  <2>3. UNCHANGED <<request, wire, toClient, tls, wpc, sock, decryptedBuf>> BY <1>3 DEF Connect
  <2> QED BY <1>2, <2>1, <2>2, <2>3, SendsAnswers
<1>4. CASE ClientSends(c)
  <2>1. UNCHANGED <<request, wire, toClient, tls, wpc, sock, decryptedBuf>> BY <1>4 DEF ClientSends
  <2>2. \E next \in {"finished", "sent"}, m \in Seq(FragmentOf(c)) :
           Flight(c, client[c], next, m) /\ Sends(c, next, m)
    <3>1. \/ client[c] = "hello" /\ Sends(c, "sent", FinishedFragments \o Flow(c))
          \/ client[c] = "hello" /\ Sends(c, "finished", FinishedFragments)
          \/ client[c] = "finished" /\ Sends(c, "sent", Flow(c))
      BY <1>4 DEF ClientSends, Flow
    <3> QED BY <1>2, <3>1 DEF Flight
  <2>3. "finished" \notin Gone \cup {"reset"} /\ "sent" \notin Gone \cup {"reset"} BY DEF Gone
  <2> QED BY <2>1, <2>2, <2>3, SendsAnswers
<1>5. CASE ClientEnds(c) \/ ResetArrives(c)
  <2> USE DEF ClientEnds, ResetArrives
  <2>1. UNCHANGED <<request, wire, toClient, tls, wpc, sock, decryptedBuf>> BY <1>5
  <2>2. PICK next \in Gone \cup {"reset"} : client' = [client EXCEPT ![c] = next] BY <1>5 DEF Gone
  <2>3. net' = net \/ net' = [net EXCEPT ![c] = <<>>] BY <1>5
  <2> HIDE DEF ClientEnds, ResetArrives
  <2>4. \A d \in Conn \ {c} : Same(d) BY <1>1, <2>1, <2>2, <2>3 DEF Same
  <2>5. client'[c] = next /\ (net'[c] = net[c] \/ net'[c] = <<>>) /\ wire'[c] = wire[c]
    BY <1>1, <2>1, <2>2, <2>3
  <2>6. ASSUME NEW got, NEW early, Stream(c, got, early)
        PROVE  Carried(c, client'[c], wire'[c], net'[c], got, early)
    <3>1. Carried(c, client[c], wire[c], net[c], got, early) BY <2>6 DEF Stream
    <3>2. next \notin {"new", "hello", "finished", "sent"} BY DEF Gone
    <3>3. Carried(c, next, wire[c], net[c], got, early) /\ Carried(c, next, wire[c], <<>>, got, early)
      BY <1>1, <3>1, <3>2, CarriedEnds
    <3> QED BY <2>5, <3>3
  <2> QED BY <2>1, <2>4, <2>5, <2>6, ClientAnswers
<1>6. CASE Arrives(c)
  <2>1. UNCHANGED <<request, client, toClient, tls, wpc, sock, decryptedBuf>> /\ net[c] # <<>>
    BY <1>6 DEF Arrives
  <2>2. /\ wire' = [wire EXCEPT ![c] = Append(wire[c], Head(net[c]))]
        /\ net' = [net EXCEPT ![c] = Tail(net[c])]
    BY <1>6 DEF Arrives
  <2>3. wire'[c] = Append(wire[c], Head(net[c])) /\ net'[c] = Tail(net[c]) BY <1>1, <2>2
  <2>4. \A d \in Conn \ {c} : Same(d) BY <1>1, <2>1, <2>2 DEF Same
  <2>5. ASSUME NEW got, NEW early, Stream(c, got, early)
        PROVE  Carried(c, client'[c], wire'[c], net'[c], got, early)
    <3>1. Carried(c, client[c], wire[c], net[c], got, early) BY <2>5 DEF Stream
    <3>2. Carried(c, client[c], Append(wire[c], Head(net[c])), Tail(net[c]), got, early)
      BY <1>1, <2>1, <3>1, CarriedArrives
    <3> QED BY <2>1, <2>3, <3>2
  <2> QED BY <2>1, <2>4, <2>5, ClientAnswers
<1> QED BY <1>3, <1>4, <1>5, <1>6

LEMMA MainAnswers == ASSUME Inv, AnswersOK, MainStep PROVE AnswersOK'
<1>1. UNCHANGED <<request, client, net, wire, toClient, tls, wpc, sock, decryptedBuf>>
  BY DEF MainStep, EpollWait, Accept, HandOff, clientVars, workerVars
<1> QED BY <1>1, SameAnswers

-----------------------------------------------------------------------------
(* A worker takes a connection, and gives it up                            *)

LEMMA DequeueAnswers == ASSUME Inv, AnswersOK, NEW w \in Worker, Dequeue(w) PROVE AnswersOK'
<1> USE DEF Dequeue, Goto, clientVars
<1>1. PICK c \in Conn : c = Head(queue) /\ c \in ToSet(queue)
  <2>1. /\ queue \in Seq(Conn) /\ queue # <<>>
        /\ \A i, j \in 1..Len(queue) : queue[i] = queue[j] => i = j
    BY DEF Inv, TypeOK, OneOwner
  <2> QED BY <2>1, HeadTailSet
<1>2. /\ sock' = [sock EXCEPT ![w] = c] /\ tls' = [tls EXCEPT ![c].state = "hello"]
      /\ wpc' = [wpc EXCEPT ![w] = "accept"] /\ decryptedBuf' = [decryptedBuf EXCEPT ![w] = <<>>]
      /\ UNCHANGED <<request, client, net, wire, toClient>>
  BY <1>1 DEF ClearedBuf
<1>3. tls[c].state = "none" /\ client[c] # "new" /\ \A x \in Busy : sock[x] # c
  BY <1>1 DEF Inv, OneOwner, PlacesOK, Waits
<1>4. w \notin Busy /\ sock[w] = NoConn BY DEF Inv, PlacesOK, Busy
<1> HIDE DEF Dequeue
<1>5. /\ tls'[c].state = "hello" /\ tls'[c].wbio = tls[c].wbio
      /\ \A d \in Conn \ {c} : tls'[d] = tls[d]
  <2>1. tls \in [Conn -> SslObject] BY OldType
  <2>2. tls[c] \in SslObject BY <1>1, <2>1
  <2> QED BY <1>1, <1>2, <2>1, <2>2 DEF SslObject
<1>6. /\ wpc'[w] = "accept" /\ sock'[w] = c /\ decryptedBuf'[w] = <<>>
      /\ \A x \in Worker \ {w} : /\ wpc'[x] = wpc[x] /\ sock'[x] = sock[x]
                                 /\ decryptedBuf'[x] = decryptedBuf[x]
  <2>1. /\ sock \in [Worker -> Conn \cup {NoConn}] /\ wpc \in [Worker -> Labels]
        /\ decryptedBuf \in [Worker -> Seq(Unit)]
    BY OldType DEF Inv, TypeOK
  <2> QED BY <1>2, <2>1
<1>7. Busy' = Busy \cup {w} BY <1>4, <1>6 DEF Busy
<1>8. \A d \in Conn \ {c} : Same(d) BY <1>2, <1>5 DEF Same
<1>9. AnswerAt(w, c)'
  <2>1. Stream(c, <<>>, TRUE) /\ Unanswered(c) BY <1>1, <1>3 DEF AnswersOK
  <2>2. Stream(c, <<>>, TRUE)' BY <1>1, <1>2, <2>1, SameRequest DEF Stream
  <2>3. Unanswered(c)' BY <1>2, <2>1 DEF Unanswered
  <2> QED BY <1>6, <2>2, <2>3 DEF AnswerAt
<1>10. ASSUME NEW x \in Busy', NEW d \in Conn, sock'[x] = d PROVE AnswerAt(x, d)'
  <2>1. CASE x = w BY <1>6, <1>9, <1>10, <2>1
  <2>2. CASE x # w
    <3>1. x \in Busy /\ x \in Worker /\ sock[x] = d BY <1>6, <1>7, <1>10, <2>2 DEF Busy
    <3>2. d \in Conn \ {c} /\ AnswerAt(x, d) BY <1>3, <3>1 DEF AnswersOK
    <3> QED BY <1>6, <1>8, <2>2, <3>1, <3>2, SameAnswer
  <2> QED BY <2>1, <2>2
<1>11. \A d \in Conn : ToSet(tls'[d].wbio) \subseteq Handshake BY <1>1, <1>5 DEF AnswersOK
<1>12. ASSUME NEW d \in Conn, tls'[d].state = "none" PROVE Stream(d, <<>>, TRUE)' /\ Unanswered(d)'
  <2>1. Same(d) /\ tls[d].state = "none" BY <1>5, <1>8, <1>12
  <2> QED BY <2>1, SameConnection DEF AnswersOK
<1>13. ASSUME NEW d \in Conn, Closed(d)' PROVE Settled(d)'
  <2>1. d # c BY <1>6, <1>13 DEF Closed
  <2>2. Closed(d)
    <3>1. \A x \in Worker : sock[x] # d BY <1>4, <1>6, <1>13, NameAssumption DEF Closed
    <3> QED BY <1>2, <1>5, <1>13, <2>1, <3>1 DEF Closed
  <2> QED BY <1>8, <2>1, <2>2, SameConnection DEF AnswersOK
<1> QED BY <1>10, <1>11, <1>12, <1>13 DEF AnswersOK

LEMMA CloseSocketAnswers ==
  ASSUME Inv, AnswersOK, NEW w \in Worker, CloseSocket(w)
  PROVE  AnswersOK'
<1> USE DEF CloseSocket, Goto, clientVars, mainVars
<1>1. PICK c \in Conn : w \in Busy /\ c = sock[w] BY WorkerHolds
<1>2. Settled(c) BY <1>1 DEF AnswersOK, AnswerAt
<1>3. /\ sock'[w] = NoConn /\ wpc'[w] = "dequeue"
      /\ \A x \in Worker \ {w} : sock'[x] = sock[x] /\ wpc'[x] = wpc[x]
  BY DEF Inv, TypeOK
<1>4. UNCHANGED <<request, client, net, wire, toClient, tls, decryptedBuf>> OBVIOUS
<1> HIDE DEF CloseSocket
<1>5. \A d \in Conn : Same(d) BY <1>4 DEF Same
<1>6. ASSUME NEW x \in Busy', NEW d \in Conn, sock'[x] = d PROVE AnswerAt(x, d)'
  <2>1. x \in Worker \ {w} /\ x \in Busy /\ sock[x] = d BY <1>3, <1>6 DEF Busy
  <2>2. AnswerAt(x, d) BY <2>1 DEF AnswersOK
  <2> QED BY <1>3, <1>4, <1>5, <2>1, <2>2, SameAnswer
<1>7. ASSUME NEW d \in Conn, Closed(d)' PROVE Settled(d)'
  <2>1. CASE d = c BY <1>2, <1>5, <2>1, SameConnection
  <2>2. CASE d # c
    <3>1. \A x \in Worker : sock[x] # d BY <1>1, <1>3, <1>7, <2>2 DEF Closed
    <3>2. Closed(d) BY <1>4, <1>7, <3>1 DEF Closed
    <3> QED BY <1>5, <3>2, SameConnection DEF AnswersOK
  <2> QED BY <2>1, <2>2
<1>8. \A d \in Conn : tls'[d].state = "none" => Stream(d, <<>>, TRUE)' /\ Unanswered(d)'
  BY <1>4, <1>5, SameConnection DEF AnswersOK
<1> QED BY <1>4, <1>6, <1>7, <1>8 DEF AnswersOK

-----------------------------------------------------------------------------
(* A worker reads                                                          *)

LEMMA HolderAnswers ==
  ASSUME Inv, AnswersOK, NEW w \in Worker, wpc[w] # "dequeue"
  PROVE  \E c \in Conn : /\ c = sock[w] /\ AnswerAt(w, c) /\ LifeAt(w) /\ TypeOK
                         /\ tls[c] \in SslObject /\ ToSet(tls[c].wbio) \subseteq Handshake
                         /\ tls[c].state # "none"
                         /\ net[c] \in Seq(FragmentOf(c)) /\ wire[c] \in Seq(FragmentOf(c))
                         /\ toClient[c] \in Seq(Message)
<1>1. PICK c \in Conn : c = sock[w] /\ LifeAt(w) /\ w \in Busy /\ tls[c].state # "none" BY WorkerHolds
<1>2. AnswerAt(w, c) /\ ToSet(tls[c].wbio) \subseteq Handshake BY <1>1 DEF AnswersOK
<1>3. tls[c] \in SslObject /\ toClient[c] \in Seq(Message) BY OldType
<1> QED BY <1>1, <1>2, <1>3 DEF Inv, FragmentsOK

(* What SSL writes when it is given fragments is of the handshake.         *)
LEMMA FedHandshake ==
  ASSUME TypeOK, NEW c \in Conn, NEW state, NEW out \in Seq(Message), ToSet(out) \subseteq Handshake,
         NEW fragments \in Seq(FragmentOf(c))
  PROVE  /\ Fed(request[c], state, out, fragments).out \in Seq(Message)
         /\ ToSet(Fed(request[c], state, out, fragments).out) \subseteq Handshake
         /\ Fed(request[c], state, out, fragments).plain = Plaintext(request[c], fragments)
<1>1. /\ Fed(request[c], state, out, fragments).out \in Seq(Message)
      /\ ToSet(Fed(request[c], state, out, fragments).out) \subseteq ToSet(out) \cup {"flight", "finished"}
  BY FedType
<1>2. Fed(request[c], state, out, fragments).plain = Plaintext(request[c], fragments) BY DEF Fed
<1> QED BY <1>1, <1>2 DEF Handshake

LEMMA AcceptReadsAnswers ==
  ASSUME Inv, AnswersOK, NEW w \in Worker, AcceptReads(w)
  PROVE  AnswersOK'
<1> USE DEF AcceptReads, clientVars, mainVars
<1>1. PICK c \in Conn : /\ c = sock[w] /\ AnswerAt(w, c) /\ LifeAt(w) /\ TypeOK
                        /\ tls[c] \in SslObject /\ ToSet(tls[c].wbio) \subseteq Handshake
                        /\ net[c] \in Seq(FragmentOf(c)) /\ wire[c] \in Seq(FragmentOf(c))
                        /\ toClient[c] \in Seq(Message)
  BY HolderAnswers
<1> DEFINE x == Head(wire[c])
           s == Fed(request[c], tls[c].state, <<>>, <<Head(wire[c])>>)
           object == [tls[c] EXCEPT !.state = s.state]
<1>2. /\ tls' = [tls EXCEPT ![c] = object] /\ toClient' = [toClient EXCEPT ![c] = toClient[c] \o s.out]
      /\ wire' = [wire EXCEPT ![c] = Tail(wire[c])]
      /\ wpc[w] = "accept" /\ tls[c].state # "up" /\ wire[c] # <<>>
      /\ UNCHANGED <<request, client, net, wpc, sock, decryptedBuf>>
  BY <1>1
<1> HIDE DEF AcceptReads
<1>3. <<x>> \in Seq(FragmentOf(c)) /\ x \in FragmentOf(c) BY <1>1, <1>2, HeadTailConcat
<1>4. s.out \in Seq(Message) /\ ToSet(s.out) \subseteq Handshake
  <2>1. <<>> \in Seq(Message) /\ ToSet(<<>>) \subseteq Handshake BY DEF ToSet
  <2> QED BY <1>1, <1>3, <2>1, FedHandshake
<1>5. /\ s.state \in {"hello", "finished", "up"}
      /\ ~(x.of = "finished" /\ x.last) \/ s.state = "up"
  <2>1. tls[c].state \in {"hello", "finished"} BY <1>1, <1>2 DEF LifeAt, InUse
  <2>2. HasLast("finished", <<x>>) <=> x.of = "finished" /\ x.last
    <3>1. DOMAIN <<x>> = {1} /\ <<x>>[1] = x OBVIOUS
    <3> HIDE DEF x
    <3> QED BY <3>1 DEF HasLast
  <2> QED BY <2>1, <2>2 DEF Fed
<1> HIDE DEF s
<1>6. object \in SslObject /\ object.state = s.state /\ object.wbio = tls[c].wbio
  BY <1>1, <1>5 DEF SslObject
<1> HIDE DEF object
<1>7. tls' \in [Conn -> SslObject] /\ tls'[c] = object /\ \A d \in Conn \ {c} : tls'[d] = tls[d]
  BY <1>2, <1>6, TlsType
<1>8. /\ toClient'[c] = toClient[c] \o s.out /\ wire'[c] = Tail(wire[c])
      /\ \A d \in Conn \ {c} : toClient'[d] = toClient[d] /\ wire'[d] = wire[d]
  <2>1. toClient \in [Conn -> Seq(Message)] /\ wire \in [Conn -> Seq(Fragment)] BY OldType
  <2> QED BY <1>2, <2>1
<1>9. OnlyAt(w, c) BY <1>1, <1>2, <1>7, <1>8 DEF OnlyAt, Same
<1>10. Unanswered(c)'
  <2>1. Unanswered(c) BY <1>1, <1>2 DEF AnswerAt
  <2>2. ToSet(toClient[c] \o s.out) = ToSet(toClient[c]) \cup ToSet(s.out) BY <1>1, <1>4, ConcatSet
  <2> QED BY <1>4, <1>8, <2>1, <2>2 DEF Unanswered
<1>11. Stream(c, <<>>, TRUE)' \/ (tls'[c].state = "up" /\ Stream(c, <<>>, FALSE)')
  <2>1. Stream(c, <<>>, TRUE) /\ decryptedBuf[w] = <<>> BY <1>1, <1>2 DEF AnswerAt
  <2>2. Carried(c, client[c], wire[c], net[c], <<>>, TRUE) BY <2>1 DEF Stream
  <2> DEFINE done == x.of = "finished" /\ x.last
  <2>3. Carried(c, client[c], Tail(wire[c]), net[c], <<>>, ~done)
    BY <1>1, <1>2, <2>2, CarriedAccepts
  <2>4. CASE done
    <3>1. Carried(c, client[c], Tail(wire[c]), net[c], <<>>, FALSE) BY <2>3, CarriedLate
    <3> QED BY <1>2, <1>5, <1>6, <1>7, <1>8, <2>4, <3>1, SameRequest
  <2>5. CASE ~done
    <3>1. Carried(c, client[c], Tail(wire[c]), net[c], <<>>, TRUE)
      <4> HIDE DEF done
      <4>1. ~done = TRUE BY <2>5
      <4> QED BY <2>3, <4>1
    <3> QED BY <1>2, <1>8, <3>1, SameRequest
  <2> QED BY <2>4, <2>5
<1>12. decryptedBuf'[w] = <<>> BY <1>1, <1>2 DEF AnswerAt
<1>13. AnswerAt(w, c)' BY <1>2, <1>10, <1>11, <1>12 DEF AnswerAt
<1>14. tls'[c].state # "none" /\ ToSet(tls'[c].wbio) \subseteq Handshake BY <1>1, <1>5, <1>6, <1>7
<1> QED BY <1>9, <1>13, <1>14, WorkAnswers

LEMMA AcceptReturnsAnswers ==
  ASSUME Inv, AnswersOK, NEW w \in Worker, AcceptReturns(w)
  PROVE  AnswersOK'
<1> USE DEF AcceptReturns, Goto, clientVars, mainVars
<1>1. PICK c \in Conn : /\ c = sock[w] /\ AnswerAt(w, c) /\ LifeAt(w) /\ TypeOK
                        /\ tls[c] \in SslObject /\ ToSet(tls[c].wbio) \subseteq Handshake
                        /\ net[c] \in Seq(FragmentOf(c)) /\ wire[c] \in Seq(FragmentOf(c))
                        /\ toClient[c] \in Seq(Message)
  BY HolderAnswers
<1> DEFINE object == [tls[c] EXCEPT !.bio = "memory"]
<1>2. /\ tls' = [tls EXCEPT ![c] = object] /\ wpc' = [wpc EXCEPT ![w] = "read"]
      /\ client' = client \/ client' = Reported(c)
      /\ wpc[w] = "accept" /\ UNCHANGED <<request, net, wire, toClient, sock, decryptedBuf>>
  BY <1>1
<1> HIDE DEF AcceptReturns
<1>3. object \in SslObject /\ object.wbio = tls[c].wbio /\ object.state = tls[c].state
  BY <1>1 DEF SslObject
<1> HIDE DEF object
<1>4. tls' \in [Conn -> SslObject] /\ tls'[c] = object /\ \A d \in Conn \ {c} : tls'[d] = tls[d]
  BY <1>2, <1>3, TlsType
<1>5. wpc'[w] = "read" /\ \A x \in Worker \ {w} : wpc'[x] = wpc[x]
  BY <1>2, GotoType DEF Labels
<1>6. /\ client'[c] = client[c] \/ client'[c] = "broken"
      /\ \A d \in Conn \ {c} : client'[d] = client[d]
  <2>1. client \in [Conn -> ClientStates] BY OldType
  <2> QED BY <1>2, <2>1 DEF Reported
<1>7. OnlyAt(w, c) BY <1>1, <1>2, <1>4, <1>5, <1>6 DEF OnlyAt, Same
<1>8. decryptedBuf'[w] = <<>> /\ Stream(c, <<>>, FALSE)'
  <2>1. decryptedBuf[w] = <<>> /\ (Stream(c, <<>>, TRUE) \/ Stream(c, <<>>, FALSE))
    BY <1>1, <1>2 DEF AnswerAt
  <2>2. Carried(c, client[c], wire[c], net[c], <<>>, FALSE) BY <2>1, CarriedLate DEF Stream
  <2>3. "broken" \notin {"new", "hello", "finished", "sent"} OBVIOUS
  <2>4. Carried(c, "broken", wire[c], net[c], <<>>, FALSE) BY <1>1, <2>2, <2>3, CarriedEnds
  <2>5. Carried(c, client'[c], wire'[c], net'[c], <<>>, FALSE) BY <1>2, <1>6, <2>2, <2>4
  <2> QED BY <1>2, <2>1, <2>5, SameRequest
<1>9. Unanswered(c)' BY <1>1, <1>2 DEF AnswerAt, Unanswered
<1>10. AnswerAt(w, c)' BY <1>5, <1>8, <1>9 DEF AnswerAt
<1>11. tls'[c].state # "none" /\ ToSet(tls'[c].wbio) \subseteq Handshake
  BY <1>1, <1>2, <1>3, <1>4 DEF LifeAt, InUse
<1> QED BY <1>7, <1>10, <1>11, WorkAnswers

(* When the plaintext has the empty line it is all of the request, if its  *)
(* body ends in that record; longer than the request it never is.          *)
LEMMA ReadAnswers ==
  ASSUME Inv, AnswersOK, NEW w \in Worker, Read(w)
  PROVE  AnswersOK'
<1> USE DEF Read, Decrypted, Goto, clientVars, mainVars
<1>1. PICK c \in Conn : /\ c = sock[w] /\ AnswerAt(w, c) /\ LifeAt(w) /\ TypeOK
                        /\ tls[c] \in SslObject /\ ToSet(tls[c].wbio) \subseteq Handshake
                        /\ net[c] \in Seq(FragmentOf(c)) /\ wire[c] \in Seq(FragmentOf(c))
                        /\ toClient[c] \in Seq(Message)
  BY HolderAnswers
<1> DEFINE s == Fed(request[c], tls[c].state, tls[c].wbio, wire[c])
           units == decryptedBuf[w] \o s.plain
           label == IF TooLong(units) THEN "close" ELSE IF Complete(units) THEN "respond" ELSE "read"
           object == [tls[c] EXCEPT !.state = s.state, !.wbio = s.out]
<1>2. /\ tls' = [tls EXCEPT ![c] = object] /\ decryptedBuf' = [decryptedBuf EXCEPT ![w] = units]
      /\ wire' = [wire EXCEPT ![c] = <<>>] /\ wpc' = [wpc EXCEPT ![w] = label]
      /\ wpc[w] = "read" /\ UNCHANGED <<request, client, net, toClient, sock>>
  BY <1>1
<1> HIDE DEF Read
<1>3. tls[c].wbio \in Seq(Message) /\ tls[c].state \in {"hello", "finished", "up"}
  BY <1>1, <1>2 DEF SslObject, LifeAt, InUse
<1>4. /\ s.state \in {"hello", "finished", "up"} /\ s.out \in Seq(Message)
      /\ ToSet(s.out) \subseteq Handshake /\ s.plain = Plaintext(request[c], wire[c])
  <2>1. s.out \in Seq(Message) /\ ToSet(s.out) \subseteq Handshake /\ s.plain = Plaintext(request[c], wire[c])
    <3> DEFINE out == tls[c].wbio
               fragments == wire[c]
    <3>1. /\ out \in Seq(Message) /\ ToSet(out) \subseteq Handshake /\ fragments \in Seq(FragmentOf(c))
          /\ s = Fed(request[c], tls[c].state, out, fragments) /\ TypeOK
      BY <1>1, <1>3
    <3> HIDE DEF s, out
    <3>2. /\ Fed(request[c], tls[c].state, out, fragments).out \in Seq(Message)
          /\ ToSet(Fed(request[c], tls[c].state, out, fragments).out) \subseteq Handshake
          /\ Fed(request[c], tls[c].state, out, fragments).plain = Plaintext(request[c], fragments)
      BY ONLY <3>1, FedHandshake
    <3> QED BY <3>1, <3>2
  <2>2. s.state \in {tls[c].state, "finished", "up"} BY <1>1, <1>3, FedType
  <2> QED BY <1>3, <2>1, <2>2
<1>5. label \in {"read", "respond", "close"} OBVIOUS
<1> HIDE DEF s
<1>6. object \in SslObject /\ object.state = s.state /\ object.wbio = s.out
  BY <1>1, <1>4 DEF SslObject
<1> HIDE DEF object, label
<1>7. tls' \in [Conn -> SslObject] /\ tls'[c] = object /\ \A d \in Conn \ {c} : tls'[d] = tls[d]
  BY <1>2, <1>6, TlsType
<1>8. wpc'[w] = label /\ \A x \in Worker \ {w} : wpc'[x] = wpc[x]
  BY <1>2, <1>5, GotoType DEF Labels
<1> HIDE DEF units
<1>9. /\ wire'[c] = <<>> /\ decryptedBuf'[w] = units
      /\ \A d \in Conn \ {c} : wire'[d] = wire[d]
      /\ \A x \in Worker \ {w} : decryptedBuf'[x] = decryptedBuf[x]
  <2>1. wire \in [Conn -> Seq(Fragment)] /\ decryptedBuf \in [Worker -> Seq(Unit)] BY OldType
  <2> QED BY <1>2, <2>1
<1>10. OnlyAt(w, c)
  <2>1. wpc'[w] # "dequeue" BY <1>5, <1>8
  <2>2. \A d \in Conn \ {c} : Same(d) BY <1>2, <1>7, <1>9 DEF Same
  <2> QED BY <1>1, <1>2, <1>8, <1>9, <2>1, <2>2 DEF OnlyAt
<1>11. Carried(c, client[c], <<>>, net[c], units, FALSE)
  <2>1. PICK got : decryptedBuf[w] = got /\ Stream(c, got, FALSE) BY <1>1, <1>2 DEF AnswerAt
  <2>2. Carried(c, client[c], wire[c], net[c], got, FALSE) BY <2>1 DEF Stream
  <2>3. Carried(c, client[c], <<>>, net[c], got \o Plaintext(request[c], wire[c]), FALSE)
    BY <1>1, <2>2, CarriedReads
  <2> QED BY <1>4, <2>1, <2>3 DEF units
<1>12. /\ units \in Seq(Unit) /\ Len(units) <= Len(Whole(c))
       /\ Complete(units) /\ "end" \in ToSet(Last(request[c].records)) => units = Whole(c)
  <2>1. <<>> \in Seq(FragmentOf(c)) OBVIOUS
  <2> QED BY <1>1, <1>11, <2>1, CarriedIs
<1>13. PICK got : got = units OBVIOUS
<1>14. Stream(c, got, FALSE)'
  <2>1. Carried(c, client'[c], wire'[c], net'[c], got, FALSE) BY <1>2, <1>9, <1>11, <1>13
  <2> QED BY <1>2, <2>1, SameRequest
<1>15. Unanswered(c) /\ Unanswered(c)' BY <1>1, <1>2 DEF AnswerAt, Unanswered
<1>16. ASSUME Complete(units), request[c].kind = "post", BodyWithHeader(c)
       PROVE  units = Whole(c)
  BY <1>12, <1>16 DEF BodyWithHeader
<1>17. ASSUME TooLong(units) PROVE ~Fits(c)
  <2>1. Len(units) \in Nat /\ Len(Whole(c)) \in Nat
    <3>1. Whole(c) \in Seq(Unit) BY <1>1, RequestIs
    <3> QED BY <1>12, <3>1
  <2>2. Len(Whole(c)) > MAX_HEADER_SIZE BY <1>12, <1>17, <2>1, LimitAssumption DEF TooLong
  <2> QED BY <2>2 DEF Fits, TooLong, Plain, Whole
<1>18. AnswerAt(w, c)'
  <2>1. label = "read" => \E u : decryptedBuf'[w] = u /\ Stream(c, u, FALSE)' BY <1>9, <1>13, <1>14
  <2>2. label = "respond" => Complete(units) BY DEF label
  <2>3. label = "respond" /\ request'[c].kind = "post" /\ BodyWithHeader(c)' =>
           decryptedBuf'[w] = Whole(c)'
    BY <1>2, <1>9, <1>16, <2>2, SameRequest
  <2>4. label = "close" => Settled(c)'
    <3>1. label = "close" => TooLong(units) BY DEF label
    <3> QED BY <1>2, <1>17, <3>1, SameRequest DEF Settled
  <2> QED BY <1>5, <1>8, <1>15, <2>1, <2>3, <2>4 DEF AnswerAt
<1>19. tls'[c].state # "none" /\ ToSet(tls'[c].wbio) \subseteq Handshake BY <1>4, <1>6, <1>7
<1> QED BY <1>10, <1>18, <1>19, WorkAnswers

LEMMA EndAnswers ==
  ASSUME Inv, AnswersOK, NEW w \in Worker, ReadEnd(w) \/ BodyEnds(w)
  PROVE  AnswersOK'
<1> USE DEF ReadEnd, BodyEnds, Goto, clientVars, mainVars
<1>1. PICK c \in Conn : /\ c = sock[w] /\ AnswerAt(w, c) /\ tls[c].state # "none"
                        /\ ToSet(tls[c].wbio) \subseteq Handshake
  BY HolderAnswers
<1>2. /\ UNCHANGED <<request, net, wire, toClient, sock, decryptedBuf, tls>>
      /\ \/ wpc[w] = "read" /\ wpc' = [wpc EXCEPT ![w] = "close"]
         \/ wpc[w] = "body" /\ wpc' = wpc
         \/ wpc[w] = "body" /\ wpc' = [wpc EXCEPT ![w] = "free"]
  OBVIOUS
<1>3. /\ \A d \in Conn \ {c} : client'[d] = client[d]
      /\ wpc[w] = "read" => client'[c] \in Gone \cup {"reset"}
  <2>1. client \in [Conn -> ClientStates] BY OldType
  <2>2. \/ client' = Reported(c)
        \/ client' = [client EXCEPT ![c] = IF client[c] = "closed" THEN "answered" ELSE client[c]]
    BY <1>1
  <2>3. wpc[w] = "read" => client[c] \in Gone \cup {"reset"} /\ client' = Reported(c)
    BY <1>1 DEF EndOfFile, Error
  <2> HIDE DEF ReadEnd, BodyEnds
  <2>4. CASE client' = Reported(c) BY <2>1, <2>3, <2>4 DEF Reported, Gone
  <2>5. CASE client' = [client EXCEPT ![c] = IF client[c] = "closed" THEN "answered" ELSE client[c]]
    <3>1. \A d \in Conn \ {c} : client'[d] = client[d] BY <2>1, <2>5
    <3>2. wpc[w] = "read" => client'[c] \in Gone \cup {"reset"} BY <2>1, <2>3 DEF Reported, Gone
    <3> QED BY <3>1, <3>2
  <2> QED BY <2>2, <2>4, <2>5
<1> HIDE DEF ReadEnd, BodyEnds
<1>4. /\ \/ wpc[w] = "read" /\ wpc'[w] = "close"
         \/ wpc[w] = "body" /\ wpc'[w] \in {"body", "free"}
      /\ \A x \in Worker \ {w} : wpc'[x] = wpc[x]
  <2>1. wpc \in [Worker -> Labels] BY OldType
  <2>2. CASE wpc' = wpc BY <1>2, <2>1, <2>2
  <2>3. CASE wpc' = [wpc EXCEPT ![w] = "close"] BY <1>2, <2>1, <2>3
  <2>4. CASE wpc' = [wpc EXCEPT ![w] = "free"] BY <1>2, <2>1, <2>4
  <2> QED BY <1>2, <2>2, <2>3, <2>4
<1>5. OnlyAt(w, c) BY <1>1, <1>2, <1>3, <1>4 DEF OnlyAt, Same
<1>6. Unanswered(c)' <=> Unanswered(c) BY <1>2 DEF Unanswered
<1>7. (BodyWithHeader(c)' <=> BodyWithHeader(c)) /\ (Fits(c)' <=> Fits(c)) BY <1>2, SameRequest
<1>8. wpc[w] = "read" => Settled(c)' BY <1>1, <1>3, <1>6, <1>7 DEF AnswerAt, Settled
<1>9. wpc[w] = "body" => ~BodyWithHeader(c)' BY <1>1, <1>7 DEF AnswerAt
<1>10. AnswerAt(w, c)' BY <1>4, <1>8, <1>9 DEF AnswerAt
<1> QED BY <1>1, <1>2, <1>5, <1>10, WorkAnswers

-----------------------------------------------------------------------------
(* A worker answers                                                        *)

(* What the client has been sent is of the handshake, so that what is sent *)
(* now, with what was held of the handshake, is the reply.                 *)
LEMMA ReplySent ==
  ASSUME NEW a \in Seq(Message), ToSet(a) \subseteq Handshake,
         NEW b \in Seq(Message), ToSet(b) \subseteq Handshake,
         NEW s \in Seq(Message), s # <<>>, s[1] \notin Handshake
  PROVE  From((a \o b) \o s) = s
<1> DEFINE q == a \o b
<1>1. q \in Seq(Message) /\ ToSet(q) = ToSet(a) \cup ToSet(b) BY ConcatSet
<1> HIDE DEF q
<1>2. From(q \o s) = s BY <1>1, FromAnswer
<1> QED BY <1>2 DEF q

(* A worker sends s, and has freed, read of a body or answered.            *)
LEMMA WritesAnswers ==
  ASSUME Inv, AnswersOK, NEW w \in Worker, wpc[w] \in {"respond", "body"},
         NEW c \in Conn, c = sock[w], NEW s \in Seq(Message), WriteAndSend(c, s),
         NEW label \in {"body", "free"}, wpc' = [wpc EXCEPT ![w] = label],
         UNCHANGED <<request, net, sock, decryptedBuf>>, \A d \in Conn \ {c} : wire'[d] = wire[d],
         BodyWithHeader(c) => /\ wpc[w] = "respond" /\ label = "free" /\ s # <<>>
                              /\ s[1] \notin Handshake /\ (Ended(c) => s = BeforeZero(Expected(c)))
  PROVE  AnswersOK'
<1>1. /\ AnswerAt(w, c) /\ tls[c].state # "none" /\ tls[c] \in SslObject
      /\ ToSet(tls[c].wbio) \subseteq Handshake /\ toClient[c] \in Seq(Message)
  BY HolderAnswers
<1>2. tls' = [tls EXCEPT ![c] = [tls[c] EXCEPT !.wbio = <<>>]]
      /\ \A d \in Conn \ {c} : toClient'[d] = toClient[d]
  BY WriteAndSendType
<1> DEFINE object == [tls[c] EXCEPT !.wbio = <<>>]
<1>3. object \in SslObject /\ object.state = tls[c].state /\ object.wbio = <<>>
  <2>1. <<>> \in Seq(Message) OBVIOUS
  <2> QED BY ONLY <1>1, <2>1 DEF SslObject
<1> HIDE DEF object
<1>4. tls' \in [Conn -> SslObject] /\ tls'[c] = object /\ \A d \in Conn \ {c} : tls'[d] = tls[d]
  BY <1>2, <1>3, TlsType DEF object
<1>5. \A d \in Conn \ {c} : client'[d] = client[d]
  <2>1. client \in [Conn -> ClientStates] BY OldType
  <2> QED BY <2>1 DEF WriteAndSend
<1>6. wpc'[w] = label /\ \A x \in Worker \ {w} : wpc'[x] = wpc[x] BY GotoType DEF Labels
<1>7. OnlyAt(w, c) BY <1>2, <1>4, <1>5, <1>6 DEF OnlyAt, Same
<1>8. /\ (BodyWithHeader(c)' <=> BodyWithHeader(c)) /\ (Ended(c)' <=> Ended(c))
      /\ Expected(c)' = Expected(c)
  BY SameRequest
<1>9. ASSUME BodyWithHeader(c) PROVE Replied(c)'
  <2>1. Unanswered(c) BY <1>1, <1>9 DEF AnswerAt
  <2>2. toClient'[c] = (toClient[c] \o tls[c].wbio) \o s
    <3>1. toClient \in [Conn -> Seq(Message)] BY OldType
    <3> QED BY <3>1 DEF WriteAndSend
  <2>3. tls[c].wbio \in Seq(Message) BY <1>1 DEF SslObject
  <2> DEFINE a == toClient[c]
             b == tls[c].wbio
  <2>4. /\ a \in Seq(Message) /\ ToSet(a) \subseteq Handshake
        /\ b \in Seq(Message) /\ ToSet(b) \subseteq Handshake
    BY <1>1, <2>1, <2>3 DEF Unanswered
  <2> HIDE DEF a, b
  <2>5. From((a \o b) \o s) = s BY <1>9, <2>4, ReplySent
  <2>6. Reply(c)' = s BY <2>2, <2>5, ReplyNext DEF a, b
  <2> QED BY <1>8, <1>9, <2>6 DEF Replied
<1>10. AnswerAt(w, c)' BY <1>6, <1>8, <1>9 DEF AnswerAt
<1>11. tls'[c].state # "none" /\ ToSet(tls'[c].wbio) \subseteq Handshake
  <2>1. ToSet(<<>>) = {} BY DEF ToSet
  <2> QED BY <1>1, <1>3, <1>4, <2>1
<1> QED BY <1>7, <1>10, <1>11, WorkAnswers

LEMMA PageIs ==
  ASSUME NEW x, x # "zero"
  PROVE  BeforeZero(<<x, "page">>) = <<x, "page">> /\ <<x, "page">> # <<>> /\ <<x, "page">>[1] = x
<1>1. ToSet(<<x, "page">>) = {x, "page"}
  <2>1. DOMAIN <<x, "page">> = {1, 2} /\ <<x, "page">>[1] = x /\ <<x, "page">>[2] = "page" OBVIOUS
  <2> QED BY <2>1 DEF ToSet
<1>2. BeforeZero(<<x, "page">>) = <<x, "page">> BY <1>1, BeforeZeroNone
<1> QED BY <1>2

LEMMA RespondPageAnswers ==
  ASSUME Inv, AnswersOK, NEW w \in Worker, RespondPage(w)
  PROVE  AnswersOK'
<1> USE DEF RespondPage, Goto, clientVars, mainVars
<1>1. PICK c \in Conn : c = sock[w] BY WorkerHolds
<1> DEFINE x == StatusLine(request[c].kind)
           s == <<x, "page">>
<1>2. x \in {"200", "400"} BY DEF StatusLine
<1>3. s \in Seq(Message) /\ s # <<>> /\ s[1] \notin Handshake /\ BeforeZero(s) = s
  <2>1. x \in Message /\ "page" \in Message /\ x \notin Handshake /\ x # "zero"
    BY <1>2 DEF Message, Handshake
  <2> HIDE DEF x
  <2> QED BY <2>1, PageIs
<1>4. WriteAndSend(c, s) /\ request[c].kind # "post" /\ wpc[w] = "respond" BY <1>1
<1>5. /\ UNCHANGED <<request, net, sock, decryptedBuf, wire>>
      /\ wpc' = [wpc EXCEPT ![w] = "free"]
  OBVIOUS
<1>6. s = BeforeZero(Expected(c)) BY <1>3, <1>4 DEF Expected
<1> HIDE DEF s, RespondPage
<1> QED BY <1>1, <1>3, <1>4, <1>5, <1>6, WritesAnswers

LEMMA RespondPostAnswers ==
  ASSUME Inv, AnswersOK, NEW w \in Worker, RespondPost(w)
  PROVE  AnswersOK'
<1> USE DEF RespondPost, Goto, clientVars, mainVars
<1>1. PICK c \in Conn : c = sock[w] /\ AnswerAt(w, c) /\ TypeOK BY HolderAnswers
<1> DEFINE body == ReceivedBody(w)
           sent == BeforeZero(body)
           answer == <<StatusLine("post")>> \o sent
           label == IF totalLen'[w] < ContentLength(c) THEN "body" ELSE "free"
<1>2. body \in Seq(Unit)
  <2>1. decryptedBuf[w] \in Seq(Unit) BY OldType
  <2> QED BY <2>1, PartType DEF ReceivedBody, AfterEmptyLine, SelectInSeq
<1>3. PICK stray \in PastEnd(decryptedBuf[w]) : WriteAndSend(c, answer \o stray) BY <1>1
<1> DEFINE s == answer \o stray
<1>4. /\ wpc[w] = "respond" /\ request[c].kind = "post"
      /\ wpc' = [wpc EXCEPT ![w] = label] /\ label \in {"body", "free"}
      /\ totalLen' = [totalLen EXCEPT ![w] = Len(body)]
      /\ UNCHANGED <<request, net, sock, decryptedBuf, wire>>
  BY <1>1
<1>5. BodyWithHeader(c) => body = RequestBody(c) /\ label = "free"
  <2>1. SUFFICES ASSUME BodyWithHeader(c) PROVE body = RequestBody(c) /\ label = "free" OBVIOUS
  <2>2. decryptedBuf[w] = Whole(c) BY <1>1, <1>4, <2>1 DEF AnswerAt
  <2>3. body = RequestBody(c) BY <2>2 DEF ReceivedBody, RequestBody, Whole
  <2>4. totalLen'[w] = ContentLength(c) /\ ContentLength(c) \in Nat
    <3>1. totalLen \in [Worker -> Nat] BY OldType
    <3> HIDE DEF body, RespondPost
    <3> QED BY <1>2, <1>4, <2>3, <3>1 DEF ContentLength
  <2> HIDE DEF body, RespondPost
  <2> QED BY <2>3, <2>4
<1> HIDE DEF RespondPost, body, label
<1>6. sent \in Seq(Unit) BY <1>2, BeforeZeroPrefix
<1> HIDE DEF sent
<1>7. s \in Seq(Message) /\ s # <<>> /\ s[1] \notin Handshake
  <2>1. sent \in Seq(Message)
    <3>1. Unit \subseteq Message BY DEF Message
    <3> QED BY <1>6, <3>1
  <2>2. StatusLine("post") = "200" /\ "200" \in Message /\ "200" \notin Handshake
    BY DEF StatusLine, Message, Handshake
  <2> DEFINE h == <<StatusLine("post")>>
  <2>3. h \in Seq(Message) /\ Len(h) = 1 /\ h[1] = "200" BY <2>2
  <2> HIDE DEF h, answer
  <2>4. answer = h \o sent BY DEF answer, h
  <2>5. /\ h \o sent \in Seq(Message) /\ Len(h \o sent) = Len(h) + Len(sent) /\ Len(sent) \in Nat
        /\ \A i \in 1..Len(h) : (h \o sent)[i] = h[i]
    BY <2>1, <2>3, ConcatAt
  <2>6. answer \in Seq(Message) /\ Len(answer) >= 1 /\ answer[1] = "200"
    <3>1. 1 \in 1..Len(h) BY <2>3
    <3> QED BY <2>3, <2>4, <2>5, <3>1
  <2>7. stray \in Seq(Message) BY StrayType
  <2>8. /\ answer \o stray \in Seq(Message) /\ Len(answer \o stray) = Len(answer) + Len(stray)
        /\ Len(stray) \in Nat /\ \A i \in 1..Len(answer) : (answer \o stray)[i] = answer[i]
    BY <2>6, <2>7, ConcatAt
  <2>9. s[1] = "200"
    <3>1. 1 \in 1..Len(answer) BY <2>6
    <3> QED BY <2>6, <2>8, <3>1
  <2>10. s # <<>>
    <3>1. Len(s) # 0 BY <2>6, <2>8
    <3>2. Len(<<>>) = 0 OBVIOUS
    <3> HIDE DEF s
    <3> QED BY <3>1, <3>2
  <2> QED BY <2>2, <2>8, <2>9, <2>10
<1>8. ASSUME BodyWithHeader(c), Ended(c) PROVE s = BeforeZero(Expected(c))
  <2>1. BodyWithHeader(c) BY <1>8
  <2>2. Expected(c) = <<"200">> \o body BY <1>4, <1>5, <2>1 DEF Expected
  <2>3. BeforeZero(<<"200">> \o body) = <<"200">> \o BeforeZero(body)
    <3>1. body \in Seq(Message) /\ "200" \in Message /\ "200" # "zero"
      <4>1. Unit \subseteq Message /\ "200" \in Message BY DEF Message
      <4> QED BY <1>2, <4>1
    <3> QED BY <3>1, BeforeZeroFirst
  <2>4. answer = <<"200">> \o BeforeZero(body) BY DEF sent, StatusLine
  <2>5. stray = <<>>
    <3>1. decryptedBuf[w] = Plain(c) BY <1>1, <1>4, <2>1 DEF AnswerAt, Whole, Plain
    <3> QED BY <1>4, <1>8, <1>3, <3>1 DEF Ended
  <2>6. answer \in Seq(Message)
    <3>1. "200" \in Message /\ Unit \subseteq Message BY DEF Message
    <3>2. <<"200">> \in Seq(Message) BY <3>1
    <3>3. BeforeZero(body) \in Seq(Message) BY <1>6, <3>1 DEF sent
    <3> QED BY <2>4, <3>2, <3>3, ConcatProperties
  <2> HIDE DEF answer
  <2>7. answer \o <<>> = answer BY <2>6
  <2> QED BY <2>2, <2>3, <2>4, <2>5, <2>7
<1> HIDE DEF s
<1> QED BY <1>1, <1>4, <1>5, <1>7, <1>8, <1>3, WritesAnswers DEF s

LEMMA BodyReadAnswers ==
  ASSUME Inv, AnswersOK, NEW w \in Worker, BodyRead(w)
  PROVE  AnswersOK'
<1> USE DEF BodyRead, Goto, clientVars, mainVars
<1>1. PICK c \in Conn : c = sock[w] /\ AnswerAt(w, c) BY HolderAnswers
<1>2. PICK n \in 1..Len(wire[c]) :
        /\ \E m \in 0..(n + 1) : WriteAndSend(c, [i \in 1..m |-> "ciphertext"])
        /\ wire' = [wire EXCEPT ![c] = SubSeq(wire[c], n + 1, Len(wire[c]))]
  BY <1>1
<1>3. PICK m \in 0..(n + 1) : WriteAndSend(c, [i \in 1..m |-> "ciphertext"]) BY <1>2
<1> DEFINE s == [i \in 1..m |-> "ciphertext"]
           label == IF totalLen'[w] < ContentLength(c) THEN "body" ELSE "free"
<1>4. s \in Seq(Message)
  <2>1. Len(wire[c]) \in Nat BY OldType
  <2>2. m \in Nat /\ "ciphertext" \in Message BY <2>1 DEF Message
  <2> QED BY <2>2
<1>5. /\ wpc' = [wpc EXCEPT ![w] = label] /\ label \in {"body", "free"} /\ wpc[w] = "body"
      /\ UNCHANGED <<request, net, sock, decryptedBuf>>
  BY <1>1
<1> HIDE DEF BodyRead, s, label
<1>6. ~BodyWithHeader(c) BY <1>1, <1>5 DEF AnswerAt
<1>7. \A d \in Conn \ {c} : wire'[d] = wire[d]
  <2>1. wire \in [Conn -> Seq(Fragment)] BY OldType
  <2> QED BY <1>2, <2>1
<1> QED BY <1>1, <1>3, <1>4, <1>5, <1>6, <1>7, WritesAnswers DEF s

LEMMA FreeRequestAnswers ==
  ASSUME Inv, AnswersOK, NEW w \in Worker, FreeRequest(w)
  PROVE  AnswersOK'
<1> USE DEF FreeRequest, Freed, Goto, clientVars, mainVars
<1>1. PICK c \in Conn : /\ c = sock[w] /\ AnswerAt(w, c) /\ tls[c] \in SslObject
                        /\ ToSet(tls[c].wbio) \subseteq Handshake
  BY HolderAnswers
<1> DEFINE object == [tls[c] EXCEPT !.state = "freed"]
<1>2. /\ tls' = [tls EXCEPT ![c] = object] /\ wpc[w] = "free" /\ wpc' = [wpc EXCEPT ![w] = "close"]
      /\ UNCHANGED <<request, client, net, wire, toClient, sock, decryptedBuf>>
  BY <1>1
<1> HIDE DEF FreeRequest
<1>3. object \in SslObject /\ object.state = "freed" /\ object.wbio = tls[c].wbio
  BY <1>1 DEF SslObject
<1> HIDE DEF object
<1>4. tls' \in [Conn -> SslObject] /\ tls'[c] = object /\ \A d \in Conn \ {c} : tls'[d] = tls[d]
  BY <1>2, <1>3, TlsType
<1>5. wpc'[w] = "close" /\ \A x \in Worker \ {w} : wpc'[x] = wpc[x] BY <1>2, GotoType DEF Labels
<1>6. OnlyAt(w, c) BY <1>1, <1>2, <1>4, <1>5 DEF OnlyAt, Same
<1>7. Settled(c)'
  <2>1. BodyWithHeader(c) => Replied(c) BY <1>1, <1>2 DEF AnswerAt
  <2>2. /\ (BodyWithHeader(c)' <=> BodyWithHeader(c)) /\ (Ended(c)' <=> Ended(c))
        /\ Expected(c)' = Expected(c)
    BY <1>2, SameRequest
  <2>3. Reply(c)' = Reply(c) BY <1>2, SameReply
  <2> QED BY <2>1, <2>2, <2>3 DEF Settled, Replied
<1>8. AnswerAt(w, c)' BY <1>5, <1>7 DEF AnswerAt
<1> QED BY <1>1, <1>3, <1>4, <1>6, <1>8, WorkAnswers

-----------------------------------------------------------------------------
(* Theorems                                                                *)

LEMMA NextInv == Inv /\ [Next]_vars => Inv'
<1> SUFFICES ASSUME Inv, [Next]_vars PROVE Inv' OBVIOUS
<1>1. CASE MainStep BY <1>1, EpollWaitInv, AcceptInv, HandOffInv DEF MainStep
<1>2. ASSUME NEW w \in Worker, WorkerStep(w) PROVE Inv'
  BY <1>2, DequeueInv, AcceptReadsInv, AcceptReturnsInv, ReadInv, EndInv, RespondPageInv,
     RespondPostInv, BodyReadInv, FreeRequestInv, CloseSocketInv DEF WorkerStep
<1>3. ASSUME NEW c \in Conn,
             Connect(c) \/ ClientSends(c) \/ ClientEnds(c) \/ ResetArrives(c) \/ Arrives(c)
      PROVE  Inv'
  BY <1>3, ConnectInv, ClientInv
<1>4. CASE UNCHANGED vars
  <2> USE <1>4 DEF vars, clientVars, mainVars
  <2>1. TypeOK' BY DEF Inv, TypeOK
  <2>2. SamePlaces BY DEF SamePlaces
  <2>3. OneOwner' /\ PlacesOK' BY <2>2, SamePlacesInv DEF Inv, OneOwner, PlacesOK
  <2> QED BY <2>1, <2>3, SameLife, SameFragments DEF Inv
<1> QED BY <1>1, <1>2, <1>3, <1>4 DEF Next

LEMMA InvHolds == Spec => []Inv
BY InitInv, NextInv, PTL DEF Spec

(* Whatever clients, main thread and workers do, every connection is in    *)
(* one place, so that no two workers use one SSL object, and every buffer  *)
(* and SSL object is what it should be (Server.c:143-160, 169-184).        *)
THEOREM OwnersRight == Spec => []ConnectionsOwned
<1>1. Inv => ConnectionsOwned BY DEF Inv, ConnectionsOwned
<1> QED BY <1>1, InvHolds, PTL

(* No SSL object is used before it is made or after it is freed, and those *)
(* of answered requests, and no others, are freed when the connection is   *)
(* closed (Server.c:197-243, Handlers.c:24-35).                            *)
THEOREM SslObjectsRight == Spec => []SslObjects
<1>1. ASSUME Inv PROVE SslObjects
  <2>1. ASSUME NEW w \in Worker, wpc[w] \in {"accept", "read", "respond", "body", "free"}
        PROVE  tls[sock[w]].state \in {"hello", "finished", "up"}
    BY <1>1, <2>1, WorkerHolds DEF LifeAt, InUse
  <2>2. \A c \in Conn : Closed(c) => (tls[c].state = "freed" <=> Answered(c))
    BY <1>1 DEF Inv, LifeOK, Closed, FreedIfAnswered
  <2> QED BY <2>1, <2>2 DEF SslObjects
<1> QED BY <1>1, InvHolds, PTL

LEMMA NextAnswers == Inv /\ AnswersOK /\ [Next]_vars => AnswersOK'
<1> SUFFICES ASSUME Inv, AnswersOK, [Next]_vars PROVE AnswersOK' OBVIOUS
<1>1. CASE MainStep BY <1>1, MainAnswers
<1>2. ASSUME NEW w \in Worker, WorkerStep(w) PROVE AnswersOK'
  BY <1>2, DequeueAnswers, AcceptReadsAnswers, AcceptReturnsAnswers, ReadAnswers, EndAnswers,
     RespondPageAnswers, RespondPostAnswers, BodyReadAnswers, FreeRequestAnswers,
     CloseSocketAnswers DEF WorkerStep
<1>3. ASSUME NEW c \in Conn,
             Connect(c) \/ ClientSends(c) \/ ClientEnds(c) \/ ResetArrives(c) \/ Arrives(c)
      PROVE  AnswersOK'
  BY <1>3, ClientStepAnswers
<1>4. CASE UNCHANGED vars BY <1>4, SameAnswers DEF vars, clientVars, mainVars
<1> QED BY <1>1, <1>2, <1>3, <1>4 DEF Next

(* Whatever clients ask for, and however records and segments are cut, a   *)
(* client whose body ends in the record of the empty line, and leaves room *)
(* for a zero in the buffer or has one, gets the answer to its own         *)
(* request, up to the first zero byte, from a buffer that no other         *)
(* connection has left anything in (Server.c:192-224, 425-426).            *)
THEOREM AnswersRight == Spec => []RightAnswer
<1>1. Spec => [](Inv /\ AnswersOK)
  <2>1. Init => Inv /\ AnswersOK BY InitInv, InitAnswers
  <2>2. Inv /\ AnswersOK /\ [Next]_vars => (Inv /\ AnswersOK)' BY NextInv, NextAnswers
  <2> QED BY <2>1, <2>2, PTL DEF Spec
<1>2. ASSUME Inv, AnswersOK PROVE RightAnswer
  <2> SUFFICES ASSUME NEW c \in Conn, BodyWithHeader(c), Fits(c), Ended(c)
               PROVE  /\ IsPrefix(Reply(c), Expected(c))
                      /\ Closed(c) /\ client[c] = "sent" => Reply(c) = BeforeZero(Expected(c))
    BY DEF RightAnswer, Fits
  <2>1. Replied(c) \/ Unanswered(c)
    <3>1. CASE tls[c].state = "none" BY <1>2, <3>1 DEF AnswersOK
    <3>2. CASE Closed(c) BY <1>2, <3>2 DEF AnswersOK, Settled
    <3>3. ASSUME NEW w \in Worker, sock[w] = c PROVE Replied(c) \/ Unanswered(c)
      <4>1. w \in Busy
        BY <1>2, <3>3, NameAssumption DEF Inv, PlacesOK, Busy
      <4>2. AnswerAt(w, c) /\ wpc[w] \in {"accept", "read", "respond", "body", "free", "close"}
        BY <1>2, <3>3, <4>1 DEF AnswersOK, Inv, TypeOK, Busy
      <4> QED BY <4>2 DEF AnswerAt, Settled
    <3>4. client[c] = "new" => tls[c].state = "none" BY <1>2 DEF Inv, PlacesOK
    <3> QED BY <3>1, <3>2, <3>3, <3>4 DEF Closed
  <2>2. Expected(c) \in Seq(Message)
    <3>1. Unit \subseteq Message /\ "200" \in Message /\ "400" \in Message /\ "page" \in Message
      BY DEF Message
    <3>2. RequestBody(c) \in Seq(Message)
      <4>1. Whole(c) \in Seq(Unit) BY <1>2, RequestIs DEF Inv
      <4>2. RequestBody(c) \in Seq(Unit)
        BY <4>1, PartType DEF RequestBody, AfterEmptyLine, SelectInSeq, Whole
      <4> QED BY <3>1, <4>2
    <3>3. <<"200">> \in Seq(Message) BY <3>1
    <3>4. <<"200">> \o RequestBody(c) \in Seq(Message) BY <3>2, <3>3, ConcatProperties
    <3>5. <<StatusLine(request[c].kind), "page">> \in Seq(Message) BY <3>1 DEF StatusLine
    <3> QED BY <3>4, <3>5 DEF Expected
  <2>3. CASE Replied(c)
    <3>1. IsPrefix(BeforeZero(Expected(c)), Expected(c)) BY <2>2, BeforeZeroPrefix
    <3> QED BY <2>3, <3>1 DEF Replied
  <2>4. CASE Unanswered(c)
    <3>1. Reply(c) = <<>>
      <4>1. toClient[c] \in Seq(Message) BY <1>2, OldType
      <4> QED BY <2>4, <4>1, FromNone, ReplyIs DEF Unanswered
    <3>2. IsPrefix(<<>>, Expected(c))
      <4>1. Len(Expected(c)) \in Nat BY <2>2
      <4>2. SubSeq(<<>>, 1, 0) = <<>> /\ SubSeq(Expected(c), 1, 0) = <<>> BY SubSeqEmpty
      <4> QED BY <4>1, <4>2 DEF IsPrefix
    <3>3. Closed(c) /\ client[c] = "sent" => Reply(c) = BeforeZero(Expected(c))
      <4>1. Closed(c) => Settled(c) BY <1>2 DEF AnswersOK
      <4>2. "sent" \notin Gone \cup {"reset"} BY DEF Gone
      <4> QED BY <4>1, <4>2 DEF Settled, Replied
    <3> QED BY <3>1, <3>2, <3>3
  <2> QED BY <2>1, <2>3, <2>4
<1> QED BY <1>1, <1>2, PTL
=============================================================================
