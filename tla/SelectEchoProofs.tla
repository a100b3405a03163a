-------------------------- MODULE SelectEchoProofs --------------------------
(***************************************************************************)
(* Proofs about module SelectEcho: the descriptor sets of the server, the  *)
(* way of every line to the server and back, and the echo service, for any *)
(* clients, descriptors, buffer and socket capacities.                     *)
(***************************************************************************)
EXTENDS SelectEcho, FiniteSetTheorems, SequenceTheorems, TLAPS

-----------------------------------------------------------------------------
(* Minima and sequences                                                    *)

LEMMA LeastNatural ==
  ASSUME NEW S \in SUBSET Nat, S # {}
  PROVE  Min(S) \in S /\ \A y \in S : Min(S) <= y
<1> DEFINE Less == {p \in Nat \X Nat : p[1] < p[2]}
<1>1. IsWellFoundedOn(Less, Nat) BY NatLessThanWellFounded, Zenon DEF OpToRel
<1>2. PICK x \in S : \A y \in S : <<y, x>> \notin Less
  <2> HIDE DEF Less
  <2> QED BY <1>1, WFMin
<1>3. \A y \in S : x <= y
  <2> TAKE y \in S
  <2>1. <<y, x>> \in Nat \X Nat /\ <<y, x>>[1] = y /\ <<y, x>>[2] = x /\ <<y, x>> \notin Less BY <1>2
  <2>2. ~ (y < x) BY <2>1
  <2> QED BY <2>2
<1> QED BY <1>3 DEF Min

LEMMA LesserOf == ASSUME NEW m \in Int, NEW n \in Int PROVE Min({m, n}) = IF m <= n THEN m ELSE n
BY DEF Min

(* Concatenation and slices without their definitions, which the provers   *)
(* would expand.                                                           *)
Cat(s, t) == s \o t
Slice(s, m, n) == SubSeq(s, m, n)

LEMMA CatFacts ==
  ASSUME NEW S
  PROVE  /\ \A s, t \in Seq(S) : Cat(s, t) \in Seq(S)
         /\ \A r, s, t \in Seq(S) : Cat(Cat(r, s), t) = Cat(r, Cat(s, t))
         /\ \A s \in Seq(S) : Cat(s, <<>>) = s
         /\ \A s \in Seq(S), x \in S : Append(s, x) = Cat(s, <<x>>) /\ <<x>> \in Seq(S)
<1>1. \A s, t \in Seq(S) : Cat(s, t) \in Seq(S) BY ConcatProperties DEF Cat
<1>2. ASSUME NEW r \in Seq(S), NEW s \in Seq(S), NEW t \in Seq(S)
      PROVE  Cat(Cat(r, s), t) = Cat(r, Cat(s, t))
  BY ConcatAssociative DEF Cat
<1>3. \A s \in Seq(S) : Cat(s, <<>>) = s BY ConcatEmptySeq DEF Cat
<1>4. \A s \in Seq(S), x \in S : Append(s, x) = Cat(s, <<x>>) /\ <<x>> \in Seq(S)
  BY AppendIsConcat DEF Cat
<1> QED BY <1>1, <1>2, <1>3, <1>4

(* What is received, on the way back, in the buffer, on the way there, and *)
(* not written yet.                                                        *)
Flow(r, d, w, u, t) == Cat(Cat(Cat(Cat(r, d), w), u), t)

(* What is read is put behind what was received.                           *)
LEMMA FlowRead ==
  ASSUME NEW S, NEW r \in Seq(S), NEW d \in Seq(S), NEW w, NEW u, NEW t
  PROVE  Cat(r, d) \in Seq(S) /\ Flow(Cat(r, d), <<>>, w, u, t) = Flow(r, d, w, u, t)
BY CatFacts DEF Flow

(* A line that is typed, and then written.                                 *)
LEMMA FlowType ==
  ASSUME NEW S, NEW r \in Seq(S), NEW d \in Seq(S), NEW w \in Seq(S), NEW u \in Seq(S), NEW x \in S
  PROVE  Flow(r, d, w, u, <<x>>) = Cat(Flow(r, d, w, u, <<>>), <<x>>)
<1>1. PICK p \in Seq(S) : p = Cat(Cat(Cat(r, d), w), u) BY CatFacts
<1>2. Cat(p, <<>>) = p BY <1>1, CatFacts
<1> QED BY <1>1, <1>2 DEF Flow

LEMMA FlowWrite ==
  ASSUME NEW S, NEW r \in Seq(S), NEW d \in Seq(S), NEW w \in Seq(S), NEW u \in Seq(S), NEW x \in S
  PROVE  Append(u, x) \in Seq(S) /\ Flow(r, d, w, Append(u, x), <<>>) = Flow(r, d, w, u, <<x>>)
<1>1. PICK p \in Seq(S) : p = Cat(Cat(r, d), w) BY CatFacts
<1>2. PICK y \in Seq(S) : y = <<x>> BY CatFacts
<1>3. Append(u, x) = Cat(u, y) /\ Cat(u, y) \in Seq(S) BY <1>2, CatFacts
<1>4. Cat(p, Cat(u, y)) \in Seq(S) /\ Cat(p, Cat(u, y)) = Cat(Cat(p, u), y)
  <2>1. p \in Seq(S) /\ y \in Seq(S) BY <1>1, <1>2
  <2> QED BY <2>1, CatFacts
<1>5. Cat(Cat(p, Cat(u, y)), <<>>) = Cat(Cat(p, u), y) BY <1>4, CatFacts
<1> QED BY <1>1, <1>2, <1>3, <1>5 DEF Flow

(* The first n units of what is under way are taken into the buffer.       *)
LEMMA FlowTaken ==
  ASSUME NEW S, NEW r \in Seq(S), NEW d \in Seq(S), NEW u \in Seq(S), NEW t \in Seq(S),
         NEW n \in 0..Len(u)
  PROVE  /\ SubSeq(u, 1, n) \in Seq(S) /\ SubSeq(u, n + 1, Len(u)) \in Seq(S)
         /\ Flow(r, d, SubSeq(u, 1, n), SubSeq(u, n + 1, Len(u)), t) = Flow(r, d, <<>>, u, t)
<1>1. SubSeq(u, 1, n) \in Seq(S) /\ SubSeq(u, n + 1, Len(u)) \in Seq(S) BY LenProperties
<1>2. Cat(SubSeq(u, 1, n), SubSeq(u, n + 1, Len(u))) = u
  <2>1. Len(u) \in Nat /\ SubSeq(u, 1, Len(u)) = u BY LenProperties, SubSeqFull
  <2>2. 1 \in 1..(Len(u) + 1) /\ n \in 0..Len(u) /\ 1 - 1 = 0 /\ Len(u) \in n..Len(u) BY <2>1
  <2>3. SubSeq(u, 1, n) \o SubSeq(u, n + 1, Len(u)) = SubSeq(u, 1, Len(u))
    BY <2>2, ConcatAdjacentSubSeq
  <2> QED BY <2>1, <2>3 DEF Cat
<1>3. PICK p \in Seq(S) : p = Cat(r, d) BY CatFacts
<1>4. PICK v \in Seq(S) : v = SubSeq(u, 1, n) BY <1>1
<1>5. PICK w \in Seq(S) : w = SubSeq(u, n + 1, Len(u)) BY <1>1
<1>6. Cat(Cat(p, v), w) = Cat(p, Cat(v, w)) /\ Cat(p, <<>>) = p
  <2>1. p \in Seq(S) /\ v \in Seq(S) /\ w \in Seq(S) BY <1>3, <1>4, <1>5
  <2> QED BY <2>1, CatFacts
<1>7. Cat(v, w) = u BY <1>2, <1>4, <1>5
<1> QED BY <1>1, <1>3, <1>4, <1>5, <1>6, <1>7 DEF Flow

(* m units of the buffer are sent to the client.                           *)
LEMMA FlowSent ==
  ASSUME NEW S, NEW r \in Seq(S), NEW d \in Seq(S), NEW s \in Seq(S), NEW e \in Seq(S), NEW u, NEW t
  PROVE  Flow(r, Cat(d, s), e, u, t) = Flow(r, d, Cat(s, e), u, t)
<1>1. Cat(Cat(r, Cat(d, s)), e) = Cat(Cat(r, d), Cat(s, e)) BY CatFacts
<1> QED BY <1>1 DEF Flow

LEMMA SliceSent ==
  ASSUME NEW S, NEW b \in Seq(S), NEW k \in 0..Len(b), NEW m \in 0..(Len(b) - k)
  PROVE  /\ Slice(b, k + 1, k + m) \in Seq(S) /\ Slice(b, k + m + 1, Len(b)) \in Seq(S)
         /\ Cat(Slice(b, k + 1, k + m), Slice(b, k + m + 1, Len(b))) = Slice(b, k + 1, Len(b))
<1>1. Len(b) \in Nat /\ \A j \in 1..Len(b) : b[j] \in S BY LenProperties
<1>2. SubSeq(b, k + 1, k + m) \in Seq(S)
  <2>1. \A j \in (k + 1)..(k + m) : b[j] \in S BY <1>1
  <2> QED BY <1>1, <2>1, SubSeqProperties
<1>3. SubSeq(b, k + m + 1, Len(b)) \in Seq(S)
  <2>1. \A j \in (k + m + 1)..Len(b) : b[j] \in S BY <1>1
  <2> QED BY <1>1, <2>1, SubSeqProperties
<1>4. SubSeq(b, k + 1, k + m) \o SubSeq(b, k + m + 1, Len(b)) = SubSeq(b, k + 1, Len(b))
  <2>1. PICK j \in Nat : j = k + 1 OBVIOUS
  <2>2. PICK l \in Nat : l = k + m OBVIOUS
  <2>3. j \in 1..(Len(b) + 1) /\ l \in (j - 1)..Len(b) /\ Len(b) \in l..Len(b) BY <1>1, <2>1, <2>2
  <2>4. SubSeq(b, j, l) \o SubSeq(b, l + 1, Len(b)) = SubSeq(b, j, Len(b)) BY <2>3, ConcatAdjacentSubSeq
  <2> QED BY <2>1, <2>2, <2>4
<1> QED BY <1>2, <1>3, <1>4 DEF Cat, Slice

LEMMA QueueAppend ==
  ASSUME NEW S, NEW q \in Seq(S), NEW x \in S
  PROVE  /\ ToSet(Append(q, x)) = ToSet(q) \cup {x}
         /\ x \notin ToSet(q) /\ (\A j, k \in 1..Len(q) : q[j] = q[k] => j = k) =>
              \A j, k \in 1..Len(Append(q, x)) : Append(q, x)[j] = Append(q, x)[k] => j = k
BY DEF ToSet

LEMMA QueueTail ==
  ASSUME NEW S, NEW q \in Seq(S), q # <<>>, \A j, k \in 1..Len(q) : q[j] = q[k] => j = k
  PROVE  /\ Head(q) \in S /\ Head(q) \in ToSet(q) /\ Tail(q) \in Seq(S)
         /\ ToSet(Tail(q)) = ToSet(q) \ {Head(q)}
         /\ \A j, k \in 1..Len(Tail(q)) : Tail(q)[j] = Tail(q)[k] => j = k
<1>1. /\ Len(q) \in Nat \ {0} /\ DOMAIN q = 1..Len(q) /\ Head(q) = q[1] /\ Head(q) \in S
      /\ Tail(q) \in Seq(S) /\ Len(Tail(q)) = Len(q) - 1 /\ DOMAIN Tail(q) = 1..(Len(q) - 1)
      /\ \A j \in 1..(Len(q) - 1) : Tail(q)[j] = q[j + 1]
  OBVIOUS
<1>2. Head(q) \in ToSet(q) BY <1>1 DEF ToSet
<1>3. ToSet(Tail(q)) \subseteq ToSet(q) \ {Head(q)} BY <1>1 DEF ToSet
<1>4. ASSUME NEW y \in ToSet(q), y # Head(q) PROVE y \in ToSet(Tail(q))
  <2>1. PICK j \in 1..Len(q) : y = q[j] BY <1>1 DEF ToSet
  <2>2. j - 1 \in 1..(Len(q) - 1) /\ Tail(q)[j - 1] = y BY <1>1, <1>4, <2>1
  <2> QED BY <1>1, <2>2 DEF ToSet
<1>5. \A j, k \in 1..Len(Tail(q)) : Tail(q)[j] = Tail(q)[k] => j = k BY <1>1
<1> QED BY <1>1, <1>2, <1>3, <1>4, <1>5

-----------------------------------------------------------------------------
(* The descriptor sets                                                     *)

Unit == Conn \X Nat

Types ==
    /\ TypeOK
    /\ up \in [Conn -> Seq(Unit)] /\ down \in [Conn -> Seq(Unit)]
    /\ received \in [Conn -> Seq(Unit)] /\ buf \in Seq(Unit)
    /\ backlog \in Seq(Conn) /\ i \in Nat

(* The copy has descriptors select looked at; accept is called with a      *)
(* connection that waits, and write for a client that has a descriptor.    *)
ScanOK ==
    /\ \A x \in cpy_readset : x <= maxfd
    /\ spc # "select" /\ server_sock \in Found => backlog # <<>>
    /\ spc = "write" => i - 1 \in Fds /\ Current \in Conn

(* A connection waits once and has at most one descriptor, and then does   *)
(* not wait; one that was not made has and does neither.                   *)
Accepted ==
    /\ \A f, g \in Fds : fdTable[f] \in Conn /\ fdTable[f] = fdTable[g] => f = g
    /\ \A j, k \in 1..Len(backlog) : backlog[j] = backlog[k] => j = k
    /\ \A c \in ToSet(backlog) : client[c] # "new" /\ ~ Open(c)
    /\ \A c \in Conn : client[c] = "new" => ~ Open(c)

SetInv == Types /\ SetsAgree /\ ScanOK /\ Accepted

LEMMA StepFacts ==
  ASSUME SetInv, NEW x, Step(x)
  PROVE  /\ spc = "scan" /\ x \in Found /\ x \in readset /\ x \in Nat /\ i <= x /\ i \in Nat
         /\ i' = x + 1 /\ cpy_readset' = cpy_readset
         /\ x \in Fds => fdTable[x] \in Conn
         /\ x = server_sock => backlog # <<>> /\ Head(backlog) \in Conn
<1>1. Found \in SUBSET Nat /\ Found # {} /\ Found \subseteq readset
  BY FdAssumption DEF SetInv, Types, TypeOK, SetsAgree, Step, More, Found
<1>2. x \in Found BY <1>1, LeastNatural DEF Step
<1>3. x \in Fds => fdTable[x] \in Conn
  BY <1>1, <1>2, FdAssumption DEF SetInv, SetsAgree, Types, TypeOK, Sockets
<1>4. x = server_sock => backlog # <<>> BY <1>2 DEF SetInv, ScanOK, Step
<1> QED BY <1>1, <1>2, <1>3, <1>4 DEF Step, Found, SetInv, Types

(* A connection that waits finds a descriptor.                             *)
LEMMA FreeDescriptor ==
  ASSUME SetInv, backlog # <<>>
  PROVE  LET f == Min({g \in Fds : fdTable[g] = NoConn}) IN f \in Fds /\ fdTable[f] = NoConn
<1> DEFINE Free == {g \in Fds : fdTable[g] = NoConn}
<1> DEFINE c == Head(backlog)
<1>1. c \in Conn /\ c \in ToSet(backlog) BY QueueTail DEF SetInv, Types, Accepted
<1>2. Free # {}
  <2> SUFFICES ASSUME Free = {} PROVE FALSE OBVIOUS
  <2>1. fdTable \in [Fds -> Conn \ {c}] BY <1>1 DEF SetInv, Types, TypeOK, Accepted, Open
  <2>2. IsFiniteSet(Conn \ {c}) /\ Cardinality(Conn \ {c}) = Cardinality(Conn) - 1
    BY <1>1, FdAssumption, FS_RemoveElement
  <2>3. Cardinality(Conn) \in Nat /\ Cardinality(Fds) \in Nat BY FdAssumption, FS_CardinalityType
  <2>4. Cardinality(Conn \ {c}) < Cardinality(Fds) BY <2>2, <2>3, FdAssumption
  <2>5. \E f, g \in Fds : f # g /\ fdTable[f] = fdTable[g]
    <3> HIDE DEF c
    <3> QED BY <2>1, <2>2, <2>4, FdAssumption, FS_PigeonHole
  <2> QED BY <2>1, <2>5 DEF SetInv, Accepted
<1>3. Min(Free) \in Free
  <2>1. Free \in SUBSET Nat BY FdAssumption
  <2> HIDE DEF Free
  <2> QED BY <1>2, <2>1, LeastNatural
<1> QED BY <1>3

LEMMA SetInit == ASSUME Init PROVE SetInv
<1>1. Types
  BY CountAssumption, FdAssumption DEF Init, Types, TypeOK
<1>2. SetsAgree BY FdAssumption DEF Init, SetsAgree, Sockets
<1>3. ScanOK BY DEF Init, ScanOK
<1>4. Accepted BY NameAssumption DEF Init, Accepted, Open, ToSet
<1> QED BY <1>1, <1>2, <1>3, <1>4 DEF SetInv

LEMMA ReadBounds ==
  ASSUME SetInv, NEW c \in Conn
  PROVE  ReadLen(c) \in 0..Len(up[c]) /\ ReadLen(c) <= BUF_SIZE
<1>1. Len(up[c]) \in Nat BY LenProperties DEF SetInv, Types
<1> QED BY <1>1, LesserOf, CountAssumption DEF ReadLen

LEMMA WriteBounds ==
  ASSUME SetInv, spc = "write"
  PROVE  /\ Current \in Conn /\ i - 1 \in Fds /\ Len(buf) \in Nat /\ written \in 0..Len(buf)
         /\ Len(down[Current]) \in Nat /\ Len(down[Current]) <= DownCap
         /\ Room \in 0..(Len(buf) - written) /\ Len(down[Current]) + Room <= DownCap
<1>1. Current \in Conn /\ i - 1 \in Fds BY DEF SetInv, ScanOK
<1>2. /\ Len(down[Current]) \in Nat /\ Len(buf) \in Nat /\ written \in 0..Len(buf)
      /\ Len(down[Current]) <= DownCap
  BY <1>1, LenProperties DEF SetInv, Types, TypeOK
<1> QED BY <1>1, <1>2, LesserOf, CountAssumption DEF Room

(* What the clients do, but to connect.                                    *)
LEMMA ClientTypes ==
  ASSUME SetInv, NEW c \in Conn,
         Type(c) \/ Write(c) \/ Quit(c) \/ ReaderStep(c) \/ Kill(c) \/ ResetArrives(c)
  PROVE  Types'
<1> USE CountAssumption DEF SetInv, Types, TypeOK, setVars, ioVars, kernelVars, clientVars
<1>1. CASE Type(c)
  <2>1. lines' \in [Conn -> Nat] /\ wpc' \in [Conn -> {"none", "fgets", "write", "ended"}] BY <1>1 DEF Type
  <2> QED BY <1>1, <2>1 DEF Type
<1>2. CASE Write(c)
  <2>1. <<c, lines[c]>> \in Unit BY DEF Unit
  <2>2. /\ Append(up[c], <<c, lines[c]>>) \in Seq(Unit)
        /\ Len(Append(up[c], <<c, lines[c]>>)) = Len(up[c]) + 1 /\ Len(up[c]) \in Nat
    BY <2>1, AppendProperties, LenProperties
  <2>3. up' \in [Conn -> Seq(Unit)] /\ up' = [up EXCEPT ![c] = Append(up[c], <<c, lines[c]>>)] BY <1>2, <2>2 DEF Write
  <2>4. \A d \in Conn : Len(up'[d]) <= UpCap /\ Len(down'[d]) <= DownCap
    BY <1>2, <2>2, <2>3 DEF Write
  <2>5. wpc' \in [Conn -> {"none", "fgets", "write", "ended"}] BY <1>2 DEF Write
  <2> QED BY <1>2, <2>3, <2>4, <2>5 DEF Write
<1>3. CASE Quit(c)
  <2>1. /\ client' \in [Conn -> {"new", "up", "reset"} \cup Ended]
        /\ wpc' \in [Conn -> {"none", "fgets", "write", "ended"}]
        /\ rpc' \in [Conn -> {"none", "read", "ended"}]
    BY <1>3 DEF Quit, SocketAfterQ, AfterQ, Ended
  <2> QED BY <1>3, <2>1 DEF Quit
<1>4. CASE Read(c)
  <2>1. received[c] \o down[c] \in Seq(Unit) BY ConcatProperties
  <2>2. received' \in [Conn -> Seq(Unit)] BY <1>4, <2>1 DEF Read
  <2>3. <<>> \in Seq(Unit) /\ Len(<<>>) = 0 BY DEF Unit
  <2>4. down' \in [Conn -> Seq(Unit)] /\ (\A d \in Conn : Len(down'[d]) <= DownCap) BY <1>4, <2>3 DEF Read
  <2> QED BY <1>4, <2>2, <2>4 DEF Read
<1>5. CASE ReadEnd(c)
  <2>1. /\ client' \in [Conn -> {"new", "up", "reset"} \cup Ended]
        /\ rpc' \in [Conn -> {"none", "read", "ended"}]
    BY <1>5 DEF ReadEnd, Ended
  <2> QED BY <1>5, <2>1 DEF ReadEnd
<1>6. CASE Kill(c)
  <2>1. /\ client' \in [Conn -> {"new", "up", "reset"} \cup Ended]
        /\ wpc' \in [Conn -> {"none", "fgets", "write", "ended"}]
        /\ rpc' \in [Conn -> {"none", "read", "ended"}]
    BY <1>6 DEF Kill, Ended
  <2>2. <<>> \in Seq(Unit) /\ Len(<<>>) = 0 BY DEF Unit
  <2>3. down' \in [Conn -> Seq(Unit)] /\ (\A d \in Conn : Len(down'[d]) <= DownCap) BY <1>6, <2>2 DEF Kill
  <2> QED BY <1>6, <2>1, <2>3 DEF Kill
<1>7. CASE ResetArrives(c)
  <2>1. client' \in [Conn -> {"new", "up", "reset"} \cup Ended] BY <1>7 DEF ResetArrives, Ended
  <2> QED BY <1>7, <2>1 DEF ResetArrives
<1> QED BY <1>1, <1>2, <1>3, <1>4, <1>5, <1>6, <1>7 DEF ReaderStep

LEMMA ClientSets ==
  ASSUME SetInv, NEW c \in Conn,
         Type(c) \/ Write(c) \/ Quit(c) \/ ReaderStep(c) \/ Kill(c) \/ ResetArrives(c)
  PROVE  SetInv'
<1>1. UNCHANGED <<kernelVars, setVars, ioVars>>
  BY DEF Type, Write, Quit, ReaderStep, Read, ReadEnd, Kill, ResetArrives
<1>2. SetsAgree' /\ ScanOK'
  BY <1>1 DEF SetInv, SetsAgree, ScanOK, Sockets, Found, Current, kernelVars, setVars, ioVars
<1>3. client \in [Conn -> {"new", "up", "reset"} \cup Ended] BY DEF SetInv, Types, TypeOK
<1>4. \A d : client[d] # "new" /\ d \in Conn => client'[d] # "new"
  BY <1>3 DEF Type, Write, Quit, SocketAfterQ, ReaderStep, Read, ReadEnd, Kill, ResetArrives, Ended
<1>5. \A d \in Conn : client'[d] = "new" => client[d] = "new" BY <1>4
<1>6. ToSet(backlog) \subseteq Conn BY DEF SetInv, Types, ToSet
<1>7. Accepted' BY <1>1, <1>4, <1>5, <1>6 DEF SetInv, Accepted, Open, ToSet, kernelVars
<1> QED BY <1>2, <1>7, ClientTypes DEF SetInv

LEMMA ConnectSets == ASSUME SetInv, NEW c \in Conn, Connect(c) PROVE SetInv'
<1>1. backlog' = Append(backlog, c) /\ backlog' \in Seq(Conn) /\ backlog' # <<>>
  BY AppendProperties DEF Connect, SetInv, Types
<1>2. Types'
  <2>1. /\ client' \in [Conn -> {"new", "up", "reset"} \cup Ended]
        /\ wpc' \in [Conn -> {"none", "fgets", "write", "ended"}]
        /\ rpc' \in [Conn -> {"none", "read", "ended"}]
    BY DEF Connect, ReaderStarts, SetInv, Types, TypeOK
  <2> QED BY <1>1, <2>1 DEF Connect, SetInv, Types, TypeOK, setVars, ioVars
<1>3. SetsAgree' /\ ScanOK'
  BY <1>1 DEF Connect, SetInv, SetsAgree, ScanOK, Sockets, Found, Current, setVars, ioVars
<1>4. Accepted'
  <2>1. client \in [Conn -> {"new", "up", "reset"} \cup Ended] /\ client[c] = "new" /\ fdTable' = fdTable
    BY DEF Connect, SetInv, Types, TypeOK
  <2>2. client' = [client EXCEPT ![c] = "up"] BY DEF Connect
  <2>3. c \notin ToSet(backlog) /\ ~ Open(c) BY <2>1 DEF SetInv, Accepted
  <2>4. ToSet(backlog') = ToSet(backlog) \cup {c} /\ (\A j, k \in 1..Len(backlog') : backlog'[j] = backlog'[k] => j = k)
    <3>1. backlog \in Seq(Conn) /\ (\A j, k \in 1..Len(backlog) : backlog[j] = backlog[k] => j = k)
      BY DEF SetInv, Types, Accepted
    <3>2. /\ ToSet(Append(backlog, c)) = ToSet(backlog) \cup {c}
          /\ \A j, k \in 1..Len(Append(backlog, c)) :
               Append(backlog, c)[j] = Append(backlog, c)[k] => j = k
      BY <2>3, <3>1, QueueAppend
    <3>3. PICK q : q = Append(backlog, c) OBVIOUS
    <3> QED BY <1>1, <3>2, <3>3 DEF ToSet
  <2>5. ToSet(backlog) \subseteq Conn BY DEF SetInv, Types, ToSet
  <2>6. \A d \in ToSet(backlog') : client'[d] # "new" /\ ~ Open(d)'
    BY <2>1, <2>2, <2>3, <2>4, <2>5 DEF SetInv, Accepted, Open
  <2>7. \A d \in Conn : client'[d] = "new" => ~ Open(d)' BY <2>1, <2>2 DEF SetInv, Accepted, Open
  <2> QED BY <2>1, <2>4, <2>6, <2>7 DEF SetInv, Accepted
<1> QED BY <1>2, <1>3, <1>4 DEF SetInv

-----------------------------------------------------------------------------
(* The server's steps                                                      *)

LEMMA SelectSets == ASSUME SetInv, Select PROVE SetInv'
<1>1. /\ cpy_readset' \subseteq Watched /\ i' = server_sock /\ spc' = "scan"
      /\ (server_sock \in cpy_readset' => backlog # <<>>)
  BY DEF Select, Readable
<1>2. UNCHANGED <<client, clientVars, up, down, alive, kernelVars, readset, maxfd, buf, written>> BY DEF Select
<1>3. Types'
  BY <1>1, <1>2, FdAssumption DEF SetInv, Types, TypeOK, Watched, Select, clientVars, kernelVars
<1>4. SetsAgree' BY <1>1, <1>2 DEF SetInv, SetsAgree, Sockets, Watched, Found, kernelVars
<1>5. ScanOK' BY <1>1, <1>2 DEF ScanOK, Watched, Found, kernelVars
<1>6. Accepted' BY <1>2 DEF SetInv, Accepted, Open, ToSet, kernelVars
<1> QED BY <1>3, <1>4, <1>5, <1>6 DEF SetInv

LEMMA AcceptSets == ASSUME SetInv, Accept PROVE SetInv'
<1> DEFINE c == Head(backlog)
<1>1. /\ spc = "scan" /\ server_sock \in Found /\ i' = server_sock + 1 /\ cpy_readset' = cpy_readset
      /\ i' \in Nat /\ i \in Nat /\ i <= server_sock
      /\ backlog # <<>> /\ c \in Conn
  BY StepFacts, FdAssumption DEF Accept
<1>2. UNCHANGED <<client, clientVars, up, down, alive, ioVars>> /\ backlog' = Tail(backlog) BY DEF Accept
<1>3. PICK f \in Fds : /\ fdTable[f] = NoConn /\ fdTable' = [fdTable EXCEPT ![f] = c]
                       /\ maxfd' = RaisedMax(f) /\ readset' = readset \cup {f}
  BY <1>1, FreeDescriptor DEF Accept
<1>4. /\ backlog \in Seq(Conn) /\ fdTable \in [Fds -> Conn \cup {NoConn}]
      /\ (\A j, k \in 1..Len(backlog) : backlog[j] = backlog[k] => j = k)
  BY DEF SetInv, Types, TypeOK, Accepted
<1>5. /\ c \in ToSet(backlog) /\ backlog' \in Seq(Conn) /\ ToSet(backlog') = ToSet(backlog) \ {c}
      /\ \A j, k \in 1..Len(backlog') : backlog'[j] = backlog'[k] => j = k
  <2>1. PICK q : q = Tail(backlog) OBVIOUS
  <2>2. /\ c \in ToSet(backlog) /\ q \in Seq(Conn) /\ ToSet(q) = ToSet(backlog) \ {c}
        /\ \A j, k \in 1..Len(q) : q[j] = q[k] => j = k
    BY <1>1, <1>4, <2>1, QueueTail
  <2>3. backlog' = q BY <1>2, <2>1
  <2> HIDE DEF c
  <2> QED BY <2>2, <2>3
<1> HIDE DEF c
<1>6. maxfd \in Nat /\ f \in Nat /\ maxfd' \in Fds \cup {server_sock} /\ maxfd <= maxfd' /\ f <= maxfd'
  BY <1>3, FdAssumption DEF SetInv, Types, TypeOK, RaisedMax
<1>7. fdTable' \in [Fds -> Conn \cup {NoConn}] BY <1>1, <1>3, <1>4
<1>8. Types'
  BY <1>1, <1>2, <1>3, <1>5, <1>6, <1>7 DEF SetInv, Types, TypeOK, clientVars, ioVars
<1>9. \A x \in cpy_readset : x \in Nat /\ x <= maxfd BY FdAssumption DEF SetInv, Types, TypeOK, ScanOK
<1>10. SetsAgree'
  <2>1. Sockets' = Sockets \cup {f} BY <1>1, <1>3, <1>4, NameAssumption DEF Sockets
  <2>2. readset' = {server_sock} \cup Sockets' BY <1>3, <2>1 DEF SetInv, SetsAgree
  <2>3. \A x \in readset : x \in Nat /\ x <= maxfd BY FdAssumption DEF SetInv, Types, TypeOK, SetsAgree
  <2>4. \A x \in readset' : x <= maxfd' BY <1>3, <1>6, <2>3, FdAssumption DEF SetInv, Types, TypeOK
  <2>5. \A x \in cpy_readset : i' <= x => i <= x BY <1>1, <1>9, FdAssumption
  <2>6. Found' \subseteq Found BY <1>1, <1>9, <2>5 DEF Found
  <2> QED BY <1>1, <1>3, <2>2, <2>4, <2>6 DEF SetInv, SetsAgree
<1>11. ScanOK'
  <2>1. \A x \in cpy_readset' : x <= maxfd'
    BY <1>1, <1>6, <1>9, FdAssumption DEF SetInv, Types, TypeOK
  <2>2. server_sock \notin Found' BY <1>1, FdAssumption DEF Found
  <2> QED BY <1>1, <1>2, <2>1, <2>2 DEF ScanOK, ioVars
<1>12. Accepted'
  <2>1. client[c] # "new" /\ ~ Open(c) /\ client' = client BY <1>2, <1>5 DEF SetInv, Accepted
  <2>2. \A g, h \in Fds : fdTable'[g] \in Conn /\ fdTable'[g] = fdTable'[h] => g = h
    BY <1>1, <1>3, <1>4, <2>1 DEF SetInv, Accepted, Open
  <2>3. \A d : d # c /\ ~ Open(d) => ~ Open(d)' BY <1>3, <1>4 DEF Open
  <2>4. \A d \in ToSet(backlog') : client'[d] # "new" /\ ~ Open(d)'
    BY <1>5, <2>1, <2>3 DEF SetInv, Accepted
  <2>5. \A d \in Conn : client'[d] = "new" => ~ Open(d)' BY <2>1, <2>3 DEF SetInv, Accepted
  <2> QED BY <1>5, <2>2, <2>4, <2>5 DEF Accepted
<1> QED BY <1>8, <1>10, <1>11, <1>12 DEF SetInv

(* A step for a descriptor the scan has come to.                           *)
LEMMA Scanned ==
  ASSUME SetInv, NEW f \in Fds, Step(f)
  PROVE  /\ i' \in Nat /\ i' - 1 = f /\ fdTable[f] \in Conn /\ spc = "scan"
         /\ cpy_readset' = cpy_readset /\ f \in readset
         /\ \A x \in cpy_readset : i' <= x => i <= x /\ x # f /\ x # server_sock
<1>1. /\ i' = f + 1 /\ f \in Nat /\ fdTable[f] \in Conn /\ spc = "scan" /\ i \in Nat /\ i <= f
      /\ cpy_readset' = cpy_readset /\ f \in readset
  BY StepFacts, FdAssumption
<1>2. \A x \in cpy_readset : x \in Nat BY FdAssumption DEF SetInv, Types, TypeOK
<1>3. server_sock < f /\ server_sock \in Nat BY FdAssumption
<1> QED BY <1>1, <1>2, <1>3

LEMMA ReadDataSets == ASSUME SetInv, NEW f \in Fds, ReadData(f) PROVE SetInv'
<1> DEFINE c == fdTable[f]
<1>1. /\ i' \in Nat /\ i' - 1 = f /\ c \in Conn /\ spc = "scan" /\ cpy_readset' = cpy_readset
      /\ \A x \in cpy_readset : i' <= x => i <= x /\ x # f /\ x # server_sock
  BY Scanned DEF ReadData
<1>2. UNCHANGED <<client, clientVars, down, alive, kernelVars, readset, maxfd>> /\ spc' = "write" /\ written' = 0
  BY DEF ReadData
<1>3. ReadLen(c) \in 0..Len(up[c]) /\ ReadLen(c) <= BUF_SIZE /\ up[c] \in Seq(Unit) /\ Len(up[c]) \in Nat
  BY <1>1, ReadBounds, LenProperties DEF SetInv, Types
<1> HIDE DEF c
<1>4. buf' \in Seq(Unit) /\ Len(buf') = ReadLen(c)
  <2>1. PICK n \in 0..Len(up[c]) : n = ReadLen(c) BY <1>3
  <2>2. SubSeq(up[c], 1, n) \in Seq(Unit) /\ Len(SubSeq(up[c], 1, n)) = n BY <1>3, <2>1
  <2> QED BY <2>1, <2>2 DEF ReadData, c
<1>5. /\ up' \in [Conn -> Seq(Unit)] /\ \A d \in Conn : Len(up'[d]) <= UpCap
  <2>1. PICK n \in 0..Len(up[c]) : n = ReadLen(c) BY <1>3
  <2>2. SubSeq(up[c], n + 1, Len(up[c])) \in Seq(Unit) /\ Len(SubSeq(up[c], n + 1, Len(up[c]))) = Len(up[c]) - n
    BY <1>3, <2>1
  <2>3. up' = [up EXCEPT ![c] = SubSeq(up[c], n + 1, Len(up[c]))] BY <2>1 DEF ReadData, c
  <2>4. Len(up'[c]) <= UpCap BY <1>1, <1>3, <2>1, <2>2, <2>3, CountAssumption DEF SetInv, Types, TypeOK
  <2> QED BY <1>1, <2>2, <2>3, <2>4 DEF SetInv, Types, TypeOK
<1>6. Types'
  BY <1>1, <1>2, <1>3, <1>4, <1>5 DEF SetInv, Types, TypeOK, clientVars, kernelVars
<1>7. Found' \subseteq Found \ {server_sock} BY <1>1, <1>2 DEF Found
<1>8. SetsAgree' BY <1>1, <1>2, <1>7 DEF SetInv, SetsAgree, Sockets, kernelVars
<1>9. Current' = c BY <1>1, <1>2 DEF Current, c, kernelVars
<1>10. ScanOK' BY <1>1, <1>2, <1>7, <1>9 DEF SetInv, ScanOK
<1>11. Accepted' BY <1>2 DEF SetInv, Accepted, Open, ToSet, kernelVars
<1> QED BY <1>6, <1>8, <1>10, <1>11 DEF SetInv

LEMMA ReadNothingSets == ASSUME SetInv, NEW f \in Fds, ReadNothing(f) PROVE SetInv'
<1>1. /\ i' \in Nat /\ spc = "scan" /\ cpy_readset' = cpy_readset
      /\ \A x \in cpy_readset : i' <= x => i <= x /\ x # f /\ x # server_sock
  BY Scanned DEF ReadNothing
<1>2. /\ UNCHANGED <<client, clientVars, up, down, alive, backlog, maxfd, ioVars>>
      /\ readset' = readset \ {f} /\ fdTable' = [fdTable EXCEPT ![f] = NoConn]
  BY DEF ReadNothing, Forgotten
<1>3. Types'
  BY <1>1, <1>2 DEF SetInv, Types, TypeOK, clientVars, ioVars
<1>4. Found' \subseteq Found \ {f, server_sock} BY <1>1, <1>2 DEF Found
<1>5. SetsAgree'
  <2>1. f # server_sock BY FdAssumption
  <2>2. Sockets' = Sockets \ {f} BY <1>2 DEF SetInv, Types, TypeOK, Sockets
  <2> QED BY <1>1, <1>2, <1>4, <2>1, <2>2 DEF SetInv, SetsAgree
<1>6. ScanOK' BY <1>1, <1>2, <1>4 DEF SetInv, ScanOK, ioVars
<1>7. Accepted'
  <2>1. /\ backlog' = backlog /\ client' = client
        /\ \A d \in Conn : ~ Open(d) => ~ Open(d)'
    BY <1>2, NameAssumption DEF SetInv, Types, TypeOK, Open
  <2>2. \A g, h \in Fds : fdTable'[g] \in Conn /\ fdTable'[g] = fdTable'[h] => g = h
    BY <1>2, NameAssumption DEF SetInv, Types, TypeOK, Accepted
  <2>3. ToSet(backlog) \subseteq Conn BY DEF SetInv, Types, ToSet
  <2> QED BY <2>1, <2>2, <2>3 DEF SetInv, Accepted
<1> QED BY <1>3, <1>5, <1>6, <1>7 DEF SetInv

(* What changes neither the sets nor the kernel's tables keeps them, if it *)
(* does not begin to write and connections stay made.                      *)
LEMMA SetFrame ==
  ASSUME SetInv, UNCHANGED <<kernelVars, readset, maxfd, cpy_readset>>,
         i' = i \/ (\E f \in Fds : Step(f)), spc' # "select" => spc # "select",
         spc' = "write" => spc = "write" /\ i' = i,
         \A d \in Conn : client'[d] = "new" <=> client[d] = "new"
  PROVE  SetsAgree' /\ ScanOK' /\ Accepted'
<1>1. \A x \in cpy_readset : i' <= x => i <= x
  <2>1. CASE i' = i BY <2>1
  <2>2. CASE \E f \in Fds : Step(f) BY <2>2, Scanned
  <2> QED BY <2>1, <2>2
<1>2. Found' \subseteq Found BY <1>1 DEF Found
<1>3. SetsAgree' BY <1>2 DEF SetInv, SetsAgree, Sockets, kernelVars
<1>4. ScanOK' BY <1>2 DEF SetInv, ScanOK, Current, kernelVars
<1>5. ToSet(backlog) \subseteq Conn /\ backlog' = backlog /\ fdTable' = fdTable
  BY DEF SetInv, Types, ToSet, kernelVars
<1>6. Accepted' BY <1>5 DEF SetInv, Accepted, Open
<1> QED BY <1>3, <1>4, <1>6

LEMMA ReadFailsSets == ASSUME SetInv, NEW f \in Fds, ReadFails(f) PROVE SetInv'
<1>1. i' \in Nat /\ fdTable[f] \in Conn /\ Step(f) /\ spc = "scan" /\ cpy_readset' = cpy_readset
  BY Scanned DEF ReadFails
<1>2. /\ UNCHANGED <<clientVars, up, down, alive, kernelVars, readset, maxfd, ioVars>>
      /\ client' = [client EXCEPT ![fdTable[f]] = "broken"] /\ client[fdTable[f]] = "reset"
  BY DEF ReadFails
<1>3. client \in [Conn -> {"new", "up", "reset"} \cup Ended] BY DEF SetInv, Types, TypeOK
<1>4. client' \in [Conn -> {"new", "up", "reset"} \cup Ended] BY <1>1, <1>2, <1>3 DEF Ended
<1>5. Types' BY <1>1, <1>2, <1>4 DEF SetInv, Types, TypeOK, clientVars, kernelVars, ioVars
<1>6. \A d \in Conn : client'[d] = "new" <=> client[d] = "new" BY <1>1, <1>2, <1>3
<1>7. spc' = spc BY <1>2 DEF ioVars
<1>8. SetsAgree' /\ ScanOK' /\ Accepted' BY <1>1, <1>2, <1>6, <1>7, SetFrame
<1> QED BY <1>5, <1>8 DEF SetInv

LEMMA WriteSets ==
  ASSUME SetInv, ScanEnds \/ WriteEchoes \/ WriteEnds \/ WriteFails
  PROVE  SetInv'
<1>1. CASE ScanEnds
  BY <1>1, SetFrame DEF ScanEnds, SetInv, Types, TypeOK, clientVars, kernelVars, setVars
<1>2. CASE WriteEchoes
  <2>1. /\ Current \in Conn /\ written \in 0..Len(buf) /\ Len(buf) \in Nat
        /\ Room \in 0..(Len(buf) - written)
        /\ Len(down[Current]) \in Nat /\ Len(down[Current]) + Room <= DownCap
    BY <1>2, WriteBounds DEF WriteEchoes
  <2>2. /\ UNCHANGED <<client, clientVars, up, alive, kernelVars, setVars, spc, buf>>
        /\ written' = written + Room
        /\ down' = [down EXCEPT ![Current] = @ \o SubSeq(buf, written + 1, written + Room)]
    BY <1>2 DEF WriteEchoes, AfterWrite
  <2>3. PICK s \in Seq(Unit) : s = SubSeq(buf, written + 1, written + Room) /\ Len(s) = Room
    <3>1. PICK k \in 0..Len(buf) : k = written BY <2>1
    <3>2. PICK m \in 0..(Len(buf) - k) : m = Room BY <2>1, <3>1
    <3>3. buf \in Seq(Unit) /\ Len(buf) \in Nat BY <2>1 DEF SetInv, Types
    <3>4. \A j \in (k + 1)..(k + m) : buf[j] \in Unit BY <3>1, <3>2, <3>3
    <3>5. SubSeq(buf, k + 1, k + m) \in Seq(Unit) /\ Len(SubSeq(buf, k + 1, k + m)) = m
      BY <3>1, <3>2, <3>3, <3>4, SubSeqProperties
    <3> QED BY <3>1, <3>2, <3>5
  <2>4. PICK d \in Seq(Unit) : d = down[Current] \o s /\ Len(d) = Len(down[Current]) + Room
    <3>1. s \in Seq(Unit) /\ Len(s) = Room /\ down[Current] \in Seq(Unit) BY <2>1, <2>3 DEF SetInv, Types
    <3> QED BY <3>1, ConcatProperties
  <2>5. down' = [down EXCEPT ![Current] = d] BY <2>2, <2>3, <2>4
  <2>6. down' \in [Conn -> Seq(Unit)] /\ \A c \in Conn : Len(down'[c]) <= DownCap
    BY <2>1, <2>4, <2>5 DEF SetInv, Types, TypeOK
  <2>7. Types'
    BY <2>1, <2>2, <2>6 DEF SetInv, Types, TypeOK, clientVars, kernelVars, setVars
  <2>8. SetsAgree' /\ ScanOK' /\ Accepted' BY <2>2, SetFrame DEF setVars
  <2> QED BY <2>7, <2>8 DEF SetInv
<1>3. CASE WriteEnds
  <2>1. /\ UNCHANGED <<client, clientVars, up, down, alive, kernelVars, setVars>>
        /\ buf' = <<>> /\ written' = 0 /\ spc = "write" /\ spc' = "scan"
    BY <1>3 DEF WriteEnds
  <2>2. buf' \in Seq(Unit) /\ Len(buf') = 0 BY <2>1
  <2>3. Types'
    <3>1. /\ UNCHANGED <<client, clientVars, up, down, alive, kernelVars, setVars>>
          /\ buf' \in Seq(Unit) /\ Len(buf') = 0 /\ written' = 0 /\ spc' = "scan"
      BY <2>1, <2>2
    <3> QED BY <3>1, CountAssumption DEF SetInv, Types, TypeOK, clientVars, kernelVars, setVars
  <2>4. SetsAgree' /\ ScanOK' /\ Accepted' BY <2>1, SetFrame DEF setVars
  <2> QED BY <2>3, <2>4 DEF SetInv
<1>4. CASE WriteFails
  <2>1. /\ UNCHANGED <<clientVars, up, down, kernelVars, setVars>> /\ alive' \in BOOLEAN
        /\ buf' = <<>> /\ written' = 0 /\ spc = "write" /\ spc' = "scan"
    BY <1>4 DEF WriteFails
  <2>2. buf' \in Seq(Unit) /\ Len(buf') = 0 BY <2>1
  <2>3. client \in [Conn -> {"new", "up", "reset"} \cup Ended] /\ Current \in Conn
    BY <2>1, WriteBounds DEF SetInv, Types, TypeOK
  <2>4. PICK a \in {"closed", "answered", "dead", "reset", "broken"} : client' = [client EXCEPT ![Current] = a]
    BY <1>4, <2>3 DEF WriteFails
  <2>5. client[Current] \in {"closed", "answered", "dead", "reset", "broken"} BY <1>4 DEF WriteFails
  <2>6. client' \in [Conn -> {"new", "up", "reset"} \cup Ended] BY <2>3, <2>4 DEF Ended
  <2>7. \A d \in Conn : client'[d] = "new" <=> client[d] = "new" BY <2>3, <2>4, <2>5
  <2>8. Types'
    BY <2>1, <2>2, <2>6, CountAssumption DEF SetInv, Types, TypeOK, clientVars, kernelVars, setVars
  <2>9. SetsAgree' /\ ScanOK' /\ Accepted' BY <2>1, <2>7, SetFrame DEF setVars
  <2> QED BY <2>8, <2>9 DEF SetInv
<1> QED BY <1>1, <1>2, <1>3, <1>4

LEMMA SetStep == ASSUME SetInv, [Next]_vars PROVE SetInv'
<1>1. CASE UNCHANGED vars
  BY <1>1 DEF SetInv, Types, TypeOK, SetsAgree, ScanOK, Accepted, Sockets, Found, Current, Open, ToSet,
              vars, clientVars, kernelVars, setVars, ioVars
<1>2. CASE ServerStep
  BY <1>2, SelectSets, AcceptSets, ReadDataSets, ReadNothingSets, ReadFailsSets, WriteSets DEF ServerStep
<1>3. ASSUME NEW c \in Conn,
             Connect(c) \/ Type(c) \/ Write(c) \/ Quit(c) \/ ReaderStep(c) \/ Kill(c) \/ ResetArrives(c)
      PROVE  SetInv'
  BY <1>3, ConnectSets, ClientSets
<1> QED BY <1>1, <1>2, <1>3 DEF Next

(* Property SetsConsistent (echo_selectserv.c:48-73): whatever is accepted *)
(* and closed between the copy of the set and its use, select watches the  *)
(* open sockets, and what is left of the copy is about open ones.          *)
THEOREM SetsRight == Spec => []SetsConsistent
<1>1. Init => SetInv BY SetInit
<1>2. SetInv /\ [Next]_vars => SetInv' BY SetStep
<1>3. SetInv => SetsConsistent BY DEF SetInv, Types, SetsConsistent
<1> QED BY <1>1, <1>2, <1>3, PTL DEF Spec

-----------------------------------------------------------------------------
(* The life of a client                                                    *)

(* A client whose writer runs is served; one that said Q reads until it is *)
(* closed; one that is killed has no process left.  The server closes only *)
(* what it has read to the end.                                            *)
Life ==
    \A c \in Conn :
        /\ wpc[c] \in {"fgets", "write"} => client[c] = "up" /\ rpc[c] = "read" /\ ~ Closed(c)
        /\ wpc[c] = "ended" =>
             \/ rpc[c] = "read" /\ client[c] = "shut"
             \/ rpc[c] = "ended" /\ client[c] = "closed" /\ Closed(c)
        /\ wpc[c] = "none" => rpc[c] = "none" /\ client[c] \notin {"up", "shut"}
        /\ wpc[c] # "none" /\ Closed(c) => up[c] = <<>>

LEMMA AcceptFacts ==
  ASSUME SetInv, Accept
  PROVE  \E f \in Fds, h \in ToSet(backlog) :
            /\ fdTable[f] = NoConn /\ fdTable' = [fdTable EXCEPT ![f] = h] /\ h \in Conn
            /\ ToSet(backlog') = ToSet(backlog) \ {h}
<1> DEFINE h == Head(backlog)
<1>1. backlog # <<>> /\ h \in Conn BY StepFacts DEF Accept
<1>2. /\ backlog \in Seq(Conn) /\ (\A j, k \in 1..Len(backlog) : backlog[j] = backlog[k] => j = k)
  BY DEF SetInv, Types, Accepted
<1>3. PICK q : q = Tail(backlog) OBVIOUS
<1>4. h \in ToSet(backlog) /\ ToSet(q) = ToSet(backlog) \ {h} BY <1>1, <1>2, <1>3, QueueTail
<1>5. backlog' = q BY <1>3 DEF Accept
<1>6. PICK f \in Fds : fdTable[f] = NoConn /\ fdTable' = [fdTable EXCEPT ![f] = h]
  BY <1>1, FreeDescriptor DEF Accept
<1> HIDE DEF h
<1> QED BY <1>1, <1>4, <1>5, <1>6

(* The server closes a connection by the zero its read returned.           *)
LEMMA Closing ==
  ASSUME SetInv, ServerStep, NEW c \in Conn, client[c] # "new"
  PROVE  /\ client'[c] # "new" /\ (Closed(c) => Closed(c)')
         /\ \/ Closed(c)' => Closed(c)
            \/ up[c] = <<>> /\ client[c] \in Ended /\ client'[c] = client[c] /\ up' = up
<1> DEFINE Same == fdTable' = fdTable /\ backlog' = backlog
<1>1. client'[c] # "new"
  BY DEF SetInv, Types, TypeOK, ServerStep, Select, ScanEnds, Accept, ReadData, ReadNothing, ReadFails,
         WriteEchoes, WriteEnds, WriteFails
<1>2. CASE Accept
  <2>1. PICK f \in Fds, h \in ToSet(backlog) :
            /\ fdTable[f] = NoConn /\ fdTable' = [fdTable EXCEPT ![f] = h] /\ h \in Conn
            /\ ToSet(backlog') = ToSet(backlog) \ {h}
    BY <1>2, AcceptFacts
  <2>2. fdTable \in [Fds -> Conn \cup {NoConn}] BY DEF SetInv, Types, TypeOK
  <2>3. \A d \in Conn : d # h => (Open(d)' <=> Open(d)) BY <2>1, <2>2, NameAssumption DEF Open
  <2>4. Open(h)' /\ ~ Closed(h) BY <2>1, <2>2 DEF Open, Closed
  <2>5. Closed(c)' <=> Closed(c) BY <1>1, <2>1, <2>3, <2>4 DEF Closed
  <2> QED BY <1>1, <2>5
<1>3. ASSUME NEW f \in Fds, ReadNothing(f)
      PROVE  /\ Closed(c) => Closed(c)'
             /\ (Closed(c)' => Closed(c)) \/ (up[c] = <<>> /\ client[c] \in Ended /\ client' = client /\ up' = up)
  <2>1. /\ fdTable' = [fdTable EXCEPT ![f] = NoConn] /\ backlog' = backlog /\ client' = client /\ up' = up
        /\ up[fdTable[f]] = <<>> /\ client[fdTable[f]] \in Ended
    BY <1>3 DEF ReadNothing
  <2>2. fdTable \in [Fds -> Conn \cup {NoConn}] BY DEF SetInv, Types, TypeOK
  <2>3. Open(c)' => Open(c) BY <2>1, <2>2, NameAssumption DEF Open
  <2>4. fdTable[f] # c => (Open(c) => Open(c)') BY <2>1, <2>2 DEF Open
  <2>5. ToSet(backlog') = ToSet(backlog) BY <2>1
  <2> QED BY <2>1, <2>3, <2>4, <2>5 DEF Closed
<1>4. CASE UNCHANGED kernelVars
  <2>1. Closed(c)' <=> Closed(c) BY <1>1, <1>4 DEF Closed, Open, ToSet, kernelVars
  <2> QED BY <1>1, <2>1
<1> QED BY <1>1, <1>2, <1>3, <1>4
  DEF ServerStep, Select, ScanEnds, ReadData, ReadFails, WriteEchoes, WriteEnds, WriteFails

(* What one client does leaves the others as they are.                     *)
LEMMA OtherClients ==
  ASSUME SetInv, NEW c \in Conn, NEW d \in Conn, d # c,
         Connect(c) \/ Type(c) \/ Write(c) \/ Quit(c) \/ ReaderStep(c) \/ Kill(c) \/ ResetArrives(c)
  PROVE  /\ client'[d] = client[d] /\ wpc'[d] = wpc[d] /\ rpc'[d] = rpc[d] /\ lines'[d] = lines[d]
         /\ up'[d] = up[d] /\ down'[d] = down[d] /\ received'[d] = received[d]
         /\ Closed(d)' <=> Closed(d)
<1>1. /\ client'[d] = client[d] /\ wpc'[d] = wpc[d] /\ rpc'[d] = rpc[d] /\ lines'[d] = lines[d]
      /\ up'[d] = up[d] /\ down'[d] = down[d] /\ received'[d] = received[d]
  <2>1. /\ client \in [Conn -> {"new", "up", "reset"} \cup Ended] /\ lines \in [Conn -> Nat]
        /\ wpc \in [Conn -> {"none", "fgets", "write", "ended"}] /\ rpc \in [Conn -> {"none", "read", "ended"}]
        /\ up \in [Conn -> Seq(Unit)] /\ down \in [Conn -> Seq(Unit)] /\ received \in [Conn -> Seq(Unit)]
    BY DEF SetInv, Types, TypeOK
  <2>2. CASE Connect(c) BY <2>1, <2>2 DEF Connect
  <2>3. CASE Type(c) BY <2>1, <2>3 DEF Type
  <2>4. CASE Write(c)
    <3>1. PICK s : up' = [up EXCEPT ![c] = s] BY <2>4 DEF Write
    <3> QED BY <2>1, <2>4, <3>1 DEF Write
  <2>5. CASE Quit(c) BY <2>1, <2>5 DEF Quit, AfterQ
  <2>6. CASE Read(c)
    <3>1. PICK s : received' = [received EXCEPT ![c] = s] BY <2>6 DEF Read
    <3> QED BY <2>1, <2>6, <3>1 DEF Read
  <2>7. CASE ReadEnd(c) BY <2>1, <2>7 DEF ReadEnd
  <2>8. CASE Kill(c) BY <2>1, <2>8 DEF Kill
  <2>9. CASE ResetArrives(c) BY <2>1, <2>9 DEF ResetArrives, clientVars
  <2> QED BY <2>2, <2>3, <2>4, <2>5, <2>6, <2>7, <2>8, <2>9 DEF ReaderStep
<1>2. fdTable' = fdTable /\ (d \in ToSet(backlog') <=> d \in ToSet(backlog))
  <2>1. CASE Connect(c)
    <3>1. PICK q : q = Append(backlog, c) OBVIOUS
    <3>2. backlog' = q /\ fdTable' = fdTable BY <2>1, <3>1 DEF Connect
    <3>3. ToSet(q) = ToSet(backlog) \cup {c} BY <3>1, QueueAppend DEF SetInv, Types
    <3> QED BY <3>2, <3>3
  <2>2. CASE UNCHANGED kernelVars BY <2>2 DEF kernelVars
  <2> QED BY <2>1, <2>2 DEF Type, Write, Quit, ReaderStep, Read, ReadEnd, Kill, ResetArrives
<1>3. Open(d)' <=> Open(d) BY <1>2 DEF Open
<1> QED BY <1>1, <1>2, <1>3 DEF Closed

LEMMA LifeInit == ASSUME Init PROVE Life
BY DEF Init, Life

LEMMA ClientLife ==
  ASSUME SetInv, Life, NEW c \in Conn,
         Connect(c) \/ Type(c) \/ Write(c) \/ Quit(c) \/ ReaderStep(c) \/ Kill(c) \/ ResetArrives(c)
  PROVE  Life'
<1> DEFINE OwnLife ==
        /\ wpc[c] \in {"fgets", "write"} => client[c] = "up" /\ rpc[c] = "read" /\ ~ Closed(c)
        /\ wpc[c] = "ended" =>
             \/ rpc[c] = "read" /\ client[c] = "shut"
             \/ rpc[c] = "ended" /\ client[c] = "closed" /\ Closed(c)
        /\ wpc[c] = "none" => rpc[c] = "none" /\ client[c] \notin {"up", "shut"}
        /\ wpc[c] # "none" /\ Closed(c) => up[c] = <<>>
<1>1. OwnLife BY DEF Life
<1>2. /\ client \in [Conn -> {"new", "up", "reset"} \cup Ended]
      /\ wpc \in [Conn -> {"none", "fgets", "write", "ended"}]
      /\ rpc \in [Conn -> {"none", "read", "ended"}]
      /\ up \in [Conn -> Seq(Unit)]
  BY DEF SetInv, Types, TypeOK
<1>3. OwnLife'
  <2>1. CASE Connect(c)
    <3>1. PICK q : q = Append(backlog, c) OBVIOUS
    <3>2. backlog' = q BY <2>1, <3>1 DEF Connect
    <3>3. ToSet(q) = ToSet(backlog) \cup {c} BY <3>1, QueueAppend DEF SetInv, Types
    <3>4. ~ Closed(c)' BY <3>2, <3>3 DEF Closed
    <3>5. wpc'[c] = "fgets" /\ rpc'[c] = "read" /\ client'[c] = "up"
      BY <1>2, <2>1 DEF Connect, ReaderStarts
    <3> QED BY <3>4, <3>5
  <2>2. ASSUME UNCHANGED kernelVars PROVE client[c] # "new" /\ client'[c] # "new" => (Closed(c)' <=> Closed(c))
    BY <2>2 DEF Closed, Open, ToSet, kernelVars
  <2>3. CASE Type(c)
    <3>1. /\ wpc[c] = "fgets" /\ wpc'[c] = "write" /\ client' = client /\ rpc' = rpc /\ up' = up
          /\ UNCHANGED kernelVars
      BY <1>2, <2>3 DEF Type
    <3> QED BY <1>1, <2>2, <3>1
  <2>4. CASE Write(c)
    <3>1. /\ wpc[c] = "write" /\ wpc'[c] = "fgets" /\ client' = client /\ rpc' = rpc
          /\ UNCHANGED kernelVars
      BY <1>2, <2>4 DEF Write
    <3> QED BY <1>1, <2>2, <3>1
  <2>5. CASE Quit(c)
    <3>1. /\ wpc[c] = "fgets" /\ wpc'[c] = "ended" /\ up' = up /\ UNCHANGED kernelVars
          /\ client' = [client EXCEPT ![c] = SocketAfterQ(c)] /\ rpc' = AfterQ(c)
      BY <1>2, <2>5 DEF Quit
    <3>2. AfterQ(c)[c] = "read" BY <1>1, <1>2, <3>1 DEF AfterQ
    <3>3. rpc'[c] = "read" /\ client'[c] = "shut" BY <1>2, <3>1, <3>2 DEF SocketAfterQ
    <3> QED BY <1>1, <2>2, <3>1, <3>3
  <2>6. CASE Read(c)
    <3>1. wpc' = wpc /\ client' = client /\ rpc' = rpc /\ up' = up /\ UNCHANGED kernelVars BY <2>6 DEF Read
    <3>2. Closed(c)' <=> Closed(c) BY <3>1 DEF Closed, Open, ToSet, kernelVars
    <3> QED BY <1>1, <3>1, <3>2
  <2>7. CASE ReadEnd(c)
    <3>1. /\ rpc[c] = "read" /\ Closed(c) /\ rpc'[c] = "ended" /\ client'[c] = "closed"
          /\ wpc' = wpc /\ up' = up /\ UNCHANGED kernelVars
      BY <1>2, <2>7 DEF ReadEnd
    <3>2. client[c] # "new" BY <3>1 DEF Closed
    <3>3. wpc[c] = "ended" BY <1>1, <1>2, <3>1
    <3> QED BY <1>1, <2>2, <3>1, <3>2, <3>3
  <2>8. CASE Kill(c)
    <3>1. wpc'[c] = "none" /\ rpc'[c] = "none" /\ client'[c] \in {"closed", "reset", "dead"}
      BY <1>2, <2>8 DEF Kill
    <3> QED BY <3>1
  <2>9. CASE ResetArrives(c)
    <3>1. /\ client[c] = "answered" /\ client'[c] = "dead" /\ wpc' = wpc /\ rpc' = rpc
      BY <1>2, <2>9 DEF ResetArrives, clientVars
    <3>2. wpc[c] = "none" BY <1>1, <1>2, <3>1
    <3> QED BY <1>1, <3>1, <3>2
  <2> HIDE DEF OwnLife
  <2> QED BY <2>1, <2>3, <2>4, <2>5, <2>6, <2>7, <2>8, <2>9 DEF ReaderStep
<1>4. ASSUME NEW d \in Conn, d # c
      PROVE  (/\ wpc[d] \in {"fgets", "write"} => client[d] = "up" /\ rpc[d] = "read" /\ ~ Closed(d)
              /\ wpc[d] = "ended" =>
                   \/ rpc[d] = "read" /\ client[d] = "shut"
                   \/ rpc[d] = "ended" /\ client[d] = "closed" /\ Closed(d)
              /\ wpc[d] = "none" => rpc[d] = "none" /\ client[d] \notin {"up", "shut"}
              /\ wpc[d] # "none" /\ Closed(d) => up[d] = <<>>)'
  <2>1. /\ client'[d] = client[d] /\ wpc'[d] = wpc[d] /\ rpc'[d] = rpc[d]
        /\ up'[d] = up[d] /\ (Closed(d)' <=> Closed(d))
    BY <1>4, OtherClients
  <2> QED BY <2>1 DEF Life
<1> QED BY <1>3, <1>4 DEF Life

LEMMA ServerLife == ASSUME SetInv, Life, ServerStep PROVE Life'
<1>1. SUFFICES ASSUME NEW c \in Conn
      PROVE  (/\ wpc[c] \in {"fgets", "write"} => client[c] = "up" /\ rpc[c] = "read" /\ ~ Closed(c)
              /\ wpc[c] = "ended" =>
                   \/ rpc[c] = "read" /\ client[c] = "shut"
                   \/ rpc[c] = "ended" /\ client[c] = "closed" /\ Closed(c)
              /\ wpc[c] = "none" => rpc[c] = "none" /\ client[c] \notin {"up", "shut"}
              /\ wpc[c] # "none" /\ Closed(c) => up[c] = <<>>)'
  BY DEF Life
<1>2. /\ client \in [Conn -> {"new", "up", "reset"} \cup Ended]
      /\ wpc \in [Conn -> {"none", "fgets", "write", "ended"}]
      /\ up \in [Conn -> Seq(Unit)] /\ wpc' = wpc /\ rpc' = rpc
  BY DEF SetInv, Types, TypeOK, ServerStep, Select, ScanEnds, Accept, ReadData, ReadNothing, ReadFails,
         WriteEchoes, WriteEnds, WriteFails, clientVars
<1>3. ASSUME NEW f \in Fds, Step(f) PROVE fdTable[f] \in Conn BY <1>3, Scanned
<1>4. \/ client'[c] = client[c]
      \/ client[c] \in {"reset", "closed"} /\ client'[c] \in {"broken", "answered"} /\ Open(c)
  <2>1. CASE UNCHANGED client BY <2>1
  <2>2. ASSUME NEW f \in Fds, ReadFails(f)
        PROVE  \/ client'[c] = client[c]
               \/ client[c] = "reset" /\ client'[c] = "broken" /\ Open(c)
    <3>1. client' = [client EXCEPT ![fdTable[f]] = "broken"] /\ client[fdTable[f]] = "reset" BY <2>2 DEF ReadFails
    <3> QED BY <1>2, <3>1 DEF Open
  <2>3. CASE WriteFails
    <3>1. Current \in Conn /\ Open(Current) BY <2>3, WriteBounds DEF WriteFails, Current, Open
    <3>2. \/ client' = client
          \/ client[Current] = "closed" /\ client' = [client EXCEPT ![Current] = "answered"]
          \/ client[Current] = "reset" /\ client' = [client EXCEPT ![Current] = "broken"]
      BY <1>2, <2>3, <3>1 DEF WriteFails
    <3> QED BY <1>2, <3>1, <3>2
  <2> QED BY <2>1, <2>2, <2>3
    DEF ServerStep, Select, ScanEnds, Accept, ReadData, ReadNothing, WriteEchoes, WriteEnds
<1>5. up'[c] = up[c] \/ Open(c)
  <2>1. CASE UNCHANGED up BY <2>1
  <2>2. ASSUME NEW f \in Fds, ReadData(f) PROVE up'[c] = up[c] \/ Open(c)
    <3>1. PICK s : up' = [up EXCEPT ![fdTable[f]] = s] BY <2>2 DEF ReadData
    <3> QED BY <1>2, <3>1 DEF Open
  <2> QED BY <2>1, <2>2
    DEF ServerStep, Select, ScanEnds, Accept, ReadNothing, ReadFails, WriteEchoes, WriteEnds, WriteFails
<1>6. CASE client[c] = "new"
  <2>1. wpc[c] = "none" /\ client'[c] = "new" BY <1>2, <1>4, <1>6 DEF Life
  <2> QED BY <1>2, <2>1 DEF Life
<1>7. CASE client[c] # "new" /\ client'[c] = client[c]
  <2>1. /\ Closed(c) => Closed(c)'
        /\ \/ Closed(c)' => Closed(c)
           \/ up[c] = <<>> /\ client[c] \in Ended /\ up' = up
    BY <1>7, Closing
  <2>2. Closed(c) => ~ Open(c) BY DEF Closed
  <2>3. wpc[c] \in {"fgets", "write"} => ~ Closed(c)' BY <2>1 DEF Life, Ended
  <2>4. wpc[c] # "none" /\ Closed(c)' => up'[c] = <<>> BY <1>5, <2>1, <2>2 DEF Life
  <2> QED BY <1>2, <1>7, <2>1, <2>3, <2>4 DEF Life
<1>8. CASE client[c] \in {"reset", "closed"} /\ client'[c] \in {"broken", "answered"} /\ Open(c)
  <2>1. ~ Closed(c) BY <1>8 DEF Closed
  <2>2. wpc[c] = "none" BY <1>2, <1>8, <2>1 DEF Life
  <2> QED BY <1>2, <1>8, <2>2 DEF Life
<1> QED BY <1>4, <1>6, <1>7, <1>8

LEMMA LifeStep == ASSUME SetInv, Life, [Next]_vars PROVE Life'
<1>1. CASE UNCHANGED vars
  BY <1>1 DEF Life, Closed, Open, ToSet, vars, clientVars, kernelVars
<1> QED BY <1>1, ClientLife, ServerLife DEF Next

-----------------------------------------------------------------------------
(* The way of a line                                                       *)

Way(c) == Flow(received[c], down[c], Unwritten(c), up[c], Untyped(c))

LEMMA WayForm ==
  /\ EchoConserved <=> \A c \in Conn : ~ Lost(c) => Way(c) = Typed(c)
  /\ EchoConserved' <=> \A c \in Conn : ~ Lost(c)' => Way(c)' = Typed(c)'
BY DEF EchoConserved, Way, Flow, Cat

LEMMA WayTypes ==
  ASSUME SetInv, NEW c \in Conn
  PROVE  /\ received[c] \in Seq(Unit) /\ down[c] \in Seq(Unit) /\ up[c] \in Seq(Unit)
         /\ Unwritten(c) \in Seq(Unit) /\ Untyped(c) \in Seq(Unit) /\ lines[c] \in Nat
<1>1. received[c] \in Seq(Unit) /\ down[c] \in Seq(Unit) /\ up[c] \in Seq(Unit) /\ lines[c] \in Nat
  BY DEF SetInv, Types, TypeOK
<1>2. Unwritten(c) \in Seq(Unit)
  <2>1. CASE spc = "write" /\ Current = c
    <3>1. buf \in Seq(Unit) /\ Len(buf) \in Nat /\ written \in 0..Len(buf)
      BY <2>1, WriteBounds DEF SetInv, Types
    <3>2. SubSeq(buf, written + 1, Len(buf)) \in Seq(Unit)
      <4>1. PICK k \in 0..Len(buf) : k = written BY <3>1
      <4>2. \A j \in (k + 1)..Len(buf) : buf[j] \in Unit BY <3>1
      <4>3. SubSeq(buf, k + 1, Len(buf)) \in Seq(Unit) BY <3>1, <4>2, SubSeqProperties
      <4> QED BY <4>1, <4>3
    <3> QED BY <2>1, <3>2 DEF Unwritten
  <2>2. CASE ~ (spc = "write" /\ Current = c) BY <2>2 DEF Unwritten
  <2> QED BY <2>1, <2>2
<1>3. <<c, lines[c]>> \in Unit BY <1>1 DEF Unit
<1>4. Untyped(c) \in Seq(Unit) BY <1>3 DEF Untyped
<1> QED BY <1>1, <1>2, <1>4

LEMMA TypedNext ==
  ASSUME NEW c, NEW k \in Nat
  PROVE  [n \in 1..(k + 1) |-> <<c, n>>] = Cat([n \in 1..k |-> <<c, n>>], <<<<c, k + 1>>>>)
BY DEF Cat

LEMMA ClientEcho ==
  ASSUME SetInv, Life, EchoConserved, NEW c \in Conn,
         Connect(c) \/ Type(c) \/ Write(c) \/ Quit(c) \/ ReaderStep(c) \/ Kill(c) \/ ResetArrives(c)
  PROVE  EchoConserved'
<1>1. \A d \in Conn : ~ Lost(d) => Way(d) = Typed(d) BY WayForm
<1>2. \A d \in Conn : Unwritten(d)' = Unwritten(d)
  BY DEF Unwritten, Current, Connect, Type, Write, Quit, ReaderStep, Read, ReadEnd, Kill, ResetArrives,
         kernelVars, setVars, ioVars
<1>3. ASSUME NEW d \in Conn, d # c, ~ Lost(d)' PROVE Way(d)' = Typed(d)'
  <2>1. /\ client'[d] = client[d] /\ wpc'[d] = wpc[d] /\ lines'[d] = lines[d]
        /\ up'[d] = up[d] /\ down'[d] = down[d] /\ received'[d] = received[d]
    BY <1>3, OtherClients
  <2>2. ~ Lost(d) BY <1>3, <2>1 DEF Lost
  <2>3. Untyped(d)' = Untyped(d) /\ Typed(d)' = Typed(d) BY <2>1 DEF Untyped, Typed
  <2>4. Way(d)' = Way(d) BY <1>2, <2>1, <2>3 DEF Way
  <2> QED BY <1>1, <2>2, <2>3, <2>4
<1>4. ASSUME ~ Lost(c)' PROVE Way(c)' = Typed(c)'
  <2>1. /\ client \in [Conn -> {"new", "up", "reset"} \cup Ended] /\ lines \in [Conn -> Nat]
        /\ wpc \in [Conn -> {"none", "fgets", "write", "ended"}] /\ rpc \in [Conn -> {"none", "read", "ended"}]
        /\ up \in [Conn -> Seq(Unit)] /\ down \in [Conn -> Seq(Unit)] /\ received \in [Conn -> Seq(Unit)]
    BY DEF SetInv, Types, TypeOK
  <2>2. /\ received[c] \in Seq(Unit) /\ down[c] \in Seq(Unit) /\ up[c] \in Seq(Unit)
        /\ Unwritten(c) \in Seq(Unit) /\ Untyped(c) \in Seq(Unit) /\ lines[c] \in Nat
    BY WayTypes
  <2>3. CASE ~ Lost(c) /\ Untyped(c)' = Untyped(c) /\ UNCHANGED <<lines, received, down, up>>
    <3>1. Way(c)' = Way(c) /\ Typed(c)' = Typed(c) BY <1>2, <2>3 DEF Way, Typed
    <3> QED BY <1>1, <2>3, <3>1
  <2>4. CASE Connect(c)
    <3>1. /\ client[c] = "new" /\ wpc'[c] = "fgets" /\ UNCHANGED <<lines, received, down, up>>
      BY <2>1, <2>4 DEF Connect
    <3>2. wpc[c] = "none" BY <2>1, <3>1 DEF Life
    <3> QED BY <2>3, <3>1, <3>2 DEF Lost, Untyped
  <2>5. CASE Type(c)
    <3>1. /\ wpc[c] = "fgets" /\ wpc'[c] = "write" /\ lines'[c] = lines[c] + 1
          /\ UNCHANGED <<received, down, up>>
      BY <2>1, <2>5 DEF Type
    <3>2. PICK x \in Unit : x = <<c, lines[c] + 1>>
      <4>1. PICK k \in Nat : k = lines[c] + 1 BY <2>2
      <4>2. <<c, k>> \in Unit BY DEF Unit
      <4> QED BY <4>1, <4>2
    <3>3. Untyped(c) = <<>> /\ Untyped(c)' = <<x>> BY <3>1, <3>2 DEF Untyped
    <3>4. ~ Lost(c) BY <3>1 DEF Lost
    <3>5. Typed(c)' = Cat(Typed(c), <<x>>) BY <2>2, <3>1, <3>2, TypedNext DEF Typed
    <3>6. Way(c)' = Flow(received[c], down[c], Unwritten(c), up[c], <<x>>)
      BY <1>2, <3>1, <3>3 DEF Way
    <3>7. Flow(received[c], down[c], Unwritten(c), up[c], <<x>>)
            = Cat(Flow(received[c], down[c], Unwritten(c), up[c], <<>>), <<x>>)
      <4>1. PICK r \in Seq(Unit) : r = received[c] BY <2>2
      <4>2. PICK d \in Seq(Unit) : d = down[c] BY <2>2
      <4>3. PICK w \in Seq(Unit) : w = Unwritten(c) BY <2>2
      <4>4. PICK u \in Seq(Unit) : u = up[c] BY <2>2
      <4>5. r \in Seq(Unit) /\ d \in Seq(Unit) /\ w \in Seq(Unit) /\ u \in Seq(Unit) /\ x \in Unit
        BY <3>2, <4>1, <4>2, <4>3, <4>4
      <4>6. Flow(r, d, w, u, <<x>>) = Cat(Flow(r, d, w, u, <<>>), <<x>>) BY <4>5, FlowType
      <4> QED BY <4>1, <4>2, <4>3, <4>4, <4>6
    <3>8. Way(c) = Flow(received[c], down[c], Unwritten(c), up[c], <<>>) BY <3>3 DEF Way
    <3> QED BY <1>1, <3>4, <3>5, <3>6, <3>7, <3>8
  <2>6. CASE Write(c)
    <3>1. PICK x \in Unit : x = <<c, lines[c]>> BY <2>2 DEF Unit
    <3>2. /\ wpc[c] = "write" /\ wpc'[c] = "fgets" /\ UNCHANGED <<received, down, lines>>
          /\ up'[c] = Append(up[c], x)
      BY <2>1, <2>6, <3>1 DEF Write
    <3>3. Untyped(c) = <<x>> /\ Untyped(c)' = <<>> BY <3>1, <3>2 DEF Untyped
    <3>4. ~ Lost(c) BY <3>2 DEF Lost
    <3>5. Way(c)' = Flow(received[c], down[c], Unwritten(c), Append(up[c], x), <<>>)
      BY <1>2, <3>2, <3>3 DEF Way
    <3>6. Flow(received[c], down[c], Unwritten(c), Append(up[c], x), <<>>)
            = Flow(received[c], down[c], Unwritten(c), up[c], <<x>>)
      BY <2>2, FlowWrite
    <3>7. Way(c) = Flow(received[c], down[c], Unwritten(c), up[c], <<x>>) BY <3>3 DEF Way
    <3>8. Typed(c)' = Typed(c) BY <3>2 DEF Typed
    <3> QED BY <1>1, <3>4, <3>5, <3>6, <3>7, <3>8
  <2>7. CASE Quit(c)
    <3>1. wpc[c] = "fgets" /\ wpc'[c] = "ended" /\ UNCHANGED <<lines, received, down, up>>
      BY <2>1, <2>7 DEF Quit
    <3> QED BY <2>3, <3>1 DEF Lost, Untyped
  <2>8. CASE Read(c)
    <3>1. /\ received'[c] = Cat(received[c], down[c]) /\ down'[c] = <<>>
          /\ UNCHANGED <<client, wpc, lines, up>>
      BY <2>1, <2>8 DEF Read, Cat
    <3>2. Untyped(c)' = Untyped(c) /\ Typed(c)' = Typed(c) /\ ~ Lost(c) BY <1>4, <3>1 DEF Untyped, Typed, Lost
    <3>3. Way(c)' = Flow(Cat(received[c], down[c]), <<>>, Unwritten(c), up[c], Untyped(c))
      BY <1>2, <3>1, <3>2 DEF Way
    <3>4. Way(c)' = Way(c) BY <2>2, <3>3, FlowRead DEF Way
    <3> QED BY <1>1, <3>2, <3>4
  <2>9. CASE ReadEnd(c)
    <3>1. wpc' = wpc /\ client[c] # "new" /\ UNCHANGED <<lines, received, down, up>>
          /\ client'[c] = "closed"
      BY <2>1, <2>9 DEF ReadEnd, Closed
    <3> QED BY <1>4, <2>3, <3>1 DEF Lost, Untyped
  <2>10. CASE Kill(c)
    <3>1. wpc'[c] = "none" /\ client'[c] # "new" BY <2>1, <2>10 DEF Kill
    <3> QED BY <1>4, <3>1 DEF Lost
  <2>11. CASE ResetArrives(c)
    <3>1. wpc' = wpc /\ client'[c] # "new" /\ client[c] # "new" /\ UNCHANGED <<lines, received, down, up>>
      BY <2>1, <2>11 DEF ResetArrives, clientVars
    <3> QED BY <1>4, <2>3, <3>1 DEF Lost, Untyped
  <2> QED BY <2>4, <2>5, <2>6, <2>7, <2>8, <2>9, <2>10, <2>11 DEF ReaderStep
<1> QED BY <1>3, <1>4, WayForm

LEMMA ServerEcho == ASSUME SetInv, Life, EchoConserved, ServerStep PROVE EchoConserved'
<1>1. \A c \in Conn : ~ Lost(c) => Way(c) = Typed(c) BY WayForm
<1>2. SUFFICES ASSUME NEW c \in Conn, ~ Lost(c) PROVE Way(c)' = Way(c)
  <2>1. UNCHANGED clientVars
    BY DEF ServerStep, Select, ScanEnds, Accept, ReadData, ReadNothing, ReadFails, WriteEchoes, WriteEnds,
           WriteFails
  <2>2. \A c \in Conn : client[c] # "new" => client'[c] # "new" BY Closing
  <2>3. \A c \in Conn : ~ Lost(c)' => ~ Lost(c) BY <2>1, <2>2 DEF Lost, clientVars
  <2>4. \A c \in Conn : Typed(c)' = Typed(c) BY <2>1 DEF Typed, clientVars
  <2> QED BY <1>1, <2>3, <2>4, WayForm
<1>3. UNCHANGED <<lines, received>> /\ Untyped(c)' = Untyped(c)
  BY DEF ServerStep, Select, ScanEnds, Accept, ReadData, ReadNothing, ReadFails, WriteEchoes, WriteEnds,
         WriteFails, clientVars, Untyped
<1>4. /\ received[c] \in Seq(Unit) /\ down[c] \in Seq(Unit) /\ up[c] \in Seq(Unit)
      /\ Unwritten(c) \in Seq(Unit) /\ Untyped(c) \in Seq(Unit)
      /\ up \in [Conn -> Seq(Unit)] /\ down \in [Conn -> Seq(Unit)]
  BY WayTypes DEF SetInv, Types
<1>5. CASE UNCHANGED <<up, down>> /\ Unwritten(c)' = Unwritten(c)
  BY <1>3, <1>5 DEF Way
<1>6. CASE spc # "write" /\ spc' # "write" /\ UNCHANGED <<up, down>>
  <2>1. Unwritten(c)' = Unwritten(c) BY <1>6 DEF Unwritten
  <2> QED BY <1>5, <1>6, <2>1
<1>7. ASSUME NEW f \in Fds, ReadData(f) PROVE Way(c)' = Way(c)
  <2> DEFINE b == fdTable[f]
  <2>1. /\ i' - 1 = f /\ b \in Conn /\ spc = "scan" /\ spc' = "write" /\ Current' = b
        /\ written' = 0 /\ UNCHANGED down
    BY <1>7, Scanned DEF ReadData, Current, kernelVars
  <2>2. PICK n \in 0..Len(up[b]) : n = ReadLen(b) BY <2>1, ReadBounds
  <2>3. buf' = SubSeq(up[b], 1, n) /\ up' = [up EXCEPT ![b] = SubSeq(up[b], n + 1, Len(up[b]))]
    BY <1>7, <2>2 DEF ReadData
  <2> HIDE DEF b
  <2>4. Unwritten(c) = <<>> BY <2>1 DEF Unwritten
  <2>5. CASE c # b
    <3>1. Unwritten(c)' = <<>> /\ up'[c] = up[c] BY <1>4, <2>1, <2>3, <2>5 DEF Unwritten
    <3> QED BY <1>3, <2>1, <2>4, <3>1 DEF Way
  <2>6. CASE c = b
    <3>1. SubSeq(up[c], 1, n) \in Seq(Unit) BY <1>4, <2>2, <2>6, FlowTaken
    <3>2. SubSeq(buf', 1, Len(buf')) = buf'
      <4>1. PICK s \in Seq(Unit) : s = SubSeq(up[c], 1, n) BY <3>1
      <4>2. SubSeq(s, 1, Len(s)) = s BY SubSeqFull
      <4> QED BY <2>3, <2>6, <4>1, <4>2
    <3>3. Unwritten(c)' = SubSeq(up[c], 1, n) /\ up'[c] = SubSeq(up[c], n + 1, Len(up[c]))
      <4>1. Unwritten(c)' = SubSeq(buf', 0 + 1, Len(buf')) BY <2>1, <2>6 DEF Unwritten
      <4> QED BY <1>4, <2>3, <2>6, <3>2, <4>1
    <3>4. Way(c)' = Flow(received[c], down[c], SubSeq(up[c], 1, n), SubSeq(up[c], n + 1, Len(up[c])), Untyped(c))
      BY <1>3, <2>1, <3>3 DEF Way
    <3>5. Way(c)' = Flow(received[c], down[c], <<>>, up[c], Untyped(c))
      BY <1>4, <2>2, <2>6, <3>4, FlowTaken
    <3> QED BY <2>4, <3>5 DEF Way
  <2> QED BY <2>5, <2>6
<1>8. CASE WriteEchoes
  <2>1. /\ Current \in Conn /\ Len(buf) \in Nat /\ written \in 0..Len(buf)
        /\ Room \in 0..(Len(buf) - written) /\ buf \in Seq(Unit)
    BY <1>8, WriteBounds DEF WriteEchoes, SetInv, Types
  <2>2. PICK k \in 0..Len(buf) : k = written BY <2>1
  <2>3. PICK m \in 0..(Len(buf) - k) : m = Room BY <2>1, <2>2
  <2>4. /\ spc = "write" /\ spc' = "write" /\ buf' = buf /\ written' = k + m /\ Current' = Current
        /\ up' = up /\ down' = [down EXCEPT ![Current] = Cat(@, Slice(buf, k + 1, k + m))]
    BY <1>8, <2>2, <2>3 DEF WriteEchoes, AfterWrite, Current, kernelVars, setVars, Cat, Slice
  <2>5. CASE c # Current
    <3>1. Unwritten(c)' = Unwritten(c) /\ down'[c] = down[c] BY <1>4, <2>1, <2>4, <2>5 DEF Unwritten, Slice
    <3> QED BY <1>3, <2>4, <3>1 DEF Way
  <2>6. CASE c = Current
    <3>1. Unwritten(c) = Slice(buf, k + 1, Len(buf)) BY <2>2, <2>4, <2>6 DEF Unwritten, Slice
    <3>2. Unwritten(c)' = Slice(buf, k + m + 1, Len(buf)) BY <2>4, <2>6 DEF Unwritten, Slice
    <3>3. down'[c] = Cat(down[c], Slice(buf, k + 1, k + m)) BY <1>4, <2>1, <2>4, <2>6
    <3>4. Way(c)' = Flow(received[c], Cat(down[c], Slice(buf, k + 1, k + m)),
                         Slice(buf, k + m + 1, Len(buf)), up[c], Untyped(c))
      BY <1>3, <2>4, <3>2, <3>3 DEF Way
    <3>5. Way(c)' = Flow(received[c], down[c], Slice(buf, k + 1, Len(buf)), up[c], Untyped(c))
      <4>1. PICK r \in Seq(Unit) : r = received[c] BY <1>4
      <4>2. PICK d \in Seq(Unit) : d = down[c] BY <1>4
      <4>3. PICK s \in Seq(Unit) : s = Slice(buf, k + 1, k + m) BY <2>1, SliceSent
      <4>4. PICK e \in Seq(Unit) : e = Slice(buf, k + m + 1, Len(buf)) BY <2>1, SliceSent
      <4>5. Cat(s, e) = Slice(buf, k + 1, Len(buf)) BY <2>1, <4>3, <4>4, SliceSent
      <4>6. r \in Seq(Unit) /\ d \in Seq(Unit) /\ s \in Seq(Unit) /\ e \in Seq(Unit)
        BY <4>1, <4>2, <4>3, <4>4
      <4>7. Flow(r, Cat(d, s), e, up[c], Untyped(c)) = Flow(r, d, Cat(s, e), up[c], Untyped(c))
        BY <4>6, FlowSent
      <4> QED BY <3>4, <4>1, <4>2, <4>3, <4>4, <4>5, <4>7
    <3> QED BY <3>1, <3>5 DEF Way
  <2> QED BY <2>5, <2>6
<1>9. CASE WriteEnds
  <2>1. /\ spc = "write" /\ spc' = "scan" /\ written = Len(buf) /\ UNCHANGED <<up, down>>
        /\ buf \in Seq(Unit) /\ Len(buf) \in Nat
    BY <1>9, WriteBounds DEF WriteEnds, SetInv, Types
  <2>2. SubSeq(buf, written + 1, Len(buf)) = <<>> BY <2>1, SubSeqEmpty
  <2>3. Unwritten(c) = <<>> /\ Unwritten(c)' = <<>> BY <2>1, <2>2 DEF Unwritten
  <2> QED BY <1>5, <2>1, <2>3
<1>10. CASE WriteFails
  <2>1. /\ spc = "write" /\ spc' = "scan" /\ UNCHANGED <<up, down>>
        /\ client[Current] \in {"closed", "answered", "dead", "reset", "broken"}
    BY <1>10 DEF WriteFails
  <2>2. Current \in Conn /\ ~ Closed(Current) BY <2>1, WriteBounds DEF Closed, Open, Current
  <2>3. wpc[Current] = "none" /\ client[Current] # "new"
    BY <2>1, <2>2 DEF Life, SetInv, Types, TypeOK
  <2>4. c # Current BY <1>2, <2>3 DEF Lost
  <2>5. Unwritten(c) = <<>> /\ Unwritten(c)' = <<>> BY <2>1, <2>4 DEF Unwritten
  <2> QED BY <1>5, <2>1, <2>5
<1> QED BY <1>6, <1>7, <1>8, <1>9, <1>10
  DEF ServerStep, Select, ScanEnds, Accept, ReadNothing, ReadFails, Step, ioVars

EchoInv == SetInv /\ Life /\ EchoConserved

LEMMA EchoInit == ASSUME Init PROVE EchoConserved
<1>1. SUFFICES ASSUME NEW c \in Conn PROVE Way(c) = Typed(c) BY WayForm
<1>2. Way(c) = Flow(<<>>, <<>>, <<>>, <<>>, <<>>) BY DEF Init, Way, Unwritten, Untyped
<1>3. Flow(<<>>, <<>>, <<>>, <<>>, <<>>) = <<>>
  <2>1. Cat(<<>>, <<>>) = <<>> BY DEF Cat
  <2> QED BY <2>1 DEF Flow
<1>4. Typed(c) = <<>> BY DEF Init, Typed
<1> QED BY <1>2, <1>3, <1>4

LEMMA EchoStep == ASSUME EchoInv, [Next]_vars PROVE EchoInv'
<1>1. CASE UNCHANGED vars
  <2>1. EchoConserved'
    BY <1>1 DEF EchoInv, EchoConserved, Lost, Typed, Unwritten, Untyped, Current,
                vars, clientVars, kernelVars, setVars, ioVars
  <2> QED BY <2>1, SetStep, LifeStep DEF EchoInv
<1>2. CASE Next
  <2>1. EchoConserved' BY <1>2, ClientEcho, ServerEcho DEF EchoInv, Next
  <2> QED BY <2>1, SetStep, LifeStep DEF EchoInv
<1> QED BY <1>1, <1>2

(* Property EchoConserved (echo_selectserv.c:69, 76): every line is at one *)
(* place of its way to the server and back, in order, and in nobody else's *)
(* echo, though the server has one buffer and may block in write.          *)
THEOREM EchoRight == Spec => []EchoConserved
<1>1. Init => EchoInv BY SetInit, LifeInit, EchoInit DEF EchoInv
<1>2. EchoInv /\ [Next]_vars => EchoInv' BY EchoStep
<1>3. EchoInv => EchoConserved BY DEF EchoInv
<1> QED BY <1>1, <1>2, <1>3, PTL DEF Spec

-----------------------------------------------------------------------------
(* The echo service                                                        *)

LEMMA FlowLength ==
  ASSUME NEW S, NEW r \in Seq(S), NEW d \in Seq(S), NEW w \in Seq(S), NEW u \in Seq(S), NEW t \in Seq(S)
  PROVE  Len(Flow(r, d, w, u, t)) = Len(r) + Len(d) + Len(w) + Len(u) + Len(t)
<1>1. \A s, v \in Seq(S) : Cat(s, v) \in Seq(S) /\ Len(Cat(s, v)) = Len(s) + Len(v)
  BY ConcatProperties DEF Cat
<1>2. Cat(r, d) \in Seq(S) /\ Len(Cat(r, d)) = Len(r) + Len(d) BY <1>1
<1>3. /\ Cat(Cat(r, d), w) \in Seq(S)
      /\ Len(Cat(Cat(r, d), w)) = Len(r) + Len(d) + Len(w)
  BY <1>1, <1>2
<1>4. /\ Cat(Cat(Cat(r, d), w), u) \in Seq(S)
      /\ Len(Cat(Cat(Cat(r, d), w), u)) = Len(r) + Len(d) + Len(w) + Len(u)
  BY <1>1, <1>3
<1> QED BY <1>1, <1>4 DEF Flow

(* All that is on the way of a client together is what its user has typed. *)
LEMMA LinesInFlow ==
  ASSUME EchoInv, NEW c \in Conn, ~ Lost(c)
  PROVE  \E a, b, w, u, t \in Nat :
            /\ a = Len(received[c]) /\ b = Len(down[c]) /\ w = Len(Unwritten(c))
            /\ u = Len(up[c]) /\ t = Len(Untyped(c)) /\ lines[c] = a + b + w + u + t
<1>1. /\ received[c] \in Seq(Unit) /\ down[c] \in Seq(Unit) /\ up[c] \in Seq(Unit)
      /\ Unwritten(c) \in Seq(Unit) /\ Untyped(c) \in Seq(Unit) /\ lines[c] \in Nat
  BY WayTypes DEF EchoInv
<1>2. Way(c) = Typed(c) BY WayForm DEF EchoInv
<1>3. Len(Typed(c)) = lines[c] BY <1>1 DEF Typed
<1>4. Len(Way(c)) = Len(received[c]) + Len(down[c]) + Len(Unwritten(c)) + Len(up[c]) + Len(Untyped(c))
  <2>1. PICK r \in Seq(Unit) : r = received[c] BY <1>1
  <2>2. PICK d \in Seq(Unit) : d = down[c] BY <1>1
  <2>3. PICK w \in Seq(Unit) : w = Unwritten(c) BY <1>1
  <2>4. PICK u \in Seq(Unit) : u = up[c] BY <1>1
  <2>5. PICK t \in Seq(Unit) : t = Untyped(c) BY <1>1
  <2>6. r \in Seq(Unit) /\ d \in Seq(Unit) /\ w \in Seq(Unit) /\ u \in Seq(Unit) /\ t \in Seq(Unit)
    BY <2>1, <2>2, <2>3, <2>4, <2>5
  <2>7. Len(Flow(r, d, w, u, t)) = Len(r) + Len(d) + Len(w) + Len(u) + Len(t) BY <2>6, FlowLength
  <2> QED BY <2>1, <2>2, <2>3, <2>4, <2>5, <2>7 DEF Way
<1>5. lines[c] = Len(received[c]) + Len(down[c]) + Len(Unwritten(c)) + Len(up[c]) + Len(Untyped(c))
  BY <1>2, <1>3, <1>4
<1>6. /\ Len(received[c]) \in Nat /\ Len(down[c]) \in Nat /\ Len(Unwritten(c)) \in Nat
      /\ Len(up[c]) \in Nat /\ Len(Untyped(c)) \in Nat
  BY <1>1, LenProperties
<1> QED BY <1>5, <1>6, Zenon

(* The service's variables, as Service substitutes them.                   *)
Returned == [c \in Conn |-> Len(received[c])]
State ==
    [c \in Conn |->
        IF Lost(c) THEN "lost" ELSE IF rpc[c] = "ended" THEN "closed"
        ELSE IF wpc[c] = "ended" THEN "ended" ELSE "open"]

(* A step that leaves a client's lines, processes and loss alone stutters. *)
LEMMA Stutters ==
  ASSUME UNCHANGED <<lines, received, wpc, rpc>>, \A c \in Conn : Lost(c)' <=> Lost(c)
  PROVE  UNCHANGED Service!vars
<1>1. Returned' = Returned BY DEF Returned
<1>2. State' = State BY DEF State
<1> QED BY <1>1, <1>2 DEF Service!vars, Returned, State

(* What a client's processes are tells its state.                          *)
LEMMA StateOf ==
  ASSUME EchoInv, NEW c \in Conn
  PROVE  /\ wpc[c] \in {"fgets", "write"} => State[c] = "open" /\ ~ Lost(c)
         /\ wpc[c] = "ended" => ~ Lost(c) /\ State[c] = IF rpc[c] = "ended" THEN "closed" ELSE "ended"
         /\ client[c] = "new" => wpc[c] = "none" /\ rpc[c] = "none" /\ State[c] = "open" /\ ~ Lost(c)
         /\ Lost(c) => State[c] = "lost" /\ client[c] \notin {"up", "shut"}
<1>1. wpc[c] \in {"none", "fgets", "write", "ended"} BY DEF EchoInv, SetInv, Types, TypeOK
<1> QED BY <1>1 DEF EchoInv, Life, State, Lost

LEMMA RefinesClient ==
  ASSUME EchoInv, NEW c \in Conn,
         Connect(c) \/ Type(c) \/ Write(c) \/ Quit(c) \/ ReaderStep(c) \/ Kill(c) \/ ResetArrives(c)
  PROVE  [Service!Next]_(Service!vars)
<1>1. /\ client \in [Conn -> {"new", "up", "reset"} \cup Ended] /\ lines \in [Conn -> Nat]
      /\ wpc \in [Conn -> {"none", "fgets", "write", "ended"}] /\ rpc \in [Conn -> {"none", "read", "ended"}]
      /\ received \in [Conn -> Seq(Unit)] /\ down \in [Conn -> Seq(Unit)]
  BY DEF EchoInv, SetInv, Types, TypeOK
<1>2. \A d \in Conn : d # c => (Lost(d)' <=> Lost(d)) /\ wpc'[d] = wpc[d] /\ rpc'[d] = rpc[d]
  BY OtherClients DEF EchoInv, Lost
<1>3. \A d \in Conn : d # c => State'[d] = State[d] BY <1>2 DEF State
<1>4. CASE Connect(c)
  <2>1. client[c] = "new" /\ wpc'[c] = "fgets" /\ rpc'[c] = "read" /\ UNCHANGED <<lines, received>>
    BY <1>1, <1>4 DEF Connect, ReaderStarts
  <2>2. State[c] = "open" /\ State'[c] = "open" BY <2>1, StateOf DEF State, Lost
  <2>3. State' = State BY <1>3, <2>2 DEF State
  <2>4. Returned' = Returned BY <2>1 DEF Returned
  <2> QED BY <2>1, <2>3, <2>4 DEF Service!vars, Returned, State
<1>5. CASE Type(c)
  <2>1. /\ wpc[c] = "fgets" /\ wpc'[c] = "write" /\ rpc' = rpc /\ received' = received
        /\ lines' = [lines EXCEPT ![c] = @ + 1] /\ client' = client
    BY <1>1, <1>5 DEF Type
  <2>2. rpc[c] = "read" BY <2>1 DEF EchoInv, Life
  <2>3. State[c] = "open" /\ State'[c] = "open" BY <2>1, <2>2, StateOf DEF State, Lost
  <2>4. State' = State BY <1>3, <2>3 DEF State
  <2>5. Returned' = Returned BY <2>1 DEF Returned
  <2>6. Service!Ask(c) BY <2>1, <2>3, <2>4, <2>5 DEF Service!Ask, Returned, State
  <2> QED BY <2>6 DEF Service!Next
<1>6. CASE Write(c)
  <2>1. wpc[c] = "write" /\ wpc'[c] = "fgets" /\ rpc' = rpc /\ UNCHANGED <<lines, received>>
    BY <1>1, <1>6 DEF Write
  <2>2. rpc[c] = "read" BY <2>1 DEF EchoInv, Life
  <2>3. State[c] = "open" /\ State'[c] = "open" BY <2>1, <2>2, StateOf DEF State, Lost
  <2>4. State' = State BY <1>3, <2>3 DEF State
  <2>5. Returned' = Returned BY <2>1 DEF Returned
  <2> QED BY <2>1, <2>4, <2>5 DEF Service!vars, Returned, State
<1>7. CASE Quit(c)
  <2>1. /\ wpc[c] = "fgets" /\ wpc'[c] = "ended" /\ rpc' = AfterQ(c) /\ UNCHANGED <<lines, received>>
    BY <1>1, <1>7 DEF Quit
  <2>2. rpc'[c] = "read" BY <1>1, <2>1 DEF EchoInv, Life, AfterQ
  <2>3. State[c] = "open" BY <2>1, StateOf
  <2>4. State'[c] = "ended" BY <2>1, <2>2 DEF State, Lost
  <2>5. State' = [State EXCEPT ![c] = "ended"] BY <1>3, <2>4 DEF State
  <2>6. Returned' = Returned BY <2>1 DEF Returned
  <2>7. Service!End(c) BY <2>1, <2>3, <2>5, <2>6 DEF Service!End, Returned, State
  <2> QED BY <2>7 DEF Service!Next
<1>8. CASE Read(c)
  <2>1. /\ rpc[c] = "read" /\ down[c] # <<>> /\ UNCHANGED <<lines, client, wpc, rpc>>
        /\ received' = [received EXCEPT ![c] = @ \o down[c]]
    BY <1>8 DEF Read
  <2>2. wpc[c] # "none" BY <2>1 DEF EchoInv, Life
  <2>3. ~ Lost(c) /\ State[c] \in {"open", "ended"} BY <1>1, <2>1, <2>2, StateOf
  <2>4. State' = State BY <2>1 DEF State, Lost
  <2>5. PICK a, b, w, u, t \in Nat :
            /\ a = Len(received[c]) /\ b = Len(down[c]) /\ w = Len(Unwritten(c))
            /\ u = Len(up[c]) /\ t = Len(Untyped(c)) /\ lines[c] = a + b + w + u + t
    BY <2>3, LinesInFlow
  <2>6. PICK n \in Nat : n = a + b /\ n \in (Returned[c] + 1)..lines[c]
    <3>1. b # 0 BY <1>1, <2>1, <2>5, EmptySeq
    <3>2. a + b \in (a + 1)..(a + b + w + u + t) BY <3>1
    <3>3. Returned[c] = a BY <2>5 DEF Returned
    <3>4. lines[c] = a + b + w + u + t BY <2>5
    <3> QED BY <3>2, <3>3, <3>4
  <2>7. Returned' = [Returned EXCEPT ![c] = n]
    <3>1. Len(received[c] \o down[c]) = n BY <1>1, <2>5, <2>6, ConcatProperties
    <3>2. PICK s : s = received[c] \o down[c] OBVIOUS
    <3>3. Len(s) = n /\ received' = [received EXCEPT ![c] = s] BY <2>1, <3>1, <3>2
    <3> QED BY <1>1, <3>3 DEF Returned
  <2>8. Service!Return(c) BY <2>1, <2>3, <2>4, <2>6, <2>7 DEF Service!Return, Returned, State
  <2> QED BY <2>8 DEF Service!Next
<1>9. CASE ReadEnd(c)
  <2>1. /\ rpc[c] = "read" /\ down[c] = <<>> /\ Closed(c) /\ UNCHANGED <<lines, received, wpc>>
        /\ rpc'[c] = "ended" /\ client'[c] = "closed"
    BY <1>1, <1>9 DEF ReadEnd
  <2>2. wpc[c] = "ended" BY <1>1, <2>1 DEF EchoInv, Life
  <2>3. ~ Lost(c) /\ State[c] = "ended" BY <2>1, <2>2, StateOf
  <2>4. State'[c] = "closed" BY <2>1, <2>2 DEF State, Lost
  <2>5. State' = [State EXCEPT ![c] = "closed"] BY <1>3, <2>4 DEF State
  <2>6. Returned' = Returned BY <2>1 DEF Returned
  <2>7. Returned[c] = lines[c]
    <3>1. up[c] = <<>> BY <2>1, <2>2 DEF EchoInv, Life
    <3>2. Untyped(c) = <<>> BY <2>2 DEF Untyped
    <3>3. Unwritten(c) = <<>>
      <4>1. ~ (spc = "write" /\ Current = c) BY <2>1, WriteBounds DEF EchoInv, Closed, Open, Current
      <4> QED BY <4>1 DEF Unwritten
    <3>4. PICK a, b, w, u, t \in Nat :
            /\ a = Len(received[c]) /\ b = Len(down[c]) /\ w = Len(Unwritten(c))
            /\ u = Len(up[c]) /\ t = Len(Untyped(c)) /\ lines[c] = a + b + w + u + t
      BY <2>3, LinesInFlow
    <3>5. b = 0 /\ w = 0 /\ u = 0 /\ t = 0 BY <2>1, <3>1, <3>2, <3>3, <3>4
    <3> QED BY <3>4, <3>5 DEF Returned
  <2>8. Service!Close(c) BY <2>1, <2>3, <2>5, <2>6, <2>7 DEF Service!Close, Returned, State
  <2> QED BY <2>8 DEF Service!Next
<1>10. CASE Kill(c)
  <2>1. /\ client[c] \in {"up", "shut"} /\ ~ Closed(c) /\ UNCHANGED <<lines, received>>
        /\ wpc'[c] = "none" /\ client'[c] # "new"
    BY <1>1, <1>10 DEF Kill
  <2>2. ~ Lost(c) /\ wpc[c] # "none" BY <2>1, StateOf DEF EchoInv, Life
  <2>3. wpc[c] = "ended" => rpc[c] = "read" BY <2>1 DEF EchoInv, Life
  <2>4. State[c] \in {"open", "ended"} BY <1>1, <2>2, <2>3, StateOf
  <2>5. State'[c] = "lost" BY <2>1 DEF State, Lost
  <2>6. State' = [State EXCEPT ![c] = "lost"] BY <1>3, <2>5 DEF State
  <2>7. Returned' = Returned BY <2>1 DEF Returned
  <2>8. Service!Lose(c) BY <2>1, <2>4, <2>6, <2>7 DEF Service!Lose, Returned, State
  <2> QED BY <2>8 DEF Service!Next
<1>11. CASE ResetArrives(c)
  <2>1. /\ client[c] = "answered" /\ client' = [client EXCEPT ![c] = "dead"]
        /\ UNCHANGED <<lines, received, wpc, rpc>>
    BY <1>11 DEF ResetArrives, clientVars
  <2>2. \A d \in Conn : Lost(d)' <=> Lost(d) BY <1>1, <2>1 DEF Lost
  <2> QED BY <2>1, <2>2, Stutters
<1> QED BY <1>4, <1>5, <1>6, <1>7, <1>8, <1>9, <1>10, <1>11 DEF ReaderStep

(* The server's steps leave the service's variables alone: what it does is *)
(* seen by a client when it reads.                                         *)
LEMMA RefinesServer == ASSUME EchoInv, ServerStep PROVE UNCHANGED Service!vars
<1>1. UNCHANGED <<lines, received, wpc, rpc>>
  BY DEF ServerStep, Select, ScanEnds, Accept, ReadData, ReadNothing, ReadFails, WriteEchoes, WriteEnds,
         WriteFails, clientVars
<1>2. \A c \in Conn : client'[c] = "new" <=> client[c] = "new"
  <2>1. \A c \in Conn : client[c] # "new" => client'[c] # "new" BY Closing DEF EchoInv
  <2>2. ASSUME NEW c \in Conn, client[c] = "new" PROVE client'[c] = "new"
    <3>1. CASE UNCHANGED client BY <2>2, <3>1
    <3>2. ASSUME NEW f \in Fds, ReadFails(f) PROVE client'[c] = "new"
      <4>1. client[fdTable[f]] = "reset" /\ client' = [client EXCEPT ![fdTable[f]] = "broken"]
        BY <3>2 DEF ReadFails
      <4> QED BY <2>2, <4>1 DEF EchoInv, SetInv, Types, TypeOK
    <3>3. CASE WriteFails
      <4>1. PICK s : client' = [client EXCEPT ![Current] = s] BY <3>3 DEF WriteFails
      <4>2. client[Current] # "new" BY <3>3 DEF WriteFails
      <4> QED BY <2>2, <4>1, <4>2 DEF EchoInv, SetInv, Types, TypeOK
    <3> QED BY <3>1, <3>2, <3>3
      DEF ServerStep, Select, ScanEnds, Accept, ReadData, ReadNothing, WriteEchoes, WriteEnds
  <2> QED BY <2>1, <2>2
<1> QED BY <1>1, <1>2, Stutters DEF Lost

(* Property ImplementsService (echo_mpclient.c:58-77): everything a client *)
(* sends, and nothing else, comes back to it, and its reading process ends *)
(* only when it has everything, unless it is killed.                       *)
THEOREM SelectRefinement == Spec => ImplementsService
<1>1. Init => Service!Init
  <2> SUFFICES ASSUME Init PROVE Service!Init OBVIOUS
  <2>1. Returned = [c \in Conn |-> 0] BY DEF Init, Returned
  <2>2. State = [c \in Conn |-> "open"] BY DEF Init, State, Lost
  <2> QED BY <2>1, <2>2 DEF Init, Service!Init, Returned, State
<1>2. EchoInv /\ [Next]_vars => [Service!Next]_(Service!vars)
  <2> SUFFICES ASSUME EchoInv, [Next]_vars PROVE [Service!Next]_(Service!vars) OBVIOUS
  <2>1. CASE UNCHANGED vars
    <3>1. UNCHANGED <<lines, received, wpc, rpc>> /\ \A c \in Conn : Lost(c)' <=> Lost(c)
      BY <2>1 DEF vars, clientVars, Lost
    <3> QED BY <3>1, Stutters
  <2> QED BY <2>1, RefinesClient, RefinesServer DEF Next
<1>3. Init => EchoInv BY SetInit, LifeInit, EchoInit DEF EchoInv
<1>4. EchoInv /\ [Next]_vars => EchoInv' BY EchoStep
<1> QED BY <1>1, <1>2, <1>3, <1>4, PTL DEF Spec, ImplementsService, Service!Spec
=============================================================================
