-------------------------- MODULE ChatServerProofs --------------------------
(***************************************************************************)
(* Proofs about module ChatServer, for any clients and descriptors: the    *)
(* types and the room in the array whenever clients connect, and, if they  *)
(* connect one at a time, that array, threads and descriptors agree, who   *)
(* is taken out of the array, and the order of the conversation.           *)
(***************************************************************************)
EXTENDS ChatServer, FiniteSetTheorems, SequenceTheorems, WellFoundedInduction,
        TLAPS

-----------------------------------------------------------------------------
(* Whatever the pace of the clients                                        *)

(* Descriptors are what they are used as.                                  *)
SocketsTyped ==
    /\ mpc # "accept" => client_sock \in Fds
    /\ \A t \in Thread : tpc[t] # "none" => client_sock \in Fds
    /\ \A t \in Thread : Running(t) => sock[t] \in Fds
    /\ 1 <= next

(* The threads that have not yet taken a socket out of the array, and      *)
(* those that have not yet closed theirs.                                  *)
Members == {t \in Thread : tpc[t] \in {"start", "read", "lock", "write", "remove"}}
Unclosed == {t \in Thread : tpc[t] \in {"start", "read", "lock", "write", "remove", "close"}}
OpenFds == {f \in Fds : fdTable[f] # NoConn}

(* A client is entered once and a thread takes out one entry; it is        *)
(* accepted once and a thread closes one descriptor, or finds it closed.   *)
Counted ==
    /\ Len(client_socks) = Cardinality(Members) + (IF mpc = "create" THEN 1 ELSE 0)
    /\ Cardinality(Unclosed) + (IF mpc = "accept" THEN 0 ELSE 1) <= Cardinality(OpenFds)

Inv == TypeOK /\ SocketsTyped /\ Counted

-----------------------------------------------------------------------------
(* Clients that connect one at a time                                      *)

Starting(t) == tpc[t] = "start"

(* A client is waiting, or main is busy with one, or one thread is about   *)
(* to start, or neither.                                                   *)
OneAtATime ==
    /\ backlog # <<>> => mpc = "accept"
    /\ backlog # <<>> \/ mpc # "accept" => \A t \in Thread : ~Starting(t)
    /\ \A i, j \in 1..Len(backlog) : i = j
    /\ \A t, u \in Thread : Starting(t) /\ Starting(u) => t = u

(* The socket a thread serves, or will serve: while it starts, the one in  *)
(* main's variable.                                                        *)
Socket(t) == IF Starting(t) THEN client_sock ELSE sock[t]

(* Every descriptor in use is open and is used by one thread, or by main.  *)
OneOwner ==
    /\ \A t \in Unclosed : fdTable[Socket(t)] \in Conn
    /\ mpc # "accept" => fdTable[client_sock] \in Conn
    /\ \A t, u \in Unclosed : Socket(t) = Socket(u) => t = u
    /\ mpc # "accept" => \A t \in Unclosed : Socket(t) # client_sock

(* The array holds the sockets of the threads that have not left.          *)
ArrayOf ==
    /\ Entered = {Socket(t) : t \in Members} \cup (IF mpc = "create" THEN {client_sock} ELSE {})
    /\ \A i, j \in 1..Len(client_socks) : client_socks[i] = client_socks[j] => i = j

(* A connection is behind one descriptor, once it has been accepted.       *)
OneDescriptor ==
    /\ \A f, g \in Fds : fdTable[f] = fdTable[g] /\ fdTable[f] # NoConn => f = g
    /\ \A i \in 1..Len(backlog) : client[backlog[i]] # "new" /\ \A f \in Fds : fdTable[f] # backlog[i]
    /\ \A f \in Fds, c \in Conn : fdTable[f] = c => client[c] # "new"

(* A thread that has read the end of its connection has read all of it.    *)
EndedRead ==
    \A t \in Thread : tpc[t] \in {"remove", "close"} =>
        client[Peer(t)] \in {"closed", "answered", "reset"}

(* The mutex is held by the thread that writes.                            *)
MutexHeld ==
    /\ mutex # NoThread => tpc[mutex] = "write"
    /\ \A t \in Thread : tpc[t] = "write" => mutex = t
    /\ next <= Len(client_socks) + 1 \/ mutex = NoThread

(* Nothing has reached a client that is not in the array yet.              *)
Unentered(c) ==
    client[c] = "new" \/ (\E i \in 1..Len(backlog) : backlog[i] = c)
    \/ (mpc = "enter" /\ c = fdTable[client_sock])
NothingYet == \A c \in Conn : Unentered(c) => delivered[c] = <<>>

(* The unit the holder of the mutex is sending, if any, is the last of the *)
(* log; the clients up to next have it.                                    *)
Sending == mutex # NoThread /\ msg[mutex] # NoConn
Conversation ==
    /\ Sending => Len(log) > 0 /\ log[Len(log)] = msg[mutex]
    /\ \A i \in 1..Len(client_socks) :
          LET c == fdTable[client_socks[i]]
              heard == IF Sending /\ next <= i THEN Len(log) - 1 ELSE Len(log)
          IN Connected(c) => joined[c] <= heard /\ delivered[c] = SubSeq(log, joined[c] + 1, heard)

SpacedInv ==
    /\ OneAtATime /\ OneOwner /\ ArrayOf /\ OneDescriptor /\ EndedRead /\ MutexHeld
    /\ NothingYet /\ Conversation

-----------------------------------------------------------------------------
(* The loop that takes a socket out of the array                           *)

LEMMA LeastNat ==
  ASSUME NEW T \in SUBSET Nat, T # {}
  PROVE  \E t \in T : \A u \in T : t <= u
<1> DEFINE Less == {p \in Nat \X Nat : p[1] < p[2]}
<1>1. IsWellFoundedOn(Less, Nat) BY NatLessThanWellFounded, Zenon DEF OpToRel
<1>2. PICK t \in T : \A u \in T : <<u, t>> \notin Less
  <2> HIDE DEF Less
  <2> QED BY <1>1, WFMin
<1>3. ASSUME NEW u \in T PROVE t <= u
  <2>1. u \in Nat /\ t \in Nat /\ <<u, t>> \notin Less BY <1>2
  <2> QED BY <2>1
<1> QED BY <1>3

(* The function shifted of Without.                                        *)
Shifts(g, socks, f, n) ==
    g = [i \in 0..n |->
            IF i = 0 THEN socks
            ELSE IF g[i - 1][i] = f THEN ShiftedFrom(i, g[i - 1]) ELSE g[i - 1]]

LEMMA ShiftsExist == ASSUME NEW socks, NEW f, NEW n \in Nat PROVE \E g : Shifts(g, socks, f, n)
<1> DEFINE T == {k \in Nat : ~ \E g : Shifts(g, socks, f, k)}
           Step(g, i) == IF g[i - 1][i] = f THEN ShiftedFrom(i, g[i - 1]) ELSE g[i - 1]
<1> SUFFICES ASSUME T # {} PROVE FALSE OBVIOUS
<1>1. PICK t \in T : \A u \in T : t <= u BY LeastNat
<1>2. CASE t = 0
  <2> DEFINE g == [i \in 0..0 |-> socks]
  <2>1. \A i \in 0..0 : i = 0 OBVIOUS
  <2>2. Shifts(g, socks, f, 0) BY <2>1 DEF Shifts
  <2> QED BY <2>2, <1>2
<1>3. CASE t # 0
  <2>1. t - 1 \in Nat /\ t - 1 \notin T BY <1>1, <1>3
  <2>2. PICK g : Shifts(g, socks, f, t - 1) BY <2>1
  <2>3. \A i \in 0..(t - 1) : g[i] = IF i = 0 THEN socks ELSE Step(g, i) BY <2>2 DEF Shifts
  <2> DEFINE h == [i \in 0..t |-> IF i < t THEN g[i] ELSE Step(g, t)]
  <2>4. ASSUME NEW i \in 0..t PROVE h[i] = IF i = 0 THEN socks ELSE Step(h, i)
    <3>1. i # 0 => i - 1 \in 0..t /\ i - 1 < t BY <1>3
    <3>2. i # 0 => h[i - 1] = g[i - 1] BY <3>1
    <3>3. i # 0 => Step(h, i) = Step(g, i) BY <3>2
    <3>4. CASE i < t
      <4>1. i \in 0..(t - 1) BY <3>4
      <4> HIDE DEF Step
      <4> QED BY <2>3, <3>3, <3>4, <4>1
    <3>5. CASE i = t
      <4> HIDE DEF Step
      <4> QED BY <1>3, <3>3, <3>5
    <3> QED BY <3>4, <3>5
  <2> HIDE DEF h
  <2>5. h = [i \in 0..t |-> IF i = 0 THEN socks ELSE Step(h, i)] BY <2>4 DEF h
  <2>6. Shifts(h, socks, f, t) BY <2>5 DEF Shifts
  <2> QED BY <2>6
<1> QED BY <1>2, <1>3

LEMMA ShiftedFromType ==
  ASSUME NEW S, NEW socks \in Seq(S), NEW i \in Nat
  PROVE  ShiftedFrom(i, socks) \in Seq(S) /\ Len(ShiftedFrom(i, socks)) = Len(socks)
<1>1. \A j \in 1..Len(socks) : j < Len(socks) => j + 1 \in 1..Len(socks) OBVIOUS
<1>2. \A j \in 1..Len(socks) : (IF i <= j /\ j < Len(socks) THEN socks[j + 1] ELSE socks[j]) \in S
  BY <1>1
<1> QED BY <1>2, IsASeq DEF ShiftedFrom

(* The loop leaves the length alone and brings in nothing new ...          *)
LEMMA ShiftsType ==
  ASSUME NEW S, NEW socks \in Seq(S), NEW f, NEW g, Shifts(g, socks, f, Len(socks)),
         NEW k \in 0..Len(socks)
  PROVE  g[k] \in Seq(S) /\ Len(g[k]) = Len(socks)
<1> DEFINE T == {i \in Nat : i <= Len(socks) /\ ~(g[i] \in Seq(S) /\ Len(g[i]) = Len(socks))}
<1>1. T = {}
  <2> SUFFICES ASSUME T # {} PROVE FALSE OBVIOUS
  <2>1. PICK t \in T : \A u \in T : t <= u BY LeastNat
  <2>2. t \in 0..Len(socks) /\ Len(socks) \in Nat OBVIOUS
  <2>3. g[t] = IF t = 0 THEN socks
               ELSE IF g[t - 1][t] = f THEN ShiftedFrom(t, g[t - 1]) ELSE g[t - 1]
    BY <2>2 DEF Shifts
  <2>4. t # 0 BY <2>3
  <2>5. t - 1 \in Nat /\ t - 1 \notin T /\ t - 1 <= Len(socks) BY <2>1, <2>2, <2>4
  <2>6. g[t - 1] \in Seq(S) /\ Len(g[t - 1]) = Len(socks) BY <2>5
  <2>7. ShiftedFrom(t, g[t - 1]) \in Seq(S) /\ Len(ShiftedFrom(t, g[t - 1])) = Len(socks)
    BY <2>2, <2>6, ShiftedFromType
  <2> QED BY <2>3, <2>4, <2>6, <2>7
<1> QED BY <1>1

(* ... and shifts once, from the place of the socket.                      *)
LEMMA ShiftsOnce ==
  ASSUME NEW S, NEW socks \in Seq(S), NEW p \in 1..Len(socks), NEW g,
         Shifts(g, socks, socks[p], Len(socks)),
         \A i, j \in 1..Len(socks) : socks[i] = socks[j] => i = j
  PROVE  g[Len(socks)] = ShiftedFrom(p, socks)
<1> DEFINE n == Len(socks)
           Right(i) == g[i] = IF i < p THEN socks ELSE ShiftedFrom(p, socks)
           T == {i \in Nat : i <= n /\ ~Right(i)}
<1>1. T = {}
  <2> SUFFICES ASSUME T # {} PROVE FALSE OBVIOUS
  <2>1. PICK t \in T : \A u \in T : t <= u BY LeastNat
  <2>2. t \in 0..n /\ n \in Nat /\ p \in 1..n OBVIOUS
  <2>3. g[t] = IF t = 0 THEN socks
               ELSE IF g[t - 1][t] = socks[p] THEN ShiftedFrom(t, g[t - 1]) ELSE g[t - 1]
    BY <2>2 DEF Shifts
  <2>4. t # 0 BY <2>2, <2>3
  <2>5. t - 1 \in Nat /\ t - 1 \notin T /\ t - 1 <= n BY <2>1, <2>2, <2>4
  <2>6. Right(t - 1) BY <2>5
  <2>7. CASE t < p
    <3>1. g[t - 1] = socks BY <2>2, <2>6, <2>7
    <3>2. socks[t] # socks[p] BY <2>2, <2>4, <2>7
    <3> QED BY <2>3, <2>4, <2>7, <3>1, <3>2
  <2>8. CASE t = p
    <3>1. g[t - 1] = socks BY <2>2, <2>6, <2>8
    <3> QED BY <2>2, <2>3, <2>4, <2>8, <3>1
  <2>9. CASE t > p
    <3>1. g[t - 1] = ShiftedFrom(p, socks) BY <2>2, <2>6, <2>9
    <3>2. g[t - 1][t] = IF t < n THEN socks[t + 1] ELSE socks[t]
      BY <2>2, <2>9, <3>1 DEF ShiftedFrom
    <3>3. g[t - 1][t] # socks[p]
      <4>1. t \in 1..n /\ t # p /\ (t < n => t + 1 \in 1..n /\ t + 1 # p) BY <2>2, <2>9
      <4> QED BY <3>2, <4>1
    <3> QED BY <2>2, <2>3, <2>4, <2>9, <3>1, <3>3
  <2> QED BY <2>2, <2>7, <2>8, <2>9
<1>2. n \in Nat /\ n \notin T /\ ~(n < p) BY <1>1
<1> QED BY <1>2

(* An entry less, whatever the array.                                      *)
LEMMA WithoutType ==
  ASSUME NEW S, client_socks \in Seq(S), Len(client_socks) > 0, NEW f
  PROVE  Without(f) \in Seq(S) /\ Len(Without(f)) = Len(client_socks) - 1
<1> DEFINE n == Len(client_socks)
           F == CHOOSE g : Shifts(g, client_socks, f, n)
<1>1. n \in Nat /\ n - 1 \in Nat /\ n \in 0..n OBVIOUS
<1>2. Shifts(F, client_socks, f, n) BY <1>1, ShiftsExist
<1>3. Without(f) = SubSeq(F[n], 1, n - 1) BY DEF Without, Shifts
<1> HIDE DEF F
<1>4. F[n] \in Seq(S) /\ Len(F[n]) = n BY <1>1, <1>2, ShiftsType
<1> HIDE DEF n
<1>5. SubSeq(F[n], 1, n - 1) \in Seq(S) /\ Len(SubSeq(F[n], 1, n - 1)) = n - 1
  BY <1>1, <1>4, SubSeqProperties
<1> QED BY <1>3, <1>5 DEF n

(* The socket's own, if it is in the array once.                           *)
LEMMA WithoutOne ==
  ASSUME NEW S, client_socks \in Seq(S), NEW p \in 1..Len(client_socks),
         \A i, j \in 1..Len(client_socks) : client_socks[i] = client_socks[j] => i = j
  PROVE  Without(client_socks[p]) =
            [j \in 1..(Len(client_socks) - 1) |-> IF j < p THEN client_socks[j] ELSE client_socks[j + 1]]
<1> DEFINE n == Len(client_socks)
           f == client_socks[p]
           F == CHOOSE g : Shifts(g, client_socks, f, n)
<1>1. n \in Nat /\ n - 1 \in Nat /\ n \in 0..n OBVIOUS
<1>2. Shifts(F, client_socks, f, n) BY <1>1, ShiftsExist
<1>3. Without(f) = SubSeq(F[n], 1, n - 1) BY DEF Without, Shifts
<1> HIDE DEF F
<1>4. F[n] = ShiftedFrom(p, client_socks) BY <1>2, ShiftsOnce
<1>5. F[n] \in Seq(S) /\ Len(F[n]) = n BY <1>4, ShiftedFromType
<1>6. SubSeq(F[n], 1, n - 1) \in Seq(S) /\ Len(SubSeq(F[n], 1, n - 1)) = n - 1
      /\ \A j \in 1..(n - 1) : SubSeq(F[n], 1, n - 1)[j] = F[n][j]
  <2>1. \A i \in 1..(n - 1) : F[n][i] \in S BY <1>1, <1>5
  <2>2. \A i \in 1..(n - 1) : 1 + i - 1 = i BY <1>1
  <2>3. n - 1 - 1 + 1 = n - 1 /\ 1 \in Int /\ n - 1 \in Int BY <1>1
  <2> HIDE DEF n
  <2>4. /\ SubSeq(F[n], 1, n - 1) \in Seq(S)
        /\ Len(SubSeq(F[n], 1, n - 1)) = IF 1 <= n - 1 THEN n - 1 - 1 + 1 ELSE 0
        /\ \A i \in 1..(n - 1 - 1 + 1) : SubSeq(F[n], 1, n - 1)[i] = F[n][1 + i - 1]
    BY <2>1, <2>3, SubSeqProperties
  <2>5. Len(SubSeq(F[n], 1, n - 1)) = n - 1 BY <1>1, <2>3, <2>4
  <2> QED BY <2>2, <2>3, <2>4, <2>5
<1>7. \A j \in 1..(n - 1) : F[n][j] = IF j < p THEN client_socks[j] ELSE client_socks[j + 1]
  BY <1>1, <1>4 DEF ShiftedFrom
<1>8. SubSeq(F[n], 1, n - 1) = [j \in 1..(n - 1) |-> SubSeq(F[n], 1, n - 1)[j]]
  BY <1>1, <1>6
<1> QED BY <1>3, <1>6, <1>7, <1>8

-----------------------------------------------------------------------------
(* Types, threads and descriptors                                          *)

LEMMA ThreadFinite ==
  /\ Thread \subseteq Nat \ {0} /\ NoThread \notin Thread
  /\ \A T \in SUBSET Thread : IsFiniteSet(T) /\ Cardinality(T) \in Nat
  /\ \A F \in SUBSET Fds : IsFiniteSet(F) /\ Cardinality(F) \in Nat
<1>1. Cardinality(Conn) \in Nat BY ConnAssumption, FS_CardinalityType
<1>2. IsFiniteSet(Thread) BY <1>1, FS_Interval DEF Thread
<1>3. ASSUME NEW T \in SUBSET Thread PROVE IsFiniteSet(T) /\ Cardinality(T) \in Nat
  BY <1>2, FS_Subset, FS_CardinalityType
<1>4. ASSUME NEW F \in SUBSET Fds PROVE IsFiniteSet(F) /\ Cardinality(F) \in Nat
  BY ConnAssumption, FS_Subset, FS_CardinalityType
<1> QED BY <1>1, <1>3, <1>4 DEF Thread, NoThread

LEMMA InitInv == Init => Inv
<1> SUFFICES ASSUME Init PROVE Inv OBVIOUS
<1> USE DEF Init
<1>1. TypeOK
  <2>1. 0 \in 0..MaxSent /\ 1 \in Nat BY BoundAssumption
  <2>2. <<>> \in Seq(Conn) /\ <<>> \in Seq(Fds) OBVIOUS
  <2> QED BY <2>1, <2>2 DEF TypeOK
<1>2. SocketsTyped BY DEF SocketsTyped, Running
<1>3. Members = {} /\ Unclosed = {} /\ OpenFds = {} BY DEF Members, Unclosed, OpenFds
<1>4. Counted BY <1>3, FS_EmptySet DEF Counted
<1> QED BY <1>1, <1>2, <1>4 DEF Inv

(* A step of a client leaves the server alone.                             *)
ClientStep(c) == Connect(c) \/ Talk(c) \/ Stall(c) \/ Resume(c) \/ Quit(c) \/ ResetArrives(c)

serverVars == <<fdTable, alive, mainVars, client_socks, mutex, next, threadVars, auxVars>>

LEMMA ClientStepLeaves ==
  ASSUME NEW c \in Conn, ClientStep(c)
  PROVE  UNCHANGED <<serverVars, delivered>>
BY DEF ClientStep, serverVars, Connect, Talk, Stall, Resume, Quit, ResetArrives, ClientBecomes

LEMMA ClientStepType == ASSUME TypeOK, NEW c \in Conn, ClientStep(c) PROVE TypeOK'
<1>1. CASE Connect(c) BY <1>1 DEF TypeOK, Connect, mainVars, threadVars, auxVars
<1>2. CASE Talk(c)
  <2>1. sent[c] + 1 \in 0..MaxSent /\ inbox[c] + 1 \in Nat
    BY <1>2, BoundAssumption DEF TypeOK, Talk
  <2> QED BY <1>2, <2>1 DEF TypeOK, Talk, mainVars, threadVars, auxVars
<1>3. ASSUME NEW state \in {"open", "stalled", "closed", "aborted", "reset"}, ClientBecomes(c, state)
      PROVE  TypeOK'
  BY <1>3 DEF TypeOK, ClientBecomes, mainVars, threadVars, auxVars
<1> QED BY <1>1, <1>2, <1>3 DEF ClientStep, Stall, Resume, Quit, ResetArrives

LEMMA ClientStepInv == ASSUME Inv, NEW c \in Conn, ClientStep(c) PROVE Inv'
<1>1. TypeOK' BY ClientStepType DEF Inv
<1>2. UNCHANGED <<fdTable, mainVars, client_socks, next, threadVars>>
  BY ClientStepLeaves DEF serverVars
<1>3. SocketsTyped' BY <1>2 DEF Inv, SocketsTyped, Running, mainVars, threadVars
<1>4. Members' = Members /\ Unclosed' = Unclosed /\ OpenFds' = OpenFds
  BY <1>2 DEF Members, Unclosed, OpenFds, threadVars
<1>5. Counted' BY <1>2, <1>4 DEF Inv, Counted, mainVars
<1> QED BY <1>1, <1>3, <1>5 DEF Inv

-----------------------------------------------------------------------------
(* Main thread                                                             *)

LEMMA AcceptInv == ASSUME Inv, Accept PROVE Inv'
<1> USE DEF Accept, netVars, threadVars, auxVars
<1>1. PICK f \in Fds : /\ fdTable[f] = NoConn
                       /\ fdTable' = [fdTable EXCEPT ![f] = Head(backlog)]
                       /\ client_sock' = f
  OBVIOUS
<1>2. Head(backlog) \in Conn /\ Tail(backlog) \in Seq(Conn) BY DEF Inv, TypeOK
<1>3. TypeOK' BY <1>1, <1>2 DEF Inv, TypeOK
<1>4. SocketsTyped' BY <1>1 DEF Inv, SocketsTyped, Running
<1>5. Members' = Members /\ Unclosed' = Unclosed BY DEF Members, Unclosed
<1>6. OpenFds' = OpenFds \cup {f} /\ f \notin OpenFds
  BY <1>1, <1>2, ConnAssumption DEF Inv, TypeOK, OpenFds
<1>7. Cardinality(OpenFds') = Cardinality(OpenFds) + 1
  <2>1. OpenFds \in SUBSET Fds BY DEF OpenFds
  <2> QED BY <1>6, <2>1, ThreadFinite, FS_AddElement
<1>8. Cardinality(Unclosed) \in Nat /\ Cardinality(OpenFds) \in Nat
  BY ThreadFinite DEF Unclosed, OpenFds
<1>9. Counted'
  <2>1. mpc' = "enter" /\ mpc = "accept" /\ client_socks' = client_socks OBVIOUS
  <2> QED BY ONLY Inv, <1>5, <1>7, <1>8, <2>1 DEF Inv, Counted
<1> QED BY <1>3, <1>4, <1>9 DEF Inv

LEMMA EnterInv == ASSUME Inv, Enter PROVE Inv'
<1> USE DEF Enter, netVars, threadVars
<1>1. client_sock \in Fds BY DEF Inv, SocketsTyped
<1>2. TypeOK'
  <2>1. Append(client_socks, client_sock) \in Seq(Fds) BY <1>1 DEF Inv, TypeOK
  <2>2. Len(log) \in Nat BY DEF Inv, TypeOK
  <2>3. joined' \in [Conn -> Nat] BY <2>2 DEF Inv, TypeOK
  <2> QED BY <2>1, <2>3 DEF Inv, TypeOK
<1>3. SocketsTyped' BY DEF Inv, SocketsTyped, Running
<1>4. Members' = Members /\ Unclosed' = Unclosed /\ OpenFds' = OpenFds
  BY DEF Members, Unclosed, OpenFds
<1>5. Len(client_socks') = Len(client_socks) + 1 /\ Cardinality(Members) \in Nat
  BY ThreadFinite DEF Inv, TypeOK, Members
<1>6. mpc = "enter" /\ mpc' = "create" OBVIOUS
<1>7. Counted' BY ONLY Inv, <1>4, <1>5, <1>6 DEF Inv, Counted
<1> QED BY <1>2, <1>3, <1>7 DEF Inv

LEMMA CreateInv == ASSUME Inv, Create PROVE Inv'
<1> USE DEF Create, netVars, auxVars
<1>1. PICK t \in Thread : tpc[t] = "none" /\ tpc' = [tpc EXCEPT ![t] = "start"] OBVIOUS
<1>2. TypeOK' BY <1>1 DEF Inv, TypeOK
<1>3. SocketsTyped' BY <1>1 DEF Inv, TypeOK, SocketsTyped, Running
<1>4. /\ Members' = Members \cup {t} /\ t \notin Members
      /\ Unclosed' = Unclosed \cup {t} /\ t \notin Unclosed /\ OpenFds' = OpenFds
  BY <1>1 DEF Inv, TypeOK, Members, Unclosed, OpenFds
<1>5. /\ Cardinality(Members') = Cardinality(Members) + 1
      /\ Cardinality(Unclosed') = Cardinality(Unclosed) + 1
      /\ Cardinality(Members) \in Nat /\ Cardinality(Unclosed) \in Nat
  <2>1. Members \in SUBSET Thread /\ Unclosed \in SUBSET Thread BY DEF Members, Unclosed
  <2> QED BY <1>4, <2>1, ThreadFinite, FS_AddElement
<1>6. mpc = "create" /\ mpc' = "accept" /\ client_socks' = client_socks OBVIOUS
<1>7. Counted' BY ONLY Inv, <1>4, <1>5, <1>6 DEF Inv, Counted
<1> QED BY <1>2, <1>3, <1>7 DEF Inv

-----------------------------------------------------------------------------
(* Threads                                                                 *)

LEMMA GotoType ==
  ASSUME Inv, NEW t \in Thread, NEW from, NEW to \in {"read", "lock", "write", "remove", "close", "done"},
         Goto(t, from, to)
  PROVE  /\ tpc' \in [Thread -> {"none", "start", "read", "lock", "write", "remove", "close", "done"}]
         /\ tpc[t] = from /\ tpc'[t] = to /\ \A u \in Thread \ {t} : tpc'[u] = tpc[u]
BY DEF Inv, TypeOK, Goto

(* Only leaving, closing and starting change who counts as what.           *)
LEMMA GotoCounted ==
  ASSUME Inv, NEW t \in Thread, NEW from \in {"start", "read", "lock", "write"},
         NEW to \in {"read", "lock", "write", "remove"}, Goto(t, from, to),
         UNCHANGED <<fdTable, mpc, client_socks>>
  PROVE  Counted' /\ Members' = Members /\ Unclosed' = Unclosed
<1>1. Members' = Members /\ Unclosed' = Unclosed BY GotoType DEF Members, Unclosed
<1>2. OpenFds' = OpenFds BY DEF OpenFds
<1> QED BY <1>1, <1>2 DEF Inv, Counted

LEMMA GotoSockets ==
  ASSUME Inv, NEW t \in Thread, NEW from \in {"read", "lock", "write", "remove", "close"},
         NEW to \in {"read", "lock", "write", "remove", "close", "done"}, Goto(t, from, to),
         UNCHANGED <<mpc, client_sock, sock>>, 1 <= next'
  PROVE  SocketsTyped'
BY GotoType DEF Inv, SocketsTyped, Running

LEMMA StartInv == ASSUME Inv, NEW t \in Thread, Start(t) PROVE Inv'
<1> USE DEF Start, netVars, mainVars, auxVars
<1>1. client_sock \in Fds BY DEF Inv, SocketsTyped, Goto
<1>2. sock' \in [Thread -> Fds \cup {NoFd}] /\ sock'[t] \in Fds
      /\ \A u \in Thread \ {t} : sock'[u] = sock[u]
  BY <1>1 DEF Inv, TypeOK
<1>3. TypeOK' BY <1>2, GotoType DEF Inv, TypeOK
<1>4. SocketsTyped' BY <1>1, <1>2, GotoType DEF Inv, SocketsTyped, Running
<1>5. Counted' BY GotoCounted
<1> QED BY <1>3, <1>4, <1>5 DEF Inv

LEMMA ReadInv == ASSUME Inv, NEW t \in Thread, Read(t) \/ ReadFails(t) PROVE Inv'
<1> USE DEF Read, ReadFails, netVars, mainVars, auxVars
<1>1. Goto(t, "read", "lock") /\ UNCHANGED <<fdTable, mainVars, client_socks, next, sock>> OBVIOUS
<1>2. TypeOK'
  <2>1. CASE Read(t)
    <3>1. Peer(t) \in Conn /\ inbox[Peer(t)] > 0 BY <2>1 DEF HasData
    <3>2. inbox[Peer(t)] - 1 \in Nat BY <3>1 DEF Inv, TypeOK
    <3>3. inbox' \in [Conn -> Nat] /\ msg' \in [Thread -> Conn \cup {NoConn}]
      BY <2>1, <3>1, <3>2 DEF Inv, TypeOK
    <3> QED BY <2>1, <3>3, GotoType DEF Inv, TypeOK
  <2>2. CASE ReadFails(t) BY <2>2, GotoType DEF Inv, TypeOK
  <2> QED BY <2>1, <2>2
<1>3. SocketsTyped'
  <2>1. 1 <= next' BY <1>1 DEF Inv, SocketsTyped
  <2> QED BY <1>1, <2>1, GotoSockets
<1>4. Counted' BY <1>1, GotoCounted
<1> QED BY <1>2, <1>3, <1>4 DEF Inv

LEMMA LockInv == ASSUME Inv, NEW t \in Thread, Lock(t) PROVE Inv'
<1> USE DEF Lock, netVars, mainVars
<1>1. log' \in Seq(Conn) BY DEF Inv, TypeOK
<1>2. TypeOK' BY <1>1, GotoType DEF Inv, TypeOK
<1>3. SocketsTyped' BY GotoSockets
<1>4. Counted' BY GotoCounted
<1> QED BY <1>2, <1>3, <1>4 DEF Inv

LEMMA WriteInv == ASSUME Inv, NEW t \in Thread, Write(t) PROVE Inv'
<1> USE DEF Write, mainVars, auxVars
<1>1. TypeOK'
  <2> DEFINE c == fdTable[client_socks[next]]
             reached == IF Refused(t) THEN {} ELSE {c} \cap Conn
  <2>1. \A d \in reached : msg[t] \in Conn BY DEF Inv, TypeOK, Refused
  <2>2. \A d \in Conn : d \in reached => Append(delivered[d], msg[t]) \in Seq(Conn)
    BY <2>1 DEF Inv, TypeOK
  <2>3. delivered' \in [Conn -> Seq(Conn)] BY <2>2 DEF Inv, TypeOK
  <2>4. client' \in [Conn -> {"new", "open", "stalled", "closed", "answered", "aborted", "reset"}]
    BY DEF Inv, TypeOK, AfterWrite
  <2>5. alive' \in BOOLEAN OBVIOUS
  <2>6. next' \in Nat BY DEF Inv, TypeOK
  <2> HIDE DEF reached
  <2> QED BY <2>3, <2>4, <2>5, <2>6, GotoType DEF Inv, TypeOK
<1>2. SocketsTyped'
  <2>1. 1 <= next' BY DEF Inv, TypeOK, SocketsTyped
  <2> QED BY <2>1, GotoSockets
<1>3. Counted' BY GotoCounted
<1> QED BY <1>1, <1>2, <1>3 DEF Inv

LEMMA UnlockInv == ASSUME Inv, NEW t \in Thread, Unlock(t) \/ ReadEnd(t) PROVE Inv'
<1> USE DEF Unlock, ReadEnd, Unlocked, netVars, mainVars, auxVars
<1>1. TypeOK' BY GotoType DEF Inv, TypeOK
<1>2. SocketsTyped'
  <2>1. 1 <= next' BY DEF Inv, SocketsTyped
  <2> QED BY <2>1, GotoSockets
<1>3. Counted' BY GotoCounted
<1> QED BY <1>1, <1>2, <1>3 DEF Inv

(* The array that a thread leaves has an entry for it.                     *)
LEMMA LeaveFinds == ASSUME Inv, NEW t \in Thread, tpc[t] = "remove" PROVE Len(client_socks) > 0
<1>1. t \in Members /\ Members \in SUBSET Thread BY DEF Members
<1>2. IsFiniteSet(Members) /\ Cardinality(Members) \in Nat BY <1>1, ThreadFinite
<1>3. Cardinality(Members) # 0 BY <1>1, <1>2, FS_EmptySet
<1>4. Len(client_socks) \in Nat BY DEF Inv, TypeOK
<1> QED BY <1>2, <1>3, <1>4 DEF Inv, Counted

LEMMA LeaveInv == ASSUME Inv, NEW t \in Thread, Leave(t) PROVE Inv'
<1> USE DEF Leave, netVars, mainVars, auxVars
<1>1. client_socks' \in Seq(Fds) /\ Len(client_socks') = Len(client_socks) - 1
      /\ Len(client_socks) \in Nat
  <2>1. client_socks \in Seq(Fds) BY DEF Inv, TypeOK
  <2>2. Len(client_socks) > 0 BY LeaveFinds DEF Goto
  <2> QED BY <2>1, <2>2, WithoutType
<1>2. TypeOK' BY <1>1, GotoType DEF Inv, TypeOK
<1>3. SocketsTyped'
  <2>1. 1 <= next' BY DEF Inv, SocketsTyped
  <2> QED BY <2>1, GotoSockets
<1>4. Members' = Members \ {t} /\ t \in Members /\ Unclosed' = Unclosed /\ OpenFds' = OpenFds
  BY GotoType DEF Members, Unclosed, OpenFds
<1>5. Cardinality(Members') = Cardinality(Members) - 1 /\ Cardinality(Members) \in Nat
  <2>1. Members \in SUBSET Thread BY DEF Members
  <2> QED BY <1>4, <2>1, ThreadFinite, FS_RemoveElement
<1>6. Counted' BY ONLY Inv, <1>1, <1>4, <1>5, mpc' = mpc DEF Inv, Counted
<1> QED BY <1>2, <1>3, <1>6 DEF Inv

LEMMA CloseInv == ASSUME Inv, NEW t \in Thread, Close(t) PROVE Inv'
<1> USE DEF Close, netVars, mainVars, auxVars
<1>1. sock[t] \in Fds BY DEF Inv, SocketsTyped, Running, Goto
<1>2. TypeOK' BY GotoType DEF Inv, TypeOK
<1>3. SocketsTyped'
  <2>1. 1 <= next' BY DEF Inv, SocketsTyped
  <2> QED BY <2>1, GotoSockets
<1>4. /\ Members' = Members
      /\ Unclosed' = Unclosed \ {t} /\ t \in Unclosed
      /\ OpenFds' = OpenFds \ {sock[t]}
  BY <1>1, GotoType DEF Inv, TypeOK, Members, Unclosed, OpenFds
<1>5. Cardinality(Unclosed') = Cardinality(Unclosed) - 1 /\ Cardinality(Unclosed) \in Nat
  <2>1. Unclosed \in SUBSET Thread BY DEF Unclosed
  <2> QED BY <1>4, <2>1, ThreadFinite, FS_RemoveElement
<1>6. Cardinality(OpenFds) - 1 <= Cardinality(OpenFds') /\ Cardinality(OpenFds) \in Nat
      /\ Cardinality(OpenFds') \in Nat
  <2>1. OpenFds \in SUBSET Fds /\ OpenFds' \in SUBSET Fds BY DEF OpenFds
  <2>2. IsFiniteSet(OpenFds) /\ Cardinality(OpenFds) \in Nat /\ Cardinality(OpenFds') \in Nat
    BY <2>1, ThreadFinite
  <2>3. Cardinality(OpenFds \ {sock[t]}) =
           IF sock[t] \in OpenFds THEN Cardinality(OpenFds) - 1 ELSE Cardinality(OpenFds)
    BY <2>2, FS_RemoveElement
  <2> QED BY ONLY <1>4, <2>2, <2>3
<1>7. Counted' BY ONLY Inv, <1>4, <1>5, <1>6, mpc' = mpc, client_socks' = client_socks DEF Inv, Counted
<1> QED BY <1>2, <1>3, <1>7 DEF Inv

LEMMA NextInv == Inv /\ [Next]_vars => Inv'
<1> SUFFICES ASSUME Inv, [Next]_vars PROVE Inv' OBVIOUS
<1>1. CASE MainStep BY <1>1, AcceptInv, EnterInv, CreateInv DEF MainStep
<1>2. ASSUME NEW t \in Thread, ThreadStep(t) PROVE Inv'
  BY <1>2, StartInv, ReadInv, LockInv, WriteInv, UnlockInv, LeaveInv, CloseInv DEF ThreadStep
<1>3. ASSUME NEW c \in Conn, ClientStep(c) PROVE Inv' BY <1>3, ClientStepInv
<1>4. CASE UNCHANGED vars
  BY <1>4 DEF Inv, TypeOK, SocketsTyped, Running, Counted, Members, Unclosed, OpenFds,
     vars, netVars, mainVars, threadVars, auxVars
<1> QED BY <1>1, <1>2, <1>3, <1>4 DEF Next, ClientStep

LEMMA InvAlways == Spec => []Inv
BY InitInv, NextInv, PTL DEF Spec

(* Every variable has its type however the clients behave: no index of the *)
(* array is out of it, and no thread finds an empty array to leave.        *)
THEOREM TypeCorrect == Spec => []TypeOK
<1>1. Inv => TypeOK BY DEF Inv
<1> QED BY <1>1, InvAlways, PTL

(* client_count never exceeds the open descriptors, even when clients      *)
(* connect together and threads mistake each other's sockets.              *)
THEOREM ArrayBounded == Spec => []WithinArray
<1>1. Inv => WithinArray
  <2> SUFFICES ASSUME Inv PROVE WithinArray OBVIOUS
  <2>1. Members \subseteq Unclosed /\ Unclosed \in SUBSET Thread BY DEF Members, Unclosed
  <2>2. Cardinality(Members) <= Cardinality(Unclosed) /\ Cardinality(Members) \in Nat
        /\ Cardinality(Unclosed) \in Nat
    BY <2>1, ThreadFinite, FS_Subset
  <2>3. Cardinality(OpenFds) \in Nat BY ThreadFinite DEF OpenFds
  <2>4. Len(client_socks) <= Cardinality(OpenFds)
    BY ONLY Inv, <2>2, <2>3 DEF Inv, Counted
  <2> QED BY <2>4 DEF WithinArray, OpenFds
<1> QED BY <1>1, InvAlways, PTL

-----------------------------------------------------------------------------
(* One client at a time: clients and the main thread                       *)

LEMMA MembersUnclosed == Members \subseteq Unclosed /\ Unclosed \subseteq Thread
BY DEF Members, Unclosed

LEMMA InitSpaced == Init => SpacedInv
<1> SUFFICES ASSUME Init PROVE SpacedInv OBVIOUS
<1> USE DEF Init
<1>1. Len(<<>>) = 0 /\ Members = {} /\ Unclosed = {} /\ Entered = {}
  BY DEF Members, Unclosed, Entered
<1>2. OneAtATime /\ OneOwner /\ ArrayOf /\ EndedRead
  BY <1>1 DEF OneAtATime, Starting, OneOwner, ArrayOf, EndedRead
<1>3. OneDescriptor /\ NothingYet BY <1>1, ConnAssumption DEF OneDescriptor, NothingYet
<1>4. MutexHeld /\ Conversation BY <1>1 DEF MutexHeld, Conversation, Sending
<1> QED BY <1>2, <1>3, <1>4 DEF SpacedInv

(* What a client's own step may change about it: a client that has gone    *)
(* stays away.                                                             *)
LEMMA ClientStepStates ==
  ASSUME TypeOK, NEW c \in Conn, ClientStep(c)
  PROVE  /\ \A d \in Conn \ {c} : client'[d] = client[d]
         /\ client[c] # "new" => client'[c] # "new"
         /\ client[c] \in {"closed", "answered", "reset"} =>
              client'[c] \in {"closed", "answered", "reset"}
         /\ Connected(c)' => Connected(c) \/ client[c] = "new"
BY DEF TypeOK, ClientStep, Connect, Talk, Stall, Resume, Quit, ResetArrives, ClientBecomes, Connected

LEMMA ClientStepBacklog ==
  ASSUME TypeOK, NEW c \in Conn, ClientStep(c)
  PROVE  backlog' = backlog \/ Connect(c)
BY DEF TypeOK, ClientStep, Connect, Talk, Stall, Resume, Quit, ResetArrives, ClientBecomes

LEMMA ServerSame ==
  ASSUME UNCHANGED serverVars
  PROVE  /\ UNCHANGED <<fdTable, mpc, client_sock, client_socks, mutex, next, tpc, sock, msg, log, joined>>
         /\ Members' = Members /\ Unclosed' = Unclosed /\ Entered' = Entered
         /\ \A t \in Thread : (Starting(t)' <=> Starting(t)) /\ Socket(t)' = Socket(t)
BY DEF serverVars, mainVars, threadVars, auxVars, Members, Unclosed, Entered, Starting, Socket

LEMMA ClientStepSpaced == ASSUME Inv, SpacedInv, Spaced, NEW c \in Conn, ClientStep(c) PROVE SpacedInv'
<1> USE DEF Inv
<1>1. UNCHANGED <<serverVars, delivered>> BY ClientStepLeaves
<1>2. /\ \A d \in Conn \ {c} : client'[d] = client[d]
      /\ client[c] # "new" => client'[c] # "new"
      /\ client[c] \in {"closed", "answered", "reset"} => client'[c] \in {"closed", "answered", "reset"}
      /\ Connected(c)' => Connected(c) \/ client[c] = "new"
  BY ClientStepStates
<1>3. backlog' = backlog \/ (Quiet /\ backlog' = <<c>> /\ client[c] = "new" /\ client'[c] = "open")
  <2>1. CASE Connect(c)
    <3>1. Quiet /\ backlog' = Append(<<>>, c) /\ client[c] = "new" /\ client'[c] = "open"
      BY <2>1 DEF Connect, Quiet, TypeOK
    <3> QED BY <3>1
  <2> QED BY <2>1, ClientStepBacklog
<1>4. OneAtATime'
  <2>1. CASE backlog' = backlog
    BY <2>1, <1>1, ServerSame DEF SpacedInv, OneAtATime, Starting
  <2>2. CASE Quiet /\ backlog' = <<c>>
    BY <2>2, <1>1, ServerSame DEF SpacedInv, OneAtATime, Quiet, Starting
  <2> QED BY <1>3, <2>1, <2>2
<1>5. OneOwner' BY <1>1, ServerSame, MembersUnclosed DEF SpacedInv, OneOwner
<1>6. ArrayOf'
  <2>1. {Socket(t) : t \in Members}' = {Socket(t) : t \in Members}
    BY <1>1, ServerSame, MembersUnclosed
  <2> QED BY <1>1, <2>1, ServerSame DEF SpacedInv, ArrayOf
<1>7. OneDescriptor'
  <2>1. \A f \in Fds : fdTable'[f] = fdTable[f] BY <1>1, ServerSame
  <2>2. \A f \in Fds, d \in Conn : fdTable[f] = d => client'[d] # "new"
    BY <1>2 DEF SpacedInv, OneDescriptor
  <2>3. \A i \in 1..Len(backlog') : client'[backlog'[i]] # "new" /\ \A f \in Fds : fdTable[f] # backlog'[i]
    <3>1. CASE backlog' = backlog
      <4>1. \A i \in 1..Len(backlog) : backlog[i] \in Conn BY DEF TypeOK
      <4> QED BY <1>2, <3>1, <4>1 DEF SpacedInv, OneDescriptor
    <3>2. CASE backlog' = <<c>> /\ client[c] = "new" /\ client'[c] = "open"
      <4>1. \A i \in 1..Len(backlog') : backlog'[i] = c BY <3>2
      <4>2. \A f \in Fds : fdTable[f] # c BY <3>2 DEF SpacedInv, OneDescriptor
      <4> QED BY <3>2, <4>1, <4>2
    <3> QED BY <1>3, <3>1, <3>2
  <2> QED BY <2>1, <2>2, <2>3 DEF SpacedInv, OneDescriptor
<1>8. EndedRead'
  <2>1. ASSUME NEW t \in Thread, tpc[t] \in {"remove", "close"}
        PROVE  fdTable[sock[t]] \in Conn /\ client[fdTable[sock[t]]] \in {"closed", "answered", "reset"}
    <3>1. t \in Unclosed /\ ~Starting(t) BY <2>1 DEF Unclosed, Starting
    <3> QED BY <2>1, <3>1 DEF SpacedInv, OneOwner, Socket, EndedRead, Peer
  <2> QED BY <1>1, <1>2, <2>1, ServerSame DEF EndedRead, Peer
<1>9. MutexHeld' BY <1>1, ServerSame DEF SpacedInv, MutexHeld
<1>10. NothingYet'
  <2>1. ASSUME NEW d \in Conn, Unentered(d)' PROVE Unentered(d)
    <3>1. client'[d] = "new" => client[d] = "new" BY <1>2
    <3>2. CASE backlog' = backlog BY <1>1, <2>1, <3>1, <3>2, ServerSame DEF Unentered
    <3>3. CASE backlog' = <<c>> /\ client[c] = "new" BY <1>1, <2>1, <3>1, <3>3, ServerSame DEF Unentered
    <3> QED BY <1>3, <3>2, <3>3
  <2> QED BY <1>1, <2>1 DEF SpacedInv, NothingYet
<1>11. Conversation'
  <2>1. Sending' <=> Sending BY <1>1, ServerSame DEF Sending
  <2>2. ASSUME NEW i \in 1..Len(client_socks), Connected(fdTable[client_socks[i]])'
        PROVE  Connected(fdTable[client_socks[i]])
    <3>1. client_socks[i] \in Fds BY DEF TypeOK
    <3>2. client_socks[i] \in Entered BY DEF Entered
    <3>3. fdTable[client_socks[i]] \in Conn
      BY <3>2 DEF SpacedInv, ArrayOf, OneOwner, Members, Unclosed
    <3>4. client[fdTable[client_socks[i]]] # "new" BY <3>1, <3>3 DEF SpacedInv, OneDescriptor
    <3>5. fdTable'[client_socks'[i]] = fdTable[client_socks[i]] BY <1>1, ServerSame
    <3> QED BY <1>2, <2>2, <3>3, <3>4, <3>5 DEF Connected
  <2> QED BY <1>1, <2>1, <2>2, ServerSame DEF SpacedInv, Conversation, Connected
<1> QED BY <1>4, <1>5, <1>6, <1>7, <1>8, <1>9, <1>10, <1>11 DEF SpacedInv

(* A socket of the array is open, and not the one that waits to be         *)
(* entered.                                                                *)
LEMMA EnteredOpen ==
  ASSUME Inv, SpacedInv, NEW f \in Entered
  PROVE  f \in Fds /\ fdTable[f] \in Conn /\ (mpc = "enter" => f # client_sock)
<1>1. PICK i \in 1..Len(client_socks) : f = client_socks[i] BY DEF Entered
<1>2. f \in Fds BY <1>1 DEF Inv, TypeOK
<1> QED BY <1>2 DEF SpacedInv, ArrayOf, OneOwner, Members, Unclosed

LEMMA UnclosedSocket ==
  ASSUME Inv, NEW t \in Unclosed
  PROVE  t \in Thread /\ Socket(t) \in Fds
BY DEF Inv, SocketsTyped, Unclosed, Socket, Starting, Running

LEMMA AcceptSpaced == ASSUME Inv, SpacedInv, Accept PROVE SpacedInv'
<1> USE DEF Accept, netVars, threadVars, auxVars
<1>1. PICK f \in Fds : /\ fdTable[f] = NoConn
                       /\ fdTable' = [fdTable EXCEPT ![f] = Head(backlog)]
                       /\ client_sock' = f
  OBVIOUS
<1>2. /\ Len(backlog) = 1 /\ backlog' = <<>> /\ Head(backlog) = backlog[1] /\ backlog[1] \in Conn
      /\ backlog # <<>> /\ 1..Len(backlog') = {}
  <2>1. backlog \in Seq(Conn) /\ backlog # <<>> BY DEF Inv, TypeOK
  <2>2. 1 \in 1..Len(backlog) /\ Len(backlog) \in Nat BY <2>1
  <2>3. Len(backlog) = 1
    <3>1. Len(backlog) \in 1..Len(backlog) BY <2>2
    <3> QED BY <2>2, <3>1 DEF SpacedInv, OneAtATime
  <2>4. Tail(backlog) = <<>> BY <2>1, <2>3
  <2>5. 1..Len(backlog') = {} BY <2>4
  <2> QED BY <2>1, <2>2, <2>3, <2>4, <2>5
<1>3. /\ fdTable'[f] = backlog[1] /\ \A g \in Fds \ {f} : fdTable'[g] = fdTable[g]
      /\ mpc = "accept" /\ mpc' = "enter"
      /\ UNCHANGED <<client, delivered, client_socks, mutex, next, tpc, sock, msg, log, joined>>
  BY <1>1, <1>2 DEF Inv, TypeOK
<1>4. \A t \in Thread : ~Starting(t) /\ ~Starting(t)' /\ Socket(t)' = sock[t] /\ Socket(t) = sock[t]
  BY <1>3 DEF SpacedInv, OneAtATime, Starting, Socket
<1>5. Members' = Members /\ Unclosed' = Unclosed /\ Entered' = Entered
  BY <1>3 DEF Members, Unclosed, Entered
<1>6. \A t \in Unclosed : /\ sock[t] \in Fds /\ sock[t] # f /\ fdTable[sock[t]] \in Conn
                          /\ fdTable'[sock[t]] = fdTable[sock[t]]
  <2> SUFFICES ASSUME NEW t \in Unclosed
               PROVE  /\ sock[t] \in Fds /\ sock[t] # f /\ fdTable[sock[t]] \in Conn
                      /\ fdTable'[sock[t]] = fdTable[sock[t]]
    OBVIOUS
  <2>1. sock[t] \in Fds /\ fdTable[sock[t]] \in Conn
    BY <1>4, UnclosedSocket DEF SpacedInv, OneOwner
  <2> QED BY <1>1, <1>3, <2>1, ConnAssumption
<1>7. OneAtATime'
  <2>1. \A t \in Thread : ~(tpc[t] = "start") /\ ~(tpc'[t] = "start") BY <1>4 DEF Starting
  <2> QED BY ONLY <1>2, <1>3, <2>1 DEF OneAtATime, Starting
<1>8. OneOwner'
  BY <1>1, <1>2, <1>3, <1>4, <1>5, <1>6, MembersUnclosed DEF SpacedInv, OneOwner
<1>9. ArrayOf'
  <2>1. {Socket(t) : t \in Members}' = {Socket(t) : t \in Members}
    BY <1>4, <1>5, MembersUnclosed
  <2> QED BY <1>3, <1>5, <2>1 DEF SpacedInv, ArrayOf
<1>10. OneDescriptor'
  <2>1. \A g \in Fds : fdTable[g] # backlog[1] BY <1>2 DEF SpacedInv, OneDescriptor
  <2>2. client[backlog[1]] # "new" BY <1>2 DEF SpacedInv, OneDescriptor
  <2>3. ASSUME NEW g \in Fds, NEW h \in Fds, fdTable'[g] = fdTable'[h], fdTable'[g] # NoConn PROVE g = h
    BY ONLY SpacedInv, <1>3, <2>1, <2>3 DEF SpacedInv, OneDescriptor
  <2>4. ASSUME NEW g \in Fds, NEW c \in Conn, fdTable'[g] = c PROVE client'[c] # "new"
    BY ONLY SpacedInv, <1>3, <2>2, <2>4 DEF SpacedInv, OneDescriptor
  <2> QED BY ONLY <1>2, <2>3, <2>4 DEF OneDescriptor
<1>11. EndedRead'
  <2>1. ASSUME NEW t \in Thread, tpc[t] \in {"remove", "close"} PROVE t \in Unclosed
    BY <2>1 DEF Unclosed
  <2> QED BY <1>3, <1>6, <2>1 DEF SpacedInv, EndedRead, Peer
<1>12. MutexHeld' BY <1>3 DEF SpacedInv, MutexHeld
<1>13. NothingYet'
  <2>1. ASSUME NEW c \in Conn, Unentered(c)' PROVE Unentered(c)
    <3>1. c = backlog[1] => \E i \in 1..Len(backlog) : backlog[i] = c BY <1>2
    <3>2. fdTable'[client_sock'] = backlog[1] BY <1>1, <1>3
    <3> QED BY ONLY <1>2, <1>3, <2>1, <3>1, <3>2 DEF Unentered
  <2> QED BY <1>3, <2>1 DEF SpacedInv, NothingYet
<1>14. Conversation'
  <2>1. Sending' <=> Sending BY <1>3 DEF Sending
  <2>2. \A i \in 1..Len(client_socks) : fdTable'[client_socks[i]] = fdTable[client_socks[i]]
    <3> SUFFICES ASSUME NEW i \in 1..Len(client_socks)
                 PROVE  fdTable'[client_socks[i]] = fdTable[client_socks[i]]
      OBVIOUS
    <3>1. client_socks[i] \in Entered BY DEF Entered
    <3>2. client_socks[i] \in Fds /\ fdTable[client_socks[i]] \in Conn BY <3>1, EnteredOpen
    <3> QED BY <1>1, <1>3, <3>2, ConnAssumption
  <2> QED BY <1>3, <2>1, <2>2 DEF SpacedInv, Conversation, Connected
<1> QED BY <1>7, <1>8, <1>9, <1>10, <1>11, <1>12, <1>13, <1>14 DEF SpacedInv

LEMMA EnterSpaced == ASSUME Inv, SpacedInv, Enter PROVE SpacedInv'
<1> DEFINE n == Len(client_socks)
<1> USE DEF Enter
<1>1. /\ mpc = "enter" /\ mpc' = "create" /\ mutex = NoThread /\ n \in Nat
      /\ client_socks' = Append(client_socks, client_sock)
      /\ UNCHANGED <<client, backlog, delivered, fdTable, client_sock, mutex, next, tpc, sock, msg, log>>
  BY DEF Inv, TypeOK, netVars, threadVars, Free
<1>2. /\ Len(client_socks') = n + 1 /\ client_socks'[n + 1] = client_sock
      /\ \A i \in 1..n : client_socks'[i] = client_socks[i]
  BY <1>1 DEF Inv, TypeOK
<1>3. Members' = Members /\ Unclosed' = Unclosed BY <1>1 DEF Members, Unclosed
<1>4. \A t \in Thread : (Starting(t)' <=> Starting(t)) /\ Socket(t)' = Socket(t)
  BY <1>1 DEF Starting, Socket
<1>5. Entered' = Entered \cup {client_sock}
  <2>1. ASSUME NEW f \in Entered' PROVE f \in Entered \cup {client_sock}
    <3>1. PICK i \in 1..(n + 1) : f = client_socks'[i] BY <1>2 DEF Entered
    <3> QED BY <1>1, <1>2, <3>1 DEF Entered
  <2>2. ASSUME NEW f \in Entered PROVE f \in Entered'
    <3>1. PICK i \in 1..n : f = client_socks[i] BY DEF Entered
    <3>2. i \in 1..(n + 1) BY <1>1
    <3> QED BY <1>2, <3>1, <3>2 DEF Entered
  <2>3. client_sock \in Entered'
    <3>1. n + 1 \in 1..(n + 1) BY <1>1
    <3> QED BY <1>2, <3>1 DEF Entered
  <2> QED BY <2>1, <2>2, <2>3
<1>6. client_sock \in Fds /\ client_sock \notin Entered /\ fdTable[client_sock] \in Conn
  BY <1>1, EnteredOpen DEF Inv, SocketsTyped, SpacedInv, OneOwner
<1>7. OneAtATime' BY <1>1, <1>4 DEF SpacedInv, OneAtATime
<1>8. OneOwner' BY <1>1, <1>3, <1>4, MembersUnclosed DEF SpacedInv, OneOwner
<1>9. ArrayOf'
  <2>1. {Socket(t) : t \in Members}' = {Socket(t) : t \in Members}
    BY <1>3, <1>4, MembersUnclosed
  <2>2. \A i \in 1..n : client_socks[i] \in Entered BY DEF Entered
  <2>3. \A i, j \in 1..(n + 1) : client_socks'[i] = client_socks'[j] => i = j
    <3>1. \A i \in 1..(n + 1) : i = n + 1 \/ i \in 1..n BY <1>1
    <3>2. \A i, j \in 1..n : client_socks[i] = client_socks[j] => i = j BY DEF SpacedInv, ArrayOf
    <3> QED BY ONLY <1>2, <1>6, <2>2, <3>1, <3>2
  <2> QED BY <1>1, <1>2, <1>5, <2>1, <2>3 DEF SpacedInv, ArrayOf
<1>10. OneDescriptor' BY <1>1 DEF SpacedInv, OneDescriptor
<1>11. EndedRead' BY <1>1 DEF SpacedInv, EndedRead, Peer
<1>12. MutexHeld' BY <1>1 DEF SpacedInv, MutexHeld
<1>13. NothingYet' BY <1>1 DEF SpacedInv, NothingYet, Unentered
<1>14. Conversation'
  <2> DEFINE new == fdTable[client_sock]
  <2>1. ~Sending /\ ~Sending' BY <1>1 DEF Sending
  <2>2. joined'[new] = Len(log) /\ (\A c \in Conn \ {new} : joined'[c] = joined[c])
        /\ log \in Seq(Conn) /\ Len(log) \in Nat
    BY <1>6 DEF Inv, TypeOK
  <2>3. delivered[new] = SubSeq(log, Len(log) + 1, Len(log))
    <3>1. delivered[new] = <<>> BY <1>1, <1>6 DEF SpacedInv, NothingYet, Unentered
    <3> QED BY <2>2, <3>1
  <2>4. ASSUME NEW i \in 1..(n + 1), NEW c, c = fdTable[client_socks'[i]], Connected(c)
        PROVE  joined'[c] <= Len(log) /\ delivered[c] = SubSeq(log, joined'[c] + 1, Len(log))
    <3>1. CASE i = n + 1
      <4>1. c = new BY <1>2, <2>4, <3>1
      <4>2. joined'[c] = Len(log) /\ Len(log) \in Nat BY ONLY <2>2, <4>1
      <4>3. delivered[c] = SubSeq(log, joined'[c] + 1, Len(log)) BY ONLY <2>3, <4>1, <4>2
      <4> QED BY ONLY <4>2, <4>3
    <3>2. CASE i \in 1..n
      <4>1. client_socks[i] \in Entered BY <3>2 DEF Entered
      <4>2. client_socks[i] \in Fds /\ fdTable[client_socks[i]] \in Conn /\ client_socks[i] # client_sock
        BY <1>1, <4>1, EnteredOpen
      <4>3. fdTable[client_socks[i]] # new BY <1>6, <4>2, ConnAssumption DEF SpacedInv, OneDescriptor
      <4> QED BY <1>2, <2>1, <2>2, <2>4, <3>2, <4>2, <4>3 DEF SpacedInv, Conversation
    <3>3. i = n + 1 \/ i \in 1..n BY <1>1
    <3> QED BY <3>1, <3>2, <3>3
  <2> QED BY <1>1, <1>2, <2>1, <2>4 DEF Conversation, Connected
<1> QED BY <1>7, <1>8, <1>9, <1>10, <1>11, <1>12, <1>13, <1>14 DEF SpacedInv

LEMMA CreateSpaced == ASSUME Inv, SpacedInv, Create PROVE SpacedInv'
<1> USE DEF Create
<1>1. PICK t \in Thread : tpc[t] = "none" /\ tpc' = [tpc EXCEPT ![t] = "start"] OBVIOUS
<1>2. /\ tpc'[t] = "start" /\ tpc[t] = "none" /\ \A u \in Thread \ {t} : tpc'[u] = tpc[u]
      /\ mpc = "create" /\ mpc' = "accept"
      /\ UNCHANGED <<client, backlog, delivered, fdTable, client_sock, client_socks, mutex, next,
                     sock, msg, log, joined>>
  BY <1>1 DEF Inv, TypeOK, netVars, auxVars
<1>3. backlog = <<>> /\ \A u \in Thread : ~Starting(u) BY <1>2 DEF SpacedInv, OneAtATime
<1>4. \A u \in Thread : Starting(u)' <=> u = t BY <1>2, <1>3 DEF Starting
<1>5. Socket(t)' = client_sock /\ \A u \in Thread \ {t} : Socket(u)' = Socket(u)
  BY <1>2, <1>3, <1>4 DEF Socket
<1>6. /\ Members' = Members \cup {t} /\ t \notin Members
      /\ Unclosed' = Unclosed \cup {t} /\ t \notin Unclosed
      /\ Entered' = Entered
  BY <1>2 DEF Members, Unclosed, Entered
<1>7. OneAtATime' BY <1>2, <1>3, <1>4 DEF SpacedInv, OneAtATime
<1>8. OneOwner'
  <2>1. \A u \in Unclosed : /\ u # t /\ u \in Thread /\ Socket(u)' = Socket(u)
                            /\ Socket(u) # client_sock /\ fdTable[Socket(u)] \in Conn
    BY <1>2, <1>5, <1>6, MembersUnclosed DEF SpacedInv, OneOwner
  <2>2. fdTable[client_sock] \in Conn BY <1>2 DEF SpacedInv, OneOwner
  <2>3. \A u, v \in Unclosed : Socket(u) = Socket(v) => u = v BY DEF SpacedInv, OneOwner
  <2>4. \A u \in Unclosed' : fdTable'[Socket(u)'] \in Conn BY <1>2, <1>5, <1>6, <2>1, <2>2
  <2>5. \A u, v \in Unclosed' : Socket(u)' = Socket(v)' => u = v
    BY ONLY <1>5, <1>6, <2>1, <2>3
  <2> QED BY <1>2, <2>4, <2>5 DEF OneOwner
<1>9. ArrayOf'
  <2>1. {Socket(u) : u \in Members}' = {Socket(u) : u \in Members} \cup {client_sock}
    BY <1>5, <1>6, MembersUnclosed
  <2> QED BY <1>2, <1>6, <2>1 DEF SpacedInv, ArrayOf
<1>10. OneDescriptor' BY <1>2 DEF SpacedInv, OneDescriptor
<1>11. EndedRead' BY <1>2 DEF SpacedInv, EndedRead, Peer
<1>12. MutexHeld'
  <2>1. mutex # NoThread => mutex # t /\ mutex \in Thread
    BY <1>2 DEF Inv, TypeOK, SpacedInv, MutexHeld
  <2> QED BY <1>2, <2>1 DEF SpacedInv, MutexHeld
<1>13. NothingYet' BY <1>2 DEF SpacedInv, NothingYet, Unentered
<1>14. Conversation' BY <1>2 DEF SpacedInv, Conversation, Sending, Connected
<1> QED BY <1>7, <1>8, <1>9, <1>10, <1>11, <1>12, <1>13, <1>14 DEF SpacedInv

-----------------------------------------------------------------------------
(* One client at a time: threads                                           *)

(* A step between reading, sending and leaving keeps who owns what.        *)
LEMMA GotoOwners ==
  ASSUME Inv, SpacedInv, NEW t \in Thread, NEW from \in {"read", "lock", "write"},
         NEW to \in {"read", "lock", "write", "remove"}, Goto(t, from, to),
         UNCHANGED <<backlog, fdTable, mpc, client_sock, client_socks, sock>>
  PROVE  OneAtATime' /\ OneOwner' /\ ArrayOf'
<1>1. \A u \in Thread : (Starting(u)' <=> Starting(u)) /\ Socket(u)' = Socket(u)
  BY GotoType DEF Starting, Socket
<1>2. Members' = Members /\ Unclosed' = Unclosed /\ Entered' = Entered
  BY GotoType DEF Members, Unclosed, Entered
<1>3. OneAtATime' BY <1>1 DEF SpacedInv, OneAtATime
<1>4. OneOwner' BY <1>1, <1>2, MembersUnclosed DEF SpacedInv, OneOwner
<1>5. {Socket(u) : u \in Members}' = {Socket(u) : u \in Members} BY <1>1, <1>2, MembersUnclosed
<1>6. ArrayOf' BY <1>2, <1>5 DEF SpacedInv, ArrayOf
<1> QED BY <1>3, <1>4, <1>6

LEMMA StartSpaced == ASSUME Inv, SpacedInv, NEW t \in Thread, Start(t) PROVE SpacedInv'
<1> USE DEF Start
<1>1. /\ tpc[t] = "start" /\ tpc'[t] = "read" /\ \A u \in Thread \ {t} : tpc'[u] = tpc[u]
      /\ sock'[t] = client_sock /\ \A u \in Thread \ {t} : sock'[u] = sock[u]
      /\ UNCHANGED <<client, backlog, delivered, fdTable, mpc, client_sock, client_socks, mutex,
                     next, msg, log, joined>>
  BY GotoType DEF Inv, TypeOK, netVars, mainVars, auxVars
<1>2. \A u \in Thread : ~Starting(u)' /\ Socket(u)' = Socket(u) /\ (Starting(u) <=> u = t)
  BY <1>1 DEF SpacedInv, OneAtATime, Starting, Socket
<1>3. Members' = Members /\ Unclosed' = Unclosed /\ Entered' = Entered
  BY <1>1 DEF Members, Unclosed, Entered
<1>4. OneAtATime' BY <1>1, <1>2 DEF SpacedInv, OneAtATime
<1>5. OneOwner' BY <1>1, <1>2, <1>3, MembersUnclosed DEF SpacedInv, OneOwner
<1>6. {Socket(u) : u \in Members}' = {Socket(u) : u \in Members} BY <1>2, <1>3, MembersUnclosed
<1>7. ArrayOf' BY <1>1, <1>3, <1>6 DEF SpacedInv, ArrayOf
<1>8. OneDescriptor' BY <1>1 DEF SpacedInv, OneDescriptor
<1>9. EndedRead' BY <1>1 DEF SpacedInv, EndedRead, Peer
<1>10. MutexHeld'
  <2>1. mutex # NoThread => mutex # t /\ mutex \in Thread
    BY <1>1 DEF Inv, TypeOK, SpacedInv, MutexHeld
  <2> QED BY <1>1, <2>1 DEF SpacedInv, MutexHeld
<1>11. NothingYet' BY <1>1 DEF SpacedInv, NothingYet, Unentered
<1>12. Conversation' BY <1>1 DEF SpacedInv, Conversation, Sending, Connected
<1> QED BY <1>4, <1>5, <1>7, <1>8, <1>9, <1>10, <1>11, <1>12 DEF SpacedInv

LEMMA ReadSpaced ==
  ASSUME Inv, SpacedInv, NEW t \in Thread, Read(t) \/ ReadFails(t) \/ ReadEnd(t)
  PROVE  SpacedInv'
<1> USE DEF Read, ReadFails, ReadEnd, netVars, mainVars, auxVars
<1>1. PICK to \in {"lock", "remove"} : Goto(t, "read", to) OBVIOUS
<1>2. /\ tpc[t] = "read" /\ tpc'[t] = to /\ \A u \in Thread \ {t} : tpc'[u] = tpc[u]
      /\ UNCHANGED <<backlog, delivered, fdTable, mpc, client_sock, client_socks, mutex, next, sock,
                     log, joined>>
      /\ \A u \in Thread \ {t} : msg'[u] = msg[u]
  <2>1. tpc[t] = "read" /\ tpc'[t] = to /\ \A u \in Thread \ {t} : tpc'[u] = tpc[u]
    BY <1>1, GotoType DEF Inv, TypeOK
  <2>2. \A u \in Thread \ {t} : msg'[u] = msg[u] BY DEF Inv, TypeOK
  <2> QED BY <2>1, <2>2
<1>3. OneAtATime' /\ OneOwner' /\ ArrayOf' BY <1>1, <1>2, GotoOwners
<1>4. /\ \A c \in Conn : client[c] # "new" <=> client'[c] # "new"
      /\ \A c \in Conn : client'[c] # client[c] => client[c] = "aborted" /\ client'[c] = "reset"
  BY DEF Inv, TypeOK
<1>5. OneDescriptor'
  <2>1. \A i \in 1..Len(backlog) : backlog[i] \in Conn BY DEF Inv, TypeOK
  <2> QED BY ONLY SpacedInv, <1>2, <1>4, <2>1 DEF SpacedInv, OneDescriptor
<1>6. \A u \in Unclosed : tpc[u] # "start" => fdTable[sock[u]] \in Conn
  BY DEF SpacedInv, OneOwner, Socket, Starting
<1>7. EndedRead'
  <2>1. \A u \in Thread : tpc[u] \in {"remove", "close"} => fdTable[sock[u]] \in Conn
    BY <1>6 DEF Unclosed
  <2>2. tpc'[t] = "remove" => client'[fdTable[sock[t]]] \in {"closed", "answered", "reset"}
    BY <1>1, <1>2 DEF EndOfFile, Peer, Goto
  <2> QED BY ONLY SpacedInv, <1>1, <1>2, <1>4, <2>1, <2>2 DEF SpacedInv, EndedRead, Peer
<1>8. mutex # NoThread => mutex \in Thread /\ mutex # t
  BY <1>2 DEF Inv, TypeOK, SpacedInv, MutexHeld
<1>9. MutexHeld' BY ONLY SpacedInv, <1>1, <1>2, <1>8 DEF SpacedInv, MutexHeld
<1>10. NothingYet'
  <2>1. \A c \in Conn : Unentered(c)' => Unentered(c) BY ONLY <1>2, <1>4 DEF Unentered
  <2> QED BY <1>2, <2>1 DEF SpacedInv, NothingYet
<1>11. Conversation'
  <2>1. (Sending' <=> Sending) /\ (Sending => msg'[mutex] = msg[mutex]) BY <1>2, <1>8 DEF Sending
  <2>2. ASSUME NEW i \in 1..Len(client_socks), Connected(fdTable[client_socks[i]])'
        PROVE  Connected(fdTable[client_socks[i]])
    <3>1. client_socks[i] \in Entered BY DEF Entered
    <3>2. fdTable[client_socks[i]] \in Conn BY <3>1, EnteredOpen
    <3> QED BY ONLY <1>2, <1>4, <2>2, <3>2 DEF Connected
  <2> QED BY ONLY SpacedInv, <1>2, <2>1, <2>2 DEF SpacedInv, Conversation, Connected
<1> QED BY <1>3, <1>5, <1>7, <1>9, <1>10, <1>11 DEF SpacedInv

LEMMA LockSpaced == ASSUME Inv, SpacedInv, NEW t \in Thread, Lock(t) PROVE SpacedInv'
<1> USE DEF Lock, netVars, mainVars
<1>1. Goto(t, "lock", "write") OBVIOUS
<1>2. /\ tpc[t] = "lock" /\ tpc'[t] = "write" /\ \A u \in Thread \ {t} : tpc'[u] = tpc[u]
      /\ mutex = NoThread /\ mutex' = t /\ t # NoThread /\ next' = 1
      /\ UNCHANGED <<client, backlog, delivered, fdTable, mpc, client_sock, client_socks, sock, msg, joined>>
  BY GotoType, ThreadFinite DEF Free
<1>3. OneAtATime' /\ OneOwner' /\ ArrayOf' BY <1>1, <1>2, GotoOwners
<1>4. OneDescriptor' BY <1>2 DEF SpacedInv, OneDescriptor
<1>5. EndedRead' BY <1>2 DEF SpacedInv, EndedRead, Peer
<1>6. MutexHeld'
  <2>1. 1 <= Len(client_socks) + 1 BY DEF Inv, TypeOK
  <2>2. \A u \in Thread : tpc[u] # "write" BY <1>2, ThreadFinite DEF SpacedInv, MutexHeld
  <2> QED BY <1>2, <2>1, <2>2 DEF MutexHeld
<1>7. NothingYet' BY <1>2 DEF SpacedInv, NothingYet, Unentered
<1>8. Conversation'
  <2>1. ~Sending /\ (Sending' <=> msg[t] # NoConn) BY <1>2 DEF Sending
  <2>2. log \in Seq(Conn) /\ Len(log) \in Nat /\ joined \in [Conn -> Nat] BY DEF Inv, TypeOK
  <2>3. \A i \in 1..Len(client_socks) : i >= 1 OBVIOUS
  <2>4. \A i \in 1..Len(client_socks) : fdTable[client_socks[i]] \in Conn
    BY EnteredOpen DEF Entered
  <2>5. CASE msg[t] = NoConn BY <1>2, <2>1, <2>5 DEF SpacedInv, Conversation, Connected
  <2>6. CASE msg[t] # NoConn
    <3>1. log' = Append(log, msg[t]) /\ msg[t] \in Conn BY <2>6 DEF Inv, TypeOK
    <3>2. Len(log') = Len(log) + 1 /\ log'[Len(log')] = msg[t]
          /\ \A k \in 1..Len(log) : log'[k] = log[k]
      BY <2>2, <3>1
    <3>3. ASSUME NEW j \in Nat PROVE SubSeq(log', j + 1, Len(log)) = SubSeq(log, j + 1, Len(log))
      BY <2>2, <3>1, <3>2
    <3>4. Len(log') - 1 = Len(log) /\ Len(log') > 0 BY <2>2, <3>2
    <3>5. ASSUME NEW i \in 1..Len(client_socks), Connected(fdTable[client_socks[i]])
          PROVE  /\ joined[fdTable[client_socks[i]]] <= Len(log)
                 /\ delivered[fdTable[client_socks[i]]] =
                      SubSeq(log', joined[fdTable[client_socks[i]]] + 1, Len(log))
      BY <2>1, <2>2, <2>4, <3>3, <3>5 DEF SpacedInv, Conversation
    <3> QED BY ONLY <1>2, <2>1, <2>3, <2>6, <3>2, <3>4, <3>5 DEF Conversation, Connected
  <2> QED BY <2>5, <2>6
<1> QED BY <1>3, <1>4, <1>5, <1>6, <1>7, <1>8 DEF SpacedInv

LEMMA UnlockSpaced == ASSUME Inv, SpacedInv, NEW t \in Thread, Unlock(t) PROVE SpacedInv'
<1> USE DEF Unlock, Unlocked, netVars, mainVars, auxVars
<1>1. Goto(t, "write", "read") OBVIOUS
<1>2. /\ tpc[t] = "write" /\ tpc'[t] = "read" /\ \A u \in Thread \ {t} : tpc'[u] = tpc[u]
      /\ mutex = t /\ mutex' = NoThread /\ next > Len(client_socks)
      /\ UNCHANGED <<client, backlog, delivered, fdTable, mpc, client_sock, client_socks, next, sock,
                     msg, log, joined>>
  BY GotoType DEF SpacedInv, MutexHeld
<1>3. OneAtATime' /\ OneOwner' /\ ArrayOf' BY <1>1, <1>2, GotoOwners
<1>4. OneDescriptor' BY <1>2 DEF SpacedInv, OneDescriptor
<1>5. EndedRead' BY <1>2 DEF SpacedInv, EndedRead, Peer
<1>6. MutexHeld' BY <1>2 DEF SpacedInv, MutexHeld
<1>7. NothingYet' BY <1>2 DEF SpacedInv, NothingYet, Unentered
<1>8. Conversation'
  <2>1. \A i \in 1..Len(client_socks) : ~(next <= i) BY <1>2 DEF Inv, TypeOK
  <2>2. ~Sending' BY <1>2 DEF Sending
  <2> QED BY ONLY SpacedInv, <1>2, <2>1, <2>2 DEF SpacedInv, Conversation, Connected
<1> QED BY <1>3, <1>4, <1>5, <1>6, <1>7, <1>8 DEF SpacedInv

LEMMA WriteSpaced == ASSUME Inv, SpacedInv, NEW t \in Thread, Write(t) PROVE SpacedInv'
<1> DEFINE L == Len(log)
<1>1. PICK c : c = fdTable[client_socks[next]] OBVIOUS
<1>2. /\ Goto(t, "write", "write") /\ next <= Len(client_socks) /\ next' = next + 1
      /\ ~Blocked(t, c)
      /\ delivered' = [d \in Conn |-> IF d \in (IF Refused(t) THEN {} ELSE {c} \cap Conn) /\ client[d] = "open"
                                      THEN Append(delivered[d], msg[t]) ELSE delivered[d]]
      /\ client' = [d \in Conn |-> IF d \in (IF Refused(t) THEN {} ELSE {c} \cap Conn)
                                   THEN AfterWrite(client[d]) ELSE client[d]]
      /\ UNCHANGED <<backlog, fdTable, mpc, client_sock, client_socks, mutex, sock, msg, log, joined>>
  BY <1>1 DEF Write, mainVars, auxVars
<1>3. /\ tpc[t] = "write" /\ mutex = t /\ t # NoThread /\ \A u \in Thread : tpc'[u] = tpc[u]
      /\ next \in 1..Len(client_socks) /\ client_socks[next] \in Entered
  <2>1. next \in 1..Len(client_socks) BY <1>2 DEF Inv, TypeOK, SocketsTyped
  <2>2. tpc[t] = "write" BY <1>2 DEF Goto
  <2>3. \A u \in Thread : tpc'[u] = tpc[u] BY <1>2, GotoType
  <2> QED BY <2>1, <2>2, <2>3, ThreadFinite DEF Entered, SpacedInv, MutexHeld
<1>4. c \in Conn /\ (mpc = "enter" => client_socks[next] # client_sock) /\ client_socks[next] \in Fds
  BY <1>1, <1>3, EnteredOpen
<1>5. /\ \A d \in Conn \ {c} : client'[d] = client[d] /\ delivered'[d] = delivered[d]
      /\ client'[c] = client[c] \/ client'[c] = AfterWrite(client[c])
      /\ Refused(t) => delivered'[c] = delivered[c]
      /\ ~Refused(t) /\ Connected(c) => delivered'[c] = Append(delivered[c], msg[t])
  BY ONLY <1>2, <1>4 DEF Blocked, Connected
<1>6. /\ \A d \in Conn : client[d] # "new" <=> client'[d] # "new"
      /\ \A d \in Conn : client[d] \in {"closed", "answered", "reset"} =>
            client'[d] \in {"closed", "answered", "reset"}
      /\ \A d \in Conn : client'[d] \in {"open", "stalled"} => client[d] \in {"open", "stalled"}
  BY ONLY <1>5 DEF AfterWrite
<1>7. OneAtATime' /\ OneOwner' /\ ArrayOf' BY <1>2, GotoOwners
<1>8. OneDescriptor'
  <2>1. \A i \in 1..Len(backlog) : backlog[i] \in Conn BY DEF Inv, TypeOK
  <2> QED BY ONLY SpacedInv, <1>2, <1>6, <2>1 DEF SpacedInv, OneDescriptor
<1>9. EndedRead'
  <2>1. \A u \in Unclosed : tpc[u] # "start" => fdTable[sock[u]] \in Conn
    BY DEF SpacedInv, OneOwner, Socket, Starting
  <2>2. \A u \in Thread : tpc[u] \in {"remove", "close"} => fdTable[sock[u]] \in Conn
    BY <2>1 DEF Unclosed
  <2> QED BY ONLY SpacedInv, <1>2, <1>3, <1>6, <2>2 DEF SpacedInv, EndedRead, Peer
<1>10. MutexHeld'
  <2>1. next' <= Len(client_socks) + 1 BY <1>2, <1>3
  <2> QED BY ONLY Inv, SpacedInv, <1>2, <1>3, <2>1 DEF SpacedInv, MutexHeld
<1>11. NothingYet'
  <2>1. \A d \in Conn : Unentered(d)' => Unentered(d) BY ONLY <1>2, <1>6 DEF Unentered
  <2>2. ~Unentered(c)
    <3>1. client[c] # "new" BY <1>1, <1>4 DEF SpacedInv, OneDescriptor
    <3>2. \A i \in 1..Len(backlog) : backlog[i] # c BY <1>1, <1>4 DEF SpacedInv, OneDescriptor
    <3>3. mpc = "enter" => fdTable[client_sock] # c
      BY <1>1, <1>4, ConnAssumption DEF SpacedInv, OneDescriptor, Inv, SocketsTyped
    <3> QED BY <3>1, <3>2, <3>3 DEF Unentered
  <2> QED BY <1>5, <2>1, <2>2 DEF SpacedInv, NothingYet
<1>12. Conversation'
  <2>1. /\ (Sending <=> ~Refused(t)) /\ (Sending' <=> Sending)
        /\ (Sending => Len(log) > 0 /\ log[Len(log)] = msg[t])
    BY <1>2, <1>3 DEF Sending, Refused, SpacedInv, Conversation
  <2>2. log \in Seq(Conn) /\ L \in Nat /\ joined \in [Conn -> Nat] /\ delivered \in [Conn -> Seq(Conn)]
    BY DEF Inv, TypeOK
  <2>3. ASSUME NEW i \in 1..Len(client_socks), NEW d, d = fdTable[client_socks[i]], Connected(d)'
        PROVE  /\ Sending /\ next' <= i =>
                     joined[d] <= L - 1 /\ delivered'[d] = SubSeq(log, joined[d] + 1, L - 1)
               /\ ~(Sending /\ next' <= i) =>
                     joined[d] <= L /\ delivered'[d] = SubSeq(log, joined[d] + 1, L)
    <3>1. client_socks[i] \in Fds /\ d \in Conn BY <2>3, EnteredOpen DEF Entered
    <3>2. Connected(d) BY <1>6, <2>3, <3>1 DEF Connected
    <3>3. /\ Sending /\ next <= i => joined[d] <= L - 1 /\ delivered[d] = SubSeq(log, joined[d] + 1, L - 1)
          /\ ~(Sending /\ next <= i) => joined[d] <= L /\ delivered[d] = SubSeq(log, joined[d] + 1, L)
      BY <2>3, <3>2 DEF SpacedInv, Conversation
    <3>4. CASE i = next
      <4>1. d = c BY <1>1, <2>3, <3>4
      <4>2. CASE ~Sending
        <5>1. delivered'[d] = delivered[d] BY <1>5, <2>1, <4>1, <4>2
        <5> QED BY <2>2, <3>3, <4>2, <5>1
      <4>3. CASE Sending
        <5>1. delivered'[d] = Append(delivered[d], msg[t]) BY <1>5, <2>1, <3>2, <4>1, <4>3
        <5>2. joined[d] <= L - 1 /\ delivered[d] = SubSeq(log, joined[d] + 1, L - 1)
          BY <1>3, <3>3, <3>4, <4>3
        <5>3. joined[d] \in Nat /\ L > 0 /\ log[L] = msg[t] BY <2>1, <2>2, <3>1, <4>3
        <5>4. Append(SubSeq(log, joined[d] + 1, L - 1), log[L]) = SubSeq(log, joined[d] + 1, L)
          <6>0. joined[d] \in Nat /\ L \in Nat /\ joined[d] <= L - 1 BY ONLY <2>2, <5>2, <5>3
          <6>1. joined[d] + 1 \in 1..L /\ L \in (joined[d] + 1)..L
            <7> HIDE DEF L
            <7> QED BY ONLY <6>0
          <6>2. SubSeq(log, joined[d] + 1, L) = SubSeq(log, joined[d] + 1, L - 1) \o <<log[L]>>
            BY ONLY <2>2, <6>1, SubSeqRecursiveSecond
          <6>3. SubSeq(log, joined[d] + 1, L - 1) \in Seq(Conn) BY ONLY <2>2, <3>1, <5>2
          <6>4. log[L] \in Conn BY ONLY <2>2, <5>3
          <6> HIDE DEF L
          <6> QED BY ONLY <6>2, <6>3, <6>4, AppendIsConcat
        <5>5. ~(next' <= i) BY <1>2, <1>3, <3>4
        <5>6. joined[d] <= L BY <2>2, <5>2, <5>3
        <5> QED BY ONLY <5>1, <5>2, <5>3, <5>4, <5>5, <5>6
      <4> QED BY <4>2, <4>3
    <3>5. CASE i # next
      <4>1. client_socks[i] # client_socks[next] BY <1>3, <2>3, <3>5 DEF SpacedInv, ArrayOf
      <4>2. d # c BY <1>1, <1>4, <2>3, <3>1, <4>1, ConnAssumption DEF SpacedInv, OneDescriptor
      <4>3. delivered'[d] = delivered[d] BY <1>5, <3>1, <4>2
      <4>4. next' <= i <=> next <= i BY <1>2, <1>3, <2>3, <3>5
      <4> QED BY ONLY <3>3, <4>3, <4>4
    <3> QED BY <3>4, <3>5
  <2>4. Sending' => Len(log) > 0 /\ log[Len(log)] = msg'[mutex'] BY <1>2, <1>3, <2>1
  <2>5. ASSUME NEW i \in 1..Len(client_socks)
        PROVE  Connected(fdTable[client_socks[i]])' =>
                  /\ joined[fdTable[client_socks[i]]] <= IF Sending /\ next' <= i THEN L - 1 ELSE L
                  /\ delivered'[fdTable[client_socks[i]]] =
                       SubSeq(log, joined[fdTable[client_socks[i]]] + 1,
                              IF Sending /\ next' <= i THEN L - 1 ELSE L)
    <3>1. PICK d : d = fdTable[client_socks[i]] OBVIOUS
    <3>2. Connected(d)' <=> Connected(fdTable[client_socks[i]])' BY ONLY <1>2, <3>1 DEF Connected
    <3> QED BY ONLY <2>3, <3>1, <3>2
  <2> QED BY ONLY <1>2, <2>1, <2>4, <2>5 DEF Conversation, Connected
<1> QED BY <1>7, <1>8, <1>9, <1>10, <1>11, <1>12 DEF SpacedInv

(* A thread that leaves takes out its own client's socket, and no other.   *)
LEMMA LeaveTakes ==
  ASSUME Inv, SpacedInv, NEW t \in Thread, Leave(t)
  PROVE  /\ sock[t] \in Entered /\ Entered' = Entered \ {sock[t]}
         /\ Len(client_socks') = Len(client_socks) - 1 /\ Len(client_socks) \in Nat
         /\ \A i, j \in 1..Len(client_socks') : client_socks'[i] = client_socks'[j] => i = j
<1> DEFINE n == Len(client_socks)
           s == client_socks
<1>1. tpc[t] = "remove" BY DEF Leave, Goto
<1>2. sock[t] \in Entered
  <2>1. t \in Members /\ Socket(t) = sock[t] BY <1>1 DEF Members, Socket, Starting
  <2> QED BY <2>1 DEF SpacedInv, ArrayOf
<1>3. PICK p \in 1..n : sock[t] = s[p] BY <1>2 DEF Entered
<1>4. s \in Seq(Fds) /\ n \in Nat /\ \A i, j \in 1..n : s[i] = s[j] => i = j
  BY DEF Inv, TypeOK, SpacedInv, ArrayOf
<1>5. client_socks' = [j \in 1..(n - 1) |-> IF j < p THEN s[j] ELSE s[j + 1]]
  BY <1>3, <1>4, WithoutOne DEF Leave
<1>6. Len(client_socks') = n - 1
  <2>1. Len(client_socks) > 0 BY <1>1, LeaveFinds
  <2> QED BY <1>4, <2>1, WithoutType DEF Leave
<1> HIDE DEF s, n
<1>7. \A j \in 1..(n - 1) : client_socks'[j] = IF j < p THEN s[j] ELSE s[j + 1] BY <1>5
<1>8. \A j \in 1..(n - 1) : j \in 1..n /\ j + 1 \in 1..n BY <1>4
<1>9. ASSUME NEW f \in Entered' PROVE f \in Entered \ {sock[t]}
  <2>1. PICK j \in 1..(n - 1) : f = client_socks'[j] BY <1>6 DEF Entered
  <2>2. PICK i \in 1..n : i # p /\ f = s[i]
    <3>1. CASE j < p BY <1>7, <1>8, <2>1, <3>1
    <3>2. CASE ~(j < p)
      <4>1. j + 1 # p BY <2>1, <3>2
      <4> QED BY <1>7, <1>8, <2>1, <3>2, <4>1
    <3> QED BY <3>1, <3>2
  <2>3. f # sock[t] BY <1>3, <1>4, <2>2
  <2>4. f \in Entered BY <2>2 DEF Entered, s, n
  <2> QED BY <2>3, <2>4
<1>10. ASSUME NEW f \in Entered \ {sock[t]} PROVE f \in Entered'
  <2>1. PICK i \in 1..n : f = s[i] /\ i # p BY <1>3 DEF Entered, s, n
  <2>2. CASE i < p
    <3>1. i \in 1..(n - 1) BY <1>4, <2>1, <2>2
    <3> QED BY <1>6, <1>7, <2>1, <2>2, <3>1 DEF Entered
  <2>3. CASE i > p
    <3>1. i - 1 \in 1..(n - 1) /\ ~(i - 1 < p) /\ i - 1 + 1 = i BY <1>4, <2>1, <2>3
    <3>2. client_socks'[i - 1] = f BY <1>7, <2>1, <3>1
    <3> QED BY <1>6, <3>1, <3>2 DEF Entered
  <2> QED BY <2>1, <2>2, <2>3
<1>11. ASSUME NEW i \in 1..(n - 1), NEW j \in 1..(n - 1), client_socks'[i] = client_socks'[j] PROVE i = j
  <2>1. CASE i < p /\ j < p BY <1>4, <1>7, <1>8, <1>11, <2>1
  <2>2. CASE ~(i < p) /\ ~(j < p)
    <3>1. i + 1 = j + 1 BY <1>4, <1>7, <1>8, <1>11, <2>2
    <3> QED BY <3>1
  <2>3. CASE i < p /\ ~(j < p)
    <3>1. i = j + 1 BY <1>4, <1>7, <1>8, <1>11, <2>3
    <3> QED BY <2>3, <3>1
  <2>4. CASE ~(i < p) /\ j < p
    <3>1. i + 1 = j BY <1>4, <1>7, <1>8, <1>11, <2>4
    <3> QED BY <2>4, <3>1
  <2> QED BY <2>1, <2>2, <2>3, <2>4
<1> QED BY <1>2, <1>4, <1>6, <1>9, <1>10, <1>11 DEF n

LEMMA LeaveSpaced == ASSUME Inv, SpacedInv, NEW t \in Thread, Leave(t) PROVE SpacedInv'
<1>1. /\ tpc[t] = "remove" /\ tpc'[t] = "close" /\ \A u \in Thread \ {t} : tpc'[u] = tpc[u]
      /\ mutex = NoThread
      /\ UNCHANGED <<client, backlog, delivered, fdTable, mpc, client_sock, mutex, next, sock, msg,
                     log, joined>>
  BY GotoType DEF Leave, netVars, mainVars, auxVars, Free
<1>2. \A u \in Thread : (Starting(u)' <=> Starting(u)) /\ Socket(u)' = Socket(u)
  BY <1>1 DEF Starting, Socket
<1>3. Unclosed' = Unclosed /\ Members' = Members \ {t} /\ t \in Unclosed /\ Socket(t) = sock[t]
  BY <1>1 DEF Unclosed, Members, Socket, Starting
<1>4. OneAtATime' BY <1>1, <1>2 DEF SpacedInv, OneAtATime
<1>5. OneOwner' BY <1>1, <1>2, <1>3, MembersUnclosed DEF SpacedInv, OneOwner
<1>6. ArrayOf'
  <2>1. {Socket(u) : u \in Members}' = {Socket(u) : u \in Members} \ {sock[t]}
    <3>1. \A u \in Members : u \in Unclosed /\ Socket(u)' = Socket(u) BY <1>2, MembersUnclosed
    <3>2. \A u \in Unclosed : Socket(u) = sock[t] => u = t BY <1>3 DEF SpacedInv, OneOwner
    <3>3. {Socket(u) : u \in Members \ {t}} = {Socket(u) : u \in Members} \ {sock[t]}
      BY <1>3, <3>1, <3>2
    <3>4. {Socket(u) : u \in Members}' = {Socket(u) : u \in Members \ {t}} BY <1>3, <3>1
    <3> QED BY <3>3, <3>4
  <2>2. mpc = "create" => client_sock # sock[t] BY <1>3 DEF SpacedInv, OneOwner
  <2> QED BY <1>1, <2>1, <2>2, LeaveTakes DEF SpacedInv, ArrayOf
<1>7. OneDescriptor' BY <1>1 DEF SpacedInv, OneDescriptor
<1>8. EndedRead' BY <1>1 DEF SpacedInv, EndedRead, Peer
<1>9. MutexHeld' BY <1>1 DEF SpacedInv, MutexHeld
<1>10. NothingYet' BY <1>1 DEF SpacedInv, NothingYet, Unentered
<1>11. Conversation'
  <2>1. ~Sending /\ ~Sending' BY <1>1 DEF Sending
  <2>2. ASSUME NEW i \in 1..Len(client_socks')
        PROVE  \E j \in 1..Len(client_socks) : client_socks'[i] = client_socks[j]
    <3>1. client_socks'[i] \in Entered' BY DEF Entered
    <3>2. client_socks'[i] \in Entered BY <3>1, LeaveTakes
    <3> QED BY <3>2 DEF Entered
  <2> QED BY <1>1, <2>1, <2>2 DEF SpacedInv, Conversation, Connected
<1> QED BY <1>4, <1>5, <1>6, <1>7, <1>8, <1>9, <1>10, <1>11 DEF SpacedInv

LEMMA CloseSpaced == ASSUME Inv, SpacedInv, NEW t \in Thread, Close(t) PROVE SpacedInv'
<1> USE DEF Close
<1>1. /\ tpc[t] = "close" /\ tpc'[t] = "done" /\ \A u \in Thread \ {t} : tpc'[u] = tpc[u]
      /\ UNCHANGED <<client, backlog, delivered, mpc, client_sock, client_socks, mutex, next, sock, msg,
                     log, joined>>
  BY GotoType DEF netVars, mainVars, auxVars
<1>2. \A u \in Thread : (Starting(u)' <=> Starting(u)) /\ Socket(u)' = Socket(u)
  BY <1>1 DEF Starting, Socket
<1>3. /\ Unclosed' = Unclosed \ {t} /\ Members' = Members /\ t \in Unclosed /\ t \notin Members
      /\ Entered' = Entered /\ Socket(t) = sock[t] /\ sock[t] \in Fds
  BY <1>1, UnclosedSocket DEF Unclosed, Members, Entered, Socket, Starting
<1>4. fdTable'[sock[t]] = NoConn /\ \A f \in Fds \ {sock[t]} : fdTable'[f] = fdTable[f]
  BY <1>3 DEF Inv, TypeOK
<1>5. \A u \in Unclosed' : /\ u \in Unclosed /\ u \in Thread /\ Socket(u) \in Fds /\ Socket(u) # sock[t]
                           /\ fdTable'[Socket(u)] = fdTable[Socket(u)]
  BY <1>3, <1>4, UnclosedSocket DEF SpacedInv, OneOwner
<1>6. mpc # "accept" => /\ client_sock \in Fds /\ client_sock # sock[t]
                        /\ fdTable'[client_sock] = fdTable[client_sock]
  BY <1>3, <1>4 DEF Inv, SocketsTyped, SpacedInv, OneOwner
<1>7. OneAtATime' BY <1>1, <1>2 DEF SpacedInv, OneAtATime
<1>8. OneOwner' BY <1>1, <1>2, <1>5, <1>6 DEF SpacedInv, OneOwner
<1>9. ArrayOf'
  <2>1. {Socket(u) : u \in Members}' = {Socket(u) : u \in Members} BY <1>2, <1>3, MembersUnclosed
  <2> QED BY <1>1, <1>3, <2>1 DEF SpacedInv, ArrayOf
<1>10. OneDescriptor'
  <2>1. \A f \in Fds : fdTable'[f] = NoConn \/ fdTable'[f] = fdTable[f] BY <1>4
  <2>2. \A i \in 1..Len(backlog) : backlog[i] \in Conn BY DEF Inv, TypeOK
  <2> QED BY ONLY SpacedInv, ConnAssumption, <1>1, <2>1, <2>2 DEF SpacedInv, OneDescriptor
<1>11. EndedRead'
  <2>1. ASSUME NEW u \in Thread, tpc'[u] \in {"remove", "close"}
        PROVE  tpc[u] = tpc'[u] /\ fdTable'[sock[u]] = fdTable[sock[u]]
    <3>1. u # t /\ tpc[u] = tpc'[u] BY <1>1, <2>1
    <3>2. u \in Unclosed' /\ Socket(u) = sock[u] BY <2>1, <3>1 DEF Unclosed, Socket, Starting
    <3> QED BY <1>5, <3>1, <3>2
  <2> QED BY <1>1, <2>1 DEF SpacedInv, EndedRead, Peer
<1>12. MutexHeld'
  <2>1. mutex # NoThread => mutex \in Thread /\ mutex # t BY <1>1 DEF Inv, TypeOK, SpacedInv, MutexHeld
  <2> QED BY <1>1, <2>1 DEF SpacedInv, MutexHeld
<1>13. NothingYet'
  <2>1. \A c \in Conn : Unentered(c)' => Unentered(c) BY <1>1, <1>6 DEF Unentered
  <2> QED BY <1>1, <2>1 DEF SpacedInv, NothingYet
<1>14. \A f \in Entered : fdTable'[f] = fdTable[f]
  <2>1. \A u \in Members : Socket(u) # sock[t] BY <1>3, MembersUnclosed DEF SpacedInv, OneOwner
  <2>2. \A f \in Entered : f # sock[t] BY <1>6, <2>1 DEF SpacedInv, ArrayOf
  <2> QED BY <1>4, <2>2, EnteredOpen
<1>15. Conversation'
  <2>1. \A i \in 1..Len(client_socks) : fdTable'[client_socks[i]] = fdTable[client_socks[i]]
    BY <1>14 DEF Entered
  <2> QED BY ONLY SpacedInv, <1>1, <2>1 DEF SpacedInv, Conversation, Sending, Connected
<1> QED BY <1>7, <1>8, <1>9, <1>10, <1>11, <1>12, <1>13, <1>15 DEF SpacedInv

LEMMA NextSpaced == Spaced /\ Inv /\ SpacedInv /\ [Next]_vars => SpacedInv'
<1> SUFFICES ASSUME Spaced, Inv, SpacedInv, [Next]_vars PROVE SpacedInv' OBVIOUS
<1>1. CASE MainStep BY <1>1, AcceptSpaced, EnterSpaced, CreateSpaced DEF MainStep
<1>2. ASSUME NEW t \in Thread, ThreadStep(t) PROVE SpacedInv'
  BY <1>2, StartSpaced, ReadSpaced, LockSpaced, WriteSpaced, UnlockSpaced, LeaveSpaced, CloseSpaced
     DEF ThreadStep
<1>3. ASSUME NEW c \in Conn, ClientStep(c) PROVE SpacedInv' BY <1>3, ClientStepSpaced
<1>4. CASE UNCHANGED vars
  <2>1. UNCHANGED <<client, backlog, delivered>> /\ UNCHANGED serverVars
    BY <1>4 DEF vars, netVars, serverVars
  <2>2. UNCHANGED <<fdTable, mpc, client_sock, client_socks, mutex, next, tpc, sock, msg, log, joined>>
        /\ Members' = Members /\ Unclosed' = Unclosed /\ Entered' = Entered
        /\ \A t \in Thread : (Starting(t)' <=> Starting(t)) /\ Socket(t)' = Socket(t)
    BY <2>1, ServerSame
  <2>3. OneAtATime' /\ OneOwner' /\ MutexHeld'
    BY <2>1, <2>2, MembersUnclosed DEF SpacedInv, OneAtATime, OneOwner, MutexHeld
  <2>4. ArrayOf'
    <3>1. {Socket(t) : t \in Members}' = {Socket(t) : t \in Members} BY <2>2, MembersUnclosed
    <3> QED BY <2>2, <3>1 DEF SpacedInv, ArrayOf
  <2>5. OneDescriptor' /\ EndedRead' BY <2>1, <2>2 DEF SpacedInv, OneDescriptor, EndedRead, Peer
  <2>6. NothingYet' BY <2>1, <2>2 DEF SpacedInv, NothingYet, Unentered
  <2>7. Conversation' BY <2>1, <2>2 DEF SpacedInv, Conversation, Sending, Connected
  <2> QED BY <2>3, <2>4, <2>5, <2>6, <2>7 DEF SpacedInv
<1> QED BY <1>1, <1>2, <1>3, <1>4 DEF Next, ClientStep

LEMMA SpacedAlways == ASSUME Spaced PROVE Spec => [](Inv /\ SpacedInv)
<1>1. Init => Inv /\ SpacedInv BY InitInv, InitSpaced
<1>2. Inv /\ SpacedInv /\ [Next]_vars => (Inv /\ SpacedInv)' BY NextInv, NextSpaced
<1> QED BY <1>1, <1>2, PTL DEF Spec

-----------------------------------------------------------------------------
(* If clients connect one at a time                                        *)

(* Every client of the array has a thread of its own, each socket is in    *)
(* the array once and closed by one thread, and the array has room.        *)
THEOREM ArrayThreadsAgree == ASSUME Spaced PROVE Spec => []ArrayConsistent
<1>1. Inv /\ SpacedInv => ThreadPerClient
  <2> SUFFICES ASSUME Inv, SpacedInv PROVE ThreadPerClient OBVIOUS
  <2>1. ASSUME NEW t \in Thread, NEW u \in Thread, Running(t), Running(u), sock[t] = sock[u] PROVE t = u
    <3>1. t \in Unclosed /\ u \in Unclosed /\ Socket(t) = sock[t] /\ Socket(u) = sock[u]
      BY <2>1 DEF Running, Unclosed, Socket, Starting
    <3> QED BY <2>1, <3>1 DEF SpacedInv, OneOwner
  <2>2. ASSUME NEW f \in Entered
        PROVE  \/ f = client_sock /\ (mpc = "create" \/ \E t \in Thread : tpc[t] = "start")
               \/ \E t \in Thread : Running(t) /\ sock[t] = f /\ tpc[t] # "close"
    <3>1. CASE mpc = "create" /\ f = client_sock BY <3>1
    <3>2. ASSUME NEW t \in Members, f = Socket(t)
          PROVE  \/ f = client_sock /\ \E u \in Thread : tpc[u] = "start"
                 \/ \E u \in Thread : Running(u) /\ sock[u] = f /\ tpc[u] # "close"
      BY <3>2 DEF Members, Socket, Starting, Running
    <3> QED BY <3>1, <3>2 DEF SpacedInv, ArrayOf
  <2> QED BY <2>1, <2>2 DEF ThreadPerClient, SpacedInv, ArrayOf
<1>2. Inv /\ SpacedInv /\ WithinArray => ArrayConsistent BY <1>1 DEF Inv, ArrayConsistent
<1> QED BY <1>2, SpacedAlways, ArrayBounded, PTL

(* Between two broadcasts a connected client has received what was sent    *)
(* since it was entered, in the order in which all the others have.        *)
THEOREM OneConversation == ASSUME Spaced PROVE Spec => []SameConversation
<1>1. Inv /\ SpacedInv => SameConversation
  <2> SUFFICES ASSUME Inv, SpacedInv, mutex = NoThread, NEW c \in Conn, Connected(c),
                      NEW f \in Entered, fdTable[f] = c
               PROVE  delivered[c] = SubSeq(log, joined[c] + 1, Len(log))
    BY DEF SameConversation
  <2>1. PICK i \in 1..Len(client_socks) : f = client_socks[i] BY DEF Entered
  <2> QED BY <2>1 DEF SpacedInv, Conversation, Sending
<1> QED BY <1>1, SpacedAlways, PTL

(* No step takes a client that is still connected out of the array.        *)
THEOREM RemovedWereGone == ASSUME Spaced PROVE Spec => OnlyDisconnectedRemoved
<1>1. Inv /\ SpacedInv /\ [Next]_vars => ConnectedStay
  <2> SUFFICES ASSUME Inv, SpacedInv, [Next]_vars, NEW c \in Conn, Connected(c),
                      NEW f \in Entered, fdTable[f] = c
               PROVE  (\E g \in Entered : fdTable[g] = c)'
    BY DEF ConnectedStay
  <2>1. f \in Fds /\ fdTable[f] \in Conn BY EnteredOpen
  <2>2. CASE Entered' = Entered /\ fdTable' = fdTable BY <2>2
  <2>3. CASE Accept
    <3>1. PICK g \in Fds : fdTable[g] = NoConn /\ fdTable' = [fdTable EXCEPT ![g] = Head(backlog)]
      BY <2>3 DEF Accept
    <3>2. fdTable'[f] = c BY <2>1, <3>1, ConnAssumption DEF Inv, TypeOK
    <3>3. Entered' = Entered BY <2>3 DEF Accept, Entered
    <3> QED BY <3>2, <3>3
  <2>4. CASE Enter
    <3>1. f \in Entered'
      <4>1. PICK i \in 1..Len(client_socks) : f = client_socks[i] BY DEF Entered
      <4>2. client_socks' = Append(client_socks, client_sock) /\ client_socks \in Seq(Fds)
        BY <2>4 DEF Enter, Inv, TypeOK
      <4>3. i \in 1..Len(client_socks') /\ client_socks'[i] = f BY <4>1, <4>2
      <4> QED BY <4>3 DEF Entered
    <3>2. fdTable' = fdTable BY <2>4 DEF Enter
    <3> QED BY <3>1, <3>2
  <2>5. ASSUME NEW t \in Thread, Leave(t) PROVE f \in Entered' /\ fdTable' = fdTable
    <3>1. client[fdTable[sock[t]]] \in {"closed", "answered", "reset"}
      BY <2>5 DEF SpacedInv, EndedRead, Peer, Leave, Goto
    <3>2. f # sock[t] BY <3>1 DEF Connected
    <3> QED BY <2>5, <3>2, LeaveTakes DEF Leave
  <2>6. ASSUME NEW t \in Thread, Close(t) PROVE f \in Entered' /\ fdTable'[f] = fdTable[f]
    <3>1. Entered' = Entered BY <2>6 DEF Close, Entered
    <3>2. client[fdTable[sock[t]]] \in {"closed", "answered", "reset"}
      BY <2>6 DEF SpacedInv, EndedRead, Peer, Close, Goto
    <3>3. f # sock[t] BY <3>2 DEF Connected
    <3> QED BY <2>1, <2>6, <3>1, <3>3 DEF Close, Inv, TypeOK
  <2>7. ASSUME NEW t \in Thread,
               Start(t) \/ Read(t) \/ ReadFails(t) \/ Lock(t) \/ Write(t) \/ Unlock(t) \/ ReadEnd(t)
        PROVE  Entered' = Entered /\ fdTable' = fdTable
    BY <2>7 DEF Start, Read, ReadFails, Lock, Write, Unlock, ReadEnd, Entered
  <2>8. CASE Create \/ UNCHANGED vars BY <2>8 DEF Create, vars, Entered
  <2>9. ASSUME NEW d \in Conn, ClientStep(d) PROVE Entered' = Entered /\ fdTable' = fdTable
    BY <2>9, ClientStepLeaves, ServerSame
  <2> QED BY <2>2, <2>3, <2>4, <2>5, <2>6, <2>7, <2>8, <2>9 DEF Next, MainStep, ThreadStep, ClientStep
<1> QED BY <1>1, SpacedAlways, PTL DEF Spec, OnlyDisconnectedRemoved
=============================================================================
