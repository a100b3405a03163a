-------------------------- MODULE StoreServerProofs --------------------------
(***************************************************************************)
(* Proofs about module StoreServer: which process holds which socket, and  *)
(* what lengths and pipe contents are possible, and what reaches the file, *)
(* for any clients and sizes.                                              *)
(***************************************************************************)
EXTENDS StoreServer, FiniteSetTheorems, SequenceTheorems, TLAPS

(* The parent has at most the socket it is about to hand over.             *)
ParentOK == open = IF ppc = "accept" THEN {} ELSE {client_sock} \ {NoConn}

(* A connection is new, or waits, or is the one just accepted, or has been *)
(* given to one child for ever.                                            *)
ServedOnce ==
    /\ \A j, k \in Child : Serving(j) /\ serves[j] = serves[k] => j = k
    /\ \A i, j \in 1..Len(backlog) : backlog[i] = backlog[j] => i = j
    /\ \A c \in Conn : client[c] = "new" \/ Waiting(c) =>
          client_sock # c /\ \A k \in Child : serves[k] # c
    /\ \A c \in Conn : client[c] = "new" => ~Waiting(c)
    /\ ppc = "fork" => \A k \in Child : client_sock \in Conn => serves[k] # client_sock
    /\ \A k \in Child : cpc[k] = "none" => serves[k] = NoConn

(* What a child has in its buffer has been taken, and not yet echoed.      *)
BufferOK ==
    /\ \A c \in Conn : taken[c] <= sent[c] /\ echoed[c] <= taken[c]
    /\ \A k \in Child : cpc[k] \in {"echo", "store", "close"} => Serving(k)
    /\ \A k \in Child : cpc[k] \in {"echo", "store"} => len[k] <= taken[serves[k]]
    /\ \A k \in Child : cpc[k] = "echo" => echoed[serves[k]] + len[k] <= taken[serves[k]]

Inv == TypeOK /\ OwnSocketOnly /\ ParentOK /\ ServedOnce /\ BufferOK

LEMMA ChildType == Child \subseteq Nat
<1>1. Cardinality(Conn) \in Nat BY ConnAssumption, FS_CardinalityType
<1> QED BY <1>1 DEF Child

LEMMA InitInv == Init => Inv
<1> SUFFICES ASSUME Init PROVE Inv OBVIOUS
<1> USE DEF Init
<1>1. TypeOK
  <2>1. 0 \in 0..MaxSent /\ 0 \in 0..BUF_SIZE /\ 0 <= PipeSize BY SizeAssumption
  <2>2. <<>> \in Seq(Conn) /\ <<>> \in Seq(Unit) /\ Len(<<>>) = 0 OBVIOUS
  <2>3. holds \in [Child -> SUBSET Conn] /\ len \in [Child -> 0..BUF_SIZE] BY <2>1
  <2> QED BY <2>1, <2>2, <2>3 DEF TypeOK
<1>2. OwnSocketOnly BY DEF OwnSocketOnly, Alive
<1>3. ParentOK BY DEF ParentOK
<1>4. ServedOnce BY ConnAssumption DEF ServedOnce, Serving, Waiting
<1>5. BufferOK BY SizeAssumption DEF BufferOK
<1> QED BY <1>1, <1>2, <1>3, <1>4, <1>5 DEF Inv

-----------------------------------------------------------------------------
(* Clients                                                                 *)

LEMMA ConnectInv == ASSUME Inv, NEW c \in Conn, Connect(c) PROVE Inv'
<1> USE DEF Connect, parentVars, childVars, storeVars
<1>1. TypeOK' BY DEF Inv, TypeOK
<1>2. OwnSocketOnly' /\ ParentOK' /\ BufferOK'
  BY DEF Inv, OwnSocketOnly, Alive, Serving, ParentOK, BufferOK
<1>3. client'[c] = "open" /\ \A d \in Conn \ {c} : client'[d] = client[d] BY DEF Inv, TypeOK
<1>4. /\ Len(backlog') = Len(backlog) + 1 /\ Len(backlog) \in Nat
      /\ \A i \in 1..Len(backlog) : backlog'[i] = backlog[i]
      /\ backlog'[Len(backlog) + 1] = c
  BY DEF Inv, TypeOK
<1>5. \A d \in Conn : Waiting(d)' <=> Waiting(d) \/ d = c BY <1>4 DEF Waiting
<1>6. ServedOnce'
  <2>1. \A i, j \in 1..Len(backlog') : backlog'[i] = backlog'[j] => i = j
    <3>1. \A i \in 1..Len(backlog) : backlog[i] # c BY DEF Inv, ServedOnce, Waiting
    <3>2. \A i, j \in 1..Len(backlog) : backlog[i] = backlog[j] => i = j BY DEF Inv, ServedOnce
    <3> QED BY ONLY <1>4, <3>1, <3>2
  <2> QED BY <1>3, <1>5, <2>1 DEF Inv, ServedOnce, Serving
<1> QED BY <1>1, <1>2, <1>6 DEF Inv

LEMMA ClientInv == ASSUME Inv, NEW c \in Conn, Talk(c) \/ End(c) PROVE Inv'
<1> USE DEF Talk, End, parentVars, childVars, storeVars
<1>1. sent' \in [Conn -> 0..MaxSent] /\ \A d \in Conn : sent[d] <= sent'[d]
  <2>1. sent \in [Conn -> 0..MaxSent] BY DEF Inv, TypeOK
  <2>2. sent' = sent \/ (sent[c] < MaxSent /\ sent' = [sent EXCEPT ![c] = sent[c] + 1]) OBVIOUS
  <2> QED BY ONLY <2>1, <2>2, SizeAssumption, c \in Conn
<1>2. TypeOK'
  <2>1. client' \in [Conn -> {"new", "open", "finished", "closed", "answered", "reset"}]
    BY DEF Inv, TypeOK
  <2> QED BY <1>1, <2>1 DEF Inv, TypeOK
<1>3. OwnSocketOnly' /\ ParentOK' BY DEF Inv, OwnSocketOnly, Alive, Serving, ParentOK
<1>4. \A d \in Conn : client'[d] = "new" => client[d] = "new" BY DEF Inv, TypeOK
<1>5. ServedOnce' BY <1>4 DEF Inv, ServedOnce, Serving, Waiting
<1>6. BufferOK'
  <2>1. \A d \in Conn : taken[d] \in Nat /\ sent[d] \in Nat /\ sent'[d] \in Nat
    BY <1>2, SizeAssumption DEF Inv, TypeOK
  <2> QED BY <1>1, <2>1 DEF Inv, BufferOK, Serving
<1> QED BY <1>2, <1>3, <1>5, <1>6 DEF Inv

-----------------------------------------------------------------------------
(* Parent                                                                  *)

(* Waiting for a child that has ended changes nothing that matters here.   *)
LEMMA RecycleInv ==
  ASSUME Inv, Recycle, UNCHANGED <<netVars, serves, holds, len, storeVars>>, pending' = FALSE
  PROVE  /\ TypeOK' <=> (ppc' \in {"accept", "fork", "close"} /\ client_sock' \in Conn \cup {NoConn} /\ open' \subseteq Conn)
         /\ \A k \in Child : Alive(k)' <=> Alive(k)
         /\ \A k \in Child : cpc'[k] = cpc[k] \/ cpc'[k] = "gone"
         /\ BufferOK'
<1> USE DEF netVars, storeVars
<1>1. cpc' = cpc \/ \E z \in Child : cpc[z] = "zombie" /\ cpc' = [cpc EXCEPT ![z] = "gone"]
  BY DEF Recycle, Zombies
<1>2. cpc' \in [Child -> {"none", "read", "echo", "store", "close", "zombie", "gone"}]
  BY <1>1 DEF Inv, TypeOK
<1>3. \A k \in Child : cpc'[k] = cpc[k] \/ (cpc[k] = "zombie" /\ cpc'[k] = "gone")
  BY <1>1 DEF Inv, TypeOK
<1>4. BufferOK' BY <1>3 DEF Inv, BufferOK, Serving
<1>5. TypeOK' <=> (ppc' \in {"accept", "fork", "close"} /\ client_sock' \in Conn \cup {NoConn} /\ open' \subseteq Conn)
  BY <1>2 DEF Inv, TypeOK
<1> QED BY <1>3, <1>4, <1>5 DEF Alive

LEMMA HandlerInv == ASSUME Inv, Handler PROVE Inv'
<1> USE DEF Handler, parentVars
<1>1. /\ TypeOK' /\ BufferOK' /\ \A k \in Child : Alive(k)' <=> Alive(k)
      /\ \A k \in Child : cpc'[k] = cpc[k] \/ cpc'[k] = "gone"
  BY RecycleInv DEF Inv, TypeOK
<1>2. OwnSocketOnly' BY <1>1 DEF Inv, OwnSocketOnly, Serving
<1>3. ParentOK' BY DEF Inv, ParentOK
<1>4. ServedOnce' BY <1>1 DEF Inv, ServedOnce, Serving, Waiting, netVars
<1> QED BY <1>1, <1>2, <1>3, <1>4 DEF Inv

LEMMA AcceptInterruptedInv == ASSUME Inv, AcceptInterrupted PROVE Inv'
<1> USE DEF AcceptInterrupted
<1>1. /\ TypeOK' /\ BufferOK' /\ \A k \in Child : Alive(k)' <=> Alive(k)
      /\ \A k \in Child : cpc'[k] = cpc[k] \/ cpc'[k] = "gone"
  BY RecycleInv DEF Inv, TypeOK
<1>2. OwnSocketOnly' BY <1>1 DEF Inv, OwnSocketOnly, Serving
<1>3. ParentOK' BY DEF Inv, ParentOK
<1>4. ServedOnce' BY <1>1, ConnAssumption DEF Inv, ServedOnce, Serving, Waiting, netVars
<1> QED BY <1>1, <1>2, <1>3, <1>4 DEF Inv

LEMMA AcceptInv == ASSUME Inv, Accept PROVE Inv'
<1> USE DEF Accept, childVars, storeVars
<1>1. /\ client_sock' \in Conn /\ client_sock' = backlog[1] /\ Len(backlog) \in Nat \ {0}
      /\ Len(backlog') = Len(backlog) - 1
      /\ \A i \in 1..Len(backlog') : backlog'[i] = backlog[i + 1]
      /\ backlog' \in Seq(Conn)
  BY DEF Inv, TypeOK
<1>2. TypeOK' BY <1>1 DEF Inv, TypeOK
<1>3. OwnSocketOnly' BY DEF Inv, OwnSocketOnly, Alive, Serving
<1>4. ParentOK' BY <1>1, ConnAssumption DEF Inv, ParentOK
<1>5. ServedOnce'
  <2>1. \A i, j \in 1..Len(backlog') : backlog'[i] = backlog'[j] => i = j BY <1>1 DEF Inv, ServedOnce
  <2>2. \A d \in Conn : Waiting(d)' => Waiting(d) /\ d # client_sock'
    <3> TAKE d \in Conn
    <3> SUFFICES ASSUME NEW i \in 1..Len(backlog'), backlog'[i] = d
                 PROVE  Waiting(d) /\ d # client_sock'
      BY DEF Waiting
    <3>1. i + 1 \in 1..Len(backlog) /\ backlog[i + 1] = d /\ 1 \in 1..Len(backlog) /\ i + 1 # 1 BY <1>1
    <3> QED BY <1>1, <3>1 DEF Waiting, Inv, ServedOnce
  <2>3. Waiting(client_sock') BY <1>1 DEF Waiting
  <2> HIDE DEF Accept
  <2>4. UNCHANGED <<client, cpc, serves>> BY DEF Accept
  <2> QED BY <2>1, <2>2, <2>3, <2>4, <1>1 DEF Inv, ServedOnce, Serving
<1>6. BufferOK' BY DEF Inv, BufferOK, Serving
<1> QED BY <1>2, <1>3, <1>4, <1>5, <1>6 DEF Inv

LEMMA ForkInv == ASSUME Inv, Fork PROVE Inv'
<1> USE DEF Fork, netVars, storeVars
<1>1. PICK k \in Child :
        /\ cpc[k] = "none"
        /\ cpc' = [cpc EXCEPT ![k] = "read"]
        /\ serves' = [serves EXCEPT ![k] = client_sock]
        /\ holds' = [holds EXCEPT ![k] = open]
  OBVIOUS
<1>2. /\ cpc'[k] = "read" /\ serves'[k] = client_sock /\ holds'[k] = open
      /\ \A j \in Child \ {k} : cpc'[j] = cpc[j] /\ serves'[j] = serves[j] /\ holds'[j] = holds[j]
  BY <1>1 DEF Inv, TypeOK
<1>3. TypeOK' BY <1>1 DEF Inv, TypeOK
<1>4. OwnSocketOnly' BY <1>2 DEF Inv, OwnSocketOnly, Alive, Serving, ParentOK, ServedOnce
<1>5. ParentOK' BY DEF Inv, ParentOK
<1>6. ServedOnce' BY <1>2, ConnAssumption DEF Inv, ServedOnce, Serving, Waiting
<1>7. BufferOK' BY <1>2 DEF Inv, BufferOK, Serving
<1> QED BY <1>3, <1>4, <1>5, <1>6, <1>7 DEF Inv

LEMMA ParentCloseInv == ASSUME Inv, ParentClose PROVE Inv'
<1> USE DEF ParentClose, StillOpen, netVars, childVars, storeVars
<1>1. TypeOK' BY DEF Inv, TypeOK
<1>2. OwnSocketOnly' BY DEF Inv, OwnSocketOnly, Alive, Serving, ParentOK
<1>3. ParentOK' BY DEF Inv, ParentOK
<1>4. ServedOnce' BY DEF Inv, ServedOnce, Serving, Waiting
<1>5. BufferOK' BY DEF Inv, BufferOK, Serving
<1> QED BY <1>1, <1>2, <1>3, <1>4, <1>5 DEF Inv

-----------------------------------------------------------------------------
(* Children                                                                *)

LEMMA ChildReadInv == ASSUME Inv, NEW k \in Child, ChildRead(k) PROVE Inv'
<1> USE DEF ChildRead, Goto, Serving, parentVars, storeVars
<1> DEFINE c == serves[k]
<1>1. PICK n \in Chunk :
        /\ n <= Unread(k)
        /\ len' = [len EXCEPT ![k] = n]
        /\ taken' = [taken EXCEPT ![c] = @ + n]
  OBVIOUS
<1>2. c \in Conn /\ n \in 1..BUF_SIZE /\ n \in Nat /\ sent[c] \in 0..MaxSent /\ taken[c] \in Nat
      /\ taken[c] + n <= sent[c]
  BY <1>1, SizeAssumption DEF Chunk, Unread, Inv, TypeOK
<1>3. /\ taken'[c] = taken[c] + n /\ \A d \in Conn \ {c} : taken'[d] = taken[d]
      /\ len'[k] = n /\ cpc'[k] = "echo"
      /\ \A j \in Child \ {k} : len'[j] = len[j] /\ cpc'[j] = cpc[j]
  BY <1>1, <1>2 DEF Inv, TypeOK
<1>4. TypeOK'
  <2>1. taken[c] + n \in 0..MaxSent BY <1>2, SizeAssumption
  <2>2. taken' \in [Conn -> 0..MaxSent] BY <1>1, <2>1 DEF Inv, TypeOK
  <2>3. n \in 0..BUF_SIZE BY <1>2, SizeAssumption
  <2>4. len' \in [Child -> 0..BUF_SIZE] BY <1>1, <2>3 DEF Inv, TypeOK
  <2> QED BY <2>2, <2>4 DEF Inv, TypeOK
<1>5. OwnSocketOnly' BY <1>3 DEF Inv, OwnSocketOnly, Alive
<1>6. ParentOK' BY DEF Inv, ParentOK
<1>7. ServedOnce' BY <1>3 DEF Inv, ServedOnce, Waiting
<1>8. BufferOK'
  <2>1. \A d \in Conn : taken[d] \in Nat /\ echoed[d] \in Nat BY SizeAssumption DEF Inv, TypeOK
  <2>2. \A d \in Conn : taken[d] <= taken'[d] /\ taken'[d] <= sent[d] /\ taken'[d] \in Nat
    BY <1>2, <1>3, <2>1 DEF Inv, BufferOK
  <2>3. echoed[c] + n <= taken'[c] /\ n <= taken'[c] BY <1>2, <1>3, <2>1 DEF Inv, BufferOK
  <2>4. \A d \in Conn : echoed[d] <= taken'[d] BY <2>1, <2>2 DEF Inv, BufferOK
  <2>5. \A j \in Child : cpc'[j] \in {"echo", "store", "close"} => serves[j] \in Conn
    BY <1>2, <1>3 DEF Inv, BufferOK
  <2>6. \A j \in Child : cpc'[j] \in {"echo", "store"} => len'[j] <= taken'[serves[j]]
    <3> TAKE j \in Child
    <3>1. CASE j = k BY <3>1, <1>3, <2>3
    <3>2. CASE j # k
      <4>1. len[j] \in Nat BY SizeAssumption DEF Inv, TypeOK
      <4> QED BY <3>2, <4>1, <1>3, <2>1, <2>2, <2>5 DEF Inv, BufferOK
    <3> QED BY <3>1, <3>2
  <2>7. \A j \in Child : cpc'[j] = "echo" => echoed[serves[j]] + len'[j] <= taken'[serves[j]]
    <3> TAKE j \in Child
    <3>1. CASE j = k BY <3>1, <1>3, <2>3
    <3>2. CASE j # k
      <4>1. len[j] \in Nat BY SizeAssumption DEF Inv, TypeOK
      <4> QED BY <3>2, <4>1, <1>3, <2>1, <2>2, <2>5 DEF Inv, BufferOK
    <3> QED BY <3>1, <3>2
  <2> QED BY <2>2, <2>4, <2>5, <2>6, <2>7 DEF BufferOK
<1> QED BY <1>4, <1>5, <1>6, <1>7, <1>8 DEF Inv

LEMMA ChildEchoInv == ASSUME Inv, NEW k \in Child, ChildEcho(k) PROVE Inv'
<1> USE DEF ChildEcho, Echoed, Goto, Serving, parentVars, storeVars
<1> DEFINE c == serves[k]
<1>1. c \in Conn /\ len[k] \in Nat /\ echoed[c] \in Nat /\ taken[c] \in 0..MaxSent
      /\ echoed[c] + len[k] <= taken[c]
  BY SizeAssumption DEF Inv, TypeOK, BufferOK
<1>2. cpc'[k] = "store" /\ \A j \in Child \ {k} : cpc'[j] = cpc[j] BY DEF Inv, TypeOK
<1>3. /\ echoed'[c] \in {echoed[c], echoed[c] + len[k]}
      /\ \A d \in Conn \ {c} : echoed'[d] = echoed[d]
      /\ echoed' = echoed \/ echoed' = [echoed EXCEPT ![c] = echoed[c] + len[k]]
  BY <1>1 DEF Inv, TypeOK
<1>4. TypeOK'
  <2>1. echoed' \in [Conn -> 0..MaxSent]
    <3>1. echoed \in [Conn -> 0..MaxSent] BY DEF Inv, TypeOK
    <3> QED BY <3>1, <1>1, <1>3, SizeAssumption
  <2>2. client' \in [Conn -> {"new", "open", "finished", "closed", "answered", "reset"}]
    BY DEF Inv, TypeOK
  <2> QED BY <2>1, <2>2 DEF Inv, TypeOK
<1>5. OwnSocketOnly' BY <1>2 DEF Inv, OwnSocketOnly, Alive
<1>6. ParentOK' BY DEF Inv, ParentOK
<1>7. ServedOnce'
  <2>1. \A d \in Conn : client'[d] = "new" => client[d] = "new" BY DEF Inv, TypeOK
  <2> QED BY <1>2, <2>1 DEF Inv, ServedOnce, Waiting
<1>8. BufferOK'
  <2>1. \A d \in Conn : taken[d] <= sent[d] /\ echoed'[d] <= taken[d]
    BY <1>1, <1>3 DEF Inv, BufferOK
  <2>2. \A j \in Child : cpc'[j] = "echo" => j # k /\ serves[j] \in Conn /\ serves[j] # c
    BY <1>1, <1>2 DEF Inv, BufferOK, ServedOnce
  <2>3. \A j \in Child : cpc'[j] = "echo" => echoed'[serves[j]] + len[j] <= taken[serves[j]]
    BY <1>2, <1>3, <2>2 DEF Inv, BufferOK
  <2>4. \A j \in Child :
          /\ cpc'[j] \in {"echo", "store", "close"} => serves[j] \in Conn
          /\ cpc'[j] \in {"echo", "store"} => len[j] <= taken[serves[j]]
    BY <1>2 DEF Inv, BufferOK
  <2> QED BY <2>1, <2>3, <2>4 DEF BufferOK
<1> QED BY <1>4, <1>5, <1>6, <1>7, <1>8 DEF Inv

(* write() to the pipe: the buffer's units are among those taken.          *)
LEMMA ChildStoreInv == ASSUME Inv, NEW k \in Child, ChildStore(k) PROVE Inv'
<1> USE DEF ChildStore, Goto, Serving, netVars, parentVars
<1> DEFINE c == serves[k]
<1>1. c \in Conn /\ len[k] \in Nat /\ taken[c] \in 0..MaxSent /\ len[k] <= taken[c]
  BY SizeAssumption DEF Inv, TypeOK, BufferOK
<1>2. cpc'[k] = "read" /\ \A j \in Child \ {k} : cpc'[j] = cpc[j] BY DEF Inv, TypeOK
<1>3. Units(k) \in Seq(Unit) /\ Len(Units(k)) = len[k]
  <2>1. \A i \in 1..len[k] : <<c, taken[c] - len[k] + i>> \in Unit BY <1>1, SizeAssumption DEF Unit
  <2>2. Units(k) \in [1..len[k] -> Unit] BY <2>1 DEF Units
  <2> QED BY ONLY <1>1, <2>2
<1>4. pipe' \in Seq(Unit) /\ Len(pipe') = Len(pipe) + len[k]
  <2>1. pipe \in Seq(Unit) /\ pipe' = pipe \o Units(k) BY DEF Inv, TypeOK
  <2> QED BY ONLY <1>3, <2>1, ConcatProperties
<1>5. TypeOK' BY <1>4 DEF Inv, TypeOK
<1>6. OwnSocketOnly' BY <1>2 DEF Inv, OwnSocketOnly, Alive
<1>7. ParentOK' BY DEF Inv, ParentOK
<1>8. ServedOnce' BY <1>2 DEF Inv, ServedOnce, Waiting
<1>9. BufferOK' BY <1>2 DEF Inv, BufferOK
<1> QED BY <1>5, <1>6, <1>7, <1>8, <1>9 DEF Inv

(* End of file, and the end of the process: its descriptors are closed.    *)
LEMMA ChildEndInv ==
  ASSUME Inv, NEW k \in Child, ChildReadEnd(k) \/ ChildKilled(k) \/ ChildExit(k) PROVE Inv'
<1> USE DEF ChildReadEnd, EndOfFile, ChildKilled, ChildExit, Goto, Serving, netVars, parentVars, storeVars
<1>1. /\ cpc'[k] = "zombie" \/ (cpc[k] = "read" /\ cpc'[k] = "close" /\ serves[k] \in Conn /\ holds' = holds)
      /\ cpc[k] # "none"
      /\ \A j \in Child \ {k} : cpc'[j] = cpc[j] /\ holds'[j] = holds[j]
  BY DEF Inv, TypeOK
<1>2. TypeOK'
  <2>1. holds' \in [Child -> SUBSET Conn] /\ pending' \in BOOLEAN BY DEF Inv, TypeOK
  <2> QED BY <2>1 DEF Inv, TypeOK
<1>3. OwnSocketOnly' BY <1>1 DEF Inv, OwnSocketOnly, Alive
<1>4. ParentOK' BY DEF Inv, ParentOK
<1>5. ServedOnce' BY <1>1 DEF Inv, ServedOnce, Waiting
<1>6. BufferOK' BY <1>1 DEF Inv, BufferOK
<1> QED BY <1>2, <1>3, <1>4, <1>5, <1>6 DEF Inv

LEMMA StoreInv == ASSUME Inv, Store PROVE Inv'
<1> USE DEF Store, netVars, parentVars, childVars
<1>1. PICK n \in Chunk :
        /\ n = Len(pipe) \/ (n = BUF_SIZE /\ n < Len(pipe))
        /\ file' = file \o SubSeq(pipe, 1, n)
        /\ pipe' = SubSeq(pipe, n + 1, Len(pipe))
  OBVIOUS
<1>2. n \in Nat \ {0} /\ n <= Len(pipe) /\ Len(pipe) \in Nat BY <1>1, SizeAssumption DEF Chunk, Inv, TypeOK
<1>3. pipe' \in Seq(Unit) /\ Len(pipe') <= Len(pipe) /\ SubSeq(pipe, 1, n) \in Seq(Unit)
  BY <1>1, <1>2 DEF Inv, TypeOK
<1>4. file' \in Seq(Unit) BY <1>1, <1>3, ConcatProperties DEF Inv, TypeOK
<1>5. TypeOK'
  <2>1. Len(pipe') <= PipeSize BY <1>2, <1>3, SizeAssumption DEF Inv, TypeOK
  <2> QED BY <1>3, <1>4, <2>1 DEF Inv, TypeOK
<1>6. OwnSocketOnly' /\ ParentOK' BY DEF Inv, OwnSocketOnly, Alive, Serving, ParentOK
<1>7. ServedOnce' BY DEF Inv, ServedOnce, Serving, Waiting
<1>8. BufferOK' BY DEF Inv, BufferOK, Serving
<1> QED BY <1>5, <1>6, <1>7, <1>8 DEF Inv

LEMMA NextInv == Inv /\ [Next]_vars => Inv'
<1> SUFFICES ASSUME Inv, [Next]_vars PROVE Inv' OBVIOUS
<1>1. CASE UNCHANGED vars
  <2> USE <1>1 DEF vars, netVars, parentVars, childVars, storeVars
  <2>1. TypeOK' BY DEF Inv, TypeOK
  <2>2. OwnSocketOnly' /\ ParentOK' BY DEF Inv, OwnSocketOnly, Alive, Serving, ParentOK
  <2>3. ServedOnce' BY DEF Inv, ServedOnce, Serving, Waiting
  <2>4. BufferOK' BY DEF Inv, BufferOK, Serving
  <2> QED BY <2>1, <2>2, <2>3, <2>4 DEF Inv
<1>2. CASE ParentStep
  BY <1>2, HandlerInv, AcceptInv, AcceptInterruptedInv, ForkInv, ParentCloseInv DEF ParentStep
<1>3. ASSUME NEW k \in Child, ChildStep(k) PROVE Inv'
  BY <1>3, ChildReadInv, ChildEchoInv, ChildStoreInv, ChildEndInv DEF ChildStep
<1>4. ASSUME NEW c \in Conn, Connect(c) \/ Talk(c) \/ End(c) PROVE Inv'
  BY <1>4, ConnectInv, ClientInv
<1>5. CASE Store BY <1>5, StoreInv
<1> QED BY <1>1, <1>2, <1>3, <1>4, <1>5 DEF Next

-----------------------------------------------------------------------------
(* The file                                                                *)

(* What is stored of each client, by what its child does: nothing of a     *)
(* client nobody serves, all that was read of one whose child reads, all   *)
(* but the buffer while the child echoes and stores, and, if the child was *)
(* killed with it, ever after.                                             *)
StoredBy(k, c) ==
    /\ cpc[k] = "read" => Numbers(c) = 1..taken[c]
    /\ cpc[k] \in {"echo", "store"} => Numbers(c) = 1..(taken[c] - len[k])
    /\ cpc[k] \in {"close", "zombie", "gone"} =>
          \/ Numbers(c) = 1..taken[c]
          \/ client[c] = "reset" /\ len[k] <= taken[c] /\ Numbers(c) = 1..(taken[c] - len[k])
EchoedBy(k, c) ==
    client[c] \in {"open", "finished"} =>
        echoed[c] = IF cpc[k] = "echo" THEN taken[c] - len[k] ELSE taken[c]
FileInv ==
    /\ \A c \in Conn : Ordered(c)
    /\ \A c \in Conn : (\A k \in Child : serves[k] # c) => taken[c] = 0 /\ Numbers(c) = {}
    /\ \A k \in Child : Serving(k) => StoredBy(k, serves[k]) /\ EchoedBy(k, serves[k])

LEMMA InitFile == Init => FileInv
<1> SUFFICES ASSUME Init PROVE FileInv OBVIOUS
<1>1. Len(Stored) = 0
  <2>1. Stored = <<>> \o <<>> BY DEF Init, Stored
  <2> QED BY <2>1
<1>2. \A c \in Conn : From(c) = {} BY <1>1 DEF From
<1>3. \A c \in Conn : Numbers(c) = {} BY <1>2 DEF Numbers
<1>4. \A k \in Child : ~Serving(k) BY ConnAssumption DEF Init, Serving
<1> QED BY <1>2, <1>3, <1>4 DEF FileInv, Ordered, Init

LEMMA StoredSame ==
  ASSUME Stored' = Stored
  PROVE  \A c \in Conn : From(c)' = From(c) /\ Numbers(c)' = Numbers(c) /\ (Ordered(c)' <=> Ordered(c))
<1>1. \A c \in Conn : From(c)' = From(c) BY DEF From
<1> QED BY <1>1 DEF Numbers, Ordered

(* Steps that move no data, other than in the kernel.                      *)
LEMMA NoDataFile ==
  ASSUME Inv, FileInv, Stored' = Stored, UNCHANGED <<taken, echoed, len, serves>>,
         \A k \in Child : cpc'[k] = cpc[k] \/ (cpc[k] = "zombie" /\ cpc'[k] = "gone"),
         \A c \in Conn : client'[c] \in {"open", "finished"} => client[c] \in {"new", "open", "finished"},
         \A c \in Conn : client[c] = "reset" => client'[c] = "reset"
  PROVE  FileInv'
<1>1. \A c \in Conn : Ordered(c)' BY StoredSame DEF FileInv
<1>2. ASSUME NEW c \in Conn, \A k \in Child : serves'[k] # c PROVE taken'[c] = 0 /\ Numbers(c)' = {}
  BY <1>2, StoredSame DEF FileInv
<1>3. ASSUME NEW k \in Child, NEW c \in Conn, serves[k] = c PROVE StoredBy(k, c)' /\ EchoedBy(k, c)'
  <2>1. StoredBy(k, c) /\ EchoedBy(k, c) BY <1>3 DEF FileInv, Serving
  <2>2. client[c] # "new" BY <1>3 DEF Inv, ServedOnce
  <2>3. Numbers(c)' = Numbers(c) BY StoredSame
  <2>4. StoredBy(k, c)' BY <2>1, <2>3 DEF StoredBy
  <2>5. EchoedBy(k, c)' BY <2>1, <2>2 DEF EchoedBy
  <2> QED BY <2>4, <2>5
<1>4. ASSUME NEW k \in Child, Serving(k)' PROVE (StoredBy(k, serves[k]) /\ EchoedBy(k, serves[k]))'
  <2>1. PICK c \in Conn : c = serves[k] /\ c = serves'[k] BY <1>4 DEF Serving
  <2>2. StoredBy(k, c)' /\ EchoedBy(k, c)' BY <1>3, <2>1
  <2> QED BY <2>1, <2>2 DEF StoredBy, EchoedBy
<1> QED BY <1>1, <1>2, <1>4 DEF FileInv

LEMMA ClientFile ==
  ASSUME Inv, FileInv, NEW c \in Conn, Connect(c) \/ Talk(c) \/ End(c) PROVE FileInv'
<1> USE DEF Connect, Talk, End, childVars, storeVars
<1>1. Stored' = Stored BY DEF Stored
<1>2. /\ \A d \in Conn : client'[d] \in {"open", "finished"} => client[d] \in {"new", "open", "finished"}
      /\ \A d \in Conn : client[d] = "reset" => client'[d] = "reset"
  BY DEF Inv, TypeOK
<1> QED BY <1>1, <1>2, NoDataFile

LEMMA ParentFile ==
  ASSUME Inv, FileInv, Handler \/ Accept \/ AcceptInterrupted \/ ParentClose PROVE FileInv'
<1> USE DEF Handler, Accept, AcceptInterrupted, ParentClose, netVars, childVars, storeVars
<1>1. Stored' = Stored /\ UNCHANGED <<client, taken, echoed, len, serves>> BY DEF Stored
<1>2. \A k \in Child : cpc'[k] = cpc[k] \/ (cpc[k] = "zombie" /\ cpc'[k] = "gone")
  BY DEF Recycle, Zombies, Inv, TypeOK
<1> QED BY ONLY Inv, FileInv, <1>1, <1>2, NoDataFile

(* A client that a child begins to serve has been served by none.          *)
LEMMA ForkFile == ASSUME Inv, FileInv, Fork PROVE FileInv'
<1> USE DEF Fork, netVars, storeVars
<1>1. PICK k \in Child : /\ cpc[k] = "none" /\ cpc' = [cpc EXCEPT ![k] = "read"]
                         /\ serves' = [serves EXCEPT ![k] = client_sock]
  OBVIOUS
<1>2. /\ cpc'[k] = "read" /\ serves'[k] = client_sock
      /\ \A j \in Child \ {k} : cpc'[j] = cpc[j] /\ serves'[j] = serves[j]
      /\ UNCHANGED <<client, taken, echoed, len>> /\ Stored' = Stored
  BY <1>1 DEF Inv, TypeOK, Stored
<1>3. serves[k] = NoConn BY <1>1 DEF Inv, ServedOnce
<1>4. client_sock \in Conn =>
        /\ \A j \in Child : serves[j] # client_sock
        /\ taken[client_sock] = 0 /\ Numbers(client_sock) = {} /\ echoed[client_sock] = 0
  <2>1. client_sock \in Conn => \A j \in Child : serves[j] # client_sock BY DEF Inv, ServedOnce
  <2>2. client_sock \in Conn => echoed[client_sock] \in Nat /\ echoed[client_sock] <= taken[client_sock]
    BY DEF Inv, TypeOK, BufferOK
  <2> QED BY <2>1, <2>2 DEF FileInv
<1>5. \A c \in Conn : Ordered(c)' BY <1>2, StoredSame DEF FileInv
<1>6. ASSUME NEW c \in Conn, \A j \in Child : serves'[j] # c PROVE taken'[c] = 0 /\ Numbers(c)' = {}
  <2>1. \A j \in Child : serves[j] # c BY <1>2, <1>3, <1>6, ConnAssumption
  <2> QED BY <1>2, <2>1, StoredSame DEF FileInv
<1>7. ASSUME NEW j \in Child, NEW c \in Conn, c = serves'[j] PROVE StoredBy(j, c)' /\ EchoedBy(j, c)'
  <2>1. Numbers(c)' = Numbers(c) BY <1>2, StoredSame
  <2>2. CASE j = k
    <3>1. 1..taken[c] = {} BY <1>2, <1>4, <1>7, <2>2
    <3> QED BY <1>2, <1>4, <1>7, <2>1, <2>2, <3>1 DEF StoredBy, EchoedBy
  <2>3. CASE j # k
    <3>1. StoredBy(j, c) /\ EchoedBy(j, c) BY <1>2, <1>7, <2>3 DEF FileInv, Serving
    <3> QED BY <1>2, <2>1, <2>3, <3>1 DEF StoredBy, EchoedBy
  <2> QED BY <2>2, <2>3
<1>8. ASSUME NEW j \in Child, Serving(j)' PROVE (StoredBy(j, serves[j]) /\ EchoedBy(j, serves[j]))'
  <2>1. PICK c \in Conn : c = serves'[j] BY <1>8 DEF Serving
  <2>2. StoredBy(j, c)' /\ EchoedBy(j, c)' BY <1>7, <2>1
  <2> QED BY <2>1, <2>2 DEF StoredBy, EchoedBy
<1> QED BY <1>5, <1>6, <1>8 DEF FileInv

(* A child's own step: the others serve other clients, whose account it    *)
(* leaves alone.                                                           *)
LEMMA ChildFile ==
  ASSUME Inv, FileInv, NEW k \in Child, NEW c \in Conn, serves[k] = c, serves' = serves,
         \A j \in Child \ {k} : cpc'[j] = cpc[j] /\ len'[j] = len[j],
         \A d \in Conn \ {c} : /\ client'[d] = client[d] /\ taken'[d] = taken[d] /\ echoed'[d] = echoed[d]
                               /\ Numbers(d)' = Numbers(d) /\ (Ordered(d)' <=> Ordered(d)),
         Ordered(c)', StoredBy(k, c)', EchoedBy(k, c)'
  PROVE  FileInv'
<1>1. \A d \in Conn : Ordered(d)' BY DEF FileInv
<1>2. ASSUME NEW d \in Conn, \A j \in Child : serves'[j] # d PROVE taken'[d] = 0 /\ Numbers(d)' = {}
  <2>1. d # c BY <1>2
  <2> QED BY <1>2, <2>1 DEF FileInv
<1>3. ASSUME NEW j \in Child, NEW d \in Conn, d = serves'[j] PROVE StoredBy(j, d)' /\ EchoedBy(j, d)'
  <2>1. CASE j = k BY <1>3, <2>1
  <2>2. CASE j # k
    <3>1. d # c BY <1>3, <2>2 DEF Inv, ServedOnce, Serving
    <3>2. StoredBy(j, d) /\ EchoedBy(j, d) BY <1>3 DEF FileInv, Serving
    <3> QED BY <2>2, <3>1, <3>2 DEF StoredBy, EchoedBy
  <2> QED BY <2>1, <2>2
<1>4. ASSUME NEW j \in Child, Serving(j)' PROVE (StoredBy(j, serves[j]) /\ EchoedBy(j, serves[j]))'
  <2>1. PICK d \in Conn : d = serves'[j] BY <1>4 DEF Serving
  <2>2. StoredBy(j, d)' /\ EchoedBy(j, d)' BY <1>3, <2>1
  <2> QED BY <2>1, <2>2 DEF StoredBy, EchoedBy
<1> QED BY <1>1, <1>2, <1>4 DEF FileInv

LEMMA ChildReadFile == ASSUME Inv, FileInv, NEW k \in Child, ChildRead(k) PROVE FileInv'
<1> USE DEF ChildRead, storeVars
<1>1. PICK c \in Conn : c = serves[k] BY DEF Serving
<1>2. PICK n \in Chunk : len' = [len EXCEPT ![k] = n] /\ taken' = [taken EXCEPT ![c] = @ + n]
  BY <1>1
<1>3. /\ cpc[k] = "read" /\ cpc'[k] = "echo" /\ \A j \in Child \ {k} : cpc'[j] = cpc[j] /\ len'[j] = len[j]
      /\ len'[k] = n /\ taken'[c] = taken[c] + n /\ \A d \in Conn \ {c} : taken'[d] = taken[d]
      /\ UNCHANGED <<client, echoed, serves>> /\ Stored' = Stored
      /\ taken[c] \in Nat /\ n \in Nat
  BY <1>2, SizeAssumption DEF Goto, Chunk, Inv, TypeOK, Stored
<1>4. Numbers(c) = 1..taken[c] /\ Numbers(c)' = Numbers(c) /\ Ordered(c)'
      /\ (client[c] \in {"open", "finished"} => echoed[c] = taken[c])
  BY <1>1, <1>3, StoredSame DEF FileInv, Serving, StoredBy, EchoedBy
<1>5. taken'[c] - len'[k] = taken[c] BY <1>3
<1>6. StoredBy(k, c)' /\ EchoedBy(k, c)' BY <1>3, <1>4, <1>5 DEF StoredBy, EchoedBy
<1> QED BY <1>1, <1>3, <1>4, <1>6, StoredSame, ChildFile

LEMMA ChildEchoFile == ASSUME Inv, FileInv, NEW k \in Child, ChildEcho(k) PROVE FileInv'
<1> USE DEF ChildEcho, storeVars
<1>1. PICK c \in Conn : c = serves[k] BY DEF Inv, BufferOK, Serving, Goto
<1>2. /\ cpc[k] = "echo" /\ cpc'[k] = "store" /\ \A j \in Child \ {k} : cpc'[j] = cpc[j]
      /\ UNCHANGED <<taken, len, serves>> /\ Stored' = Stored
      /\ \A d \in Conn \ {c} : client'[d] = client[d] /\ echoed'[d] = echoed[d]
      /\ client'[c] \in {"open", "finished"} =>
            client[c] \in {"open", "finished"} /\ echoed'[c] = echoed[c] + len[k]
      /\ taken[c] \in Nat /\ len[k] \in Nat
  BY <1>1, SizeAssumption DEF Goto, Echoed, Inv, TypeOK, Stored
<1>3. Numbers(c) = 1..(taken[c] - len[k]) /\ Numbers(c)' = Numbers(c) /\ Ordered(c)'
      /\ (client[c] \in {"open", "finished"} => echoed[c] = taken[c] - len[k])
  BY <1>1, <1>2, StoredSame DEF FileInv, Serving, StoredBy, EchoedBy
<1>4. StoredBy(k, c)' BY <1>2, <1>3 DEF StoredBy
<1>5. EchoedBy(k, c)'
  <2>1. taken[c] - len[k] + len[k] = taken[c] BY <1>2
  <2> QED BY <1>2, <1>3, <2>1 DEF EchoedBy
<1> QED BY <1>1, <1>2, <1>3, <1>4, <1>5, StoredSame, ChildFile

LEMMA ChildEndFile ==
  ASSUME Inv, FileInv, NEW k \in Child, ChildReadEnd(k) \/ ChildKilled(k) \/ ChildExit(k) PROVE FileInv'
<1> USE DEF ChildReadEnd, ChildKilled, ChildExit, EndOfFile, netVars, storeVars
<1>1. PICK c \in Conn : c = serves[k] BY DEF Inv, BufferOK, Serving, Goto
<1>2. /\ \A j \in Child \ {k} : cpc'[j] = cpc[j]
      /\ \/ cpc[k] = "read" /\ cpc'[k] = "close"
         \/ cpc[k] = "echo" /\ cpc'[k] = "zombie" /\ client[c] = "reset"
         \/ cpc[k] = "close" /\ cpc'[k] = "zombie"
      /\ UNCHANGED <<client, taken, echoed, len, serves>> /\ Stored' = Stored
  BY <1>1 DEF Goto, Inv, TypeOK, Stored
<1>3. StoredBy(k, c) /\ EchoedBy(k, c) /\ Numbers(c)' = Numbers(c) /\ Ordered(c)'
  BY <1>1, <1>2, StoredSame DEF FileInv, Serving
<1>4. cpc[k] = "echo" => len[k] <= taken[c] BY <1>1 DEF Inv, BufferOK
<1>5. StoredBy(k, c)' BY <1>2, <1>3, <1>4 DEF StoredBy
<1>6. EchoedBy(k, c)' BY <1>2, <1>3 DEF EchoedBy
<1> QED BY <1>1, <1>2, <1>3, <1>5, <1>6, StoredSame, ChildFile

(* Writing a buffer to the pipe appends its units to what is stored.       *)
LEMMA StoreAppends ==
  ASSUME Inv, NEW k \in Child, ChildStore(k)
  PROVE  /\ Len(Stored) \in Nat /\ Len(Stored') = Len(Stored) + len[k]
         /\ \A i \in 1..Len(Stored) : Stored'[i] = Stored[i]
         /\ \A i \in 1..len[k] : Stored'[Len(Stored) + i] = <<serves[k], taken[serves[k]] - len[k] + i>>
<1>1. serves[k] \in Conn /\ len[k] \in Nat /\ taken[serves[k]] \in Nat /\ len[k] <= taken[serves[k]]
  BY SizeAssumption DEF ChildStore, Goto, Inv, TypeOK, BufferOK, Serving
<1>2. PICK c \in Conn, m \in Nat, base \in Nat : c = serves[k] /\ m = len[k] /\ base = taken[c] - m
  BY <1>1
<1>3. PICK S : S = Conn \X Nat OBVIOUS
<1>4. file \in Seq(Unit) /\ pipe \in Seq(Unit) /\ file' = file /\ pipe' = pipe \o Units(k)
  BY DEF Inv, TypeOK, ChildStore
<1>5. Stored \in Seq(Unit) BY <1>4 DEF Stored
<1>6. Unit \subseteq S BY <1>3 DEF Unit
<1>7. file \in Seq(S) /\ pipe \in Seq(S) /\ Stored \in Seq(S) BY ONLY <1>4, <1>5, <1>6, SeqMonotonic
<1>8. Units(k) = [i \in 1..m |-> <<c, base + i>>] BY <1>2 DEF Units
<1>9. \A i \in 1..m : <<c, base + i>> \in S BY <1>3
<1>10. Units(k) \in Seq(S) /\ Len(Units(k)) = m
  <2>1. Units(k) \in [1..m -> S] BY ONLY <1>8, <1>9
  <2> QED BY ONLY <2>1, m \in Nat
<1>11. \A i \in 1..m : Units(k)[i] = <<c, base + i>> BY ONLY <1>8
<1>12. Stored' = Stored \o Units(k)
  <2>1. Stored' = file \o (pipe \o Units(k)) BY <1>4 DEF Stored
  <2>2. file \o (pipe \o Units(k)) = (file \o pipe) \o Units(k)
    BY <1>7, <1>10, SMT
  <2> QED BY ONLY <2>1, <2>2 DEF Stored
<1>13. Len(Stored) \in Nat BY <1>5
<1>14. /\ Len(Stored') = Len(Stored) + m
       /\ \A i \in 1..(Len(Stored) + m) : Stored'[i] =
             IF i <= Len(Stored) THEN Stored[i] ELSE Units(k)[i - Len(Stored)]
  BY ONLY <1>7, <1>10, <1>12, ConcatProperties
<1>15. \A i \in 1..Len(Stored) : Stored'[i] = Stored[i] BY <1>13, <1>14
<1>16. ASSUME NEW i \in 1..m PROVE Stored'[Len(Stored) + i] = <<c, base + i>>
  <2>1. /\ Len(Stored) + i \in 1..(Len(Stored) + m) /\ ~(Len(Stored) + i <= Len(Stored))
        /\ Len(Stored) + i - Len(Stored) = i
    BY <1>13
  <2>2. Stored'[Len(Stored) + i] = Units(k)[Len(Stored) + i - Len(Stored)] BY <1>14, <2>1
  <2> QED BY <1>11, <2>1, <2>2
<1> QED BY ONLY <1>2, <1>13, <1>14, <1>15, <1>16

(* The units of the buffer come after all that is stored of their client.  *)
LEMMA ChildStoreFile == ASSUME Inv, FileInv, NEW k \in Child, ChildStore(k) PROVE FileInv'
<1>1. PICK c \in Conn : c = serves[k] BY DEF Inv, BufferOK, Serving, ChildStore, Goto
<1>2. len[k] \in Nat /\ taken[c] \in Nat /\ taken[c] - len[k] \in Nat
  BY <1>1, SizeAssumption DEF ChildStore, Goto, Inv, TypeOK, BufferOK
<1>3. PICK m \in Nat, base \in Nat, N \in Nat : m = len[k] /\ base = taken[c] - m /\ N = Len(Stored)
  <2>1. Len(Stored) \in Nat BY StoreAppends
  <2> QED BY <1>2, <2>1
<1>4. /\ Len(Stored') = N + m
      /\ \A i \in 1..N : Stored'[i] = Stored[i]
      /\ \A i \in 1..m : Stored'[N + i] = <<c, base + i>>
  <2>1. /\ Len(Stored') = Len(Stored) + len[k]
        /\ \A i \in 1..Len(Stored) : Stored'[i] = Stored[i]
        /\ \A i \in 1..len[k] : Stored'[Len(Stored) + i] = <<serves[k], taken[serves[k]] - len[k] + i>>
    BY StoreAppends
  <2> QED BY ONLY <1>1, <1>3, <2>1
<1> USE DEF ChildStore, netVars
<1>5. /\ cpc[k] = "store" /\ cpc'[k] = "read" /\ \A j \in Child \ {k} : cpc'[j] = cpc[j]
      /\ UNCHANGED <<client, taken, echoed, len, serves>>
      /\ base + m = taken[c]
  BY <1>2, <1>3 DEF Goto, Inv, TypeOK
<1>6. Numbers(c) = 1..base /\ (client[c] \in {"open", "finished"} => echoed[c] = taken[c]) /\ Ordered(c)
  BY <1>1, <1>3, <1>5 DEF FileInv, Serving, StoredBy, EchoedBy
<1>7. ASSUME NEW d \in Conn
      PROVE  From(d)' = IF d = c THEN From(d) \cup {N + i : i \in 1..m} ELSE From(d)
  <2>1. \A i \in 1..(N + m) : i \in 1..N \/ (i - N \in 1..m /\ N + (i - N) = i) BY <1>3
  <2>2. \A i \in 1..N : i \in From(d)' <=> i \in From(d) BY <1>3, <1>4 DEF From
  <2>3. \A i \in 1..m : N + i \in From(d)' <=> c = d
    <3>1. \A i \in 1..m : N + i \in 1..(N + m) /\ Stored'[N + i][1] = c BY ONLY <1>3, <1>4
    <3> QED BY <1>4, <3>1 DEF From
  <2>4. From(d)' \subseteq 1..(N + m) /\ From(d) \subseteq 1..N /\ 1..N \subseteq 1..(N + m)
    BY <1>3, <1>4 DEF From
  <2> QED BY ONLY <2>1, <2>2, <2>3, <2>4
<1>8. \A d \in Conn : \A i \in From(d) : i \in 1..N /\ Stored'[i] = Stored[i] BY <1>3, <1>4 DEF From
<1>9. ASSUME NEW d \in Conn \ {c} PROVE Numbers(d)' = Numbers(d) /\ (Ordered(d)' <=> Ordered(d))
  <2>1. From(d)' = From(d) BY <1>7
  <2> QED BY <1>8, <2>1 DEF Numbers, Ordered
<1>10. From(c)' = From(c) \cup {N + i : i \in 1..m} BY <1>7
<1>11. \A i \in From(c) : Stored'[i][2] \in 1..base BY <1>6, <1>8 DEF Numbers
<1>12. \A i \in 1..m : Stored'[N + i][2] = base + i BY <1>4
<1>13. Ordered(c)'
  <2> SUFFICES ASSUME NEW i \in From(c)', NEW j \in From(c)', i < j PROVE Stored'[i][2] < Stored'[j][2]
    BY DEF Ordered
  <2>1. CASE i \in From(c) /\ j \in From(c) BY <1>6, <1>8, <2>1 DEF Ordered
  <2>2. ASSUME i \in From(c), NEW v \in 1..m, j = N + v PROVE Stored'[i][2] < Stored'[j][2]
    BY <1>11, <1>12, <2>2
  <2>3. ASSUME NEW u \in 1..m, i = N + u, j \in From(c) PROVE FALSE BY <1>3, <1>8, <2>3
  <2>4. ASSUME NEW u \in 1..m, NEW v \in 1..m, i = N + u, j = N + v PROVE Stored'[i][2] < Stored'[j][2]
    BY <1>12, <2>4
  <2> QED BY <1>10, <2>1, <2>2, <2>3, <2>4
<1>14. Numbers(c)' = 1..taken[c]
  <2>1. Numbers(c)' = {Stored'[i][2] : i \in From(c)'} BY DEF Numbers
  <2>2. ASSUME NEW x \in Numbers(c)' PROVE x \in 1..(base + m)
    <3>1. PICK i \in From(c)' : x = Stored'[i][2] BY <2>1
    <3>2. CASE i \in From(c)
      <4>1. x \in 1..base BY <1>11, <3>1, <3>2
      <4> QED BY <4>1
    <3>3. ASSUME NEW u \in 1..m, i = N + u PROVE x \in 1..(base + m)
      <4>1. x = base + u BY <1>12, <3>1, <3>3
      <4> QED BY <4>1
    <3> QED BY <1>10, <3>1, <3>2, <3>3
  <2>3. ASSUME NEW x \in 1..(base + m) PROVE x \in Numbers(c)'
    <3>1. CASE x <= base
      <4>0. x \in Numbers(c)
        <5>1. x \in 1..base BY <1>6, <3>1
        <5> QED BY ONLY <1>6, <5>1
      <4>1. PICK i \in From(c) : x = Stored[i][2] BY ONLY <4>0 DEF Numbers
      <4> QED BY <1>8, <1>10, <2>1, <4>1
    <3>2. CASE x > base
      <4>1. PICK i \in 1..m : x = base + i
        <5>1. x - base \in 1..m /\ x = base + (x - base) BY <3>2
        <5> QED BY <5>1
      <4>2. N + i \in From(c)' BY <1>10
      <4> QED BY <1>12, <2>1, <4>1, <4>2
    <3> QED BY <3>1, <3>2
  <2> QED BY <1>5, <2>2, <2>3
<1>15. StoredBy(k, c)' /\ EchoedBy(k, c)' BY <1>5, <1>6, <1>14 DEF StoredBy, EchoedBy
<1> QED BY <1>1, <1>5, <1>9, <1>13, <1>15, ChildFile

(* Two ways to join three sequences, by a name that can be instantiated.   *)
Grouped(a, b, c) == (a \o b) \o c = a \o (b \o c)

LEMMA GroupedIs ==
  ASSUME NEW S, NEW a \in Seq(S), NEW b \in Seq(S), NEW c \in Seq(S)
  PROVE  Grouped(a, b, c)
BY ConcatAssociative DEF Grouped

(* The first elements of a part go to the part before it.                  *)
LEMMA FirstPartMoves ==
  ASSUME NEW S, NEW f \in Seq(S), NEW p \in Seq(S), NEW n \in 1..Len(p)
  PROVE  (f \o SubSeq(p, 1, n)) \o SubSeq(p, n + 1, Len(p)) = f \o p
<1>1. Len(p) \in Nat /\ 1 \in 1..(Len(p) + 1) /\ n \in 0..Len(p) /\ Len(p) \in n..Len(p) OBVIOUS
<1>2. SubSeq(p, 1, n) \in Seq(S) /\ SubSeq(p, n + 1, Len(p)) \in Seq(S) BY <1>1
<1>3. SubSeq(p, 1, n) \o SubSeq(p, n + 1, Len(p)) = p
  <2>1. \A i \in 1..n : SubSeq(p, 1, n)[i] = p[i] BY <1>1
  <2> QED BY <1>1
<1> DEFINE a == SubSeq(p, 1, n)
           b == SubSeq(p, n + 1, Len(p))
<1>4. a \in Seq(S) /\ b \in Seq(S) /\ a \o b = p BY <1>2, <1>3
<1> HIDE DEF a, b
<1>5. Grouped(f, a, b) BY <1>4, GroupedIs
<1> QED BY <1>4, <1>5 DEF a, b, Grouped

(* The process that copies the pipe moves units and leaves their order.    *)
LEMMA StoreFile == ASSUME Inv, FileInv, Store PROVE FileInv'
<1> USE DEF Store, netVars, parentVars, childVars
<1>1. PICK n \in Chunk :
        /\ n = Len(pipe) \/ (n = BUF_SIZE /\ n < Len(pipe))
        /\ file' = file \o SubSeq(pipe, 1, n)
        /\ pipe' = SubSeq(pipe, n + 1, Len(pipe))
  OBVIOUS
<1>2. file \in Seq(Unit) /\ pipe \in Seq(Unit) /\ Len(pipe) \in Nat /\ n \in 1..Len(pipe)
  BY <1>1, SizeAssumption DEF Chunk, Inv, TypeOK
<1>3. Stored' = Stored
  <2>1. Stored' = (file \o SubSeq(pipe, 1, n)) \o SubSeq(pipe, n + 1, Len(pipe)) BY <1>1 DEF Stored
  <2> QED BY ONLY <1>2, <2>1, FirstPartMoves DEF Stored
<1>4. UNCHANGED <<client, taken, echoed, len, serves, cpc>> OBVIOUS
<1> QED BY ONLY Inv, FileInv, <1>3, <1>4, NoDataFile

LEMMA NextFile == Inv /\ FileInv /\ [Next]_vars => FileInv'
<1> SUFFICES ASSUME Inv, FileInv, [Next]_vars PROVE FileInv' OBVIOUS
<1>1. CASE UNCHANGED vars
  <2>1. Stored' = Stored /\ UNCHANGED <<client, taken, echoed, len, serves, cpc>>
    BY <1>1 DEF vars, netVars, childVars, storeVars, Stored
  <2> QED BY ONLY Inv, FileInv, <2>1, NoDataFile
<1>2. CASE ParentStep BY <1>2, ParentFile, ForkFile DEF ParentStep
<1>3. ASSUME NEW k \in Child, ChildStep(k) PROVE FileInv'
  BY <1>3, ChildReadFile, ChildEchoFile, ChildStoreFile, ChildEndFile DEF ChildStep
<1>4. ASSUME NEW c \in Conn, Connect(c) \/ Talk(c) \/ End(c) PROVE FileInv' BY <1>4, ClientFile
<1>5. CASE Store BY <1>5, StoreFile
<1> QED BY <1>1, <1>2, <1>3, <1>4, <1>5 DEF Next

LEMMA InvHolds == Spec => []Inv
BY InitInv, NextInv, PTL DEF Spec

-----------------------------------------------------------------------------
(* Theorems                                                                *)

(* Only its child, and the parent for a moment, holds a client's socket,   *)
(* and every length and pipe content is possible (echo_storeserv.c:61,     *)
(* 88-98): however forks, ends and interrupted accepts fall together.      *)
THEOREM DescriptorsRight == Spec => []DescriptorsConsistent
<1>1. Inv => DescriptorsConsistent BY DEF Inv, DescriptorsConsistent
<1> QED BY <1>1, InvHolds, PTL

(* The file and the pipe hold what was read from each client, once and in  *)
(* its order, and only what has been echoed, whatever the interleaving of  *)
(* the children and the sizes of the reads (echo_storeserv.c:61-65, 88-91).*)
THEOREM FileIsRight == Spec => []FileRight
<1>1. Inv /\ FileInv => FileRight
  <2> SUFFICES ASSUME Inv, FileInv, NEW c \in Conn
               PROVE  /\ Ordered(c)
                      /\ \/ Numbers(c) = 1..taken[c]
                         \/ \E k \in InBuffer(c) : len[k] <= taken[c] /\ Numbers(c) = 1..(taken[c] - len[k])
                      /\ client[c] \in {"open", "finished"} => \A n \in Numbers(c) : n <= echoed[c]
    BY DEF FileRight, StoredOnceInOrder, EchoedBeforeStored
  <2>1. taken[c] \in Nat BY SizeAssumption DEF Inv, TypeOK
  <2>2. Ordered(c) BY DEF FileInv
  <2>3. CASE \A k \in Child : serves[k] # c
    <3>1. taken[c] = 0 /\ Numbers(c) = {} BY <2>3 DEF FileInv
    <3>2. 1..taken[c] = {} BY <3>1
    <3> QED BY <2>2, <3>1, <3>2
  <2>4. ASSUME NEW k \in Child, serves[k] = c
        PROVE  /\ \/ Numbers(c) = 1..taken[c]
                  \/ k \in InBuffer(c) /\ len[k] <= taken[c] /\ Numbers(c) = 1..(taken[c] - len[k])
               /\ client[c] \in {"open", "finished"} => \A n \in Numbers(c) : n <= echoed[c]
    <3>1. StoredBy(k, c) /\ EchoedBy(k, c) BY <2>4 DEF FileInv, Serving
    <3>2. len[k] \in Nat /\ (cpc[k] \in {"echo", "store"} => len[k] <= taken[c])
      BY <2>4, SizeAssumption DEF Inv, TypeOK, BufferOK
    <3>3. cpc[k] \in {"read", "echo", "store", "close", "zombie", "gone"}
      BY <2>4, ConnAssumption DEF Inv, TypeOK, ServedOnce
    <3>4. \/ Numbers(c) = 1..taken[c]
          \/ k \in InBuffer(c) /\ len[k] <= taken[c] /\ Numbers(c) = 1..(taken[c] - len[k])
      BY <2>4, <3>1, <3>2, <3>3 DEF StoredBy, InBuffer
    <3>5. client[c] \in {"open", "finished"} => Numbers(c) \subseteq 1..echoed[c]
      <4>1. CASE cpc[k] = "echo" BY <3>1, <4>1 DEF StoredBy, EchoedBy
      <4>2. CASE cpc[k] # "echo"
        <5>1. 1..(taken[c] - len[k]) \subseteq 1..taken[c] BY <2>1, <3>2
        <5> QED BY <3>1, <3>3, <4>2, <5>1 DEF StoredBy, EchoedBy
      <4> QED BY <4>1, <4>2
    <3> QED BY <3>4, <3>5
  <2> QED BY <2>2, <2>3, <2>4
<1>2. Init => Inv /\ FileInv BY InitInv, InitFile
<1>3. Inv /\ FileInv /\ [Next]_vars => (Inv /\ FileInv)' BY NextInv, NextFile
<1> QED BY <1>1, <1>2, <1>3, PTL DEF Spec
=============================================================================
