------------------------- MODULE ServerPartsProofs -------------------------
(***************************************************************************)
(* Proofs about the two parts of HTTP_server that module Server takes as   *)
(* single steps: the queue of client sockets, for any number of threads,   *)
(* nodes and descriptors (ClientFds), and a worker's connection, for any   *)
(* handlers, requests, files and buffer sizes (HttpConnection).            *)
(***************************************************************************)
EXTENDS ClientFds, HttpConnection, SequenceTheorems, FiniteSetTheorems, WellFoundedInduction,
        TLAPS

-----------------------------------------------------------------------------
(* The queue of client sockets: the inductive invariant                    *)

(* Each kind of thread stays in the code of its own function.              *)
PcOK ==
    /\ \A t \in Enqueuers : pc[t] \in EnqueueSection \cup {"idle", "lock", "unlock"}
    /\ \A t \in Dequeuers : pc[t] \in DequeueSection \cup {"idle", "lock", "unlock", "free"}

(* What the local variables hold between two statements.                   *)
LocalsOK ==
    /\ \A t \in Threads : pc[t] = "link" => succ[node[t]] = NULL /\ nodeFd[node[t]] = fd[t]
    /\ \A t \in Threads : pc[t] = "tail" => chain # <<>> /\ node[t] = chain[Len(chain)]
    /\ \A t \in Dequeuers : pc[t] \in {"idle", "lock", "unlink"} => node[t] = NULL

(* The list's pointers.  While a node is linked but last not yet moved, or *)
(* the only node unlinked but last not yet cleared, last is not described. *)
PointersOK ==
    /\ first = (IF chain = <<>> THEN NULL ELSE chain[1])
    /\ \A i \in 1..Len(chain) :
          succ[chain[i]] = (IF i = Len(chain) THEN NULL ELSE chain[i + 1])
    /\ chain # <<>> /\ (\A t \in Threads : pc[t] # "tail") => last = chain[Len(chain)]
    /\ chain = <<>> /\ (\A t \in Threads : pc[t] # "drop") => last = NULL

Inv == TypeOK /\ PcOK /\ MutualExclusion /\ LocalsOK /\ PointersOK /\ NodeOwnership

-----------------------------------------------------------------------------
(* The linked nodes after the two steps that change the chain.             *)

(* Appending a node to the chain adds it to the linked nodes.              *)
LEMMA LinkedAppend ==
  ASSUME TypeOK, NEW n \in Node, chain' = Append(chain, n)
  PROVE  /\ Len(chain') = Len(chain) + 1
         /\ \A i \in 1..Len(chain) : chain'[i] = chain[i]
         /\ chain'[Len(chain) + 1] = n
         /\ chain' \in Seq(Node)
         /\ chain' # <<>>
         /\ Linked' = Linked \cup {n}
<1>1. chain \in Seq(Node) BY DEF TypeOK
<1>2. /\ Len(chain') = Len(chain) + 1
      /\ \A i \in 1..Len(chain) : chain'[i] = chain[i]
      /\ chain'[Len(chain) + 1] = n
      /\ chain' \in Seq(Node)
      /\ chain' # <<>>
  BY <1>1, AppendProperties
<1>3. Linked' = Linked \cup {n}
  <2>1. Len(chain) \in Nat BY <1>1, LenProperties
  <2>2. 1..Len(chain') = 1..Len(chain) \cup {Len(chain) + 1} BY <1>2, <2>1
  <2>3. Linked' = {chain'[i] : i \in 1..Len(chain')} BY DEF Linked
  <2> QED BY <1>2, <2>1, <2>2, <2>3 DEF Linked
<1> QED BY <1>2, <1>3

(* Removing the head of a chain without repetitions removes exactly that   *)
(* node from the linked nodes.                                             *)
LEMMA LinkedTail ==
  ASSUME TypeOK, NodeOwnership, chain # <<>>, chain' = Tail(chain)
  PROVE  /\ Len(chain) \in Nat \ {0}
         /\ Len(chain') = Len(chain) - 1
         /\ \A i \in 1..Len(chain') : chain'[i] = chain[i + 1]
         /\ chain' \in Seq(Node)
         /\ Linked' = Linked \ {chain[1]}
         /\ chain[1] \in Linked
         /\ chain' = <<>> <=> Len(chain) = 1
<1>1. chain \in Seq(Node) BY DEF TypeOK
<1>2. /\ Len(chain) \in Nat \ {0}
      /\ Len(chain') = Len(chain) - 1
      /\ \A i \in 1..Len(chain') : chain'[i] = chain[i + 1]
      /\ chain' \in Seq(Node)
  BY <1>1, HeadTailProperties, EmptySeq, LenProperties
<1>3. chain' = <<>> <=> Len(chain) = 1
  BY <1>2, EmptySeq
<1>4. chain[1] \in Linked BY <1>2 DEF Linked
<1>5. Linked' = {chain'[i] : i \in 1..Len(chain')} BY DEF Linked
<1>6. ASSUME NEW n \in Linked' PROVE n \in Linked \ {chain[1]}
  <2>1. PICK i \in 1..Len(chain') : n = chain[i + 1] BY <1>2, <1>5, <1>6
  <2>2. i + 1 \in 1..Len(chain) /\ i + 1 # 1 /\ 1 \in 1..Len(chain) BY <1>2, <2>1
  <2>3. chain[i + 1] # chain[1] BY <2>2 DEF NodeOwnership
  <2> QED BY <2>1, <2>2, <2>3 DEF Linked
<1>7. ASSUME NEW n \in Linked, n # chain[1] PROVE n \in Linked'
  <2>1. PICK i \in 1..Len(chain) : n = chain[i] BY <1>7 DEF Linked
  <2>2. i - 1 \in 1..Len(chain') /\ (i - 1) + 1 = i BY <1>2, <1>7, <2>1
  <2>3. chain'[i - 1] = chain[i] BY <1>2, <2>2
  <2> QED BY <1>5, <2>1, <2>2, <2>3
<1> QED BY <1>2, <1>3, <1>4, <1>6, <1>7

-----------------------------------------------------------------------------
(* The invariant is established and preserved.                             *)

(* The empty list with no thread in a call satisfies the invariant.        *)
LEMMA InitInv == Init => Inv
<1> SUFFICES ASSUME Init PROVE Inv OBVIOUS
<1> USE DEF Init, InitialFirst
<1>1. chain = <<>> /\ chain \in Seq(Node) /\ Len(chain) = 0 BY EmptySeq
<1>2. TypeOK BY <1>1 DEF TypeOK, Threads
<1>3. PcOK BY DEF PcOK, Threads
<1>4. MutualExclusion
  BY ThreadsAssumption DEF MutualExclusion, Section, EnqueueSection, DequeueSection, Threads
<1>5. LocalsOK BY DEF LocalsOK, Threads
<1>6. PointersOK BY <1>1 DEF PointersOK
<1>7. Holding = {} BY DEF Holding
<1>8. Linked = {} BY <1>1 DEF Linked
<1>9. NodeOwnership BY <1>1, <1>7, <1>8 DEF NodeOwnership
<1> QED BY <1>2, <1>3, <1>4, <1>5, <1>6, <1>9 DEF Inv

(* Calls and the two lock steps move one thread to code that holds no node *)
(* and leave the heap and the list alone.                                  *)
LEMMA EntryInv ==
  ASSUME Inv, NEW t \in Threads,
         \/ t \in Enqueuers /\ ((\E f \in Fds : CallEnqueue(t, f)) \/ LockEnqueue(t))
         \/ t \in Dequeuers /\ (CallDequeue(t) \/ LockDequeue(t))
  PROVE  Inv'
<1> USE DEF CallEnqueue, CallDequeue, LockEnqueue, LockDequeue, Lock, Unlocked, Goto, heapVars
<1>1. TypeOK' BY DEF Inv, TypeOK, Section, EnqueueSection, DequeueSection
<1>2. PcOK' BY ThreadsAssumption DEF Inv, TypeOK, PcOK, Threads, EnqueueSection, DequeueSection
<1>3. MutualExclusion'
  BY ThreadsAssumption
  DEF Inv, TypeOK, MutualExclusion, Section, EnqueueSection, DequeueSection, Threads
<1>4. LocalsOK' BY ThreadsAssumption DEF Inv, TypeOK, LocalsOK, Threads
<1>5. PointersOK' BY DEF Inv, TypeOK, PointersOK
<1>6. Holding' = Holding BY DEF Inv, TypeOK, Holding
<1>7. NodeOwnership'
  BY <1>6 DEF Inv, NodeOwnership, Linked
<1> QED BY <1>1, <1>2, <1>3, <1>4, <1>5, <1>7 DEF Inv

(* malloc takes a node nobody owns and gives it to the enqueuing thread.    *)
LEMMA MallocInv == ASSUME Inv, NEW t \in Enqueuers, Malloc(t) PROVE Inv'
<1> USE DEF Malloc, Stored, Goto
<1> t \in Threads BY DEF Threads
<1>0. PICK n \in Node \ allocated :
        /\ allocated' = allocated \cup {n}
        /\ node' = [node EXCEPT ![t] = n]
        /\ nodeFd' = [nodeFd EXCEPT ![n] = fd[t]]
        /\ succ' = [succ EXCEPT ![n] = NULL]
  OBVIOUS
<1>1. TypeOK' BY <1>0 DEF Inv, TypeOK, Section, EnqueueSection, DequeueSection
<1>2. PcOK' BY DEF Inv, TypeOK, PcOK, Threads, EnqueueSection, DequeueSection
<1>3. MutualExclusion'
  BY DEF Inv, TypeOK, MutualExclusion, Section, EnqueueSection, DequeueSection, Threads
<1>4. n \notin Linked BY <1>0 DEF Inv, NodeOwnership
<1>5. t \notin Holding BY DEF Holding
<1>6. Holding' = Holding \cup {t} BY <1>0, <1>5 DEF Inv, TypeOK, Holding
<1>7. \A u \in Holding : node'[u] = node[u] /\ node[u] # n
  BY <1>0, <1>5 DEF Inv, TypeOK, NodeOwnership, Holding
<1>8. LocalsOK'
  BY <1>0, <1>7, ThreadsAssumption DEF Inv, TypeOK, LocalsOK, Holding
<1>9. PointersOK'
  <2>1. \A i \in 1..Len(chain) : chain[i] # n BY <1>4 DEF Linked
  <2>2. \A i \in 1..Len(chain) : chain[i] \in Node
    BY ElementOfSeq DEF Inv, TypeOK
  <2>3. \A i \in 1..Len(chain) : succ'[chain[i]] = succ[chain[i]]
    BY <1>0, <2>1, <2>2 DEF Inv, TypeOK
  <2> QED BY <2>3 DEF Inv, TypeOK, PointersOK
<1>10. NodeOwnership'
  <2>1. Linked' = Linked BY DEF Linked
  <2>2. node'[t] = n BY <1>0 DEF Inv, TypeOK
  <2>3. {node'[u] : u \in Holding'} = {node[u] : u \in Holding} \cup {n}
    BY <1>6, <1>7, <2>2
  <2>4. allocated' = Linked' \cup {node'[u] : u \in Holding'}
    BY <1>0, <2>1, <2>3 DEF Inv, NodeOwnership
  <2>5. \A u \in Holding' : node'[u] \in Node \ Linked'
    BY <1>0, <1>4, <1>6, <1>7, <2>1, <2>2 DEF Inv, NodeOwnership
  <2>6. \A u, v \in Holding' : node'[u] = node'[v] => u = v
    BY <1>6, <1>7, <2>2 DEF Inv, NodeOwnership
  <2> QED BY <2>4, <2>5, <2>6 DEF Inv, NodeOwnership
<1> QED BY <1>1, <1>2, <1>3, <1>8, <1>9, <1>10 DEF Inv

(* Link moves ownership of the node from the thread to the list, and the   *)
(* old last node, if there is one, points to it.                           *)
LEMMA LinkInv == ASSUME Inv, NEW t \in Enqueuers, Link(t) PROVE Inv'
<1> USE DEF Link, IsEmpty, Goto
<1> t \in Threads BY DEF Threads
<1> DEFINE n == node[t]
<1>1. t \in Holding /\ n \in Node /\ n \notin Linked
  BY DEF Inv, NodeOwnership, Holding
<1>2. /\ Len(chain') = Len(chain) + 1
      /\ \A i \in 1..Len(chain) : chain'[i] = chain[i]
      /\ chain'[Len(chain) + 1] = n
      /\ chain' \in Seq(Node)
      /\ chain' # <<>>
      /\ Linked' = Linked \cup {n}
  BY <1>1, LinkedAppend DEF Inv
<1>3. Len(chain) \in Nat /\ (chain = <<>> <=> Len(chain) = 0)
  BY LenProperties, EmptySeq DEF Inv, TypeOK
<1>4. \A i \in 1..Len(chain) : chain[i] \in Node /\ chain[i] # n
  BY <1>1, ElementOfSeq DEF Inv, TypeOK, Linked
<1>5. \A u \in Threads : u # t => pc[u] \notin Section
  BY DEF Inv, MutualExclusion, Section, EnqueueSection
<1>6. \A u \in Threads : pc'[u] = IF u = t THEN "tail" ELSE pc[u]
  BY DEF Inv, TypeOK
<1>7. chain # <<>> => last = chain[Len(chain)] /\ last \in Node
  BY <1>3, <1>4, <1>5 DEF Inv, PointersOK, Section, EnqueueSection
<1>8. first = NULL <=> chain = <<>>
  BY <1>3, <1>4, PointerAssumption DEF Inv, PointersOK
<1>9. TypeOK'
  BY <1>1, <1>2 DEF Inv, TypeOK, LinkFirst, LinkLast, Section, EnqueueSection, DequeueSection
<1>10. PcOK' BY DEF Inv, TypeOK, PcOK, Threads, EnqueueSection, DequeueSection
<1>11. MutualExclusion'
  BY DEF Inv, TypeOK, MutualExclusion, Section, EnqueueSection, DequeueSection, Threads
<1>12. LocalsOK'
  BY <1>2, <1>3, <1>5, <1>6, ThreadsAssumption
  DEF Inv, LocalsOK, Section, EnqueueSection, DequeueSection
<1>13. PointersOK'
  <2>1. \E u \in Threads : pc'[u] = "tail" BY <1>6
  <2>2. first' = chain'[1]
    BY <1>1, <1>2, <1>3, <1>8 DEF LinkFirst, LinkLast, Inv, PointersOK
  <2>3. ASSUME NEW i \in 1..Len(chain')
        PROVE  succ'[chain'[i]] = (IF i = Len(chain') THEN NULL ELSE chain'[i + 1])
    <3>1. succ[n] = NULL BY DEF Inv, LocalsOK
    <3>2. CASE chain = <<>>
      BY <1>2, <1>3, <1>8, <3>1, <3>2 DEF LinkFirst, LinkLast
    <3>3. CASE chain # <<>>
      <4>1. succ' = [succ EXCEPT ![last] = n] /\ last = chain[Len(chain)] /\ last # n
        BY <1>3, <1>4, <1>7, <1>8, <3>3 DEF LinkFirst, LinkLast
      <4>2. CASE i = Len(chain) + 1
        BY <1>1, <1>2, <3>1, <4>1, <4>2 DEF Inv, TypeOK
      <4>3. CASE i = Len(chain)
        BY <1>2, <1>3, <1>4, <4>1, <4>3 DEF Inv, TypeOK
      <4>4. CASE i \in 1..(Len(chain) - 1)
        <5>1. chain[i] # chain[Len(chain)] BY <1>3, <4>4 DEF Inv, NodeOwnership
        <5>2. succ[chain[i]] = chain[i + 1] BY <1>3, <4>4 DEF Inv, PointersOK
        <5> QED BY <1>2, <1>3, <1>4, <4>1, <4>4, <5>1, <5>2 DEF Inv, TypeOK
      <4> QED BY <1>2, <1>3, <4>2, <4>3, <4>4
    <3> QED BY <3>2, <3>3
  <2> QED BY <1>2, <2>1, <2>2, <2>3 DEF PointersOK
<1>14. NodeOwnership'
  <2>1. Holding' = Holding \ {t} BY <1>6 DEF Holding
  <2>2. \A i, j \in 1..Len(chain') : chain'[i] = chain'[j] => i = j
    BY <1>2, <1>3, <1>4 DEF Inv, NodeOwnership
  <2>3. \A u \in Holding' : node[u] \in Node /\ node[u] \notin Linked'
    BY <1>1, <1>2, <2>1 DEF Inv, NodeOwnership
  <2>4. allocated' = Linked' \cup {node'[u] : u \in Holding'}
    BY <1>1, <1>2, <2>1 DEF Inv, NodeOwnership
  <2>5. \A u, v \in Holding' : node'[u] = node'[v] => u = v
    BY <2>1 DEF Inv, NodeOwnership
  <2> QED BY <2>2, <2>3, <2>4, <2>5 DEF NodeOwnership
<1> QED BY <1>9, <1>10, <1>11, <1>12, <1>13, <1>14 DEF Inv

(* Moving last to the linked node completes the list.                      *)
LEMMA SetLastInv == ASSUME Inv, NEW t \in Enqueuers, SetLast(t) PROVE Inv'
<1> USE DEF SetLast, Goto, heapVars
<1> t \in Threads BY DEF Threads
<1>1. \A u \in Threads : pc'[u] = IF u = t THEN "unlock" ELSE pc[u]
  BY DEF Inv, TypeOK
<1>2. TypeOK' BY DEF Inv, TypeOK, Section, EnqueueSection, DequeueSection
<1>3. PcOK' BY DEF Inv, TypeOK, PcOK, Threads, EnqueueSection, DequeueSection
<1>4. MutualExclusion'
  BY DEF Inv, TypeOK, MutualExclusion, Section, EnqueueSection, DequeueSection, Threads
<1>5. LocalsOK' BY <1>1 DEF Inv, TypeOK, LocalsOK, Threads
<1>6. PointersOK'
  BY <1>1 DEF Inv, PointersOK, LocalsOK
<1>7. t \notin Dequeuers BY ThreadsAssumption
<1>8. Holding' = Holding BY <1>1, <1>7 DEF Holding
<1>9. NodeOwnership' BY <1>8 DEF Inv, NodeOwnership, Linked
<1> QED BY <1>2, <1>3, <1>4, <1>5, <1>6, <1>9 DEF Inv

(* Releasing the mutex leaves a dequeue only with the node it unlinked.    *)
LEMMA UnlockInv == ASSUME Inv, NEW t \in Threads, Unlock(t) PROVE Inv'
<1> USE DEF Unlock, Goto, heapVars
<1>1. /\ pc[t] = "unlock"
      /\ \A u \in Threads \ {t} : pc'[u] = pc[u] /\ node'[u] = node[u]
      /\ t \in Holding => pc'[t] = "free" /\ node'[t] = node[t]
      /\ t \notin Holding => pc'[t] = "idle" /\ node'[t] = NULL
  BY DEF Inv, TypeOK, Holding
<1>2. TypeOK' BY DEF Inv, TypeOK, Section, EnqueueSection, DequeueSection
<1>3. PcOK' BY ThreadsAssumption DEF Inv, TypeOK, PcOK, Threads, EnqueueSection, DequeueSection
<1>4. \A u \in Threads \ {t} : pc[u] \notin Section
  BY <1>1 DEF Inv, MutualExclusion, Section
<1>5. MutualExclusion'
  BY <1>1, <1>4, ThreadsAssumption
  DEF Inv, MutualExclusion, Section, EnqueueSection, DequeueSection, Threads
<1>6. LocalsOK' BY <1>1 DEF Inv, LocalsOK, Threads
<1>7. PointersOK' BY <1>1, <1>4 DEF Inv, PointersOK, Section, EnqueueSection, DequeueSection
<1>8. Holding' = Holding BY <1>1 DEF Holding
<1>9. \A u \in Holding : node'[u] = node[u] BY <1>1 DEF Holding
<1>10. NodeOwnership' BY <1>8, <1>9 DEF Inv, NodeOwnership, Linked
<1> QED BY <1>2, <1>3, <1>5, <1>6, <1>7, <1>10 DEF Inv

(* A dequeue of the empty queue changes nothing but its result.            *)
LEMMA FindEmptyInv == ASSUME Inv, NEW t \in Dequeuers, FindEmpty(t) PROVE Inv'
<1> USE DEF FindEmpty, IsEmpty, EmptyExit, Goto, heapVars
<1> t \in Threads BY DEF Threads
<1>1. \A u \in Threads : pc'[u] = IF u = t THEN "unlock" ELSE pc[u]
  BY DEF Inv, TypeOK
<1>2. TypeOK' BY DEF Inv, TypeOK, Section, EnqueueSection, DequeueSection
<1>3. PcOK' BY ThreadsAssumption DEF Inv, TypeOK, PcOK, Threads, EnqueueSection, DequeueSection
<1>4. MutualExclusion'
  BY DEF Inv, TypeOK, MutualExclusion, Section, EnqueueSection, DequeueSection, Threads
<1>5. LocalsOK' BY <1>1 DEF Inv, TypeOK, LocalsOK, Threads
<1>6. PointersOK' BY <1>1 DEF Inv, PointersOK
<1>7. Holding' = Holding BY <1>1 DEF Inv, LocalsOK, Holding
<1>8. NodeOwnership' BY <1>7 DEF Inv, NodeOwnership, Linked
<1> QED BY <1>2, <1>3, <1>4, <1>5, <1>6, <1>8 DEF Inv

(* Unlink moves ownership of the first node from the list to the thread.   *)
LEMMA UnlinkInv == ASSUME Inv, NEW t \in Dequeuers, Unlink(t) PROVE Inv'
<1> USE DEF Unlink, IsEmpty, Goto, heapVars
<1> t \in Threads BY DEF Threads
<1>1. chain # <<>> /\ first = chain[1] BY DEF Inv, PointersOK
<1>2. /\ Len(chain) \in Nat \ {0}
      /\ Len(chain') = Len(chain) - 1
      /\ \A i \in 1..Len(chain') : chain'[i] = chain[i + 1]
      /\ chain' \in Seq(Node)
      /\ Linked' = Linked \ {first}
      /\ first \in Linked
      /\ chain' = <<>> <=> Len(chain) = 1
  BY <1>1, LinkedTail DEF Inv
<1>3. \A i \in 1..Len(chain) : chain[i] \in Node
  BY ElementOfSeq DEF Inv, TypeOK
<1>4. first \in Node BY <1>1, <1>2, <1>3
<1>5. /\ \A u \in Threads : pc'[u] = IF u = t THEN "drop" ELSE pc[u]
      /\ \A u \in Threads : node'[u] = IF u = t THEN first ELSE node[u]
  BY DEF Inv, TypeOK
<1>6. \A u \in Threads \ {t} : pc[u] \notin Section
  BY DEF Inv, MutualExclusion, Section, DequeueSection
<1>7. TypeOK' BY <1>2, <1>4 DEF Inv, TypeOK, Section, EnqueueSection, DequeueSection
<1>8. PcOK' BY ThreadsAssumption DEF Inv, TypeOK, PcOK, Threads, EnqueueSection, DequeueSection
<1>9. MutualExclusion'
  BY DEF Inv, TypeOK, MutualExclusion, Section, EnqueueSection, DequeueSection, Threads
<1>10. LocalsOK'
  BY <1>5, <1>6 DEF Inv, LocalsOK, Section, EnqueueSection, DequeueSection, Threads
<1>11. PointersOK'
  <2>1. first' = succ[chain[1]] BY <1>1
  <2>2. succ[chain[1]] = IF Len(chain) = 1 THEN NULL ELSE chain[2]
    <3>1. 1 \in 1..Len(chain) /\ 1 + 1 = 2 BY <1>2
    <3>2. succ[chain[1]] = (IF 1 = Len(chain) THEN NULL ELSE chain[1 + 1])
      BY <3>1 DEF Inv, PointersOK
    <3> QED BY <3>1, <3>2
  <2>3. first' = IF chain' = <<>> THEN NULL ELSE chain'[1]
    BY <1>2, <2>1, <2>2
  <2>4. ASSUME NEW i \in 1..Len(chain')
        PROVE  succ'[chain'[i]] = (IF i = Len(chain') THEN NULL ELSE chain'[i + 1])
    <3>1. i + 1 \in 1..Len(chain) /\ (i = Len(chain') <=> i + 1 = Len(chain))
      BY <1>2
    <3>2. succ[chain[i + 1]] = (IF i + 1 = Len(chain) THEN NULL ELSE chain[(i + 1) + 1])
      BY <3>1 DEF Inv, PointersOK
    <3>3. i # Len(chain') => chain'[i + 1] = chain[(i + 1) + 1]
      <4>1. Len(chain') \in Nat BY <1>2
      <4>2. i # Len(chain') => i + 1 \in 1..Len(chain') BY <4>1
      <4> QED BY <1>2, <4>2
    <3>4. chain'[i] = chain[i + 1] BY <1>2
    <3> QED BY <3>1, <3>2, <3>3, <3>4
  <2>5. (\A u \in Threads : pc[u] # "tail")
    BY <1>6 DEF Section, EnqueueSection
  <2>6. chain' # <<>> => last' = chain'[Len(chain')]
    <3>1. last' = chain[Len(chain)] BY <1>1, <2>5 DEF Inv, PointersOK
    <3>2. chain' # <<>> => Len(chain') \in 1..Len(chain') /\ Len(chain') + 1 = Len(chain)
      BY <1>2
    <3>3. chain' # <<>> => chain'[Len(chain')] = chain[Len(chain)] BY <1>2, <3>2
    <3> QED BY <3>1, <3>3
  <2> QED BY <1>5, <2>3, <2>4, <2>6 DEF PointersOK
<1>12. NodeOwnership'
  <2>1. t \notin Holding BY DEF Holding
  <2>2. Holding' = Holding \cup {t} BY <1>5 DEF Holding
  <2>3. \A u \in Holding : node'[u] = node[u] /\ node[u] # first /\ node[u] \notin Linked
    BY <1>2, <1>5, <2>1 DEF Inv, NodeOwnership, Holding
  <2>4. {node'[u] : u \in Holding'} = {node[u] : u \in Holding} \cup {first}
    BY <1>5, <2>2, <2>3
  <2>5. allocated' = Linked' \cup {node'[u] : u \in Holding'}
    BY <1>2, <2>4 DEF Inv, NodeOwnership
  <2>6. \A i, j \in 1..Len(chain') : chain'[i] = chain'[j] => i = j
    <3>1. \A i \in 1..Len(chain') : i + 1 \in 1..Len(chain) /\ chain'[i] = chain[i + 1]
      BY <1>2
    <3> QED BY <3>1 DEF Inv, NodeOwnership
  <2>7. \A u \in Holding' : node'[u] \in Node \ Linked'
    BY <1>2, <1>4, <1>5, <2>2, <2>3 DEF Inv, NodeOwnership
  <2>8. \A u, v \in Holding' : node'[u] = node'[v] => u = v
    BY <1>5, <2>2, <2>3 DEF Inv, NodeOwnership
  <2> QED BY <2>5, <2>6, <2>7, <2>8 DEF NodeOwnership
<1> QED BY <1>7, <1>8, <1>9, <1>10, <1>11, <1>12 DEF Inv

(* last is cleared exactly when the unlinked node was the only one.        *)
LEMMA DropLastInv == ASSUME Inv, NEW t \in Dequeuers, DropLast(t) PROVE Inv'
<1> USE DEF DropLast, LastLeft, IsEmpty, Goto, heapVars
<1> t \in Threads BY DEF Threads
<1>1. \A u \in Threads : pc'[u] = IF u = t THEN "unlock" ELSE pc[u]
  BY DEF Inv, TypeOK
<1>2. TypeOK' BY DEF Inv, TypeOK, Section, EnqueueSection, DequeueSection
<1>3. PcOK' BY ThreadsAssumption DEF Inv, TypeOK, PcOK, Threads, EnqueueSection, DequeueSection
<1>4. MutualExclusion'
  BY DEF Inv, TypeOK, MutualExclusion, Section, EnqueueSection, DequeueSection, Threads
<1>5. LocalsOK' BY <1>1 DEF Inv, TypeOK, LocalsOK, Threads
<1>6. \A u \in Threads \ {t} : pc[u] \notin Section
  BY DEF Inv, MutualExclusion, Section, DequeueSection
<1>7. chain # <<>> => first # NULL
  <2>1. chain # <<>> => 1 \in 1..Len(chain)
    BY LenProperties, EmptySeq DEF Inv, TypeOK
  <2>2. chain # <<>> => chain[1] \in Node BY <2>1, ElementOfSeq DEF Inv, TypeOK
  <2> QED BY <2>2, PointerAssumption DEF Inv, PointersOK
<1>8. PointersOK'
  BY <1>1, <1>6, <1>7 DEF Inv, PointersOK, Section, EnqueueSection, DequeueSection
<1>9. node[t] # NULL
  BY PointerAssumption DEF Inv, NodeOwnership, Holding
<1>10. Holding' = Holding BY <1>1, <1>9 DEF Inv, Holding
<1>11. NodeOwnership' BY <1>10 DEF Inv, NodeOwnership, Linked
<1> QED BY <1>2, <1>3, <1>4, <1>5, <1>8, <1>11 DEF Inv

(* Outside the critical section, free returns a node only its thread owns. *)
LEMMA FreeInv == ASSUME Inv, NEW t \in Dequeuers, Free(t) PROVE Inv'
<1> USE DEF Free, Freed, Goto
<1> t \in Threads BY DEF Threads
<1>1. \A u \in Threads : /\ pc'[u] = IF u = t THEN "idle" ELSE pc[u]
                        /\ node'[u] = IF u = t THEN NULL ELSE node[u]
  BY DEF Inv, TypeOK
<1>2. TypeOK' BY DEF Inv, TypeOK, Section, EnqueueSection, DequeueSection
<1>3. PcOK' BY ThreadsAssumption DEF Inv, TypeOK, PcOK, Threads, EnqueueSection, DequeueSection
<1>4. MutualExclusion'
  BY ThreadsAssumption
  DEF Inv, TypeOK, MutualExclusion, Section, EnqueueSection, DequeueSection, Threads
<1>5. LocalsOK' BY <1>1 DEF Inv, TypeOK, LocalsOK, Threads
<1>6. PointersOK' BY <1>1 DEF Inv, PointersOK
<1>7. t \in Holding BY DEF Holding
<1>8. Holding' = Holding \ {t} BY <1>1 DEF Holding
<1>9. \A u \in Holding' : node'[u] = node[u] /\ node[u] # node[t]
  BY <1>1, <1>7, <1>8 DEF Inv, NodeOwnership, Holding
<1>10. {node'[u] : u \in Holding'} = {node[u] : u \in Holding} \ {node[t]}
  BY <1>7, <1>8, <1>9
<1>11. node[t] \notin Linked BY <1>7 DEF Inv, NodeOwnership
<1>12. NodeOwnership'
  <2>1. Linked' = Linked BY DEF Linked
  <2>2. allocated' = Linked' \cup {node'[u] : u \in Holding'}
    BY <1>10, <1>11, <2>1 DEF Inv, NodeOwnership
  <2> QED BY <1>8, <1>9, <2>1, <2>2 DEF Inv, NodeOwnership
<1> QED BY <1>2, <1>3, <1>4, <1>5, <1>6, <1>12 DEF Inv

(* Every step of every thread preserves the invariant.                     *)
LEMMA NextInv == Inv /\ [Next]_vars => Inv'
<1> SUFFICES ASSUME Inv, [Next]_vars PROVE Inv' OBVIOUS
<1>1. ASSUME NEW t \in Enqueuers, (\E f \in Fds : CallEnqueue(t, f)) \/ EnqueueStep(t)
      PROVE  Inv'
  <2>1. t \in Threads BY DEF Threads
  <2> QED BY <1>1, <2>1, EntryInv, MallocInv, LinkInv, SetLastInv, UnlockInv DEF EnqueueStep
<1>2. ASSUME NEW t \in Dequeuers, CallDequeue(t) \/ DequeueStep(t)
      PROVE  Inv'
  <2>1. t \in Threads BY DEF Threads
  <2> QED BY <1>2, <2>1, EntryInv, FindEmptyInv, UnlinkInv, DropLastInv, UnlockInv, FreeInv
          DEF DequeueStep
<1>3. CASE UNCHANGED vars
  BY <1>3 DEF vars, heapVars, Inv, TypeOK, PcOK, MutualExclusion, LocalsOK, PointersOK,
              NodeOwnership, Linked, Holding
<1> QED BY <1>1, <1>2, <1>3 DEF Next

(* The invariant holds in every reachable state.                           *)
LEMMA Invariance == Spec => []Inv
BY InitInv, NextInv, PTL DEF Spec

(* The state always has the declared types.                                *)
THEOREM TypeCorrect == Spec => []TypeOK
<1>1. Inv => TypeOK BY DEF Inv
<1> QED BY <1>1, Invariance, PTL

(* At most one thread is ever inside clientFds_enqueue's or                *)
(* clientFds_dequeue's critical section, and it is the mutex's holder.     *)
THEOREM MutexCorrect == Spec => []MutualExclusion
<1>1. Inv => MutualExclusion BY DEF Inv
<1> QED BY <1>1, Invariance, PTL

(* No node is leaked, shared, linked twice or freed while reachable.       *)
THEOREM HeapCorrect == Spec => []NodeOwnership
<1>1. Inv => NodeOwnership BY DEF Inv
<1> QED BY <1>1, Invariance, PTL

(* The pointers always realise the list of the linked nodes.               *)
THEOREM ListCorrect == Spec => []ListShape
<1>1. Inv => ListShape
  BY DEF Inv, PointersOK, ListShape
<1> QED BY <1>1, Invariance, PTL

-----------------------------------------------------------------------------
(* The list implements the abstract queue.                                 *)

(* Reading the descriptors along a chain of nodes gives a sequence indexed *)
(* like the chain.                                                         *)
LEMMA ReadChain ==
  ASSUME NEW c \in Seq(Node), NEW f \in [Node -> Fds \cup {NoFd}], NEW q,
         q = [i \in 1..Len(c) |-> f[c[i]]]
  PROVE  /\ Len(c) \in Nat
         /\ \A i \in 1..Len(c) : c[i] \in Node
         /\ q \in Seq(Fds \cup {NoFd})
         /\ Len(q) = Len(c)
         /\ \A i \in 1..Len(c) : q[i] = f[c[i]]
<1>1. Len(c) \in Nat /\ \A i \in 1..Len(c) : c[i] \in Node
  BY LenProperties, ElementOfSeq
<1>2. \A i \in 1..Len(c) : f[c[i]] \in Fds \cup {NoFd} BY <1>1
<1>3. q \in Seq(Fds \cup {NoFd}) BY <1>1, <1>2, SMT
<1>4. DOMAIN q = 1..Len(c) OBVIOUS
<1>5. Len(q) = Len(c) BY <1>1, <1>3, <1>4, LenProperties
<1> QED BY <1>1, <1>3, <1>5

(* A step that keeps the chain and the contents of its nodes keeps the     *)
(* abstract queue.                                                         *)
LEMMA QueuedUnchanged ==
  ASSUME TypeOK, chain' = chain, \A i \in 1..Len(chain) : nodeFd'[chain[i]] = nodeFd[chain[i]]
  PROVE  Queued' = Queued
BY ReadChain DEF Queued, TypeOK

(* Link is the enqueue of the abstract queue.                              *)
LEMMA LinkEnqueues ==
  ASSUME Inv, Inv', NEW t \in Enqueuers, Link(t)
  PROVE  Queued' = Append(Queued, fd[t])
<1> DEFINE S == Fds \cup {NoFd}
<1> t \in Threads BY DEF Threads
<1>1. /\ chain' = Append(chain, node[t]) /\ nodeFd' = nodeFd
      /\ node[t] \in Node /\ nodeFd[node[t]] = fd[t] /\ fd[t] \in S
  BY DEF Inv, NodeOwnership, Holding, LocalsOK, TypeOK, Link, Goto
<1>2. /\ Len(chain') = Len(chain) + 1
      /\ \A i \in 1..Len(chain) : chain'[i] = chain[i]
      /\ chain'[Len(chain) + 1] = node[t]
  BY <1>1, LinkedAppend DEF Inv
<1>3. /\ Len(chain) \in Nat /\ Queued \in Seq(S) /\ Len(Queued) = Len(chain)
      /\ \A i \in 1..Len(chain) : Queued[i] = nodeFd[chain[i]]
  BY ReadChain DEF Inv, TypeOK, Queued
<1>4. /\ Queued' \in Seq(S) /\ Len(Queued') = Len(chain')
      /\ \A i \in 1..Len(chain') : Queued'[i] = nodeFd'[chain'[i]]
  BY ReadChain DEF Inv, TypeOK, Queued
<1>5. /\ Append(Queued, fd[t]) \in Seq(S)
      /\ Len(Append(Queued, fd[t])) = Len(Queued) + 1
      /\ \A i \in 1..Len(Queued) : Append(Queued, fd[t])[i] = Queued[i]
      /\ Append(Queued, fd[t])[Len(Queued) + 1] = fd[t]
  BY <1>1, <1>3, AppendProperties
<1>6. ASSUME NEW i \in 1..Len(Queued') PROVE Queued'[i] = Append(Queued, fd[t])[i]
  <2>1. CASE i = Len(chain) + 1 BY <1>1, <1>2, <1>3, <1>4, <1>5, <2>1
  <2>2. CASE i \in 1..Len(chain) BY <1>1, <1>2, <1>3, <1>4, <1>5, <2>2
  <2> QED BY <1>2, <1>3, <1>4, <2>1, <2>2
<1> QED
  <2>1. Len(Queued') = Len(Append(Queued, fd[t])) BY <1>2, <1>3, <1>4, <1>5
  <2> QED BY <1>4, <1>5, <1>6, <2>1, SeqEqual

(* Unlink is the dequeue of the abstract queue.                            *)
LEMMA UnlinkDequeues ==
  ASSUME Inv, Inv', NEW t \in Dequeuers, Unlink(t)
  PROVE  /\ Queued # <<>>
         /\ nodeFd[first] = Head(Queued)
         /\ Queued' = Tail(Queued)
<1> DEFINE S == Fds \cup {NoFd}
<1>1. /\ chain # <<>> /\ first = chain[1] /\ chain' = Tail(chain) /\ nodeFd' = nodeFd
  BY DEF Inv, PointersOK, Unlink, IsEmpty, heapVars
<1>2. /\ Len(chain) \in Nat \ {0}
      /\ Len(chain') = Len(chain) - 1
      /\ \A i \in 1..Len(chain') : chain'[i] = chain[i + 1]
  BY <1>1, LinkedTail DEF Inv
<1>3. /\ Queued \in Seq(S) /\ Len(Queued) = Len(chain)
      /\ \A i \in 1..Len(chain) : Queued[i] = nodeFd[chain[i]]
  BY ReadChain DEF Inv, TypeOK, Queued
<1>4. /\ Queued' \in Seq(S) /\ Len(Queued') = Len(chain')
      /\ \A i \in 1..Len(chain') : Queued'[i] = nodeFd'[chain'[i]]
  BY ReadChain DEF Inv, TypeOK, Queued
<1>5. Queued # <<>> BY <1>2, <1>3, EmptySeq
<1>6. Queued[1] = nodeFd[first] BY <1>1, <1>2, <1>3
<1>7. /\ Tail(Queued) \in Seq(S)
      /\ Len(Tail(Queued)) = Len(Queued) - 1
      /\ \A i \in 1..Len(Tail(Queued)) : Tail(Queued)[i] = Queued[i + 1]
  BY <1>3, <1>5, HeadTailProperties
<1>8. Queued' = Tail(Queued)
  <2>1. Len(Queued') = Len(Tail(Queued)) BY <1>2, <1>3, <1>4, <1>7
  <2>2. ASSUME NEW i \in 1..Len(Queued') PROVE Queued'[i] = Tail(Queued)[i]
    <3>1. i \in 1..Len(chain') /\ i + 1 \in 1..Len(chain) BY <1>2, <1>4
    <3>2. Queued'[i] = nodeFd[chain[i + 1]] BY <1>1, <1>2, <1>4, <3>1
    <3> QED BY <1>3, <1>7, <2>1, <3>1, <3>2
  <2> QED BY <1>4, <1>7, <2>1, <2>2, SeqEqual
<1> QED BY <1>3, <1>5, <1>6, <1>8

(* Steps that do not relink keep the abstract queue.                       *)
LEMMA OtherStepsKeepQueue ==
  ASSUME Inv, chain' = chain,
         UNCHANGED nodeFd \/ (\E t \in Enqueuers : Malloc(t))
  PROVE  Queued' = Queued
<1>1. \A i \in 1..Len(chain) : chain[i] \in Linked /\ Linked \subseteq allocated
  BY DEF Linked, Inv, NodeOwnership
<1>2. \A i \in 1..Len(chain) : nodeFd'[chain[i]] = nodeFd[chain[i]]
  BY <1>1, ElementOfSeq DEF Malloc, Stored, Inv, TypeOK
<1> QED BY <1>2, QueuedUnchanged DEF Inv

(* The initial list is the empty abstract queue with no call made.         *)
LEMMA RefinesInit == Init => Abstract!Init
<1> SUFFICES ASSUME Init PROVE Abstract!Init OBVIOUS
<1>1. chain = <<>> /\ Len(chain) = 0 BY EmptySeq DEF Init
<1>2. Queued = <<>> BY <1>1 DEF Queued
<1>3. Pending = [t \in Threads |-> "none"] BY DEF Init, Pending
<1> QED BY <1>2, <1>3 DEF Abstract!Init, Abstract!Threads, Threads, Init

(* A step of an enqueuing thread is an abstract enqueue step or a stutter. *)
LEMMA RefinesEnqueuer ==
  ASSUME Inv, Inv', NEW t \in Enqueuers, (\E f \in Fds : CallEnqueue(t, f)) \/ EnqueueStep(t)
  PROVE  Abstract!Next \/ UNCHANGED Abstract!vars
<1> USE DEF Abstract!vars, IsEmpty, EmptyExit, Goto, heapVars
<1> t \in Threads /\ pc \in [Threads -> Section \cup {"idle", "lock", "free"}]
  BY DEF Threads, Inv, TypeOK
<1>1. CASE \E f \in Fds : CallEnqueue(t, f)
  <2>1. PICK f \in Fds : CallEnqueue(t, f) BY <1>1
  <2>2. Queued' = Queued BY <2>1, OtherStepsKeepQueue DEF CallEnqueue
  <2>3. Pending[t] = "none" /\ Pending' = [Pending EXCEPT ![t] = "pending"]
    BY <2>1 DEF CallEnqueue, Pending
  <2>4. Abstract!CallEnqueue(t, f) BY <2>1, <2>2, <2>3 DEF CallEnqueue, Abstract!CallEnqueue
  <2> QED BY <2>4 DEF Abstract!Next
<1>2. CASE LockEnqueue(t) \/ Malloc(t)
  <2>1. Queued' = Queued
    BY <1>2, OtherStepsKeepQueue DEF LockEnqueue, Lock, Malloc
  <2>2. Pending' = Pending BY <1>2 DEF LockEnqueue, Lock, Malloc, Pending
  <2> QED BY <1>2, <2>1, <2>2 DEF LockEnqueue, Lock, Malloc
<1>3. CASE Link(t)
  <2>1. Queued' = Append(Queued, fd[t]) BY <1>3, LinkEnqueues
  <2>2. Pending[t] = "pending" /\ Pending' = [Pending EXCEPT ![t] = "done"]
    BY <1>3 DEF Link, Pending
  <2>3. Abstract!Enqueue(t) BY <1>3, <2>1, <2>2 DEF Link, Abstract!Enqueue
  <2> QED BY <2>3 DEF Abstract!Next
<1>4. CASE SetLast(t)
  <2>1. Queued' = Queued BY <1>4, OtherStepsKeepQueue DEF SetLast
  <2>2. Pending' = Pending BY <1>4 DEF SetLast, Pending
  <2> QED BY <1>4, <2>1, <2>2 DEF SetLast
<1>5. CASE Unlock(t)
  <2>1. Queued' = Queued BY <1>5, OtherStepsKeepQueue DEF Unlock
  <2>2. Pending[t] = "done" /\ Pending' = [Pending EXCEPT ![t] = "none"]
    BY <1>5, ThreadsAssumption DEF Unlock, Pending
  <2>3. Abstract!Return(t) BY <1>5, <2>1, <2>2 DEF Unlock, Abstract!Return
  <2> QED BY <2>3 DEF Abstract!Next
<1> QED BY <1>1, <1>2, <1>3, <1>4, <1>5 DEF EnqueueStep

(* A step of a dequeuing thread is an abstract dequeue step or a stutter.  *)
LEMMA RefinesDequeuer ==
  ASSUME Inv, Inv', NEW t \in Dequeuers, CallDequeue(t) \/ DequeueStep(t)
  PROVE  Abstract!Next \/ UNCHANGED Abstract!vars
<1> USE DEF Abstract!vars, IsEmpty, EmptyExit, Goto, heapVars
<1> t \in Threads /\ pc \in [Threads -> Section \cup {"idle", "lock", "free"}]
  BY DEF Threads, Inv, TypeOK
<1>1. CASE CallDequeue(t)
  <2>1. Queued' = Queued BY <1>1, OtherStepsKeepQueue DEF CallDequeue
  <2>2. Pending[t] = "none" /\ Pending' = [Pending EXCEPT ![t] = "pending"]
    BY <1>1 DEF CallDequeue, Pending
  <2>3. Abstract!CallDequeue(t) BY <1>1, <2>1, <2>2 DEF CallDequeue, Abstract!CallDequeue
  <2> QED BY <2>3 DEF Abstract!Next
<1>2. CASE LockDequeue(t) \/ DropLast(t)
  <2>1. Queued' = Queued BY <1>2, OtherStepsKeepQueue DEF LockDequeue, Lock, DropLast
  <2>2. Pending' = Pending BY <1>2 DEF LockDequeue, Lock, DropLast, Pending
  <2> QED BY <1>2, <2>1, <2>2 DEF LockDequeue, Lock, DropLast
<1>3. CASE FindEmpty(t)
  <2>1. Queued' = Queued BY <1>3, OtherStepsKeepQueue DEF FindEmpty
  <2>2. Pending[t] = "pending" /\ Pending' = [Pending EXCEPT ![t] = "done"]
    BY <1>3 DEF FindEmpty, Pending
  <2>3. chain = <<>>
    <3>1. chain # <<>> => 1 \in 1..Len(chain)
      BY LenProperties, EmptySeq DEF Inv, TypeOK
    <3>2. chain # <<>> => chain[1] \in Node BY <3>1, ElementOfSeq DEF Inv, TypeOK
    <3> QED BY <1>3, <3>2, PointerAssumption DEF Inv, PointersOK, FindEmpty
  <2>4. Queued = <<>> BY <2>3, EmptySeq DEF Queued
  <2>5. Abstract!DequeueEmpty(t)
    BY <1>3, <2>1, <2>2, <2>4 DEF FindEmpty, Abstract!DequeueEmpty
  <2> QED BY <2>5 DEF Abstract!Next
<1>4. CASE Unlink(t)
  <2>1. Queued # <<>> /\ nodeFd[first] = Head(Queued) /\ Queued' = Tail(Queued)
    BY <1>4, UnlinkDequeues
  <2>2. Pending[t] = "pending" /\ Pending' = [Pending EXCEPT ![t] = "done"]
    BY <1>4 DEF Unlink, Pending
  <2>3. Abstract!Dequeue(t) BY <1>4, <2>1, <2>2 DEF Unlink, Abstract!Dequeue
  <2> QED BY <2>3 DEF Abstract!Next
<1>5. CASE Unlock(t)
  <2>1. Queued' = Queued BY <1>5, OtherStepsKeepQueue DEF Unlock
  <2>2. CASE node[t] # NULL
    <3>1. Pending' = Pending BY <1>5, <2>2 DEF Unlock, Pending
    <3> QED BY <1>5, <2>1, <3>1 DEF Unlock
  <2>3. CASE node[t] = NULL
    <3>1. Pending[t] = "done" /\ Pending' = [Pending EXCEPT ![t] = "none"]
      BY <1>5, <2>3 DEF Unlock, Pending
    <3>2. Abstract!Return(t) BY <1>5, <2>1, <3>1 DEF Unlock, Abstract!Return
    <3> QED BY <3>2 DEF Abstract!Next
  <2> QED BY <2>2, <2>3
<1>6. CASE Free(t)
  <2>1. Queued' = Queued BY <1>6, OtherStepsKeepQueue DEF Free
  <2>2. Pending[t] = "done" /\ Pending' = [Pending EXCEPT ![t] = "none"]
    BY <1>6 DEF Free, Pending
  <2>3. Abstract!Return(t) BY <1>6, <2>1, <2>2 DEF Free, Abstract!Return
  <2> QED BY <2>3 DEF Abstract!Next
<1> QED BY <1>1, <1>2, <1>3, <1>4, <1>5, <1>6 DEF DequeueStep

(* The linked list under its mutex implements the linearizable FIFO queue: *)
(* clientFds_enqueue and clientFds_dequeue are thread-safe, as their       *)
(* comments say, for any number of threads.                                *)
THEOREM Refinement == Spec => Linearizable
<1>1. ASSUME Inv, Inv', [Next]_vars PROVE [Abstract!Next]_(Abstract!vars)
  <2>1. CASE UNCHANGED vars
    BY <2>1 DEF vars, heapVars, Abstract!vars, Queued, Pending
  <2> QED BY <1>1, <2>1, RefinesEnqueuer, RefinesDequeuer DEF Next
<1> QED BY <1>1, RefinesInit, Invariance, PTL DEF Spec, Linearizable, Abstract!Spec

(* Mutex, pointers and heap of the list agree at every step.               *)
THEOREM ListIsConsistent == Spec => []ListConsistent
BY MutexCorrect, HeapCorrect, ListCorrect, PTL DEF ListConsistent

-----------------------------------------------------------------------------
(* Sequences                                                               *)

LEMMA LeastNat ==
  ASSUME NEW T \in SUBSET Nat, T # {}
  PROVE  \E t \in T : \A u \in T : t <= u
<1> DEFINE Less == {p \in Nat \X Nat : p[1] < p[2]}
<1>1. IsWellFoundedOn(Less, Nat) BY NatLessThanWellFounded, Zenon DEF OpToRel
<1>2. PICK t \in T : \A u \in T : <<u, t>> \notin Less
  <2> HIDE DEF Less
  <2> QED BY <1>1, WFMin
<1>3. ASSUME NEW u \in T PROVE t <= u
  <2>1. u \in Nat /\ t \in Nat /\ <<u, t>> \notin Less BY <1>2
  <2> QED BY <2>1
<1> QED BY <1>3

(* The least element of a set of indices, and the index at which the first *)
(* element with a property is.                                             *)
LEMMA MinIs ==
  ASSUME NEW I \in SUBSET Nat, NEW n \in I, \A i \in I : n <= i
  PROVE  Min(I) = n
<1>1. \E t \in I : \A u \in I : t <= u OBVIOUS
<1>2. Min(I) \in I /\ \A u \in I : Min(I) <= u BY <1>1 DEF Min
<1>3. Min(I) <= n /\ n <= Min(I) /\ Min(I) \in Nat /\ n \in Nat BY <1>2
<1> QED BY ONLY <1>3

LEMMA ConcatSet ==
  ASSUME NEW S, NEW q \in Seq(S), NEW r \in Seq(S)
  PROVE  q \o r \in Seq(S) /\ ToSet(q \o r) = ToSet(q) \cup ToSet(r)
<1>1. q \o r \in Seq(S) /\ Len(q \o r) = Len(q) + Len(r) /\ Len(q) \in Nat /\ Len(r) \in Nat OBVIOUS
<1>2. \A i \in 1..Len(q) : (q \o r)[i] = q[i] OBVIOUS
<1>3. \A i \in 1..Len(r) : (q \o r)[Len(q) + i] = r[i] OBVIOUS
<1>4. ASSUME NEW x \in ToSet(q \o r) PROVE x \in ToSet(q) \cup ToSet(r)
  <2>1. PICK i \in 1..(Len(q) + Len(r)) : x = (q \o r)[i] BY <1>1 DEF ToSet
  <2>2. CASE i <= Len(q) BY <1>1, <1>2, <2>1, <2>2 DEF ToSet
  <2>3. CASE i > Len(q)
    <3>1. i - Len(q) \in 1..Len(r) /\ Len(q) + (i - Len(q)) = i BY <1>1, <2>3
    <3>2. x = r[i - Len(q)] BY <1>3, <2>1, <3>1
    <3> QED BY <3>1, <3>2 DEF ToSet
  <2> QED BY <1>1, <2>2, <2>3
<1>5. ASSUME NEW x \in ToSet(q) PROVE x \in ToSet(q \o r)
  <2>1. PICK i \in 1..Len(q) : x = q[i] BY DEF ToSet
  <2>2. i \in 1..Len(q \o r) /\ x = (q \o r)[i] BY <1>1, <1>2, <2>1
  <2> QED BY <1>1, <2>2 DEF ToSet
<1>6. ASSUME NEW x \in ToSet(r) PROVE x \in ToSet(q \o r)
  <2>1. PICK i \in 1..Len(r) : x = r[i] BY DEF ToSet
  <2>2. Len(q) + i \in 1..Len(q \o r) /\ x = (q \o r)[Len(q) + i] BY <1>1, <1>3, <2>1
  <2> QED BY <1>1, <2>2 DEF ToSet
<1> QED BY <1>1, <1>4, <1>5, <1>6

LEMMA ConcatAt ==
  ASSUME NEW S, NEW a \in Seq(S), NEW b \in Seq(S)
  PROVE  /\ a \o b \in Seq(S) /\ Len(a \o b) = Len(a) + Len(b) /\ Len(a) \in Nat /\ Len(b) \in Nat
         /\ \A i \in 1..Len(a) : (a \o b)[i] = a[i]
         /\ \A i \in 1..Len(b) : (a \o b)[Len(a) + i] = b[i]
<1>1. a \o b \in Seq(S) /\ Len(a \o b) = Len(a) + Len(b) /\ Len(a) \in Nat /\ Len(b) \in Nat OBVIOUS
<1>2. \A i \in 1..Len(a) : (a \o b)[i] = a[i] OBVIOUS
<1>3. \A i \in 1..Len(b) : (a \o b)[Len(a) + i] = b[i] OBVIOUS
<1> QED BY <1>1, <1>2, <1>3

LEMMA FirstPart ==
  ASSUME NEW S, NEW s \in Seq(S), NEW n \in 0..Len(s)
  PROVE  /\ SubSeq(s, 1, n) \in Seq(S) /\ Len(SubSeq(s, 1, n)) = n
         /\ \A i \in 1..n : SubSeq(s, 1, n)[i] = s[i]
<1>1. Len(s) \in Nat /\ n \in Nat OBVIOUS
<1>2. \A i \in 1..n : s[i] \in S BY <1>1
<1>3. /\ SubSeq(s, 1, n) \in Seq(S) /\ Len(SubSeq(s, 1, n)) = IF 1 <= n THEN n - 1 + 1 ELSE 0
      /\ \A i \in 1..(n - 1 + 1) : SubSeq(s, 1, n)[i] = s[1 + i - 1]
  <2>1. 1 \in Int /\ n \in Int BY <1>1
  <2> QED BY ONLY <1>2, <2>1, SubSeqProperties
<1>4. Len(SubSeq(s, 1, n)) = n BY <1>1, <1>3
<1>5. \A i \in 1..n : SubSeq(s, 1, n)[i] = s[i]
  <2> TAKE i \in 1..n
  <2>1. n - 1 + 1 = n /\ 1 + i - 1 = i BY <1>1
  <2> QED BY <1>3, <2>1
<1> QED BY <1>3, <1>4, <1>5

(* Two ways to join three sequences, by a name that can be instantiated.   *)
Grouped(a, b, c) == (a \o b) \o c = a \o (b \o c)

LEMMA GroupedIs ==
  ASSUME NEW S, NEW a \in Seq(S), NEW b \in Seq(S), NEW c \in Seq(S)
  PROVE  Grouped(a, b, c)
BY ConcatAssociative DEF Grouped

LEMMA ConcatAppend ==
  ASSUME NEW S, NEW p \in Seq(S), NEW q \in Seq(S), NEW x \in S
  PROVE  p \o Append(q, x) = Append(p \o q, x) /\ p \o q \in Seq(S)
<1>1. Append(q, x) = q \o <<x>> /\ <<x>> \in Seq(S) /\ p \o q \in Seq(S) BY AppendIsConcat
<1>2. Append(p \o q, x) = (p \o q) \o <<x>> BY <1>1, AppendIsConcat
<1> DEFINE s == <<x>>
<1>3. s \in Seq(S) BY <1>1
<1> HIDE DEF s
<1>4. Grouped(p, q, s) BY <1>3, GroupedIs
<1> QED BY <1>1, <1>2, <1>4 DEF s, Grouped

(* A sequence that is not empty has a last element and what is before it.  *)
LEMMA FrontLast ==
  ASSUME NEW S, NEW q \in Seq(S), q # <<>>
  PROVE  \E f \in Seq(S) : \E x \in S : q = Append(f, x) /\ Len(f) = Len(q) - 1 /\ x = q[Len(q)]
<1> DEFINE n == Len(q) - 1
           f == [i \in 1..n |-> q[i]]
<1>1. Len(q) \in Nat \ {0} /\ q[Len(q)] \in S OBVIOUS
<1>2. n \in Nat /\ \A i \in 1..n : q[i] \in S BY <1>1
<1> HIDE DEF n
<1>3. f \in Seq(S) /\ Len(f) = n /\ \A i \in 1..n : f[i] = q[i] BY <1>2
<1> USE DEF n
<1> HIDE DEF f
<1>4. Append(f, q[Len(q)]) = q
  <2>1. \A i \in 1..Len(q) : Append(f, q[Len(q)])[i] = q[i] BY <1>1, <1>2, <1>3
  <2> QED BY <1>1, <1>2, <1>3, <2>1
<1> QED BY <1>1, <1>2, <1>3, <1>4

LEMMA HeadTailConcat ==
  ASSUME NEW S, NEW q \in Seq(S), q # <<>>
  PROVE  q = <<Head(q)>> \o Tail(q) /\ Head(q) \in S /\ Tail(q) \in Seq(S) /\ <<Head(q)>> \in Seq(S)
         /\ Head(q) = q[1] /\ Len(q) \in Nat \ {0}
<1>1. Len(q) \in Nat \ {0} /\ Head(q) = q[1] /\ Head(q) \in S /\ Tail(q) \in Seq(S) /\ Len(Tail(q)) = Len(q) - 1
      /\ <<Head(q)>> \in Seq(S) /\ Len(<<Head(q)>>) = 1
  OBVIOUS
<1>2. \A i \in 1..(Len(q) - 1) : Tail(q)[i] = q[i + 1] BY <1>1
<1> DEFINE h == <<Head(q)>>
           t == Tail(q)
<1>3. h \in Seq(S) /\ t \in Seq(S) /\ Len(h) = 1 /\ Len(t) = Len(q) - 1 /\ h[1] = q[1]
      /\ \A i \in 1..(Len(q) - 1) : t[i] = q[i + 1]
  BY <1>1, <1>2
<1> HIDE DEF h, t
<1>4. h \o t \in Seq(S) /\ Len(h \o t) = Len(q) /\ \A i \in 1..Len(q) : (h \o t)[i] = q[i]
  <2>0. h \in Seq(S) /\ t \in Seq(S) BY <1>3
  <2>1. h \o t \in Seq(S) /\ Len(h \o t) = Len(h) + Len(t)
        /\ \A i \in 1..(Len(h) + Len(t)) : (h \o t)[i] = IF i <= Len(h) THEN h[i] ELSE t[i - Len(h)]
    BY ONLY <2>0, ConcatProperties
  <2>2. Len(h) + Len(t) = Len(q) BY <1>1, <1>3
  <2>3. ASSUME NEW i \in 1..Len(q) PROVE (h \o t)[i] = q[i]
    <3>1. CASE i = 1 BY <1>1, <1>3, <2>1, <2>2, <3>1
    <3>2. CASE i # 1
      <4>1. i - 1 \in 1..(Len(q) - 1) /\ ~(i <= 1) /\ (i - 1) + 1 = i BY <1>1, <3>2
      <4>2. (h \o t)[i] = t[i - 1] BY <1>3, <2>1, <2>2, <4>1
      <4> QED BY <1>3, <4>1, <4>2
    <3> QED BY <3>1, <3>2
  <2> QED BY <2>1, <2>2, <2>3
<1>5. h \o t = q BY <1>4, SeqEqual
<1> QED BY <1>1, <1>5 DEF h, t

-----------------------------------------------------------------------------
(* A sequence whose elements another one has, in the same order            *)

EmbedsBy(s, t, e) ==
    /\ e \in [1..Len(s) -> 1..Len(t)]
    /\ \A i, j \in 1..Len(s) : i < j => e[i] < e[j]
    /\ \A i \in 1..Len(s) : s[i] = t[e[i]]
Embeds(s, t) == \E e : EmbedsBy(s, t, e)

LEMMA EmbedsSelf == ASSUME NEW S, NEW s \in Seq(S) PROVE Embeds(s, s)
<1> DEFINE e == [i \in 1..Len(s) |-> i]
<1>1. EmbedsBy(s, s, e) BY DEF EmbedsBy
<1> QED BY <1>1 DEF Embeds

LEMMA EmbedsTransitive ==
  ASSUME NEW S, NEW s \in Seq(S), NEW t \in Seq(S), NEW u \in Seq(S), Embeds(s, t), Embeds(t, u)
  PROVE  Embeds(s, u)
<1>1. PICK d : EmbedsBy(s, t, d) BY DEF Embeds
<1>2. PICK e : EmbedsBy(t, u, e) BY DEF Embeds
<1> DEFINE h == [i \in 1..Len(s) |-> e[d[i]]]
<1>3. \A i \in 1..Len(s) : d[i] \in 1..Len(t) /\ h[i] = e[d[i]] /\ s[i] = t[d[i]] BY <1>1 DEF EmbedsBy
<1>4. \A i \in 1..Len(t) : e[i] \in 1..Len(u) /\ t[i] = u[e[i]] BY <1>2 DEF EmbedsBy
<1>5. h \in [1..Len(s) -> 1..Len(u)] BY <1>3, <1>4
<1>6. ASSUME NEW i \in 1..Len(s), NEW j \in 1..Len(s), i < j PROVE h[i] < h[j]
  <2>1. d[i] < d[j] BY <1>1, <1>6 DEF EmbedsBy
  <2>2. d[i] \in 1..Len(t) /\ d[j] \in 1..Len(t) BY <1>3
  <2>3. e[d[i]] < e[d[j]] BY <1>2, <2>1, <2>2 DEF EmbedsBy
  <2> QED BY <1>3, <2>3
<1>7. \A i \in 1..Len(s) : s[i] = u[h[i]] BY <1>3, <1>4
<1> HIDE DEF h
<1>8. EmbedsBy(s, u, h) BY <1>5, <1>6, <1>7 DEF EmbedsBy
<1> QED BY <1>8 DEF Embeds

(* The beginning of a sequence is in it.                                   *)
LEMMA EmbedsFirst ==
  ASSUME NEW S, NEW s \in Seq(S), NEW n \in 0..Len(s)
  PROVE  Embeds(SubSeq(s, 1, n), s)
<1> DEFINE p == SubSeq(s, 1, n)
           e == [i \in 1..n |-> i]
<1>1. p \in Seq(S) /\ Len(p) = n /\ \A i \in 1..n : p[i] = s[i] BY FirstPart
<1>2. Len(s) \in Nat /\ n \in Nat /\ n <= Len(s) OBVIOUS
<1> HIDE DEF p
<1>3. EmbedsBy(p, s, e) BY <1>1, <1>2 DEF EmbedsBy
<1>4. Embeds(p, s) BY <1>3 DEF Embeds
<1> QED BY <1>4 DEF p

LEMMA EmbedsLeft ==
  ASSUME NEW S, NEW a \in Seq(S), NEW b \in Seq(S), NEW t \in Seq(S), Embeds(a \o b, t)
  PROVE  Embeds(a, t)
<1> DEFINE ab == a \o b
<1>1. /\ ab \in Seq(S) /\ Len(ab) = Len(a) + Len(b) /\ Len(a) \in Nat /\ Len(b) \in Nat
      /\ \A i \in 1..Len(a) : ab[i] = a[i]
  BY ConcatAt
<1> HIDE DEF ab
<1>2. PICK d : EmbedsBy(ab, t, d) BY DEF Embeds, ab
<1> DEFINE e == [i \in 1..Len(a) |-> d[i]]
<1>3. \A i \in 1..Len(a) : i \in 1..Len(ab) BY <1>1
<1>4. EmbedsBy(a, t, e) BY <1>1, <1>2, <1>3 DEF EmbedsBy
<1> QED BY <1>4 DEF Embeds

LEMMA EmbedsConcat ==
  ASSUME NEW S, NEW a \in Seq(S), NEW b \in Seq(S), NEW c \in Seq(S), NEW d \in Seq(S),
         Embeds(a, b), Embeds(c, d)
  PROVE  Embeds(a \o c, b \o d)
<1> DEFINE ac == a \o c
           bd == b \o d
<1>1. /\ ac \in Seq(S) /\ Len(ac) = Len(a) + Len(c) /\ Len(a) \in Nat /\ Len(c) \in Nat
      /\ \A i \in 1..Len(a) : ac[i] = a[i]
      /\ \A i \in 1..Len(c) : ac[Len(a) + i] = c[i]
  BY ConcatAt
<1>2. /\ bd \in Seq(S) /\ Len(bd) = Len(b) + Len(d) /\ Len(b) \in Nat /\ Len(d) \in Nat
      /\ \A i \in 1..Len(b) : bd[i] = b[i]
      /\ \A i \in 1..Len(d) : bd[Len(b) + i] = d[i]
  BY ConcatAt
<1> HIDE DEF ac, bd
<1>3. PICK e : EmbedsBy(a, b, e) BY DEF Embeds
<1>4. PICK f : EmbedsBy(c, d, f) BY DEF Embeds
<1> DEFINE h == [i \in 1..Len(ac) |-> IF i <= Len(a) THEN e[i] ELSE Len(b) + f[i - Len(a)]]
<1>5. ASSUME NEW i \in 1..Len(a)
      PROVE  i \in 1..Len(ac) /\ h[i] = e[i] /\ e[i] \in 1..Len(b) /\ a[i] = b[e[i]]
  <2>1. i \in 1..Len(ac) /\ i <= Len(a) BY <1>1
  <2>2. h[i] = e[i] BY <2>1
  <2>3. e[i] \in 1..Len(b) /\ a[i] = b[e[i]] BY <1>3 DEF EmbedsBy
  <2> QED BY <2>1, <2>2, <2>3
<1>6. ASSUME NEW i \in 1..Len(ac), ~(i <= Len(a))
      PROVE  /\ i - Len(a) \in 1..Len(c) /\ h[i] = Len(b) + f[i - Len(a)]
             /\ f[i - Len(a)] \in 1..Len(d) /\ c[i - Len(a)] = d[f[i - Len(a)]]
  <2>1. i - Len(a) \in 1..Len(c) BY <1>1, <1>6
  <2> QED BY <1>4, <1>6, <2>1 DEF EmbedsBy
<1>7. \A i \in 1..Len(ac) : i <= Len(a) => i \in 1..Len(a) BY <1>1
<1>8. DOMAIN h = 1..Len(ac) /\ h = [i \in 1..Len(ac) |-> h[i]] OBVIOUS
<1> HIDE DEF h
<1>9. ASSUME NEW i \in 1..Len(ac) PROVE h[i] \in 1..Len(bd) /\ ac[i] = bd[h[i]]
  <2>1. CASE i <= Len(a)
    <3>1. i \in 1..Len(a) BY <1>7, <2>1
    <3>2. h[i] = e[i] /\ e[i] \in 1..Len(b) /\ a[i] = b[e[i]] BY <1>5, <3>1
    <3>3. ac[i] = a[i] /\ bd[e[i]] = b[e[i]] BY <1>1, <1>2, <3>1, <3>2
    <3>4. e[i] \in 1..Len(bd) BY <1>2, <3>2
    <3> QED BY <3>2, <3>3, <3>4
  <2>2. CASE ~(i <= Len(a))
    <3> DEFINE k == i - Len(a)
    <3>1. k \in 1..Len(c) /\ h[i] = Len(b) + f[k] /\ f[k] \in 1..Len(d) /\ c[k] = d[f[k]] BY <1>6, <2>2
    <3>2. Len(a) + k = i BY <1>1
    <3> HIDE DEF k
    <3>3. ac[i] = c[k] /\ bd[Len(b) + f[k]] = d[f[k]] BY <1>1, <1>2, <3>1, <3>2
    <3>4. Len(b) + f[k] \in 1..Len(bd) BY <1>2, <3>1
    <3> QED BY <3>1, <3>3, <3>4
  <2> QED BY <2>1, <2>2
<1>10. ASSUME NEW i \in 1..Len(ac), NEW j \in 1..Len(ac), i < j PROVE h[i] < h[j]
  <2>1. CASE j <= Len(a)
    <3>1. i \in 1..Len(a) /\ j \in 1..Len(a) BY <1>1, <1>10, <2>1
    <3>2. h[i] = e[i] /\ h[j] = e[j] BY <1>5, <3>1
    <3>3. e[i] < e[j] BY <1>3, <1>10, <3>1 DEF EmbedsBy
    <3> QED BY <3>2, <3>3
  <2>2. CASE ~(j <= Len(a)) /\ i <= Len(a)
    <3>1. i \in 1..Len(a) BY <1>7, <2>2
    <3>2. h[i] = e[i] /\ e[i] \in 1..Len(b) BY <1>5, <3>1
    <3>3. h[j] = Len(b) + f[j - Len(a)] /\ f[j - Len(a)] \in 1..Len(d) BY <1>6, <2>2
    <3> DEFINE y == f[j - Len(a)]
    <3>4. y \in 1..Len(d) BY <3>3
    <3>5. e[i] < Len(b) + y
      <4> HIDE DEF y
      <4> QED BY <1>2, <3>2, <3>4
    <3> QED BY <3>2, <3>3, <3>5
  <2>3. CASE ~(j <= Len(a)) /\ ~(i <= Len(a))
    <3> DEFINE k == i - Len(a)
               m == j - Len(a)
    <3>1. k \in 1..Len(c) /\ h[i] = Len(b) + f[k] /\ f[k] \in 1..Len(d) BY <1>6, <2>3
    <3>2. m \in 1..Len(c) /\ h[j] = Len(b) + f[m] /\ f[m] \in 1..Len(d) BY <1>6, <2>3
    <3>3. k < m BY <1>1, <1>10
    <3> HIDE DEF k, m
    <3>4. f[k] < f[m] BY <1>4, <3>1, <3>2, <3>3 DEF EmbedsBy
    <3>5. Len(b) + f[k] < Len(b) + f[m] BY <1>2, <3>1, <3>2, <3>4
    <3> QED BY <3>1, <3>2, <3>5
  <2> QED BY <2>1, <2>2, <2>3
<1>11. h \in [1..Len(ac) -> 1..Len(bd)] BY <1>8, <1>9
<1>12. EmbedsBy(ac, bd, h) BY <1>9, <1>10, <1>11 DEF EmbedsBy
<1>13. Embeds(ac, bd) BY <1>12 DEF Embeds
<1> QED BY <1>13 DEF ac, bd

(* The first i values of an increasing function are i values, and those up *)
(* to the i-th value.                                                      *)
LEMMA IncreasingCounts ==
  ASSUME NEW n \in Nat, NEW e \in [1..n -> Nat], \A i, j \in 1..n : i < j => e[i] < e[j],
         NEW i \in 1..n
  PROVE  /\ Cardinality({e[j] : j \in 1..i}) = i
         /\ {k \in {e[j] : j \in 1..n} : k <= e[i]} = {e[j] : j \in 1..i}
<1> DEFINE T == {e[j] : j \in 1..i}
           f == [j \in 1..i |-> e[j]]
<1>0. i \in Nat /\ \A j \in 1..i : j \in 1..n OBVIOUS
<1>1. f \in Bijection(1..i, T)
  <2>1. f \in [1..i -> T] OBVIOUS
  <2>2. ASSUME NEW j \in 1..i, NEW k \in 1..i, f[j] = f[k] PROVE j = k
    <3>1. j \in 1..n /\ k \in 1..n BY <1>0
    <3>2. ~(j < k) /\ ~(k < j) BY <2>2, <3>1
    <3> QED BY <3>1, <3>2
  <2>3. \A t \in T : \E j \in 1..i : f[j] = t OBVIOUS
  <2> HIDE DEF f, T
  <2>4. f \in Injection(1..i, T) BY <2>1, <2>2 DEF Injection, IsInjective
  <2>5. f \in Surjection(1..i, T) BY <2>1, <2>3 DEF Surjection
  <2> QED BY <2>4, <2>5 DEF Bijection
<1>2. ExistsBijection(1..i, T) BY <1>1 DEF ExistsBijection
<1>3. IsFiniteSet(1..i) /\ Cardinality(1..i) = i
  <2>1. 1 \in Int /\ i \in Int /\ ~(1 > i) /\ i - 1 + 1 = i OBVIOUS
  <2> QED BY <2>1, FS_Interval
<1> HIDE DEF T
<1>4. Cardinality(T) = i BY <1>2, <1>3, FS_Bijection
<1> USE DEF T
<1>5. ASSUME NEW j \in 1..n PROVE e[j] <= e[i] <=> j <= i
  <2>1. j <= i \/ i < j OBVIOUS
  <2>2. j < i => e[j] < e[i] OBVIOUS
  <2>3. i < j => e[i] < e[j] OBVIOUS
  <2>4. e[i] \in Nat /\ e[j] \in Nat OBVIOUS
  <2> QED BY <2>1, <2>2, <2>3, <2>4
<1>6. {k \in {e[j] : j \in 1..n} : k <= e[i]} = T
  <2>1. \A j \in 1..n : j <= i => j \in 1..i OBVIOUS
  <2> QED BY <1>0, <1>5, <2>1
<1> QED BY <1>4, <1>6

(* The indices of such elements are what is kept of the other sequence.    *)
LEMMA EmbedsSubsequence ==
  ASSUME NEW S, NEW s \in Seq(S), NEW t \in Seq(S), Embeds(s, t)
  PROVE  Subsequence(s, t)
<1>1. PICK n \in Nat : n = Len(s) OBVIOUS
<1>2. PICK e : EmbedsBy(s, t, e) BY DEF Embeds
<1>3. /\ e \in [1..n -> 1..Len(t)] /\ \A i, j \in 1..n : i < j => e[i] < e[j]
      /\ \A i \in 1..n : s[i] = t[e[i]]
  BY <1>1, <1>2 DEF EmbedsBy
<1>4. e \in [1..n -> Nat]
  <2>1. \A i \in 1..n : e[i] \in Nat BY <1>3
  <2>2. DOMAIN e = 1..n /\ e = [i \in 1..n |-> e[i]] BY <1>3
  <2> QED BY <2>1, <2>2
<1> DEFINE kept == {e[j] : j \in 1..n}
<1>5. ASSUME NEW i \in 1..n
      PROVE  /\ Cardinality({e[j] : j \in 1..i}) = i
             /\ {k \in kept : k <= e[i]} = {e[j] : j \in 1..i}
  BY <1>3, <1>4, IncreasingCounts
<1>6. kept \in SUBSET DOMAIN t
  <2>1. DOMAIN t = 1..Len(t) OBVIOUS
  <2> QED BY <1>3, <2>1
<1>7. Cardinality(kept) = Len(s)
  <2>1. CASE n = 0
    <3>1. kept = {} BY <2>1
    <3>2. Cardinality({}) = 0 BY FS_EmptySet
    <3> QED BY <1>1, <2>1, <3>1, <3>2
  <2>2. CASE n # 0
    <3>1. n \in 1..n BY <2>2
    <3> QED BY <1>1, <1>5, <3>1
  <2> QED BY <2>1, <2>2
<1>8. ASSUME NEW k \in kept PROVE t[k] = s[Cardinality({j \in kept : j <= k})]
  <2>1. PICK i \in 1..n : k = e[i] OBVIOUS
  <2>2. Cardinality({j \in kept : j <= k}) = i
    <3>1. {j \in kept : j <= k} = {e[j] : j \in 1..i} BY <1>5, <2>1
    <3>2. Cardinality({e[j] : j \in 1..i}) = i BY <1>5
    <3> HIDE DEF kept
    <3> QED BY <3>1, <3>2
  <2> QED BY <1>3, <2>1, <2>2
<1> HIDE DEF kept
<1> QED BY <1>6, <1>7, <1>8 DEF Subsequence

-----------------------------------------------------------------------------
(* Flattened sequences                                                     *)

(* The function flatten of FlattenSeq.                                     *)
Flatten(g, seqs, n) == g = [i \in 1..n |-> IF i = 1 THEN seqs[i] ELSE g[i - 1] \o seqs[i]]

LEMMA FlattenExists ==
  ASSUME NEW seqs, NEW n \in Nat
  PROVE  \E g : Flatten(g, seqs, n)
<1> DEFINE T == {k \in Nat : ~ \E g : Flatten(g, seqs, k)}
<1> SUFFICES ASSUME T # {} PROVE FALSE OBVIOUS
<1>1. PICK t \in T : \A u \in T : t <= u BY LeastNat
<1>2. CASE t = 0
  <2> DEFINE g == [i \in 1..0 |-> seqs]
  <2>1. Flatten(g, seqs, 0) BY DEF Flatten
  <2> QED BY <2>1, <1>2
<1>3. CASE t # 0
  <2>1. t - 1 \in Nat /\ t - 1 \notin T BY <1>1, <1>3
  <2>2. PICK g : Flatten(g, seqs, t - 1) BY <2>1
  <2> DEFINE h == [i \in 1..t |-> IF i < t THEN g[i] ELSE IF i = 1 THEN seqs[i] ELSE g[i - 1] \o seqs[i]]
  <2>3. ASSUME NEW i \in 1..t PROVE h[i] = IF i = 1 THEN seqs[i] ELSE h[i - 1] \o seqs[i]
    <3>1. i # 1 => i - 1 \in 1..t /\ i - 1 < t BY <1>3
    <3>2. i # 1 => h[i - 1] = g[i - 1] BY <3>1
    <3>3. CASE i < t
      <4>1. i \in 1..(t - 1) BY <3>3
      <4>2. g[i] = IF i = 1 THEN seqs[i] ELSE g[i - 1] \o seqs[i] BY <2>2, <4>1 DEF Flatten
      <4> QED BY <3>2, <3>3, <4>2
    <3>4. CASE i = t BY <3>2, <3>4
    <3> QED BY <3>3, <3>4
  <2>4. Flatten(h, seqs, t) BY <2>3 DEF Flatten
  <2> QED BY <2>4
<1> QED BY <1>2, <1>3

(* What sequences of elements of S are flattened to is one.                *)
LEMMA FlattenType == ASSUME NEW S, NEW seqs \in Seq(Seq(S)) PROVE FlattenSeq(seqs) \in Seq(S)
<1>1. CASE Len(seqs) = 0 BY <1>1 DEF FlattenSeq
<1>2. CASE Len(seqs) # 0
  <2> DEFINE N == Len(seqs)
             F == CHOOSE g : Flatten(g, seqs, N)
             T == {k \in Nat : k \in 1..N /\ F[k] \notin Seq(S)}
  <2>1. N \in Nat \ {0} BY <1>2
  <2>2. Flatten(F, seqs, N) BY <2>1, FlattenExists
  <2>3. FlattenSeq(seqs) = F[N] BY <1>2 DEF FlattenSeq, Flatten
  <2> HIDE DEF F
  <2>4. T = {}
    <3> SUFFICES ASSUME T # {} PROVE FALSE OBVIOUS
    <3>1. PICK t \in T : \A u \in T : t <= u BY LeastNat
    <3>2. t \in 1..N /\ F[t] \notin Seq(S) OBVIOUS
    <3>3. t # 1 => t - 1 \in 1..N /\ t - 1 \notin T BY <3>1
    <3>4. t # 1 => F[t - 1] \in Seq(S) BY <3>3
    <3>5. F[t] = IF t = 1 THEN seqs[t] ELSE F[t - 1] \o seqs[t] BY <2>2, <3>2 DEF Flatten
    <3>6. seqs[t] \in Seq(S) BY <3>2
    <3> HIDE DEF T, N
    <3> QED BY <3>2, <3>4, <3>5, <3>6
  <2> QED BY <2>1, <2>3, <2>4
<1> QED BY <1>1, <1>2

LEMMA FlattenStep ==
  ASSUME NEW g, NEW seqs, NEW n \in Nat, Flatten(g, seqs, n), NEW i \in 1..n
  PROVE  g[i] = IF i = 1 THEN seqs[i] ELSE g[i - 1] \o seqs[i]
BY DEF Flatten

LEMMA FlattenIs ==
  ASSUME NEW seqs, NEW n \in Nat \ {0}, Len(seqs) = n
  PROVE  \E g : Flatten(g, seqs, n) /\ FlattenSeq(seqs) = g[n]
<1> DEFINE g == CHOOSE h : Flatten(h, seqs, n)
<1>1. Flatten(g, seqs, n) BY FlattenExists
<1>2. FlattenSeq(seqs) = g[n] BY DEF FlattenSeq, Flatten
<1> HIDE DEF g
<1> QED BY <1>1, <1>2

(* Flattening one sequence more adds it at the end.                        *)
LEMMA FlattenAppend ==
  ASSUME NEW S, NEW seqs \in Seq(Seq(S)), NEW x \in Seq(S)
  PROVE  FlattenSeq(Append(seqs, x)) = FlattenSeq(seqs) \o x
<1> DEFINE all == Append(seqs, x)
<1>1. PICK n \in Nat : n = Len(seqs) OBVIOUS
<1>2. Len(all) = n + 1 /\ all[n + 1] = x /\ \A i \in 1..n : all[i] = seqs[i] BY <1>1
<1> HIDE DEF all
<1>3. PICK H : Flatten(H, all, n + 1) /\ FlattenSeq(all) = H[n + 1]
  <2>1. n + 1 \in Nat \ {0} BY <1>1
  <2> QED BY <1>2, <2>1, FlattenIs
<1>4. CASE n = 0
  <2>0. seqs = <<>> BY <1>1, <1>4, EmptySeq
  <2>1. FlattenSeq(seqs) = seqs BY <1>1, <1>4 DEF FlattenSeq
  <2>2. H[1] = all[1]
    <3>1. 1 \in 1..(n + 1) /\ n + 1 \in Nat BY <1>4
    <3> QED BY <1>3, <3>1, FlattenStep
  <2>3. <<>> \o x = x OBVIOUS
  <2> QED BY <1>2, <1>3, <1>4, <2>0, <2>1, <2>2, <2>3 DEF all
<1>5. CASE n # 0
  <2>1. PICK G : Flatten(G, seqs, n) /\ FlattenSeq(seqs) = G[n] BY <1>1, <1>5, FlattenIs
  <2> DEFINE T == {k \in Nat : k \in 1..n /\ H[k] # G[k]}
  <2>2. T = {}
    <3> SUFFICES ASSUME T # {} PROVE FALSE OBVIOUS
    <3>1. PICK t \in T : \A u \in T : t <= u BY LeastNat
    <3>2. t \in 1..n /\ t \in 1..(n + 1) /\ n + 1 \in Nat /\ H[t] # G[t] BY <1>1
    <3>3. t # 1 => t - 1 \in 1..n /\ t - 1 \notin T BY <3>1
    <3>4. t # 1 => H[t - 1] = G[t - 1] BY <3>3
    <3>5. H[t] = IF t = 1 THEN all[t] ELSE H[t - 1] \o all[t] BY <1>3, <3>2, FlattenStep
    <3>6. G[t] = IF t = 1 THEN seqs[t] ELSE G[t - 1] \o seqs[t] BY <2>1, <3>2, FlattenStep
    <3>7. all[t] = seqs[t] BY <1>2, <3>2
    <3> HIDE DEF T
    <3> QED BY <3>2, <3>4, <3>5, <3>6, <3>7
  <2>3. H[n] = G[n]
    <3>1. n \in Nat /\ n \in 1..n /\ n \notin T BY <1>1, <1>5, <2>2
    <3> QED BY <3>1
  <2>4. H[n + 1] = H[n] \o all[n + 1]
    <3>1. n + 1 \in 1..(n + 1) /\ n + 1 \in Nat /\ (n + 1) - 1 = n /\ n + 1 # 1 BY <1>1, <1>5
    <3>2. H[n + 1] = IF n + 1 = 1 THEN all[n + 1] ELSE H[(n + 1) - 1] \o all[n + 1]
      BY <1>3, <3>1, FlattenStep
    <3> QED BY <3>1, <3>2
  <2> QED BY <1>2, <1>3, <2>1, <2>3, <2>4 DEF all
<1> QED BY <1>4, <1>5

LEMMA FlattenConcatStep ==
  ASSUME NEW S, NEW s \in Seq(Seq(S)), NEW f \in Seq(Seq(S)), NEW x \in Seq(S),
         FlattenSeq(s \o f) = FlattenSeq(s) \o FlattenSeq(f)
  PROVE  FlattenSeq(s \o Append(f, x)) = FlattenSeq(s) \o FlattenSeq(Append(f, x))
<1> DEFINE R == Seq(S)
<1>1. s \in Seq(R) /\ f \in Seq(R) /\ x \in R OBVIOUS
<1> HIDE DEF R
<1>2. s \o Append(f, x) = Append(s \o f, x) /\ s \o f \in Seq(R) BY <1>1, ConcatAppend
<1>3. FlattenSeq(Append(s \o f, x)) = FlattenSeq(s \o f) \o x BY <1>2, FlattenAppend DEF R
<1>4. FlattenSeq(Append(f, x)) = FlattenSeq(f) \o x BY FlattenAppend
<1>5. FlattenSeq(s) \in Seq(S) /\ FlattenSeq(f) \in Seq(S) BY FlattenType
<1>6. Grouped(FlattenSeq(s), FlattenSeq(f), x) BY <1>5, GroupedIs
<1> QED BY <1>2, <1>3, <1>4, <1>6 DEF Grouped

LEMMA FlattenConcat ==
  ASSUME NEW S, NEW s \in Seq(Seq(S)), NEW t \in Seq(Seq(S))
  PROVE  FlattenSeq(s \o t) = FlattenSeq(s) \o FlattenSeq(t)
<1> DEFINE Bad(k) == \E u \in Seq(Seq(S)) :
                       Len(u) = k /\ FlattenSeq(s \o u) # FlattenSeq(s) \o FlattenSeq(u)
           T == {k \in Nat : Bad(k)}
<1> SUFFICES ASSUME T # {} PROVE FALSE
  <2>1. Len(t) \in Nat OBVIOUS
  <2>2. T = {} => ~Bad(Len(t)) BY <2>1
  <2> QED BY <2>2
<1>1. PICK k \in T : \A j \in T : k <= j BY LeastNat
<1>2. PICK u \in Seq(Seq(S)) : Len(u) = k /\ FlattenSeq(s \o u) # FlattenSeq(s) \o FlattenSeq(u)
  OBVIOUS
<1>3. FlattenSeq(s) \in Seq(S) BY FlattenType
<1>4. CASE u = <<>>
  <2>1. FlattenSeq(<<>>) = <<>> BY DEF FlattenSeq
  <2>2. s \o <<>> = s /\ FlattenSeq(s) \o <<>> = FlattenSeq(s) BY <1>3
  <2> QED BY <1>2, <1>4, <2>1, <2>2
<1>5. CASE u # <<>>
  <2>1. PICK f \in Seq(Seq(S)), x \in Seq(S) : u = Append(f, x) /\ Len(f) = Len(u) - 1
    <3> DEFINE R == Seq(S)
    <3>1. u \in Seq(R) OBVIOUS
    <3> HIDE DEF R
    <3>2. \E f \in Seq(R) : \E x \in R : u = Append(f, x) /\ Len(f) = Len(u) - 1 BY <1>5, <3>1, FrontLast
    <3> QED BY <3>2 DEF R
  <2>2. Len(f) \in Nat /\ Len(f) < k
    <3>1. Len(f) \in Nat /\ k \in Nat OBVIOUS
    <3>2. Len(f) = k - 1 BY <1>2, <2>1
    <3> QED BY ONLY <3>1, <3>2
  <2>3. FlattenSeq(s \o f) = FlattenSeq(s) \o FlattenSeq(f)
    <3>1. Len(f) \notin T
      <4>1. k \in Nat OBVIOUS
      <4> HIDE DEF T
      <4> QED BY <1>1, <2>2, <4>1
    <3> QED BY <2>2, <3>1
  <2> QED BY <1>2, <2>1, <2>3, FlattenConcatStep
<1> QED BY <1>4, <1>5

(* A sequence of one is flattened to its element.                          *)
LEMMA FlattenOne == ASSUME NEW x PROVE FlattenSeq(<<x>>) = x
<1> DEFINE q == <<x>>
<1>1. Len(q) = 1 /\ q[1] = x /\ 1 \in Nat \ {0} /\ 1 \in Nat /\ 1 \in 1..1 OBVIOUS
<1> HIDE DEF q
<1>2. PICK g : Flatten(g, q, 1) /\ FlattenSeq(q) = g[1] BY <1>1, FlattenIs
<1>3. g[1] = q[1] BY <1>1, <1>2, FlattenStep
<1>4. FlattenSeq(q) = x BY <1>1, <1>2, <1>3
<1> QED BY <1>4 DEF q

-----------------------------------------------------------------------------
(* What answers a request                                                  *)

(* What is sent.  The constants the program sends are named: the provers do *)
(* not know that a literal is in STRING.                                   *)
Unit ==
    STRING \cup {"200", "400", "server", "empty", "demo", "text/html", "text/css", "text/plain",
                 "application/javascript", ".", "j", "s", "c", "h", "t", "m", "l"}
Parts == Seq(Seq(Unit))

LEMMA TextUnits ==
  /\ \A q \in Seq(STRING) : q \in Seq(Unit)
  /\ \A text \in Text : text \in Parts
<1>1. STRING \subseteq Unit BY DEF Unit
<1>2. Seq(STRING) \subseteq Seq(Unit) BY <1>1, SeqMonotonic
<1> DEFINE R == Seq(STRING)
           Q == Seq(Unit)
<1>3. R \subseteq Q BY <1>2
<1> HIDE DEF R, Q
<1>4. \A text \in Seq(R) : text \in Seq(Q) BY <1>3, SeqMonotonic
<1> QED BY <1>2, <1>4 DEF R, Q, Text, Parts

LEMMA UrlUnits == \A url \in Url : url \in Seq(Unit)
BY TextUnits DEF Url

(* What is before the first zero of a line.                                *)
LEMMA LineFacts ==
  ASSUME NEW s \in Seq(Unit)
  PROVE  /\ BeforeZero(s) \in Seq(Unit) /\ Embeds(BeforeZero(s), s)
         /\ "zero" \notin ToSet(s) => BeforeZero(s) = s
<1>1. CASE "zero" \notin ToSet(s)
  <2>1. BeforeZero(s) = s BY <1>1 DEF BeforeZero
  <2> QED BY <2>1, EmbedsSelf
<1>2. CASE "zero" \in ToSet(s)
  <2> DEFINE I == {i \in 1..Len(s) : s[i] = "zero"}
  <2>1. SelectInSeq(s, LAMBDA u : u = "zero") = IF I # {} THEN Min(I) ELSE 0 BY DEF SelectInSeq
  <2>2. I # {} BY <1>2 DEF ToSet
  <2>3. I \in SUBSET Nat /\ \A i \in I : i \in 1..Len(s) BY DEF I
  <2> HIDE DEF I
  <2>4. PICK k \in I : \A i \in I : k <= i BY <2>2, <2>3, LeastNat
  <2>5. Min(I) = k BY <2>3, <2>4, MinIs
  <2>6. BeforeZero(s) = SubSeq(s, 1, k - 1) BY <1>2, <2>1, <2>2, <2>5 DEF BeforeZero
  <2> DEFINE n == k - 1
  <2>7. n \in 0..Len(s)
    <3>1. Len(s) \in Nat /\ k \in 1..Len(s) BY <2>3
    <3> QED BY <3>1
  <2> HIDE DEF n
  <2>8. SubSeq(s, 1, n) \in Seq(Unit) /\ Embeds(SubSeq(s, 1, n), s) BY <2>7, FirstPart, EmbedsFirst
  <2> QED BY <1>2, <2>6, <2>8 DEF n
<1> QED BY <1>1, <1>2

(* Cutting the lines of a file at their zeros leaves some of its elements, *)
(* in their order, and all of them when there is no zero.                  *)
Cut(file) ==
    /\ Lines(file) \in Parts /\ FlattenSeq(Lines(file)) \in Seq(Unit)
    /\ Embeds(FlattenSeq(Lines(file)), FlattenSeq(file))
    /\ "zero" \notin ToSet(FlattenSeq(file)) => FlattenSeq(Lines(file)) = FlattenSeq(file)

LEMMA LinesAppend ==
  ASSUME NEW file \in Parts, NEW x \in Seq(Unit), Lines(file) \in Parts
  PROVE  Lines(Append(file, x)) = Append(Lines(file), BeforeZero(x)) /\ BeforeZero(x) \in Seq(Unit)
<1> DEFINE R == Seq(Unit)
           all == Append(file, x)
           old == Lines(file)
           new == Append(old, BeforeZero(x))
<1>1. file \in Seq(R) /\ x \in R /\ old \in Seq(R) /\ BeforeZero(x) \in R BY LineFacts DEF Parts
<1>2. Len(file) \in Nat /\ DOMAIN file = 1..Len(file) OBVIOUS
<1>3. DOMAIN old = 1..Len(file) /\ \A n \in 1..Len(file) : old[n] = BeforeZero(file[n]) BY <1>2 DEF Lines
<1>4. Len(old) = Len(file) BY <1>1, <1>2, <1>3
<1> HIDE DEF old, R
<1>5. /\ all \in Seq(R) /\ Len(all) = Len(file) + 1
      /\ \A n \in 1..Len(file) : all[n] = file[n]
      /\ all[Len(file) + 1] = x
  BY <1>1, AppendProperties
<1>6. /\ new \in Seq(R) /\ Len(new) = Len(file) + 1
      /\ \A n \in 1..Len(file) : new[n] = old[n]
      /\ new[Len(file) + 1] = BeforeZero(x)
  BY <1>1, <1>4, AppendProperties
<1> HIDE DEF all, new
<1>7. DOMAIN all = 1..(Len(file) + 1) /\ new = [n \in 1..(Len(file) + 1) |-> new[n]]
  BY <1>5, <1>6
<1>8. Lines(all) = [n \in 1..(Len(file) + 1) |-> BeforeZero(all[n])] BY <1>7 DEF Lines
<1>9. \A n \in 1..(Len(file) + 1) : new[n] = BeforeZero(all[n])
  <2> TAKE n \in 1..(Len(file) + 1)
  <2>1. n \in 1..Len(file) \/ n = Len(file) + 1 BY <1>2
  <2> QED BY <1>3, <1>5, <1>6, <2>1
<1>10. Lines(all) = new BY <1>7, <1>8, <1>9
<1> QED BY <1>1, <1>10 DEF all, new, old, R

LEMMA CutAppend ==
  ASSUME NEW file \in Parts, NEW x \in Seq(Unit), Cut(file)
  PROVE  Cut(Append(file, x))
<1> DEFINE old == FlattenSeq(Lines(file))
           whole == FlattenSeq(file)
           line == BeforeZero(x)
<1>1. /\ Lines(file) \in Parts /\ old \in Seq(Unit) /\ Embeds(old, whole)
      /\ "zero" \notin ToSet(whole) => old = whole
  BY DEF Cut
<1>2. Lines(Append(file, x)) = Append(Lines(file), line) /\ line \in Seq(Unit)
  BY <1>1, LinesAppend
<1>3. Append(Lines(file), line) \in Parts BY <1>1, <1>2 DEF Parts
<1>4. FlattenSeq(Append(Lines(file), line)) = old \o line BY <1>1, <1>2, FlattenAppend DEF Parts
<1>5. FlattenSeq(Append(file, x)) = whole \o x BY FlattenAppend DEF Parts
<1>6. whole \in Seq(Unit) BY FlattenType DEF Parts
<1>7. Embeds(line, x) /\ ("zero" \notin ToSet(x) => line = x) BY LineFacts
<1> HIDE DEF old, whole, line
<1>8. Embeds(old \o line, whole \o x) BY <1>1, <1>2, <1>6, <1>7, EmbedsConcat
<1>9. ToSet(whole \o x) = ToSet(whole) \cup ToSet(x) BY <1>6, ConcatSet
<1>10. "zero" \notin ToSet(whole \o x) => old \o line = whole \o x BY <1>1, <1>7, <1>9
<1>11. old \o line \in Seq(Unit) BY <1>1, <1>2
<1> QED BY <1>2, <1>3, <1>4, <1>5, <1>8, <1>10, <1>11 DEF Cut

LEMMA LinesCut == ASSUME NEW file \in Parts PROVE Cut(file)
<1> DEFINE Bad(k) == \E f \in Parts : Len(f) = k /\ ~Cut(f)
           T == {k \in Nat : Bad(k)}
<1> SUFFICES ASSUME T # {} PROVE FALSE
  <2>1. Len(file) \in Nat BY DEF Parts
  <2>2. T = {} => ~Bad(Len(file)) BY <2>1
  <2> QED BY <2>2
<1>1. PICK k \in T : \A j \in T : k <= j BY LeastNat
<1>2. PICK f \in Parts : Len(f) = k /\ ~Cut(f) OBVIOUS
<1>3. CASE f = <<>>
  <2>1. Lines(<<>>) = <<>> /\ <<>> \in Parts /\ <<>> \in Seq(Unit) BY DEF Lines, Parts
  <2>2. FlattenSeq(<<>>) = <<>> BY DEF FlattenSeq
  <2>3. Embeds(<<>>, <<>>) BY <2>1, EmbedsSelf
  <2> QED BY <1>2, <1>3, <2>1, <2>2, <2>3 DEF Cut
<1>4. CASE f # <<>>
  <2> DEFINE R == Seq(Unit)
  <2>1. f \in Seq(R) BY DEF Parts
  <2> HIDE DEF R
  <2>2. PICK g \in Seq(R), x \in R : f = Append(g, x) /\ Len(g) = Len(f) - 1 BY <1>4, <2>1, FrontLast
  <2>3. g \in Parts /\ x \in Seq(Unit) BY <2>2 DEF R, Parts
  <2>4. Len(g) \in Nat /\ Len(g) < k
    <3>1. Len(g) \in Nat /\ k \in Nat /\ Len(g) = k - 1 BY <1>2, <2>2
    <3> QED BY ONLY <3>1
  <2>5. Cut(g)
    <3>1. k \in Nat OBVIOUS
    <3>2. Len(g) \notin T
      <4> HIDE DEF T
      <4> QED BY <1>1, <2>4, <3>1
    <3> QED BY <2>3, <2>4, <3>2
  <2> QED BY <1>2, <2>2, <2>3, <2>5, CutAppend
<1> QED BY <1>3, <1>4

(* A sequence and one more element.                                        *)
LEMMA Joined ==
  ASSUME NEW S, NEW q \in Seq(S), NEW x \in S, NEW r \in Seq(S), Len(r) = Len(q) + 1,
         \A i \in 1..Len(q) : r[i] = q[i], r[Len(q) + 1] = x
  PROVE  q \o <<x>> = r
<1>1. q \o <<x>> = Append(q, x) BY AppendIsConcat
<1>2. /\ Append(q, x) \in Seq(S) /\ Len(Append(q, x)) = Len(q) + 1
      /\ \A i \in 1..Len(q) : Append(q, x)[i] = q[i]
      /\ Append(q, x)[Len(q) + 1] = x
  BY AppendProperties
<1>3. Len(q) \in Nat OBVIOUS
<1>4. \A i \in 1..Len(r) : Append(q, x)[i] = r[i]
  <2> TAKE i \in 1..Len(r)
  <2>1. i \in 1..Len(q) \/ i = Len(q) + 1 BY <1>3
  <2> QED BY <1>2, <2>1
<1>5. Append(q, x) = r BY <1>2, <1>4, SeqEqual
<1> QED BY <1>1, <1>5

LEMMA FourJoined ==
  ASSUME NEW S, NEW a \in S, NEW b \in S, NEW c \in S, NEW d \in S
  PROVE  ((<<a>> \o <<b>>) \o <<c>>) \o <<d>> = <<a, b, c, d>>
<1> DEFINE q == (<<a>> \o <<b>>) \o <<c>>
           r == <<a, b, c, d>>
<1>1. /\ q \in Seq(S) /\ r \in Seq(S) /\ Len(q) = 3 /\ Len(r) = 4
      /\ q[1] = a /\ q[2] = b /\ q[3] = c /\ r[1] = a /\ r[2] = b /\ r[3] = c /\ r[4] = d
  OBVIOUS
<1> HIDE DEF q, r
<1>2. \A i \in 1..3 : r[i] = q[i] BY <1>1
<1>3. Len(r) = Len(q) + 1 /\ r[Len(q) + 1] = d /\ \A i \in 1..Len(q) : r[i] = q[i] BY <1>1, <1>2
<1>4. q \o <<d>> = r BY <1>1, <1>3, Joined
<1> QED BY <1>4 DEF q, r

(* The lines sent before a file or a body.                                 *)
Lead(status, type) == <<status, "server", type, "empty">>

LEMMA HeadFlattened ==
  ASSUME NEW status \in Unit, NEW type \in Unit
  PROVE  /\ HeadOf(status, type) \in Parts /\ FlattenSeq(HeadOf(status, type)) = Lead(status, type)
         /\ Lead(status, type) \in Seq(Unit)
<1> DEFINE q == HeadOf(status, type)
<1>1. /\ q \in Parts /\ Len(q) = 4 /\ q[1] = <<status>> /\ q[2] = <<"server">>
      /\ q[3] = <<type>> /\ q[4] = <<"empty">>
  <2>1. status \in Unit /\ "server" \in Unit /\ type \in Unit /\ "empty" \in Unit BY DEF Unit
  <2>2. \A u \in Unit : <<u>> \in Seq(Unit) OBVIOUS
  <2> DEFINE R == Seq(Unit)
  <2>3. <<status>> \in R /\ <<"server">> \in R /\ <<type>> \in R /\ <<"empty">> \in R BY <2>1, <2>2
  <2> HIDE DEF R
  <2>4. <<<<status>>, <<"server">>, <<type>>, <<"empty">>>> \in Seq(R) BY <2>3
  <2>5. q \in Parts BY <2>4 DEF HeadOf, Parts, R
  <2> QED BY <2>5 DEF HeadOf
<1> HIDE DEF q
<1>2. PICK g : Flatten(g, q, 4) /\ FlattenSeq(q) = g[4]
  <2>1. 4 \in Nat \ {0} OBVIOUS
  <2> QED BY <1>1, <2>1, FlattenIs
<1>3. g[1] = q[1] /\ \A i \in 1..4 : i # 1 => g[i] = g[i - 1] \o q[i]
  <2>1. 4 \in Nat /\ 1 \in 1..4 OBVIOUS
  <2>2. \A i \in 1..4 : g[i] = IF i = 1 THEN q[i] ELSE g[i - 1] \o q[i] BY <1>2, <2>1, FlattenStep
  <2> QED BY <2>1, <2>2
<1>4. g[2] = g[1] \o q[2] /\ g[3] = g[2] \o q[3] /\ g[4] = g[3] \o q[4]
  <2>1. 2 \in 1..4 /\ 3 \in 1..4 /\ 4 \in 1..4 /\ 2 # 1 /\ 3 # 1 /\ 4 # 1 OBVIOUS
  <2>2. g[2] = g[2 - 1] \o q[2] /\ g[3] = g[3 - 1] \o q[3] /\ g[4] = g[4 - 1] \o q[4] BY <1>3, <2>1
  <2>3. 2 - 1 = 1 /\ 3 - 1 = 2 /\ 4 - 1 = 3 OBVIOUS
  <2> QED BY <2>2, <2>3
<1>5. g[4] = ((<<status>> \o <<"server">>) \o <<type>>) \o <<"empty">> BY <1>1, <1>3, <1>4
<1>6. "server" \in Unit /\ "empty" \in Unit BY DEF Unit
<1>7. g[4] = Lead(status, type) BY <1>5, <1>6, FourJoined DEF Lead
<1>8. FlattenSeq(q) = Lead(status, type) BY <1>2, <1>7
<1>9. Lead(status, type) \in Seq(Unit) BY DEF Lead, Unit
<1> QED BY <1>1, <1>8, <1>9 DEF q

LEMMA HeadAnd ==
  ASSUME NEW status \in Unit, NEW type \in Unit, NEW text \in Parts
  PROVE  /\ HeadOf(status, type) \o text \in Parts
         /\ FlattenSeq(HeadOf(status, type) \o text) = Lead(status, type) \o FlattenSeq(text)
         /\ FlattenSeq(text) \in Seq(Unit) /\ Lead(status, type) \o FlattenSeq(text) \in Seq(Unit)
<1>1. HeadOf(status, type) \in Parts /\ FlattenSeq(HeadOf(status, type)) = Lead(status, type)
      /\ Lead(status, type) \in Seq(Unit)
  BY HeadFlattened
<1>2. FlattenSeq(HeadOf(status, type) \o text) = Lead(status, type) \o FlattenSeq(text)
  <2> DEFINE h == HeadOf(status, type)
  <2>1. h \in Seq(Seq(Unit)) /\ text \in Seq(Seq(Unit)) BY <1>1 DEF Parts
  <2> HIDE DEF h
  <2>2. FlattenSeq(h \o text) = FlattenSeq(h) \o FlattenSeq(text) BY <2>1, FlattenConcat
  <2> QED BY <1>1, <2>2 DEF h
<1>3. FlattenSeq(text) \in Seq(Unit) BY FlattenType DEF Parts
<1>4. HeadOf(status, type) \o text \in Parts BY <1>1 DEF Parts
<1>5. Lead(status, type) \o FlattenSeq(text) \in Seq(Unit) BY <1>1, <1>3
<1> QED BY <1>2, <1>3, <1>4, <1>5

(* A page as it is sent, and as it should be.                              *)
LEMMA PageSent ==
  ASSUME NEW status \in Unit, NEW type \in Unit, NEW file \in Parts
  PROVE  /\ HeadOf(status, type) \o Lines(file) \in Parts
         /\ FlattenSeq(HeadOf(status, type) \o Lines(file)) \in Seq(Unit)
         /\ Page(status, type, file) \in Seq(Unit)
         /\ Embeds(FlattenSeq(HeadOf(status, type) \o Lines(file)), Page(status, type, file))
         /\ "zero" \notin ToSet(Page(status, type, file)) =>
               FlattenSeq(HeadOf(status, type) \o Lines(file)) = Page(status, type, file)
<1> DEFINE h == Lead(status, type)
           cut == FlattenSeq(Lines(file))
           whole == FlattenSeq(file)
<1>1. Lines(file) \in Parts /\ cut \in Seq(Unit) /\ Embeds(cut, whole)
      /\ ("zero" \notin ToSet(whole) => cut = whole)
  BY LinesCut DEF Cut
<1>2. HeadOf(status, type) \o Lines(file) \in Parts /\ h \o cut \in Seq(Unit)
      /\ FlattenSeq(HeadOf(status, type) \o Lines(file)) = h \o cut
  BY <1>1, HeadAnd
<1>3. h \in Seq(Unit) BY HeadFlattened
<1>4. whole \in Seq(Unit) BY FlattenType DEF Parts
<1>5. Page(status, type, file) = h \o whole BY DEF Page, Lead
<1> HIDE DEF h, cut, whole
<1>6. Embeds(h \o cut, h \o whole)
  <2>1. Embeds(h, h) BY <1>3, EmbedsSelf
  <2> QED BY <1>1, <1>3, <1>4, <2>1, EmbedsConcat
<1>7. ToSet(h \o whole) = ToSet(h) \cup ToSet(whole) /\ h \o whole \in Seq(Unit) BY <1>3, <1>4, ConcatSet
<1>8. "zero" \notin ToSet(h \o whole) => h \o cut = h \o whole BY <1>1, <1>7
<1> QED BY <1>2, <1>5, <1>6, <1>7, <1>8

LEMMA OneSent ==
  ASSUME NEW p \in Seq(Unit)
  PROVE  /\ HeadOf("200", "text/html") \o <<p>> \in Parts
         /\ FlattenSeq(HeadOf("200", "text/html") \o <<p>>) = Lead("200", "text/html") \o p
         /\ Lead("200", "text/html") \o p \in Seq(Unit)
         /\ Page("200", "text/html", <<p>>) = Lead("200", "text/html") \o p
<1>1. <<p>> \in Parts BY DEF Parts
<1>2. FlattenSeq(<<p>>) = p BY FlattenOne
<1>3. "200" \in Unit /\ "text/html" \in Unit BY DEF Unit
<1>4. Page("200", "text/html", <<p>>) = Lead("200", "text/html") \o FlattenSeq(<<p>>) BY DEF Page, Lead
<1> QED BY <1>1, <1>2, <1>3, <1>4, HeadAnd

LEMMA ReverseIs ==
  ASSUME NEW S, NEW q \in Seq(S)
  PROVE  /\ Reverse(q) \in Seq(S) /\ Len(Reverse(q)) = Len(q) /\ Len(q) \in Nat
         /\ \A i \in 1..Len(q) : Reverse(q)[i] = q[Len(q) - i + 1]
<1>1. Len(q) \in Nat /\ \A i \in 1..Len(q) : Len(q) - i + 1 \in 1..Len(q) OBVIOUS
<1>2. \A i \in 1..Len(q) : q[Len(q) - i + 1] \in S BY <1>1
<1>3. Reverse(q) = [i \in 1..Len(q) |-> q[Len(q) - i + 1]] BY DEF Reverse
<1>4. Reverse(q) \in [1..Len(q) -> S] BY <1>2, <1>3
<1> QED BY <1>1, <1>3, <1>4

(* A suffix is compared from its end.                                      *)
LEMMA SuffixAt ==
  ASSUME NEW S, NEW sub \in Seq(S), NEW url \in Seq(S)
  PROVE  IsSuffix(sub, url) <=>
            Len(sub) <= Len(url) /\ \A i \in 1..Len(sub) : url[Len(url) - i + 1] = sub[Len(sub) - i + 1]
<1> DEFINE a == Reverse(sub)
           b == Reverse(url)
           k == Len(sub)
<1>1. /\ a \in Seq(S) /\ Len(a) = k /\ k \in Nat
      /\ \A i \in 1..k : a[i] = sub[k - i + 1]
  BY ReverseIs
<1>2. /\ b \in Seq(S) /\ Len(b) = Len(url) /\ Len(url) \in Nat
      /\ \A i \in 1..Len(url) : b[i] = url[Len(url) - i + 1]
  BY ReverseIs
<1>3. IsSuffix(sub, url) <=> Len(a) <= Len(b) /\ SubSeq(a, 1, Len(a)) = SubSeq(b, 1, Len(a))
  BY DEF IsSuffix, IsPrefix
<1> HIDE DEF a, b, k
<1>4. CASE k <= Len(url)
  <2>1. k \in 0..Len(a) /\ k \in 0..Len(b) BY <1>1, <1>2, <1>4
  <2>2. /\ SubSeq(a, 1, k) \in Seq(S) /\ Len(SubSeq(a, 1, k)) = k
        /\ \A i \in 1..k : SubSeq(a, 1, k)[i] = a[i]
    BY <1>1, <2>1, FirstPart
  <2>3. /\ SubSeq(b, 1, k) \in Seq(S) /\ Len(SubSeq(b, 1, k)) = k
        /\ \A i \in 1..k : SubSeq(b, 1, k)[i] = b[i]
    BY <1>2, <2>1, FirstPart
  <2>4. SubSeq(a, 1, k) = SubSeq(b, 1, k) <=> \A i \in 1..k : a[i] = b[i]
    <3> DEFINE c == SubSeq(a, 1, k)
               d == SubSeq(b, 1, k)
    <3>1. /\ c \in Seq(S) /\ d \in Seq(S) /\ Len(c) = k /\ Len(d) = k
          /\ \A i \in 1..k : c[i] = a[i] /\ d[i] = b[i]
      BY <2>2, <2>3
    <3> HIDE DEF c, d
    <3>2. c = d <=> \A i \in 1..k : c[i] = d[i] BY <3>1
    <3>3. c = d <=> \A i \in 1..k : a[i] = b[i] BY <3>1, <3>2
    <3> QED BY <3>3 DEF c, d
  <2>5. \A i \in 1..k : i \in 1..Len(url) BY <1>1, <1>2, <1>4
  <2> QED BY <1>1, <1>2, <1>3, <1>4, <2>4, <2>5 DEF k
<1>5. CASE ~(k <= Len(url)) BY <1>1, <1>2, <1>3, <1>5 DEF k
<1> QED BY <1>4, <1>5

(* endsWith asks for a name as long as the suffix, and for its letters.    *)
LEMMA EndsWithIs ==
  ASSUME NEW S, NEW sub \in Seq(S), NEW url \in Seq(S), sub # <<>>
  PROVE  /\ endsWith(url, sub) <=> IsSuffix(Tail(sub), url) /\ Len(url) >= Len(sub)
         /\ IsSuffix(sub, url) => endsWith(url, sub)
<1> DEFINE tail == Tail(sub)
           k == Len(sub)
           same(i) == url[Len(url) - i + 1] = sub[k - i + 1]
<1>1. /\ k \in Nat \ {0} /\ Len(url) \in Nat
      /\ tail \in Seq(S) /\ Len(tail) = k - 1
      /\ \A i \in 1..(k - 1) : tail[i] = sub[i + 1]
  OBVIOUS
<1>2. IsSuffix(tail, url) <=>
         k - 1 <= Len(url) /\ \A i \in 1..(k - 1) : url[Len(url) - i + 1] = tail[(k - 1) - i + 1]
  <2>1. IsSuffix(tail, url) <=>
           Len(tail) <= Len(url) /\ \A i \in 1..Len(tail) : url[Len(url) - i + 1] = tail[Len(tail) - i + 1]
    <3> HIDE DEF tail
    <3> QED BY <1>1, SuffixAt
  <2> QED BY <1>1, <2>1
<1>3. IsSuffix(sub, url) <=> k <= Len(url) /\ \A i \in 1..k : same(i) BY SuffixAt
<1>4. endsWith(url, sub) <=> Len(url) >= k /\ \A i \in 1..(k - 1) : same(i) BY DEF endsWith
<1> HIDE DEF tail, k
<1>5. \A i \in 1..(k - 1) : tail[(k - 1) - i + 1] = sub[k - i + 1]
  <2> TAKE i \in 1..(k - 1)
  <2>1. (k - 1) - i + 1 \in 1..(k - 1) /\ ((k - 1) - i + 1) + 1 = k - i + 1 BY <1>1
  <2> QED BY <1>1, <2>1
<1>6. IsSuffix(tail, url) <=> k - 1 <= Len(url) /\ \A i \in 1..(k - 1) : same(i) BY <1>2, <1>5
<1> HIDE DEF same
<1>7. \A i \in 1..(k - 1) : i \in 1..k BY <1>1
<1> QED BY <1>1, <1>3, <1>4, <1>6, <1>7 DEF tail, k

(* Although endsWith never compares the first character of a suffix, the   *)
(* type it chooses is that of the name's suffix, for every URL but those   *)
(* that end in the letters of a suffix without the dot; and for these it   *)
(* can only be the type of these letters (Server.c:275-284, 337-349).      *)
THEOREM ContentTypeIs ==
  ASSUME NEW url \in Url
  PROVE  /\ contentType(url) \in Types(url) /\ Types(url) \subseteq Unit
         /\ (\A suffix \in {js, css, html} : IsSuffix(Tail(suffix), url) => IsSuffix(suffix, url)) =>
               contentType(url) = RightType(url)
<1> DEFINE E(sub) == endsWith(url, sub)
           D(sub) == IsSuffix(sub, url)
           L(sub) == IsSuffix(Tail(sub), url)
<1>1. /\ js \in Seq(Unit) /\ Len(js) = 3
      /\ css \in Seq(Unit) /\ Len(css) = 4
      /\ html \in Seq(Unit) /\ Len(html) = 5
  <2>1. /\ "." \in Unit /\ "j" \in Unit /\ "s" \in Unit /\ "c" \in Unit
        /\ "h" \in Unit /\ "t" \in Unit /\ "m" \in Unit /\ "l" \in Unit
    BY DEF Unit
  <2> QED BY <2>1 DEF js, css, html
<1>2. url \in Seq(Unit) /\ Len(url) \in Nat BY UrlUnits DEF Url
<1>3. /\ E(js) <=> L(js) /\ Len(url) >= 3
      /\ E(css) <=> L(css) /\ Len(url) >= 4
      /\ E(html) <=> L(html) /\ Len(url) >= 5
      /\ D(js) => E(js)
      /\ D(css) => E(css)
      /\ D(html) => E(html)
  <2>1. js # <<>> /\ css # <<>> /\ html # <<>> BY DEF js, css, html
  <2> QED BY <1>1, <1>2, <2>1, EndsWithIs
<1>4. contentType(url) = IF E(js) THEN "application/javascript"
                         ELSE IF E(css) THEN "text/css"
                         ELSE IF E(html) THEN "text/html" ELSE "text/plain"
  BY DEF contentType
<1>5. RightType(url) = IF D(js) THEN "application/javascript"
                       ELSE IF D(css) THEN "text/css"
                       ELSE IF D(html) THEN "text/html" ELSE "text/plain"
  <2>1. <<js, css, html>>[1] = js /\ <<js, css, html>>[2] = css /\ <<js, css, html>>[3] = html OBVIOUS
  <2> DEFINE ends == <<js, css, html>>
  <2> HIDE DEF ends
  <2>2. RightType(url) = TypeBy(ends, url) BY DEF RightType, ends
  <2>3. ends[1] = js /\ ends[2] = css /\ ends[3] = html BY <2>1 DEF ends
  <2> QED BY <2>2, <2>3 DEF TypeBy
<1> DEFINE loose == TypeBy(<<Tail(js), Tail(css), Tail(html)>>, url)
<1>6. loose = IF L(js) THEN "application/javascript"
              ELSE IF L(css) THEN "text/css"
              ELSE IF L(html) THEN "text/html" ELSE "text/plain"
  <2> DEFINE a == Tail(js)
             b == Tail(css)
             c == Tail(html)
  <2>1. <<a, b, c>>[1] = a /\ <<a, b, c>>[2] = b /\ <<a, b, c>>[3] = c OBVIOUS
  <2> DEFINE ends == <<a, b, c>>
  <2> HIDE DEF ends
  <2>2. ends[1] = a /\ ends[2] = b /\ ends[3] = c BY <2>1 DEF ends
  <2>3. loose = TypeBy(ends, url) BY DEF ends
  <2> QED BY <2>2, <2>3 DEF TypeBy
<1>7. Types(url) = {RightType(url), loose} BY DEF Types
<1>8. /\ "application/javascript" \in Unit /\ "text/css" \in Unit
      /\ "text/html" \in Unit /\ "text/plain" \in Unit
  BY DEF Unit
<1>9. \A suffix \in {js, css, html} : L(suffix) <=> IsSuffix(Tail(suffix), url) OBVIOUS
<1>10. \A suffix \in {js, css, html} : D(suffix) <=> IsSuffix(suffix, url) OBVIOUS
<1> HIDE DEF E, D, L, loose
<1>11. contentType(url) = RightType(url) \/ contentType(url) = loose BY <1>2, <1>3, <1>4, <1>5, <1>6
<1>12. RightType(url) \in Unit /\ loose \in Unit BY <1>5, <1>6, <1>8
<1>13. (\A suffix \in {js, css, html} : L(suffix) => D(suffix)) => contentType(url) = RightType(url)
  BY <1>3, <1>4, <1>5
<1> QED BY <1>7, <1>9, <1>10, <1>11, <1>12, <1>13

LEMMA RequestIs ==
  ASSUME request \in Requests
  PROVE  /\ request.url \in Url /\ request.header \in Nat \ {0} /\ request.length \in Nat
         /\ request.body \in Seq(Unit) /\ Len(request.body) \in Nat /\ Total \in Nat
         /\ Total = request.header + Len(request.body) /\ request.length <= Len(request.body)
<1>1. request \in Request /\ request.length <= Len(request.body) BY RequestAssumption
<1>2. /\ request.url \in Url /\ request.header \in Nat \ {0} /\ request.length \in Nat
      /\ request.body \in Seq(STRING)
  BY <1>1 DEF Request
<1>3. request.body \in Seq(Unit) BY <1>2, TextUnits
<1>4. Len(request.body) \in Nat BY <1>2
<1>5. Total = request.header + Len(request.body) /\ Total \in Nat BY <1>2, <1>4 DEF Total
<1> QED BY <1>1, <1>2, <1>3, <1>4, <1>5

LEMMA MinOfTwo ==
  ASSUME NEW a \in Nat, NEW b \in Nat
  PROVE  Min({a, b}) = IF a <= b THEN a ELSE b
<1>1. CASE a <= b
  <2>1. {a, b} \in SUBSET Nat /\ a \in {a, b} /\ \A i \in {a, b} : a <= i BY <1>1
  <2> QED BY <1>1, <2>1, MinIs
<1>2. CASE ~(a <= b)
  <2>1. {a, b} \in SUBSET Nat /\ b \in {a, b} /\ \A i \in {a, b} : b <= i BY <1>2
  <2> QED BY <1>2, <2>1, MinIs
<1> QED BY <1>1, <1>2

LEMMA TakenIs ==
  /\ Len(Registered) \in Nat /\ MAX_HANDLER_NUM \in Nat
  /\ Min({MAX_HANDLER_NUM, Len(Registered)}) =
        IF MAX_HANDLER_NUM <= Len(Registered) THEN MAX_HANDLER_NUM ELSE Len(Registered)
  /\ Taken = SubSeq(Registered, 1, Min({MAX_HANDLER_NUM, Len(Registered)}))
  /\ Taken \in Seq(Handler)
<1>1. Len(Registered) \in Nat /\ MAX_HANDLER_NUM \in Nat BY HandlerAssumption, LimitAssumption
<1> DEFINE m == Min({MAX_HANDLER_NUM, Len(Registered)})
<1>2. m = IF MAX_HANDLER_NUM <= Len(Registered) THEN MAX_HANDLER_NUM ELSE Len(Registered)
  BY <1>1, MinOfTwo
<1>3. m \in 0..Len(Registered) BY <1>1, <1>2
<1> HIDE DEF m
<1>4. SubSeq(Registered, 1, m) \in Seq(Handler) BY <1>3, HandlerAssumption, FirstPart
<1> QED BY <1>1, <1>2, <1>4 DEF m, Taken

(* The handler that callProperHandler finds is the owner of the request.   *)
LEMMA OwnerIs ==
  ASSUME handlers = Taken
  PROVE  /\ Found = {} => Owner = 0
         /\ Found # {} => Owner # 0 /\ Taken[Owner].does = Does /\ Does \in {"get", "post"}
<1> DEFINE I == {i \in 1..Len(Taken) : Taken[i].method = request.method /\ Taken[i].url = request.url}
<1>1. Owner = IF I # {} THEN Min(I) ELSE 0 BY DEF Owner, SelectInSeq
<1>2. Taken \in Seq(Handler) BY TakenIs
<1>3. DOMAIN Taken = 1..Len(Taken) BY <1>2
<1>4. Found = I BY <1>3 DEF Found, Matches
<1>5. I \in SUBSET Nat /\ I \subseteq 1..Len(Taken) OBVIOUS
<1> HIDE DEF I
<1>6. ASSUME I # {} PROVE Min(I) \in I
  <2>1. PICK t \in I : \A u \in I : t <= u BY <1>5, <1>6, LeastNat
  <2>2. Min(I) = t BY <1>5, <2>1, MinIs
  <2> QED BY <2>2
<1>7. ASSUME Found # {}
      PROVE  Owner # 0 /\ Taken[Owner].does = Does /\ Does \in {"get", "post"}
  <2>1. Owner = Min(I) /\ Min(I) \in 1..Len(Taken) BY <1>1, <1>4, <1>5, <1>6, <1>7
  <2>2. Taken[Owner].does = Does BY <1>4, <2>1 DEF Does
  <2>3. Taken[Owner] \in Handler BY <1>2, <2>1
  <2>4. Taken[Owner].does \in {"get", "post"} BY <2>3 DEF Handler
  <2>5. Owner # 0 BY <2>1
  <2> QED BY <2>2, <2>4, <2>5
<1> QED BY <1>1, <1>4, <1>7

(* The calls that answer the request when n units of it have been read.    *)
Calls(n) == IF Found = {} THEN defaultResonse ELSE Answer(Does, n)

LEMMA BodyPart ==
  ASSUME request \in Requests, NEW n \in request.header..Total
  PROVE  /\ n - request.header \in 0..Len(request.body)
         /\ ReceivedBody(n) \in Seq(Unit) /\ Embeds(ReceivedBody(n), request.body)
         /\ n = Total => ReceivedBody(n) = request.body
<1> DEFINE k == n - request.header
           body == request.body
<1>1. request.header \in Nat /\ body \in Seq(Unit) /\ Len(body) \in Nat /\ Total = request.header + Len(body)
  BY RequestIs
<1>2. k \in 0..Len(body) /\ (n = Total => k = Len(body)) BY <1>1
<1>3. ReceivedBody(n) = SubSeq(body, 1, k) BY DEF ReceivedBody
<1> HIDE DEF k, body
<1>4. SubSeq(body, 1, k) \in Seq(Unit) /\ Embeds(SubSeq(body, 1, k), body)
  BY <1>1, <1>2, FirstPart, EmbedsFirst
<1>5. SubSeq(body, 1, Len(body)) = body BY <1>1, SubSeqFull
<1>6. n = Total => SubSeq(body, 1, k) = body BY <1>2, <1>5
<1> QED BY <1>2, <1>3, <1>4, <1>6 DEF k, body

LEMMA PostIs ==
  ASSUME request \in Requests, Found # {}, Does = "post", NEW n \in request.header..Total
  PROVE  /\ Calls(n) \in Parts
         /\ FlattenSeq(Calls(n)) = Lead("200", "text/html") \o ReceivedBody(n)
<1>1. Calls(n) = HeadOf("200", "text/html") \o <<ReceivedBody(n)>> BY DEF Calls, Answer
<1>2. ReceivedBody(n) \in Seq(Unit) BY BodyPart
<1> QED BY <1>1, <1>2, OneSent

(* The response with the type that the code chooses.                       *)
Meant == Reply(contentType(request.url))

LEMMA MeantExpected ==
  ASSUME request \in Requests
  PROVE  Meant \in Expected /\ contentType(request.url) \in Unit
<1>1. request.url \in Url BY RequestIs
<1>2. contentType(request.url) \in Types(request.url) /\ Types(request.url) \subseteq Unit
  BY <1>1, ContentTypeIs
<1> QED BY <1>2 DEF Meant, Expected

(* What is sent for a request that is read up to the n-th unit is that     *)
(* response with some of its elements left out, and all of it when the     *)
(* request is read and no zero cuts a line.                                *)
Answered(r, n) ==
    /\ FlattenSeq(Calls(n)) = r
    /\ r \in Seq(Unit) /\ Meant \in Seq(Unit) /\ Meant \in Expected
    /\ Embeds(r, Meant)
    /\ ~Binary /\ n = Total => r = Meant

LEMMA AnswerGet ==
  ASSUME request \in Requests, handlers = Taken, Found # {}, Does = "get", NEW n \in request.header..Total
  PROVE  Calls(n) \in Parts /\ Answered(FlattenSeq(Calls(n)), n)
<1>1. Calls(n) = HeadOf("200", "text/html") \o <<<<"demo">>>> BY DEF Calls, Answer
<1>2. Meant = Page("200", "text/html", <<<<"demo">>>>) BY OwnerIs DEF Meant, Reply
<1>3. <<"demo">> \in Seq(Unit)
  <2>1. "demo" \in Unit BY DEF Unit
  <2> QED BY <2>1
<1>4. /\ Calls(n) \in Parts /\ FlattenSeq(Calls(n)) = Meant /\ Meant \in Seq(Unit)
  BY <1>1, <1>2, <1>3, OneSent
<1>5. Embeds(Meant, Meant) BY <1>4, EmbedsSelf
<1> QED BY <1>4, <1>5, MeantExpected DEF Answered

LEMMA AnswerPost ==
  ASSUME request \in Requests, handlers = Taken, Found # {}, Does = "post", NEW n \in request.header..Total
  PROVE  Calls(n) \in Parts /\ Answered(FlattenSeq(Calls(n)), n)
<1> DEFINE h == Lead("200", "text/html")
           p == ReceivedBody(n)
           body == request.body
<1>1. Calls(n) \in Parts /\ FlattenSeq(Calls(n)) = h \o p BY PostIs
<1>2. p \in Seq(Unit) /\ Embeds(p, body) /\ (n = Total => p = body) BY BodyPart
<1>3. body \in Seq(Unit) BY RequestIs
<1>4. Meant = Page("200", "text/html", <<body>>) BY OwnerIs DEF Meant, Reply
<1>5. Meant = h \o body BY <1>3, <1>4, OneSent
<1>6. h \in Seq(Unit)
  <2>1. "200" \in Unit /\ "text/html" \in Unit BY DEF Unit
  <2> QED BY <2>1, HeadFlattened
<1> HIDE DEF h, p, body
<1>7. Embeds(h \o p, h \o body)
  <2>1. Embeds(h, h) BY <1>6, EmbedsSelf
  <2> QED BY <1>2, <1>3, <1>6, <2>1, EmbedsConcat
<1>8. h \o p \in Seq(Unit) /\ h \o body \in Seq(Unit) BY <1>2, <1>3, <1>6
<1>9. n = Total => h \o p = h \o body BY <1>2
<1> QED BY <1>1, <1>5, <1>7, <1>8, <1>9, MeantExpected DEF Answered

LEMMA AnswerPage ==
  ASSUME request \in Requests, handlers = Taken, Found = {}, NEW n \in request.header..Total
  PROVE  Calls(n) \in Parts /\ Answered(FlattenSeq(Calls(n)), n)
<1>1. Calls(n) = defaultResonse /\ Owner = 0 BY OwnerIs DEF Calls
<1>2. CASE request.url \in DOMAIN Files
  <2> DEFINE type == contentType(request.url)
             file == Files[request.url]
             r == FlattenSeq(HeadOf("200", type) \o Lines(file))
  <2>1. Calls(n) = HeadOf("200", type) \o Lines(file) BY <1>1, <1>2 DEF defaultResonse
  <2>2. Meant = Page("200", type, file) BY <1>1, <1>2 DEF Meant, Reply
  <2>3. type \in Unit BY MeantExpected
  <2>4. file \in Parts BY <1>2, FileAssumption, TextUnits
  <2> HIDE DEF type, file
  <2>5. "200" \in Unit BY DEF Unit
  <2>6. Calls(n) \in Parts /\ r \in Seq(Unit) BY <2>1, <2>3, <2>4, <2>5, PageSent
  <2>7. Meant \in Seq(Unit) /\ Embeds(r, Meant) /\ ("zero" \notin ToSet(Meant) => r = Meant)
    BY <2>2, <2>3, <2>4, <2>5, PageSent
  <2>8. FlattenSeq(Calls(n)) = r BY <2>1 DEF r
  <2> HIDE DEF r
  <2> QED BY <2>6, <2>7, <2>8, MeantExpected DEF Answered, Binary
<1>3. CASE request.url \notin DOMAIN Files
  <2> DEFINE r == FlattenSeq(HeadOf("400", "text/html") \o Lines(ErrorPage))
  <2>1. Calls(n) = HeadOf("400", "text/html") \o Lines(ErrorPage)
    BY <1>1, <1>3 DEF defaultResonse, sendErrorPage
  <2>2. Meant = Page("400", "text/html", ErrorPage) BY <1>1, <1>3 DEF Meant, Reply
  <2>3. "400" \in Unit /\ "text/html" \in Unit BY DEF Unit
  <2>4. ErrorPage \in Parts BY FileAssumption, TextUnits
  <2>5. Calls(n) \in Parts /\ r \in Seq(Unit) BY <2>1, <2>3, <2>4, PageSent
  <2>6. Meant \in Seq(Unit) /\ Embeds(r, Meant) /\ ("zero" \notin ToSet(Meant) => r = Meant)
    BY <2>2, <2>3, <2>4, PageSent
  <2>7. FlattenSeq(Calls(n)) = r BY <2>1
  <2> HIDE DEF r
  <2> QED BY <2>5, <2>6, <2>7, MeantExpected DEF Answered, Binary
<1> QED BY <1>2, <1>3

LEMMA AnswerIs ==
  ASSUME request \in Requests, handlers = Taken, NEW n \in request.header..Total
  PROVE  Calls(n) \in Parts /\ Answered(FlattenSeq(Calls(n)), n)
<1>1. CASE Found = {} BY <1>1, AnswerPage
<1>2. CASE Found # {} BY <1>2, OwnerIs, AnswerGet, AnswerPost
<1> QED BY <1>1, <1>2

-----------------------------------------------------------------------------
(* The inductive invariant of a connection                                 *)

Answering == stage \in {"send", "body", "close", "closed"}
Response == FlattenSeq(Calls(got))

BuffersOK == todo \in Parts /\ sndbuf \in Seq(Unit) /\ received \in Seq(Unit)

(* main adds the handlers in order, and the server starts with all it took.*)
TableOK ==
    /\ Len(handlers) \in 0..Len(Registered) /\ handlers = SubSeq(Registered, 1, Len(handlers))
    /\ stage # "addHandler" => handlers = Taken

(* What the stage says of the connection.                                  *)
StageOK ==
    /\ stage = "addHandler" => got = 0
    /\ ~Answering => todo = <<>> /\ received = <<>> /\ sndbuf = <<>> /\ conn = "open"
    /\ Answering => got >= request.header
    /\ conn = "open" <=> stage # "closed"
    /\ stage \in {"close", "closed"} => todo = <<>>
    /\ conn = "closed" => got = sent

(* The calls already made were given called: of it some elements were      *)
(* taken, and all when the response fits the send buffer.                  *)
Taking(called) ==
    /\ called \o FlattenSeq(todo) = Response
    /\ Embeds(Sent, called)
    /\ Len(Response) <= SndBuf /\ conn # "reset" => Sent = called
CallsOK == Answering => \E called \in Seq(Unit) : Taking(called)

ConnInv == ConnTypeOK /\ BuffersOK /\ TableOK /\ StageOK /\ CallsOK /\ HeaderFits

LEMMA EmptyFacts == <<>> \in Parts /\ <<>> \in Seq(Unit) /\ FlattenSeq(<<>>) = <<>>
BY DEF Parts, FlattenSeq

LEMMA ConnInitInv == ConnInit => ConnInv
<1> SUFFICES ASSUME ConnInit PROVE ConnInv OBVIOUS
<1>1. Total \in Nat /\ request.header \in Nat \ {0} /\ Len(request.body) \in Nat /\ request \in Requests
  BY RequestIs DEF ConnInit
<1>2. ConnTypeOK
  <2>1. Len(<<>>) = 0 OBVIOUS
  <2>2. MAX_HANDLER_NUM \in Nat /\ MAX_HEADER_SIZE \in Nat /\ SndBuf \in Nat BY LimitAssumption
  <2> QED BY <1>1, <2>1, <2>2 DEF ConnInit, ConnTypeOK
<1>3. BuffersOK BY EmptyFacts DEF ConnInit, BuffersOK
<1>4. TableOK
  <2>1. Len(handlers) = 0 /\ handlers = <<>> /\ stage = "addHandler" BY DEF ConnInit
  <2>2. Len(Registered) \in Nat BY TakenIs
  <2>3. SubSeq(Registered, 1, 0) = <<>> BY SubSeqEmpty
  <2> QED BY <2>1, <2>2, <2>3 DEF TableOK
<1>5. StageOK BY DEF ConnInit, StageOK, Answering
<1>6. CallsOK BY DEF ConnInit, CallsOK, Answering
<1>7. HeaderFits BY DEF ConnInit, HeaderFits
<1> QED BY <1>2, <1>3, <1>4, <1>5, <1>6, <1>7 DEF ConnInv

LEMMA ConnFacts ==
  ASSUME ConnTypeOK
  PROVE  /\ request \in Requests /\ request.header \in Nat \ {0} /\ Len(request.body) \in Nat
         /\ Total \in Nat /\ Total = request.header + Len(request.body)
         /\ sent \in Nat /\ got \in Nat /\ got <= sent /\ sent <= Total
         /\ MAX_HANDLER_NUM \in Nat /\ MAX_HEADER_SIZE \in Nat /\ SndBuf \in Nat
<1>1. request \in Requests BY DEF ConnTypeOK
<1>2. request.header \in Nat \ {0} /\ Len(request.body) \in Nat /\ Total \in Nat
      /\ Total = request.header + Len(request.body)
  BY <1>1, RequestIs
<1>3. sent \in 0..(request.header + Len(request.body)) /\ got \in 0..sent BY DEF ConnTypeOK
<1>4. MAX_HANDLER_NUM \in Nat /\ MAX_HEADER_SIZE \in Nat /\ SndBuf \in Nat BY LimitAssumption
<1> QED BY <1>1, <1>2, <1>3, <1>4

(* The response while it is sent.                                          *)
LEMMA ResponseIs ==
  ASSUME ConnInv, Answering
  PROVE  got \in request.header..Total /\ handlers = Taken /\ Response \in Seq(Unit)
<1>1. handlers = Taken /\ got >= request.header BY DEF ConnInv, TableOK, StageOK, Answering
<1>2. got \in request.header..Total
  <2>1. request.header \in Nat /\ Total \in Nat /\ got \in Nat /\ got <= Total
    BY ConnFacts DEF ConnInv
  <2> QED BY <1>1, <2>1
<1>3. request \in Requests BY DEF ConnInv, ConnTypeOK
<1> QED BY <1>1, <1>2, <1>3, AnswerIs DEF Response, Answered

LEMMA ResponseNext ==
  ASSUME UNCHANGED <<handlers, request>>
  PROVE  Response' = FlattenSeq(Calls(got')) /\ (got' = got => Response' = Response)
<1>1. Found' = Found BY DEF Found, Matches
<1>2. Does' = Does BY <1>1 DEF Does
<1>3. defaultResonse' = defaultResonse BY DEF defaultResonse, sendErrorPage
<1>4. Response' = FlattenSeq(Calls(got'))
  BY <1>1, <1>2, <1>3 DEF Response, Calls, Answer, ReceivedBody
<1>5. got' = got => Response' = Response BY <1>4 DEF Response
<1> QED BY <1>4, <1>5

LEMMA AddHandlerInv == ASSUME ConnInv, AddHandler PROVE ConnInv'
<1> USE DEF ConnInv, AddHandler, netVars
<1>1. stage = "addHandler" /\ ~Answering BY DEF Answering
<1>2. /\ Len(handlers) \in 0..Len(Registered) /\ handlers = SubSeq(Registered, 1, Len(handlers))
      /\ Len(handlers) <= MAX_HANDLER_NUM /\ Len(Registered) \in Nat /\ MAX_HANDLER_NUM \in Nat
      /\ Len(handlers) \in Nat
  BY TakenIs DEF ConnTypeOK, TableOK
<1>3. stage' # "closed" /\ ~Answering' BY <1>1 DEF Answering
<1>4. StageOK' BY <1>1, <1>3 DEF StageOK, Answering
<1>5. CallsOK' BY <1>3 DEF CallsOK
<1>6. HeaderFits' BY DEF HeaderFits
<1>7. BuffersOK' BY DEF BuffersOK
<1>8. got <= MAX_HEADER_SIZE
  <2>1. got = 0 BY DEF StageOK
  <2> QED BY <2>1, ConnFacts
<1>9. CASE Left = <<>> \/ Full
  <2>1. stage' = "header" /\ handlers' = handlers BY <1>9
  <2>2. ConnTypeOK' BY <1>8, <2>1 DEF ConnTypeOK
  <2>3. Len(handlers) = Min({MAX_HANDLER_NUM, Len(Registered)})
    <3>1. CASE Full BY <1>2, <3>1, TakenIs DEF Full
    <3>2. CASE Left = <<>>
      <4>1. Len(handlers) = Len(Registered)
        <5> SUFFICES ASSUME Len(handlers) < Len(Registered) PROVE FALSE BY <1>2
        <5> DEFINE k == Len(handlers) + 1
        <5>1. k \in Int /\ Len(Registered) \in Int /\ k <= Len(Registered) BY <1>2
        <5>2. \A i \in k..Len(Registered) : Registered[i] \in Handler BY <1>2, HandlerAssumption
        <5>3. Len(SubSeq(Registered, k, Len(Registered))) = Len(Registered) - k + 1
          BY ONLY <5>1, <5>2, SubSeqProperties
        <5>4. Len(Left) = Len(Registered) - k + 1 BY <5>3 DEF Left
        <5>5. Len(Left) = 0 BY <3>2
        <5> QED BY <1>2, <5>4, <5>5
      <4> QED BY <1>2, <4>1, TakenIs
    <3> QED BY <1>9, <3>1, <3>2
  <2>4. handlers = Taken BY <1>2, <2>3, TakenIs
  <2>5. TableOK' BY <1>2, <2>1, <2>4 DEF TableOK, Taken
  <2> QED BY <1>4, <1>5, <1>6, <1>7, <2>2, <2>5
<1>10. CASE ~(Left = <<>> \/ Full)
  <2> DEFINE k == Len(handlers) + 1
  <2>1. handlers' = Append(handlers, Head(Left)) /\ stage' = stage BY <1>10
  <2>2. k \in 1..Len(Registered)
    <3> SUFFICES ASSUME ~(k <= Len(Registered)) PROVE FALSE BY <1>2
    <3>1. Left = <<>> BY <1>2, SubSeqEmpty DEF Left
    <3> QED BY <1>10, <3>1
  <2>3. Head(Left) = Registered[k]
    <3>1. Len(Registered) \in k..Len(Registered) BY <1>2, <2>2
    <3> QED BY <2>2, <3>1, HandlerAssumption, HeadTailOfSubSeq DEF Left
  <2>4. SubSeq(Registered, 1, k) = SubSeq(Registered, 1, k - 1) \o <<Registered[k]>>
    <3>1. 1 \in 1..Len(Registered) /\ k \in 1..Len(Registered) BY <1>2, <2>2
    <3> HIDE DEF k
    <3> QED BY <3>1, HandlerAssumption, SubSeqRecursiveSecond
  <2>5. k - 1 = Len(handlers) /\ k \in Nat BY <1>2
  <2>6. handlers \in Seq(Handler)
    <3>1. SubSeq(Registered, 1, Len(handlers)) \in Seq(Handler) BY <1>2, HandlerAssumption, FirstPart
    <3> QED BY <1>2, <3>1
  <2>7. Registered[k] \in Handler BY <2>2, HandlerAssumption
  <2> HIDE DEF k
  <2>8. Append(handlers, Registered[k]) = handlers \o <<Registered[k]>> BY <2>6, <2>7, AppendIsConcat
  <2>9. handlers' = SubSeq(Registered, 1, k) BY <1>2, <2>1, <2>3, <2>4, <2>5, <2>8
  <2>10. Len(handlers') = k
    <3>1. k \in 0..Len(Registered) BY <2>2
    <3>2. Len(SubSeq(Registered, 1, k)) = k BY <3>1, HandlerAssumption, FirstPart
    <3> QED BY <2>9, <3>2
  <2>11. k <= MAX_HANDLER_NUM BY <1>2, <1>10, <2>5 DEF Full
  <2>12. ConnTypeOK' BY <2>1, <2>10, <2>11 DEF ConnTypeOK
  <2>13. TableOK' BY <1>1, <2>1, <2>2, <2>9, <2>10 DEF TableOK
  <2> QED BY <1>4, <1>5, <1>6, <1>7, <2>12, <2>13
<1> QED BY <1>9, <1>10

(* Steps that leave the handlers, the request and the stage alone.         *)
LEMMA SameTable == ASSUME TableOK, UNCHANGED <<handlers, stage>> PROVE TableOK'
BY DEF TableOK, Taken

(* A part of what is in the send buffer, and the rest.                     *)
LEMMA PartOf ==
  ASSUME NEW S, NEW q \in Seq(S), NEW n \in 0..Len(q)
  PROVE  /\ SubSeq(q, 1, n) \in Seq(S) /\ Len(SubSeq(q, 1, n)) = n
         /\ SubSeq(q, n + 1, Len(q)) \in Seq(S) /\ Len(SubSeq(q, n + 1, Len(q))) = Len(q) - n
         /\ SubSeq(q, 1, n) \o SubSeq(q, n + 1, Len(q)) = q
<1>0. Len(q) \in Nat /\ n \in Nat /\ n <= Len(q) OBVIOUS
<1>1. SubSeq(q, 1, n) \in Seq(S) /\ Len(SubSeq(q, 1, n)) = n BY FirstPart
<1>2. SubSeq(q, n + 1, Len(q)) \in Seq(S) /\ Len(SubSeq(q, n + 1, Len(q))) = Len(q) - n
  <2> DEFINE m == n + 1
  <2>1. m \in Int /\ Len(q) \in Int /\ \A i \in m..Len(q) : q[i] \in S BY <1>0
  <2> HIDE DEF m
  <2>2. /\ SubSeq(q, m, Len(q)) \in Seq(S)
        /\ Len(SubSeq(q, m, Len(q))) = IF m <= Len(q) THEN Len(q) - m + 1 ELSE 0
    BY ONLY <2>1, SubSeqProperties
  <2>3. (IF m <= Len(q) THEN Len(q) - m + 1 ELSE 0) = Len(q) - n BY <1>0 DEF m
  <2> QED BY <2>2, <2>3 DEF m
<1>3. SubSeq(q, 1, n) \o SubSeq(q, n + 1, Len(q)) = q
  <2>1. 1 \in 1..(Len(q) + 1) /\ n \in (1 - 1)..Len(q) /\ Len(q) \in n..Len(q) BY <1>0
  <2>2. SubSeq(q, 1, n) \o SubSeq(q, n + 1, Len(q)) = SubSeq(q, 1, Len(q)) BY <2>1, ConcatAdjacentSubSeq
  <2>3. SubSeq(q, 1, Len(q)) = q BY SubSeqFull
  <2> QED BY <2>2, <2>3
<1> QED BY <1>1, <1>2, <1>3

(* What a reset leaves of the send buffer.                                 *)
LEMMA ResetLeaves ==
  ASSUME BuffersOK, NEW p \in Prefixed(sndbuf)
  PROVE  /\ p \in Seq(Unit) /\ Len(p) <= Len(sndbuf)
         /\ \A called \in Seq(Unit) : Embeds(Sent, called) => Embeds(received \o p, called)
<1>1. sndbuf \in Seq(Unit) /\ received \in Seq(Unit) BY DEF BuffersOK
<1>2. PICK n \in 0..Len(sndbuf) : p = SubSeq(sndbuf, 1, n) BY DEF Prefixed
<1> DEFINE r == SubSeq(sndbuf, n + 1, Len(sndbuf))
<1>3. p \in Seq(Unit) /\ Len(p) = n /\ r \in Seq(Unit) /\ p \o r = sndbuf BY <1>1, <1>2, PartOf
<1> HIDE DEF r
<1>4. Grouped(received, p, r) BY <1>1, <1>3, GroupedIs
<1>5. Sent = (received \o p) \o r BY <1>3, <1>4 DEF Grouped, Sent
<1>6. received \o p \in Seq(Unit) BY <1>1, <1>3
<1>7. ASSUME NEW called \in Seq(Unit), Embeds(Sent, called) PROVE Embeds(received \o p, called)
  <2>1. Embeds((received \o p) \o r, called) BY <1>5, <1>7
  <2> QED BY <1>3, <1>6, <2>1, EmbedsLeft
<1>8. Len(p) <= Len(sndbuf) BY <1>2, <1>3
<1> QED BY <1>3, <1>7, <1>8

LEMMA ClientSendsInv == ASSUME ConnInv, ClientSends PROVE ConnInv'
<1> USE DEF ConnInv, ClientSends
<1>1. TableOK' BY SameTable
<1>2. HeaderFits' BY DEF HeaderFits
<1>3. Response' = Response BY ResponseNext
<1>4. Answering' = Answering BY DEF Answering
<1>5. CASE conn = "open"
  <2>1. PICK n \in (sent + 1)..Total : sent' = n /\ UNCHANGED <<conn, sndbuf>> BY <1>5
  <2>2. ConnTypeOK'
    <3>1. sent' \in 0..(request.header + Len(request.body)) /\ got \in 0..sent' BY <2>1, ConnFacts
    <3> QED BY <2>1, <3>1 DEF ConnTypeOK
  <2>3. BuffersOK' BY <2>1 DEF BuffersOK
  <2>4. StageOK' BY <1>5, <2>1 DEF StageOK, Answering
  <2>5. CallsOK' BY <1>3, <1>4, <2>1 DEF CallsOK, Taking, Sent
  <2> QED BY <1>1, <1>2, <2>2, <2>3, <2>4, <2>5
<1>6. CASE conn # "open"
  <2>1. sent' = Total /\ conn' = "reset" /\ sndbuf' \in Prefixed(sndbuf) BY <1>6
  <2>2. sndbuf' \in Seq(Unit) /\ Len(sndbuf') <= Len(sndbuf)
        /\ \A called \in Seq(Unit) : Embeds(Sent, called) => Embeds(received \o sndbuf', called)
    BY <2>1, ResetLeaves
  <2>3. ConnTypeOK'
    <3>1. sent' \in 0..(request.header + Len(request.body)) /\ got \in 0..sent' BY <2>1, ConnFacts
    <3>2. Len(sndbuf') <= SndBuf
      <4>1. Len(sndbuf) \in Nat /\ Len(sndbuf') \in Nat BY <2>2 DEF BuffersOK
      <4>2. Len(sndbuf) <= SndBuf BY DEF ConnTypeOK
      <4> QED BY <2>2, <4>1, <4>2, ConnFacts
    <3> QED BY <2>1, <3>1, <3>2 DEF ConnTypeOK
  <2>4. BuffersOK' BY <2>2 DEF BuffersOK
  <2>5. StageOK' BY <1>6, <2>1 DEF StageOK, Answering
  <2>6. CallsOK'
    <3> SUFFICES ASSUME Answering PROVE \E called \in Seq(Unit) : Taking(called)' BY <1>4 DEF CallsOK
    <3>1. PICK called \in Seq(Unit) : Taking(called) BY DEF CallsOK
    <3>2. Taking(called)' BY <1>3, <2>1, <2>2, <3>1 DEF Taking, Sent
    <3> QED BY <3>2
  <2> QED BY <1>1, <1>2, <2>3, <2>4, <2>5, <2>6
<1> QED BY <1>5, <1>6

LEMMA ClientReadsInv == ASSUME ConnInv, ClientReads PROVE ConnInv'
<1> USE DEF ConnInv, ClientReads
<1>1. TableOK' BY SameTable
<1>2. HeaderFits' BY DEF HeaderFits
<1>3. Response' = Response BY ResponseNext
<1>4. Answering' = Answering BY DEF Answering
<1>5. sndbuf \in Seq(Unit) /\ received \in Seq(Unit) /\ Len(sndbuf) \in Nat BY DEF BuffersOK
<1>6. PICK n \in 1..Len(sndbuf) :
         /\ received' = received \o SubSeq(sndbuf, 1, n)
         /\ sndbuf' = SubSeq(sndbuf, n + 1, Len(sndbuf))
  OBVIOUS
<1> DEFINE p == SubSeq(sndbuf, 1, n)
<1>7. p \in Seq(Unit) /\ sndbuf' \in Seq(Unit) /\ Len(sndbuf') = Len(sndbuf) - n /\ p \o sndbuf' = sndbuf
  <2>1. n \in 0..Len(sndbuf) BY <1>5
  <2> QED BY <1>5, <1>6, <2>1, PartOf
<1>8. received' = received \o p BY <1>6
<1> HIDE DEF p
<1>9. received' \in Seq(Unit)
  <2>1. received \o p \in Seq(Unit) BY <1>5, <1>7, ConcatAt
  <2> QED BY <1>8, <2>1
<1>10. Sent' = Sent
  <2>1. Grouped(received, p, sndbuf') BY <1>5, <1>7, GroupedIs
  <2> QED BY <1>7, <1>8, <2>1 DEF Grouped, Sent
<1>11. ConnTypeOK'
  <2>1. Len(sndbuf') <= SndBuf
    <3>1. Len(sndbuf) <= SndBuf BY DEF ConnTypeOK
    <3>2. SndBuf \in Nat /\ n \in Nat BY LimitAssumption
    <3>3. Len(sndbuf') = Len(sndbuf) - n /\ Len(sndbuf) \in Nat BY <1>5, <1>7
    <3> QED BY ONLY <3>1, <3>2, <3>3
  <2> QED BY <2>1 DEF ConnTypeOK
<1>12. BuffersOK' BY <1>7, <1>9 DEF BuffersOK
<1>13. sndbuf # <<>>
  <2>1. Len(sndbuf) # 0 BY <1>5, <1>6
  <2> QED BY <2>1
<1>14. StageOK' BY <1>13 DEF StageOK, Answering
<1>15. CallsOK' BY <1>3, <1>4, <1>10 DEF CallsOK, Taking
<1> QED BY <1>1, <1>2, <1>11, <1>12, <1>14, <1>15

LEMMA ReadHeaderInv == ASSUME ConnInv, ReadHeader PROVE ConnInv'
<1> USE DEF ConnInv, ReadHeader, netVars
<1>1. stage = "header" /\ ~Answering BY DEF Answering
<1>2. todo = <<>> /\ received = <<>> /\ sndbuf = <<>> /\ conn = "open" BY <1>1 DEF StageOK
<1>3. got <= MAX_HEADER_SIZE BY <1>1 DEF ConnTypeOK
<1>4. got' \in Nat /\ got' <= MAX_HEADER_SIZE /\ got' <= sent
  <2>1. HeaderRoom \in Nat /\ sent - got \in Nat BY <1>3, ConnFacts DEF HeaderRoom
  <2>2. Min({HeaderRoom, sent - got}) = IF HeaderRoom <= sent - got THEN HeaderRoom ELSE sent - got
    BY <2>1, MinOfTwo
  <2>3. PICK n \in 1..Min({HeaderRoom, sent - got}) : got' = got + n OBVIOUS
  <2>4. n <= HeaderRoom /\ n <= sent - got /\ n \in Nat BY <2>1, <2>2, <2>3
  <2>5. n <= MAX_HEADER_SIZE - got BY <2>4 DEF HeaderRoom
  <2>6. got \in Nat /\ sent \in Nat /\ MAX_HEADER_SIZE \in Nat BY ConnFacts
  <2> QED BY ONLY <2>3, <2>4, <2>5, <2>6
<1>5. HeaderFits'
  <2> SUFFICES ASSUME request.header <= MAX_HEADER_SIZE PROVE alive' BY DEF HeaderFits
  <2>1. request.header \in Nat /\ MAX_HEADER_SIZE \in Nat BY ConnFacts
  <2>2. got' < request.header => MoreHeader(got') BY <1>4, <2>1 DEF MoreHeader
  <2>3. alive' = (MoreHeader(got') \/ got' >= request.header) BY DEF ReadHeader
  <2>4. got' < request.header \/ got' >= request.header BY <1>4, <2>1
  <2> QED BY <2>2, <2>3, <2>4
<1>6. handlers = Taken BY <1>1 DEF TableOK
<1>7. TableOK' BY <1>6 DEF TableOK, Taken
<1>8. got' \in 0..sent BY <1>4, ConnFacts
<1>9. CASE got' < request.header
  <2>1. stage' = stage /\ todo' = todo BY <1>9
  <2>2. ~Answering' BY <1>1, <2>1 DEF Answering
  <2>3. ConnTypeOK' BY <1>4, <1>8, <2>1 DEF ConnTypeOK
  <2>4. BuffersOK' BY <2>1 DEF BuffersOK
  <2>5. StageOK' BY <1>1, <1>2, <2>1, <2>2 DEF StageOK
  <2>6. CallsOK' BY <2>2 DEF CallsOK
  <2> QED BY <1>5, <1>7, <2>3, <2>4, <2>5, <2>6
<1>10. CASE ~(got' < request.header)
  <2>1. stage' = "send" /\ todo' = Calls(got') BY <1>10 DEF Calls
  <2>2. got' \in request.header..Total BY <1>4, <1>10, ConnFacts
  <2>3. todo' \in Parts /\ Answered(FlattenSeq(Calls(got')), got')
    BY <1>6, <2>1, <2>2, ConnFacts, AnswerIs
  <2>4. Response' = FlattenSeq(todo') BY <2>1, ResponseNext
  <2>5. Response' \in Seq(Unit) BY <2>1, <2>3, <2>4 DEF Answered
  <2>6. ConnTypeOK' BY <1>4, <1>8, <2>1 DEF ConnTypeOK
  <2>7. BuffersOK' BY <2>3 DEF BuffersOK
  <2>8. Answering' /\ stage' # "closed" BY <2>1 DEF Answering
  <2>9. StageOK' BY <1>2, <1>10, <2>1, <2>2, <2>8 DEF StageOK
  <2>10. Taking(<<>>)'
    <3>1. <<>> \o Response' = Response' BY <2>5, ConcatEmptySeq
    <3>2. Sent' = <<>>
      <4>1. Sent' = <<>> \o <<>> BY <1>2 DEF Sent
      <4> QED BY <4>1, EmptyFacts, ConcatEmptySeq
    <3>3. Embeds(<<>>, <<>>) BY EmptyFacts, EmbedsSelf
    <3> QED BY <2>4, <3>1, <3>2, <3>3 DEF Taking
  <2>11. CallsOK' BY <2>10, EmptyFacts DEF CallsOK
  <2> QED BY <1>5, <1>7, <2>6, <2>7, <2>9, <2>11
<1> QED BY <1>9, <1>10

(* A call takes the beginning of its data, and all of it if there is room. *)
LEMMA CallTakes ==
  ASSUME ConnInv, SendCall, NEW h \in Seq(Unit), h = Head(todo)
  PROVE  \E p \in Seq(Unit) :
            /\ sndbuf' = sndbuf \o p /\ Embeds(p, h) /\ Len(sndbuf) + Len(p) <= SndBuf
            /\ Len(sndbuf) + Len(h) <= SndBuf => p = h
<1> DEFINE k == Min({Room, Len(h)})
           p == SubSeq(h, 1, k)
<1>1. Len(sndbuf) \in Nat /\ Len(h) \in Nat /\ SndBuf \in Nat BY LimitAssumption DEF ConnInv, BuffersOK
<1>2. Room \in Nat /\ Room = SndBuf - Len(sndbuf)
  <2>1. Len(sndbuf) <= SndBuf BY DEF ConnInv, ConnTypeOK
  <2> QED BY <1>1, <2>1 DEF Room
<1>3. k = IF Room <= Len(h) THEN Room ELSE Len(h) BY <1>1, <1>2, MinOfTwo
<1>4. sndbuf' = sndbuf \o p BY DEF SendCall
<1> HIDE DEF k
<1>5. k \in 0..Len(h) /\ Len(sndbuf) + k <= SndBuf /\ (Len(sndbuf) + Len(h) <= SndBuf => k = Len(h))
  BY <1>1, <1>2, <1>3
<1>6. p \in Seq(Unit) /\ Len(p) = k /\ Embeds(p, h) BY <1>5, FirstPart, EmbedsFirst
<1>7. SubSeq(h, 1, Len(h)) = h BY SubSeqFull
<1>8. Len(sndbuf) + Len(h) <= SndBuf => p = h BY <1>5, <1>7
<1>9. Len(sndbuf) + Len(p) <= SndBuf BY <1>5, <1>6
<1> HIDE DEF p
<1> QED BY <1>4, <1>6, <1>8, <1>9

LEMMA SendCallInv == ASSUME ConnInv, SendCall PROVE ConnInv'
<1>1. /\ stage \in {"send", "body"} /\ todo # <<>> /\ todo' = Tail(todo)
      /\ UNCHANGED <<stage, handlers, request, sent, got, received, conn, alive>>
  BY DEF SendCall, AfterCall
<1>2. /\ ConnTypeOK /\ BuffersOK /\ TableOK /\ StageOK /\ CallsOK /\ HeaderFits BY DEF ConnInv
<1>3. todo \in Parts /\ sndbuf \in Seq(Unit) /\ received \in Seq(Unit) BY <1>2 DEF BuffersOK
<1> DEFINE h == Head(todo)
           tl == Tail(todo)
<1>4. h \in Seq(Unit) /\ tl \in Parts /\ todo = <<h>> \o tl /\ <<h>> \in Parts
  <2> DEFINE R == Seq(Unit)
  <2>1. todo \in Seq(R) BY <1>3 DEF Parts
  <2> HIDE DEF R
  <2>2. h \in R /\ tl \in Seq(R) /\ todo = <<h>> \o tl /\ <<h>> \in Seq(R) BY <1>1, <2>1, HeadTailConcat
  <2> QED BY <2>2 DEF R, Parts
<1>5. \E p \in Seq(Unit) :
         /\ sndbuf' = sndbuf \o p /\ Embeds(p, h) /\ Len(sndbuf) + Len(p) <= SndBuf
         /\ Len(sndbuf) + Len(h) <= SndBuf => p = h
  BY <1>4, CallTakes
<1>6. todo' = tl BY <1>1
<1> HIDE DEF h, tl
<1>7. PICK p \in Seq(Unit) :
         /\ sndbuf' = sndbuf \o p /\ Embeds(p, h) /\ Len(sndbuf) + Len(p) <= SndBuf
         /\ Len(sndbuf) + Len(h) <= SndBuf => p = h
  BY <1>5
<1>8. sndbuf' \in Seq(Unit) /\ Len(sndbuf') = Len(sndbuf) + Len(p)
  <2>1. sndbuf \o p \in Seq(Unit) /\ Len(sndbuf \o p) = Len(sndbuf) + Len(p) BY <1>3, ConcatAt
  <2> QED BY <1>7, <2>1
<1>9. ConnTypeOK' BY <1>1, <1>2, <1>7, <1>8 DEF ConnTypeOK
<1>10. BuffersOK' BY <1>1, <1>3, <1>4, <1>6, <1>8 DEF BuffersOK
<1>11. TableOK' BY <1>1, <1>2, SameTable
<1>12. StageOK' BY <1>1, <1>2 DEF StageOK, Answering
<1>13. HeaderFits' BY <1>1, <1>2 DEF HeaderFits
<1>14. Answering /\ Answering' /\ conn = "open" /\ conn' = "open" BY <1>1, <1>2 DEF Answering, StageOK
<1>15. PICK called \in Seq(Unit) : Taking(called) BY <1>2, <1>14 DEF CallsOK
<1>16. Response' = Response BY <1>1, ResponseNext
<1>17. FlattenSeq(todo) = h \o FlattenSeq(tl) /\ FlattenSeq(tl) \in Seq(Unit)
  <2> DEFINE one == <<h>>
  <2>1. FlattenSeq(one) = h BY FlattenOne
  <2>2. one \in Seq(Seq(Unit)) /\ tl \in Seq(Seq(Unit)) /\ todo = one \o tl BY <1>4 DEF Parts
  <2> HIDE DEF one
  <2>3. FlattenSeq(one \o tl) = FlattenSeq(one) \o FlattenSeq(tl) BY <2>2, FlattenConcat
  <2>4. FlattenSeq(tl) \in Seq(Unit) BY <2>2, FlattenType
  <2> QED BY <2>1, <2>2, <2>3, <2>4
<1> DEFINE rest == FlattenSeq(tl)
<1>18. PICK more \in Seq(Unit) : more = called \o h /\ Len(more) = Len(called) + Len(h)
  <2>1. called \o h \in Seq(Unit) /\ Len(called \o h) = Len(called) + Len(h) BY <1>4, ConcatAt
  <2> QED BY <2>1
<1>19. more \o rest = Response
  <2>1. Grouped(called, h, rest) BY <1>4, <1>17, GroupedIs
  <2>2. called \o FlattenSeq(todo) = Response BY <1>15 DEF Taking
  <2> QED BY <1>17, <1>18, <2>1, <2>2 DEF Grouped
<1>20. Sent \in Seq(Unit) /\ Sent' = Sent \o p
  <2>1. Grouped(received, sndbuf, p) BY <1>3, GroupedIs
  <2>2. received \o sndbuf \in Seq(Unit) BY <1>3, ConcatAt
  <2> QED BY <1>1, <1>7, <2>1, <2>2 DEF Grouped, Sent
<1>21. Embeds(Sent', more)
  <2>1. Embeds(Sent, called) BY <1>15 DEF Taking
  <2>2. Embeds(Sent \o p, called \o h) BY <1>4, <1>7, <1>20, <2>1, EmbedsConcat
  <2> QED BY <1>18, <1>20, <2>2
<1>22. ASSUME Len(Response) <= SndBuf PROVE Sent' = more
  <2>1. Sent = called BY <1>14, <1>15, <1>22 DEF Taking
  <2>2. Len(more) <= Len(Response)
    <3>1. Len(more \o rest) = Len(more) + Len(rest) /\ Len(more) \in Nat /\ Len(rest) \in Nat
      BY ONLY <1>17, <1>18, ConcatAt DEF rest
    <3> QED BY <1>19, <3>1
  <2>3. Len(sndbuf) <= Len(called)
    <3>1. Len(received \o sndbuf) = Len(received) + Len(sndbuf) /\ Len(received) \in Nat
          /\ Len(sndbuf) \in Nat
      BY <1>3, ConcatAt
    <3>2. received \o sndbuf = called BY <2>1 DEF Sent
    <3> QED BY <3>1, <3>2
  <2>4. Len(sndbuf) + Len(h) <= SndBuf
    <3>1. Len(sndbuf) \in Nat /\ Len(called) \in Nat /\ Len(h) \in Nat /\ Len(Response) \in Nat
      <4>1. Response \in Seq(Unit) BY <1>14, ResponseIs
      <4> QED BY <1>3, <1>4, <4>1
    <3>2. SndBuf \in Nat BY LimitAssumption
    <3> QED BY <1>18, <1>22, <2>2, <2>3, <3>1, <3>2
  <2> QED BY <1>7, <1>18, <1>20, <2>1, <2>4
<1> HIDE DEF rest
<1>23. Taking(more)' BY <1>6, <1>16, <1>19, <1>21, <1>22 DEF Taking, rest
<1>24. CallsOK' BY <1>18, <1>23 DEF CallsOK
<1> QED BY <1>9, <1>10, <1>11, <1>12, <1>13, <1>24 DEF ConnInv

LEMMA RespondedInv == ASSUME ConnInv, Responded PROVE ConnInv'
<1>1. /\ stage \in {"send", "body"} /\ todo = <<>> /\ stage' \in {"body", "close"}
      /\ UNCHANGED <<handlers, request, sent, got, todo, sndbuf, received, conn, alive>>
  BY DEF Responded, netVars
<1>2. /\ ConnTypeOK /\ BuffersOK /\ TableOK /\ StageOK /\ CallsOK /\ HeaderFits BY DEF ConnInv
<1>3. Answering /\ Answering' BY <1>1 DEF Answering
<1>4. ConnTypeOK' BY <1>1, <1>2 DEF ConnTypeOK
<1>5. BuffersOK' BY <1>1, <1>2 DEF BuffersOK
<1>6. TableOK' BY <1>1, <1>2 DEF TableOK, Taken
<1>7. StageOK' BY <1>1, <1>2, <1>3 DEF StageOK
<1>8. Response' = Response BY <1>1, ResponseNext
<1>9. CallsOK' BY <1>1, <1>2, <1>3, <1>8 DEF CallsOK, Taking, Sent
<1>10. HeaderFits' BY <1>1, <1>2 DEF HeaderFits
<1> QED BY <1>4, <1>5, <1>6, <1>7, <1>9, <1>10 DEF ConnInv

(* The part of the body that arrives later continues the response.         *)
LEMMA BodyContinues ==
  ASSUME request \in Requests, Found # {}, Does = "post",
         NEW m \in request.header..Total, NEW n \in m..Total
  PROVE  LET piece == SubSeq(request.body, m - request.header + 1, n - request.header) IN
         /\ piece \in Seq(Unit) /\ FlattenSeq(Calls(m)) \in Seq(Unit)
         /\ FlattenSeq(Calls(n)) = FlattenSeq(Calls(m)) \o piece
<1> DEFINE body == request.body
           j == m - request.header
           k == n - request.header
           piece == SubSeq(body, j + 1, k)
           h == Lead("200", "text/html")
<1>1. request.header \in Nat /\ Total \in Nat /\ Total = request.header + Len(body)
      /\ Len(body) \in Nat /\ body \in Seq(Unit)
  BY RequestIs
<1>2. n \in request.header..Total BY <1>1
<1>3. j \in 0..Len(body) /\ k \in j..Len(body) BY <1>1
<1>4. FlattenSeq(Calls(m)) = h \o SubSeq(body, 1, j) BY PostIs DEF ReceivedBody
<1>5. FlattenSeq(Calls(n)) = h \o SubSeq(body, 1, k) BY <1>2, PostIs DEF ReceivedBody
<1>6. h \in Seq(Unit)
  <2>1. "200" \in Unit /\ "text/html" \in Unit BY DEF Unit
  <2> QED BY <2>1, HeadFlattened
<1> HIDE DEF body, j, k, h
<1>7. SubSeq(body, 1, j) \in Seq(Unit) BY <1>1, <1>3, FirstPart
<1>8. piece \in Seq(Unit)
  <2>1. j + 1 \in Int /\ k \in Int /\ \A i \in (j + 1)..k : body[i] \in Unit BY <1>1, <1>3
  <2> QED BY ONLY <2>1, SubSeqProperties DEF piece
<1>9. SubSeq(body, 1, k) = SubSeq(body, 1, j) \o piece
  <2>1. 1 \in 1..(Len(body) + 1) /\ j \in (1 - 1)..Len(body) /\ k \in j..Len(body) BY <1>1, <1>3
  <2> QED BY <1>1, <2>1, ConcatAdjacentSubSeq
<1> DEFINE front == SubSeq(body, 1, j)
<1>10. front \in Seq(Unit) /\ FlattenSeq(Calls(m)) = h \o front /\ FlattenSeq(Calls(n)) = h \o (front \o piece)
  BY <1>4, <1>5, <1>7, <1>9
<1> HIDE DEF front, piece
<1>11. Grouped(h, front, piece) BY <1>6, <1>8, <1>10, GroupedIs
<1>12. h \o front \in Seq(Unit) BY <1>6, <1>10, ConcatAt
<1> QED BY <1>8, <1>10, <1>11, <1>12 DEF Grouped, piece, body, j, k

LEMMA ReadBodyInv == ASSUME ConnInv, ReadBody PROVE ConnInv'
<1>1. /\ stage = "body" /\ todo = <<>> /\ Found # {} /\ Does = "post"
      /\ UNCHANGED <<handlers, request, stage, sent, sndbuf, received, conn, alive>>
  BY DEF ReadBody, BodyLeft, netVars
<1>2. /\ ConnTypeOK /\ BuffersOK /\ TableOK /\ StageOK /\ CallsOK /\ HeaderFits BY DEF ConnInv
<1>3. Answering /\ Answering' /\ conn = "open" BY <1>1, <1>2 DEF Answering, StageOK
<1>4. PICK n \in (got + 1)..sent :
         /\ got' = n
         /\ todo' = <<SubSeq(request.body, got - request.header + 1, n - request.header)>>
  BY DEF ReadBody
<1> DEFINE piece == SubSeq(request.body, got - request.header + 1, n - request.header)
<1>5. got \in request.header..Total /\ n \in got..Total /\ Response \in Seq(Unit)
  <2>1. got \in request.header..Total /\ Response \in Seq(Unit) BY <1>3, ResponseIs
  <2> QED BY <1>2, <2>1, ConnFacts
<1>6. request \in Requests BY <1>2 DEF ConnTypeOK
<1>7. piece \in Seq(Unit) /\ FlattenSeq(Calls(n)) = Response \o piece
  BY <1>1, <1>5, <1>6, BodyContinues DEF Response
<1>8. todo' = <<piece>> BY <1>4
<1> HIDE DEF piece
<1>9. Response' = Response \o piece BY <1>1, <1>4, <1>7, ResponseNext
<1>10. todo' \in Parts /\ FlattenSeq(todo') = piece BY <1>7, <1>8, FlattenOne DEF Parts
<1>11. PICK called \in Seq(Unit) : Taking(called) BY <1>2, <1>3 DEF CallsOK
<1>12. called = Response
  <2>1. called \o <<>> = Response BY <1>1, <1>11, EmptyFacts DEF Taking
  <2> QED BY <2>1, ConcatEmptySeq
<1>13. Sent' = Sent BY <1>1 DEF Sent
<1>14. Len(Response) <= Len(Response')
  <2>1. Len(Response \o piece) = Len(Response) + Len(piece) /\ Len(Response) \in Nat /\ Len(piece) \in Nat
    BY <1>5, <1>7, ConcatAt
  <2> QED BY <1>9, <2>1
<1>15. Taking(called)'
  <2>1. called \o FlattenSeq(todo') = Response' BY <1>9, <1>10, <1>12
  <2>2. Embeds(Sent', called) BY <1>11, <1>13 DEF Taking
  <2>3. ASSUME Len(Response') <= SndBuf PROVE Sent' = called
    <3>1. Len(Response) \in Nat /\ Len(Response') \in Nat /\ SndBuf \in Nat
      <4>1. Response \o piece \in Seq(Unit) BY <1>5, <1>7, ConcatAt
      <4> QED BY <1>5, <1>9, <4>1, LimitAssumption
    <3>2. Len(Response) <= SndBuf BY <1>14, <2>3, <3>1
    <3> QED BY <1>3, <1>11, <1>13, <3>2 DEF Taking
  <2> QED BY <2>1, <2>2, <2>3 DEF Taking
<1>16. CallsOK' BY <1>15 DEF CallsOK
<1>17. ConnTypeOK'
  <2>1. got' \in 0..sent BY <1>2, <1>4, ConnFacts
  <2> QED BY <1>1, <1>2, <2>1 DEF ConnTypeOK
<1>18. BuffersOK' BY <1>1, <1>2, <1>10 DEF BuffersOK
<1>19. TableOK' BY <1>1, <1>2, SameTable
<1>20. StageOK'
  <2>1. got' >= request.header BY <1>2, <1>4, <1>5, ConnFacts
  <2> QED BY <1>1, <1>2, <1>3, <2>1 DEF StageOK
<1>21. HeaderFits' BY <1>1, <1>2 DEF HeaderFits
<1> QED BY <1>16, <1>17, <1>18, <1>19, <1>20, <1>21 DEF ConnInv

LEMMA CloseInv == ASSUME ConnInv, Close PROVE ConnInv'
<1>1. /\ stage = "close" /\ stage' = "closed"
      /\ UNCHANGED <<handlers, request, sent, got, todo, received, alive>>
  BY DEF Close
<1>2. /\ ConnTypeOK /\ BuffersOK /\ TableOK /\ StageOK /\ CallsOK /\ HeaderFits BY DEF ConnInv
<1>3. Answering /\ Answering' /\ conn = "open" BY <1>1, <1>2 DEF Answering, StageOK
<1>4. PICK called \in Seq(Unit) : Taking(called) BY <1>2, <1>3 DEF CallsOK
<1>5. Response' = Response BY <1>1, ResponseNext
<1>6. TableOK' BY <1>1, <1>2 DEF TableOK, Taken
<1>7. HeaderFits' BY <1>1, <1>2 DEF HeaderFits
<1>8. sndbuf' \in Seq(Unit) /\ Len(sndbuf') <= Len(sndbuf) /\ Embeds(Sent', called)
      /\ \/ conn' = "closed" /\ got = sent /\ sndbuf' = sndbuf
         \/ conn' = "reset"
  <2>1. CASE got = sent
    <3>1. conn' = "closed" /\ sndbuf' = sndbuf BY <2>1 DEF Close
    <3>2. sndbuf \in Seq(Unit) /\ Len(sndbuf) \in Nat BY <1>2 DEF BuffersOK
    <3>3. Sent' = Sent BY <1>1, <3>1 DEF Sent
    <3> QED BY <1>4, <2>1, <3>1, <3>2, <3>3 DEF Taking
  <2>2. CASE got # sent
    <3>1. conn' = "reset" /\ sndbuf' \in Prefixed(sndbuf) BY <2>2 DEF Close
    <3>2. sndbuf' \in Seq(Unit) /\ Len(sndbuf') <= Len(sndbuf) /\ Embeds(received \o sndbuf', called)
      BY <1>2, <1>4, <3>1, ResetLeaves DEF Taking
    <3> QED BY <1>1, <3>1, <3>2 DEF Sent
  <2> QED BY <2>1, <2>2
<1>9. ConnTypeOK'
  <2>1. Len(sndbuf') <= SndBuf
    <3>1. Len(sndbuf) \in Nat /\ Len(sndbuf') \in Nat BY <1>2, <1>8 DEF BuffersOK
    <3>2. Len(sndbuf) <= SndBuf /\ SndBuf \in Nat BY <1>2, LimitAssumption DEF ConnTypeOK
    <3> QED BY <1>8, <3>1, <3>2
  <2>2. conn' \in {"closed", "reset"} BY <1>8
  <2> QED BY <1>1, <1>2, <2>1, <2>2 DEF ConnTypeOK
<1>10. BuffersOK' BY <1>1, <1>2, <1>8 DEF BuffersOK
<1>11. StageOK' BY <1>1, <1>2, <1>3, <1>8 DEF StageOK
<1>12. Taking(called)'
  <2>1. called \o FlattenSeq(todo') = Response' BY <1>1, <1>4, <1>5 DEF Taking
  <2>2. ASSUME Len(Response') <= SndBuf, conn' # "reset" PROVE Sent' = called
    <3>1. Sent' = Sent BY <1>1, <1>8, <2>2 DEF Sent
    <3> QED BY <1>3, <1>4, <1>5, <2>2, <3>1 DEF Taking
  <2> QED BY <1>8, <2>1, <2>2 DEF Taking
<1>13. CallsOK' BY <1>12 DEF CallsOK
<1> QED BY <1>6, <1>7, <1>9, <1>10, <1>11, <1>13 DEF ConnInv

LEMMA ConnStepInv == ConnInv /\ [ConnNext]_connVars => ConnInv'
<1> SUFFICES ASSUME ConnInv, [ConnNext]_connVars PROVE ConnInv' OBVIOUS
<1>1. CASE AddHandler BY <1>1, AddHandlerInv
<1>2. CASE ReadHeader BY <1>2, ReadHeaderInv
<1>3. CASE SendCall BY <1>3, SendCallInv
<1>4. CASE Responded BY <1>4, RespondedInv
<1>5. CASE ReadBody BY <1>5, ReadBodyInv
<1>6. CASE Close BY <1>6, CloseInv
<1>7. CASE ClientSends BY <1>7, ClientSendsInv
<1>8. CASE ClientReads BY <1>8, ClientReadsInv
<1>9. CASE UNCHANGED connVars
  <2>1. UNCHANGED <<stage, handlers, request, sent, got, todo, sndbuf, received, conn, alive>>
    BY <1>9 DEF connVars
  <2>2. /\ ConnTypeOK /\ BuffersOK /\ TableOK /\ StageOK /\ CallsOK /\ HeaderFits BY DEF ConnInv
  <2>3. ConnTypeOK' BY <2>1, <2>2 DEF ConnTypeOK
  <2>4. BuffersOK' BY <2>1, <2>2 DEF BuffersOK
  <2>5. TableOK' BY <2>1, <2>2, SameTable
  <2>6. StageOK' BY <2>1, <2>2 DEF StageOK, Answering
  <2>7. CallsOK'
    <3>1. Response' = Response BY <2>1, ResponseNext
    <3> QED BY <2>1, <2>2, <3>1 DEF CallsOK, Taking, Answering, Sent
  <2>8. HeaderFits' BY <2>1, <2>2 DEF HeaderFits
  <2> QED BY <2>3, <2>4, <2>5, <2>6, <2>7, <2>8 DEF ConnInv
<1> QED BY <1>1, <1>2, <1>3, <1>4, <1>5, <1>6, <1>7, <1>8, <1>9 DEF ConnNext, WorkerStep

LEMMA ConnInvAlways == ConnSpec => []ConnInv
BY ConnInitInv, ConnStepInv, PTL DEF ConnSpec

-----------------------------------------------------------------------------
(* What a connection promises                                              *)

(* No read and no handler goes past the end of its array, and a header     *)
(* that fits the buffer does not end the process (the loop of              *)
(* callProperHandler, addHandler, Server.c:178, Handlers.c:17-23).         *)
THEOREM BuffersHold == ConnSpec => []WithinBuffers
<1>1. ConnInv => WithinBuffers BY DEF ConnInv, WithinBuffers
<1> QED BY <1>1, ConnInvAlways, PTL

(* Before there is an answer nothing is sent.                              *)
LEMMA NothingSent == ASSUME ConnInv, ~Answering PROVE Sent = <<>>
<1>1. received = <<>> /\ sndbuf = <<>> BY DEF ConnInv, StageOK
<1>2. Sent = <<>> \o <<>> BY <1>1 DEF Sent
<1> QED BY <1>2, EmptyFacts, ConcatEmptySeq

(* What has reached the client's side is the response to its own request,  *)
(* of the first handler registered for it or of the file, with holes where *)
(* a full send buffer or a reset dropped data, but with nothing twice, out *)
(* of order or of another response (Server.c:216-226, 276-297, 343).       *)
THEOREM ResponseInOrder == ConnSpec => []InOrder
<1>1. ASSUME ConnInv PROVE InOrder
  <2>1. request \in Requests BY <1>1 DEF ConnInv, ConnTypeOK
  <2> SUFFICES Subsequence(Sent, Meant) BY <2>1, MeantExpected DEF InOrder
  <2>2. CASE Answering
    <3>1. got \in request.header..Total /\ handlers = Taken /\ Response \in Seq(Unit)
      BY <1>1, <2>2, ResponseIs
    <3>2. Meant \in Seq(Unit) /\ Embeds(Response, Meant)
      BY <2>1, <3>1, AnswerIs DEF Answered, Response
    <3>3. PICK called \in Seq(Unit) : Taking(called) BY <1>1, <2>2 DEF ConnInv, CallsOK
    <3>4. FlattenSeq(todo) \in Seq(Unit) BY <1>1, FlattenType DEF ConnInv, BuffersOK, Parts
    <3>5. Embeds(called, Response)
      <4>1. called \o FlattenSeq(todo) = Response BY <3>3 DEF Taking
      <4>2. Embeds(Response, Response) BY <3>1, EmbedsSelf
      <4>3. Embeds(called \o FlattenSeq(todo), Response) BY <4>1, <4>2
      <4> QED BY <3>1, <3>4, <4>3, EmbedsLeft
    <3>6. Sent \in Seq(Unit) BY <1>1, ConcatAt DEF ConnInv, BuffersOK, Sent
    <3>7. Embeds(Sent, called) BY <3>3 DEF Taking
    <3>8. Embeds(Sent, Response) BY <3>1, <3>5, <3>6, <3>7, EmbedsTransitive
    <3>9. Embeds(Sent, Meant) BY <3>1, <3>2, <3>6, <3>8, EmbedsTransitive
    <3> QED BY <3>2, <3>6, <3>9, EmbedsSubsequence
  <2>3. CASE ~Answering
    <3>1. Sent = <<>> BY <1>1, <2>3, NothingSent
    <3>2. Subsequence(<<>>, Meant)
      <4>1. {} \in SUBSET DOMAIN Meant /\ Len(<<>>) = 0 OBVIOUS
      <4>2. Cardinality({}) = 0 BY FS_EmptySet
      <4> QED BY <4>1, <4>2 DEF Subsequence
    <3> QED BY <3>1, <3>2
  <2> QED BY <2>2, <2>3
<1> QED BY <1>1, ConnInvAlways, PTL

(* A response that the send buffer holds arrives whole, however slowly the *)
(* client reads, if nothing of the request was left unread when the server *)
(* closed (Server.c:290-297, DemoApplication.c:41-46, 71-86).              *)
THEOREM SmallResponseArrives == ConnSpec => []SmallResponseWhole
<1>1. ASSUME ConnInv PROVE SmallResponseWhole
  <2> SUFFICES ASSUME ~Binary, FitsSndBuf, conn = "closed", sent = Total
               PROVE  Sent \in Expected
    BY DEF SmallResponseWhole
  <2>1. Answering /\ todo = <<>> /\ got = Total
    <3>1. StageOK BY <1>1 DEF ConnInv
    <3>2. stage = "closed"
      <4>1. stage \in {"addHandler", "header", "send", "body", "close", "closed"}
        BY <1>1 DEF ConnInv, ConnTypeOK
      <4>2. conn # "open" OBVIOUS
      <4> QED BY <3>1, <4>1, <4>2 DEF StageOK
    <3> QED BY <3>1, <3>2 DEF StageOK, Answering
  <2>2. got \in request.header..Total /\ handlers = Taken /\ Response \in Seq(Unit)
    BY <1>1, <2>1, ResponseIs
  <2>3. request \in Requests BY <1>1 DEF ConnInv, ConnTypeOK
  <2>4. Response = Meant /\ Meant \in Expected BY <2>1, <2>2, <2>3, AnswerIs DEF Answered, Response
  <2>5. PICK called \in Seq(Unit) : Taking(called) BY <1>1, <2>1 DEF ConnInv, CallsOK
  <2>6. called = Response
    <3>1. called \o <<>> = Response BY <2>1, <2>5, EmptyFacts DEF Taking
    <3> QED BY <3>1, ConcatEmptySeq
  <2>7. Len(Response) <= SndBuf BY <2>4 DEF FitsSndBuf
  <2>8. Sent = called BY <2>5, <2>7 DEF Taking
  <2> QED BY <2>4, <2>6, <2>8
<1> QED BY <1>1, ConnInvAlways, PTL

=============================================================================
