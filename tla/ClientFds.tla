----------------------------- MODULE ClientFds -----------------------------
(***************************************************************************)
(* struct ClientFds of HTTP_server/lib/Server.c: the queue that hands      *)
(* client sockets from the main thread to the workers, a singly linked     *)
(* list guarded by one mutex.  Every statement another thread could        *)
(* observe is a step of its own; the node of a dequeue is freed after the  *)
(* unlock, outside the critical section.                                   *)
(*                                                                         *)
(* A definition Op_Fault is Op with a fault a programmer could make; it is *)
(* used only to test that the properties notice it.                        *)
(***************************************************************************)
EXTENDS Naturals, Sequences

CONSTANTS Fds,        \* client sockets
          NoFd,       \* the -1 clientFds_dequeue returns on an empty queue
          Enqueuers,  \* threads that call clientFds_enqueue
          Dequeuers,  \* threads that call clientFds_dequeue
          Node,       \* addresses malloc can return: the bound on the heap
          NULL,       \* the null pointer
          NoThread    \* holder of the unlocked mutex

ASSUME ThreadsAssumption ==
    /\ Enqueuers \cap Dequeuers = {}
    /\ NoThread \notin Enqueuers \cup Dequeuers
ASSUME PointerAssumption == NULL \notin Node
ASSUME FdAssumption == NoFd \notin Fds

Threads == Enqueuers \cup Dequeuers

VARIABLES mutex,      \* holder of clientFds->mutex
          first,      \* clientFds->first
          last,       \* clientFds->last
          allocated,  \* nodes malloc returned and free has not taken back
          nodeFd,     \* nodeFd[n]: n->fd
          succ,       \* succ[n]: n->succ
          pc,         \* pc[t]: the next statement of thread t
          node,       \* node[t]: local `node' of enqueue, `temp' of dequeue
          fd,         \* fd[t]: parameter `fd' of enqueue, result of dequeue
          chain       \* auxiliary: the nodes linked into the list, in order

heapVars == <<allocated, nodeFd, succ>>
vars == <<mutex, first, last, heapVars, pc, node, fd, chain>>

(* The statements a thread executes while it holds the mutex.              *)
EnqueueSection == {"malloc", "link", "tail"}
DequeueSection == {"unlink", "drop"}
Section == EnqueueSection \cup DequeueSection \cup {"unlock"}

TypeOK ==
    /\ mutex \in Threads \cup {NoThread}
    /\ first \in Node \cup {NULL}
    /\ last \in Node \cup {NULL}
    /\ allocated \in SUBSET Node
    /\ nodeFd \in [Node -> Fds \cup {NoFd}]
    /\ succ \in [Node -> Node \cup {NULL}]
    /\ pc \in [Threads -> Section \cup {"idle", "lock", "free"}]
    /\ node \in [Threads -> Node \cup {NULL}]
    /\ fd \in [Threads -> Fds \cup {NoFd}]
    /\ chain \in Seq(Node)

(* init_clientFds clears only the first pointer-sized word of the struct,  *)
(* sizeof(clientFds) being the size of the pointer.  first and last keep   *)
(* what malloc returned: this early the block comes from fresh heap pages, *)
(* which the kernel fills with zeroes, so both are NULL.                   *)
InitialFirst_Recycled == "stale"
InitialFirst == NULL

Init ==
    /\ mutex = NoThread
    /\ first = InitialFirst
    /\ last = NULL
    /\ allocated = {}
    /\ nodeFd = [n \in Node |-> NoFd]
    /\ succ = [n \in Node |-> NULL]
    /\ pc = [t \in Threads |-> "idle"]
    /\ node = [t \in Threads |-> NULL]
    /\ fd = [t \in Threads |-> NoFd]
    /\ chain = <<>>

Goto(t, from, to) ==
    /\ pc[t] = from
    /\ pc' = [pc EXCEPT ![t] = to]

-----------------------------------------------------------------------------
(* pthread_mutex_lock and pthread_mutex_unlock.                            *)

Unlocked == mutex = NoThread

Lock(t, to) ==
    /\ Goto(t, "lock", to)
    /\ Unlocked
    /\ mutex' = t
    /\ UNCHANGED <<first, last, heapVars, node, fd, chain>>

(* After the unlock an enqueue and a dequeue of the empty queue return; a  *)
(* dequeue that took a node has still to free it.                          *)
Unlock(t) ==
    /\ IF t \in Dequeuers /\ node[t] # NULL
       THEN Goto(t, "unlock", "free") /\ UNCHANGED node
       ELSE Goto(t, "unlock", "idle") /\ node' = [node EXCEPT ![t] = NULL]
    /\ mutex' = NoThread
    /\ UNCHANGED <<first, last, heapVars, fd, chain>>

-----------------------------------------------------------------------------
(* clientFds_enqueue                                                       *)

CallEnqueue(t, f) ==
    /\ Goto(t, "idle", "lock")
    /\ fd' = [fd EXCEPT ![t] = f]
    /\ UNCHANGED <<mutex, first, last, heapVars, node, chain>>

(* Node bounds the heap of the model: an enqueue starts its critical       *)
(* section only while malloc has a node left.                              *)
LockEnqueue(t) == allocated # Node /\ Lock(t, "malloc")

(* node->fd = fd                                                           *)
Stored_Missing(n, f) == nodeFd
Stored(n, f) == [nodeFd EXCEPT ![n] = f]

Malloc(t) ==
    /\ Goto(t, "malloc", "link")
    /\ \E n \in Node \ allocated :
          /\ allocated' = allocated \cup {n}
          /\ node' = [node EXCEPT ![t] = n]
          /\ nodeFd' = Stored(n, fd[t])
          /\ succ' = [succ EXCEPT ![n] = NULL]
    /\ UNCHANGED <<mutex, first, last, fd, chain>>

(* The test for the empty queue in both functions.                         *)
IsEmpty == first = NULL

LinkFirst(t) ==
    /\ IsEmpty
    /\ first' = node[t]
    /\ UNCHANGED succ

LinkLast(t) ==
    /\ ~IsEmpty
    /\ succ' = [succ EXCEPT ![last] = node[t]]
    /\ UNCHANGED first

(* The new node becomes reachable: the enqueue takes effect.               *)
Link(t) ==
    /\ Goto(t, "link", "tail")
    /\ LinkFirst(t) \/ LinkLast(t)
    /\ chain' = Append(chain, node[t])
    /\ UNCHANGED <<mutex, last, allocated, nodeFd, node, fd>>

SetLast(t) ==
    /\ Goto(t, "tail", "unlock")
    /\ last' = node[t]
    /\ UNCHANGED <<mutex, first, heapVars, node, fd, chain>>

-----------------------------------------------------------------------------
(* clientFds_dequeue                                                       *)

CallDequeue(t) ==
    /\ Goto(t, "idle", "lock")
    /\ UNCHANGED <<mutex, first, last, heapVars, node, fd, chain>>

LockDequeue(t) == Lock(t, "unlink")

(* On the empty queue a dequeue unlocks and returns.                       *)
EmptyExit_Polls == "unlink"
EmptyExit == "unlock"

FindEmpty(t) ==
    /\ Goto(t, "unlink", EmptyExit)
    /\ IsEmpty
    /\ fd' = [fd EXCEPT ![t] = NoFd]
    /\ UNCHANGED <<mutex, first, last, heapVars, node, chain>>

(* temp = first, fd = temp->fd, first = temp->succ: the dequeue takes      *)
(* effect.                                                                 *)
Unlink(t) ==
    /\ Goto(t, "unlink", "drop")
    /\ ~IsEmpty
    /\ node' = [node EXCEPT ![t] = first]
    /\ fd' = [fd EXCEPT ![t] = nodeFd[first]]
    /\ first' = succ[first]
    /\ chain' = Tail(chain)
    /\ UNCHANGED <<mutex, last, heapVars>>

(* The list's last node once its first is unlinked.                        *)
LastLeft_Stale == last
LastLeft == IF IsEmpty THEN NULL ELSE last

DropLast(t) ==
    /\ Goto(t, "drop", "unlock")
    /\ last' = LastLeft
    /\ UNCHANGED <<mutex, first, heapVars, node, fd, chain>>

(* free(temp); the contents of a freed node stay until malloc reuses it.   *)
Freed(n) == allocated \ {n}

Free(t) ==
    /\ Goto(t, "free", "idle")
    /\ allocated' = Freed(node[t])
    /\ node' = [node EXCEPT ![t] = NULL]
    /\ UNCHANGED <<mutex, first, last, nodeFd, succ, fd, chain>>

-----------------------------------------------------------------------------
EnqueueStep(t) ==
    LockEnqueue(t) \/ Malloc(t) \/ Link(t) \/ SetLast(t) \/ Unlock(t)

DequeueStep(t) ==
    LockDequeue(t) \/ FindEmpty(t) \/ Unlink(t) \/ DropLast(t) \/ Unlock(t) \/ Free(t)

Next ==
    \/ \E t \in Enqueuers : (\E f \in Fds : CallEnqueue(t, f)) \/ EnqueueStep(t)
    \/ \E t \in Dequeuers : CallDequeue(t) \/ DequeueStep(t)

Spec == Init /\ [][Next]_vars

(* A thread keeps running its statements (weak fairness), a worker calls   *)
(* dequeue again whenever the last call has returned (the loop of          *)
(* thread_run).  The mutex is assumed to serve every thread that keeps     *)
(* asking for it (strong fairness of the lock step): pthread mutexes give  *)
(* no such order, the scheduler does with probability one.                 *)
Fairness ==
    /\ \A t \in Enqueuers : WF_vars(EnqueueStep(t)) /\ SF_vars(LockEnqueue(t))
    /\ \A t \in Dequeuers : WF_vars(CallDequeue(t) \/ DequeueStep(t)) /\ SF_vars(LockDequeue(t))

FairSpec == Spec /\ Fairness

-----------------------------------------------------------------------------
(* Properties                                                              *)

Linked == {chain[i] : i \in 1..Len(chain)}

(* Threads whose local pointer refers to a node outside the list.          *)
Holding == {t \in Threads : pc[t] \in {"link", "drop", "free"}
                              \/ (pc[t] = "unlock" /\ t \in Dequeuers /\ node[t] # NULL)}

(* Mutual exclusion: the threads between a lock and its unlock are exactly *)
(* the holder of the mutex, so no two calls update first, last or a succ   *)
(* field in an interleaved order (Server.c:30-45, 51-63).                  *)
MutualExclusion == \A t \in Threads : pc[t] \in Section <=> mutex = t

(* The pointers realise the list: first, the succ fields and last lead     *)
(* through the linked nodes in order, except that last lags between the    *)
(* statement that links or unlinks a node and the one that repairs it.     *)
ListShape ==
    /\ first = (IF chain = <<>> THEN NULL ELSE chain[1])
    /\ \A i \in 1..Len(chain) :
          succ[chain[i]] = (IF i = Len(chain) THEN NULL ELSE chain[i + 1])
    /\ (\A t \in Threads : pc[t] \notin {"tail", "drop"}) =>
          last = (IF chain = <<>> THEN NULL ELSE chain[Len(chain)])

(* Every allocated node has exactly one owner: a place in the list or the  *)
(* local pointer of one thread.  No node is lost (a leak), linked twice,   *)
(* or freed while the list or another thread can still reach it, although  *)
(* free(temp) runs after the unlock (Server.c:64).                         *)
NodeOwnership ==
    /\ allocated = Linked \cup {node[t] : t \in Holding}
    /\ \A i, j \in 1..Len(chain) : chain[i] = chain[j] => i = j
    /\ \A t \in Holding : node[t] \in Node \ Linked
    /\ \A t, u \in Holding : node[t] = node[u] => t = u

(* The list is consistent: one thread at a time changes it, its pointers   *)
(* describe it, and no node is lost or used after free (Server.c:30-64).   *)
ListConsistent == MutualExclusion /\ ListShape /\ NodeOwnership

(* The list implements the linearizable queue: an enqueue takes effect at  *)
(* Link, a dequeue at Unlink or FindEmpty.                                 *)
Pending == [t \in Threads |->
    CASE pc[t] = "idle" -> "none"
      [] pc[t] \in {"lock", "malloc", "link", "unlink"} -> "pending"
      [] OTHER -> "done"]

Queued == [i \in 1..Len(chain) |-> nodeFd[chain[i]]]

Abstract == INSTANCE FdQueue WITH queue <- Queued, call <- Pending

(* The refinement: every behaviour of the list is one of the abstract      *)
(* queue (the two "is thread-safe" comments, Server.c:28 and 49).          *)
Linearizable == Abstract!Spec

(* No call is stuck forever: each enqueue and each dequeue returns.        *)
CallsReturn == \A t \in Threads : pc[t] = "lock" ~> pc[t] = "idle"
=============================================================================
