---------------------------- MODULE StoreServer ----------------------------
(***************************************************************************)
(* bookcode/chapter11/echo_storeserv.c: the parent accepts clients and     *)
(* forks a child for each, which echoes what it reads and writes it to a   *)
(* pipe; one more child copies the pipe to a file.  SIGCHLD has a handler  *)
(* that waits for one child, installed without SA_RESTART.                 *)
(*                                                                         *)
(* A unit of data is numbered by its client.  A write to the pipe is at    *)
(* most BUF_SIZE bytes, less than PIPE_BUF, and so atomic.  fork does not  *)
(* fail.  A definition Op_Fault is Op with a fault a programmer could      *)
(* make; it is used only to test that the properties notice it.            *)
(***************************************************************************)
EXTENDS Naturals, FiniteSets, Sequences

CONSTANTS
    Conn,    \* connections clients make
    NoConn,  \* client_sock == -1
    BUF_SIZE,\* units one read returns at most
    PipeSize,\* units the pipe holds
    MaxSent, \* bound on the units a client sends
    Quitters \* clients that may close without reading the echo

ASSUME ConnAssumption == NoConn \notin Conn /\ Quitters \subseteq Conn /\ IsFiniteSet(Conn)
ASSUME SizeAssumption ==
    BUF_SIZE \in Nat \ {0} /\ PipeSize \in Nat /\ PipeSize >= BUF_SIZE /\ MaxSent \in Nat

(* Each connection has a child, and the end of each child interrupts at    *)
(* most one accept.                                                        *)
Child == 1..(2 * Cardinality(Conn))

VARIABLES
    client,      \* client[c]: the peer as TCP shows it
    sent, taken, \* units c has sent, units read from c
    echoed,      \* units that have come back to c
    backlog,     \* connections waiting for accept
    ppc,         \* the parent's next call
    client_sock, \* its variable
    open,        \* the client sockets it has open
    cpc,         \* next call of each child
    serves,      \* its copy of client_sock
    holds,       \* the client sockets it has open
    len,         \* units in its buffer
    pipe, file,  \* contents of the pipe and of temp.txt
    pending      \* SIGCHLD is pending for the parent

netVars == <<client, sent, taken, echoed, backlog>>
parentVars == <<ppc, client_sock, open>>
childVars == <<cpc, serves, holds, len>>
storeVars == <<pipe, file>>
vars == <<netVars, parentVars, childVars, storeVars, pending>>

Unit == Conn \X (1..MaxSent)

TypeOK ==
    /\ client \in [Conn -> {"new", "open", "finished", "closed", "answered", "reset"}]
    /\ sent \in [Conn -> 0..MaxSent] /\ taken \in [Conn -> 0..MaxSent]
    /\ echoed \in [Conn -> 0..MaxSent]
    /\ backlog \in Seq(Conn)
    /\ ppc \in {"accept", "fork", "close"}
    /\ client_sock \in Conn \cup {NoConn}
    /\ open \subseteq Conn
    /\ cpc \in [Child -> {"none", "read", "echo", "store", "close", "zombie", "gone"}]
    /\ serves \in [Child -> Conn \cup {NoConn}]
    /\ holds \in [Child -> SUBSET Conn]
    /\ len \in [Child -> 0..BUF_SIZE]
    /\ pipe \in Seq(Unit) /\ Len(pipe) <= PipeSize
    /\ file \in Seq(Unit)
    /\ pending \in BOOLEAN

Init ==
    /\ client = [c \in Conn |-> "new"]
    /\ sent = [c \in Conn |-> 0] /\ taken = [c \in Conn |-> 0] /\ echoed = [c \in Conn |-> 0]
    /\ backlog = <<>>
    /\ ppc = "accept" /\ client_sock = NoConn /\ open = {}
    /\ cpc = [k \in Child |-> "none"]
    /\ serves = [k \in Child |-> NoConn]
    /\ holds = [k \in Child |-> {}]
    /\ len = [k \in Child |-> 0]
    /\ pipe = <<>> /\ file = <<>>
    /\ pending = FALSE

-----------------------------------------------------------------------------
(* Clients (external)                                                      *)

Connect(c) ==
    /\ client[c] = "new"
    /\ client' = [client EXCEPT ![c] = "open"]
    /\ backlog' = Append(backlog, c)
    /\ UNCHANGED <<sent, taken, echoed, parentVars, childVars, storeVars, pending>>

Talk(c) ==
    /\ client[c] = "open" /\ sent[c] < MaxSent
    /\ sent' = [sent EXCEPT ![c] = @ + 1]
    /\ UNCHANGED <<client, taken, echoed, backlog, parentVars, childVars, storeVars, pending>>

(* shutdown(SHUT_WR), or close; the answer to data sent to a closed client *)
(* arrives later.                                                          *)
End(c) ==
    /\ \/ client[c] = "open" /\ client' = [client EXCEPT ![c] = "finished"]
       \/ client[c] = "open" /\ c \in Quitters /\ client' = [client EXCEPT ![c] = "closed"]
       \/ client[c] = "answered" /\ client' = [client EXCEPT ![c] = "reset"]
    /\ UNCHANGED <<sent, taken, echoed, backlog, parentVars, childVars, storeVars, pending>>

-----------------------------------------------------------------------------
(* Parent                                                                  *)

Zombies == {k \in Child : cpc[k] = "zombie"}

(* read_childproc waits for one child that has ended, if there is one.     *)
Recycle_Never == cpc' = cpc
Recycle ==
    IF Zombies = {} THEN cpc' = cpc
    ELSE \E k \in Zombies : cpc' = [cpc EXCEPT ![k] = "gone"]

Handler ==
    /\ pending /\ pending' = FALSE
    /\ Recycle
    /\ UNCHANGED <<netVars, parentVars, serves, holds, len, storeVars>>

Accept ==
    /\ ppc = "accept" /\ backlog # <<>>
    /\ client_sock' = Head(backlog)
    /\ open' = open \cup {Head(backlog)}
    /\ backlog' = Tail(backlog)
    /\ ppc' = "fork"
    /\ UNCHANGED <<client, sent, taken, echoed, childVars, storeVars, pending>>

(* The handler interrupts an accept that waits: it returns -1.             *)
AcceptInterrupted ==
    /\ ppc = "accept" /\ backlog = <<>>
    /\ pending /\ pending' = FALSE
    /\ Recycle
    /\ client_sock' = NoConn
    /\ ppc' = "fork"
    /\ UNCHANGED <<netVars, open, serves, holds, len, storeVars>>

(* The child gets a copy of the parent's variables and descriptors.        *)
Fork ==
    /\ ppc = "fork"
    /\ \E k \in Child :
          /\ cpc[k] = "none"
          /\ \A j \in Child : cpc[j] = "none" => k <= j
          /\ cpc' = [cpc EXCEPT ![k] = "read"]
          /\ serves' = [serves EXCEPT ![k] = client_sock]
          /\ holds' = [holds EXCEPT ![k] = open]
    /\ ppc' = "close"
    /\ UNCHANGED <<netVars, client_sock, open, len, storeVars, pending>>

StillOpen_Kept == open
StillOpen == open \ {client_sock}

ParentClose ==
    /\ ppc = "close"
    /\ open' = StillOpen
    /\ ppc' = "accept"
    /\ UNCHANGED <<netVars, client_sock, childVars, storeVars, pending>>

ParentStep == Handler \/ Accept \/ AcceptInterrupted \/ Fork \/ ParentClose

-----------------------------------------------------------------------------
(* Child of a client.  With client_sock == -1 its calls all fail, read     *)
(* never returns 0, and it loops for ever: it takes no step of the model.  *)

Goto(k, from, to) == cpc[k] = from /\ cpc' = [cpc EXCEPT ![k] = to]
Serving(k) == serves[k] \in Conn
Unread(k) == sent[serves[k]] - taken[serves[k]]

Chunk == 1..BUF_SIZE

ChildRead(k) ==
    /\ Goto(k, "read", "echo")
    /\ Serving(k)
    /\ \E n \in Chunk :
          /\ n <= Unread(k)
          /\ len' = [len EXCEPT ![k] = n]
          /\ taken' = [taken EXCEPT ![serves[k]] = @ + n]
    /\ UNCHANGED <<client, sent, echoed, backlog, parentVars, serves, holds, storeVars, pending>>

(* write() to the client                                                   *)
Echoed(k) == len[k]

ChildEcho(k) ==
    /\ Goto(k, "echo", "store")
    /\ client[serves[k]] # "reset"
    /\ IF client[serves[k]] \in {"open", "finished"}
       THEN echoed' = [echoed EXCEPT ![serves[k]] = @ + Echoed(k)] /\ client' = client
       ELSE client' = [client EXCEPT ![serves[k]] = "answered"] /\ echoed' = echoed
    /\ UNCHANGED <<sent, taken, backlog, parentVars, serves, holds, len, storeVars, pending>>

(* SIGPIPE ends the child; the others go on.                               *)
ChildKilled(k) ==
    /\ Goto(k, "echo", "zombie")
    /\ client[serves[k]] = "reset"
    /\ holds' = [holds EXCEPT ![k] = {}]
    /\ pending' = TRUE
    /\ UNCHANGED <<netVars, parentVars, serves, len, storeVars>>

(* write() to the pipe                                                     *)
Units_FromStart(k) == [i \in 1..len[k] |-> <<serves[k], i>>]
Units(k) == [i \in 1..len[k] |-> <<serves[k], taken[serves[k]] - len[k] + i>>]

ChildStore(k) ==
    /\ Goto(k, "store", "read")
    /\ Len(pipe) + len[k] <= PipeSize
    /\ pipe' = pipe \o Units(k)
    /\ UNCHANGED <<netVars, parentVars, serves, holds, len, file, pending>>

EndOfFile_Ignored(k) == FALSE
EndOfFile(k) == Serving(k) /\ Unread(k) = 0 /\ client[serves[k]] # "open"

ChildReadEnd(k) ==
    /\ Goto(k, "read", "close")
    /\ EndOfFile(k)
    /\ UNCHANGED <<netVars, parentVars, serves, holds, len, storeVars, pending>>

(* close() and return: the exit closes what else is open.                  *)
ChildExit(k) ==
    /\ Goto(k, "close", "zombie")
    /\ holds' = [holds EXCEPT ![k] = {}]
    /\ pending' = TRUE
    /\ UNCHANGED <<netVars, parentVars, serves, len, storeVars>>

ChildStep(k) ==
    \/ ChildRead(k) \/ ChildEcho(k) \/ ChildKilled(k) \/ ChildStore(k)
    \/ ChildReadEnd(k) \/ ChildExit(k)

-----------------------------------------------------------------------------
(* The child that reads the pipe and writes temp.txt                       *)

Store ==
    /\ \E n \in Chunk :
          /\ n = Len(pipe) \/ (n = BUF_SIZE /\ n < Len(pipe))
          /\ file' = file \o SubSeq(pipe, 1, n)
          /\ pipe' = SubSeq(pipe, n + 1, Len(pipe))
    /\ UNCHANGED <<netVars, parentVars, childVars, pending>>

Next ==
    \/ ParentStep \/ Store
    \/ \E k \in Child : ChildStep(k)
    \/ \E c \in Conn : Connect(c) \/ Talk(c) \/ End(c)

Spec == Init /\ [][Next]_vars

(* The kernel runs every process, and delivers a pending signal.           *)
FairSpec ==
    /\ Spec
    /\ WF_vars(ParentStep) /\ WF_vars(Handler \/ AcceptInterrupted) /\ WF_vars(Store)
    /\ \A k \in Child : WF_vars(ChildStep(k))

-----------------------------------------------------------------------------
(* Properties                                                              *)

Alive(k) == cpc[k] \in {"read", "echo", "store", "close"}

(* No process but its own child, and the parent before it forks the next   *)
(* one, holds a client's socket, so that closing it ends the connection    *)
(* (echo_storeserv.c:92, 98).                                              *)
OwnSocketOnly ==
    /\ \A k \in Child : Alive(k) => holds[k] = {serves[k]} \ {NoConn}
    /\ \A j, k \in Child : Alive(j) /\ Alive(k) /\ serves[j] = serves[k] /\ Serving(j) => j = k
    /\ ppc = "accept" => open = {}

(* With it, the pipe holds no more than it has room for and every length   *)
(* is one a read can return (echo_storeserv.c:61, 88, 98).                 *)
DescriptorsConsistent == TypeOK /\ OwnSocketOnly

(* Whatever the children's interleaving, the file and the pipe hold what   *)
(* was read from each client once and in its order, except what the child  *)
(* has still to write or was killed with (echo_storeserv.c:88-91, 61-65).  *)
Stored == file \o pipe
From(c) == {i \in 1..Len(Stored) : Stored[i][1] = c}
Numbers(c) == {Stored[i][2] : i \in From(c)}
Ordered(c) == \A i, j \in From(c) : i < j => Stored[i][2] < Stored[j][2]
InBuffer(c) ==
    {k \in Child : serves[k] = c /\ (cpc[k] \in {"echo", "store"} \/ client[c] = "reset")}
StoredOnceInOrder ==
    \A c \in Conn :
        /\ Ordered(c)
        /\ \/ Numbers(c) = 1..taken[c]
           \/ \E k \in InBuffer(c) : len[k] <= taken[c] /\ Numbers(c) = 1..(taken[c] - len[k])

(* A client that has not closed has got back all that is stored of it: the *)
(* echo comes first (echo_storeserv.c:89-90).                              *)
EchoedBeforeStored ==
    \A c \in Conn : client[c] \in {"open", "finished"} => \A n \in Numbers(c) : n <= echoed[c]

(* The file is right: no data lost, doubled, reordered or stored before it *)
(* is echoed (echo_storeserv.c:61-65, 88-91).                              *)
FileRight == StoredOnceInOrder /\ EchoedBeforeStored

(* A client that ends is closed by the server, whatever the others do, and *)
(* everything a client that reads its echo has sent reaches the file.      *)
Held(c) == c \in open \/ \E k \in Child : c \in holds[k]
Waiting(c) == \E i \in 1..Len(backlog) : backlog[i] = c
EveryEndClosed ==
    \A c \in Conn : client[c] \in {"finished", "closed"} ~> ~Held(c) /\ ~Waiting(c)
EverythingStored ==
    \A c \in Conn : client[c] = "finished" ~>
        SelectSeq(file, LAMBDA u : u[1] = c) = [i \in 1..sent[c] |-> <<c, i>>]

(* "get child process return state to recycle zombie process"              *)
(* (echo_storeserv.c:113): a child that ends is waited for, unless another *)
(* one ends, or has been left over, before the handler runs: pending       *)
(* SIGCHLDs do not add up, and the handler waits once (line 114).          *)
Coalesced == Cardinality(Zombies) > 1
LoneZombieRecycled ==
    \A k \in Child : pending /\ cpc[k] = "zombie" ~> cpc[k] = "gone" \/ Coalesced
=============================================================================
