--------------------------- MODULE ServerProofs ---------------------------
(***************************************************************************)
(* Proofs about the server, for any number of connections, workers and     *)
(* descriptors: each open socket has one owner, events are never stale, a  *)
(* worker answers the client whose request it read, every client that      *)
(* still receives gets one response, to the last unit, before its          *)
(* connection is closed, and the descriptors lost are one to each request  *)
(* that a file or the error page answers.                                  *)
(***************************************************************************)
EXTENDS Server, SequenceTheorems, TLAPS

(* The backlog holds each waiting connection once.                         *)
BacklogOK ==
    /\ \A i, j \in 1..Len(backlog) : backlog[i] = backlog[j] => i = j
    /\ \A i \in 1..Len(backlog) : phase[backlog[i]] = "backlog"
    /\ \A c \in Conn : client[c] = "new" => phase[c] = "none"

(* Between requests a worker has none; past the header it has read all of  *)
(* it.                                                                     *)
WorkersOK ==
    \A w \in Worker :
        /\ wpc[w] = "dequeue" => req[w] = NoConn
        /\ wpc[w] \in {"open", "errorpage", "head", "received"} => got[w] >= HeaderLen

Inv == /\ TypeOK /\ BacklogOK /\ WorkersOK
       /\ SingleOwner /\ OneDescriptor /\ EventsFresh /\ AnswersItsClient

-----------------------------------------------------------------------------
(* The initial state satisfies the invariant.                              *)
LEMMA InitInv == Init => Inv
<1> SUFFICES ASSUME Init PROVE Inv OBVIOUS
<1> USE DEF Init
<1>1. /\ backlog = <<>> /\ queue = <<>> /\ Len(backlog) = 0 /\ Len(queue) = 0
      /\ backlog \in Seq(Conn) /\ queue \in Seq(Fds)
  BY EmptySeq
<1>2. TypeOK
  BY <1>1, KindAssumption DEF TypeOK, PeerStates
<1>3. BacklogOK BY <1>1 DEF BacklogOK
<1>4. WorkersOK BY DEF WorkersOK
<1>5. Sockets = {} /\ InHand = {} /\ Busy = {}
  BY ConnAssumption DEF Sockets, InHand, Busy
<1>6. Queued = {} /\ Served = {} BY <1>1, <1>5 DEF Queued, Served
<1>7. SingleOwner BY <1>1, <1>5, <1>6 DEF SingleOwner
<1>8. OneDescriptor BY <1>5 DEF OneDescriptor
<1>9. EventsFresh BY DEF EventsFresh
<1>10. AnswersItsClient BY <1>5 DEF AnswersItsClient
<1> QED BY <1>2, <1>3, <1>4, <1>7, <1>8, <1>9, <1>10 DEF Inv

-----------------------------------------------------------------------------
(* Steps that leave the owners of the sockets alone.                       *)

(* SingleOwner only depends on the five owners' variables.                 *)
LEMMA OwnersKept ==
  ASSUME Inv, Sockets' = Sockets, InHand' = InHand, UNCHANGED <<interest, queue, sock>>,
         Busy' = Busy
  PROVE  SingleOwner'
<1>1. Queued' = Queued BY DEF Queued
<1>2. Served' = Served BY DEF Served
<1> QED BY <1>1, <1>2 DEF Inv, SingleOwner

(* A client's step changes no descriptor: it can only add its connection   *)
(* to the backlog.                                                         *)
LEMMA ClientInv == ASSUME Inv, NEW c \in Conn, ClientStep(c) PROVE Inv'
<1> USE DEF serverVars, mainVars, workerVars, kernelVars
<1>1. CASE Connect(c)
  <2> USE <1>1 DEF Connect
  <2>1. phase[c] = "none" BY DEF Inv, BacklogOK
  <2>2. /\ backlog' \in Seq(Conn)
        /\ Len(backlog') = Len(backlog) + 1 /\ Len(backlog) \in Nat
        /\ \A i \in 1..Len(backlog) : backlog'[i] = backlog[i] /\ backlog[i] \in Conn
        /\ backlog'[Len(backlog) + 1] = c
    BY AppendProperties, ElementOfSeq, LenProperties DEF Inv, TypeOK
  <2>3. TypeOK' BY <2>2 DEF Inv, TypeOK, PeerStates
  <2>4. \A i \in 1..Len(backlog) : backlog[i] # c BY <2>1 DEF Inv, BacklogOK
  <2>5. BacklogOK'
    <3>1. \A i \in 1..Len(backlog') : i \in 1..Len(backlog) \/ i = Len(backlog) + 1
      BY <2>2
    <3>2. \A i, j \in 1..Len(backlog') : backlog'[i] = backlog'[j] => i = j
      BY <2>2, <2>4, <3>1 DEF Inv, BacklogOK
    <3>3. \A i \in 1..Len(backlog') : phase'[backlog'[i]] = "backlog"
      BY <2>2, <2>4, <3>1 DEF Inv, TypeOK, BacklogOK
    <3>4. \A d \in Conn : client'[d] = "new" => phase'[d] = "none"
      BY DEF Inv, TypeOK, BacklogOK
    <3> QED BY <3>2, <3>3, <3>4 DEF BacklogOK
  <2>6. WorkersOK' BY DEF Inv, WorkersOK
  <2>7. Sockets' = Sockets /\ InHand' = InHand /\ Busy' = Busy
    BY DEF Sockets, InHand, Busy
  <2>8. SingleOwner' BY <2>7, OwnersKept
  <2>9. OneDescriptor'
    <3>1. {d \in Conn : phase'[d] = "accepted"} = {d \in Conn : phase[d] = "accepted"}
      BY <2>1 DEF Inv, TypeOK
    <3> QED BY <2>7, <3>1 DEF Inv, OneDescriptor
  <2>10. EventsFresh' BY DEF Inv, EventsFresh
  <2>11. AnswersItsClient' BY <2>7 DEF Inv, AnswersItsClient, Peer
  <2> QED BY <2>3, <2>5, <2>6, <2>8, <2>9, <2>10, <2>11 DEF Inv
<1>2. CASE Send(c) \/ ClientEnds(c) \/ ResetArrives(c)
  <2> USE <1>2 DEF Send, ClientEnds, ResetArrives
  <2>1. UNCHANGED <<kernelVars, serverVars>> OBVIOUS
  <2>2. TypeOK'
    <3>1. client' \in [Conn -> PeerStates] BY DEF Inv, TypeOK, PeerStates
    <3>2. sent' \in [Conn -> Nat] /\ inbox' \in [Conn -> Nat]
      <4>1. CASE Send(c) BY <4>1 DEF Inv, TypeOK
      <4>2. CASE ClientEnds(c) \/ ResetArrives(c) BY <4>2 DEF Inv, TypeOK
      <4> QED BY <4>1, <4>2
    <3>3. UNCHANGED <<kind, reply>> OBVIOUS
    <3> QED BY <2>1, <3>1, <3>2, <3>3 DEF Inv, TypeOK
  <2>3. \A d \in Conn : client'[d] = "new" => client[d] = "new" BY DEF Inv, TypeOK
  <2>4. BacklogOK' BY <2>1, <2>3 DEF Inv, BacklogOK
  <2>5. WorkersOK' BY <2>1 DEF Inv, WorkersOK
  <2>6. Sockets' = Sockets /\ InHand' = InHand /\ Busy' = Busy
    BY <2>1 DEF Sockets, InHand, Busy
  <2>7. SingleOwner' BY <2>1, <2>6, OwnersKept
  <2>8. OneDescriptor' BY <2>1, <2>6 DEF Inv, OneDescriptor
  <2>9. EventsFresh' BY <2>1 DEF Inv, EventsFresh
  <2>10. AnswersItsClient' BY <2>1, <2>6 DEF Inv, AnswersItsClient, Peer
  <2> QED BY <2>2, <2>4, <2>5, <2>7, <2>8, <2>9, <2>10 DEF Inv
<1> QED BY <1>1, <1>2 DEF ClientStep

-----------------------------------------------------------------------------
(* The main thread.                                                        *)

(* epoll_wait, a failed accept and the end of the loop keep every socket   *)
(* where it is, and report registered sockets only.                        *)
LEMMA PollInv == ASSUME Inv, EpollWait \/ BatchDone \/ AcceptFails PROVE Inv'
<1> USE DEF EpollWait, BatchDone, AcceptFails, Registered, netVars, kernelVars, workerVars
<1>1. /\ UNCHANGED <<netVars, kernelVars, alive, mfd, queue, workerVars>>
      /\ mpc # "enqueue" /\ mpc' # "enqueue"
  BY FdAssumption DEF Inv, TypeOK
<1>2. events' \subseteq interest \cup {Listener}
  BY DEF Ready, Inv, EventsFresh
<1>3. TypeOK' BY <1>1, <1>2 DEF Inv, TypeOK
<1>4. BacklogOK' BY <1>1 DEF Inv, BacklogOK
<1>5. WorkersOK' BY <1>1 DEF Inv, WorkersOK
<1>6. Sockets' = Sockets /\ InHand' = InHand /\ Busy' = Busy
  BY <1>1 DEF Sockets, InHand, Busy
<1>7. SingleOwner' BY <1>1, <1>6, OwnersKept
<1>8. OneDescriptor' BY <1>1, <1>6 DEF Inv, OneDescriptor
<1>9. EventsFresh' BY <1>1, <1>2 DEF EventsFresh
<1>10. AnswersItsClient' BY <1>1, <1>6 DEF Inv, AnswersItsClient, Peer
<1> QED BY <1>3, <1>4, <1>5, <1>7, <1>8, <1>9, <1>10 DEF Inv

(* accept binds a free descriptor to a connection that had none and gives  *)
(* it to epoll.                                                            *)
LEMMA AcceptInv == ASSUME Inv, Accept PROVE Inv'
<1> USE DEF netVars, workerVars
<1> DEFINE c == Head(backlog)
<1>0. PICK f \in Fds : /\ fdTable[f] = NoConn
                       /\ fdTable' = [fdTable EXCEPT ![f] = c]
                       /\ interest' = interest \cup {f}
  BY FdAssumption DEF Accept, Lowest, Registered
<1>1. /\ phase' = [phase EXCEPT ![c] = "accepted"]
      /\ backlog # <<>> /\ backlog' = Tail(backlog)
      /\ events' = events \ {Listener}
      /\ mpc = "batch"
      /\ UNCHANGED <<netVars, alive, mpc, mfd, queue, workerVars>>
  BY DEF Accept
<1> HIDE DEF c
<1>2. /\ c = backlog[1] /\ c \in Conn
      /\ Len(backlog) \in Nat \ {0}
      /\ backlog' \in Seq(Conn) /\ Len(backlog') = Len(backlog) - 1
      /\ \A i \in 1..Len(backlog') : backlog'[i] = backlog[i + 1]
  BY <1>1, HeadTailProperties, EmptySeq DEF Inv, TypeOK, c
<1>3. phase[c] = "backlog" BY <1>2 DEF Inv, BacklogOK
<1>4. \A i \in 1..Len(backlog') : i + 1 \in 1..Len(backlog) /\ i + 1 # 1 BY <1>2
<1>5. \A i \in 1..Len(backlog') : backlog'[i] # c /\ phase[backlog'[i]] = "backlog"
  <2> SUFFICES ASSUME NEW i \in 1..Len(backlog')
               PROVE  backlog'[i] # c /\ phase[backlog'[i]] = "backlog"
    OBVIOUS
  <2>1. backlog'[i] = backlog[i + 1] BY <1>2
  <2>2. i + 1 \in 1..Len(backlog) /\ 1 \in 1..Len(backlog) /\ i + 1 # 1 BY <1>2, <1>4
  <2> QED BY <1>2, <2>1, <2>2 DEF Inv, BacklogOK
<1>6. TypeOK' BY <1>0, <1>1, <1>2 DEF Inv, TypeOK
<1>7. BacklogOK'
  <2>1. \A i, j \in 1..Len(backlog') : backlog'[i] = backlog'[j] => i = j
    <3> SUFFICES ASSUME NEW i \in 1..Len(backlog'), NEW j \in 1..Len(backlog'),
                        backlog'[i] = backlog'[j]
                 PROVE  i = j
      OBVIOUS
    <3>1. backlog[i + 1] = backlog[j + 1] BY <1>2
    <3>2. i + 1 = j + 1 BY <1>4, <3>1 DEF Inv, BacklogOK
    <3> QED BY <1>2, <3>2
  <2>2. \A i \in 1..Len(backlog') : phase'[backlog'[i]] = "backlog"
    <3>1. \A i \in 1..Len(backlog') : backlog'[i] \in Conn BY <1>2, ElementOfSeq
    <3> QED BY <1>1, <1>5, <3>1 DEF Inv, TypeOK
  <2>3. \A d \in Conn : client'[d] = "new" => phase'[d] = "none"
    BY <1>1, <1>2, <1>3 DEF Inv, TypeOK, BacklogOK
  <2> QED BY <2>1, <2>2, <2>3 DEF BacklogOK
<1>8. WorkersOK' BY <1>1 DEF Inv, WorkersOK
<1>9. f \notin Sockets /\ Sockets' = Sockets \cup {f}
  BY <1>0, <1>2, ConnAssumption DEF Inv, TypeOK, Sockets
<1>10. Queued' = Queued /\ InHand' = InHand /\ Busy' = Busy /\ Served' = Served
  BY <1>1 DEF Queued, InHand, Busy, Served
<1>11. SingleOwner' BY <1>0, <1>1, <1>9, <1>10 DEF Inv, SingleOwner
<1>12. OneDescriptor'
  <2>1. \A g \in Sockets : fdTable'[g] = fdTable[g] /\ fdTable[g] # c
    <3>1. \A g \in Sockets : fdTable[g] \in {d \in Conn : phase[d] = "accepted"}
      BY DEF Inv, OneDescriptor
    <3>2. \A g \in Sockets : g \in Fds /\ g # f BY <1>9 DEF Sockets
    <3> QED BY <1>0, <1>3, <3>1, <3>2 DEF Inv, TypeOK
  <2>2. fdTable'[f] = c BY <1>0 DEF Inv, TypeOK
  <2>3. \A g, h \in Sockets' : fdTable'[g] = fdTable'[h] => g = h
    BY <1>9, <2>1, <2>2 DEF Inv, OneDescriptor
  <2>4. {fdTable'[g] : g \in Sockets'} = {fdTable[g] : g \in Sockets} \cup {c}
    BY <1>9, <2>1, <2>2
  <2>5. {d \in Conn : phase'[d] = "accepted"} = {d \in Conn : phase[d] = "accepted"} \cup {c}
    BY <1>1, <1>2 DEF Inv, TypeOK
  <2> QED BY <2>3, <2>4, <2>5 DEF Inv, OneDescriptor
<1>13. EventsFresh' BY <1>0, <1>1 DEF Inv, EventsFresh
<1>14. AnswersItsClient'
  <2>1. \A w \in Busy : sock[w] # f BY <1>9 DEF Inv, SingleOwner, Served
  <2>2. \A w \in Busy : Peer(w)' = Peer(w)
    BY <1>0, <1>1, <2>1 DEF Peer, Inv, TypeOK, Busy
  <2> QED BY <1>1, <1>10, <2>2 DEF Inv, AnswersItsClient
<1> QED BY <1>6, <1>7, <1>8, <1>11, <1>12, <1>13, <1>14 DEF Inv

(* EPOLL_CTL_DEL moves a socket from epoll to the main thread's hand; the  *)
(* other events of the batch stay registered.                              *)
LEMMA HandOffInv == ASSUME Inv, NEW f \in Fds, HandOff(f) PROVE Inv'
<1> USE DEF HandOff, Deregistered, netVars, workerVars
<1>1. f \in interest BY FdAssumption DEF Inv, EventsFresh
<1>2. TypeOK' BY DEF Inv, TypeOK
<1>3. BacklogOK' BY DEF Inv, BacklogOK
<1>4. WorkersOK' BY DEF Inv, WorkersOK
<1>5. /\ Sockets' = Sockets /\ Busy' = Busy /\ Queued' = Queued /\ Served' = Served
      /\ InHand = {} /\ InHand' = {f}
  BY DEF Sockets, Busy, Queued, Served, InHand
<1>6. SingleOwner' BY <1>1, <1>5 DEF Inv, SingleOwner
<1>7. OneDescriptor' BY <1>5 DEF Inv, OneDescriptor
<1>8. EventsFresh' BY DEF Inv, EventsFresh
<1>9. AnswersItsClient' BY <1>5 DEF Inv, AnswersItsClient, Peer
<1> QED BY <1>2, <1>3, <1>4, <1>6, <1>7, <1>8, <1>9 DEF Inv

(* The enqueue moves the socket from the main thread's hand to the queue.  *)
LEMMA EnqueueInv == ASSUME Inv, Enqueue PROVE Inv'
<1> USE DEF Enqueue, netVars, kernelVars, workerVars
<1>1. InHand = {mfd} /\ InHand' = {} BY DEF InHand
<1>2. mfd \in Fds /\ mfd \notin Queued
  BY <1>1 DEF Inv, SingleOwner, Sockets
<1>3. /\ queue' \in Seq(Fds) /\ Len(queue) \in Nat
      /\ Len(queue') = Len(queue) + 1
      /\ \A i \in 1..Len(queue) : queue'[i] = queue[i]
      /\ queue'[Len(queue) + 1] = mfd
  BY <1>2, AppendProperties, LenProperties DEF Inv, TypeOK
<1>4. \A i \in 1..Len(queue') : i \in 1..Len(queue) \/ i = Len(queue) + 1 BY <1>3
<1>5. \A i \in 1..Len(queue) : queue[i] # mfd BY <1>2 DEF Queued
<1>6. Queued' = Queued \cup {mfd}
  <2>1. Queued' = {queue'[i] : i \in 1..Len(queue')} BY DEF Queued
  <2>2. 1..Len(queue') = 1..Len(queue) \cup {Len(queue) + 1} BY <1>3
  <2> QED BY <1>3, <2>1, <2>2 DEF Queued
<1>7. TypeOK' BY <1>3 DEF Inv, TypeOK
<1>8. BacklogOK' BY DEF Inv, BacklogOK
<1>9. WorkersOK' BY DEF Inv, WorkersOK
<1>10. Sockets' = Sockets /\ Busy' = Busy /\ Served' = Served
  BY DEF Sockets, Busy, Served
<1>11. SingleOwner'
  <2>1. \A i, j \in 1..Len(queue') : queue'[i] = queue'[j] => i = j
    BY <1>3, <1>4, <1>5 DEF Inv, SingleOwner
  <2> QED BY <1>1, <1>6, <1>10, <2>1 DEF Inv, SingleOwner
<1>12. OneDescriptor' BY <1>10 DEF Inv, OneDescriptor
<1>13. EventsFresh' BY DEF Inv, EventsFresh
<1>14. AnswersItsClient' BY <1>10 DEF Inv, AnswersItsClient, Peer
<1> QED BY <1>7, <1>8, <1>9, <1>11, <1>12, <1>13, <1>14 DEF Inv

-----------------------------------------------------------------------------
(* The workers.                                                            *)

(* A worker with a request in hand has an open socket, its connection's.   *)
LEMMA BusyHasPeer ==
  ASSUME Inv, NEW w \in Worker, wpc[w] # "dequeue"
  PROVE  w \in Busy /\ sock[w] \in Sockets /\ sock[w] \in Fds /\ Peer(w) \in Conn
BY DEF Inv, SingleOwner, Busy, Served, Sockets, Peer

(* A step in which a worker goes on with its request, opening at most a    *)
(* file, keeps the owners of all sockets.                                  *)
LEMMA StayBusyInv ==
  ASSUME Inv, TypeOK', NEW w \in Worker, wpc[w] # "dequeue",
         NEW l, wpc' = [wpc EXCEPT ![w] = l], l # "dequeue",
         l \in {"open", "errorpage", "head", "received"} => got'[w] >= HeaderLen,
         \A x \in Worker \ {w} : got'[x] = got[x],
         req' = req \/ req' = [req EXCEPT ![w] = Peer(w)],
         UNCHANGED <<backlog, phase, interest, mainVars, queue, sock>>,
         \/ fdTable' = fdTable
         \/ \E f \in Fds : fdTable[f] = NoConn /\ fdTable' = [fdTable EXCEPT ![f] = File],
         \A c \in Conn : client'[c] = "new" => client[c] = "new"
  PROVE  Inv'
<1> USE DEF mainVars
<1>1. Busy' = Busy BY DEF Inv, TypeOK, Busy
<1>2. Sockets' = Sockets /\ \A f \in Sockets : fdTable'[f] = fdTable[f]
  <2>1. CASE fdTable' = fdTable BY <2>1 DEF Sockets
  <2>2. ASSUME NEW f \in Fds, fdTable[f] = NoConn, fdTable' = [fdTable EXCEPT ![f] = File]
        PROVE  Sockets' = Sockets /\ \A g \in Sockets : fdTable'[g] = fdTable[g]
    <3>1. \A g \in Fds : fdTable'[g] = IF g = f THEN File ELSE fdTable[g]
      BY <2>2 DEF Inv, TypeOK
    <3> QED BY <2>2, <3>1, ConnAssumption DEF Sockets
  <2> QED BY <2>1, <2>2
<1>3. InHand' = InHand BY DEF InHand
<1>4. SingleOwner' BY <1>1, <1>2, <1>3, OwnersKept
<1>5. \A x \in Busy : Peer(x)' = Peer(x)
  BY <1>2 DEF Inv, SingleOwner, Served, Peer
<1>6. BacklogOK' BY DEF Inv, BacklogOK
<1>7. WorkersOK'
  <2> SUFFICES ASSUME NEW x \in Worker
               PROVE  /\ wpc'[x] = "dequeue" => req'[x] = NoConn
                      /\ wpc'[x] \in {"open", "errorpage", "head", "received"} => got'[x] >= HeaderLen
    BY DEF WorkersOK
  <2>1. CASE x = w BY <2>1 DEF Inv, TypeOK
  <2>2. CASE x # w BY <2>2 DEF Inv, TypeOK, WorkersOK
  <2> QED BY <2>1, <2>2
<1>8. OneDescriptor' BY <1>2 DEF Inv, OneDescriptor
<1>9. EventsFresh' BY DEF Inv, EventsFresh
<1>10. AnswersItsClient'
  <2> SUFFICES ASSUME NEW x \in Busy, req'[x] # NoConn PROVE Peer(x) = req'[x]
    BY <1>1, <1>5 DEF AnswersItsClient
  <2>1. req'[x] = req[x] \/ req'[x] = Peer(x)
    BY DEF Inv, TypeOK, Busy
  <2> QED BY <2>1 DEF Inv, AnswersItsClient
<1> QED BY <1>4, <1>6, <1>7, <1>8, <1>9, <1>10 DEF Inv

(* The dequeue moves a socket from the queue to one worker.                *)
LEMMA DequeueInv == ASSUME Inv, NEW w \in Worker, Dequeue(w) PROVE Inv'
<1> USE DEF Dequeue, Goto, netVars, kernelVars, mainVars
<1> DEFINE f == Head(queue)
<1>1. /\ f = queue[1] /\ f \in Fds
      /\ Len(queue) \in Nat \ {0}
      /\ queue' \in Seq(Fds) /\ Len(queue') = Len(queue) - 1
      /\ \A i \in 1..Len(queue') : queue'[i] = queue[i + 1]
  BY HeadTailProperties, EmptySeq DEF Inv, TypeOK
<1>2. /\ sock' = [sock EXCEPT ![w] = f] /\ wpc' = [wpc EXCEPT ![w] = "header"]
      /\ wpc[w] = "dequeue"
      /\ UNCHANGED <<netVars, kernelVars, alive, mainVars, req, got>>
  OBVIOUS
<1> HIDE DEF f
<1>3. f \in Queued BY <1>1 DEF Queued
<1>4. \A i \in 1..Len(queue') : i + 1 \in 1..Len(queue) /\ i + 1 # 1 BY <1>1
<1>5. Queued' = Queued \ {f}
  <2>1. Queued' = {queue'[i] : i \in 1..Len(queue')} BY DEF Queued
  <2>2. ASSUME NEW g \in Queued' PROVE g \in Queued \ {f}
    <3>1. PICK i \in 1..Len(queue') : g = queue[i + 1] BY <1>1, <2>1, <2>2
    <3>2. i + 1 \in 1..Len(queue) /\ i + 1 # 1 /\ 1 \in 1..Len(queue) BY <1>1, <1>4
    <3>3. queue[i + 1] # queue[1] BY <3>2 DEF Inv, SingleOwner
    <3> QED BY <1>1, <3>1, <3>2, <3>3 DEF Queued
  <2>3. ASSUME NEW g \in Queued, g # f PROVE g \in Queued'
    <3>1. PICK i \in 1..Len(queue) : g = queue[i] BY DEF Queued
    <3>2. i - 1 \in 1..Len(queue') /\ (i - 1) + 1 = i BY <1>1, <2>3, <3>1
    <3>3. queue'[i - 1] = queue[i] BY <1>1, <3>2
    <3> QED BY <2>1, <3>1, <3>2, <3>3
  <2> QED BY <2>2, <2>3
<1>6. TypeOK' BY <1>1, <1>2 DEF Inv, TypeOK
<1>7. BacklogOK' BY DEF Inv, BacklogOK
<1>8. WorkersOK' BY <1>2 DEF Inv, TypeOK, WorkersOK
<1>9. Sockets' = Sockets /\ InHand' = InHand /\ w \notin Busy /\ Busy' = Busy \cup {w}
  BY <1>2 DEF Inv, TypeOK, Sockets, InHand, Busy
<1>10. sock'[w] = f /\ \A x \in Busy : sock'[x] = sock[x] /\ sock[x] # f
  BY <1>2, <1>3, <1>9 DEF Inv, TypeOK, SingleOwner, Served, Busy
<1>11. Served' = Served \cup {f}
  <2>1. Served' = {sock'[x] : x \in Busy'} BY DEF Served
  <2> QED BY <1>9, <1>10, <2>1 DEF Served
<1>12. SingleOwner'
  <2>1. \A i, j \in 1..Len(queue') : queue'[i] = queue'[j] => i = j
    <3> SUFFICES ASSUME NEW i \in 1..Len(queue'), NEW j \in 1..Len(queue'),
                        queue'[i] = queue'[j]
                 PROVE  i = j
      OBVIOUS
    <3>1. queue[i + 1] = queue[j + 1] BY <1>1
    <3>2. i + 1 = j + 1 BY <1>4, <3>1 DEF Inv, SingleOwner
    <3> QED BY <1>1, <3>2
  <2>2. \A x, y \in Busy' : sock'[x] = sock'[y] => x = y
    BY <1>9, <1>10 DEF Inv, SingleOwner
  <2>3. interest' = interest BY <1>2
  <2> QED BY <1>3, <1>5, <1>9, <1>11, <2>1, <2>2, <2>3 DEF Inv, SingleOwner
<1>13. OneDescriptor' BY <1>9 DEF Inv, OneDescriptor
<1>14. EventsFresh' BY DEF Inv, EventsFresh
<1>15. AnswersItsClient'
  <2>1. req'[w] = NoConn BY <1>2 DEF Inv, WorkersOK
  <2>2. \A x \in Busy : Peer(x)' = Peer(x) /\ req'[x] = req[x] BY <1>2, <1>10 DEF Peer
  <2> QED BY <1>9, <2>1, <2>2 DEF Inv, AnswersItsClient
<1> QED BY <1>6, <1>7, <1>8, <1>12, <1>13, <1>14, <1>15 DEF Inv

(* close frees the number only after its one owner is done with it.        *)
LEMMA CloseInv == ASSUME Inv, NEW w \in Worker, CloseSocket(w) PROVE Inv'
<1> USE DEF CloseSocket, NoRequest, Goto, netVars, mainVars
<1> DEFINE f == sock[w]
           c == Peer(w)
<1>1. w \in Busy /\ f \in Sockets /\ f \in Fds /\ c \in Conn /\ c = fdTable[f]
  BY BusyHasPeer DEF Peer
<1>2. /\ wpc[w] = "close"
      /\ phase' = [phase EXCEPT ![c] = "closed"]
      /\ fdTable' = [fdTable EXCEPT ![f] = NoConn]
      /\ interest' = interest \ {f}
      /\ sock' = [sock EXCEPT ![w] = NoFd]
      /\ req' = [req EXCEPT ![w] = NoConn]
      /\ got' = [got EXCEPT ![w] = 0]
      /\ wpc' = [wpc EXCEPT ![w] = "dequeue"]
      /\ UNCHANGED <<netVars, backlog, alive, mainVars, queue>>
  OBVIOUS
<1> HIDE DEF f, c
<1>3. phase[c] = "accepted" BY <1>1 DEF Inv, OneDescriptor
<1>4. f \in Served BY <1>1 DEF Served, f
<1>5. f \notin interest /\ f \notin InHand /\ f \notin Queued
  BY <1>4 DEF Inv, SingleOwner
<1>6. TypeOK'
  <2>1. phase' \in [Conn -> {"none", "backlog", "accepted", "closed"}]
    BY <1>1, <1>2 DEF Inv, TypeOK
  <2>2. fdTable' \in [Fds -> Conn \cup {File, NoConn}] BY <1>2 DEF Inv, TypeOK
  <2>3. sock' \in [Worker -> Fds \cup {NoFd}] BY <1>2 DEF Inv, TypeOK
  <2>4. req' \in [Worker -> Conn \cup {NoConn}] /\ got' \in [Worker -> Nat]
    BY <1>2 DEF Inv, TypeOK
  <2>5. wpc' \in [Worker -> {"dequeue", "header", "open", "errorpage", "head", "content",
                             "received", "body", "close"}]
    BY <1>2 DEF Inv, TypeOK
  <2> QED BY <1>2, <2>1, <2>2, <2>3, <2>4, <2>5 DEF Inv, TypeOK
<1>7. BacklogOK'
  <2>1. \A i \in 1..Len(backlog) : backlog[i] # c /\ backlog[i] \in Conn
    BY <1>3, ElementOfSeq DEF Inv, TypeOK, BacklogOK
  <2>2. \A d \in Conn : phase'[d] = IF d = c THEN "closed" ELSE phase[d]
    BY <1>1, <1>2 DEF Inv, TypeOK
  <2>3. client[c] # "new" BY <1>1, <1>3 DEF Inv, BacklogOK
  <2> QED BY <1>2, <2>1, <2>2, <2>3 DEF Inv, BacklogOK
<1>8. WorkersOK'
  <2> SUFFICES ASSUME NEW x \in Worker
               PROVE  /\ wpc'[x] = "dequeue" => req'[x] = NoConn
                      /\ wpc'[x] \in {"open", "errorpage", "head", "received"} => got'[x] >= HeaderLen
    BY DEF WorkersOK
  <2>1. CASE x = w BY <1>2, <2>1 DEF Inv, TypeOK
  <2>2. CASE x # w BY <1>2, <2>2 DEF Inv, TypeOK, WorkersOK
  <2> QED BY <2>1, <2>2
<1>9. Busy' = Busy \ {w} BY <1>2 DEF Inv, TypeOK, Busy
<1>10. \A x \in Busy \ {w} : sock'[x] = sock[x] /\ sock[x] # f
  BY <1>1, <1>2 DEF Inv, TypeOK, SingleOwner, Busy, f
<1>11. Served' = Served \ {f}
  <2>1. Served' = {sock'[x] : x \in Busy'} BY DEF Served
  <2> QED BY <1>9, <1>10, <2>1 DEF Served, f
<1>12. Sockets' = Sockets \ {f} /\ \A g \in Sockets \ {f} : fdTable'[g] = fdTable[g]
  BY <1>1, <1>2, ConnAssumption DEF Inv, TypeOK, Sockets
<1>13. InHand' = InHand /\ Queued' = Queued /\ interest' = interest
  BY <1>2, <1>5 DEF InHand, Queued
<1>14. SingleOwner'
  <2>1. queue' = queue BY <1>2
  <2>2. \A x, y \in Busy' : sock'[x] = sock'[y] => x = y
    BY <1>9, <1>10 DEF Inv, SingleOwner
  <2> QED BY <1>4, <1>5, <1>11, <1>12, <1>13, <2>1, <2>2 DEF Inv, SingleOwner
<1>15. OneDescriptor'
  <2>1. {fdTable'[g] : g \in Sockets'} = {fdTable[g] : g \in Sockets} \ {c}
    BY <1>1, <1>12 DEF Inv, OneDescriptor
  <2>2. {d \in Conn : phase'[d] = "accepted"} = {d \in Conn : phase[d] = "accepted"} \ {c}
    BY <1>1, <1>2 DEF Inv, TypeOK
  <2> QED BY <1>12, <2>1, <2>2 DEF Inv, OneDescriptor
<1>16. EventsFresh' BY <1>2, <1>13 DEF Inv, EventsFresh
<1>17. AnswersItsClient'
  <2>1. \A x \in Busy' : sock[x] \in Sockets \ {f} /\ sock'[x] = sock[x]
    BY <1>9, <1>10 DEF Inv, SingleOwner, Served
  <2>2. \A x \in Busy' : Peer(x)' = Peer(x) /\ req'[x] = req[x]
    BY <1>2, <1>9, <1>12, <2>1 DEF Inv, TypeOK, Peer, Busy
  <2> QED BY <1>9, <2>2 DEF Inv, AnswersItsClient
<1> QED BY <1>6, <1>7, <1>8, <1>14, <1>15, <1>16, <1>17 DEF Inv

Replies == [head : {"none", "200", "400"}, heads : Nat, body : Nat]

(* What the handlers make of a reply is a reply.                           *)
LEMMA RepliesGrow ==
  ASSUME NEW r \in Replies, NEW n \in Nat
  PROVE  /\ [r EXCEPT !.body = @ + n] \in Replies
         /\ \A h \in {"200", "400"} : [r EXCEPT !.head = h, !.heads = @ + 1] \in Replies
<1>1. r.body + n \in Nat /\ r.heads + 1 \in Nat BY DEF Replies
<1> QED BY <1>1 DEF Replies

(* A read takes what it returns out of the socket and adds it to totalLen. *)
LEMMA ReceiveOK ==
  ASSUME Inv, NEW w \in Worker, wpc[w] # "dequeue", NEW n \in 1..inbox[Peer(w)], Receive(w, n)
  PROVE  /\ inbox' \in [Conn -> Nat] /\ got' \in [Worker -> Nat]
         /\ \A x \in Worker \ {w} : got'[x] = got[x]
<1>1. Peer(w) \in Conn BY BusyHasPeer
<1>2. inbox[Peer(w)] \in Nat BY <1>1 DEF Inv, TypeOK
<1>3. n \in Nat /\ inbox[Peer(w)] - n \in Nat BY <1>2
<1> QED BY <1>1, <1>3 DEF Receive, Inv, TypeOK

(* A write changes the peer, its reply and whether the process lives.      *)
LEMMA WriteOK ==
  ASSUME Inv, NEW w \in Worker, NEW calls, NEW response \in Replies, Write(w, calls, response)
  PROVE  /\ client' \in [Conn -> PeerStates]
         /\ \A c \in Conn : client'[c] = "new" => client[c] = "new"
         /\ reply' \in [Conn -> Replies]
         /\ alive' \in BOOLEAN
<1> DEFINE s(x) == IF x = "closed" THEN "answered" ELSE IF x = "aborted" THEN "reset" ELSE x
<1>1. client' = [client EXCEPT ![Peer(w)] = s(client[Peer(w)])] BY DEF Write
<1>2. client \in [Conn -> PeerStates] /\ reply \in [Conn -> Replies]
  BY DEF Inv, TypeOK, Replies
<1>3. \A x \in PeerStates : s(x) \in PeerStates /\ (s(x) = "new" => x = "new")
  BY DEF PeerStates
<1>4. client' \in [Conn -> PeerStates] /\ \A c \in Conn : client'[c] = "new" => client[c] = "new"
  BY <1>1, <1>2, <1>3
<1>5. reply' \in [Conn -> Replies] BY <1>2 DEF Write
<1>6. alive' \in BOOLEAN BY DEF Write
<1> QED BY <1>4, <1>5, <1>6

(* An error read changes the peer only.                                    *)
LEMMA ReadErrorOK ==
  ASSUME Inv, NEW w \in Worker, ReadError(w) \/ UNCHANGED client
  PROVE  /\ client' \in [Conn -> PeerStates]
         /\ \A c \in Conn : client'[c] = "new" => client[c] = "new"
BY DEF ReadError, Inv, TypeOK, PeerStates

(* The header and body loops.                                              *)
LEMMA ReadingInv ==
  ASSUME Inv, NEW w \in Worker, ReadHeader(w) \/ HeaderEnds(w) \/ BodyEnds(w)
  PROVE  Inv'
<1> USE DEF Goto, kernelVars, mainVars
<1>1. CASE ReadHeader(w)
  <2>1. PICK n \in 1..inbox[Peer(w)] : Receive(w, n) BY <1>1 DEF ReadHeader
  <2> DEFINE l == IF got'[w] < HeaderLen THEN "header" ELSE Dispatch(kind[Peer(w)])
  <2>2. /\ wpc[w] = "header"
        /\ wpc' = [wpc EXCEPT ![w] = l]
        /\ req' = [req EXCEPT ![w] = Peer(w)]
        /\ UNCHANGED <<client, kind, sent, reply, kernelVars, alive, mainVars, queue, sock>>
    BY <1>1 DEF ReadHeader
  <2>3. /\ inbox' \in [Conn -> Nat] /\ got' \in [Worker -> Nat]
        /\ \A x \in Worker \ {w} : got'[x] = got[x]
    BY <2>1, <2>2, ReceiveOK
  <2>4. Peer(w) \in Conn BY <2>2, BusyHasPeer
  <2>5. l \in {"header", "head", "open"} BY DEF Dispatch
  <2>6. l # "header" => got'[w] >= HeaderLen
    BY <2>3, CountAssumption DEF Dispatch
  <2> HIDE DEF l
  <2>7. TypeOK' BY <2>2, <2>3, <2>4, <2>5 DEF Inv, TypeOK
  <2> QED BY <2>2, <2>3, <2>5, <2>6, <2>7, StayBusyInv
<1>2. CASE HeaderEnds(w) \/ BodyEnds(w)
  <2>1. /\ wpc[w] \in {"header", "body"}
        /\ wpc' = [wpc EXCEPT ![w] = "close"]
        /\ ReadError(w) \/ UNCHANGED client
        /\ UNCHANGED <<kind, sent, inbox, reply, kernelVars, alive, mainVars, queue, sock, req, got>>
    BY <1>2 DEF HeaderEnds, BodyEnds
  <2>2. /\ client' \in [Conn -> PeerStates]
        /\ \A c \in Conn : client'[c] = "new" => client[c] = "new"
    BY <2>1, ReadErrorOK
  <2>3. TypeOK' BY <2>1, <2>2 DEF Inv, TypeOK
  <2> QED BY <2>1, <2>2, <2>3, StayBusyInv
<1> QED BY <1>1, <1>2

(* The writes of a response that are not part of a loop over reads.        *)
LEMMA WritingInv ==
  ASSUME Inv, NEW w \in Worker, WriteHead(w) \/ WriteContent(w) \/ EchoReceived(w) \/ EchoNothing(w)
  PROVE  Inv'
<1> USE DEF Goto, kernelVars, mainVars
<1>1. wpc[w] # "dequeue" BY DEF WriteHead, WriteContent, EchoReceived, EchoNothing
<1>2. Peer(w) \in Conn /\ reply[Peer(w)] \in Replies
  BY <1>1, BusyHasPeer DEF Inv, TypeOK, Replies
<1>3. wpc[w] = "received" => ReceivedBody(w) \in Nat
  BY CountAssumption DEF Inv, TypeOK, WorkersOK, ReceivedBody
<1>4. PICK response \in Replies, calls \in Nat : Write(w, calls, response)
  <2> DEFINE r == reply[Peer(w)]
  <2>1. CASE WriteHead(w)
    <3>1. [r EXCEPT !.head = "200", !.heads = @ + 1] \in Replies BY <1>2, RepliesGrow
    <3> QED BY <2>1, <3>1 DEF WriteHead
  <2>2. CASE WriteContent(w)
    <3>1. [r EXCEPT !.body = @ + 1] \in Replies BY <1>2, RepliesGrow
    <3> QED BY <2>2, <3>1 DEF WriteContent
  <2>3. CASE EchoReceived(w)
    <3>1. [r EXCEPT !.body = @ + ReceivedBody(w)] \in Replies
      BY <1>2, <1>3, <2>3, RepliesGrow DEF EchoReceived
    <3> QED BY <2>3, <3>1 DEF EchoReceived
  <2>4. CASE EchoNothing(w) BY <1>2, <2>4 DEF EchoNothing
  <2> QED BY <2>1, <2>2, <2>3, <2>4
<1>5. /\ client' \in [Conn -> PeerStates] /\ reply' \in [Conn -> Replies] /\ alive' \in BOOLEAN
      /\ \A c \in Conn : client'[c] = "new" => client[c] = "new"
  BY <1>4, WriteOK
<1>6. UNCHANGED <<kind, sent, inbox, kernelVars, mainVars, queue, sock, req, got>>
  BY DEF WriteHead, WriteContent, EchoReceived, EchoNothing
<1>7. PICK l \in {"received", "content", "close", "body"} :
        /\ wpc' = [wpc EXCEPT ![w] = l]
        /\ l = "received" => wpc[w] = "head"
  BY DEF WriteHead, WriteContent, EchoReceived, EchoNothing, Inv, TypeOK
<1>8. l = "received" => got'[w] >= HeaderLen
  BY <1>6, <1>7 DEF Inv, WorkersOK
<1>9. TypeOK' BY <1>5, <1>6, <1>7 DEF Inv, TypeOK, Replies
<1> QED BY <1>1, <1>5, <1>6, <1>7, <1>8, <1>9, StayBusyInv

(* The loop that echoes the rest of the body.                              *)
LEMMA EchoBodyInv == ASSUME Inv, NEW w \in Worker, EchoBody(w) PROVE Inv'
<1> USE DEF kernelVars, mainVars
<1>1. PICK n \in 1..inbox[Peer(w)] :
         Receive(w, n) /\ Write(w, 1, [reply[Peer(w)] EXCEPT !.body = @ + n])
  BY DEF EchoBody
<1>2. /\ wpc[w] = "body"
      /\ UNCHANGED <<kind, sent, kernelVars, mainVars, queue, wpc, sock, req>>
  BY DEF EchoBody
<1>3. Peer(w) \in Conn /\ reply[Peer(w)] \in Replies
  BY <1>2, BusyHasPeer DEF Inv, TypeOK, Replies
<1>4. [reply[Peer(w)] EXCEPT !.body = @ + n] \in Replies
  <2>1. n \in Nat BY <1>3 DEF Inv, TypeOK
  <2> QED BY <1>3, <2>1, RepliesGrow
<1>5. /\ client' \in [Conn -> PeerStates] /\ reply' \in [Conn -> Replies] /\ alive' \in BOOLEAN
      /\ \A c \in Conn : client'[c] = "new" => client[c] = "new"
  BY <1>1, <1>4, WriteOK
<1>6. /\ inbox' \in [Conn -> Nat] /\ got' \in [Worker -> Nat]
      /\ \A x \in Worker \ {w} : got'[x] = got[x]
  BY <1>1, <1>2, ReceiveOK
<1>7. TypeOK' BY <1>2, <1>5, <1>6 DEF Inv, TypeOK, Replies
<1>8. wpc' = [wpc EXCEPT ![w] = "body"] BY <1>2 DEF Inv, TypeOK
<1> QED BY <1>2, <1>5, <1>6, <1>7, <1>8, StayBusyInv

(* The static files: fopen binds a free descriptor to a file.              *)
LEMMA FileInv ==
  ASSUME Inv, NEW w \in Worker,
         OpenFile(w) \/ OpenFails(w) \/ SendErrorPage(w) \/ ErrorPageFaults(w)
  PROVE  Inv'
<1> USE DEF Goto, netVars, kernelVars, mainVars, workerVars
<1>1. wpc[w] \in {"open", "errorpage"} /\ got[w] >= HeaderLen
  BY DEF OpenFile, OpenFails, SendErrorPage, ErrorPageFaults, Inv, WorkersOK
<1>2. /\ UNCHANGED <<kind, sent, inbox, backlog, phase, interest, mainVars, queue, sock, req, got>>
      /\ fdTable' = fdTable
         \/ \E f \in Fds : fdTable[f] = NoConn /\ fdTable' = [fdTable EXCEPT ![f] = File]
  BY DEF OpenFile, OpenFails, SendErrorPage, ErrorPageFaults, Fopen, Lowest
<1>3. fdTable' \in [Fds -> Conn \cup {File, NoConn}] BY <1>2 DEF Inv, TypeOK
<1>4. PICK l \in {"head", "errorpage", "content"} : wpc' = [wpc EXCEPT ![w] = l]
  BY DEF OpenFile, OpenFails, SendErrorPage, ErrorPageFaults, Inv, TypeOK
<1>5. /\ client' \in [Conn -> PeerStates] /\ reply' \in [Conn -> Replies] /\ alive' \in BOOLEAN
      /\ \A c \in Conn : client'[c] = "new" => client[c] = "new"
  <2>1. CASE SendErrorPage(w)
    <3> DEFINE r == [reply[Peer(w)] EXCEPT !.head = "400", !.heads = @ + 1]
    <3>1. Peer(w) \in Conn /\ reply[Peer(w)] \in Replies
      BY <1>1, BusyHasPeer DEF Inv, TypeOK, Replies
    <3>2. r \in Replies BY <3>1, RepliesGrow
    <3>3. Write(w, 4, r) BY <2>1 DEF SendErrorPage
    <3> QED BY <3>2, <3>3, WriteOK
  <2>2. CASE OpenFile(w) \/ OpenFails(w) \/ ErrorPageFaults(w)
    BY <2>2 DEF OpenFile, OpenFails, ErrorPageFaults, Inv, TypeOK, Replies
  <2> QED BY <2>1, <2>2
<1>6. TypeOK' BY <1>2, <1>3, <1>4, <1>5 DEF Inv, TypeOK, Replies
<1>7. wpc[w] # "dequeue" /\ l # "dequeue" BY <1>1, <1>4
<1>8. /\ got'[w] >= HeaderLen
      /\ \A x \in Worker \ {w} : got'[x] = got[x]
  BY <1>1, <1>2
<1>9. UNCHANGED <<backlog, phase, interest, mainVars, queue, sock, req>> BY <1>2
<1> HIDE DEF netVars, kernelVars, mainVars, workerVars
<1> QED
  <2> HIDE DEF Inv, TypeOK
  <2>1. CASE fdTable' = fdTable
    BY <1>4, <1>5, <1>6, <1>7, <1>8, <1>9, <2>1, StayBusyInv
  <2>2. CASE \E f \in Fds : fdTable[f] = NoConn /\ fdTable' = [fdTable EXCEPT ![f] = File]
    BY <1>4, <1>5, <1>6, <1>7, <1>8, <1>9, <2>2, StayBusyInv
  <2> QED BY <1>2, <2>1, <2>2

-----------------------------------------------------------------------------
(* Every step of the clients, the main thread and the workers preserves    *)
(* the invariant.                                                          *)
LEMMA NextInv == Inv /\ [Next]_vars => Inv'
<1> SUFFICES ASSUME Inv, [Next]_vars PROVE Inv' OBVIOUS
<1>1. ASSUME NEW c \in Conn, ClientStep(c) PROVE Inv' BY <1>1, ClientInv
<1>2. ASSUME MainStep PROVE Inv'
  BY <1>2, PollInv, AcceptInv, HandOffInv, EnqueueInv DEF MainStep
<1>3. ASSUME NEW w \in Worker, WorkerStep(w) PROVE Inv'
  BY <1>3, DequeueInv, ReadingInv, WritingInv, EchoBodyInv, FileInv, CloseInv DEF WorkerStep
<1>4. CASE UNCHANGED vars
  <2> USE <1>4 DEF vars, netVars, kernelVars, serverVars, mainVars, workerVars, Inv
  <2>1. TypeOK' BY DEF TypeOK
  <2>2. BacklogOK' /\ WorkersOK' BY DEF BacklogOK, WorkersOK
  <2>3. Sockets' = Sockets /\ InHand' = InHand /\ Queued' = Queued /\ Busy' = Busy /\ Served' = Served
    BY DEF Sockets, InHand, Queued, Busy, Served
  <2>4. SingleOwner' BY <2>3 DEF SingleOwner
  <2>5. OneDescriptor' BY <2>3 DEF OneDescriptor
  <2>6. EventsFresh' /\ AnswersItsClient' BY <2>3 DEF EventsFresh, AnswersItsClient, Peer
  <2> QED BY <2>1, <2>2, <2>4, <2>5, <2>6
<1> QED BY <1>1, <1>2, <1>3, <1>4 DEF Next

(* The invariant holds in every reachable state.                           *)
LEMMA Invariance == Spec => []Inv
BY InitInv, NextInv, PTL DEF Spec

(* The state always has the declared types.                                *)
THEOREM TypeCorrect == Spec => []TypeOK
<1>1. Inv => TypeOK BY DEF Inv
<1> QED BY <1>1, Invariance, PTL

(* No socket is ever lost, handed to two workers, or closed by one thread  *)
(* while another still uses its number.                                    *)
THEOREM Ownership == Spec => []SingleOwner
<1>1. Inv => SingleOwner BY DEF Inv
<1> QED BY <1>1, Invariance, PTL

(* A connection has one descriptor from accept to close, and none before   *)
(* or after.                                                               *)
THEOREM Descriptors == Spec => []OneDescriptor
<1>1. Inv => OneDescriptor BY DEF Inv
<1> QED BY <1>1, Invariance, PTL

(* The main thread never acts on an event about a descriptor that was      *)
(* closed or reused after epoll_wait reported it.                          *)
THEOREM NoStaleEvents == Spec => []EventsFresh
<1>1. Inv => EventsFresh BY DEF Inv
<1> QED BY <1>1, Invariance, PTL

(* A response always goes to the client whose request is answered.         *)
THEOREM AnswersRightClient == Spec => []AnswersItsClient
<1>1. Inv => AnswersItsClient BY DEF Inv
<1> QED BY <1>1, Invariance, PTL

(* Nobody works on a socket that is another's, closed or reused.           *)
THEOREM SocketsAreOwned == Spec => []SocketsOwned
<1>1. Inv => SocketsOwned BY DEF Inv, SocketsOwned
<1> QED BY <1>1, Invariance, PTL

-----------------------------------------------------------------------------
(* The response.  CloseEndsResponse is not inductive: what it says of a    *)
(* closed connection is the end of an account that starts with accept.     *)
(* Progress is that account, one line per label of a worker: what the      *)
(* worker has read, and what its client has been sent so far.  One socket  *)
(* has one worker (SocketsAreOwned), so that no step of another worker     *)
(* disturbs it.                                                            *)

Receives(c) == client[c] \in {"open", "half"}

Empty(c) == reply[c].heads = 0 /\ reply[c].body = 0

(* The status line and n units are written, to a client that receives.     *)
Begun(c, n) ==
    /\ reply[c].heads <= 1 /\ reply[c].body <= n
    /\ Receives(c) => reply[c].heads = 1 /\ reply[c].body = n

(* The response is whole, unless the client has ended its request early.   *)
Finished(c) ==
    /\ reply[c].heads <= 1 /\ reply[c].body <= Content(c)
    /\ Receives(c) => \/ reply[c].heads = 1 /\ reply[c].body = Content(c)
                      \/ client[c] = "half" /\ sent[c] < Total(c)

(* What a worker at label l that has read n units has done for c.          *)
Stage(l, n, c) ==
    /\ l = "header" => n < HeaderLen /\ Empty(c)
    /\ l \in {"open", "errorpage"} => kind[c] \in {"file", "other"} /\ Empty(c)
    /\ l = "head" => Empty(c)
    /\ l = "content" => kind[c] # "post" /\ Begun(c, 0)
    /\ l = "received" => kind[c] = "post" /\ Begun(c, 0)
    /\ l = "body" => kind[c] = "post" /\ Begun(c, n - HeaderLen)
    /\ l = "close" => Finished(c)

(* Every unit c has sent is still in the socket or read by its worker.     *)
Progress(w, c) ==
    /\ inbox[c] + got[w] = sent[c]
    /\ wpc[w] \notin {"header", "close"} => req[w] = c /\ got[w] >= HeaderLen
    /\ Stage(wpc[w], got[w], c)

(* A connection no worker has yet: nothing read, nothing written.          *)
Untouched(c) == Empty(c) /\ inbox[c] = sent[c]

Working == \A w \in Busy : Progress(w, Peer(w))
Resting == \A w \in Worker : wpc[w] = "dequeue" => got[w] = 0
Waiting == \A c \in Conn : phase[c] # "closed" /\ (\A w \in Busy : Peer(w) # c) => Untouched(c)
Answered == \A c \in Conn : phase[c] = "closed" => Finished(c)
Bounded == \A c \in Conn : sent[c] <= Total(c)

RInv == Inv /\ Working /\ Resting /\ Waiting /\ Answered /\ Bounded

-----------------------------------------------------------------------------
(* The initial state satisfies the invariant.                              *)
LEMMA InitRInv == Init => RInv
<1> SUFFICES ASSUME Init PROVE RInv OBVIOUS
<1>1. Inv BY InitInv
<1>2. Busy = {} BY DEF Init, Busy
<1>3. Working BY <1>2 DEF Working
<1>4. Resting BY DEF Init, Resting
<1>5. Waiting BY DEF Init, Waiting, Untouched, Empty
<1>6. Answered BY DEF Init, Answered
<1>7. Bounded BY CountAssumption DEF Init, Bounded, Total
<1> QED BY <1>1, <1>3, <1>4, <1>5, <1>6, <1>7 DEF RInv

(* The length of a request, and of the content that answers it.            *)
LEMMA Lengths ==
  ASSUME NEW c \in Conn
  PROVE  /\ HeaderLen \in Nat \ {0} /\ BodyLen \in Nat
         /\ Total(c) \in Nat /\ Content(c) \in Nat /\ Total(c) >= HeaderLen
         /\ kind[c] = "post" => Total(c) = HeaderLen + BodyLen /\ Content(c) = BodyLen
         /\ kind[c] # "post" => Content(c) = 1
BY CountAssumption DEF Total, Content

(* Two workers never have the same client.                                 *)
LEMMA DistinctPeers ==
  ASSUME Inv, NEW x \in Busy, NEW y \in Busy, Peer(x) = Peer(y)
  PROVE  x = y
<1>1. sock[x] \in Sockets /\ sock[y] \in Sockets
  BY BusyHasPeer DEF Busy
<1> QED BY <1>1 DEF Inv, SingleOwner, OneDescriptor, Peer

(* A busy worker's client is an accepted connection.                       *)
LEMMA PeerAccepted ==
  ASSUME Inv, NEW w \in Busy
  PROVE  w \in Worker /\ wpc[w] # "dequeue" /\ Peer(w) \in Conn /\ phase[Peer(w)] = "accepted"
<1>1. w \in Worker /\ wpc[w] # "dequeue" BY DEF Busy
<1>2. sock[w] \in Sockets BY <1>1, BusyHasPeer
<1> QED BY <1>1, <1>2 DEF Inv, OneDescriptor, Peer, Sockets

(* The workers keep their clients while open sockets keep their meaning.   *)
LEMMA PeersKept ==
  ASSUME Inv, sock' = sock,
         \A f \in Sockets : fdTable'[f] = fdTable[f]
  PROVE  \A x \in Busy : Peer(x)' = Peer(x)
<1>1. \A x \in Busy : sock[x] \in Sockets BY BusyHasPeer DEF Busy
<1> QED BY <1>1 DEF Peer

-----------------------------------------------------------------------------
(* A step that only adds to what one client has sent, or ends it.          *)
LEMMA ClientRInv == ASSUME RInv, NEW c \in Conn, ClientStep(c) PROVE RInv'
<1> USE DEF RInv
<1>0. Inv' BY ClientInv
<1>1. /\ UNCHANGED <<kind, reply, fdTable, sock, wpc, req, got>>
      /\ \A d \in Conn \ {c} : /\ client'[d] = client[d] /\ sent'[d] = sent[d]
                               /\ inbox'[d] = inbox[d] /\ phase'[d] = phase[d]
      /\ phase[c] # "closed" /\ phase'[c] # "closed"
  <2>1. Connect(c) => phase[c] = "none" BY DEF Connect, Inv, BacklogOK
  <2> QED
    BY <2>1 DEF ClientStep, Connect, Send, ClientEnds, ResetArrives, kernelVars, serverVars,
                workerVars, Inv, TypeOK
<1>2. Receives(c)' => /\ Receives(c) \/ phase[c] = "none"
                      /\ client[c] = "half" => client'[c] = "half"
  <2>1. Connect(c) => phase[c] = "none" BY DEF Connect, Inv, BacklogOK
  <2> QED
    BY <2>1 DEF ClientStep, Connect, Send, ClientEnds, ResetArrives, Receives, Inv, TypeOK
<1>3. /\ sent'[c] <= Total(c)
      /\ \/ sent'[c] = sent[c] /\ inbox'[c] = inbox[c]
         \/ sent'[c] = sent[c] + 1 /\ inbox'[c] = inbox[c] + 1 /\ client'[c] = client[c]
            /\ client[c] = "open"
  <2>1. sent[c] \in Nat /\ Total(c) \in Nat BY Lengths DEF Inv, TypeOK
  <2> QED
    BY <2>1 DEF ClientStep, Connect, Send, ClientEnds, ResetArrives, Inv, TypeOK, Bounded
<1>4. Busy' = Busy /\ \A x \in Busy : Peer(x)' = Peer(x) BY <1>1 DEF Busy, Peer
<1>5. \A d \in Conn : Total(d)' = Total(d) /\ Content(d)' = Content(d) /\ Empty(d)' = Empty(d)
  BY <1>1 DEF Total, Content, Empty
<1>6. Working'
  <2> SUFFICES ASSUME NEW w \in Busy, NEW d \in Conn, d = Peer(w), Progress(w, d)
               PROVE  Progress(w, d)'
    BY <1>4, PeerAccepted DEF Working
  <2>1. phase[d] = "accepted" /\ w \in Worker BY PeerAccepted
  <2>2. CASE d # c
    BY <1>1, <1>5, <2>2 DEF Progress, Stage, Begun, Finished, Receives, Empty
  <2>3. CASE d = c
    <3>1. inbox[d] \in Nat /\ sent[d] \in Nat /\ got[w] \in Nat
      BY <2>1 DEF Inv, TypeOK
    <3>2. inbox'[d] + got'[w] = sent'[d]
      BY <1>1, <1>3, <2>3, <3>1 DEF Progress
    <3>3. Receives(d)' => Receives(d) /\ (client[d] = "half" => client'[d] = "half")
      BY <1>2, <2>1, <2>3 DEF Receives
    <3>4. UNCHANGED <<reply, kind, wpc, req, got>> BY <1>1
    <3>5. \A n : Begun(d, n) => Begun(d, n)' BY <3>3, <3>4 DEF Begun
    <3>6. client[d] = "half" => sent'[d] = sent[d] BY <1>3, <2>3
    <3>7. Finished(d) => Finished(d)'
      BY <1>5, <3>3, <3>4, <3>6 DEF Finished
    <3> HIDE DEF RInv
    <3> QED BY <1>5, <3>2, <3>4, <3>5, <3>7 DEF Progress, Stage
  <2> QED BY <2>2, <2>3
<1>7. Resting' BY <1>1 DEF Resting
<1>8. Waiting'
  BY <1>1, <1>3, <1>4, <1>5 DEF Waiting, Untouched, Inv, TypeOK
<1>9. Answered'
  BY <1>1, <1>5 DEF Answered, Finished, Receives
<1>10. Bounded' BY <1>1, <1>3, <1>5 DEF Bounded
<1> QED BY <1>0, <1>6, <1>7, <1>8, <1>9, <1>10

(* The main thread touches nothing a response is made of.                  *)
LEMMA MainRInv == ASSUME RInv, MainStep PROVE RInv'
<1> USE DEF RInv
<1>0. Inv' BY PollInv, AcceptInv, HandOffInv, EnqueueInv DEF MainStep
<1>1. /\ UNCHANGED <<client, kind, sent, inbox, reply, sock, wpc, req, got>>
      /\ \A d \in Conn : phase'[d] = "closed" <=> phase[d] = "closed"
  <2>1. Accept => Head(backlog) \in Conn /\ phase[Head(backlog)] = "backlog"
    <3> SUFFICES ASSUME Accept PROVE Head(backlog) \in Conn /\ phase[Head(backlog)] = "backlog"
      OBVIOUS
    <3>1. Len(backlog) \in Nat \ {0} /\ Head(backlog) = backlog[1] /\ Head(backlog) \in Conn
      BY HeadTailProperties, EmptySeq DEF Accept, Inv, TypeOK
    <3> QED BY <3>1 DEF Inv, BacklogOK
  <2>2. UNCHANGED <<client, kind, sent, inbox, reply, sock, wpc, req, got>>
    BY DEF MainStep, EpollWait, BatchDone, Accept, AcceptFails, HandOff, Enqueue, netVars, workerVars
  <2>3. phase' = phase \/ (Accept /\ phase' = [phase EXCEPT ![Head(backlog)] = "accepted"])
    BY DEF MainStep, EpollWait, BatchDone, Accept, AcceptFails, HandOff, Enqueue, kernelVars
  <2> QED BY <2>1, <2>2, <2>3 DEF Inv, TypeOK
<1>2. \A f \in Sockets : fdTable'[f] = fdTable[f]
  <2>1. fdTable' = fdTable \/ \E f \in Fds : fdTable[f] = NoConn /\ fdTable' = [fdTable EXCEPT ![f] = Head(backlog)]
    BY DEF MainStep, EpollWait, BatchDone, Accept, Lowest, AcceptFails, HandOff, Enqueue, kernelVars
  <2> QED BY <2>1, ConnAssumption DEF Inv, TypeOK, Sockets
<1>3. Busy' = Busy /\ \A x \in Busy : Peer(x)' = Peer(x) BY <1>1, <1>2, PeersKept DEF Busy
<1>4. \A d \in Conn : Total(d)' = Total(d) /\ Content(d)' = Content(d) /\ Empty(d)' = Empty(d)
  BY <1>1 DEF Total, Content, Empty
<1>5. Working'
  <2>1. \A w \in Busy : Peer(w) \in Conn BY PeerAccepted
  <2> QED
    BY <1>1, <1>3, <1>4, <2>1 DEF Working, Progress, Stage, Begun, Finished, Receives, Empty
<1>6. Resting' BY <1>1 DEF Resting
<1>7. Waiting' BY <1>1, <1>3, <1>4 DEF Waiting, Untouched
<1>8. Answered' BY <1>1, <1>4 DEF Answered, Finished, Receives
<1>9. Bounded' BY <1>1, <1>4 DEF Bounded
<1> QED BY <1>0, <1>5, <1>6, <1>7, <1>8, <1>9

-----------------------------------------------------------------------------
(* A worker that goes on with its request disturbs no other account.       *)
LEMMA WorkerFrame ==
  ASSUME RInv, Inv', NEW w \in Busy, Busy' = Busy,
         UNCHANGED <<kind, sent, phase>>,
         \A x \in Busy : Peer(x)' = Peer(x),
         \A d \in Conn \ {Peer(w)} :
             client'[d] = client[d] /\ inbox'[d] = inbox[d] /\ reply'[d] = reply[d],
         \A x \in Worker \ {w} : wpc'[x] = wpc[x] /\ req'[x] = req[x] /\ got'[x] = got[x],
         NEW c \in Conn, c = Peer(w), Progress(w, c)'
  PROVE  RInv'
<1> USE DEF RInv
<1>1. \A d \in Conn : Total(d)' = Total(d) /\ Content(d)' = Content(d)
  BY DEF Total, Content
<1>2. Working'
  <2> SUFFICES ASSUME NEW x \in Busy, x # w, NEW d \in Conn, d = Peer(x), Progress(x, d)
               PROVE  Progress(x, d)'
    BY PeerAccepted DEF Working
  <2>1. x \in Worker /\ d # c BY PeerAccepted, DistinctPeers
  <2> QED BY <1>1, <2>1 DEF Progress, Stage, Begun, Finished, Receives, Empty
<1>3. Resting' BY DEF Resting, Busy
<1>4. Waiting' BY DEF Waiting, Untouched, Empty
<1>5. Answered'
  <2>1. phase[c] = "accepted" BY PeerAccepted
  <2> QED BY <1>1, <2>1 DEF Answered, Finished, Receives
<1>6. Bounded' BY <1>1 DEF Bounded
<1> QED BY <1>2, <1>3, <1>4, <1>5, <1>6

(* What a client that receives is written reaches it.                      *)
LEMMA WriteEffect ==
  ASSUME Inv, NEW w \in Worker, NEW c \in Conn, c = Peer(w),
         NEW calls, NEW response, Write(w, calls, response)
  PROVE  /\ \A d \in Conn \ {c} : client'[d] = client[d] /\ reply'[d] = reply[d]
         /\ \/ Receives(c) /\ client'[c] = client[c] /\ reply'[c] = response
            \/ ~Receives(c) /\ ~Receives(c)' /\ reply'[c] = reply[c]
BY DEF Write, Receives, Inv, TypeOK, PeerStates

(* A worker with a request takes one of these steps, CloseSocket aside.    *)
Work(w) ==
    \/ ReadHeader(w) \/ HeaderEnds(w) \/ WriteHead(w) \/ WriteContent(w)
    \/ EchoReceived(w) \/ EchoBody(w) \/ EchoNothing(w) \/ BodyEnds(w)
    \/ OpenFile(w) \/ OpenFails(w) \/ SendErrorPage(w) \/ ErrorPageFaults(w)

(* Such a step keeps every worker's client, and changes only the data of   *)
(* its own.                                                                *)
LEMMA WorkOwn ==
  ASSUME Inv, NEW w \in Worker, Work(w)
  PROVE  /\ Inv' /\ w \in Busy /\ Busy' = Busy
         /\ UNCHANGED <<kind, sent, phase>>
         /\ \A x \in Busy : Peer(x)' = Peer(x)
         /\ \A d \in Conn \ {Peer(w)} :
               client'[d] = client[d] /\ inbox'[d] = inbox[d] /\ reply'[d] = reply[d]
         /\ \A x \in Worker \ {w} : wpc'[x] = wpc[x] /\ req'[x] = req[x] /\ got'[x] = got[x]
<1>1. Inv' BY ReadingInv, WritingInv, EchoBodyInv, FileInv DEF Work
<1>2. wpc[w] # "dequeue"
  BY DEF Work, ReadHeader, HeaderEnds, WriteHead, WriteContent, EchoReceived, EchoBody,
         EchoNothing, BodyEnds, OpenFile, OpenFails, SendErrorPage, ErrorPageFaults
<1>3. UNCHANGED <<kind, sent, phase, sock>>
  BY DEF Work, ReadHeader, HeaderEnds, WriteHead, WriteContent, EchoReceived, EchoBody,
         EchoNothing, BodyEnds, OpenFile, OpenFails, SendErrorPage, ErrorPageFaults,
         netVars, kernelVars, workerVars
<1>4. \/ wpc' = wpc
      \/ \E l \in {"header", "head", "open", "close", "received", "content", "body", "errorpage"} :
            wpc' = [wpc EXCEPT ![w] = l]
  BY DEF Work, ReadHeader, HeaderEnds, WriteHead, WriteContent, EchoReceived, EchoBody,
         EchoNothing, BodyEnds, OpenFile, OpenFails, SendErrorPage, ErrorPageFaults,
         workerVars, Goto, Dispatch
<1>5. /\ req' = req \/ req' = [req EXCEPT ![w] = Peer(w)]
      /\ UNCHANGED <<inbox, got>> \/ \E n : Receive(w, n)
  BY DEF Work, ReadHeader, HeaderEnds, WriteHead, WriteContent, EchoReceived, EchoBody,
         EchoNothing, BodyEnds, OpenFile, OpenFails, SendErrorPage, ErrorPageFaults,
         netVars, workerVars
<1>6. UNCHANGED <<client, reply>>
      \/ (ReadError(w) /\ reply' = reply) \/ \E calls, response : Write(w, calls, response)
  BY DEF Work, ReadHeader, HeaderEnds, WriteHead, WriteContent, EchoReceived, EchoBody,
         EchoNothing, BodyEnds, OpenFile, OpenFails, SendErrorPage, ErrorPageFaults, netVars
<1>7. fdTable' = fdTable \/ \E f \in Fds : fdTable[f] = NoConn /\ fdTable' = [fdTable EXCEPT ![f] = File]
  BY DEF Work, ReadHeader, HeaderEnds, WriteHead, WriteContent, EchoReceived, EchoBody,
         EchoNothing, BodyEnds, OpenFile, OpenFails, SendErrorPage, ErrorPageFaults,
         Fopen, Lowest, kernelVars
<1>8. Peer(w) \in Conn /\ w \in Busy BY <1>2, BusyHasPeer
<1>9. Busy' = Busy BY <1>2, <1>4 DEF Busy, Inv, TypeOK
<1>10. \A f \in Sockets : fdTable'[f] = fdTable[f]
  BY <1>7, ConnAssumption DEF Inv, TypeOK, Sockets
<1>11. \A x \in Busy : Peer(x)' = Peer(x) BY <1>3, <1>10, PeersKept
<1>12. \A d \in Conn \ {Peer(w)} : client'[d] = client[d] /\ reply'[d] = reply[d]
  BY <1>6, <1>8, WriteEffect DEF ReadError, Inv, TypeOK
<1>13. \A d \in Conn \ {Peer(w)} : inbox'[d] = inbox[d]
  BY <1>5, <1>8 DEF Receive, Inv, TypeOK
<1>14. \A x \in Worker \ {w} : wpc'[x] = wpc[x] /\ req'[x] = req[x] /\ got'[x] = got[x]
  BY <1>4, <1>5 DEF Receive, Inv, TypeOK
<1> QED BY <1>1, <1>3, <1>8, <1>9, <1>11, <1>12, <1>13, <1>14

(* A read moves n units from the socket to what the worker has read.       *)
LEMMA ReceiveEffect ==
  ASSUME RInv, NEW w \in Busy, NEW c \in Conn, c = Peer(w),
         NEW n \in 1..inbox[c], Receive(w, n)
  PROVE  /\ n \in Nat \ {0} /\ got[w] \in Nat /\ got'[w] = got[w] + n
         /\ inbox'[c] + got'[w] = sent[c]
<1>1. w \in Worker /\ Progress(w, c) BY PeerAccepted DEF RInv, Working
<1>2. inbox[c] \in Nat /\ got[w] \in Nat /\ sent[c] \in Nat BY <1>1 DEF RInv, Inv, TypeOK
<1>3. got'[w] = got[w] + n /\ inbox'[c] = inbox[c] - n BY <1>1 DEF Receive, RInv, Inv, TypeOK
<1> QED BY <1>1, <1>2, <1>3 DEF Progress

(* The account of a worker stays right as it reads.                        *)
LEMMA ReadingProgress ==
  ASSUME RInv, NEW w \in Worker, NEW c \in Conn, c = Peer(w), c = Peer(w)', kind' = kind,
         ReadHeader(w) \/ HeaderEnds(w) \/ BodyEnds(w)
  PROVE  Progress(w, c)'
<1>1. wpc[w] \in {"header", "body"} /\ w \in Busy
  BY BusyHasPeer DEF ReadHeader, HeaderEnds, BodyEnds, RInv
<1>2. Progress(w, c) BY <1>1 DEF RInv, Working
<1>3. /\ inbox[c] \in Nat /\ got[w] \in Nat /\ sent[c] \in Nat
      /\ reply[c].heads \in Nat /\ reply[c].body \in Nat
  BY DEF RInv, Inv, TypeOK
<1>4. HeaderLen \in Nat \ {0} /\ Total(c) \in Nat /\ Content(c) \in Nat /\ Total(c) >= HeaderLen
  BY Lengths
<1>5. Total(c)' = Total(c) /\ Content(c)' = Content(c) BY DEF Total, Content
<1>6. CASE ReadHeader(w)
  <2>1. PICK n \in 1..inbox[c] : Receive(w, n) BY <1>6 DEF ReadHeader
  <2>2. n \in Nat /\ got'[w] = got[w] + n /\ inbox'[c] + got'[w] = sent[c]
    BY <1>1, <2>1, ReceiveEffect
  <2>3. /\ wpc[w] = "header" /\ reply' = reply /\ sent' = sent /\ req'[w] = c
        /\ wpc'[w] = IF got'[w] < HeaderLen THEN "header" ELSE Dispatch(kind[c])
    BY <1>6 DEF ReadHeader, Goto, RInv, Inv, TypeOK
  <2>4. Empty(c)' BY <1>2, <2>3 DEF Progress, Stage, Empty
  <2>5. CASE got'[w] < HeaderLen
    BY <2>2, <2>3, <2>4, <2>5 DEF Progress, Stage
  <2>6. CASE ~(got'[w] < HeaderLen)
    <3>1. got'[w] >= HeaderLen BY <1>3, <1>4, <2>2, <2>6
    <3>2. wpc'[w] = Dispatch(kind[c]) BY <2>3, <2>6
    <3>3. wpc'[w] = "head" \/ (wpc'[w] = "open" /\ kind'[c] \in {"file", "other"})
      BY <3>2 DEF Dispatch, RInv, Inv, TypeOK, RequestKinds
    <3> QED BY <2>2, <2>3, <2>4, <3>1, <3>3 DEF Progress, Stage
  <2> QED BY <2>5, <2>6
<1>7. CASE HeaderEnds(w) \/ BodyEnds(w)
  <2>1. UNCHANGED <<sent, inbox, reply, got>> /\ wpc'[w] = "close"
    BY <1>7 DEF HeaderEnds, BodyEnds, Goto, RInv, Inv, TypeOK
  <2>2. client' = client \/ client'[c] = "reset"
    BY <1>7 DEF HeaderEnds, BodyEnds, ReadError, RInv, Inv, TypeOK
  <2>3. reply[c].heads <= 1 /\ reply[c].body <= Content(c)
    <3>1. CASE wpc[w] = "header"
      BY <1>2, <1>4, <3>1 DEF Progress, Stage, Empty
    <3>2. CASE wpc[w] = "body"
      <4>1. kind[c] = "post" /\ reply[c].heads <= 1 /\ reply[c].body <= got[w] - HeaderLen
        BY <1>2, <3>2 DEF Progress, Stage, Begun
      <4>2. sent[c] <= Total(c) BY DEF RInv, Bounded
      <4>3. BodyLen \in Nat /\ Total(c) = HeaderLen + BodyLen /\ Content(c) = BodyLen
        BY <4>1, Lengths
      <4>4. inbox[c] + got[w] = sent[c] BY <1>2 DEF Progress
      <4> QED BY <1>3, <1>4, <4>1, <4>2, <4>3, <4>4
    <3> QED BY <1>1, <3>1, <3>2
  <2>4. ASSUME client' = client, Receives(c)
        PROVE  \/ reply[c].heads = 1 /\ reply[c].body = Content(c)
               \/ client[c] = "half" /\ sent[c] < Total(c)
    <3>1. ~ReadError(w) BY <2>4 DEF ReadError, Receives, RInv, Inv, TypeOK
    <3>2. CASE HeaderEnds(w)
      <4>1. wpc[w] = "header" /\ inbox[c] = 0 /\ client[c] = "half"
        BY <2>4, <3>1, <3>2 DEF HeaderEnds, EndOfFile, Receives
      <4>2. got[w] < HeaderLen /\ got[w] = sent[c] BY <1>2, <1>3, <4>1 DEF Progress, Stage
      <4> QED BY <1>3, <1>4, <4>1, <4>2
    <3>3. CASE BodyEnds(w)
      <4>1. wpc[w] = "body" /\ ~(got[w] < Total(c))
        BY <1>2, <3>1, <3>3 DEF BodyEnds, BodyLeft, Progress
      <4>2. kind[c] = "post" /\ reply[c].heads = 1 /\ reply[c].body = got[w] - HeaderLen
        BY <1>2, <2>4, <4>1 DEF Progress, Stage, Begun
      <4>3. sent[c] <= Total(c) BY DEF RInv, Bounded
      <4>4. BodyLen \in Nat /\ Total(c) = HeaderLen + BodyLen /\ Content(c) = BodyLen
        BY <4>2, Lengths
      <4>5. inbox[c] + got[w] = sent[c] BY <1>2 DEF Progress
      <4> QED BY <1>3, <1>4, <4>1, <4>2, <4>3, <4>4, <4>5
    <3> QED BY <1>7, <3>2, <3>3
  <2>5. Finished(c)'
    <3>1. Receives(c)' => client' = client /\ Receives(c) BY <2>2 DEF Receives
    <3> QED BY <1>5, <2>1, <2>3, <2>4, <3>1 DEF Finished
  <2>6. inbox'[c] + got'[w] = sent'[c] BY <1>2, <2>1 DEF Progress
  <2> QED BY <2>1, <2>5, <2>6 DEF Progress, Stage
<1> QED BY <1>6, <1>7

(* What a write adds to a reply.                                           *)
LEMMA Writes ==
  ASSUME RInv, NEW c \in Conn, NEW n \in Nat
  PROVE  LET r == reply[c]
         IN  /\ r.heads \in Nat /\ r.body \in Nat
             /\ [r EXCEPT !.body = @ + n].heads = r.heads
             /\ [r EXCEPT !.body = @ + n].body = r.body + n
             /\ \A h : /\ [r EXCEPT !.head = h, !.heads = @ + 1].heads = r.heads + 1
                       /\ [r EXCEPT !.head = h, !.heads = @ + 1].body = r.body
BY DEF RInv, Inv, TypeOK

(* A response that is begun, or that a write goes on with, is begun.       *)
LEMMA BegunByWrite ==
  ASSUME RInv, NEW w \in Busy, NEW c \in Conn, c = Peer(w),
         NEW calls, NEW response, Write(w, calls, response),
         NEW b \in Nat,
         Receives(c) => response.heads = 1 /\ response.body = b,
         ~Receives(c) => reply[c].heads <= 1 /\ reply[c].body <= b
  PROVE  Begun(c, b)'
<1>1. \/ Receives(c) /\ reply'[c] = response
      \/ ~Receives(c) /\ ~Receives(c)' /\ reply'[c] = reply[c]
  BY PeerAccepted, WriteEffect DEF RInv
<1> QED BY <1>1 DEF Begun

(* The account of a worker stays right as it answers.                      *)
LEMMA WritingProgress ==
  ASSUME RInv, NEW w \in Worker, NEW c \in Conn, c = Peer(w), kind' = kind, sent' = sent,
         WriteHead(w) \/ WriteContent(w) \/ EchoReceived(w) \/ EchoBody(w) \/ EchoNothing(w)
         \/ SendErrorPage(w)
  PROVE  Progress(w, c)'
<1>1. wpc[w] \in {"head", "content", "received", "body", "errorpage"} /\ w \in Busy
  BY BusyHasPeer
  DEF WriteHead, WriteContent, EchoReceived, EchoBody, EchoNothing, SendErrorPage, RInv
<1>2. Progress(w, c) BY <1>1 DEF RInv, Working
<1>3. /\ inbox[c] \in Nat /\ got[w] \in Nat /\ sent[c] \in Nat
      /\ reply[c].heads \in Nat /\ reply[c].body \in Nat
  BY DEF RInv, Inv, TypeOK
<1>4. HeaderLen \in Nat \ {0} /\ Content(c) \in Nat /\ (kind[c] # "post" => Content(c) = 1)
  BY Lengths
<1>5. Content(c)' = Content(c) BY DEF Content
<1>6. req[w] = c /\ got[w] >= HeaderLen /\ inbox[c] + got[w] = sent[c]
  BY <1>1, <1>2 DEF Progress
<1>7. PICK k \in Nat : k = got[w] - HeaderLen BY <1>3, <1>4, <1>6
<1> DEFINE headed(h) == [reply[c] EXCEPT !.head = h, !.heads = @ + 1]
           longer(n) == [reply[c] EXCEPT !.body = @ + n]
<1>8. /\ \A h : headed(h).heads = reply[c].heads + 1 /\ headed(h).body = reply[c].body
      /\ \A n \in Nat : longer(n).heads = reply[c].heads /\ longer(n).body = reply[c].body + n
  BY Writes
<1> HIDE DEF headed, longer
(* The status line.                                                        *)
<1>9. ASSUME NEW h, Write(w, 4, headed(h)), Empty(c) PROVE Begun(c, 0)'
  <2>1. headed(h).heads = 1 /\ headed(h).body = 0 BY <1>8, <1>9 DEF Empty
  <2>2. reply[c].heads <= 1 /\ reply[c].body <= 0 BY <1>9 DEF Empty
  <2> QED BY <1>1, <1>9, <2>1, <2>2, BegunByWrite
(* n more units.                                                           *)
<1>10. ASSUME NEW m \in Nat, NEW n \in Nat, Begun(c, m), Write(w, 1, longer(n))
       PROVE  Begun(c, m + n)'
  <2>1. longer(n).heads = reply[c].heads /\ longer(n).body = reply[c].body + n
    BY <1>8, <1>10
  <2>2. /\ reply[c].heads <= 1 /\ reply[c].body <= m
        /\ Receives(c) => reply[c].heads = 1 /\ reply[c].body = m
    BY <1>10 DEF Begun
  <2>3. m + n \in Nat /\ reply[c].body <= m + n BY <1>3, <2>2
  <2> QED BY <1>1, <1>10, <2>1, <2>2, <2>3, BegunByWrite
<1>11. CASE WriteHead(w)
  <2>1. /\ UNCHANGED <<inbox, req, got>>
        /\ wpc[w] = "head" /\ wpc'[w] = IF kind[c] = "post" THEN "received" ELSE "content"
        /\ Write(w, 4, headed("200"))
    BY <1>6, <1>11 DEF WriteHead, Goto, RInv, Inv, TypeOK, headed
  <2>2. Empty(c) BY <1>2, <2>1 DEF Progress, Stage
  <2>3. Begun(c, 0)' BY <1>9, <2>1, <2>2
  <2> QED BY <1>6, <2>1, <2>3 DEF Progress, Stage
<1>12. CASE WriteContent(w)
  <2>1. /\ UNCHANGED <<inbox, req, got>>
        /\ wpc[w] = "content" /\ wpc'[w] = "close" /\ Write(w, 1, longer(1))
    BY <1>12 DEF WriteContent, Goto, RInv, Inv, TypeOK, longer
  <2>2. kind[c] # "post" /\ Begun(c, 0) BY <1>2, <2>1 DEF Progress, Stage
  <2>3. Begun(c, 0 + 1)' BY <1>10, <2>1, <2>2
  <2>4. Finished(c)' BY <1>4, <1>5, <2>2, <2>3 DEF Begun, Finished
  <2> QED BY <1>6, <2>1, <2>4 DEF Progress, Stage
<1>13. CASE EchoReceived(w)
  <2>1. /\ UNCHANGED <<inbox, req, got>>
        /\ wpc[w] = "received" /\ wpc'[w] = "body" /\ Write(w, 1, longer(k))
    BY <1>7, <1>13 DEF EchoReceived, ReceivedBody, Goto, RInv, Inv, TypeOK, longer
  <2>2. kind[c] = "post" /\ Begun(c, 0) BY <1>2, <2>1 DEF Progress, Stage
  <2>3. Begun(c, 0 + k)' BY <1>10, <2>1, <2>2
  <2> QED BY <1>6, <1>7, <2>1, <2>2, <2>3 DEF Progress, Stage, Begun
<1>14. CASE EchoBody(w)
  <2>1. PICK n \in 1..inbox[c] : Receive(w, n) /\ Write(w, 1, longer(n))
    BY <1>14 DEF EchoBody, longer
  <2>2. UNCHANGED <<wpc, req>> /\ wpc[w] = "body" BY <1>14 DEF EchoBody
  <2>3. n \in Nat /\ got'[w] = got[w] + n /\ inbox'[c] + got'[w] = sent[c]
    BY <1>1, <2>1, ReceiveEffect
  <2>4. kind[c] = "post" /\ Begun(c, k) BY <1>2, <1>7, <2>2 DEF Progress, Stage
  <2>5. Begun(c, k + n)' BY <1>10, <2>1, <2>3, <2>4
  <2>6. k + n = got'[w] - HeaderLen /\ got'[w] >= HeaderLen
    BY <1>3, <1>4, <1>6, <1>7, <2>3
  <2> QED BY <1>6, <2>2, <2>3, <2>4, <2>5, <2>6 DEF Progress, Stage, Begun
<1>15. CASE EchoNothing(w)
  <2>1. /\ UNCHANGED <<inbox, wpc, req, got>> /\ wpc[w] = "body"
        /\ Write(w, 1, reply[c])
    BY <1>15 DEF EchoNothing
  <2>2. kind[c] = "post" /\ Begun(c, k) BY <1>2, <1>7, <2>1 DEF Progress, Stage
  <2>3. Begun(c, k)' BY <1>1, <2>1, <2>2, BegunByWrite DEF Begun
  <2> QED BY <1>6, <1>7, <2>1, <2>2, <2>3 DEF Progress, Stage, Begun
<1>16. CASE SendErrorPage(w)
  <2>1. /\ UNCHANGED <<inbox, req, got>>
        /\ wpc[w] = "errorpage" /\ wpc'[w] = "content" /\ Write(w, 4, headed("400"))
    BY <1>16 DEF SendErrorPage, Goto, RInv, Inv, TypeOK, headed
  <2>2. kind[c] # "post" /\ Empty(c) BY <1>2, <2>1 DEF Progress, Stage
  <2>3. Begun(c, 0)' BY <1>9, <2>1, <2>2
  <2> QED BY <1>6, <2>1, <2>2, <2>3 DEF Progress, Stage
<1> QED BY <1>11, <1>12, <1>13, <1>14, <1>15, <1>16

(* The static files are opened before anything is written.                 *)
LEMMA FileProgress ==
  ASSUME RInv, NEW w \in Worker, NEW c \in Conn, c = Peer(w),
         OpenFile(w) \/ OpenFails(w) \/ ErrorPageFaults(w)
  PROVE  Progress(w, c)'
<1>1. wpc[w] \in {"open", "errorpage"} /\ w \in Busy
  BY BusyHasPeer DEF OpenFile, OpenFails, ErrorPageFaults, RInv
<1>2. Progress(w, c) BY <1>1 DEF RInv, Working
<1>3. /\ UNCHANGED <<client, kind, sent, inbox, reply, req, got>>
      /\ wpc'[w] \in {"head", "errorpage"}
  BY <1>1 DEF OpenFile, OpenFails, ErrorPageFaults, Goto, netVars, workerVars, RInv, Inv, TypeOK
<1>4. Empty(c) /\ kind[c] \in {"file", "other"} BY <1>1, <1>2 DEF Progress, Stage
<1>5. Empty(c)' BY <1>3, <1>4 DEF Empty
<1> QED BY <1>1, <1>2, <1>3, <1>4, <1>5 DEF Progress, Stage

(* The steps of a worker between dequeue and close.                        *)
LEMMA WorkRInv == ASSUME RInv, NEW w \in Worker, Work(w) PROVE RInv'
<1>1. /\ Inv' /\ w \in Busy /\ Busy' = Busy
      /\ UNCHANGED <<kind, sent, phase>>
      /\ \A x \in Busy : Peer(x)' = Peer(x)
      /\ \A d \in Conn \ {Peer(w)} :
            client'[d] = client[d] /\ inbox'[d] = inbox[d] /\ reply'[d] = reply[d]
      /\ \A x \in Worker \ {w} : wpc'[x] = wpc[x] /\ req'[x] = req[x] /\ got'[x] = got[x]
  BY WorkOwn DEF RInv
<1>2. PICK d \in Conn : d = Peer(w) BY <1>1, PeerAccepted DEF RInv
<1>3. d = Peer(w)' BY <1>1, <1>2
<1>4. Progress(w, d)'
  BY <1>1, <1>2, <1>3, ReadingProgress, WritingProgress, FileProgress DEF Work
<1> QED BY <1>1, <1>2, <1>4, WorkerFrame

(* A dequeued connection is untouched: its account starts.                 *)
LEMMA DequeueRInv == ASSUME RInv, NEW w \in Worker, Dequeue(w) PROVE RInv'
<1> USE DEF RInv
<1>0. Inv' BY DequeueInv
<1>1. /\ UNCHANGED <<client, kind, sent, inbox, reply, phase, fdTable, req, got>>
      /\ wpc[w] = "dequeue" /\ wpc' = [wpc EXCEPT ![w] = "header"]
      /\ \A x \in Worker \ {w} : sock'[x] = sock[x]
  BY DEF Dequeue, Goto, netVars, kernelVars, Inv, TypeOK
<1>2. Busy' = Busy \cup {w} /\ w \notin Busy BY <1>1 DEF Busy, Inv, TypeOK
<1>3. \A x \in Busy : x # w /\ Peer(x)' = Peer(x) BY <1>1, <1>2 DEF Peer, Busy
<1>4. \A d \in Conn : Total(d)' = Total(d) /\ Content(d)' = Content(d) /\ Empty(d)' = Empty(d)
  BY <1>1 DEF Total, Content, Empty
<1>5. PICK c \in Conn : c = Peer(w)' /\ phase[c] = "accepted" /\ \A x \in Busy : Peer(x) # c
  <2>1. PICK f : f = Head(queue) /\ f \in Queued
    <3>1. Len(queue) \in Nat \ {0} /\ Head(queue) = queue[1]
      BY HeadTailProperties, EmptySeq DEF Dequeue, Inv, TypeOK
    <3> QED BY <3>1 DEF Queued
  <2>2. f \in Sockets /\ fdTable[f] \in Conn /\ phase[fdTable[f]] = "accepted"
    BY <2>1 DEF Inv, SingleOwner, OneDescriptor, Sockets
  <2>3. Peer(w)' = fdTable[f] BY <1>1, <2>1 DEF Dequeue, Peer, Inv, TypeOK
  <2>4. ASSUME NEW x \in Busy PROVE Peer(x) # fdTable[f]
    <3>1. sock[x] \in Served /\ sock[x] \in Sockets BY BusyHasPeer DEF Busy, Served
    <3>2. sock[x] # f BY <2>1, <3>1 DEF Inv, SingleOwner
    <3> QED BY <2>2, <3>1, <3>2 DEF Inv, OneDescriptor, Peer
  <2> QED BY <2>2, <2>3, <2>4
<1>6. Progress(w, c)'
  <2>1. Empty(c) /\ inbox[c] = sent[c] BY <1>5 DEF Waiting, Untouched
  <2>2. got[w] = 0 /\ wpc'[w] = "header" BY <1>1 DEF Resting, Inv, TypeOK
  <2>3. HeaderLen > 0 /\ inbox[c] \in Nat BY CountAssumption DEF Inv, TypeOK
  <2> QED BY <1>1, <1>4, <2>1, <2>2, <2>3 DEF Progress, Stage
<1>7. Working'
  <2> SUFFICES ASSUME NEW x \in Busy, NEW d \in Conn, d = Peer(x), Progress(x, d)
               PROVE  Progress(x, d)'
    BY <1>2, <1>3, <1>5, <1>6, PeerAccepted DEF Working
  <2>1. x \in Worker /\ wpc'[x] = wpc[x] BY <1>1, <1>3, PeerAccepted DEF Inv, TypeOK
  <2> QED BY <1>1, <1>4, <2>1 DEF Progress, Stage, Begun, Finished, Receives
<1>8. Resting' BY <1>1 DEF Resting, Inv, TypeOK
<1>9. Waiting' BY <1>1, <1>2, <1>3, <1>4 DEF Waiting, Untouched
<1>10. Answered' BY <1>1, <1>4 DEF Answered, Finished, Receives
<1>11. Bounded' BY <1>1, <1>4 DEF Bounded
<1> QED BY <1>0, <1>7, <1>8, <1>9, <1>10, <1>11

(* The close settles the account: the response is finished.                *)
LEMMA CloseRInv == ASSUME RInv, NEW w \in Worker, CloseSocket(w) PROVE RInv'
<1> USE DEF RInv
<1>0. Inv' BY CloseInv
<1>1. PICK c \in Conn : c = Peer(w) /\ w \in Busy
  BY BusyHasPeer DEF CloseSocket
<1>2. /\ UNCHANGED <<client, kind, sent, inbox, reply>>
      /\ wpc[w] = "close" /\ wpc' = [wpc EXCEPT ![w] = "dequeue"]
      /\ phase' = [phase EXCEPT ![c] = "closed"]
      /\ fdTable' = [fdTable EXCEPT ![sock[w]] = NoConn]
      /\ \A x \in Worker \ {w} : sock'[x] = sock[x] /\ req'[x] = req[x] /\ got'[x] = got[x]
      /\ got'[w] = 0
  BY <1>1 DEF CloseSocket, NoRequest, Goto, netVars, Inv, TypeOK
<1>3. Busy' = Busy \ {w} BY <1>2 DEF Busy, Inv, TypeOK
<1>4. \A x \in Busy \ {w} : x \in Worker /\ wpc'[x] = wpc[x] /\ Peer(x)' = Peer(x) /\ Peer(x) # c
  <2> SUFFICES ASSUME NEW x \in Busy, x # w
               PROVE  x \in Worker /\ wpc'[x] = wpc[x] /\ Peer(x)' = Peer(x) /\ Peer(x) # c
    OBVIOUS
  <2>1. x \in Worker /\ Peer(x) # c BY <1>1, PeerAccepted, DistinctPeers
  <2>2. sock[x] # sock[w] /\ sock[x] \in Fds
    BY <1>1, <2>1, BusyHasPeer, PeerAccepted DEF Peer
  <2> QED BY <1>2, <2>1, <2>2 DEF Peer, Inv, TypeOK
<1>5. \A d \in Conn : /\ Total(d)' = Total(d) /\ Content(d)' = Content(d)
                      /\ Empty(d)' = Empty(d) /\ Finished(d)' = Finished(d)
  BY <1>2 DEF Total, Content, Empty, Finished, Receives
<1>6. Finished(c) BY <1>1, <1>2 DEF Working, Progress, Stage
<1>7. Working'
  <2> SUFFICES ASSUME NEW x \in Busy \ {w}, NEW d \in Conn, d = Peer(x), Progress(x, d)
               PROVE  Progress(x, d)'
    BY <1>3, <1>4, PeerAccepted DEF Working
  <2>1. x \in Worker /\ wpc'[x] = wpc[x] BY <1>4
  <2> QED BY <1>2, <1>5, <2>1 DEF Progress, Stage, Begun, Receives
<1>8. Resting' BY <1>2 DEF Resting, Inv, TypeOK
<1>9. Waiting'
  <2> SUFFICES ASSUME NEW d \in Conn, phase'[d] # "closed", \A x \in Busy' : Peer(x)' # d
               PROVE  Untouched(d)'
    BY DEF Waiting
  <2>1. d # c /\ phase[d] # "closed" BY <1>2 DEF Inv, TypeOK
  <2>2. \A x \in Busy : Peer(x) # d BY <1>1, <1>3, <1>4, <2>1
  <2> QED BY <1>2, <1>5, <2>1, <2>2 DEF Waiting, Untouched
<1>10. Answered' BY <1>2, <1>5, <1>6 DEF Answered, Inv, TypeOK
<1>11. Bounded' BY <1>2, <1>5 DEF Bounded
<1> QED BY <1>0, <1>7, <1>8, <1>9, <1>10, <1>11

-----------------------------------------------------------------------------
(* Every step preserves the invariant.                                     *)
LEMMA NextRInv == RInv /\ [Next]_vars => RInv'
<1> SUFFICES ASSUME RInv, [Next]_vars PROVE RInv' OBVIOUS
<1>1. ASSUME NEW c \in Conn, ClientStep(c) PROVE RInv' BY <1>1, ClientRInv
<1>2. ASSUME MainStep PROVE RInv' BY <1>2, MainRInv
<1>3. ASSUME NEW w \in Worker, WorkerStep(w) PROVE RInv'
  BY <1>3, DequeueRInv, WorkRInv, CloseRInv DEF WorkerStep, Work
<1>4. CASE UNCHANGED vars
  <2>1. Inv' BY <1>4, NextInv DEF RInv
  <2>2. UNCHANGED <<client, kind, sent, inbox, reply, phase, fdTable, wpc, sock, req, got>>
    BY <1>4 DEF vars, netVars, kernelVars, serverVars, workerVars
  <2> QED
    BY <2>1, <2>2 DEF RInv, Working, Resting, Waiting, Answered, Bounded, Busy, Peer, Progress,
                      Stage, Untouched, Begun, Finished, Receives, Empty, Total, Content
<1> QED BY <1>1, <1>2, <1>3, <1>4 DEF Next

(* The invariant holds in every reachable state.                           *)
LEMMA ResponseInvariance == Spec => []RInv
BY InitRInv, NextRInv, PTL DEF Spec

(* At every moment of an account at most one whole response is written.    *)
LEMMA AccountBounds ==
  ASSUME RInv, NEW c \in Conn
  PROVE  reply[c].heads <= 1 /\ reply[c].body <= Content(c)
<1>1. Content(c) \in Nat /\ (kind[c] # "post" => Content(c) = 1) BY Lengths
<1>2. Empty(c) => reply[c].heads <= 1 /\ reply[c].body <= Content(c) BY <1>1 DEF Empty
<1>3. CASE phase[c] = "closed" BY <1>3 DEF RInv, Answered, Finished
<1>4. CASE phase[c] # "closed" /\ \A w \in Busy : Peer(w) # c
  BY <1>2, <1>4 DEF RInv, Waiting, Untouched
<1>5. ASSUME NEW w \in Busy, Peer(w) = c
      PROVE  reply[c].heads <= 1 /\ reply[c].body <= Content(c)
  <2>1. Progress(w, c) /\ w \in Worker /\ wpc[w] # "dequeue"
    BY <1>5, PeerAccepted DEF RInv, Working
  <2>2. wpc[w] \in {"header", "open", "errorpage", "head", "content", "received", "body", "close"}
    BY <2>1 DEF RInv, Inv, TypeOK
  <2>3. reply[c].body \in Nat /\ inbox[c] \in Nat /\ got[w] \in Nat /\ sent[c] \in Nat
    BY <2>1 DEF RInv, Inv, TypeOK
  <2>4. Begun(c, 0) => reply[c].heads <= 1 /\ reply[c].body <= Content(c)
    BY <1>1, <2>3 DEF Begun
  <2>5. CASE wpc[w] \in {"header", "open", "errorpage", "head"}
    BY <1>2, <2>1, <2>5 DEF Progress, Stage
  <2>6. CASE wpc[w] \in {"content", "received"} BY <2>1, <2>4, <2>6 DEF Progress, Stage
  <2>7. CASE wpc[w] = "body"
    <3>1. /\ kind[c] = "post" /\ reply[c].heads <= 1 /\ reply[c].body <= got[w] - HeaderLen
          /\ inbox[c] + got[w] = sent[c]
      BY <2>1, <2>7 DEF Progress, Stage, Begun
    <3>2. HeaderLen \in Nat /\ BodyLen \in Nat /\ Total(c) = HeaderLen + BodyLen /\ Content(c) = BodyLen
      BY <3>1, Lengths
    <3>3. sent[c] <= Total(c) BY DEF RInv, Bounded
    <3> QED BY <2>3, <3>1, <3>2, <3>3
  <2>8. CASE wpc[w] = "close" BY <2>1, <2>8 DEF Progress, Stage, Finished
  <2> QED BY <2>2, <2>5, <2>6, <2>7, <2>8
<1> QED BY <1>3, <1>4, <1>5

(* Every client gets its own response, at most once, and a client that has *)
(* sent its request and still receives has all of it when its connection   *)
(* is closed.                                                              *)
THEOREM ResponseRight == Spec => []RightResponse
<1>1. RInv => RightResponse
  <2> SUFFICES ASSUME RInv PROVE RightResponse OBVIOUS
  <2>1. AnswersItsClient BY DEF RInv, Inv
  <2>2. AtMostOneResponse BY AccountBounds DEF AtMostOneResponse
  <2>3. CloseEndsResponse
    <3> SUFFICES ASSUME NEW c \in Conn, phase[c] = "closed", Receives(c), sent[c] = Total(c)
                 PROVE  reply[c].heads = 1 /\ reply[c].body = Content(c)
      BY DEF CloseEndsResponse, Receives
    <3>1. Finished(c) BY DEF RInv, Answered
    <3>2. Total(c) \in Nat BY Lengths
    <3> QED BY <3>1, <3>2 DEF Finished
  <2> QED BY <2>1, <2>2, <2>3 DEF RightResponse
<1> QED BY <1>1, ResponseInvariance, PTL

-----------------------------------------------------------------------------
(* The descriptors that are lost.  The owners LeakPerFile asks for are     *)
(* named as the files are opened: a request owns at most one, since none   *)
(* is left to open once it is Past that, and each one that is Due an       *)
(* answer owns one.                                                        *)

Past(c) == \/ phase[c] = "closed"
           \/ \E w \in Busy : Peer(w) = c /\ wpc[w] \notin {"header", "open", "errorpage"}

Due(c) == \/ reply[c].heads > 0
          \/ \E w \in Busy : Peer(w) = c /\ wpc[w] \in {"head", "content"}

Owned(owner) ==
    /\ \A f, g \in Leaked : owner[f] = owner[g] => f = g
    /\ \A f \in Leaked : Past(owner[f])
    /\ \A c \in StaticConn : Due(c) => \E f \in Leaked : owner[f] = c

LeakInv == \E owner \in [Leaked -> StaticConn] : Owned(owner)

(* A step that opens no file, and makes nobody less past or more due.      *)
LEMMA LeakKept ==
  ASSUME LeakInv, Leaked' = Leaked, kind' = kind,
         \A c \in StaticConn : (Past(c) => Past(c)') /\ (Due(c)' => Due(c))
  PROVE  LeakInv'
<1>1. PICK owner \in [Leaked -> StaticConn] : Owned(owner) BY DEF LeakInv
<1>2. StaticConn' = StaticConn BY DEF StaticConn
<1>3. Owned(owner)' BY <1>1, <1>2 DEF Owned
<1> QED BY <1>2, <1>3 DEF LeakInv

(* A step that opens one for c, which is past it from then on.             *)
LEMMA LeakGrows ==
  ASSUME LeakInv, kind' = kind, NEW g, g \notin Leaked, Leaked' = Leaked \cup {g},
         NEW c \in StaticConn, ~Past(c), Past(c)',
         \A d \in StaticConn \ {c} : (Past(d) => Past(d)') /\ (Due(d)' => Due(d))
  PROVE  LeakInv'
<1>1. PICK owner \in [Leaked -> StaticConn] : Owned(owner) BY DEF LeakInv
<1>2. StaticConn' = StaticConn BY DEF StaticConn
<1>3. PICK after \in [Leaked \cup {g} -> StaticConn] :
        after[g] = c /\ \A f \in Leaked : after[f] = owner[f]
  <2> DEFINE longer == [f \in Leaked \cup {g} |-> IF f = g THEN c ELSE owner[f]]
  <2>1. longer \in [Leaked \cup {g} -> StaticConn] BY <1>1
  <2>2. longer[g] = c /\ \A f \in Leaked : longer[f] = owner[f] OBVIOUS
  <2> QED BY <2>1, <2>2
<1>4. \A f \in Leaked : owner[f] \in StaticConn /\ owner[f] # c BY <1>1 DEF Owned
<1>5. \A f, h \in Leaked' : after[f] = after[h] => f = h BY <1>1, <1>3, <1>4 DEF Owned
<1>6. \A f \in Leaked' : Past(after[f])' BY <1>1, <1>3, <1>4 DEF Owned
<1>7. \A d \in StaticConn' : Due(d)' => \E f \in Leaked' : after[f] = d
  BY <1>1, <1>2, <1>3 DEF Owned
<1>8. Owned(after)' BY <1>5, <1>6, <1>7 DEF Owned
<1> QED BY <1>2, <1>3, <1>8 DEF LeakInv

(* A worker's client is past its file when its worker is.                  *)
LEMMA PastHere ==
  ASSUME RInv, NEW w \in Busy, NEW c \in Conn, c = Peer(w)
  PROVE  Past(c) <=> wpc[w] \notin {"header", "open", "errorpage"}
<1>1. phase[c] # "closed" BY PeerAccepted DEF RInv
<1>2. \A x \in Busy : Peer(x) = c => x = w BY DistinctPeers DEF RInv
<1> QED BY <1>1, <1>2 DEF Past

(* Clients and the main thread open no file, and move no worker.           *)
LEMMA OthersLeak ==
  ASSUME RInv, LeakInv, (\E c \in Conn : ClientStep(c)) \/ MainStep
  PROVE  LeakInv'
<1> USE DEF RInv
<1> DEFINE Quiet ==
      /\ UNCHANGED <<kind, reply, sock, wpc>>
      /\ \A d \in Conn : phase[d] = "closed" => phase'[d] = "closed"
      /\ \/ fdTable' = fdTable
         \/ \E f \in Fds, d \in Conn : fdTable[f] = NoConn /\ fdTable' = [fdTable EXCEPT ![f] = d]
<1>1. Quiet
  <2>1. ASSUME NEW c \in Conn, Connect(c) PROVE phase[c] = "none"
    BY <2>1 DEF Connect, Inv, BacklogOK
  <2>2. ASSUME NEW c \in Conn, ClientStep(c) PROVE Quiet
    BY <2>1, <2>2 DEF ClientStep, Connect, Send, ClientEnds, ResetArrives, kernelVars,
                      serverVars, workerVars, Inv, TypeOK
  <2>3. Accept => Head(backlog) \in Conn /\ phase[Head(backlog)] = "backlog"
    <3> SUFFICES ASSUME Accept PROVE Head(backlog) \in Conn /\ phase[Head(backlog)] = "backlog"
      OBVIOUS
    <3>1. Len(backlog) \in Nat \ {0} /\ Head(backlog) = backlog[1] /\ Head(backlog) \in Conn
      BY HeadTailProperties, EmptySeq DEF Accept, Inv, TypeOK
    <3> QED BY <3>1 DEF Inv, BacklogOK
  <2>4. ASSUME MainStep PROVE Quiet
    <3>1. CASE Accept
      BY <2>3, <3>1 DEF Accept, Lowest, netVars, workerVars, Inv, TypeOK
    <3>2. CASE MainStep /\ ~Accept
      BY <3>2 DEF MainStep, EpollWait, BatchDone, AcceptFails, HandOff, Enqueue, netVars,
                  kernelVars, workerVars
    <3> QED BY <2>4, <3>1, <3>2
  <2> QED BY <2>2, <2>4
<1>2. Leaked' = Leaked BY <1>1, ConnAssumption DEF Leaked, Inv, TypeOK
<1>3. \A f \in Sockets : fdTable'[f] = fdTable[f]
  BY <1>1, ConnAssumption DEF Inv, TypeOK, Sockets
<1>4. Busy' = Busy /\ \A x \in Busy : Peer(x)' = Peer(x) BY <1>1, <1>3, PeersKept DEF Busy
<1>5. \A c \in StaticConn : (Past(c) => Past(c)') /\ (Due(c)' => Due(c))
  BY <1>1, <1>4 DEF Past, Due, StaticConn
<1> QED BY <1>1, <1>2, <1>5, LeakKept

(* A worker starts on a request before its file is opened.                 *)
LEMMA DequeueLeak ==
  ASSUME RInv, LeakInv, NEW w \in Worker, Dequeue(w)
  PROVE  LeakInv'
<1> USE DEF RInv
<1>1. /\ UNCHANGED <<kind, reply, phase, fdTable>>
      /\ wpc[w] = "dequeue" /\ wpc' = [wpc EXCEPT ![w] = "header"]
      /\ \A x \in Worker \ {w} : sock'[x] = sock[x]
  BY DEF Dequeue, Goto, netVars, kernelVars, Inv, TypeOK
<1>2. Busy' = Busy \cup {w} /\ w \notin Busy /\ wpc'[w] = "header"
  BY <1>1 DEF Busy, Inv, TypeOK
<1>3. \A x \in Busy : wpc'[x] = wpc[x] /\ Peer(x)' = Peer(x)
  BY <1>1, <1>2 DEF Peer, Busy, Inv, TypeOK
<1>4. \A c \in StaticConn : (Past(c) => Past(c)') /\ (Due(c)' => Due(c))
  BY <1>1, <1>2, <1>3 DEF Past, Due
<1> QED BY <1>1, <1>4, LeakKept DEF Leaked

(* A closed connection stays past its file, and frees its descriptor only. *)
LEMMA CloseLeak ==
  ASSUME RInv, LeakInv, NEW w \in Worker, CloseSocket(w)
  PROVE  LeakInv'
<1> USE DEF RInv
<1>1. PICK c \in Conn : c = Peer(w) /\ w \in Busy /\ sock[w] \in Fds
  BY BusyHasPeer DEF CloseSocket
<1>2. /\ UNCHANGED <<kind, reply>>
      /\ wpc[w] = "close" /\ wpc' = [wpc EXCEPT ![w] = "dequeue"]
      /\ phase' = [phase EXCEPT ![c] = "closed"]
      /\ fdTable' = [fdTable EXCEPT ![sock[w]] = NoConn]
      /\ \A x \in Worker \ {w} : sock'[x] = sock[x]
  BY <1>1 DEF CloseSocket, Goto, netVars, Inv, TypeOK
<1>3. Busy' = Busy \ {w} BY <1>2 DEF Busy, Inv, TypeOK
<1>4. ASSUME NEW x \in Busy, x # w
      PROVE  wpc'[x] = wpc[x] /\ Peer(x)' = Peer(x) /\ Peer(x) # c
  <2>1. x \in Worker /\ Peer(x) # c BY <1>1, <1>4, PeerAccepted, DistinctPeers
  <2>2. sock[x] # sock[w] /\ sock[x] \in Fds
    BY <1>1, <2>1, BusyHasPeer, PeerAccepted DEF Peer
  <2> QED BY <1>2, <1>4, <2>1, <2>2 DEF Peer, Inv, TypeOK
<1>5. Leaked' = Leaked BY <1>1, <1>2, ConnAssumption DEF Leaked, Peer, Inv, TypeOK
<1>6. \A d \in Conn : phase'[d] = IF d = c THEN "closed" ELSE phase[d]
  BY <1>2 DEF Inv, TypeOK
<1>7. \A d \in StaticConn : Past(d) => Past(d)'
  BY <1>1, <1>3, <1>4, <1>6 DEF Past, StaticConn
<1>8. \A d \in StaticConn : Due(d)' => Due(d) BY <1>2, <1>3, <1>4 DEF Due
<1> QED BY <1>2, <1>5, <1>7, <1>8, LeakKept

(* A worker's step concerns its own client only.                           *)
LEMMA OwnLeak ==
  ASSUME RInv, NEW w \in Worker, Work(w)
  PROVE  \A d \in Conn \ {Peer(w)} : (Past(d) <=> Past(d)') /\ (Due(d)' <=> Due(d))
<1>1. /\ w \in Busy /\ Busy' = Busy /\ phase' = phase
      /\ \A x \in Busy : Peer(x)' = Peer(x)
      /\ \A d \in Conn \ {Peer(w)} : reply'[d] = reply[d]
      /\ \A x \in Worker \ {w} : wpc'[x] = wpc[x]
  BY WorkOwn DEF RInv
<1>2. \A x \in Busy : x \in Worker BY DEF Busy
<1> QED BY <1>1, <1>2 DEF Past, Due

(* It opens a file in two places, each before the answer begins.           *)
LEMMA OpenLeak ==
  ASSUME RInv, LeakInv, NEW w \in Worker, OpenFile(w) \/ SendErrorPage(w)
  PROVE  LeakInv'
<1>1. /\ Inv' /\ w \in Busy /\ Busy' = Busy /\ kind' = kind
      /\ \A x \in Busy : Peer(x)' = Peer(x)
  BY WorkOwn DEF Work, RInv
<1>2. PICK c \in Conn : c = Peer(w) BY <1>1, PeerAccepted DEF RInv
<1>3. /\ wpc[w] \in {"open", "errorpage"} /\ wpc'[w] \in {"head", "content"}
  BY DEF OpenFile, SendErrorPage, Goto, RInv, Inv, TypeOK
<1>4. c \in StaticConn
  BY <1>1, <1>2, <1>3 DEF RInv, Working, Progress, Stage, StaticConn
<1>5. PICK g \in Fds : fdTable[g] = NoConn /\ fdTable' = [fdTable EXCEPT ![g] = File]
  BY DEF OpenFile, SendErrorPage, Fopen, Lowest
<1>6. g \notin Leaked /\ Leaked' = Leaked \cup {g}
  BY <1>5, ConnAssumption DEF Leaked, RInv, Inv, TypeOK
<1>7. ~Past(c) BY <1>1, <1>2, <1>3, PastHere
<1>8. Past(c)' BY <1>1, <1>2, <1>3 DEF Past
<1>9. \A d \in StaticConn \ {c} : (Past(d) => Past(d)') /\ (Due(d)' => Due(d))
  BY <1>2, OwnLeak DEF Work, StaticConn
<1> QED BY <1>1, <1>4, <1>6, <1>7, <1>8, <1>9, LeakGrows

(* What a worker does besides opens none, and an answer from a file is not *)
(* begun without it.                                                       *)
LEMMA RestLeaks ==
  ASSUME RInv, LeakInv, NEW w \in Worker, Work(w), ~OpenFile(w), ~SendErrorPage(w)
  PROVE  LeakInv'
<1>1. /\ Inv' /\ w \in Busy /\ Busy' = Busy /\ UNCHANGED <<kind, phase>>
      /\ \A x \in Busy : Peer(x)' = Peer(x)
  BY WorkOwn DEF RInv
<1>2. PICK c \in Conn : c = Peer(w) BY <1>1, PeerAccepted DEF RInv
<1>3. fdTable' = fdTable
  BY DEF Work, ReadHeader, HeaderEnds, WriteHead, WriteContent, EchoReceived, EchoBody,
         EchoNothing, BodyEnds, OpenFails, ErrorPageFaults, kernelVars
<1>4. Progress(w, c) BY <1>1, <1>2 DEF RInv, Working
<1>5. wpc[w] \notin {"header", "open", "errorpage"} => wpc'[w] \notin {"header", "open", "errorpage"}
  BY DEF Work, ReadHeader, HeaderEnds, WriteHead, WriteContent, EchoReceived, EchoBody,
         EchoNothing, BodyEnds, OpenFails, ErrorPageFaults, workerVars, Goto, RInv, Inv, TypeOK
<1>6. Past(c) => Past(c)' BY <1>1, <1>2, <1>5, PastHere DEF Past
<1>7. ASSUME c \in StaticConn, reply'[c].heads > 0 \/ wpc'[w] \in {"head", "content"}
      PROVE  reply[c].heads > 0 \/ wpc[w] \in {"head", "content"}
  <2>1. kind[c] \notin {"get", "post"} BY <1>7 DEF StaticConn
  <2>2. CASE ReadHeader(w)
    BY <1>2, <1>7, <2>1, <2>2 DEF ReadHeader, Goto, Dispatch, RInv, Inv, TypeOK
  <2>3. CASE HeaderEnds(w) \/ BodyEnds(w) \/ OpenFails(w) \/ ErrorPageFaults(w)
    BY <1>7, <2>3 DEF HeaderEnds, BodyEnds, OpenFails, ErrorPageFaults, Goto, netVars, workerVars,
                      RInv, Inv, TypeOK
  <2>4. CASE WriteHead(w) \/ WriteContent(w)
    BY <2>4 DEF WriteHead, WriteContent
  <2>5. CASE EchoReceived(w) \/ EchoBody(w) \/ EchoNothing(w)
    BY <1>4, <2>1, <2>5 DEF EchoReceived, EchoBody, EchoNothing, Progress, Stage
  <2> QED BY <2>2, <2>3, <2>4, <2>5 DEF Work
<1>8. \A x \in Busy : Peer(x) = c => x = w BY <1>1, <1>2, DistinctPeers DEF RInv
<1>9. c \in StaticConn => (Due(c)' => Due(c)) BY <1>1, <1>2, <1>7, <1>8 DEF Due
<1>10. \A d \in StaticConn : (Past(d) => Past(d)') /\ (Due(d)' => Due(d))
  BY <1>2, <1>6, <1>9, OwnLeak DEF StaticConn
<1>11. Leaked' = Leaked BY <1>3 DEF Leaked
<1> QED BY <1>1, <1>10, <1>11, LeakKept

(* The descriptors nothing closes are one to each request answered from a  *)
(* file, whatever ends early and however often fopen and accept fail.      *)
THEOREM LeaksCounted == Spec => []LeakPerFile
<1>1. Init => LeakInv
  <2> SUFFICES ASSUME Init PROVE LeakInv OBVIOUS
  <2>1. Leaked = {} BY ConnAssumption DEF Init, Leaked
  <2>2. \A c \in StaticConn : ~Due(c) BY DEF Init, Due, Busy, StaticConn
  <2>3. PICK owner \in [Leaked -> StaticConn] : TRUE
    <3>1. [f \in {} |-> f] \in [Leaked -> StaticConn] BY <2>1
    <3> QED BY <3>1
  <2>4. Owned(owner) BY <2>1, <2>2 DEF Owned
  <2> QED BY <2>4 DEF LeakInv
<1>2. RInv /\ LeakInv /\ [Next]_vars => LeakInv'
  <2> SUFFICES ASSUME RInv, LeakInv, [Next]_vars PROVE LeakInv' OBVIOUS
  <2>1. CASE UNCHANGED vars
    <3>1. UNCHANGED <<kind, reply, phase, fdTable, wpc, sock>>
      BY <2>1 DEF vars, netVars, kernelVars, serverVars, workerVars
    <3> QED BY <3>1, LeakKept DEF Leaked, Past, Due, Busy, Peer
  <2>2. ASSUME NEW w \in Worker, WorkerStep(w) PROVE LeakInv'
    BY <2>2, DequeueLeak, CloseLeak, OpenLeak, RestLeaks DEF WorkerStep, Work
  <2> QED BY <2>1, <2>2, OthersLeak DEF Next
<1>3. LeakInv => LeakPerFile
  <2> SUFFICES ASSUME LeakInv PROVE LeakPerFile OBVIOUS
  <2>1. PICK owner \in [Leaked -> StaticConn] : Owned(owner) BY DEF LeakInv
  <2> QED BY <2>1 DEF Owned, Due, LeakPerFile
<1> QED BY <1>1, <1>2, <1>3, ResponseInvariance, PTL DEF Spec
=============================================================================
