-------------------------- MODULE EpollEchoProofs --------------------------
(***************************************************************************)
(* Proofs about module EpollEcho: no readiness of a socket is lost in      *)
(* either mode, none of the listening socket in level-triggered mode.      *)
(***************************************************************************)
EXTENDS EpollEcho, TLAPS, SequenceTheorems

(* An open socket is registered; the server waits only with an empty batch *)
(* and only the edge-triggered one reads in a loop; the ready list itself  *)
(* holds what a level-triggered descriptor has to report.                  *)
OpenRegistered == \A c \in Conn : server[c] = "open" => c \in interest
ModesOK ==
    /\ mpc = "wait" => events = {}
    /\ mpc = "read" => edge /\ current \in Conn
LevelKept ==
    ~edge =>
        /\ backlog # <<>> => Listener \in ready
        /\ \A c \in Conn : server[c] = "open" /\ Readable(c) => c \in ready
Inv == TypeOK /\ OpenRegistered /\ ModesOK /\ LevelKept /\ SocketsWatched

(* What arrives for an open socket is put on the ready list.               *)
LEMMA ArrivalKept ==
  ASSUME Inv, NEW c \in Conn, Arrives(c),
         UNCHANGED <<edge, server, backlog, interest, loopVars>>,
         \A x \in Conn \ {c} : Readable(x)' <=> Readable(x)
  PROVE  OpenRegistered' /\ ModesOK' /\ LevelKept' /\ SocketsWatched' /\ ready' \subseteq interest' \cup {Listener}
<1> USE DEF Inv, TypeOK, Arrives, loopVars
<1>1. OpenRegistered' BY DEF OpenRegistered
<1>2. LevelKept' BY DEF LevelKept, OpenRegistered
<1>3. SocketsWatched' BY DEF SocketsWatched, OpenRegistered
<1>4. ModesOK' BY DEF ModesOK
<1> QED BY <1>1, <1>2, <1>3, <1>4

LEMMA InitInv == Init => Inv
BY CountAssumption DEF Init, Inv, TypeOK, OpenRegistered, ModesOK, LevelKept, SocketsWatched

(* The clients' steps.                                                     *)
LEMMA ClientInv == ASSUME Inv, NEW c \in Conn, ClientStep(c) PROVE Inv'
<1>1. CASE Connect(c)
  <2> USE <1>1 DEF Connect, loopVars
  <2>1. TypeOK' BY DEF Inv, TypeOK
  <2>2. \A x \in Conn \ {c} : (Readable(x)' <=> Readable(x)) /\ server'[x] = server[x]
    BY DEF Inv, TypeOK, Readable
  <2>3. server'[c] = "backlog" BY DEF Inv, TypeOK
  <2>4. OpenRegistered' BY <2>2, <2>3 DEF Inv, OpenRegistered
  <2>5. LevelKept' BY <2>2, <2>3 DEF Inv, LevelKept
  <2>6. SocketsWatched' BY <2>2, <2>3 DEF Inv, SocketsWatched
  <2>7. ModesOK' BY DEF Inv, ModesOK
  <2> QED BY <2>1, <2>4, <2>5, <2>6, <2>7 DEF Inv
<1>2. CASE Send(c)
  <2> USE <1>2 DEF Send
  <2>1. \A x \in Conn \ {c} : Readable(x)' <=> Readable(x) BY DEF Inv, TypeOK, Readable
  <2>2. OpenRegistered' /\ ModesOK' /\ LevelKept' /\ SocketsWatched' /\ ready' \subseteq interest' \cup {Listener}
    BY <2>1, ArrivalKept
  <2>3. TypeOK' BY <2>2, CountAssumption DEF Inv, TypeOK, loopVars
  <2> QED BY <2>2, <2>3 DEF Inv
<1>3. CASE Shutdown(c)
  <2> USE <1>3 DEF Shutdown
  <2>1. \A x \in Conn \ {c} : Readable(x)' <=> Readable(x) BY DEF Inv, TypeOK, Readable
  <2>2. OpenRegistered' /\ ModesOK' /\ LevelKept' /\ SocketsWatched' /\ ready' \subseteq interest' \cup {Listener}
    BY <2>1, ArrivalKept
  <2>3. TypeOK' BY <2>2 DEF Inv, TypeOK, loopVars
  <2> QED BY <2>2, <2>3 DEF Inv
<1> QED BY <1>1, <1>2, <1>3 DEF ClientStep

(* The steps that touch no socket: epoll_wait and the end of a batch.      *)
LEMMA WaitInv == ASSUME Inv, EpollWait \/ BatchDone PROVE Inv'
<1> USE DEF netVars
<1>1. CASE EpollWait
  <2>1. PICK E \in SUBSET Reportable :
          events' = E /\ ready' = IF EdgeMask THEN Reportable \ E ELSE Reportable
    BY <1>1 DEF EpollWait
  <2>2. mpc' = "batch" /\ UNCHANGED <<edge, netVars, server, inbox, backlog, interest, current>> /\ mpc = "wait"
    BY <1>1 DEF EpollWait
  <2>3. TypeOK' BY <2>1, <2>2 DEF Inv, TypeOK, Reportable
  <2>4. OpenRegistered' BY <2>2 DEF Inv, OpenRegistered
  <2>5. \A x \in Conn : Readable(x)' <=> Readable(x) BY <2>2 DEF Readable, netVars
  <2>6. \A x \in Conn : x \in ready /\ Readable(x) => x \in Reportable
    BY NameAssumption DEF Reportable
  <2>7. LevelKept'
    BY <2>1, <2>2, <2>5, <2>6 DEF Inv, LevelKept, Reportable, EdgeMask
  <2>8. SocketsWatched'
    <3> SUFFICES ASSUME NEW x \in Conn, server[x] = "open", Readable(x)
                 PROVE  x \in ready' \cup events'
      BY <2>2, <2>5 DEF SocketsWatched
    <3>1. x \in ready \cup events BY <2>2 DEF Inv, SocketsWatched
    <3>2. events = {} BY <2>2 DEF Inv, ModesOK
    <3> QED BY <2>1, <2>6, <3>1, <3>2
  <2>9. ModesOK' BY <2>2 DEF Inv, ModesOK
  <2> QED BY <2>3, <2>4, <2>7, <2>8, <2>9 DEF Inv
<1>2. CASE BatchDone
  <2>1. /\ mpc = "batch" /\ mpc' = "wait"
        /\ UNCHANGED <<edge, netVars, server, inbox, backlog, interest, ready, events, current>>
    BY <1>2 DEF BatchDone
  <2>2. TypeOK' BY <2>1 DEF Inv, TypeOK
  <2>3. \A x \in Conn : Readable(x)' <=> Readable(x) BY <2>1 DEF Readable
  <2>4. OpenRegistered' BY <2>1 DEF Inv, OpenRegistered
  <2>5. LevelKept' BY <2>1, <2>3 DEF Inv, LevelKept
  <2>6. SocketsWatched' BY <2>1, <2>3 DEF Inv, SocketsWatched
  <2>7. ModesOK' BY <1>2, <2>1 DEF BatchDone, ModesOK
  <2> QED BY <2>2, <2>4, <2>5, <2>6, <2>7 DEF Inv
<1> QED BY <1>1, <1>2

(* Accept registers the socket, and epoll notices what it holds already.   *)
LEMMA AcceptInv == ASSUME Inv, Accept PROVE Inv'
<1> DEFINE c == Head(backlog)
<1>1. c \in Conn /\ Tail(backlog) \in Seq(Conn) BY DEF Accept, Inv, TypeOK
<1>2. /\ UNCHANGED <<edge, client, sent, inbox, mpc, current>>
      /\ events' = events \ {Listener} /\ backlog' = Tail(backlog)
      /\ server' = [server EXCEPT ![c] = "open"]
      /\ interest' = interest \cup {c}
      /\ ready' = ready \cup (IF Readable(c) THEN {c} ELSE {})
      /\ backlog # <<>>
  BY DEF Accept, Registered, netVars
<1>3. TypeOK' BY <1>1, <1>2 DEF Inv, TypeOK
<1>4. OpenRegistered' BY <1>1, <1>2 DEF Inv, TypeOK, OpenRegistered
<1>5. LevelKept'
  <2> SUFFICES ASSUME ~edge', NEW x \in Conn, server'[x] = "open", Readable(x)'
               PROVE  x \in ready'
    BY <1>2 DEF Inv, LevelKept
  <2>1. Readable(x) BY <1>2 DEF Readable
  <2>2. x # c => server[x] = "open" BY <1>1, <1>2 DEF Inv, TypeOK
  <2> QED BY <1>2, <2>1, <2>2 DEF Inv, LevelKept
<1>6. SocketsWatched'
  <2> SUFFICES ASSUME NEW x \in Conn, server'[x] = "open", Readable(x)'
               PROVE  x \in ready' \cup events' \/ (mpc' = "read" /\ x = current')
    BY DEF SocketsWatched
  <2>1. Readable(x) BY <1>2 DEF Readable
  <2>2. CASE x = c BY <1>2, <2>1, <2>2
  <2>3. CASE x # c
    <3>1. server[x] = "open" BY <1>1, <1>2, <2>3 DEF Inv, TypeOK
    <3> QED BY <1>2, <2>1, <3>1, NameAssumption DEF Inv, SocketsWatched
  <2> QED BY <2>2, <2>3
<1>7. ModesOK' BY <1>2 DEF Accept, Inv, ModesOK
<1> QED BY <1>3, <1>4, <1>5, <1>6, <1>7 DEF Inv

(* A step that handles socket c alone, and leaves nothing to read, leaves  *)
(* it to be reported again, or goes on reading.                            *)
LEMMA SocketInv ==
  ASSUME Inv, TypeOK', NEW c \in Conn,
         UNCHANGED <<edge, client, backlog>>,
         \A x \in Conn \ {c} : server'[x] = server[x] /\ inbox'[x] = inbox[x],
         server'[c] = "open" => server[c] = "open" /\ interest' = interest /\ ready' = ready,
         interest' \in {interest, interest \ {c}}, ready' \in {ready, ready \ {c}},
         events \ {c} \subseteq events',
         mpc = "read" => current = c,
         ModesOK',
         server'[c] = "open" /\ Readable(c)' =>
             c \in ready' \/ (edge /\ mpc' = "read" /\ c = current')
  PROVE  Inv'
<1>1. OpenRegistered' BY DEF Inv, OpenRegistered
<1>2. LevelKept' BY NameAssumption DEF Inv, LevelKept, Readable
<1>3. SocketsWatched'
  <2> SUFFICES ASSUME NEW x \in Conn, server'[x] = "open", Readable(x)'
               PROVE  x \in ready' \cup events' \/ (mpc' = "read" /\ x = current')
    BY DEF SocketsWatched
  <2>1. CASE x = c BY <2>1
  <2>2. CASE x # c BY <2>2 DEF Inv, SocketsWatched, Readable
  <2> QED BY <2>1, <2>2
<1> QED BY <1>1, <1>2, <1>3 DEF Inv
(* One event of echo_EPLTserv.  What is left to read is on the ready list. *)
LEMMA LevelInv == ASSUME Inv, NEW c \in Conn, LevelEvent(c) PROVE Inv'
<1>1. ReadLen(c) \in Nat /\ ReadLen(c) <= inbox[c]
  BY CountAssumption DEF Inv, TypeOK, ReadLen
<1>2. /\ ~edge /\ mpc = "batch" /\ mpc' = mpc
      /\ UNCHANGED <<edge, client, sent, backlog, current>> /\ events' = events \ {c}
  BY DEF LevelEvent, netVars
<1>3. ModesOK' BY <1>2 DEF ModesOK
<1>4. CASE EndOfFile(c)
  <2>1. /\ server' = [server EXCEPT ![c] = "closed"] /\ inbox' = inbox
        /\ interest' = interest \ {c} /\ ready' = ready \ {c}
    BY <1>4 DEF LevelEvent, Close
  <2>2. TypeOK' BY <1>2, <2>1 DEF Inv, TypeOK
  <2>3. /\ server'[c] = "closed"
        /\ \A x \in Conn \ {c} : server'[x] = server[x] /\ inbox'[x] = inbox[x]
    BY <2>1 DEF Inv, TypeOK
  <2> QED BY <1>2, <1>3, <2>1, <2>2, <2>3, SocketInv
<1>5. CASE ~EndOfFile(c)
  <2>1. /\ inbox[c] > 0 /\ inbox' = [inbox EXCEPT ![c] = @ - ReadLen(c)]
        /\ UNCHANGED <<server, interest, ready>>
    BY <1>5 DEF LevelEvent, Echo
  <2>2. TypeOK' BY <1>1, <1>2, <2>1 DEF Inv, TypeOK
  <2>3. \A x \in Conn \ {c} : server'[x] = server[x] /\ inbox'[x] = inbox[x]
    BY <2>1 DEF Inv, TypeOK
  <2>4. server[c] = "open" => c \in ready BY <1>2, <2>1 DEF Inv, LevelKept, Readable
  <2> QED BY <1>2, <1>3, <2>1, <2>2, <2>3, <2>4, SocketInv
<1> QED BY <1>4, <1>5

(* echo_EPETserv starts its loop over a socket.                            *)
LEMMA EdgeEventInv == ASSUME Inv, NEW c \in Conn, EdgeEvent(c) PROVE Inv'
<1>1. /\ edge /\ mpc = "batch" /\ mpc' = "read" /\ current' = c
      /\ events' = events \ {c}
      /\ UNCHANGED <<edge, client, sent, server, inbox, backlog, interest, ready>>
  BY DEF EdgeEvent, netVars
<1>2. TypeOK' BY <1>1 DEF Inv, TypeOK
<1>3. ModesOK' BY <1>1 DEF ModesOK
<1> QED BY <1>1, <1>2, <1>3, SocketInv

(* The loop leaves a socket only when nothing is left to read, or closed.  *)
LEMMA EdgeReadInv == ASSUME Inv, ReadData \/ ReadNothing \/ ReadEnd PROVE Inv'
<1>1. PICK c \in Conn :
      /\ c = current /\ edge /\ server[c] = "open" /\ mpc = "read"
      /\ ReadLen(c) \in Nat /\ ReadLen(c) <= inbox[c]
  BY CountAssumption DEF Inv, TypeOK, ModesOK, ReadLen, ReadData, ReadNothing, ReadEnd
<1>2. UNCHANGED <<edge, client, sent, backlog, events>>
  BY DEF ReadData, ReadNothing, ReadEnd, netVars, loopVars
<1>3. CASE ReadData
  <2>1. /\ inbox' = [inbox EXCEPT ![c] = @ - ReadLen(c)]
        /\ mpc' = "read" /\ UNCHANGED <<server, interest, ready, current>>
    BY <1>1, <1>3 DEF ReadData, Echo, AfterRead
  <2>2. TypeOK' BY <1>1, <1>2, <2>1 DEF Inv, TypeOK
  <2>3. \A x \in Conn \ {c} : server'[x] = server[x] /\ inbox'[x] = inbox[x]
    BY <2>1 DEF Inv, TypeOK
  <2>4. ModesOK' BY <1>1, <1>2, <2>1 DEF ModesOK
  <2> QED BY <1>1, <1>2, <2>1, <2>2, <2>3, <2>4, SocketInv
<1>4. CASE ReadNothing
  <2>1. /\ inbox[c] = 0 /\ client[c] = "open" /\ mpc' = "batch" /\ current' = NoConn
        /\ UNCHANGED <<server, inbox, interest, ready>>
    BY <1>1, <1>4 DEF ReadNothing
  <2>2. TypeOK' BY <1>2, <2>1 DEF Inv, TypeOK
  <2>3. ~Readable(c)' BY <1>2, <2>1 DEF Readable
  <2>4. ModesOK' BY <2>1 DEF ModesOK
  <2> QED BY <1>1, <1>2, <2>1, <2>2, <2>3, <2>4, SocketInv
<1>5. CASE ReadEnd
  <2>1. /\ server' = [server EXCEPT ![c] = "closed"] /\ interest' = interest \ {c}
        /\ ready' = ready \ {c} /\ UNCHANGED <<inbox, mpc, current>>
    BY <1>1, <1>5 DEF ReadEnd, Close, loopVars
  <2>2. TypeOK' BY <1>1, <1>2, <2>1 DEF Inv, TypeOK
  <2>3. /\ server'[c] = "closed"
        /\ \A x \in Conn \ {c} : server'[x] = server[x] /\ inbox'[x] = inbox[x]
    BY <1>1, <2>1 DEF Inv, TypeOK
  <2>4. ModesOK' BY <1>1, <1>2, <2>1 DEF ModesOK
  <2> QED BY <1>1, <1>2, <2>1, <2>2, <2>3, <2>4, SocketInv
<1> QED BY <1>3, <1>4, <1>5

-----------------------------------------------------------------------------
LEMMA NextInv == Inv /\ [Next]_vars => Inv'
<1> SUFFICES ASSUME Inv, [Next]_vars PROVE Inv' OBVIOUS
<1>1. ASSUME NEW c \in Conn, ClientStep(c) PROVE Inv' BY <1>1, ClientInv
<1>2. ASSUME ServerStep PROVE Inv'
  <2>1. CASE EpollWait \/ BatchDone BY <2>1, WaitInv
  <2>2. CASE Accept BY <2>2, AcceptInv
  <2>3. ASSUME NEW c \in Conn, LevelEvent(c) \/ EdgeEvent(c) PROVE Inv'
    BY <2>3, LevelInv, EdgeEventInv
  <2>4. CASE ReadData \/ ReadNothing \/ ReadEnd BY <2>4, EdgeReadInv
  <2> QED BY <1>2, <2>1, <2>2, <2>3, <2>4 DEF ServerStep
<1>3. CASE UNCHANGED vars
  <2> USE <1>3 DEF vars, netVars, loopVars
  <2>1. TypeOK' BY DEF Inv, TypeOK
  <2>2. \A c \in Conn : Readable(c)' <=> Readable(c) BY DEF Readable
  <2>3. OpenRegistered' /\ ModesOK' BY DEF Inv, OpenRegistered, ModesOK
  <2>4. LevelKept' BY <2>2 DEF Inv, LevelKept
  <2>5. SocketsWatched' BY <2>2 DEF Inv, SocketsWatched
  <2> QED BY <2>1, <2>3, <2>4, <2>5 DEF Inv
<1> QED BY <1>1, <1>2, <1>3 DEF Next

(* The state always has the declared types.                                *)
THEOREM TypeCorrect == Spec => []TypeOK
<1>1. Inv => TypeOK BY DEF Inv
<1> QED BY <1>1, InitInv, NextInv, PTL DEF Spec

(* Neither server ever forgets a socket that holds data or an end of file: *)
(* the loop until EAGAIN is enough for edge triggering.                    *)
THEOREM NoSocketForgotten == Spec => []SocketsWatched
<1>1. Inv => SocketsWatched BY DEF Inv
<1> QED BY <1>1, InitInv, NextInv, PTL DEF Spec

(* The level-triggered server never forgets a connection that waits.       *)
THEOREM NoConnectionForgotten == Spec => []ListenerWatched
<1>1. Inv => ListenerWatched BY DEF Inv, LevelKept, ListenerWatched
<1> QED BY <1>1, InitInv, NextInv, PTL DEF Spec

(* Nothing that is ready is forgotten, in the words of both modes.         *)
THEOREM NothingIsForgotten == Spec => []NothingForgotten
BY NoSocketForgotten, NoConnectionForgotten, PTL DEF NothingForgotten

-----------------------------------------------------------------------------
(* The echo service.  A closed connection has ended and is drained, so     *)
(* that neither a client nor a late event can change it.  That needs the   *)
(* life of a connection in the backlog: it is there once, and no event is  *)
(* about it before accept.                                                 *)
ClosedDrained == \A c \in Conn : server[c] = "closed" => client[c] = "half" /\ inbox[c] = 0
BacklogOnce ==
    /\ \A i, j \in 1..Len(backlog) : backlog[i] = backlog[j] => i = j
    /\ \A i \in 1..Len(backlog) : server[backlog[i]] = "backlog"
    /\ \A c \in Conn : client[c] = "new" => server[c] = "none"
AcceptedOnly == \A c \in Conn : c \in interest \cup events => server[c] \notin {"none", "backlog"}
LifeInv == Inv /\ ClosedDrained /\ BacklogOnce /\ AcceptedOnly

LEMMA InitLife == Init => LifeInv
<1> SUFFICES ASSUME Init PROVE LifeInv OBVIOUS
<1>1. Len(backlog) = 0 BY EmptySeq DEF Init
<1> QED BY <1>1, InitInv DEF Init, LifeInv, ClosedDrained, BacklogOnce, AcceptedOnly

(* A step that leaves the backlog alone and moves only an accepted         *)
(* connection on.                                                          *)
LEMMA BacklogKept ==
  ASSUME LifeInv, NEW c \in Conn, server[c] \notin {"none", "backlog"},
         UNCHANGED <<client, backlog>>, server' \in [Conn -> {"none", "backlog", "open", "closed"}],
         \A d \in Conn \ {c} : server'[d] = server[d]
  PROVE  BacklogOnce'
<1>1. \A i \in 1..Len(backlog) : backlog[i] \in Conn \ {c}
  BY ElementOfSeq DEF LifeInv, BacklogOnce, Inv, TypeOK
<1>2. client[c] # "new" BY DEF LifeInv, BacklogOnce
<1> QED BY <1>1, <1>2 DEF LifeInv, BacklogOnce

LEMMA ClientLife == ASSUME LifeInv, NEW c \in Conn, ClientStep(c) PROVE LifeInv'
<1>0. Inv' BY ClientInv DEF LifeInv
<1>1. CASE Connect(c)
  <2>1. /\ client[c] = "new" /\ client' = [client EXCEPT ![c] = "open"]
        /\ server' = [server EXCEPT ![c] = "backlog"] /\ backlog' = Append(backlog, c)
        /\ UNCHANGED <<inbox, interest, events>>
    BY <1>1 DEF Connect, loopVars
  <2>2. server[c] = "none" BY <2>1 DEF LifeInv, BacklogOnce
  <2>3. /\ Len(backlog) \in Nat /\ Len(backlog') = Len(backlog) + 1
        /\ \A i \in 1..Len(backlog) : backlog'[i] = backlog[i] /\ backlog[i] \in Conn
        /\ backlog'[Len(backlog) + 1] = c
    BY <2>1, AppendProperties, ElementOfSeq, LenProperties DEF LifeInv, Inv, TypeOK
  <2>4. \A i \in 1..Len(backlog') : i \in 1..Len(backlog) \/ i = Len(backlog) + 1 BY <2>3
  <2>5. \A i \in 1..Len(backlog) : backlog[i] # c BY <2>2 DEF LifeInv, BacklogOnce
  <2>6. BacklogOnce'
    <3>1. \A i, j \in 1..Len(backlog') : backlog'[i] = backlog'[j] => i = j
      BY <2>3, <2>4, <2>5 DEF LifeInv, BacklogOnce
    <3>2. \A i \in 1..Len(backlog') : server'[backlog'[i]] = "backlog"
      BY <2>1, <2>3, <2>4, <2>5 DEF LifeInv, BacklogOnce, Inv, TypeOK
    <3>3. \A d \in Conn : client'[d] = "new" => server'[d] = "none"
      BY <2>1 DEF LifeInv, BacklogOnce, Inv, TypeOK
    <3> QED BY <3>1, <3>2, <3>3 DEF BacklogOnce
  <2>7. ClosedDrained' BY <2>1 DEF LifeInv, ClosedDrained, Inv, TypeOK
  <2>8. AcceptedOnly' BY <2>1, <2>2 DEF LifeInv, AcceptedOnly, Inv, TypeOK
  <2> QED BY <1>0, <2>6, <2>7, <2>8 DEF LifeInv
<1>2. CASE Send(c) \/ Shutdown(c)
  <2>1. /\ UNCHANGED <<server, backlog, interest, events>> /\ client[c] = "open"
        /\ \A d \in Conn \ {c} : client'[d] = client[d] /\ inbox'[d] = inbox[d]
        /\ client'[c] # "new"
    BY <1>2 DEF Send, Shutdown, loopVars, LifeInv, Inv, TypeOK
  <2>2. ClosedDrained' BY <2>1 DEF LifeInv, ClosedDrained
  <2>3. BacklogOnce' BY <2>1 DEF LifeInv, BacklogOnce
  <2>4. AcceptedOnly' BY <2>1 DEF LifeInv, AcceptedOnly
  <2> QED BY <1>0, <2>2, <2>3, <2>4 DEF LifeInv
<1> QED BY <1>1, <1>2 DEF ClientStep

LEMMA AcceptLife == ASSUME LifeInv, Accept PROVE LifeInv' /\ server[Head(backlog)] = "backlog"
<1>0. Inv' BY AcceptInv DEF LifeInv
<1>1. /\ Len(backlog) \in Nat \ {0} /\ Head(backlog) = backlog[1] /\ Head(backlog) \in Conn
      /\ Len(Tail(backlog)) = Len(backlog) - 1 /\ Tail(backlog) \in Seq(Conn)
      /\ \A i \in 1..Len(Tail(backlog)) : Tail(backlog)[i] = backlog[i + 1]
  BY HeadTailProperties, EmptySeq DEF Accept, LifeInv, Inv, TypeOK
<1>2. PICK c \in Conn : c = Head(backlog) BY <1>1
<1>3. server[c] = "backlog" BY <1>1, <1>2 DEF LifeInv, BacklogOnce
<1>4. /\ UNCHANGED <<client, inbox>> /\ events' \subseteq events /\ backlog' = Tail(backlog)
      /\ server' = [server EXCEPT ![c] = "open"] /\ interest' = interest \cup {c}
  BY <1>2 DEF Accept, Registered, netVars
<1>5. \A i \in 1..Len(backlog') : i + 1 \in 1..Len(backlog) /\ i + 1 # 1 /\ 1 \in 1..Len(backlog)
  BY <1>1, <1>4
<1>6. \A i \in 1..Len(backlog') : backlog'[i] \in Conn \ {c} /\ server[backlog'[i]] = "backlog"
  <2> SUFFICES ASSUME NEW i \in 1..Len(backlog')
               PROVE  backlog'[i] \in Conn \ {c} /\ server[backlog'[i]] = "backlog"
    OBVIOUS
  <2>1. backlog'[i] = backlog[i + 1] BY <1>1, <1>4
  <2>2. backlog'[i] \in Conn BY <1>1, <1>4, ElementOfSeq
  <2> QED BY <1>1, <1>2, <1>5, <2>1, <2>2 DEF LifeInv, BacklogOnce
<1>7. BacklogOnce'
  <2>1. ASSUME NEW i \in 1..Len(backlog'), NEW j \in 1..Len(backlog'), backlog'[i] = backlog'[j]
        PROVE  i = j
    <3>1. backlog[i + 1] = backlog[j + 1] BY <1>1, <1>4, <2>1
    <3>2. i + 1 = j + 1 BY <1>5, <3>1 DEF LifeInv, BacklogOnce
    <3> QED BY <1>1, <3>2
  <2>2. \A i \in 1..Len(backlog') : server'[backlog'[i]] = "backlog"
    BY <1>4, <1>6 DEF LifeInv, Inv, TypeOK
  <2>3. \A d \in Conn : client'[d] = "new" => server'[d] = "none"
    BY <1>3, <1>4 DEF LifeInv, BacklogOnce, Inv, TypeOK
  <2> QED BY <2>1, <2>2, <2>3 DEF BacklogOnce
<1>8. ClosedDrained' BY <1>4 DEF LifeInv, ClosedDrained, Inv, TypeOK
<1>9. AcceptedOnly' BY <1>4 DEF LifeInv, AcceptedOnly, Inv, TypeOK
<1> QED BY <1>0, <1>2, <1>3, <1>7, <1>8, <1>9 DEF LifeInv

(* One socket c is read, or closed at its end of file.                     *)
Reads(c) ==
    /\ server[c] \notin {"none", "backlog"}
    /\ UNCHANGED <<client, sent, backlog>>
    /\ interest' \subseteq interest /\ events' \subseteq events
    /\ \/ EndOfFile(c) /\ Close(c)
       \/ Echo(c)
       \/ UNCHANGED <<server, inbox>>

LEMMA ReadsLife == ASSUME LifeInv, Inv', NEW c \in Conn, Reads(c) PROVE LifeInv'
<1>1. /\ \A d \in Conn \ {c} : server'[d] = server[d] /\ inbox'[d] = inbox[d]
      /\ server'[c] = server[c] \/ (server'[c] = "closed" /\ EndOfFile(c) /\ inbox' = inbox)
      /\ server[c] = "closed" => inbox'[c] = 0
  BY DEF Reads, Close, Echo, LifeInv, ClosedDrained, Inv, TypeOK
<1>2. ClosedDrained' BY <1>1 DEF Reads, LifeInv, ClosedDrained, EndOfFile
<1>3. BacklogOnce' BY <1>1, BacklogKept DEF Reads, Inv, TypeOK
<1>4. AcceptedOnly' BY <1>1 DEF Reads, LifeInv, AcceptedOnly
<1> QED BY <1>2, <1>3, <1>4 DEF LifeInv

(* Every step of the loop over a socket is one of those.                   *)
LEMMA LoopReads ==
  ASSUME LifeInv, NEW c \in Conn,
         \/ LevelEvent(c) \/ EdgeEvent(c)
         \/ c = current /\ (ReadData \/ ReadNothing \/ ReadEnd)
  PROVE  Reads(c) /\ Inv'
<1>1. Inv' BY LevelInv, EdgeEventInv, EdgeReadInv DEF LifeInv
<1>2. CASE LevelEvent(c)
  <2>1. server[c] \notin {"none", "backlog"} BY <1>2 DEF LevelEvent, LifeInv, AcceptedOnly
  <2> QED BY <1>1, <1>2, <2>1 DEF LevelEvent, Reads, Close, Echo, netVars
<1>3. CASE EdgeEvent(c)
  <2>1. server[c] \notin {"none", "backlog"} BY <1>3 DEF EdgeEvent, LifeInv, AcceptedOnly
  <2> QED BY <1>1, <1>3, <2>1 DEF EdgeEvent, Reads, netVars
<1>4. CASE c = current /\ (ReadData \/ ReadNothing \/ ReadEnd)
  BY <1>1, <1>4 DEF ReadData, ReadNothing, ReadEnd, Reads, Close, Echo, netVars, loopVars
<1> QED BY <1>2, <1>3, <1>4

LEMMA NextLife == LifeInv /\ [Next]_vars => LifeInv'
<1> SUFFICES ASSUME LifeInv, [Next]_vars PROVE LifeInv' OBVIOUS
<1>1. ASSUME NEW c \in Conn, ClientStep(c) PROVE LifeInv' BY <1>1, ClientLife
<1>2. ASSUME NEW c \in Conn, Reads(c), Inv' PROVE LifeInv' BY <1>2, ReadsLife
<1>3. CASE EpollWait
  <2>1. Inv' BY <1>3, WaitInv DEF LifeInv
  <2>2. /\ UNCHANGED <<client, server, inbox, backlog, interest>>
        /\ events' \subseteq interest \cup {Listener}
    BY <1>3 DEF EpollWait, Reportable, netVars, LifeInv, Inv, TypeOK
  <2> QED
    BY <2>1, <2>2, NameAssumption DEF LifeInv, ClosedDrained, BacklogOnce, AcceptedOnly
<1>4. CASE BatchDone \/ UNCHANGED vars
  <2>1. Inv' BY <1>4, NextInv DEF LifeInv, Next, ServerStep
  <2>2. UNCHANGED <<client, server, inbox, backlog, interest, events>>
    BY <1>4 DEF BatchDone, vars, netVars, loopVars
  <2> QED BY <2>1, <2>2 DEF LifeInv, ClosedDrained, BacklogOnce, AcceptedOnly
<1>5. CASE Accept BY <1>5, AcceptLife
<1>6. CASE ReadData \/ ReadNothing \/ ReadEnd
  <2>1. current \in Conn
    BY <1>6 DEF ReadData, ReadNothing, ReadEnd, LifeInv, Inv, ModesOK
  <2> QED BY <1>2, <1>6, <2>1, LoopReads
<1>7. ASSUME NEW c \in Conn, LevelEvent(c) \/ EdgeEvent(c) PROVE LifeInv'
  BY <1>2, <1>7, LoopReads
<1> QED BY <1>1, <1>3, <1>4, <1>5, <1>6, <1>7 DEF Next, ServerStep

(* The service's variables, as Service substitutes them.                   *)
Returned == [c \in Conn |-> sent[c] - inbox[c]]
State ==
    [c \in Conn |->
        IF server[c] = "closed" THEN "closed" ELSE IF client[c] = "half" THEN "ended" ELSE "open"]

(* A step that leaves them alone stutters.                                 *)
LEMMA Stutters ==
  ASSUME UNCHANGED <<sent, inbox, client>>,
         \A c \in Conn : server'[c] = "closed" <=> server[c] = "closed"
  PROVE  UNCHANGED Service!vars
<1>1. Returned' = Returned BY DEF Returned
<1>2. State' = State BY DEF State
<1> QED BY <1>1, <1>2 DEF Service!vars, Returned, State

(* A client's steps are the service's Ask and End; connecting stutters.    *)
LEMMA RefinesClient ==
  ASSUME LifeInv, NEW c \in Conn, ClientStep(c)
  PROVE  [Service!Next]_(Service!vars)
<1>1. client[c] = "open" => State[c] = "open"
  BY DEF LifeInv, ClosedDrained, State
<1>2. CASE Connect(c)
  <2>1. /\ UNCHANGED <<sent, inbox>> /\ client[c] = "new" /\ server[c] = "none"
        /\ client' = [client EXCEPT ![c] = "open"] /\ server' = [server EXCEPT ![c] = "backlog"]
    BY <1>2 DEF Connect, LifeInv, BacklogOnce
  <2>2. Returned' = Returned BY <2>1 DEF Returned
  <2>3. State' = State BY <2>1 DEF State, LifeInv, Inv, TypeOK
  <2> QED BY <2>1, <2>2, <2>3 DEF Service!vars, Returned, State
<1>3. CASE Send(c)
  <2>1. /\ client[c] = "open" /\ sent' = [sent EXCEPT ![c] = @ + 1]
        /\ inbox' = [inbox EXCEPT ![c] = @ + 1] /\ UNCHANGED <<client, server>>
    BY <1>3 DEF Send
  <2>2. \A d \in Conn : sent'[d] - inbox'[d] = sent[d] - inbox[d]
    <3>1. \A d \in Conn : sent[d] \in Nat /\ inbox[d] \in Nat
      BY CountAssumption DEF LifeInv, Inv, TypeOK
    <3> QED BY <2>1, <3>1 DEF LifeInv, Inv, TypeOK
  <2>3. Returned' = Returned BY <2>2 DEF Returned
  <2>4. State' = State BY <2>1 DEF State
  <2>5. Service!Ask(c) BY <1>1, <2>1, <2>3, <2>4 DEF Service!Ask, Returned, State
  <2> QED BY <2>5 DEF Service!Next
<1>4. CASE Shutdown(c)
  <2>1. /\ client[c] = "open" /\ client' = [client EXCEPT ![c] = "half"]
        /\ UNCHANGED <<sent, inbox, server>>
    BY <1>4 DEF Shutdown
  <2>2. Returned' = Returned BY <2>1 DEF Returned
  <2>3. State' = [State EXCEPT ![c] = "ended"]
    BY <2>1 DEF State, LifeInv, ClosedDrained, Inv, TypeOK
  <2>4. Service!End(c) BY <1>1, <2>1, <2>2, <2>3 DEF Service!End, Returned, State
  <2> QED BY <2>4 DEF Service!Next
<1> QED BY <1>2, <1>3, <1>4 DEF ClientStep

(* A read of c is the service's Return; a close at the end of file is its  *)
(* Close, or repeats one.                                                  *)
LEMMA RefinesReads ==
  ASSUME LifeInv, NEW c \in Conn, Reads(c)
  PROVE  [Service!Next]_(Service!vars)
<1>1. sent[c] \in Nat /\ inbox[c] \in Nat
  BY CountAssumption DEF LifeInv, Inv, TypeOK
<1>2. UNCHANGED <<client, sent>> BY DEF Reads
<1>3. CASE UNCHANGED <<server, inbox>> BY <1>2, <1>3, Stutters
<1>4. CASE Echo(c)
  <2>1. inbox[c] > 0 /\ inbox' = [inbox EXCEPT ![c] = @ - ReadLen(c)] /\ server' = server
    BY <1>4 DEF Echo
  <2>2. ReadLen(c) \in Nat \ {0} /\ ReadLen(c) <= inbox[c]
    BY <1>1, <2>1, CountAssumption DEF ReadLen
  <2>3. PICK n \in Int : n = sent[c] - inbox'[c] BY <1>1, <2>1, <2>2 DEF LifeInv, Inv, TypeOK
  <2>4. n \in (Returned[c] + 1)..sent[c]
    <3>1. inbox'[c] = inbox[c] - ReadLen(c) BY <2>1 DEF LifeInv, Inv, TypeOK
    <3> QED BY <1>1, <2>2, <2>3, <3>1 DEF Returned
  <2>5. Returned' = [Returned EXCEPT ![c] = n]
    BY <1>2, <2>1, <2>3 DEF Returned, LifeInv, Inv, TypeOK
  <2>6. State' = State BY <1>2, <2>1 DEF State
  <2>7. State[c] \in {"open", "ended"}
    BY <2>1 DEF State, LifeInv, ClosedDrained
  <2>8. Service!Return(c)
    BY <1>2, <2>4, <2>5, <2>6, <2>7 DEF Service!Return, Returned, State
  <2> QED BY <2>8 DEF Service!Next
<1>5. CASE EndOfFile(c) /\ Close(c) /\ server[c] # "closed"
  <2>1. /\ inbox[c] = 0 /\ client[c] = "half" /\ inbox' = inbox
        /\ server' = [server EXCEPT ![c] = "closed"]
    BY <1>5 DEF EndOfFile, Close
  <2>2. Returned' = Returned BY <1>2, <2>1 DEF Returned
  <2>3. State[c] = "ended" /\ State' = [State EXCEPT ![c] = "closed"]
    BY <1>2, <1>5, <2>1 DEF State, LifeInv, Inv, TypeOK
  <2>4. Returned[c] = sent[c] BY <1>1, <2>1 DEF Returned
  <2>5. Service!Close(c)
    BY <1>2, <2>2, <2>3, <2>4 DEF Service!Close, Returned, State
  <2> QED BY <2>5 DEF Service!Next
<1>6. CASE Close(c) /\ server[c] = "closed"
  <2>1. inbox' = inbox /\ \A d \in Conn : server'[d] = server[d]
    BY <1>6 DEF Close, LifeInv, Inv, TypeOK
  <2> QED BY <1>2, <2>1, Stutters
<1> QED BY <1>3, <1>4, <1>5, <1>6 DEF Reads

(* Both servers implement the echo service: everything a client sends, and *)
(* nothing else, comes back to it, and it is closed only after it has      *)
(* ended and has everything.                                               *)
THEOREM EchoRefinement == Spec => ImplementsService
<1>1. Init => Service!Init
  <2> SUFFICES ASSUME Init PROVE Service!Init OBVIOUS
  <2>1. Returned = [c \in Conn |-> 0] BY DEF Init, Returned
  <2>2. State = [c \in Conn |-> "open"] BY DEF Init, State
  <2> QED BY <2>1, <2>2 DEF Init, Service!Init, Returned, State
<1>2. LifeInv /\ [Next]_vars => [Service!Next]_(Service!vars)
  <2> SUFFICES ASSUME LifeInv, [Next]_vars PROVE [Service!Next]_(Service!vars) OBVIOUS
  <2>1. ASSUME NEW c \in Conn, ClientStep(c) PROVE [Service!Next]_(Service!vars)
    BY <2>1, RefinesClient
  <2>2. CASE EpollWait \/ BatchDone \/ UNCHANGED vars
    BY <2>2, Stutters DEF EpollWait, BatchDone, vars, netVars, loopVars
  <2>3. CASE Accept
    <3>1. Head(backlog) \in Conn /\ server[Head(backlog)] = "backlog"
      BY <2>3, AcceptLife DEF Accept, LifeInv, Inv, TypeOK
    <3>2. UNCHANGED <<sent, inbox, client>> /\ server' = [server EXCEPT ![Head(backlog)] = "open"]
      BY <2>3 DEF Accept, netVars
    <3>3. \A d \in Conn : server'[d] = "closed" <=> server[d] = "closed"
      BY <3>1, <3>2 DEF LifeInv, Inv, TypeOK
    <3> QED BY <3>2, <3>3, Stutters
  <2>4. ASSUME NEW c \in Conn, LevelEvent(c) \/ EdgeEvent(c) PROVE [Service!Next]_(Service!vars)
    BY <2>4, LoopReads, RefinesReads
  <2>5. CASE ReadData \/ ReadNothing \/ ReadEnd
    <3>1. current \in Conn
      BY <2>5 DEF ReadData, ReadNothing, ReadEnd, LifeInv, Inv, ModesOK
    <3> QED BY <2>5, <3>1, LoopReads, RefinesReads
  <2> QED BY <2>1, <2>2, <2>3, <2>4, <2>5 DEF Next, ServerStep
<1> QED BY <1>1, <1>2, InitLife, NextLife, PTL DEF Spec, ImplementsService, Service!Spec
=============================================================================
