# Verification of socket-programing-linux

TLA+ models of the C programs of this repository, model-checked with TLC and,
for their central invariants, proved with TLAPS. `PROJECT.json` maps every
definition that models code to its source lines, lists the runs, and gives each
property a mutant of the code that breaks it. All paths are below `src/`.

1. [The system](#the-system) 2. [What is hard in it](#what-is-hard-in-it)
3. [Modules](#modules) 4. [Runs](#runs) 5. [Bounds](#bounds)
6. [Fairness](#fairness) 7. [Proofs](#proofs) 8. [Findings](#findings)
9. [Not modelled](#not-modelled) 10. [Plan](#plan)

## The system

| component | state | operations | how it interacts | what makes it correct |
|---|---|---|---|---|
| queue of client sockets (`HTTP_server/lib/Server.c:17-66`; the same text in HTTPS_server) | mutex, `first`, `last`, heap nodes | `clientFds_enqueue`, `clientFds_dequeue`, `init_clientFds` | shared by the main thread and all workers | it is a linearizable FIFO queue; no node lost, doubled or used after free |
| HTTP server (`HTTP_server/lib/Server.c`, `src/DemoApplication.c`) | descriptor table, epoll interest list, `events[]`, a request buffer per worker | event loop of `startServer`, `thread_run`, `callProperHandler`, `defaultResonse`, `sendErrorPage`, both demo handlers | main thread to workers through the queue, both to clients through TCP | each socket has one owner; each request is answered once, on its own connection, and then closed |
| dispatch and string helpers (`HTTP_server/lib/Handlers.c`, rest of `Server.c`) | `handlers[]` | `addHandler`, `getRequestMethodAndUrl`, `endsWith`, `getContentLength`, `newString` | called by the workers | the right handler and content type |
| HTTPS server (`HTTPS_server/`) | as the HTTP server, plus an `SSL` object and two memory BIOs per connection | `SSL_accept`, BIO exchange, decrypting read loop, `my_SSL_write_and_send`, `freeRequest` | as the HTTP server, and with the TLS state machine of the client | each connection has one owner and its `SSL` object one life; client and server do not wait for each other; the answer is plaintext, to the right request |
| HTTP and HTTPS request libraries (`HTTP_request/`, `HTTPS_request/`) | a thread and a buffer per request; the static result of `gethostbyname` | `get`, `post`, `threadRun_get`, `threadRun_post` | with servers; callback into the caller | each request goes to its host and ends in one callback with the whole body |
| chat server (`bookcode/chapter18`) | `client_socks[]`, `client_count`, mutex, main's `client_sock` | accept loop, `handle_connection`, `send_msg` | the threads share the array and one stack variable | a thread per client; one conversation in one order; only those that left are removed |
| echo servers with epoll (`bookcode/chapter17`) | interest list, ready list, one loop | level- and edge-triggered loop | with their clients | no readiness is lost |
| storing echo server (`bookcode/chapter11`) | processes, their descriptors, a pipe, a file, pending SIGCHLD | accept loop, a child per client, a storing child, `read_childproc` | fork, pipe, signals | the file has what each client sent, once and in order; every child is recycled |
| echo server with select (`bookcode/chapter12`) | `readset`, `maxfd` | one loop | with its clients | no client is forgotten |
| two-process echo client (`bookcode/chapter10`), chat client (`bookcode/chapter18`) | one socket, two processes or threads | a writer and a reader | the writer's shutdown makes the server close, and that ends the reader | both end |
| hello server and client (`bookcode/chapter1`) | none | one write, one read | | |

## What is hard in it

* A descriptor changes owner between threads (epoll, main thread, queue, worker)
  and its number is reused the moment it is closed.
* The queue is a hand-written list whose last repairs and `free` happen at
  different moments of the two critical sections.
* Clients may stop, half-close, close or reset at any point, and data arrives
  in any pieces: of a header, of a TLS record, of a handshake.
* Readiness is reported once (edge) or for as long as it lasts (level).
* Descriptors, buffers, the pipe and `events[]` are bounded.
* A signal interrupts a system call, and signals do not queue.
* Threads share a stack variable (chat) or a static structure (`gethostbyname`).
* A worker's write to a client that has gone can end the whole process.
* A call on a socket that does not block may do a part of its work, or nothing,
  and nobody looks at its result.

`PROJECT.json` lists each hazard at its line with the properties that watch it.

## Modules

`M` is a component, `MCM` gives the model values and small sets of its runs,
`MProofs` the theorems about it; those about `ClientFds` and `HttpConnection`,
the two parts of `Server`, are in `ServerPartsProofs`. A definition `Op_Fault` is `Op` with a
plausible programming fault; no specification uses it, it is there so that a
property can be shown to notice the fault.

| module | models | state and its counterpart in the code |
|---|---|---|
| `FdQueue` | what the queue promises (abstract) | `queue`; `call[t]`: none, pending or done |
| `ClientFds` | `HTTP_server/lib/Server.c:17-66, 168-171` | `pc[t]` the next statement of thread `t`, `node[t]` its local pointer, `first`, `last`, `succ`, `allocated` the heap, `mutex`; `chain` is auxiliary: the nodes in the order in which they were linked |
| `Server` | the rest of the HTTP server process | `mpc`, `events`, `mfd`: main thread; `wpc`, `sock`, `req`, `got`: workers; `fdTable`, `interest`, `backlog`: the kernel's tables; `client`, `sent`, `inbox`, `reply`: clients and TCP |
| `HttpConnection` | one connection in the hands of a worker, below the grain of `Server`: `addHandler`, header buffer, choice of handler or file, content types, every `send` by itself | `handlers`, `got` (bytes in `buf`), `todo` (calls not made yet), `sndbuf` (what the kernel has taken), `received` |
| `HttpsServer` | main thread, queue and workers of `HTTPS_server/lib/Server.c`, both demo handlers, the TLS records of several clients | `interest`, `events`, `queue`; `wpc`, `sock`, `decryptedBuf`, `totalLen`: workers; `tls[c]`: what the handshake waits for, `bio` (socket or memory) and what is in `wbio`; `net`, `wire`, `toClient`: fragments under way, received, sent |
| `HttpClient` | both request libraries, variable `tls` says which | per request `pc`, `peer`, `toSend`, `recvLen`, `received`, `given`; `hostent`, shared; `hostState`, `response`, `link`: its server |
| `EchoService` | what an echo server promises (abstract) | `asked`, `returned`, `state` of each client |
| `EpollEcho` | both echo servers of chapter 17, variable `edge` says which | `interest`, `ready` (the kernel's ready list), `events`, `mpc`, `current` |
| `SelectEcho` | `bookcode/chapter12/echo_selectserv.c` with the clients of `bookcode/chapter10/echo_mpclient.c` | `readset`, `cpy_readset`, `maxfd`, `changed_quantity`, `buf`, `written`: server; `wpc`, `rpc`: the two processes of a client; `up`, `down`: what is under way |
| `ChatServer` | `bookcode/chapter18/chat_server.c` with the clients of `chat_client.c` | `mpc`, `client_sock`, `client_socks`, `mutex`; `tpc`, `sock`, `msg`, `next` of the threads; `fdTable`; `log` and `joined` are auxiliary |
| `StoreServer` | `bookcode/chapter11/echo_storeserv.c` | `ppc`, `client_sock`, `open`: parent; `cpc`, `serves`, `holds`, `len`: children; `pipe`, `file`; `pending`: SIGCHLD |

**Composition.** `ClientFds` implements `FdQueue` (property `Linearizable`,
theorem `Refinement`: `INSTANCE FdQueue WITH queue <- Queued, call <- Pending`).
`Server` and `HttpsServer` have the queue of `FdQueue`, one step for each call,
which the refinement justifies. `HttpConnection` starts where `Server` dequeues a
socket and shows what one step of `Server` stands for when the response fits the
send buffer (`SmallResponseWhole`), and that it does not when it does not fit
(`CloseMeansAll`). A URL is a sequence of characters there, since `endsWith`
compares them one by one. `EpollEcho` and `SelectEcho` implement `EchoService`
(`ImplementsService`, with the server's close, and with the end of the client's
reading process, as the abstract close). `SelectEcho` and `ChatServer` compose a
server with the program its users run.

**Grain.** A step ends where another thread, process or the network can notice:
at a system call, at an access to shared memory, at a lock. Consecutive local
statements are one step. Data is counted in units; a message, header or body is
as many units as can be cut in interesting ways. `accept` returns the lowest
free descriptor, as POSIX says, so numbers are reused as early as possible.
Undefined behaviour appears as what the build does with it: a null pointer ends
the process (`HttpClient`, `HttpConnection`, `HttpsServer`, `Server`), plaintext
that is longer than the buffer may end it (`HttpsServer`), a string that fills its
buffer goes on with what follows in memory (`PastEnd` of `HttpClient` and
`HttpsServer`: nothing, or one more unit),
`memset(clientFds, 0, sizeof(clientFds))` leaves `first` and `last` at what fresh
heap memory holds (`ClientFds`).

**External parts** (kernel, TLS library, clients, remote servers) are modelled
from how the code uses them and marked external in the map. A peer's socket has
the states TCP shows to the program: data sent to a closed peer is answered by a
reset, a reset is reported by one call, and the next write raises SIGPIPE.

## Runs

| run | what it asks | result |
|---|---|---|
| `ClientFds` | the main thread and two polling workers: mutual exclusion, shape of the list and ownership of nodes (`ListConsistent`), refinement of `FdQueue`; every call returns | holds, the last under strong fairness of the mutex |
| `ServerSafety` | two clients with every request and every ending, two workers, two descriptors: one owner per socket and no stale event (`SocketsOwned`), one complete response on the right connection before the close (`RightResponse`); the descriptors that nothing closes are one for each request answered from a file or by the error page, and of nobody else (`LeakPerFile`) | holds |
| `ServerLiveness` | clients that may end early, fewer descriptors than clients and files need: everybody is accepted, served and closed unless a worker has `Stalled` or the process has ended | holds |
| `HttpConnection` | every registered, static and missing URL; headers below, at and above the limit; responses below and above the send buffer; a client that may never read: the response is that of the handler or file, in order, also of a file with zero bytes, with the type of the suffix or, for a name that ends in the letters of a suffix without its dot, perhaps of that suffix (`InOrder`), whole if it fits (`SmallResponseWhole`), no buffer is exceeded (`WithinBuffers`), and nothing waits for the client (`ConnectionEnds`) | holds |
| `HttpTruncated` | "the client can know that the server has sent all the response content by detect the close", of a client that has sent all it announced, and the server read it | violated: a response longer than the send buffer arrives with a hole |
| `HttpsServer` | two clients, any cut of records, segments and handshake, TLS 1.2 and 1.3, clients that give up or reset: one owner (`ConnectionsOwned`), each `SSL` object freed once exactly if it was answered (`SslObjects`), the right answer when the body comes with the header and ends at a zero in the buffer (`RightAnswer`); every connection is closed unless it, or everybody, is `Held` | holds |
| `HttpClient` | both libraries; hosts that are unknown, down or without TLS; certificates of four forms; servers that close or announce the length, cut segments and records, resets, a full buffer; threads that share `hostent`: exactly the body if the response is shorter than the buffer, and no less than the buffer holds if not (`CompleteBody`), own host (`RequestsConsistent`), every request called back unless the process ends | holds |
| `EpollEcho` | both loops: no readiness of a socket lost, level-triggered: none of the listener (`NothingForgotten`), everybody accepted; everything echoed and every end closed unless the edge-triggered loop is `Stuck`; implements `EchoService` | holds |
| `SelectEcho` | what is watched is what is open (`SetsConsistent`); each line at one place of its way, also when server and client both wait in `write` (`EchoConserved`, `EveryLineReturns`); implements `EchoService`; who ends is closed, unless a killed client ends the server | holds |
| `ChatServer` | clients that join one at a time, and may stop reading, leave with data unread, or reset: a thread each and no entry too many (`ArrayConsistent`), one conversation, only those that left are removed; if nobody stops reading for ever, everybody is heard and everybody who leaves is closed (`EverybodyServed`) | holds |
| `ChatRace` | two clients that join at once: a connected one is removed | violated |
| `StoreServer` | the file has each client's data once, in order, after its echo (`FileRight`); sockets are held by their own child (`DescriptorsConsistent`); who ends is closed, what was sent is stored, a child that ends alone is waited for (`LoneZombieRecycled`) | holds |

`CHECK_DEADLOCK FALSE` is set where clients run out of things to do: the
program then waits in `accept`, `epoll_wait` or `select` for ever, as it should.

A violated run checks one property that a comment or a document of the
repository states. The passing run of the same module shows what is left of it:
with `Spaced` no two clients of the chat join at once, and
`SmallResponseWhole` restricts `CloseMeansAll` to responses the send buffer holds.

Several properties name the states from which the code does not recover as
exceptions (`Stalled`, `Stuck`, `Held`, `KillEndsServer`, `Coalesced`,
`HalfLength`, a process that has ended) and so say that there are no others. Each
of these is reached in its run; see [Findings](#findings).

## Bounds

| bound | value in the runs | why it is enough |
|---|---|---|
| `Conn`, `Worker` | 2 workers; 2 connections, 3 in `EpollEcho` | two actors race for a socket or a mutex, and the second connection reuses the number of the closed first; in `HttpsServer` one client with any behaviour meets one that is quick, before, after or together with it, and two slow ones hold both workers |
| `Fds` | 2 numbers (`Server`, `SelectEcho`), 3 (`ChatServer`) | 2 for two sockets and the files they ask for: `accept` and `fopen` fail, numbers are reused, files use up the table but for one |
| `EPOLL_SIZE`, `Backlog` | 2 | a batch with two events, one of which may become stale; more ready descriptors than a batch holds; a full backlog |
| `HeaderLen`, `BodyLen`, `MaxSent` | 1 or 2 units | a header, body or message cut anywhere; `ServerLiveness` has 1, it asks for the order of steps only |
| `MAX_HEADER_SIZE`, `SndBuf`, `MAX_HANDLER_NUM` | 4 or 5, 6, 3 | headers, responses and tables that are below, at and above the limit |
| `Node` | 2 | list of length 0, 1 and 2, a node being freed, an enqueue that waits for memory |
| `BUF_SIZE`, `PipeSize` | 1, 2 or 7 units | smaller than what is sent: reads that take a part, a full pipe, a full buffer |
| `UpCap`, `DownCap`, `MaxLines` | 3, 1; 6 and 2 lines | a client has one line more than the way to the server and back holds, so both ends wait in `write` |
| `Beyond` | 1 unit | the length of what follows a full buffer up to the next zero: none and some |
| `Child` | twice `Conn` | one for each client and one for each end of a client, which can interrupt one `accept`: not a cut |
| `Scenarios`, `Responses`, `Requests`, `HostStates` | the sets of the MC modules | every position of the empty line and of the length against the ends of records and of the buffer; every kind of URL, host and certificate; responses and plaintexts shorter than their buffer, as long, and longer; names that end in each suffix, in its letters without the dot, and in none |

Every other counter is bounded by these. `MaxSent` in `ChatServer`,
`StoreServer` and `EpollEcho`, and `MaxLines` in `SelectEcho`, are the only bounds
in a guard, on what a client sends. The theorems hold for every value of the
constants.

## Fairness

Weak fairness of a thread's or process's step: the scheduler runs every thread
that can run. It is assumed for the main threads, workers, request threads,
parent, children and the storing child, each by itself. In addition:

* `ClientFds`, `ChatServer`: strong fairness of the step that takes the mutex.
  A pthread mutex is not a queue; that a thread which keeps asking gets it in
  the end is an assumption about the scheduler. It matters, since the workers
  of the servers poll the queue without a pause.
* `ChatServer`: strong fairness of `Write`. The write of a thread waits in the
  kernel until there is room; a client that stops reading and goes on again and
  again makes room each time. `EverybodyServed` assumes besides that no client
  stops reading for ever (`Resumed`); one that does holds the mutex's owner.
* `Server`, `HttpConnection`: a connected client sends its whole request, unless
  it ends early. Without it a client could keep its worker by sending nothing.
* `HttpClient`: a server sends its response and closes, unless it keeps the
  connection; none has to reset. `HttpsServer`: the network delivers and a
  client goes on as soon as it may. `SelectEcho`: both processes of a client
  run. `StoreServer`: a pending signal is delivered.

Nothing makes a client connect, talk or leave, nor read (`HttpConnection`).

## Proofs

TLAPS checks these for every value of the constants that satisfies the
assumptions named in the modules (`...Assumption`). The last step of each is
`Init => Inv`, `Inv /\ [Next]_vars => Inv'` and PTL; what makes the invariant
inductive is the argument.

* `ServerPartsProofs`, the queue: `ListIsConsistent` with its parts (`MutexCorrect`,
  `HeapCorrect`, `ListCorrect`) and `Refinement`. The invariant adds to the
  properties what each thread's local pointer is at each statement (`LocalsOK`),
  which statements a main thread and a worker can be at (`PcOK`), and a shape of
  the list that allows for the lag of `last` between linking and repairing
  (`PointersOK`), because `ListShape` alone says nothing about `last` in
  between. The refinement is proved step by step: `Link` is the enqueue,
  `Unlink` and `FindEmpty` are the dequeue, everything else leaves the abstract
  state or only moves a call from none to pending or from done to none.
* `ServerPartsProofs`, the connection: `BuffersHold`, `ResponseInOrder`,
  `SmallResponseArrives`. What is to be sent is known from the table, the request
  and how much of it was read (`Calls`, `Response`). The invariant says that there
  is a sequence `called`, what the calls made so far were given: together with what
  `todo` still has it is the response; what client and kernel have of it (`Sent`)
  is embedded in it, that is, an increasing function takes the positions of the
  one to those of the other; and it is all of it when the response fits the send
  buffer and nothing was reset (`Taking`). A call that takes a part keeps this
  because embeddings can be joined (`EmbedsConcat`) and cut (`EmbedsLeft`); a piece
  of the body read later continues the response (`BodyContinues`). The rest relates
  the code's choice to what it should be, without a step: the first handler that
  matches is the owner among those the table had room for (`OwnerIs`), `endsWith`
  is true of a URL exactly if it ends in the suffix without its first character and
  has room for that (`EndsWithIs`), so that the type is one of `Types`, and the
  right one unless such a URL lacks the dot (`ContentTypeIs`), and
  lines cut at their zeros are embedded in the file (`LinesCut`). The range of the
  increasing function is the set of kept positions that `InOrder` asks for
  (`EmbedsSubsequence`, by counting). The table is the one `main` wrote because
  `TableOK` holds while it is filled.
* `ServerProofs`: `SocketsAreOwned` with its parts (`Ownership`, `Descriptors`,
  `NoStaleEvents`), `AnswersRightClient`, `ResponseRight`, `LeaksCounted`.
  `SingleOwner` is not inductive: closing a socket preserves it only if no other
  owner names the descriptor (`OneDescriptor`, `WorkersOK`), accepting one only if
  what is in the backlog has no descriptor yet (`BacklogOK`), and handing one over
  only if the event is not stale (`EventsFresh`), which in turn needs that what
  epoll watches is owned by nobody else. For the responses, `RInv` says for every
  statement of a worker how much of the response its client has been sent
  (`Progress`), that a connection no worker has is untouched or closed with all of
  it (`Waiting`, `Answered`), and that no more is sent than the response has
  (`Bounded`). A step of one worker leaves the others' progress alone because two
  workers never have the same connection (`DistinctPeers`, from ownership).
  For the descriptors that are lost, `LeakInv` names an owner for each as it is
  opened: a request that owns one is past the place where it could open another
  (`Past`), and one that is to be answered from a file owns one (`Due`).
* `ChatServerProofs`, in two layers. At any pace of the clients: `TypeCorrect`, and
  `ArrayBounded`, by counting (`Counted`): there are as many entries as threads
  that have not taken one out yet, and no more threads that have not closed yet
  than open descriptors, which survives threads that mistake each other's
  sockets. With the assumption `Spaced` (clients connect one at a time, the
  condition of the run):
  `ArrayThreadsAgree`, `OneConversation` and `RemovedWereGone`. There `SpacedInv`
  says that at most one thread has not copied its argument yet and main does not
  overwrite it (`OneAtATime`), that each entry has a thread and each thread an
  entry of its own (`ArrayOf`), and that a member has the log since it joined,
  but for the unit that the owner of the mutex is sending (`Conversation`). The
  assumption is needed: without it the run `ChatRace` shows the last property
  violated. What of the removal is about the array as a sequence rests on
  `Without`, a recursive function, by a least counterexample.
* `EpollEchoProofs`: `NothingIsForgotten` with its parts (`NoSocketForgotten`,
  both servers; `NoConnectionForgotten`, the level-triggered one), and
  `EchoRefinement`. The invariant adds that open sockets are registered, that a
  level-triggered loop never is inside a read loop, and that in level mode a
  readable source stays on the ready list; for the refinement, that a closed
  connection was read to its end (`ClosedDrained`), that a connection waits once
  (`BacklogOnce`) and no event is about it before `accept` (`AcceptedOnly`).
* `SelectEchoProofs`: `SetsRight`, `EchoRight`, `SelectRefinement`, in three
  layers. `SetInv` says that the copied set has no number above `maxfd` or
  behind the scan (`ScanOK`) and that a connection waits or has one descriptor
  (`Accepted`); that `accept` finds a free number is the pigeonhole principle on
  `fdTable`. `Life` relates the two processes of a client, its socket and its
  close. With both, each step moves a line from one place of its way to the next
  (the lemmas `Flow...`), and a client's reader meets the close only when nothing
  is left on the way (`LinesInFlow`).
* `HttpClientProofs`: `RequestsOK`, `BodyComplete`, of both libraries. The
  invariant accounts for every received unit: what the request counted is what its
  buffer holds of it (`Accounted`), the socket closes only
  after the whole response (`ClosedAtEnd`), and the receive loop is left only when
  the body is complete, the buffer full or the connection over (`LoopLeft`).
* `HttpsServerProofs`: `OwnersRight`, `SslObjectsRight`, `AnswersRight`. The
  invariant `Inv` says that what waits is not served yet and what is not connected
  is nowhere (`PlacesOK`), what a worker at each statement has done with its SSL
  object and its answer (`LifeAt`), that `wbio` holds parts of the handshake only,
  and which fragments can be under way (`FragmentsOK`). A step of a worker at its
  own connection leaves the rest alone (`WorkInv`). `AnswersOK`, on top of it,
  follows the bytes: all that a client ever sends (`Full`) is at any time split
  into what was read, what is in the receive queue, what is under way and what is
  not sent yet, and the worker's buffer has the plaintext of the first part
  (`Carried`). Until the handshake is complete this part is within the hello, so
  no fragment of a request is lost when the BIOs are exchanged. The empty line
  occurs once in a request (`RequestAssumption`), so a buffer that has it, where
  the body ends in the same record, has the whole request (`PlainOfFirst`), and
  the answer is computed from that; nothing is sent behind it when the plaintext
  is shorter than the buffer or has a zero (`Ended`). Before the answer a client is
  sent parts of the handshake only, and a connection that is closed without one is one whose
  client went away (`Settled`). `Plaintext` and `Fragments` are folds over
  sequences of any length: `FlattenSeq` of a concatenation is the concatenation
  (`FlattenConcat`), a record cut into any number of segments decrypts to the
  record (`PlainRecord`), both by a least counterexample.
* `StoreServerProofs`: `DescriptorsRight`, `FileIsRight`. `OwnSocketOnly` is
  inductive with what the parent has open at each statement (`ParentOK`), that a
  connection waits once, is not served while it waits and not served twice
  (`ServedOnce`), and the bounds of a child's buffer (`BufferOK`). For the file,
  `FileInv` says that file and pipe, one after the other, have of each client the
  numbers from 1 on, in order, as far as its child has stored them: all it has
  read, but for its buffer while it echoes and stores, and for ever if the client
  is reset meanwhile (`StoredBy`); and that the echo is ahead of it (`EchoedBy`).
  What is stored of one client is said by its positions, not by `SelectSeq`, which
  only recursion defines.

The type invariant of every module is proved, as `TypeCorrect` or inside the
composite property of its run.

An induction over data is out of the prover's reach as such: the library's
induction theorems take an operator, which the installed provers cannot
instantiate. Where a lemma needs one (`FlattenSeq`, `Without`, the lines of a file), it takes the least number for which the claim is false
(`LeastNat`, from the well-foundedness of `<` on the naturals) and contradicts it.

Only model-checked: everything under fairness (liveness and `ENABLED` are out of
the prover's reach: `EveryConnectionCloses`, `EverybodyServed`,
`LoneZombieRecycled` and their like), and that the two violated runs violate
what they say. Every safety property of a passing run is a theorem. In the proofs about
`HttpConnection` the constant strings of a response are members of `Unit`: the
provers do not know that a literal is in `STRING`.

## Findings

Shown by a violated run; `PROJECT.json` quotes the line each contradicts.

* `bookcode/chapter18/chat_server.c:51`: the thread's argument is overwritten by
  the next `accept`; of two threads that then serve the second client, the second
  to leave removes nothing, and its `client_count--` drops the first client
  (`ChatRace`).
* `HTTP_server/lib/Server.c:296`: the result of `send` on a socket that does not
  block is ignored; a client that reads slowly gets a response with a hole in it,
  and an orderly close (`HttpTruncated`).

In the models, and met as exceptions of the passing runs:

* `HTTP_server/src/DemoApplication.c:41`: the demo handlers use `write`, which
  raises SIGPIPE when the client has reset the connection
  (`Broken`; the comment at `HTTP_server/lib/Server.c:286-289` explains
  why the static files do not).
* `HTTP_server/src/DemoApplication.c:74`: end of file in the body of a POST is
  not handled; the worker loops for ever (`Stalled`).
* `HTTP_server/lib/Server.c:268`: the file of a response is never closed, nor
  that of the error page (`LeakPerFile`): a process answers no more such requests
  than it has descriptors, then `fopen` fails and `fgets(NULL)` ends it
  (`ErrorPageFaults`).
* `HTTP_server/lib/Server.c:178-211`: a header that fills the buffer has no
  empty line, and its length is taken from a null pointer (`HeaderFits` says
  that no other header does).
* `HTTP_server/lib/Server.c:343`: `endsWith` never compares the first character
  of a suffix, so `/xhtml` and `/html` are `text/html` (`Types`); `:296` takes `strlen` of
  a line, so a file with a zero byte is cut (`Binary`); a directory opens, and
  `/` is answered by 200 and nothing, where README.md:51 of `HTTP_server` speaks of
  files.
* `HTTP_server/lib/Server.c:164`: a socket closed with data unread is reset, and
  with it what the client has not received yet (`Close` of `HttpConnection`).
* `HTTPS_server/lib/Server.c:204, 213`: a handshake that is not complete after
  one `SSL_accept` is stuck when the server has something to say: a ClientHello
  in two segments, or TLS 1.2 (`FlightHeld`); it takes one worker with it.
* `HTTPS_server/src/DemoApplication.c:74`: the rest of a body is read from the
  socket and not decrypted: ciphertext is counted and sent back, and the loop
  may wait for ever (`BodyHeld`, `BodyWithHeader`).
* `HTTPS_server/lib/Server.c:426`: `strlen` of what is to be sent, instead of its
  length: behind a plaintext that fills the buffer (`PastEnd`) more than the body
  is sent, where `src/DemoApplication.c:49` speaks of the body, and at a zero byte
  it is cut (`BeforeZero`). `RightAnswer` is about the others (`Ended`).
* `HTTPS_server/lib/Server.c:227-241`: the early returns free neither the `SSL`
  object nor the BIOs (`SslObjects`).
* `HTTP_request/lib/MyHttp.c:93`: a segment that ends inside the Content-Length
  line makes `getContentLength` follow a null pointer (`HalfLength`).
* `HTTP_request/lib/MyHttp.c:60`: `gethostbyname` has one result for all
  threads, so `peer` may be another request's host.
* `HTTP_request/lib/MyHttp.c:102`: `recvLen` may reach `BUF_SIZE`, although the
  comment above asks for a zero at the end: the string that the callback gets then
  goes on behind the buffer (`PastEnd`). `HTTPS_request/lib/MyHttps.c:171` is the
  same. `CompleteBody` is exact for responses shorter than the buffer.
* `HTTPS_request/lib/MyHttps.c:356-373`: the check of the certificate, which only
  prints, follows a null pointer when the subject has no common name, or has
  `Inc/CN=` (`Checked`); a URL that ends with the host is read past its
  end.
* `bookcode/chapter17/echo_EPETserv.c:55, 73`: one `accept` per edge, so a
  connection that arrived with another may wait for ever
  (`EveryConnectionAccepted` and `ListenerWatched` are claimed of the other
  server only); the read loop goes on after the close (`Stuck`).
* `bookcode/chapter12/echo_selectserv.c:80`: a killed client whose data is under
  way makes `write` raise SIGPIPE (`KillEndsServer`).
* `bookcode/chapter11/echo_storeserv.c:74`: `accept` interrupted by SIGCHLD is
  taken for a client: a child whose `serves` is `NoConn`. `:114`: one `waitpid`
  per signal, so of two children that end together one is left (`Coalesced`).

## Not modelled

* Parsing of request lines, URLs and header values: they stand as fields of a
  request and as `HostOf`. `newString` and the copies of the request line write
  no final zero; what follows in memory is not modelled.
* A request in `Server` is complete or not; several requests on one connection
  are not served by the code either, it closes after one response.
* `EpollEcho`: clients that reset, or do not read what they get. `SelectEcho` has
  both for the select server, whose loop differs in that it skips `len == -1`.
  So the edge-triggered server never meets the short or refused `write` on its
  non-blocking socket (`bookcode/chapter17/echo_EPETserv.c:87`, result ignored),
  which would lose a part of the echo: `ImplementsService` is about clients that
  read. Failing `accept` in both (`Server` has it).
* `HttpsServer`: a failing `accept`, and the descriptors of files with the
  `fgets(NULL)` they lead to: the text is that of the HTTP server, see `Server`.
* `ClientFds`: a `malloc` that fails is one that waits (`Malloc`); the code does
  not test its result.
* `HttpClient`: a body with zero bytes, of which the callback sees what precedes
  the first.
* `ChatServer`: more clients than `MAX_CLIENT` at the same time (the array has no
  check; `WithinArray` says what would overflow it), messages longer than
  `BUF_SIZE`, of which other messages may come between the parts (they are
  several units), failures of `malloc` and `pthread_create`. A thread whose
  descriptor another thread has closed, which happens without `Spaced` only, waits
  in the model (`ReadFails`); in the code it calls `read`, which returns -1, again
  and again.
* `StoreServer`: failures of `fork`, `pipe` and `fopen`; a `read` that returns -1
  because the connection of a served client was reset, after which the child calls
  `write` with that length and reads on (`echo_storeserv.c:88-90`).
* The clients' terminals ending without `Q`: `fgets` is not tested, and the last
  line is sent again for ever (`echo_mpclient.c:58`, `chat_client.c`).
* `epoll_wait` interrupted by a signal: it is called again, no change of state.
* The programs of chapter 1 (one accept, one write, one read, exit) and the data
  files have no behaviour a property could be about.

## Plan

Done, in this order: `FdQueue`, `ClientFds`, `Server` with their proofs;
`EpollEcho` with its proofs; `ChatServer`; `StoreServer`; `HttpClient`;
`HttpsServer`; `EchoService`, `SelectEcho`; `HttpConnection`; the clients of the
chat and of the select server; the proofs of the responses of `Server`, of both
refinements of `EchoService`, of `HttpClient`; the descriptors and the file of
`StoreServer`; the ownership and the answers of `HttpsServer`; the array and the
conversation of `ChatServer`; the responses of `HttpConnection`. A component has
one run for all its properties, so that the set of runs stays small; a component
added later gets one too, or joins the run of the module it composes. What is left:

| what | where | how |
|---|---|---|
| the scanners `getRequestMethodAndUrl`, `getContentLength`, `newString` | `Routing`, with operators `HttpConnection` uses | all short strings over a small alphabet, against reference definitions |
| clients of `EpollEcho` that reset or do not read | `EpollEcho` | the states of a peer as in `SelectEcho`, one client of each kind |
| several connections of `HttpConnection` refining `Server` | a module that composes them | one step of `Server` for each response |
