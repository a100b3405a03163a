------------------------------ MODULE FdQueue ------------------------------
(***************************************************************************)
(* What the queue of client sockets promises its callers: a linearizable   *)
(* FIFO queue.  A call is pending from its invocation until the single     *)
(* step at which it takes effect, then done until it returns.  A dequeue   *)
(* that takes effect on an empty queue returns NoFd, the -1 of the code.   *)
(***************************************************************************)
EXTENDS Sequences

CONSTANTS Fds,        \* file descriptors that may be queued
          NoFd,       \* what a dequeue of the empty queue returns
          Enqueuers,  \* threads that put (the main thread)
          Dequeuers   \* threads that take (the workers)

VARIABLES queue,  \* the descriptors queued, oldest first
          call,   \* call[t]: state of the call thread t makes
          fd      \* fd[t]: argument of t's enqueue, result of t's dequeue

vars == <<queue, call, fd>>

Threads == Enqueuers \cup Dequeuers

Init ==
    /\ queue = <<>>
    /\ call = [t \in Threads |-> "none"]
    /\ fd = [t \in Threads |-> NoFd]

(* Thread t asks to put f.                                                 *)
CallEnqueue(t, f) ==
    /\ call[t] = "none"
    /\ call' = [call EXCEPT ![t] = "pending"]
    /\ fd' = [fd EXCEPT ![t] = f]
    /\ UNCHANGED queue

(* Thread t asks for the oldest descriptor.                                *)
CallDequeue(t) ==
    /\ call[t] = "none"
    /\ call' = [call EXCEPT ![t] = "pending"]
    /\ UNCHANGED <<queue, fd>>

Enqueue(t) ==
    /\ call[t] = "pending"
    /\ queue' = Append(queue, fd[t])
    /\ call' = [call EXCEPT ![t] = "done"]
    /\ UNCHANGED fd

Dequeue(t) ==
    /\ call[t] = "pending"
    /\ queue # <<>>
    /\ fd' = [fd EXCEPT ![t] = Head(queue)]
    /\ queue' = Tail(queue)
    /\ call' = [call EXCEPT ![t] = "done"]

DequeueEmpty(t) ==
    /\ call[t] = "pending"
    /\ queue = <<>>
    /\ fd' = [fd EXCEPT ![t] = NoFd]
    /\ call' = [call EXCEPT ![t] = "done"]
    /\ UNCHANGED queue

Return(t) ==
    /\ call[t] = "done"
    /\ call' = [call EXCEPT ![t] = "none"]
    /\ UNCHANGED <<queue, fd>>

Next ==
    \/ \E t \in Enqueuers : (\E f \in Fds : CallEnqueue(t, f)) \/ Enqueue(t) \/ Return(t)
    \/ \E t \in Dequeuers : CallDequeue(t) \/ Dequeue(t) \/ DequeueEmpty(t) \/ Return(t)

Spec == Init /\ [][Next]_vars
=============================================================================
