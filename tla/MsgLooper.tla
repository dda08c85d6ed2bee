------------------------------ MODULE MsgLooper ------------------------------
(***************************************************************************)
(* RTMsgLooper: a message queue, the looper thread that delivers its       *)
(* messages one at a time to a handler, and the threads that post (async   *)
(* call) or send (sync call) messages, flush the queue and stop the looper.*)
(*                                                                         *)
(* Every body the code runs under mDataLock without waiting is one action; *)
(* what the code reads or writes outside the lock (the thread state, mErr, *)
(* the signal of LooperDoneListener) is an action of its own.  A thread    *)
(* blocked in a condition wait is at "execwait" (mExecCond, the looper) or *)
(* "syncwait" (mSyncCond, a sender): the wait sets are those threads.      *)
(***************************************************************************)
EXTENDS Integers, Sequences, FiniteSets

CONSTANTS
    Clients,    \* the threads that call the looper's operations from outside
    Looper,     \* the looper thread; its handler calls the operations too
    Senders,    \* the threads that call send()
    Flushers,   \* the threads that call flush() and flush_message()
    Stoppers,   \* the threads that call requestExit() and stop()
    Spurious,   \* the threads whose condition waits may end without a signal
    Whats,      \* message kinds
    Errs,       \* what a handler may answer
    OK,         \* RT_OK, the answer of success
    None,       \* no answer yet
    MaxPosts    \* bound on the number of messages ever queued

Threads == Clients \cup {Looper}

ASSUME LooperAssumption ==
    /\ Looper \notin Clients
    /\ Senders \subseteq Clients
    /\ Stoppers \subseteq Clients
    /\ Flushers \subseteq Threads
    /\ Spurious \subseteq Threads
    /\ OK \in Errs
    /\ None \notin Errs
    /\ Whats # {}
    /\ MaxPosts \in Nat

VARIABLES
    queue,    \* mEventQueue, oldest message first
    state,    \* the looper thread's ThreadState
    created,  \* the looper thread exists (its mTid is not 0)
    lpc,      \* where the looper thread is
    cur,      \* the message the looper has popped
    err,      \* mErr
    pc,       \* where each thread is in the operation it is calling
    call,     \* the message of that operation
    got,      \* per thread, the message and the value of its last post/send
    posted,   \* how many messages have been queued
    result,   \* result[i]: the handler's answer to the i-th message queued
    flushed,  \* the messages that flush/flush_message removed
    exitReq,  \* requestExit() has been called
    wild      \* deque_del_index has followed an unset prev pointer

vars == <<queue, state, created, lpc, cur, err, pc, call, got, posted,
          result, flushed, exitReq, wild>>

Ids      == 1..MaxPosts
Messages == [id : 0..MaxPosts, sync : BOOLEAN, what : Whats, from : Threads]
NoMsg(t) == [id |-> 0, sync |-> FALSE, what |-> CHOOSE w \in Whats : TRUE,
             from |-> t]

(***************************************************************************)
(* The constructor and start(): the thread is created, and the state of a  *)
(* new RtThread is THREAD_IDLE until the thread itself changes it.         *)
(***************************************************************************)
Init ==
    /\ queue = << >>
    /\ state = "IDLE"
    /\ created = TRUE
    /\ lpc = "born"
    /\ cur = NoMsg(Looper)
    /\ err = OK
    /\ pc = [t \in Threads |-> "idle"]
    /\ call = [t \in Threads |-> NoMsg(t)]
    /\ got = [t \in Threads |-> [id |-> 0, sync |-> FALSE, val |-> OK]]
    /\ posted = 0
    /\ result = [i \in Ids |-> None]
    /\ flushed = {}
    /\ exitReq = FALSE
    /\ wild = FALSE

-----------------------------------------------------------------------------
(* The operations, called by a client or, on the looper thread, by the     *)
(* handler of the message being delivered.                                 *)

CanCall(t) == pc[t] = "idle" /\ (t = Looper => lpc = "handler")

(* Mutant: the broadcast is missing.                                       *)
NoBroadcast == lpc' = lpc

(* mExecCond->broadcast(): the looper goes on to pop a message.            *)
WakeLooper == lpc' = IF lpc = "execwait" THEN "pop" ELSE lpc

(* post() up to the lock, for send() with mSync set: a looper thread told  *)
(* to exit gets no message, and the caller is told RT_OK all the same.     *)
Post(t, w, sync) ==
    /\ CanCall(t)
    /\ posted + Cardinality({u \in Threads : pc[u] = "posting"}) < MaxPosts
    /\ IF state = "EXIT"
         THEN /\ got' = [got EXCEPT ![t] = [id |-> 0, sync |-> sync, val |-> OK]]
              /\ UNCHANGED <<pc, call>>
         ELSE /\ pc' = [pc EXCEPT ![t] = "posting"]
              /\ call' = [call EXCEPT ![t] =
                            [id |-> 0, sync |-> sync, what |-> w, from |-> t]]
              /\ UNCHANGED got
    /\ UNCHANGED <<queue, state, created, lpc, cur, err, posted, result,
                   flushed, exitReq, wild>>

(* post() under mDataLock: push at the tail, clear mErr, broadcast; then a *)
(* sync caller waits on mSyncCond, the others are done.                    *)
Enqueue(t) ==
    /\ pc[t] = "posting"
    /\ posted < MaxPosts
    /\ LET m == [call[t] EXCEPT !.id = posted + 1] IN
         /\ queue' = Append(queue, m)
         /\ call' = [call EXCEPT ![t] = m]
    /\ posted' = posted + 1
    /\ err' = OK
    /\ WakeLooper
    /\ pc' = [pc EXCEPT ![t] = IF call[t].sync THEN "syncwait" ELSE "return"]
    /\ UNCHANGED <<state, created, cur, got, result, flushed, exitReq, wild>>

(* post() after the unlock: the caller returns what mErr now is.           *)
Return(t) ==
    /\ pc[t] = "return"
    /\ got' = [got EXCEPT ![t] = [id |-> call[t].id, sync |-> call[t].sync,
                                  val |-> err]]
    /\ pc' = [pc EXCEPT ![t] = "idle"]
    /\ UNCHANGED <<queue, state, created, lpc, cur, err, call, posted, result,
                   flushed, exitReq, wild>>

(* pthread_cond_wait may return without a signal: the sender goes on, and  *)
(* nothing makes it look whether its message was handled.                  *)
SpuriousSync(t) ==
    /\ t \in Spurious
    /\ pc[t] = "syncwait"
    /\ pc' = [pc EXCEPT ![t] = "return"]
    /\ UNCHANGED <<queue, state, created, lpc, cur, err, call, got, posted,
                   result, flushed, exitReq, wild>>

QueuedIds == {queue[k].id : k \in DOMAIN queue}

(* flush(): every queued message is dropped, whoever waits for it.         *)
Flush(t) ==
    /\ CanCall(t)
    /\ queue' = << >>
    /\ flushed' = flushed \cup QueuedIds
    /\ UNCHANGED <<state, created, lpc, cur, err, pc, call, got, posted,
                   result, exitReq, wild>>

(* flush_message(w): the first message of that kind is removed.  The entry *)
(* is unlinked through prev pointers that deque_push never sets, so only   *)
(* the removal of a single entry, which does not use them, is defined.     *)
FlushMessage(t, w) ==
    /\ CanCall(t)
    /\ IF \E k \in DOMAIN queue : queue[k].what = w
         THEN IF Len(queue) = 1
                THEN /\ queue' = << >>
                     /\ flushed' = flushed \cup QueuedIds
                     /\ UNCHANGED wild
                ELSE wild' = TRUE /\ UNCHANGED <<queue, flushed>>
         ELSE UNCHANGED <<queue, flushed, wild>>
    /\ UNCHANGED <<state, created, lpc, cur, err, pc, call, got, posted,
                   result, exitReq>>

(* requestExit(), the first half of stop(): under the lock, the thread is  *)
(* told to exit and both conditions are broadcast.                         *)
RequestExit(t) ==
    /\ CanCall(t)
    /\ state' = "EXIT"
    /\ WakeLooper
    /\ pc' = [u \in Threads |-> IF u = t THEN "stopping"
                                ELSE IF pc[u] = "syncwait" THEN "return"
                                ELSE pc[u]]
    /\ exitReq' = TRUE
    /\ UNCHANGED <<queue, created, cur, err, call, got, posted, result,
                   flushed, wild>>

(* RtThread::join(), under the thread's own lock: interrupt a thread that  *)
(* exists (no broadcast here) and wait for its end.                        *)
Join(t) ==
    /\ pc[t] = "stopping"
    /\ \A u \in Threads : pc[u] # "joining"
    /\ IF created
         THEN state' = "EXIT" /\ pc' = [pc EXCEPT ![t] = "joining"]
         ELSE UNCHANGED state /\ pc' = [pc EXCEPT ![t] = "idle"]
    /\ UNCHANGED <<queue, created, lpc, cur, err, call, got, posted, result,
                   flushed, exitReq, wild>>

(* pthread_join returns once the looper thread has ended.                  *)
Joined(t) ==
    /\ pc[t] = "joining"
    /\ lpc = "exited"
    /\ state' = "IDLE"
    /\ created' = FALSE
    /\ pc' = [pc EXCEPT ![t] = "idle"]
    /\ UNCHANGED <<queue, lpc, cur, err, call, got, posted, result, flushed,
                   exitReq, wild>>

-----------------------------------------------------------------------------
(* The looper thread.                                                      *)

LooperUnchanged == UNCHANGED <<created, pc, call, got, posted, flushed,
                               exitReq, wild>>

(* thread_looping() reads the state ...                                    *)
Born ==
    /\ lpc = "born"
    /\ lpc' = IF state = "IDLE" THEN "setloop" ELSE "top"
    /\ UNCHANGED <<queue, state, cur, err, result>> /\ LooperUnchanged

(* ... and writes it, whatever it has become in between.                   *)
SetLoop ==
    /\ lpc = "setloop"
    /\ state' = "LOOP"
    /\ lpc' = "top"
    /\ UNCHANGED <<queue, cur, err, result>> /\ LooperUnchanged

(* The condition of msgLoop's while, read without the lock.                *)
Top ==
    /\ lpc = "top"
    /\ lpc' = IF state = "LOOP" THEN "empty" ELSE "exited"
    /\ UNCHANGED <<queue, state, cur, err, result>> /\ LooperUnchanged

(* Under the lock: wait when there is nothing to deliver.                  *)
WaitIfEmpty ==
    /\ lpc = "empty"
    /\ lpc' = IF queue = << >> THEN "execwait" ELSE "pop"
    /\ UNCHANGED <<queue, state, cur, err, result>> /\ LooperUnchanged

SpuriousExec ==
    /\ Looper \in Spurious
    /\ lpc = "execwait"
    /\ lpc' = "pop"
    /\ UNCHANGED <<queue, state, cur, err, result>> /\ LooperUnchanged

(* Mutant: the youngest message is taken.                                  *)
PopTail ==
    /\ lpc = "pop"
    /\ IF queue = << >>
         THEN lpc' = "top" /\ UNCHANGED <<queue, cur>>
         ELSE /\ cur' = queue[Len(queue)]
              /\ queue' = SubSeq(queue, 1, Len(queue) - 1)
              /\ lpc' = "handler"
    /\ UNCHANGED <<state, err, result>> /\ LooperUnchanged

(* Under the lock again: pop the oldest message, if there still is one.    *)
Pop ==
    /\ lpc = "pop"
    /\ IF queue = << >>
         THEN lpc' = "top" /\ UNCHANGED <<queue, cur>>
         ELSE /\ cur' = Head(queue)
              /\ queue' = Tail(queue)
              /\ lpc' = "handler"
    /\ UNCHANGED <<state, err, result>> /\ LooperUnchanged

(* Mutant: every message has the done listener, not just the sync ones.    *)
DeliverAlwaysDone(e) ==
    /\ lpc = "handler"
    /\ pc[Looper] = "idle"
    /\ result' = [result EXCEPT ![cur.id] = e]
    /\ lpc' = "signal"
    /\ UNCHANGED <<queue, state, cur, err>> /\ LooperUnchanged

(* Mutant: no message has a done listener.                                 *)
DeliverNeverDone(e) ==
    /\ lpc = "handler"
    /\ pc[Looper] = "idle"
    /\ result' = [result EXCEPT ![cur.id] = e]
    /\ lpc' = "top"
    /\ UNCHANGED <<queue, state, cur, err>> /\ LooperUnchanged

(* deliver() returns with the handler's answer (RT_ERR_BAD when there is   *)
(* no handler): the message is handled.                                    *)
Deliver(e) ==
    /\ lpc = "handler"
    /\ pc[Looper] = "idle"
    /\ result' = [result EXCEPT ![cur.id] = e]
    /\ lpc' = IF cur.sync THEN "signal" ELSE "top"
    /\ UNCHANGED <<queue, state, cur, err>> /\ LooperUnchanged

SyncWaiters == {t \in Threads : pc[t] = "syncwait"}

(* LooperDoneListener, without the lock: signal one waiting sender ...     *)
DoneSignal ==
    /\ lpc = "signal"
    /\ IF SyncWaiters = {}
         THEN UNCHANGED pc
         ELSE \E t \in SyncWaiters : pc' = [pc EXCEPT ![t] = "return"]
    /\ lpc' = "seterr"
    /\ UNCHANGED <<queue, state, created, cur, err, call, got, posted, result,
                   flushed, exitReq, wild>>

(* ... and only then record the answer it is going to read.                *)
DoneSetErr ==
    /\ lpc = "seterr"
    /\ err' = result[cur.id]
    /\ lpc' = "top"
    /\ UNCHANGED <<queue, state, cur, result>> /\ LooperUnchanged

-----------------------------------------------------------------------------
(* What a thread does to finish the call it is in.                         *)
CallStep(t) == Enqueue(t) \/ Return(t) \/ Join(t) \/ Joined(t)

(* What a thread may call.                                                 *)
NewCall(t) ==
    \/ \E w \in Whats :
          \E sync \in (IF t \in Senders THEN BOOLEAN ELSE {FALSE}) : Post(t, w, sync)
    \/ t \in Flushers /\ (Flush(t) \/ \E w \in Whats : FlushMessage(t, w))
    \/ t \in Stoppers /\ RequestExit(t)

LooperStep ==
    \/ Born \/ SetLoop \/ Top \/ WaitIfEmpty \/ Pop
    \/ \E e \in Errs : Deliver(e)
    \/ DoneSignal \/ DoneSetErr

Next ==
    /\ ~wild
    /\ \/ \E t \in Threads : NewCall(t) \/ CallStep(t) \/ SpuriousSync(t)
       \/ LooperStep \/ SpuriousExec

Spec == Init /\ [][Next]_vars

(* A thread that can go on with a call, and the looper thread, are         *)
(* scheduled in the end; nobody has to call anything.                      *)
Fairness ==
    /\ \A t \in Threads : WF_vars(~wild /\ CallStep(t))
    /\ WF_vars(~wild /\ LooperStep)

FairSpec == Spec /\ Fairness

-----------------------------------------------------------------------------
(* Every variable has its type.                                            *)
TypeOK ==
    /\ queue \in Seq(Messages)
    /\ state \in {"IDLE", "LOOP", "EXIT"}
    /\ created \in BOOLEAN
    /\ lpc \in {"born", "setloop", "top", "empty", "execwait", "pop",
                "handler", "signal", "seterr", "exited"}
    /\ cur \in Messages
    /\ err \in Errs
    /\ pc \in [Threads -> {"idle", "posting", "syncwait", "return",
                           "stopping", "joining"}]
    /\ call \in [Threads -> Messages]
    /\ got \in [Threads -> [id : 0..MaxPosts, sync : BOOLEAN, val : Errs]]
    /\ posted \in 0..MaxPosts
    /\ result \in [Ids -> Errs \cup {None}]
    /\ flushed \subseteq Ids
    /\ exitReq \in BOOLEAN
    /\ wild \in BOOLEAN

Handled(i)    == result[i] # None
InProgress(i) == lpc = "handler" /\ cur.id = i

(* Messages are handled in the order they were queued: when one has been   *)
(* handled, or is being handled, each earlier one has been handled or was  *)
(* flushed (msgLoop pops what post pushed, across every interleaving).     *)
FifoDelivery ==
    \A i, j \in 1..posted :
        i < j /\ (Handled(j) \/ InProgress(j)) => Handled(i) \/ i \in flushed

(* A queued message is never lost and never handled twice: it is in        *)
(* exactly one of the queue, the handler, the handled and the flushed      *)
(* messages, and in the queue at one place only.                           *)
EachMessageOnce ==
    /\ \A i \in 1..posted :
          /\ i \in QueuedIds \/ InProgress(i) \/ Handled(i) \/ i \in flushed
          /\ i \in QueuedIds => ~InProgress(i) /\ ~Handled(i) /\ i \notin flushed
          /\ InProgress(i) => ~Handled(i) /\ i \notin flushed
          /\ Handled(i) => i \notin flushed
    /\ \A k, l \in DOMAIN queue : queue[k].id = queue[l].id => k = l

(* The looper never sleeps on mExecCond while a message is queued: no      *)
(* broadcast of post() is lost between its test of the queue and its wait. *)
NoSleepOnWork == lpc = "execwait" => queue = << >>

(* send() returns only once the handler has answered its message, or the   *)
(* looper was told to exit.                                                *)
SendWaitsForHandler ==
    \A t \in Threads :
        pc[t] = "return" /\ call[t].sync => Handled(call[t].id) \/ exitReq

(* send() returns what the handler answered.                               *)
SendReturnsAnswer ==
    \A t \in Threads :
        got[t].sync /\ got[t].id # 0 /\ Handled(got[t].id)
            => got[t].val = result[got[t].id]

(* stop() returns.                                                         *)
StopReturns ==
    \A t \in Stoppers : pc[t] = "stopping" ~> pc[t] = "idle"

(* A stop() returns when the looper thread is in a handler while its state *)
(* is THREAD_EXIT: no handler, and no post of one, makes it sleep again.   *)
StopFromHandlerReturns ==
    \A t \in Stoppers :
        pc[t] \in {"stopping", "joining"} /\ lpc = "handler" /\ state = "EXIT"
            ~> pc[t] = "idle" \/ wild

(* send() returns, unless its message was flushed, a flush has broken the  *)
(* deque, or the looper is told to exit; and so does a stop() that meets   *)
(* the handler.                                                            *)
SendReturns ==
    /\ \A t \in Senders :
         pc[t] = "syncwait" ~> pc[t] # "syncwait" \/ call[t].id \in flushed \/ wild \/ exitReq
    /\ StopFromHandlerReturns

(* The looper implements the mailbox: its queue is the pending messages,   *)
(* and the message its handler works on is the active one.                 *)
Box == INSTANCE Mailbox WITH
    MaxPuts  <- MaxPosts,
    Answers  <- Errs,
    NoAnswer <- None,
    puts     <- posted,
    pending  <- [k \in DOMAIN queue |-> queue[k].id],
    active   <- IF lpc = "handler" THEN cur.id ELSE 0,
    answer   <- result

ImplementsMailbox == Box!MSpec
=============================================================================
