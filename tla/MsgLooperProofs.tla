--------------------------- MODULE MsgLooperProofs ---------------------------
(***************************************************************************)
(* What MsgLooper guarantees for every number of threads and messages.     *)
(*                                                                         *)
(* The argument for the order and the accounting of messages is that the   *)
(* queue always holds the latest messages, without a gap (OrderInv): a     *)
(* push adds the next number at the tail, a pop takes the smallest at the  *)
(* head, and what flush removes is everything.                             *)
(***************************************************************************)
EXTENDS MsgLooper, TLAPS

(* The number of messages that have left the queue.                        *)
Gone == posted - Len(queue)

OrderInv ==
    /\ Len(queue) <= posted
    /\ \A k \in DOMAIN queue : queue[k].id = Gone + k
    /\ \A i \in Ids : i > Gone => ~Handled(i) /\ i \notin flushed
    /\ \A i \in Ids : i <= Gone => InProgress(i) \/ Handled(i) \/ i \in flushed
    /\ \A i \in Ids : Handled(i) => i \notin flushed
    /\ lpc = "handler" =>
         /\ cur.id \in 1..Gone
         /\ ~Handled(cur.id)
         /\ cur.id \notin flushed
         /\ \A j \in Ids : cur.id < j /\ j <= Gone => j \in flushed
    /\ lpc \in {"signal", "seterr"} => cur.id \in 1..Gone /\ Handled(cur.id)

(* Handled messages leave no gap but the flushed ones behind them.         *)
HandledInOrder ==
    \A i, j \in Ids : i < j /\ Handled(j) => Handled(i) \/ i \in flushed

-----------------------------------------------------------------------------
USE LooperAssumption

(* The initial messages are messages.                                      *)
LEMMA NoMsgType == \A t \in Threads : NoMsg(t) \in Messages
  BY DEF NoMsg, Messages

(* Numbering a message gives a message with that number.                   *)
LEMMA NumberedMsg ==
  ASSUME NEW m \in Messages, NEW i \in Ids
  PROVE  /\ [m EXCEPT !.id = i] \in Messages
         /\ [m EXCEPT !.id = i].id = i
         /\ [m EXCEPT !.id = i].sync = m.sync
         /\ [m EXCEPT !.id = i].from = m.from
  BY DEF Messages, Ids

(* Queued messages are numbered, and the one the looper thread is working  *)
(* on is too; it has its answer once the handler has returned.             *)
IdInv ==
    /\ \A k \in DOMAIN queue : queue[k].id \in Ids
    /\ lpc \in {"handler", "signal", "seterr"} => cur.id \in Ids
    /\ lpc \in {"signal", "seterr"} => Handled(cur.id)

TypeInv == TypeOK /\ IdInv

LEMMA TypeInit == Init => TypeInv
<1> SUFFICES ASSUME Init PROVE TypeInv
  OBVIOUS
<1> USE DEF Init
<1>1. queue \in Seq(Messages) /\ DOMAIN queue = {}
  OBVIOUS
<1>2. cur \in Messages /\ call \in [Threads -> Messages]
  BY NoMsgType DEF Threads
<1>3. got \in [Threads -> [id : 0..MaxPosts, sync : BOOLEAN, val : Errs]]
  OBVIOUS
<1>4. /\ pc \in [Threads -> {"idle", "posting", "syncwait", "return", "stopping", "joining"}]
      /\ result \in [Ids -> Errs \cup {None}]
      /\ posted \in 0..MaxPosts
      /\ flushed \subseteq Ids
  OBVIOUS
<1>5. TypeOK
  BY <1>1, <1>2, <1>3, <1>4 DEF TypeOK
<1> QED
  BY <1>1, <1>5 DEF TypeInv, IdInv

(* Type correctness: every operation, interleaved with every step of the   *)
(* looper thread, keeps each variable in its type.                         *)
LEMMA TypeNext == TypeInv /\ [Next]_vars => TypeInv'
<1> SUFFICES ASSUME TypeInv, [Next]_vars PROVE TypeInv'
  OBVIOUS
<1> USE DEF TypeInv, TypeOK, IdInv, Handled
<1>1. ASSUME NEW t \in Threads, NEW w \in Whats, NEW sync \in BOOLEAN, Post(t, w, sync)
      PROVE  TypeInv'
  <2>1. [id |-> 0, sync |-> sync, what |-> w, from |-> t] \in Messages
    BY DEF Messages
  <2>2. [id |-> 0, sync |-> sync, val |-> OK]
           \in [id : 0..MaxPosts, sync : BOOLEAN, val : Errs]
    OBVIOUS
  <2>3. /\ got' = got \/ got' = [got EXCEPT ![t] = [id |-> 0, sync |-> sync, val |-> OK]]
        /\ pc' = pc \/ pc' = [pc EXCEPT ![t] = "posting"]
        /\ \/ call' = call
           \/ call' = [call EXCEPT ![t] =
                         [id |-> 0, sync |-> sync, what |-> w, from |-> t]]
        /\ UNCHANGED <<queue, state, created, lpc, cur, err, posted, result,
                       flushed, exitReq, wild>>
    BY <1>1 DEF Post
  <2>4. got' \in [Threads -> [id : 0..MaxPosts, sync : BOOLEAN, val : Errs]]
    BY <2>2, <2>3
  <2>6. call' \in [Threads -> Messages]
    BY <2>1, <2>3
  <2>5. pc' \in [Threads -> {"idle", "posting", "syncwait", "return", "stopping", "joining"}]
    BY <2>3
  <2> QED
    BY <2>3, <2>4, <2>5, <2>6
<1>2. ASSUME NEW t \in Threads, Enqueue(t) PROVE TypeInv'
  <2> DEFINE m == [call[t] EXCEPT !.id = posted + 1]
  <2>0. posted + 1 \in Ids /\ call[t] \in Messages
    BY <1>2 DEF Enqueue, Ids
  <2>1. m \in Messages /\ m.id \in Ids
    BY <2>0, NumberedMsg
  <2>2. queue' = Append(queue, m) /\ call' = [call EXCEPT ![t] = m]
    BY <1>2 DEF Enqueue
  <2> HIDE DEF m
  <2>3. queue' \in Seq(Messages) /\ call' \in [Threads -> Messages]
    BY <2>1, <2>2
  <2>4. \A k \in DOMAIN queue' : queue'[k].id \in Ids
    BY <2>1, <2>2
  <2>5. posted' \in 0..MaxPosts
    BY <1>2 DEF Enqueue
  <2>6. pc' \in [Threads -> {"idle", "posting", "syncwait", "return", "stopping", "joining"}]
    BY <1>2 DEF Enqueue
  <2> QED
    BY <1>2, <2>3, <2>4, <2>5, <2>6 DEF Enqueue, WakeLooper
<1>3. ASSUME NEW t \in Threads, Return(t) PROVE TypeInv'
  <2>1. [id |-> call[t].id, sync |-> call[t].sync, val |-> err]
           \in [id : 0..MaxPosts, sync : BOOLEAN, val : Errs]
    BY DEF Messages
  <2> QED
    BY <1>3, <2>1 DEF Return
<1>4. ASSUME NEW t \in Threads, Join(t) \/ Joined(t) \/ SpuriousSync(t) PROVE TypeInv'
  BY <1>4 DEF Join, Joined, SpuriousSync
<1>5. ASSUME NEW t \in Threads, NEW w \in Whats, Flush(t) \/ FlushMessage(t, w)
      PROVE  TypeInv'
  <2>1. QueuedIds \subseteq Ids
    BY DEF QueuedIds
  <2>2. /\ queue' = queue \/ queue' = << >>
        /\ flushed' = flushed \/ flushed' = flushed \cup QueuedIds
        /\ wild' = wild \/ wild' = TRUE
        /\ UNCHANGED <<state, created, lpc, cur, err, pc, call, got, posted,
                       result, exitReq>>
    BY <1>5 DEF Flush, FlushMessage
  <2>3. queue' \in Seq(Messages) /\ \A k \in DOMAIN queue' : queue'[k].id \in Ids
    <3>1. CASE queue' = queue
      BY <3>1
    <3>2. CASE queue' = << >>
      <4>1. queue' \in Seq(Messages)
        BY <3>2
      <4>2. DOMAIN queue' = {}
        BY <3>2
      <4> QED
        BY <4>1, <4>2
    <3> QED
      BY <2>2, <3>1, <3>2
  <2>4. flushed' \subseteq Ids /\ wild' \in BOOLEAN
    BY <2>1, <2>2
  <2>5. IdInv'
    BY <2>2, <2>3
  <2> QED
    BY <2>2, <2>3, <2>4, <2>5
<1>6. ASSUME NEW t \in Threads, RequestExit(t) PROVE TypeInv'
  BY <1>6 DEF RequestExit, WakeLooper
<1>7. CASE Born \/ SetLoop \/ Top \/ WaitIfEmpty \/ SpuriousExec
  BY <1>7 DEF Born, SetLoop, Top, WaitIfEmpty, SpuriousExec, LooperUnchanged
<1>8. CASE Pop
  <2>1. CASE queue = << >>
    BY <1>8, <2>1 DEF Pop, LooperUnchanged
  <2>2. CASE queue # << >>
    <3>1. /\ Head(queue) \in Messages /\ Head(queue).id \in Ids
          /\ Tail(queue) \in Seq(Messages)
          /\ \A k \in DOMAIN Tail(queue) : Tail(queue)[k].id \in Ids
      BY <2>2
    <3> QED
      BY <1>8, <2>2, <3>1 DEF Pop, LooperUnchanged
  <2> QED
    BY <2>1, <2>2
<1>9. ASSUME NEW e \in Errs, Deliver(e) PROVE TypeInv'
  BY <1>9 DEF Deliver, LooperUnchanged
<1>10. CASE DoneSignal
  BY <1>10 DEF DoneSignal, SyncWaiters
<1>11. CASE DoneSetErr
  BY <1>11 DEF DoneSetErr, LooperUnchanged
<1>12. CASE UNCHANGED vars
  BY <1>12 DEF vars
<1> HIDE DEF TypeInv
<1>13. ASSUME NEW t \in Threads, NewCall(t) PROVE TypeInv'
  BY <1>1, <1>5, <1>6, <1>13 DEF NewCall
<1>14. ASSUME NEW t \in Threads, CallStep(t) \/ SpuriousSync(t) PROVE TypeInv'
  BY <1>2, <1>3, <1>4, <1>14 DEF CallStep
<1>15. CASE LooperStep \/ SpuriousExec
  BY <1>7, <1>8, <1>9, <1>10, <1>11, <1>15 DEF LooperStep
<1> QED
  BY <1>12, <1>13, <1>14, <1>15 DEF Next

(* MsgLooper is type correct, for any threads, messages and bound.         *)
THEOREM TypeCorrect == Spec => []TypeOK
<1>1. TypeInv => TypeOK
  BY DEF TypeInv
<1> QED
  BY <1>1, TypeInit, TypeNext, PTL DEF Spec

-----------------------------------------------------------------------------
(* The order of messages.                                                  *)

Inv == TypeInv /\ OrderInv /\ HandledInOrder

LEMMA InvInit == Init => Inv
<1> SUFFICES ASSUME Init PROVE OrderInv /\ HandledInOrder
  BY TypeInit DEF Inv
<1>1. queue = << >> /\ Len(queue) = 0 /\ DOMAIN queue = {} /\ posted = 0
  BY DEF Init
<1>2. \A i \in Ids : result[i] = None /\ i \notin flushed /\ i > 0
  BY DEF Init, Ids
<1>3. lpc = "born"
  BY DEF Init
<1> QED
  BY <1>1, <1>2, <1>3 DEF OrderInv, HandledInOrder, Gone, Handled, InProgress, Ids

(* A step that neither moves messages nor enters or leaves the handler.    *)
LEMMA QuietStep ==
  ASSUME Inv, TypeInv',
         UNCHANGED <<queue, posted, result, flushed, cur>>,
         lpc' = "handler" <=> lpc = "handler",
         lpc' \in {"signal", "seterr"} => lpc \in {"signal", "seterr"}
  PROVE  Inv'
  BY DEF Inv, OrderInv, HandledInOrder, Gone, Handled, InProgress

(* A push numbers the message and adds it at the tail.                     *)
LEMMA EnqueueOrder ==
  ASSUME Inv, TypeInv', NEW t \in Threads, Enqueue(t)
  PROVE  Inv'
<1> DEFINE m == [call[t] EXCEPT !.id = posted + 1]
<1>1. posted + 1 \in Ids /\ call[t] \in Messages /\ posted \in Nat
  BY DEF Inv, TypeInv, TypeOK, Enqueue, Ids
<1>2. m \in Messages /\ m.id = posted + 1
  BY <1>1, NumberedMsg
<1>3. /\ queue' = Append(queue, m) /\ posted' = posted + 1
      /\ UNCHANGED <<result, flushed, cur>>
  BY DEF Enqueue
<1>4. /\ lpc' = "handler" <=> lpc = "handler"
      /\ lpc' \in {"signal", "seterr"} => lpc \in {"signal", "seterr"}
  BY DEF Enqueue, WakeLooper
<1> HIDE DEF m
<1>5. queue \in Seq(Messages) /\ Len(queue) \in Nat
  BY DEF Inv, TypeInv, TypeOK
<1>6. Len(queue') = Len(queue) + 1 /\ DOMAIN queue' = 1..(Len(queue) + 1)
  BY <1>2, <1>3, <1>5
<1>7. Gone' = Gone
  BY <1>1, <1>3, <1>5, <1>6 DEF Gone
<1>8. \A k \in DOMAIN queue' : queue'[k].id = Gone + k
  BY <1>1, <1>2, <1>3, <1>5, <1>6 DEF Inv, OrderInv, Gone
<1>9. Len(queue') <= posted'
  BY <1>1, <1>3, <1>5, <1>6 DEF Inv, OrderInv
<1>10. OrderInv' /\ HandledInOrder'
  BY <1>3, <1>4, <1>7, <1>8, <1>9
     DEF Inv, OrderInv, HandledInOrder, Handled, InProgress
<1> QED
  BY <1>10 DEF Inv

(* The queued messages are those with the numbers after the ones gone.     *)
LEMMA QueuedRange ==
  ASSUME Inv
  PROVE  /\ QueuedIds = (Gone + 1)..posted
         /\ Gone \in Nat /\ posted \in 0..MaxPosts
<1>1. queue \in Seq(Messages) /\ Len(queue) \in Nat /\ posted \in Nat
      /\ DOMAIN queue = 1..Len(queue) /\ Len(queue) <= posted /\ posted \in 0..MaxPosts
  BY DEF Inv, TypeInv, TypeOK, OrderInv
<1>2. Gone \in Nat /\ posted = Gone + Len(queue)
  BY <1>1 DEF Gone
<1>3. ASSUME NEW k \in DOMAIN queue PROVE queue[k].id \in (Gone + 1)..posted
  BY <1>1, <1>2, <1>3 DEF Inv, OrderInv
<1>4. ASSUME NEW i \in (Gone + 1)..posted PROVE \E k \in DOMAIN queue : queue[k].id = i
  <2>1. i \in Nat /\ i - Gone \in 1..Len(queue) /\ Gone + (i - Gone) = i
    BY <1>1, <1>2
  <2>2. queue[i - Gone].id = Gone + (i - Gone)
    BY <1>1, <2>1 DEF Inv, OrderInv
  <2> QED
    BY <1>1, <2>1, <2>2
<1> QED
  BY <1>1, <1>2, <1>3, <1>4 DEF QueuedIds

(* A flush removes every queued message, and these become the flushed ones.*)
LEMMA FlushOrder ==
  ASSUME Inv, TypeInv',
         queue' = << >>, flushed' = flushed \cup QueuedIds,
         UNCHANGED <<posted, result, cur, lpc>>
  PROVE  Inv'
<1>1. Gone' = posted
  <2>1. Len(queue') = 0
    OBVIOUS
  <2> QED
    BY <2>1, QueuedRange DEF Gone
<1>2. DOMAIN queue' = {} /\ Len(queue') = 0
  OBVIOUS
<1>3. \A i \in Ids : i \in flushed' <=> i \in flushed \/ (Gone < i /\ i <= posted)
  BY QueuedRange DEF Ids
<1>4. Gone <= posted
  BY QueuedRange DEF Gone, Inv, OrderInv, TypeInv, TypeOK
<1>5. OrderInv'
  BY <1>1, <1>2, <1>3, <1>4, QueuedRange
     DEF Inv, OrderInv, Handled, InProgress, Ids
<1>6. HandledInOrder'
  BY <1>3 DEF Inv, HandledInOrder, Handled
<1> QED
  BY <1>5, <1>6 DEF Inv

(* A pop takes the message with the smallest number in the queue.          *)
LEMMA PopOrder ==
  ASSUME Inv, TypeInv', Pop, queue # << >>
  PROVE  Inv'
<1>1. /\ cur' = Head(queue) /\ queue' = Tail(queue) /\ lpc' = "handler"
      /\ lpc = "pop" /\ UNCHANGED <<posted, result, flushed>>
  BY DEF Pop, LooperUnchanged
<1>2. queue \in Seq(Messages) /\ Len(queue) \in Nat \ {0} /\ 1 \in DOMAIN queue
  BY DEF Inv, TypeInv, TypeOK
<1>3. Len(queue') = Len(queue) - 1 /\ DOMAIN queue' = 1..(Len(queue) - 1)
  BY <1>1, <1>2
<1>4. Gone' = Gone + 1 /\ Gone + 1 <= posted /\ Gone \in Nat /\ posted \in 0..MaxPosts
  BY <1>1, <1>2, <1>3, QueuedRange DEF Gone, Inv, OrderInv
<1>5. cur'.id = Gone + 1
  BY <1>1, <1>2 DEF Inv, OrderInv
<1>6. \A k \in DOMAIN queue' : queue'[k].id = Gone' + k
  <2> SUFFICES ASSUME NEW k \in DOMAIN queue' PROVE queue'[k].id = Gone' + k
    OBVIOUS
  <2>1. k + 1 \in DOMAIN queue /\ queue'[k] = queue[k + 1] /\ k \in Nat
    BY <1>1, <1>2, <1>3
  <2>2. queue[k + 1].id = Gone + (k + 1)
    BY <2>1 DEF Inv, OrderInv
  <2> QED
    BY <2>1, <2>2, <1>4
<1>7. Len(queue') <= posted'
  BY <1>1, <1>2, <1>3 DEF Inv, OrderInv, TypeInv, TypeOK
<1>8. OrderInv'
  BY <1>1, <1>4, <1>5, <1>6, <1>7 DEF Inv, OrderInv, Handled, InProgress, Ids
<1>9. HandledInOrder'
  BY <1>1 DEF Inv, HandledInOrder, Handled
<1> QED
  BY <1>8, <1>9 DEF Inv

(* The handler answers the message taken last: all before it are settled.  *)
LEMMA DeliverOrder ==
  ASSUME Inv, TypeInv', NEW e \in Errs, Deliver(e)
  PROVE  Inv'
<1>1. /\ lpc = "handler" /\ lpc' \in {"signal", "top"}
      /\ UNCHANGED <<queue, posted, flushed, cur>>
      /\ result' = [result EXCEPT ![cur.id] = e]
  BY DEF Deliver, LooperUnchanged
<1>2. cur.id \in Ids /\ e # None /\ result \in [Ids -> Errs \cup {None}]
  BY <1>1 DEF Inv, TypeInv, TypeOK, IdInv
<1>3. \A i \in Ids : Handled(i)' <=> Handled(i) \/ i = cur.id
  BY <1>1, <1>2 DEF Handled
<1>4. Gone' = Gone /\ Gone \in Nat
  BY <1>1, QueuedRange DEF Gone
<1>5. OrderInv'
  BY <1>1, <1>2, <1>3, <1>4 DEF Inv, OrderInv, InProgress, Ids
<1>6. HandledInOrder'
  BY <1>1, <1>2, <1>3, <1>4 DEF Inv, HandledInOrder, OrderInv, InProgress, Ids
<1> QED
  BY <1>5, <1>6 DEF Inv

LEMMA InvNext == Inv /\ [Next]_vars => Inv'
<1> SUFFICES ASSUME Inv, [Next]_vars PROVE Inv'
  OBVIOUS
<1>0. TypeInv'
  BY TypeNext DEF Inv
<1>1. ASSUME NEW t \in Threads, NEW w \in Whats, NEW sync \in BOOLEAN, Post(t, w, sync)
      PROVE  Inv'
  BY <1>0, <1>1, QuietStep DEF Post
<1>2. ASSUME NEW t \in Threads, Enqueue(t) PROVE Inv'
  BY <1>0, <1>2, EnqueueOrder
<1>3. ASSUME NEW t \in Threads, Return(t) \/ Join(t) \/ Joined(t) \/ SpuriousSync(t)
      PROVE  Inv'
  BY <1>0, <1>3, QuietStep DEF Return, Join, Joined, SpuriousSync
<1>4. ASSUME NEW t \in Threads, Flush(t) PROVE Inv'
  BY <1>0, <1>4, FlushOrder DEF Flush
<1>5. ASSUME NEW t \in Threads, NEW w \in Whats, FlushMessage(t, w) PROVE Inv'
  <2>1. CASE UNCHANGED <<queue, flushed>>
    BY <1>0, <1>5, <2>1, QuietStep DEF FlushMessage
  <2>2. CASE queue' = << >> /\ flushed' = flushed \cup QueuedIds
    BY <1>0, <1>5, <2>2, FlushOrder DEF FlushMessage
  <2> QED
    BY <1>5, <2>1, <2>2 DEF FlushMessage
<1>6. ASSUME NEW t \in Threads, RequestExit(t) PROVE Inv'
  BY <1>0, <1>6, QuietStep DEF RequestExit, WakeLooper
<1>7. CASE Born \/ SetLoop \/ Top \/ WaitIfEmpty \/ SpuriousExec
  BY <1>0, <1>7, QuietStep
     DEF Born, SetLoop, Top, WaitIfEmpty, SpuriousExec, LooperUnchanged
<1>8. CASE Pop
  <2>1. CASE queue = << >>
    BY <1>0, <1>8, <2>1, QuietStep DEF Pop, LooperUnchanged
  <2> QED
    BY <1>0, <1>8, <2>1, PopOrder
<1>9. ASSUME NEW e \in Errs, Deliver(e) PROVE Inv'
  BY <1>0, <1>9, DeliverOrder
<1>10. CASE DoneSignal \/ DoneSetErr
  BY <1>0, <1>10, QuietStep DEF DoneSignal, DoneSetErr, LooperUnchanged
<1>11. CASE UNCHANGED vars
  BY <1>0, <1>11, QuietStep DEF vars
<1>12. ASSUME NEW t \in Threads, NewCall(t) PROVE Inv'
  BY <1>1, <1>4, <1>5, <1>6, <1>12 DEF NewCall
<1>13. ASSUME NEW t \in Threads, CallStep(t) \/ SpuriousSync(t) PROVE Inv'
  BY <1>2, <1>3, <1>13 DEF CallStep
<1>14. CASE LooperStep \/ SpuriousExec
  BY <1>7, <1>8, <1>9, <1>10, <1>14 DEF LooperStep
<1> QED
  BY <1>11, <1>12, <1>13, <1>14 DEF Next

LEMMA InvAlways == Spec => []Inv
  BY InvInit, InvNext, PTL DEF Spec

(* Messages are handled in the order in which they were queued, whatever   *)
(* the number of posting threads and however the looper, its handler's own *)
(* posts, flushes and stops interleave.                                    *)
THEOREM HandledInFifoOrder == Spec => []FifoDelivery
<1>1. Inv => FifoDelivery
  <2> SUFFICES ASSUME Inv, NEW i \in 1..posted, NEW j \in 1..posted, i < j,
                      Handled(j) \/ InProgress(j)
               PROVE  Handled(i) \/ i \in flushed
    BY DEF FifoDelivery
  <2>1. i \in Ids /\ j \in Ids
    BY QueuedRange DEF Ids
  <2>2. CASE Handled(j)
    BY <2>1, <2>2 DEF Inv, HandledInOrder
  <2>3. CASE InProgress(j)
    BY <2>1, <2>3, QueuedRange DEF Inv, OrderInv, InProgress, Ids
  <2> QED
    BY <2>2, <2>3
<1> QED
  BY <1>1, InvAlways, PTL

(* Every queued message is in exactly one place: queued, being handled,    *)
(* handled or flushed; none is lost and none is handled twice.             *)
THEOREM MessagesAccounted == Spec => []EachMessageOnce
<1>1. Inv => EachMessageOnce
  <2> SUFFICES ASSUME Inv PROVE EachMessageOnce
    OBVIOUS
  <2>1. \A i \in 1..posted : i \in Ids /\ (i \in QueuedIds <=> i > Gone)
    BY QueuedRange DEF Ids
  <2>2. \A k, l \in DOMAIN queue : queue[k].id = queue[l].id => k = l
    BY QueuedRange DEF Inv, OrderInv, TypeInv, TypeOK
  <2>3. ASSUME NEW i \in 1..posted
        PROVE  /\ i \in QueuedIds \/ InProgress(i) \/ Handled(i) \/ i \in flushed
               /\ i \in QueuedIds => ~InProgress(i) /\ ~Handled(i) /\ i \notin flushed
               /\ InProgress(i) => ~Handled(i) /\ i \notin flushed
               /\ Handled(i) => i \notin flushed
    BY <2>1, QueuedRange DEF Inv, OrderInv, InProgress, Ids
  <2> QED
    BY <2>2, <2>3 DEF EachMessageOnce
<1> QED
  BY <1>1, InvAlways, PTL

-----------------------------------------------------------------------------
(* The wait conditions.                                                    *)

LEMMA NoSleepNext == TypeInv /\ NoSleepOnWork /\ [Next]_vars => NoSleepOnWork'
<1> SUFFICES ASSUME TypeInv, NoSleepOnWork, [Next]_vars PROVE NoSleepOnWork'
  OBVIOUS
<1> USE DEF NoSleepOnWork
<1>1. ASSUME NEW t \in Threads, NewCall(t) PROVE NoSleepOnWork'
  BY <1>1 DEF NewCall, Post, Flush, FlushMessage, RequestExit, WakeLooper
<1>2. ASSUME NEW t \in Threads, CallStep(t) \/ SpuriousSync(t) PROVE NoSleepOnWork'
  <2>1. CASE Enqueue(t)
    BY <2>1 DEF Enqueue, WakeLooper
  <2> QED
    BY <1>2, <2>1 DEF CallStep, Return, Join, Joined, SpuriousSync
<1>3. CASE LooperStep \/ SpuriousExec
  BY <1>3 DEF LooperStep, Born, SetLoop, Top, WaitIfEmpty, SpuriousExec, Pop,
              Deliver, DoneSignal, DoneSetErr, LooperUnchanged
<1>4. CASE UNCHANGED vars
  BY <1>4 DEF vars
<1> QED
  BY <1>1, <1>2, <1>3, <1>4 DEF Next

(* The looper never sleeps while a message is queued: post() broadcasts    *)
(* under the lock under which msgLoop() tests the queue and waits.         *)
THEOREM NoWakeupLost == Spec => []NoSleepOnWork
<1>1. Init => NoSleepOnWork
  BY DEF Init, NoSleepOnWork
<1> QED
  BY <1>1, TypeInit, TypeNext, NoSleepNext, PTL DEF Spec

-----------------------------------------------------------------------------
(* send() with a single sender: until the looper is told to exit, a sync   *)
(* message in the queue or in the handler has its sender waiting for it.   *)

Awaited(m) == m.from \in Senders /\ pc[m.from] = "syncwait" /\ call[m.from] = m

SyncInv ==
    /\ \A t \in Threads :
          /\ pc[t] \in {"posting", "syncwait", "return"} /\ call[t].sync => t \in Senders
          /\ pc[t] = "syncwait" => call[t].sync
          /\ pc[t] = "posting" => call[t].from = t
    /\ ~exitReq =>
         /\ \A k \in DOMAIN queue : queue[k].sync => Awaited(queue[k])
         /\ lpc \in {"handler", "signal"} /\ cur.sync => Awaited(cur)
         /\ lpc = "signal" => cur.sync
         /\ \A t \in Threads : pc[t] = "return" /\ call[t].sync => Handled(call[t].id)

OneSender ==
    /\ \A a, b \in Senders : a = b
    /\ Senders \cap Spurious = {}

LEMMA SyncInit == Init => SyncInv
<1> SUFFICES ASSUME Init PROVE SyncInv
  OBVIOUS
<1>1. \A t \in Threads : pc[t] = "idle"
  BY DEF Init
<1>2. DOMAIN queue = {} /\ lpc = "born"
  BY DEF Init
<1> QED
  BY <1>1, <1>2 DEF SyncInv

LEMMA SyncNext == OneSender /\ Inv /\ SyncInv /\ [Next]_vars => SyncInv'
<1> SUFFICES ASSUME OneSender, Inv, SyncInv, [Next]_vars PROVE SyncInv'
  OBVIOUS
<1>0. /\ TypeOK /\ TypeInv /\ Senders \subseteq Threads
      /\ queue \in Seq(Messages) /\ cur \in Messages
      /\ pc \in [Threads -> {"idle", "posting", "syncwait", "return", "stopping", "joining"}]
      /\ call \in [Threads -> Messages]
      /\ \A k \in DOMAIN queue : queue[k] \in Messages
  BY DEF Inv, TypeInv, TypeOK, Threads
<1>1. ASSUME NEW t \in Threads, NEW w \in Whats,
             NEW sync \in (IF t \in Senders THEN BOOLEAN ELSE {FALSE}), Post(t, w, sync)
      PROVE  SyncInv'
  <2>1. pc[t] = "idle" /\ UNCHANGED <<queue, lpc, cur, exitReq, result>>
    BY <1>1 DEF Post, CanCall
  <2>2. CASE UNCHANGED <<pc, call>>
    BY <2>1, <2>2 DEF SyncInv, Awaited, Handled
  <2>3. CASE /\ pc' = [pc EXCEPT ![t] = "posting"]
             /\ call' = [call EXCEPT ![t] =
                            [id |-> 0, sync |-> sync, what |-> w, from |-> t]]
    BY <1>0, <2>1, <2>3 DEF SyncInv, Awaited, Handled
  <2> QED
    BY <1>1, <2>2, <2>3 DEF Post
<1>2. ASSUME NEW t \in Threads, Enqueue(t) PROVE SyncInv'
  <2>1. posted + 1 \in Ids /\ call[t] \in Messages
    BY <1>0, <1>2 DEF Inv, TypeInv, TypeOK, Enqueue, Ids
  <2>2. PICK m \in Messages : m = [call[t] EXCEPT !.id = posted + 1]
    BY <2>1, NumberedMsg
  <2>3. m.sync = call[t].sync /\ m.from = t
    BY <1>2, <2>1, <2>2, NumberedMsg DEF Enqueue, SyncInv
  <2>4. /\ pc[t] = "posting" /\ queue' = Append(queue, m)
        /\ call' = [call EXCEPT ![t] = m]
        /\ pc' = [pc EXCEPT ![t] = IF m.sync THEN "syncwait" ELSE "return"]
        /\ UNCHANGED <<cur, exitReq, result>>
        /\ lpc' \in {"handler", "signal"} => lpc' = lpc
    BY <1>2, <2>2, <2>3 DEF Enqueue, WakeLooper
  <2>5. m.sync => t \in Senders
    BY <2>4, <2>3 DEF SyncInv
  <2>6. \A k \in DOMAIN queue' : queue'[k] = m \/ (k \in DOMAIN queue /\ queue'[k] = queue[k])
    BY <1>0, <2>4
  <2>7. \A x \in Messages : Awaited(x) => Awaited(x)'
    BY <1>0, <2>4 DEF Awaited
  <2>8. m.sync => Awaited(m)'
    BY <1>0, <2>4, <2>5, <2>3 DEF Awaited
  <2> QED
    BY <1>0, <2>4, <2>5, <2>6, <2>7, <2>8, <2>3 DEF SyncInv, Handled
<1>3. ASSUME NEW t \in Threads, Return(t) \/ Join(t) \/ Joined(t) PROVE SyncInv'
  <2>1. /\ pc[t] \notin {"idle", "posting", "syncwait"}
        /\ \/ pc' = [pc EXCEPT ![t] = "idle"]
           \/ pc' = [pc EXCEPT ![t] = "joining"]
        /\ UNCHANGED <<queue, lpc, cur, exitReq, result, call>>
    BY <1>3 DEF Return, Join, Joined
  <2> QED
    BY <1>0, <2>1 DEF SyncInv, Awaited, Handled
<1>4. ASSUME NEW t \in Threads, SpuriousSync(t) PROVE SyncInv'
  BY <1>4 DEF SpuriousSync, SyncInv, OneSender
<1>5. ASSUME NEW t \in Threads, NEW w \in Whats, Flush(t) \/ FlushMessage(t, w)
      PROVE  SyncInv'
  <2>1. UNCHANGED <<lpc, cur, exitReq, result, call, pc>>
    BY <1>5 DEF Flush, FlushMessage
  <2>0. \A m \in Messages : Awaited(m)' <=> Awaited(m)
    BY <2>1 DEF Awaited
  <2>2. CASE queue' = queue
    BY <1>0, <2>0, <2>1, <2>2 DEF SyncInv, Handled
  <2>3. CASE queue' = << >>
    <3>1. DOMAIN queue' = {}
      BY <2>3
    <3> QED
      BY <1>0, <2>0, <2>1, <3>1 DEF SyncInv, Handled
  <2> QED
    BY <1>5, <2>2, <2>3 DEF Flush, FlushMessage
<1>6. ASSUME NEW t \in Threads, RequestExit(t) PROVE SyncInv'
  BY <1>0, <1>6 DEF RequestExit, SyncInv, CanCall
<1>7. CASE Born \/ SetLoop \/ Top \/ WaitIfEmpty \/ SpuriousExec \/ DoneSetErr
  <2>1. /\ lpc' \notin {"handler", "signal"}
        /\ UNCHANGED <<queue, cur, exitReq, result, call, pc>>
    BY <1>7 DEF Born, SetLoop, Top, WaitIfEmpty, SpuriousExec, DoneSetErr, LooperUnchanged
  <2> QED
    BY <2>1 DEF SyncInv, Awaited, Handled
<1>8. CASE Pop
  <2>1. UNCHANGED <<exitReq, result, call, pc>>
    BY <1>8 DEF Pop, LooperUnchanged
  <2>2. CASE queue = << >>
    BY <1>8, <2>1, <2>2 DEF Pop, SyncInv, Awaited, Handled
  <2>3. CASE queue # << >>
    <3>1. cur' = queue[1] /\ 1 \in DOMAIN queue /\ lpc' = "handler"
      BY <1>0, <1>8, <2>3 DEF Pop
    <3>2. \A k \in DOMAIN queue' : k + 1 \in DOMAIN queue /\ queue'[k] = queue[k + 1]
      BY <1>0, <1>8, <2>3 DEF Pop
    <3> QED
      BY <2>1, <3>1, <3>2 DEF SyncInv, Awaited, Handled
  <2> QED
    BY <2>2, <2>3
<1>9. ASSUME NEW e \in Errs, Deliver(e) PROVE SyncInv'
  <2>1. /\ lpc = "handler" /\ lpc' = IF cur.sync THEN "signal" ELSE "top"
        /\ result' = [result EXCEPT ![cur.id] = e]
        /\ UNCHANGED <<queue, cur, exitReq, call, pc>>
    BY <1>9 DEF Deliver, LooperUnchanged
  <2>2. result \in [Ids -> Errs \cup {None}] /\ e # None /\ cur.id \in Ids
    BY <1>0, <2>1 DEF TypeInv, TypeOK, IdInv
  <2>3. \A i \in 0..MaxPosts : Handled(i) => Handled(i)'
    BY <2>1, <2>2 DEF Handled
  <2>4. \A t \in Threads : call[t].id \in 0..MaxPosts
    BY <1>0 DEF Messages
  <2> QED
    BY <2>1, <2>3, <2>4 DEF SyncInv, Awaited
<1>10. CASE DoneSignal
  <2>1. /\ lpc = "signal" /\ lpc' = "seterr"
        /\ UNCHANGED <<queue, cur, exitReq, call, result>>
    BY <1>10 DEF DoneSignal
  <2>2. CASE pc' = pc
    BY <2>1, <2>2 DEF SyncInv, Awaited, Handled
  <2>3. ASSUME NEW t \in SyncWaiters, pc' = [pc EXCEPT ![t] = "return"]
        PROVE  SyncInv'
    <3>1. t \in Threads /\ pc[t] = "syncwait" /\ call[t].sync /\ t \in Senders
      BY DEF SyncWaiters, SyncInv
    <3>2. CASE exitReq
      BY <1>0, <2>1, <2>3, <3>1, <3>2 DEF SyncInv
    <3>3. CASE ~exitReq
      <4>1. Awaited(cur) /\ cur.from = t /\ call[t] = cur
        BY <2>1, <3>1, <3>3 DEF SyncInv, OneSender, Awaited
      <4>2. Handled(call[t].id)
        BY <1>0, <2>1, <4>1 DEF TypeInv, IdInv
      <4>3. ASSUME NEW k \in DOMAIN queue PROVE ~queue[k].sync
        <5>1. queue[k].id > Gone /\ cur.id <= Gone
          BY <2>1, QueuedRange, <1>0 DEF Inv, OrderInv, QueuedIds
        <5>2. queue[k].sync => Awaited(queue[k]) /\ queue[k] = cur
          BY <3>1, <3>3, <4>1 DEF SyncInv, OneSender, Awaited
        <5>3. cur.id \in Int /\ Gone \in Int /\ queue[k].id \in Int
          BY <1>0, QueuedRange DEF Messages
        <5> QED
          BY <5>1, <5>2, <5>3
      <4> QED
        BY <1>0, <2>1, <2>3, <3>1, <4>2, <4>3 DEF SyncInv, Handled
    <3> QED
      BY <3>2, <3>3
  <2> QED
    BY <1>10, <2>2, <2>3 DEF DoneSignal
<1>11. CASE UNCHANGED vars
  BY <1>11 DEF vars, SyncInv, Awaited, Handled
<1>12. ASSUME NEW t \in Threads, NewCall(t) PROVE SyncInv'
  BY <1>1, <1>5, <1>6, <1>12 DEF NewCall
<1>13. ASSUME NEW t \in Threads, CallStep(t) \/ SpuriousSync(t) PROVE SyncInv'
  BY <1>2, <1>3, <1>4, <1>13 DEF CallStep
<1>14. CASE LooperStep \/ SpuriousExec
  BY <1>7, <1>8, <1>9, <1>10, <1>14 DEF LooperStep
<1> QED
  BY <1>11, <1>12, <1>13, <1>14 DEF Next

(* With one sending thread, whose waits do not end by themselves, send()   *)
(* returns only when the handler has answered its message or the looper    *)
(* was told to exit.  RTNDKMediaPlayer is such a sender: it sends under    *)
(* its own lock.                                                           *)
THEOREM SendIsSynchronous ==
  ASSUME OneSender
  PROVE  Spec => []SendWaitsForHandler
<1>1. SyncInv => SendWaitsForHandler
  BY DEF SyncInv, SendWaitsForHandler
<1> QED
  BY <1>1, InvInit, InvNext, SyncInit, SyncNext, PTL DEF Spec

-----------------------------------------------------------------------------
(* The looper as a mailbox.                                                *)

IdsOf(q) == [k \in DOMAIN q |-> q[k].id]

(* Taking the numbers of a queue commutes with its operations.             *)
LEMMA IdsOfQueue ==
  ASSUME NEW q \in Seq(Messages)
  PROVE  /\ IdsOf(q) \in Seq(0..MaxPosts)
         /\ \A m \in Messages : IdsOf(Append(q, m)) = Append(IdsOf(q), m.id)
         /\ q # << >> => /\ IdsOf(q) # << >>
                        /\ IdsOf(Tail(q)) = Tail(IdsOf(q))
                        /\ Head(q).id = Head(IdsOf(q))
<1>1. /\ IdsOf(q) \in Seq(0..MaxPosts) /\ Len(IdsOf(q)) = Len(q)
      /\ \A k \in 1..Len(q) : IdsOf(q)[k] = q[k].id
  <2>1. /\ IdsOf(q) = [k \in 1..Len(q) |-> q[k].id] /\ Len(q) \in Nat
        /\ \A k \in 1..Len(q) : q[k] \in Messages
    BY DEF IdsOf
  <2>2. \A k \in 1..Len(q) : q[k].id \in 0..MaxPosts
    BY <2>1 DEF Messages
  <2> QED
    BY <2>1, <2>2
<1>2. ASSUME NEW m \in Messages PROVE IdsOf(Append(q, m)) = Append(IdsOf(q), m.id)
  <2>1. m.id \in 0..MaxPosts
    BY DEF Messages
  <2>2. /\ Append(IdsOf(q), m.id) \in Seq(0..MaxPosts)
        /\ Len(Append(IdsOf(q), m.id)) = Len(q) + 1
        /\ Len(Append(q, m)) = Len(q) + 1 /\ Append(q, m) \in Seq(Messages)
    BY <1>1, <2>1
  <2>3. \A k \in 1..(Len(q) + 1) : Append(IdsOf(q), m.id)[k] = Append(q, m)[k].id
    BY <1>1, <2>1
  <2> QED
    BY <2>2, <2>3 DEF IdsOf
<1>3. ASSUME q # << >>
      PROVE  /\ IdsOf(q) # << >>
             /\ IdsOf(Tail(q)) = Tail(IdsOf(q))
             /\ Head(q).id = Head(IdsOf(q))
  <2>1. Len(q) > 0 /\ Len(Tail(q)) = Len(q) - 1 /\ Tail(q) \in Seq(Messages)
    BY <1>3
  <2>2. IdsOf(q) # << >> /\ Head(q).id = Head(IdsOf(q))
    BY <1>1, <1>3, <2>1
  <2>3. Tail(IdsOf(q)) \in Seq(0..MaxPosts) /\ Len(Tail(IdsOf(q))) = Len(q) - 1
    BY <1>1, <2>2
  <2>4. \A k \in 1..(Len(q) - 1) : Tail(IdsOf(q))[k] = Tail(q)[k].id
    <3> SUFFICES ASSUME NEW k \in 1..(Len(q) - 1) PROVE Tail(IdsOf(q))[k] = Tail(q)[k].id
      OBVIOUS
    <3>1. k + 1 \in 1..Len(q) /\ Tail(q)[k] = q[k + 1] /\ Tail(IdsOf(q))[k] = IdsOf(q)[k + 1]
      BY <1>1, <2>1, <2>2
    <3> QED
      BY <1>1, <3>1
  <2> QED
    BY <2>1, <2>2, <2>3, <2>4 DEF IdsOf
<1> QED
  BY <1>1, <1>2, <1>3

(* Every step of the looper and of its callers is a step of the mailbox,   *)
(* or leaves the mailbox alone.                                            *)
LEMMA MailboxStep == Inv /\ [Next]_vars => [Box!MNext]_(Box!mvars)
<1> SUFFICES ASSUME Inv, [Next]_vars PROVE [Box!MNext]_(Box!mvars)
  OBVIOUS
<1>0. queue \in Seq(Messages) /\ posted \in 0..MaxPosts
  BY DEF Inv, TypeInv, TypeOK
<1>1. ASSUME UNCHANGED <<queue, posted, result, cur>>, lpc' = "handler" <=> lpc = "handler"
      PROVE  UNCHANGED Box!mvars
  BY <1>1 DEF Box!mvars
<1>2. ASSUME NEW t \in Threads, Enqueue(t) PROVE Box!Put
  <2>1. posted + 1 \in Ids /\ call[t] \in Messages
    BY <1>0, <1>2 DEF Inv, TypeInv, TypeOK, Enqueue, Ids
  <2>2. PICK m \in Messages : m = [call[t] EXCEPT !.id = posted + 1] /\ m.id = posted + 1
    BY <2>1, NumberedMsg
  <2>3. /\ queue' = Append(queue, m) /\ posted' = posted + 1 /\ posted < MaxPosts
        /\ UNCHANGED <<result, cur>> /\ (lpc' = "handler" <=> lpc = "handler")
    BY <1>2, <2>2 DEF Enqueue, WakeLooper
  <2>4. IdsOf(queue') = Append(IdsOf(queue), posted + 1)
    BY <1>0, <2>2, <2>3, IdsOfQueue
  <2> QED
    BY <2>3, <2>4 DEF Box!Put, IdsOf
<1>3. ASSUME NEW t \in Threads, NEW w \in Whats, Flush(t) \/ FlushMessage(t, w)
      PROVE  Box!Drop \/ UNCHANGED Box!mvars
  <2>1. /\ queue' = queue \/ queue' = << >>
        /\ UNCHANGED <<posted, result, cur, lpc>>
    BY <1>3 DEF Flush, FlushMessage
  <2>2. ASSUME queue' = << >> PROVE IdsOf(queue') = << >>
    BY <2>2 DEF IdsOf
  <2>3. CASE queue' = << >>
    BY <2>1, <2>2, <2>3 DEF Box!Drop, IdsOf
  <2> QED
    BY <1>1, <2>1, <2>3
<1>4. ASSUME Pop PROVE Box!Take \/ UNCHANGED Box!mvars
  <2>1. CASE queue = << >>
    BY <1>1, <1>4, <2>1 DEF Pop, LooperUnchanged
  <2>2. CASE queue # << >>
    <3>1. /\ lpc = "pop" /\ lpc' = "handler" /\ cur' = Head(queue)
          /\ queue' = Tail(queue) /\ UNCHANGED <<posted, result>>
      BY <1>4, <2>2 DEF Pop, LooperUnchanged
    <3>2. /\ IdsOf(queue) # << >> /\ IdsOf(queue') = Tail(IdsOf(queue))
          /\ cur'.id = Head(IdsOf(queue))
      BY <1>0, <2>2, <3>1, IdsOfQueue
    <3> QED
      BY <3>1, <3>2 DEF Box!Take, IdsOf
  <2> QED
    BY <2>1, <2>2
<1>5. ASSUME NEW e \in Errs, Deliver(e) PROVE Box!Answer
  <2>1. /\ lpc = "handler" /\ lpc' # "handler"
        /\ result' = [result EXCEPT ![cur.id] = e]
        /\ UNCHANGED <<queue, cur, posted>>
    BY <1>5 DEF Deliver, LooperUnchanged
  <2>2. cur.id # 0 /\ result[cur.id] = None
    BY <2>1, QueuedRange DEF Inv, OrderInv, Handled
  <2> QED
    BY <2>1, <2>2 DEF Box!Answer
<1>6. ASSUME NEW t \in Threads, NewCall(t) PROVE Box!Drop \/ UNCHANGED Box!mvars
  <2>1. CASE \E w \in Whats :
               \E sync \in (IF t \in Senders THEN BOOLEAN ELSE {FALSE}) : Post(t, w, sync)
    BY <1>1, <2>1 DEF Post
  <2>2. CASE RequestExit(t)
    BY <1>1, <2>2 DEF RequestExit, WakeLooper
  <2> QED
    BY <1>3, <1>6, <2>1, <2>2 DEF NewCall
<1>7. ASSUME NEW t \in Threads, CallStep(t) \/ SpuriousSync(t)
      PROVE  Box!Put \/ UNCHANGED Box!mvars
  <2>1. CASE Return(t) \/ Join(t) \/ Joined(t) \/ SpuriousSync(t)
    BY <1>1, <2>1 DEF Return, Join, Joined, SpuriousSync
  <2> QED
    BY <1>2, <1>7, <2>1 DEF CallStep
<1>8. CASE LooperStep \/ SpuriousExec
  <2>1. CASE Born \/ SetLoop \/ Top \/ WaitIfEmpty \/ SpuriousExec \/ DoneSignal \/ DoneSetErr
    BY <1>1, <2>1 DEF Born, SetLoop, Top, WaitIfEmpty, SpuriousExec, DoneSignal,
                      DoneSetErr, LooperUnchanged
  <2> QED
    BY <1>4, <1>5, <1>8, <2>1 DEF LooperStep, Box!MNext
<1>9. CASE UNCHANGED vars
  BY <1>1, <1>9 DEF vars
<1> QED
  BY <1>6, <1>7, <1>8, <1>9 DEF Next, Box!MNext

(* The looper implements the mailbox: messages are taken one at a time in  *)
(* the order they were put, answered at most once, and dropped only by a   *)
(* flush, for any threads and any number of messages.                      *)
THEOREM LooperIsMailbox == Spec => ImplementsMailbox
<1>1. Init => Box!MInit
  <2> SUFFICES ASSUME Init PROVE Box!MInit
    OBVIOUS
  <2>1. IdsOf(queue) = << >>
    BY DEF Init, IdsOf
  <2> QED
    BY <2>1 DEF Init, Box!MInit, IdsOf, Ids
<1> QED
  BY <1>1, InvAlways, MailboxStep, PTL DEF Spec, ImplementsMailbox, Box!MSpec
=============================================================================
