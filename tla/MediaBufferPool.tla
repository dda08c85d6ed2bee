--------------------------- MODULE MediaBufferPool ---------------------------
(***************************************************************************)
(* RTMediaBufferPool and the RTMediaBuffers it lends.  A user acquires a   *)
(* buffer, may fill it with a payload of its own (an FFmpeg packet and the *)
(* function that frees it), may pass it on, and at last somebody releases  *)
(* it; the reference count then drops and the pool wakes a waiter.  The    *)
(* pool's owner registers the buffers, starts and stops the pool, and      *)
(* releases all buffers when nobody is inside a call.                      *)
(*                                                                         *)
(* The pool's lock protects the scan of acquireBuffer and the signal, but  *)
(* not mRunning, nor the reference counts and observers of the buffers:    *)
(* release() is one action per access to them, and the scan, which looks   *)
(* at one buffer after the other, one action per buffer.                   *)
(***************************************************************************)
EXTENDS Integers, FiniteSets

CONSTANTS
    Acquirers,   \* the threads that call acquireBuffer
    Consumers,   \* the threads that get buffers from them and release them
    Owner,       \* the thread that registers, starts, stops and tears down
    Buffers,     \* every buffer
    Size,        \* Size[b]: its getSize()
    Requests,    \* the sizes that non-blocking callers ask for
    MaxCount,    \* mMaxBufferCount
    Nobody,      \* the lock is free
    NoBuffer,    \* RT_NULL
    Unborn, Free, Gone   \* of the abstract specification

Users   == Acquirers \cup Consumers
Threads == Users \cup {Owner}

ASSUME PoolAssumption ==
    /\ Owner \notin Users
    /\ Nobody \notin Threads
    /\ NoBuffer \notin Buffers
    /\ Size \in [Buffers -> Nat]
    /\ Requests \subseteq Nat
    /\ MaxCount \in Nat
    /\ {Unborn, Free, Gone} \cap Users = {}
    /\ Unborn # Free /\ Unborn # Gone /\ Free # Gone
    /\ IsFiniteSet(Buffers)

VARIABLES
    pool,      \* mBuffers
    running,   \* mRunning
    lock,      \* the thread that holds mLock across steps
    refs,      \* refs[b]: mRefCount
    observed,  \* the buffers whose mObserver is the pool
    raw,       \* the buffers with a payload (kKeyPacketPtr is set)
    gone,      \* the deleted buffers
    pc,        \* where each thread is
    want,      \* the size and the block flag of its acquireBuffer
    todo,      \* the buffers its scan has not looked at
    holds,     \* the buffers it has got and not released
    rel,       \* the buffer it is releasing
    ret,       \* what the last acquireBuffer to return returned
    filled     \* the buffers whose holders rely on the payload

vars == <<pool, running, lock, refs, observed, raw, gone, pc, want, todo,
          holds, rel, ret, filled>>

acqVars == <<want, todo, ret>>
bufVars == <<refs, observed, raw, gone, filled>>

NoRequest == [size |-> 0, block |-> FALSE]

Rets == {"RT_OK", "RT_ERR_LIST_EMPTY", "RT_ERR_NULL_PTR"}

(* The constructor for external buffers leaves mRunning unset.             *)
Init ==
    /\ pool = {}
    /\ running \in BOOLEAN
    /\ lock = Nobody
    /\ refs = [b \in Buffers |-> 0]
    /\ observed = {}
    /\ raw = {}
    /\ gone = {}
    /\ pc = [t \in Threads |-> "idle"]
    /\ want = [u \in Users |-> NoRequest]
    /\ todo = [u \in Users |-> {}]
    /\ holds = [u \in Users |-> {}]
    /\ rel = [t \in Threads |-> NoBuffer]
    /\ ret = "RT_OK"
    /\ filled = {}

Goto(t, l) == pc' = [pc EXCEPT ![t] = l]

(* A call returns, and its locals are gone: from acquireBuffer with r ...  *)
ReturnFromAcquire(u, r) ==
    /\ Goto(u, "idle")
    /\ ret' = r
    /\ want' = [want EXCEPT ![u] = NoRequest]
    /\ todo' = [todo EXCEPT ![u] = {}]

(* ... or from release().                                                  *)
ReturnFromRelease(u) == Goto(u, "idle") /\ rel' = [rel EXCEPT ![u] = NoBuffer]

-----------------------------------------------------------------------------
(* The owner.                                                              *)

(* Nobody is inside a call of the pool or of a buffer.                     *)
Quiescent == \A t \in Threads : pc[t] = "idle"

(* A new buffer: in no pool, never lent and not deleted.                   *)
Fresh(b) == b \notin pool /\ b \notin gone /\ \A u \in Users : b \notin holds[u]

(* registerBuffer: it joins the pool unless the pool is full.  The code    *)
(* does so when it sets the pool up, before anybody acquires.              *)
Register(b) ==
    /\ Quiescent
    /\ Fresh(b)
    /\ Cardinality(pool) < MaxCount
    /\ observed' = observed \cup {b}
    /\ pool' = pool \cup {b}
    /\ UNCHANGED <<running, lock, refs, raw, gone, pc, holds, rel, filled, acqVars>>

Start ==
    /\ pc[Owner] = "idle"
    /\ running' = TRUE
    /\ UNCHANGED <<pool, lock, pc, holds, rel, bufVars, acqVars>>

(* stop() clears mRunning without the lock and then signals.               *)
Stop ==
    /\ pc[Owner] = "idle"
    /\ running' = FALSE
    /\ Goto(Owner, "signal")
    /\ UNCHANGED <<pool, lock, holds, rel, bufVars, acqVars>>

(* Mutant: the buffers that somebody holds are freed with the others.      *)
FreeHeldToo ==
    /\ Quiescent
    /\ pool' = {}
    /\ observed' = observed \ pool
    /\ gone' = gone \cup pool
    /\ raw' = raw \ pool
    /\ UNCHANGED <<running, lock, refs, pc, holds, rel, filled, acqVars>>

(* Mutant: the buffers that leave the pool keep their observer.            *)
KeepObservers ==
    /\ Quiescent
    /\ pool' = {}
    /\ LET idle == {b \in pool : refs[b] = 0} IN
         gone' = gone \cup idle /\ raw' = raw \ idle
    /\ UNCHANGED <<running, lock, refs, observed, pc, holds, rel, filled, acqVars>>

(* releaseAllBuffers: every buffer leaves the pool and forgets it; those   *)
(* that nobody holds are deleted, with their payload.                      *)
ReleaseAllBuffers ==
    /\ Quiescent
    /\ pool' = {}
    /\ observed' = observed \ pool
    /\ LET idle == {b \in pool : refs[b] = 0} IN
         gone' = gone \cup idle /\ raw' = raw \ idle
    /\ UNCHANGED <<running, lock, refs, pc, holds, rel, filled, acqVars>>

-----------------------------------------------------------------------------
(* acquireBuffer.                                                          *)

(* The call.  A blocking caller asks for no size and holds nothing: the    *)
(* decoder thread asks for an output frame, and the deliver thread for an  *)
(* input packet, when it has none.                                         *)
Acquire(u, r, block) ==
    /\ pc[u] = "idle"
    /\ block => r = 0 /\ holds[u] = {}
    /\ want' = [want EXCEPT ![u] = [size |-> r, block |-> block]]
    /\ Goto(u, "lock")
    /\ UNCHANGED <<pool, running, lock, todo, holds, rel, ret, bufVars>>

(* Under the lock, at the call and after each wait: an empty pool is an    *)
(* error, and a pool that does not run falls off the end of the function,  *)
(* so that the caller gets whatever the register holds.                    *)
Enter(u) ==
    /\ pc[u] = "lock"
    /\ lock = Nobody
    /\ IF running /\ pool # {}
         THEN /\ lock' = u
              /\ todo' = [todo EXCEPT ![u] = pool]
              /\ Goto(u, "scan")
              /\ UNCHANGED <<want, ret>>
         ELSE /\ \E r \in Rets :
                    /\ running => r = "RT_ERR_LIST_EMPTY"
                    /\ ReturnFromAcquire(u, r)
              /\ UNCHANGED lock
    /\ UNCHANGED <<pool, running, holds, rel, bufVars>>

Suits(u, b) == refs[b] = 0 /\ Size[b] >= want[u].size

(* The scan looks at one more buffer.  It takes the first that suits, with *)
(* addRefs() and reset() ...  (The array's order matters to no property.)  *)
Take(u, b) ==
    /\ pc[u] = "scan"
    /\ b \in todo[u]
    /\ Suits(u, b)
    /\ refs' = [refs EXCEPT ![b] = @ + 1]
    /\ raw' = raw \ {b}
    /\ holds' = [holds EXCEPT ![u] = @ \cup {b}]
    /\ lock' = Nobody
    /\ ReturnFromAcquire(u, "RT_OK")
    /\ UNCHANGED <<pool, running, observed, gone, rel, filled>>

(* ... and passes over the others.                                         *)
Skip(u, b) ==
    /\ pc[u] = "scan"
    /\ b \in todo[u]
    /\ ~Suits(u, b)
    /\ todo' = [todo EXCEPT ![u] = @ \ {b}]
    /\ UNCHANGED <<pool, running, lock, pc, want, ret, holds, rel, bufVars>>

(* Nothing suits: give up, or wait on mCondition, which gives up the lock. *)
NoneSuits(u) ==
    /\ pc[u] = "scan"
    /\ todo[u] = {}
    /\ lock' = Nobody
    /\ IF want[u].block
         THEN Goto(u, "waiting") /\ UNCHANGED acqVars
         ELSE ReturnFromAcquire(u, "RT_ERR_NULL_PTR")
    /\ UNCHANGED <<pool, running, holds, rel, bufVars>>

-----------------------------------------------------------------------------
(* What the holder of a buffer does.                                       *)

(* The demuxer puts a packet in the buffer: setData with the function that *)
(* frees it, and kKeyPacketPtr.                                            *)
Fill(u, b) ==
    /\ pc[u] = "idle"
    /\ b \in holds[u]
    /\ b \notin filled
    /\ raw' = raw \cup {b}
    /\ filled' = filled \cup {b}
    /\ UNCHANGED <<pool, running, lock, refs, observed, gone, pc, holds, rel, acqVars>>

(* The buffer goes through a packet or frame queue to another thread.      *)
Hand(u, v, b) ==
    /\ pc[u] = "idle"
    /\ b \in holds[u]
    /\ u # v
    /\ holds' = [holds EXCEPT ![u] = @ \ {b}, ![v] = @ \cup {b}]
    /\ UNCHANGED <<pool, running, lock, pc, rel, bufVars, acqVars>>

Release(u, b) ==
    /\ pc[u] = "idle"
    /\ b \in holds[u]
    /\ rel' = [rel EXCEPT ![u] = b]
    /\ filled' = filled \ {b}
    /\ Goto(u, "release")
    /\ UNCHANGED <<pool, running, lock, refs, observed, raw, gone, holds, acqVars>>

(* release() looks at the count; the last reference frees the payload.     *)
FreePayload(u) ==
    LET b == rel[u] IN
    /\ pc[u] = "release"
    /\ IF refs[b] = 0 THEN ReturnFromRelease(u) ELSE Goto(u, "drop") /\ UNCHANGED rel
    /\ raw' = IF refs[b] = 1 THEN raw \ {b} ELSE raw
    /\ UNCHANGED <<pool, running, lock, refs, observed, gone, holds, filled,
                   acqVars>>

(* __sync_fetch_and_sub: from here a scan may take the buffer again.       *)
DropRef(u) ==
    LET b == rel[u] IN
    /\ pc[u] = "drop"
    /\ refs' = [refs EXCEPT ![b] = @ - 1]
    /\ holds' = [holds EXCEPT ![u] = @ \ {b}]
    /\ IF refs[b] = 1 THEN Goto(u, "observer") /\ UNCHANGED rel ELSE ReturnFromRelease(u)
    /\ UNCHANGED <<pool, running, lock, observed, raw, gone, filled, acqVars>>

(* Mutant: a buffer whose pool is gone is not deleted.                     *)
NeverDelete(u) ==
    LET b == rel[u] IN
    /\ pc[u] = "observer"
    /\ IF b \in observed
         THEN Goto(u, "signal") /\ UNCHANGED rel
         ELSE ReturnFromRelease(u)
    /\ UNCHANGED <<pool, running, lock, refs, observed, raw, gone, holds, filled,
                   acqVars>>

(* Mutant: the pool is not told.                                           *)
QuietReturn(u) ==
    LET b == rel[u] IN
    /\ pc[u] = "observer"
    /\ ReturnFromRelease(u)
    /\ gone' = IF b \in observed THEN gone ELSE gone \cup {b}
    /\ UNCHANGED <<pool, running, lock, refs, observed, raw, holds, filled, acqVars>>

(* A buffer whose pool is gone is deleted; else the pool is told.          *)
TellObserver(u) ==
    LET b == rel[u] IN
    /\ pc[u] = "observer"
    /\ IF b \in observed
         THEN Goto(u, "signal") /\ UNCHANGED <<gone, rel>>
         ELSE ReturnFromRelease(u) /\ gone' = gone \cup {b}
    /\ UNCHANGED <<pool, running, lock, refs, observed, raw, holds, filled, acqVars>>

Waiting == {u \in Users : pc[u] = "waiting"}

(* signalBufferReturned, for stop() too: under the lock, wake one waiter.  *)
SignalBufferReturned(t) ==
    /\ pc[t] = "signal"
    /\ lock = Nobody
    /\ IF Waiting = {}
         THEN Goto(t, "idle")
         ELSE \E w \in Waiting : pc' = [pc EXCEPT ![t] = "idle", ![w] = "lock"]
    /\ rel' = [rel EXCEPT ![t] = NoBuffer]
    /\ UNCHANGED <<pool, running, lock, holds, bufVars, acqVars>>

-----------------------------------------------------------------------------
OwnerCall == (\E b \in Buffers : Register(b)) \/ Start \/ Stop \/ ReleaseAllBuffers

AcquireCall(u) ==
    \/ Acquire(u, 0, TRUE)
    \/ \E r \in Requests : Acquire(u, r, FALSE)

HolderCall(u) ==
    \E b \in Buffers :
        \/ Fill(u, b)
        \/ Release(u, b)
        \/ u \in Acquirers /\ \E v \in Consumers : Hand(u, v, b)

(* What a thread does to finish the call it is in.                         *)
AcquireStep(u) ==
    \/ Enter(u)
    \/ \E b \in Buffers : Take(u, b) \/ Skip(u, b)
    \/ NoneSuits(u)
ReleaseStep(u) == FreePayload(u) \/ DropRef(u) \/ TellObserver(u)

Next ==
    \/ OwnerCall
    \/ \E u \in Acquirers : AcquireCall(u) \/ AcquireStep(u)
    \/ \E u \in Users : HolderCall(u) \/ ReleaseStep(u)
    \/ \E t \in Threads : SignalBufferReturned(t)

Spec == Init /\ [][Next]_vars

(* A thread inside a call is scheduled until it is out of it.              *)
Scheduled ==
    /\ \A u \in Acquirers : WF_vars(AcquireStep(u))
    /\ \A u \in Users : WF_vars(ReleaseStep(u))
    /\ \A t \in Threads : WF_vars(SignalBufferReturned(t))

(* What the liveness of acquireBuffer rests on: the threads that get the   *)
(* buffers release them in the end, as the deliver thread and sinks do.    *)
Generous == \A u \in Consumers : WF_vars(\E b \in Buffers : Release(u, b))

FairSpec == Spec /\ Scheduled

-----------------------------------------------------------------------------
(* Every variable has its type.                                            *)
TypeOK ==
    /\ pool \subseteq Buffers
    /\ running \in BOOLEAN
    /\ lock \in Users \cup {Nobody}
    /\ refs \in [Buffers -> Nat]
    /\ observed \subseteq Buffers
    /\ raw \subseteq Buffers
    /\ gone \subseteq Buffers
    /\ pc \in [Threads -> {"idle", "lock", "scan", "waiting", "release", "drop",
                           "observer", "signal"}]
    /\ want \in [Users -> [size : Nat, block : BOOLEAN]]
    /\ todo \in [Users -> SUBSET Buffers]
    /\ holds \in [Users -> SUBSET Buffers]
    /\ rel \in [Threads -> Buffers \cup {NoBuffer}]
    /\ ret \in Rets
    /\ filled \subseteq Buffers

(* A buffer is lent to one user at a time, and its count says so: nobody   *)
(* can be given a buffer that another thread still reads or writes.        *)
LentOnce ==
    /\ \A u, v \in Users : u # v => holds[u] \cap holds[v] = {}
    /\ \A b \in Buffers : refs[b] = 0 <=> \A u \in Users : b \notin holds[u]

(* A payload lives as long as the holder that set it relies on it: the     *)
(* release of the previous holder never frees it.                          *)
PayloadLives == filled \subseteq raw

(* No payload is left in a buffer that nobody holds: reset() would forget  *)
(* it without freeing it.                                                  *)
PayloadFreed == \A b \in raw : refs[b] > 0

(* Nobody holds, releases or finds in the pool a buffer that was deleted.  *)
NotUsedAfterFree ==
    /\ pool \cap gone = {}
    /\ \A u \in Users :
          /\ holds[u] \cap gone = {}
          /\ pc[u] \in {"release", "drop", "observer"} => rel[u] \notin gone

(* What the users of a buffer rely on, in every order of the calls.        *)
BuffersKept == LentOnce /\ PayloadLives /\ PayloadFreed /\ NotUsedAfterFree

(* A buffer that is in no pool any more and that nobody holds or releases  *)
(* has been deleted: closing the pool while buffers are lent leaks none.   *)
Abandoned(b) ==
    /\ b \notin pool \cup gone
    /\ \A u \in Users : /\ b \notin holds[u]
                        /\ pc[u] = "observer" => rel[u] # b
NoLeak == [][\A b \in Buffers : Abandoned(b)' => Abandoned(b)]_vars

(* The decoder has one thread waiting on each of its pools.                *)
OneAcquirer == \A u, v \in Acquirers : u = v

(* With one acquirer no wake-up is lost: while it waits and a buffer of    *)
(* the pool is free, some thread is about to signal.                       *)
NoLostWakeup ==
    \A u \in Waiting : \A b \in pool :
        Suits(u, b) => \E t \in Threads : pc[t] \in {"observer", "signal"}

(* stop() ends the wait of acquireBuffer, whoever holds the buffers.       *)
StopEndsWait ==
    \A u \in Acquirers :
        ~running /\ pc[u] = "waiting" ~> running \/ pc[u] # "waiting"

(* acquireBuffer returns: when the pool is stopped, and when the holders   *)
(* release what they hold, unless the owner keeps stopping the pool, whose *)
(* signals then compete with those of the holders for the lock.            *)
AcquireReturns ==
    /\ StopEndsWait
    /\ Generous /\ <>[](pc[Owner] = "idle")
           => \A u \in Acquirers :
                  pc[u] \in {"lock", "scan", "waiting"} ~> pc[u] = "idle"

(* The pool lends: a buffer belongs to who holds it, to the pool when      *)
(* nobody does, and is gone when it was deleted or is about to be.         *)
OwnerOf(b) ==
    IF \E u \in Users : b \in holds[u] THEN CHOOSE u \in Users : b \in holds[u]
    ELSE IF b \in pool THEN Free
    ELSE IF b \in gone \/ \E u \in Users : pc[u] = "observer" /\ rel[u] = b THEN Gone
    ELSE Unborn

Lent == INSTANCE Lending WITH
    Items     <- Buffers,
    Borrowers <- Users,
    owner     <- [b \in Buffers |-> OwnerOf(b)]

ImplementsLending == Lent!LSpec
=============================================================================
