-------------------------------- MODULE Demuxer --------------------------------
(***************************************************************************)
(* FFNodeDemuxer and its packet cache, RTPktSourceLocal.  The node's own   *)
(* thread reads packets from the stream into one cache per track, until    *)
(* the cache is full or the stream ends; the player's looper thread sends  *)
(* it commands over the node bus; the player's deliver thread pulls the    *)
(* packets of one track.                                                   *)
(*                                                                         *)
(* Only the caches are behind a lock (mQueueLock).  mNodeState, mEosFlag,  *)
(* mNeedSeek and mSeekTimeUs are plain fields that all three threads use,  *)
(* so that each access to them which another thread can tell from the next *)
(* is an action of its own.                                                *)
(***************************************************************************)
EXTENDS Integers, Sequences, FiniteSets

CONSTANTS
    Audio,       \* the track that the deliver thread pulls
    Video,       \* the other one that has a cache
    Tracks,      \* the tracks of the stream that have an index
    Stream,      \* Stream[p]: the track of the packet at position p
    Durations,   \* Durations[p]: its mDuration, which may be 0
    Sizes,       \* Sizes[p]: its mSize
    Targets,     \* the positions that a seek goes to
    MaxDuration, \* mHighWaterCacheDuration
    MaxCount,    \* mHighWaterCacheCount, which is also the deque's size
    MaxSize,     \* mMaxCacheSize
    ErrLimit,    \* how many read errors are tolerated, 5 in the code
    MaxCmds      \* bound on the number of commands

Positions == 1..Len(Stream)
Null      == 0     \* the packet without data that stands for the end

ASSUME DemuxerAssumption ==
    /\ Audio # Video
    /\ Audio \in Tracks /\ Tracks \subseteq {Audio, Video}
    /\ Stream \in Seq(Tracks)
    /\ Durations \in [Positions -> Nat] /\ Sizes \in [Positions -> Nat]
    /\ Targets \subseteq Positions /\ 1 \in Targets
    /\ MaxDuration \in Nat \ {0}
    /\ MaxCount \in Nat \ {0}
    /\ MaxSize \in Nat \ {0}
    /\ ErrLimit \in Nat /\ MaxCmds \in Nat

VARIABLES
    cache,   \* cache[t]: mVideoPktQ or mAudioPktQ
    next,    \* the position of the next packet of the stream
    node,    \* mNodeState
    eos,     \* mEosFlag
    need,    \* mNeedSeek
    target,  \* mSeekTimeUs
    open,    \* mFormatCtx is open
    tpc,     \* where the demuxer's thread is in runTask()
    tstate,  \* its ThreadState
    held,    \* the packet it has read and not queued
    errs,    \* err_cnt
    phase,   \* the player's state
    todo,    \* what is left of the command the looper thread executes
    arg,     \* the target of its seek
    seeked,  \* where RT_MEDIA_SEEK_COMPLETE is in the player's queue
    dpc,     \* where the deliver thread is in pullBuffer()
    taken,   \* taken[t]: the last position of t that was pulled or flushed
    missed,  \* missed[t]: what a full deque of t refused since the last flush
    aimed,   \* the target of the last fa_format_seek_to()
    torn,    \* onSeek() and the thread's seek have interleaved
    ended,   \* the end has been pulled since the last flush
    sent     \* how many commands were sent

streamVars == <<next, open, held, errs>>
flagVars   == <<node, eos, need, target>>
playVars   == <<phase, todo, arg, seeked, sent>>
ghosts     == <<taken, missed, aimed, torn, ended>>
vars == <<cache, next, node, eos, need, target, open, tpc, tstate, held, errs,
          phase, todo, arg, seeked, dpc, taken, missed, aimed, torn, ended, sent>>

(* The constructor and init(): the stream is open at its first packet.     *)
Init ==
    /\ cache = [t \in Tracks |-> << >>]
    /\ next = 1
    /\ node = "IDLE"
    /\ eos = FALSE /\ need = FALSE /\ target = 1
    /\ open = TRUE
    /\ tpc = "none" /\ tstate = "IDLE"
    /\ held = Null /\ errs = 0
    /\ phase = "INITIALIZED" /\ todo = << >> /\ arg = 1 /\ seeked = "no"
    /\ dpc = "idle"
    /\ taken = [t \in Tracks |-> 0]
    /\ missed = [t \in Tracks |-> {}]
    /\ aimed = 1
    /\ torn = FALSE /\ ended = FALSE
    /\ sent = 0

-----------------------------------------------------------------------------
(* The packet cache.                                                       *)

(* What the packets of a queue amount to, the one without data to nothing. *)
Amount(of, p) == IF p = Null THEN 0 ELSE of[p]
Total(of, q) ==
    LET upTo[n \in 0..Len(q)] == IF n = 0 THEN 0 ELSE upTo[n - 1] + Amount(of, q[n])
    IN  upTo[Len(q)]

Duration(t) == Total(Durations, cache[t])
Bytes(t)    == IF t \in Tracks THEN Total(Sizes, cache[t]) ELSE 0
CacheSize   == Bytes(Video) + Bytes(Audio)

(* What dequeueUnusedPacket() finds full.  A deque is never longer than    *)
(* MaxCount, so that the third test of its length never stops the thread.  *)
Full ==
    \/ CacheSize >= MaxSize
    \/ \E t \in Tracks : Duration(t) >= MaxDuration \/ Len(cache[t]) > MaxCount

(* deque_push(): a full deque takes no packet, and nobody looks.           *)
HasRoom(q)    == Len(q) < MaxCount
Pushed(q, p)  == IF HasRoom(q) THEN Append(q, p) ELSE q
Refused(q, p) == IF HasRoom(q) THEN {} ELSE {p}

(* Everything before Front has been read and queued.                       *)
Front == IF tpc = "queue" THEN held ELSE next

(* flush(): what was queued is dropped.                                    *)
Flush ==
    /\ cache' = [t \in Tracks |-> << >>]
    /\ taken' = [t \in Tracks |-> Front - 1]
    /\ missed' = [t \in Tracks |-> {}]
    /\ ended' = FALSE

-----------------------------------------------------------------------------
(* The player's commands, on its looper thread.                            *)

CanCall(phases) == todo = << >> /\ sent < MaxCmds /\ phase \in phases

(* Applications send one command at a time, so that at most one is handled *)
(* between a seek and its RT_MEDIA_SEEK_COMPLETE.                          *)
Command(phases) ==
    /\ CanCall(phases)
    /\ seeked # "next"
    /\ seeked' = IF seeked = "behind" THEN "next" ELSE seeked
    /\ sent' = sent + 1

DemuxerAlone == UNCHANGED <<next, open, held, errs, tpc, dpc>>

OnStart ==
    IF node \in {"IDLE", "PAUSED"}
      THEN node' = "STARTED" /\ eos' = FALSE
      ELSE UNCHANGED <<node, eos>>

OnPause == node' = IF node \in {"IDLE", "STARTED"} THEN "PAUSED" ELSE node

(* prepare(): the demuxer's thread is created.                             *)
Prepare ==
    /\ Command({"INITIALIZED", "STOPPED"})
    /\ tpc' = "born" /\ errs' = 0
    /\ phase' = "PREPARED"
    /\ UNCHANGED <<cache, next, open, held, tstate, dpc, todo, arg, flagVars,
                   ghosts>>

Start ==
    /\ Command({"PREPARED", "PAUSED", "COMPLETE"})
    /\ OnStart
    /\ phase' = "STARTED"
    /\ UNCHANGED <<cache, need, target, tstate, todo, arg, ghosts>>
    /\ DemuxerAlone

Pause ==
    /\ Command({"STARTED"})
    /\ OnPause
    /\ phase' = "PAUSED"
    /\ UNCHANGED <<cache, eos, need, target, tstate, todo, arg, ghosts>>
    /\ DemuxerAlone

(* The sink has rendered the end, or has had no data for two seconds.      *)
Complete ==
    /\ CanCall({"STARTED", "PAUSED", "COMPLETE"})
    /\ phase' = "COMPLETE"
    /\ sent' = sent + 1
    /\ UNCHANGED <<cache, tstate, todo, arg, seeked, flagVars, ghosts>>
    /\ DemuxerAlone

(* onSeekTo(): PAUSE, FLUSH, SEEK and START of the node.                   *)
Seek(x) ==
    /\ CanCall({"PREPARED", "STARTED", "PAUSED", "COMPLETE"})
    /\ seeked = "no"
    /\ OnPause
    /\ phase' = "PAUSED"
    /\ todo' = <<"flush", "need", "target", "state", "start">>
    /\ arg' = x
    /\ sent' = sent + 1
    /\ UNCHANGED <<cache, eos, need, target, tstate, seeked, ghosts>>
    /\ DemuxerAlone

Step(s) == todo # << >> /\ Head(todo) = s /\ todo' = Tail(todo)

OnFlush ==
    /\ Step("flush")
    /\ Flush
    /\ UNCHANGED <<tstate, phase, arg, seeked, sent, flagVars, aimed, torn>>
    /\ DemuxerAlone

(* Where the thread is while it does a seek that it will clear mNeedSeek   *)
(* for.                                                                    *)
Seeking == tpc \in {"seek", "seekflush", "seekdone"}

(* onSeek() sets mNeedSeek before it says where to ...                     *)
SeekNeed ==
    /\ Step("need")
    /\ need' = TRUE
    /\ torn' = Seeking
    /\ UNCHANGED <<cache, node, eos, target, tstate, phase, arg, seeked, sent,
                   taken, missed, aimed, ended>>
    /\ DemuxerAlone

SeekTarget ==
    /\ Step("target")
    /\ target' = arg
    /\ UNCHANGED <<cache, node, eos, need, tstate, phase, arg, seeked, sent,
                   ghosts>>
    /\ DemuxerAlone

(* ... and the state comes last.                                           *)
SeekState ==
    /\ Step("state")
    /\ node' = "SEEKING"
    /\ UNCHANGED <<cache, eos, need, target, tstate, phase, arg, seeked, sent,
                   ghosts>>
    /\ DemuxerAlone

SeekStart ==
    /\ Step("start")
    /\ OnStart
    /\ seeked' = "behind"
    /\ UNCHANGED <<cache, need, target, tstate, phase, arg, sent, ghosts>>
    /\ DemuxerAlone

(* RT_MEDIA_SEEK_COMPLETE.                                                 *)
SeekComplete ==
    /\ todo = << >>
    /\ seeked # "no"
    /\ seeked' = "no"
    /\ phase' = "STARTED"
    /\ UNCHANGED <<cache, tstate, todo, arg, sent, flagVars, ghosts>>
    /\ DemuxerAlone

(* stop(): the thread is told to exit (twice, join() does it again) and    *)
(* joined.  mSource->stop() has nobody to wake: nobody waits for room.     *)
Stop ==
    /\ CanCall({"PREPARED", "STARTED", "PAUSED", "COMPLETE"})
    /\ IF phase = "STARTED"
         THEN OnPause /\ phase' = "PAUSED"
         ELSE UNCHANGED <<node, phase>>
    /\ todo' = <<"interrupt", "interrupt", "join">>
    /\ seeked # "next" /\ seeked' = "no"
    /\ sent' = sent + 1
    /\ UNCHANGED <<cache, eos, need, target, tstate, arg, ghosts>>
    /\ DemuxerAlone

Interrupt ==
    /\ Step("interrupt")
    /\ tstate' = "EXIT"
    /\ UNCHANGED <<cache, phase, arg, seeked, sent, flagVars, ghosts>>
    /\ DemuxerAlone

(* The thread has ended; the next one will begin with a seek to the start. *)
Join ==
    /\ Step("join")
    /\ tpc = "exited"
    /\ tpc' = "none" /\ tstate' = "IDLE"
    /\ need' = TRUE /\ target' = 1
    /\ torn' = FALSE
    /\ Flush
    /\ phase' = "STOPPED"
    /\ UNCHANGED <<node, eos, dpc, arg, seeked, sent, aimed, streamVars>>

(* reset() of a stopped player, once the deliver thread has been joined:   *)
(* the stream is closed and the node deleted.                              *)
Reset ==
    /\ Command({"INITIALIZED", "STOPPED"})
    /\ dpc = "idle"
    /\ Flush
    /\ open' = FALSE
    /\ phase' = "IDLE"
    /\ UNCHANGED <<next, held, errs, tpc, tstate, dpc, todo, arg,
                   aimed, torn, flagVars>>

-----------------------------------------------------------------------------
(* The demuxer's thread: runTask().                                        *)

At(l)     == tpc = l
GoTo(l)   == tpc' = l
ThreadOnly == UNCHANGED <<phase, todo, arg, seeked, sent, dpc>>

(* thread_looping() reads the thread's state ...                           *)
Born ==
    /\ At("born")
    /\ GoTo(IF tstate = "IDLE" THEN "setloop" ELSE "top")
    /\ UNCHANGED <<cache, tstate, streamVars, flagVars, ghosts>> /\ ThreadOnly

(* ... and writes it, whatever it has become in between.                   *)
SetLoop ==
    /\ At("setloop")
    /\ tstate' = "LOOP"
    /\ GoTo("top")
    /\ UNCHANGED <<cache, streamVars, flagVars, ghosts>> /\ ThreadOnly

Top ==
    /\ At("top")
    /\ GoTo(IF tstate = "LOOP" THEN "need" ELSE "exited")
    /\ UNCHANGED <<cache, tstate, streamVars, flagVars, ghosts>> /\ ThreadOnly

(* A seek is wanted: maybe one that onSeek() has not wholly written.       *)
TakeSeek ==
    /\ At("need")
    /\ GoTo(IF need THEN "seek" ELSE "fetch")
    /\ torn' = (torn \/ (need /\ todo # << >> /\ Head(todo) \in {"target", "state"}))
    /\ UNCHANGED <<cache, tstate, streamVars, flagVars, taken, missed, aimed,
                   ended>>
    /\ ThreadOnly

(* Mutant: the thread goes to the start whatever the target.               *)
SeekToStart ==
    /\ At("seek")
    /\ next' = 1 /\ aimed' = 1
    /\ GoTo("seekflush")
    /\ UNCHANGED <<cache, open, held, errs, tstate, flagVars, taken, missed,
                   torn, ended>>
    /\ ThreadOnly

SeekStream ==
    /\ At("seek")
    /\ next' = target /\ aimed' = target
    /\ GoTo("seekflush")
    /\ UNCHANGED <<cache, open, held, errs, tstate, flagVars, taken, missed,
                   torn, ended>>
    /\ ThreadOnly

(* Mutant: the thread does not flush after it has moved.                   *)
SeekNoFlush ==
    /\ At("seekflush")
    /\ GoTo("seekdone")
    /\ taken' = [t \in Tracks |-> Front - 1]
    /\ UNCHANGED <<cache, missed, ended, tstate, streamVars, flagVars, aimed,
                   torn>>
    /\ ThreadOnly

SeekFlush ==
    /\ At("seekflush")
    /\ Flush
    /\ GoTo("seekdone")
    /\ UNCHANGED <<tstate, streamVars, flagVars, aimed, torn>> /\ ThreadOnly

SeekDone ==
    /\ At("seekdone")
    /\ eos' = FALSE /\ need' = FALSE
    /\ GoTo("seekstate")
    /\ UNCHANGED <<cache, node, target, tstate, streamVars, ghosts>> /\ ThreadOnly

SeekStarted ==
    /\ At("seekstate")
    /\ node' = "STARTED"
    /\ GoTo("fetch")
    /\ UNCHANGED <<cache, eos, need, target, tstate, streamVars, ghosts>>
    /\ ThreadOnly

(* Mutant: the thread waits until there is room.                           *)
FetchBlocking ==
    /\ At("fetch")
    /\ ~Full
    /\ GoTo(IF eos THEN "top" ELSE "read")
    /\ UNCHANGED <<cache, tstate, streamVars, flagVars, ghosts>> /\ ThreadOnly

(* Unless the end was reached or the cache is full, a packet is read.      *)
Fetch ==
    /\ At("fetch")
    /\ GoTo(IF eos \/ Full THEN "top" ELSE "read")
    /\ UNCHANGED <<cache, tstate, streamVars, flagVars, ghosts>> /\ ThreadOnly

(* av_read_frame() fails ...                                               *)
ReadError ==
    /\ At("read")
    /\ errs <= ErrLimit
    /\ errs' = errs + 1
    /\ GoTo("top")
    /\ UNCHANGED <<cache, tstate, next, open, held, flagVars, ghosts>>
    /\ ThreadOnly

(* ... or the stream is at its end, or has failed too often: what is still *)
(* read then is forgotten ...                                              *)
ReadEnd ==
    /\ At("read")
    /\ next > Len(Stream) \/ errs > ErrLimit
    /\ next' \in {next, next + 1} /\ next' <= Len(Stream) + 1
    /\ eos' = TRUE
    /\ GoTo("null")
    /\ UNCHANGED <<cache, tstate, open, held, errs, node, need, target,
                   ghosts>>
    /\ ThreadOnly

(* ... or gives a packet.                                                  *)
ReadPacket ==
    /\ At("read")
    /\ next <= Len(Stream) /\ errs <= ErrLimit
    /\ held' = next /\ next' = next + 1 /\ errs' = 0
    /\ GoTo("queue")
    /\ UNCHANGED <<cache, tstate, open, flagVars, ghosts>>
    /\ ThreadOnly

(* runTask() does not look whether the packet was taken.                   *)
Queue ==
    /\ At("queue")
    /\ LET t == Stream[held] IN
         /\ cache' = [cache EXCEPT ![t] = Pushed(@, held)]
         /\ missed' = [missed EXCEPT ![t] = @ \cup Refused(cache[t], held)]
    /\ GoTo("top")
    /\ UNCHANGED <<taken, aimed, torn, ended, tstate, streamVars, flagVars>>
    /\ ThreadOnly

(* Mutant: the end is queued only for a track without packets left.        *)
QueueNullIfEmpty ==
    /\ At("null")
    /\ cache' = [t \in Tracks |->
                   IF cache[t] = << >> THEN Pushed(cache[t], Null) ELSE cache[t]]
    /\ GoTo("top")
    /\ UNCHANGED <<tstate, streamVars, flagVars, ghosts>> /\ ThreadOnly

(* Every track gets a packet that stands for the end, if it has room.      *)
QueueNull ==
    /\ At("null")
    /\ cache' = [t \in Tracks |-> Pushed(cache[t], Null)]
    /\ missed' = [t \in Tracks |-> missed[t] \cup Refused(cache[t], Null)]
    /\ GoTo("top")
    /\ UNCHANGED <<taken, aimed, torn, ended, tstate, streamVars, flagVars>>
    /\ ThreadOnly

-----------------------------------------------------------------------------
(* The deliver thread: pullBuffer(), whenever the player is STARTED.       *)

DeliverOnly == UNCHANGED <<node, eos, need, target, tpc, tstate, missed,
                           aimed, torn, streamVars, playVars>>

Pull ==
    /\ dpc = "idle"
    /\ phase = "STARTED"
    /\ dpc' = "pull"
    /\ UNCHANGED <<cache, taken, ended>> /\ DeliverOnly

PullState ==
    /\ dpc = "pull"
    /\ dpc' = IF node = "STARTED" THEN "take" ELSE "idle"
    /\ UNCHANGED <<cache, taken, ended>> /\ DeliverOnly

(* dequeuePacket(): nothing, a packet, or the end.                         *)
PullTake ==
    /\ dpc = "take"
    /\ IF cache[Audio] = << >>
         THEN dpc' = "idle" /\ UNCHANGED <<cache, taken>>
         ELSE /\ cache' = [cache EXCEPT ![Audio] = Tail(@)]
              /\ LET p == Head(cache[Audio]) IN
                   IF p = Null
                     THEN dpc' = "null" /\ UNCHANGED taken
                     ELSE dpc' = "idle" /\ taken' = [taken EXCEPT ![Audio] = p]
    /\ UNCHANGED ended /\ DeliverOnly

(* The end counts only while mEosFlag is set.                              *)
PullNull ==
    /\ dpc = "null"
    /\ dpc' = "idle"
    /\ ended' = (ended \/ eos)
    /\ UNCHANGED <<cache, taken>> /\ DeliverOnly

-----------------------------------------------------------------------------
PlayerCall ==
    \/ Prepare \/ Start \/ Pause \/ Complete \/ Stop \/ Reset
    \/ \E x \in Targets : Seek(x)

PlayerStep ==
    \/ OnFlush \/ SeekNeed \/ SeekTarget \/ SeekState \/ SeekStart
    \/ SeekComplete \/ Interrupt \/ Join

ThreadStep ==
    \/ Born \/ SetLoop \/ Top
    \/ TakeSeek \/ SeekStream \/ SeekFlush \/ SeekDone \/ SeekStarted
    \/ Fetch \/ ReadError \/ ReadEnd \/ ReadPacket \/ Queue \/ QueueNull

DeliverStep == Pull \/ PullState \/ PullTake \/ PullNull

Next == PlayerCall \/ PlayerStep \/ ThreadStep \/ DeliverStep

Spec == Init /\ [][Next]_vars

(* The three threads are scheduled; the application need not call.         *)
FairSpec == Spec /\ WF_vars(PlayerStep) /\ WF_vars(ThreadStep) /\ WF_vars(DeliverStep)

-----------------------------------------------------------------------------
(* Every variable has its type.                                            *)
TypeOK ==
    /\ cache \in [Tracks -> Seq({Null} \cup Positions)]
    /\ next \in 1..(Len(Stream) + 1)
    /\ node \in {"IDLE", "SEEKING", "PAUSED", "STARTED"}
    /\ eos \in BOOLEAN /\ need \in BOOLEAN /\ open \in BOOLEAN
    /\ target \in Targets /\ arg \in Targets /\ aimed \in Targets
    /\ tpc \in {"none", "born", "setloop", "top", "need", "seek", "seekflush",
                "seekdone", "seekstate", "fetch", "read", "queue", "null",
                "exited"}
    /\ tstate \in {"IDLE", "LOOP", "EXIT"}
    /\ held \in {Null} \cup Positions
    /\ errs \in 0..(ErrLimit + 1)
    /\ phase \in {"INITIALIZED", "PREPARED", "STARTED", "PAUSED", "STOPPED",
                  "COMPLETE", "IDLE"}
    /\ todo \in Seq({"flush", "need", "target", "state", "start", "interrupt",
                     "join"})
    /\ seeked \in {"no", "behind", "next"}
    /\ dpc \in {"idle", "pull", "take", "null"}
    /\ taken \in [Tracks -> 0..Len(Stream)]
    /\ missed \in [Tracks -> SUBSET ({Null} \cup Positions)]
    /\ torn \in BOOLEAN /\ ended \in BOOLEAN
    /\ sent \in 0..MaxCmds

(* What a track's cache should hold.                                       *)
DataAt(t) == {i \in DOMAIN cache[t] : cache[t][i] # Null}
Due(t)    == {p \in Positions : Stream[p] = t /\ taken[t] < p /\ p < Front}

(* What is cached of a track is, in order, what was read and not yet       *)
(* pulled or flushed, but for the packets that found the deque full:       *)
(* nothing else is lost, and nothing repeated or kept from before a seek,  *)
(* whichever thread flushes.                                               *)
CacheInOrder ==
    errs <= ErrLimit /\ tpc # "seekflush" =>
        \A t \in Tracks :
            /\ \A i, j \in DataAt(t) : i < j => cache[t][i] < cache[t][j]
            /\ {cache[t][i] : i \in DataAt(t)} = Due(t) \ missed[t]

(* Some packet of the stream that a cache's amount may pass its limit by,  *)
(* which it does by less than that one.                                    *)
PassedBy(of, total, max) ==
    \E p \in {Null} \cup Positions : total < max + Amount(of, p)

(* Room is tested without the lock and before the packet is read: the      *)
(* limits of size and duration are passed, by less than one packet in all. *)
CacheBounded ==
    /\ PassedBy(Sizes, CacheSize, MaxSize)
    /\ \A t \in Tracks :
         PassedBy(Durations, Duration(t), MaxDuration) /\ Len(cache[t]) <= MaxCount

(* The caches of a stream that is read, pulled and flushed by three        *)
(* threads.                                                                *)
CacheKept == CacheInOrder /\ CacheBounded

(* onSeek() has begun and not ended.                                       *)
InSeek == todo # << >> /\ Head(todo) \in {"target", "state"}

(* Unless its fields were written while the thread used them, a seek is    *)
(* never forgotten: the thread still has to do it, or has done it to the   *)
(* target that was asked for, and the node is out of NODE_STATE_SEEKING.   *)
SeekServed ==
    ~torn /\ ~need /\ ~InSeek /\ ~Seeking /\ tpc # "seekstate" =>
        aimed = target /\ node # "SEEKING"

(* The thread uses the stream only while it is open.                       *)
OpenWhileRead == tpc \notin {"none", "exited"} => open

(* stop() returns, wherever it meets the demuxer's thread, unless that     *)
(* overwrites its interruption as it begins.                               *)
CommandReturns ==
    \/ <>(todo # << >> /\ Head(todo) = "join" /\ tpc = "setloop")
    \/ todo # << >> ~> todo = << >>

(* A player left alone in STARTED comes to the end of the stream, and does *)
(* not lose it when a pause or a seek clears mEosFlag meanwhile, unless    *)
(* the end itself found the deque full.                                    *)
EndReached ==
    <>[](phase = "STARTED" /\ todo = << >> /\ ~torn /\ Null \notin missed[Audio])
        => <>[]ended

(* runTask() says that the demuxer may fail to queue a packet "when pause  *)
(* and stop player": while the player plays on, there is room again.       *)
RoomWhilePlaying ==
    <>[](phase = "STARTED" /\ todo = << >> /\ ~torn) => []<>~Full
=============================================================================
