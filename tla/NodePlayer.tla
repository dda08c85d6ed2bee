------------------------------ MODULE NodePlayer ------------------------------
(***************************************************************************)
(* RTNDKMediaPlayer and RTNDKNodePlayer: applications send commands, one   *)
(* at a time because of mCmdLock, to a looper whose thread runs the player *)
(* state machine; the deliver thread moves frames while the player is      *)
(* STARTED, and the audio sink's thread posts the end of the playback.     *)
(*                                                                         *)
(* The looper is the FIFO mailbox that MsgLooper implements.  A handler is *)
(* one action where no other thread can tell its steps apart, and several  *)
(* (hpc) where it joins a thread or reads what another thread writes.      *)
(***************************************************************************)
EXTENDS Integers, Sequences, FiniteSets

CONSTANTS
    Apps,        \* the application's threads
    Player,      \* the sender of the messages nobody waits for
    Targets,     \* the positions an application seeks to
    Frames,      \* the time stamps of the frames
    Margin,      \* the mini seek margin, 500 ms in the code
    HasListener, \* setListener() was called
    MaxCmds,     \* bound on the number of commands
    MaxEnds      \* bound on the number of ends of the stream

ASSUME PlayerAssumption ==
    /\ Player \notin Apps
    /\ Targets \subseteq Nat /\ 0 \in Targets
    /\ Frames \subseteq Nat
    /\ Margin \in Nat \ {0}
    /\ HasListener \in BOOLEAN
    /\ MaxCmds \in Nat /\ MaxEnds \in Nat

VARIABLES
    state,   \* mState
    queue,   \* the looper's messages, oldest first
    cur,     \* the message the looper thread handles
    hpc,     \* where it is in the handler
    apc,     \* which applications wait for the answer to a command
    want,    \* mWantSeekTimeUs
    save,    \* mSaveSeekTimeUs
    flag,    \* mSeekFlag
    pos,     \* mCurTimeUs
    looping, \* mLooping
    nodes,   \* the bus has nodes
    sink,    \* the audio sink and its thread
    dpc,     \* where the deliver thread is
    dstate,  \* its ThreadState
    sent,    \* how many commands were sent
    ends,    \* how many ends of the stream were posted
    played,  \* where the playback really is
    dropped  \* a seek was skipped although its target was far from there

seekVars  == <<want, save, flag>>
deliVars  == <<dpc, dstate>>
vars == <<state, queue, cur, hpc, apc, want, save, flag, pos, looping, nodes,
          sink, dpc, dstate, sent, ends, played, dropped>>

States   == {"IDLE", "INITIALIZED", "PREPARED", "STARTED", "PAUSED",
             "STOPPED", "COMPLETE"}
Commands == {"SET_DATASOURCE", "PREPARE", "START", "PAUSE", "STOP", "RESET",
             "SEEKTO"}
Events   == {"INFO", "ERROR", "PLAYBACK_COMPLETE", "SEEK_ASYNC",
             "SEEK_COMPLETE"}
Messages == [what : Commands \cup Events, arg : Targets,
             from : Apps \cup {Player}]

(* A message without a position; INFO is any event the player only tells   *)
(* its listener: PREPARED, STARTED, PAUSED, STOPPED.                       *)
Msg(w, from) == [what |-> w, arg |-> 0, from |-> from]
Event(w)     == Msg(w, Player)

(* The constructor: the context is zeroed, so a seek to 0 is wanted.       *)
Init ==
    /\ state = "IDLE"
    /\ queue = << >>
    /\ cur = Event("INFO")
    /\ hpc = "idle"
    /\ apc = [t \in Apps |-> "idle"]
    /\ want = 0 /\ save = 0 /\ flag = "NO"
    /\ pos = 0
    /\ looping = FALSE
    /\ nodes = FALSE
    /\ sink = "none"
    /\ dpc = "none" /\ dstate = "IDLE"
    /\ sent = 0 /\ ends = 0
    /\ played = 0
    /\ dropped = FALSE

-----------------------------------------------------------------------------
(* The application: RTNDKMediaPlayer.                                      *)

AppUnchanged == UNCHANGED <<state, cur, hpc, want, save, flag, pos, nodes,
                            sink, dpc, dstate, ends, played, dropped>>

LockFree == \A u \in Apps : apc[u] = "idle"

(* A command holds mCmdLock from before its send() until it is handled.    *)
Command(t, w, x) ==
    /\ LockFree
    /\ sent < MaxCmds
    /\ queue' = Append(queue, [what |-> w, arg |-> x, from |-> t])
    /\ apc' = [apc EXCEPT ![t] = "waiting"]
    /\ sent' = sent + 1
    /\ UNCHANGED looping /\ AppUnchanged

(* prepareAsync() posts, and returns at once.                              *)
PrepareAsync ==
    /\ LockFree
    /\ sent < MaxCmds
    /\ queue' = Append(queue, Event("PREPARE"))
    /\ sent' = sent + 1
    /\ UNCHANGED <<apc, looping>> /\ AppUnchanged

(* setLooping() writes on the application's thread, without any lock.      *)
SetLooping(t) ==
    /\ apc[t] = "idle"
    /\ state # "IDLE"
    /\ looping' = ~looping
    /\ UNCHANGED <<queue, apc, sent>> /\ AppUnchanged

-----------------------------------------------------------------------------
(* The looper thread: RTNDKNodePlayer's handlers.                          *)

(* The handler of a message of one of the kinds ws begins.                 *)
Handling(ws) == hpc = "handle" /\ cur.what \in ws

(* The handler returns, and whoever sent the message goes on.              *)
Done == /\ hpc' = "idle"
        /\ apc' = [t \in Apps |-> IF t = cur.from THEN "idle" ELSE apc[t]]

GoTo(h) == hpc' = h /\ UNCHANGED apc

LooperUnchanged == UNCHANGED <<cur, sent, ends, looping>>

Pop ==
    /\ hpc = "idle"
    /\ queue # << >>
    /\ cur' = Head(queue)
    /\ queue' = Tail(queue)
    /\ GoTo("handle")
    /\ UNCHANGED <<state, want, save, flag, pos, looping, nodes, sink, dpc,
                   dstate, sent, ends, played, dropped>>

Distance(x, y) == IF x < y THEN y - x ELSE x - y

(* flush_message(RT_MEDIA_SEEK_ASYNC): the oldest such message goes.       *)
FlushSeekAsync(q) ==
    LET found == {k \in DOMAIN q : q[k].what = "SEEK_ASYNC"}
        first == CHOOSE k \in found : \A l \in found : k <= l
    IN  IF found = {} THEN q
        ELSE SubSeq(q, 1, first - 1) \o SubSeq(q, first + 1, Len(q))

(* postSeekIfNecessary(), when w is wanted, s is saved and q is queued: a  *)
(* target within the margin of the current position is forgotten.          *)
PostSeekIfNecessary(w, s, q) ==
    LET target == IF s # -1 THEN s ELSE w
        far    == target # -1 /\ Distance(target, pos) > Margin
    IN  /\ IF far
             THEN /\ queue' = Append(FlushSeekAsync(q),
                                     [Event("SEEK_ASYNC") EXCEPT !.arg = target])
                  /\ flag' = "DOING"
                  /\ UNCHANGED dropped
             ELSE /\ queue' = q
                  /\ UNCHANGED flag
                  /\ dropped' = (dropped \/ (target # -1
                                   /\ Distance(target, played) > Margin))
        /\ want' = -1
        /\ save' = -1

(* setDataSource(): there is no uri, or the bus is built for it, with a    *)
(* demuxer (root); or it cannot be built, which without a demuxer drops    *)
(* all messages for an ERROR and with one leaves the player IDLE.          *)
SetDataSource(ok, root) ==
    /\ Handling({"SET_DATASOURCE"})
    /\ IF state = "IDLE"
         THEN /\ nodes' = (nodes \/ root)
              /\ state' = IF ok THEN "INITIALIZED" ELSE state
              /\ queue' = IF ok \/ nodes' THEN queue ELSE <<Event("ERROR")>>
         ELSE UNCHANGED <<state, queue, nodes>>
    /\ Done
    /\ UNCHANGED <<pos, sink, deliVars, seekVars, played, dropped>>
    /\ LooperUnchanged

(* prepare(): the codecs and sinks are built (or not: the error is only    *)
(* logged), and a seek that was saved or wanted before is posted.          *)
Prepare(built) ==
    /\ Handling({"PREPARE"})
    /\ IF state \in {"INITIALIZED", "STOPPED"}
         THEN /\ state' = "PREPARED"
              /\ sink' = IF state = "INITIALIZED" /\ built THEN "idle" ELSE sink
              /\ nodes' = (nodes \/ sink' # "none")
              /\ PostSeekIfNecessary(want, save, Append(queue, Event("INFO")))
         ELSE UNCHANGED <<state, sink, nodes, queue, seekVars, dropped>>
    /\ Done
    /\ UNCHANGED <<pos, deliVars, played>> /\ LooperUnchanged

(* START on the sink: its thread is created unless it loops; told to exit  *)
(* before (onStop() with no thread to join), it ends at once.              *)
SinkStarted == CASE sink = "none"            -> "none"
                 [] sink \in {"idle", "running"} -> "running"
                 [] sink \in {"exit", "ended"}   -> "ended"

(* STOP on the sink: the thread is told to exit, and joined if there is one. *)
SinkStopped == CASE sink = "none"               -> "none"
                 [] sink \in {"running", "ended"} -> "idle"
                 [] sink \in {"idle", "exit"}     -> "exit"

(* start(): the deliver thread is created the first time.                  *)
Start ==
    /\ Handling({"START"})
    /\ IF state \in {"PREPARED", "PAUSED", "COMPLETE"}
         THEN /\ state' = "STARTED"
              /\ sink' = SinkStarted
              /\ IF dpc = "none" THEN dpc' = "born" /\ dstate' = "IDLE"
                                 ELSE UNCHANGED deliVars
              /\ queue' = Append(queue, Event("INFO"))
         ELSE UNCHANGED <<state, sink, deliVars, queue>>
    /\ Done
    /\ UNCHANGED <<pos, nodes, seekVars, played, dropped>> /\ LooperUnchanged

(* pause()                                                                 *)
Pausing == IF state = "STARTED"
             THEN state' = "PAUSED" /\ queue' = Append(queue, Event("INFO"))
             ELSE UNCHANGED <<state, queue>>

Pause ==
    /\ Handling({"PAUSE"})
    /\ Pausing
    /\ Done
    /\ UNCHANGED <<pos, nodes, sink, deliVars, seekVars, played, dropped>>
    /\ LooperUnchanged

(* Mutant: seekTo() does not look at mSeekFlag.                            *)
SeekWhileSeeking(x) ==
    IF state \in {"IDLE", "INITIALIZED"}
      THEN want' = -1 /\ save' = x /\ UNCHANGED <<queue, flag, dropped>>
    ELSE IF state = "STOPPED"
      THEN UNCHANGED <<queue, seekVars, dropped>>
    ELSE PostSeekIfNecessary(x, -1, queue)

(* seekTo(): before the player is prepared, and while it seeks, the target *)
(* is only saved; a stopped player forgets it.                             *)
SeekTo(x) ==
    IF state \in {"IDLE", "INITIALIZED"}
      THEN want' = -1 /\ save' = x /\ UNCHANGED <<queue, flag, dropped>>
    ELSE IF state = "STOPPED"
      THEN UNCHANGED <<queue, seekVars, dropped>>
    ELSE IF flag = "DOING"
      THEN save' = x /\ UNCHANGED <<queue, want, flag, dropped>>
    ELSE PostSeekIfNecessary(x, -1, queue)

HandleSeekTo ==
    /\ Handling({"SEEKTO"})
    /\ SeekTo(cur.arg)
    /\ Done
    /\ UNCHANGED <<state, pos, nodes, sink, deliVars, played>>
    /\ LooperUnchanged

(* The end of the playback: the player replays when it loops.              *)
OnPlaybackComplete ==
    /\ Handling({"PLAYBACK_COMPLETE"})
    /\ IF looping
         THEN SeekTo(0) /\ UNCHANGED state
         ELSE state' = "COMPLETE" /\ UNCHANGED <<queue, seekVars, dropped>>
    /\ Done
    /\ UNCHANGED <<pos, nodes, sink, deliVars, played>> /\ LooperUnchanged

(* Mutant: the seek is not reported.                                       *)
OnSeekToSilently ==
    /\ Handling({"SEEK_ASYNC"})
    /\ state' = "PAUSED"
    /\ sink' = SinkStarted
    /\ played' = cur.arg
    /\ UNCHANGED queue
    /\ Done
    /\ UNCHANGED <<pos, nodes, deliVars, seekVars, dropped>> /\ LooperUnchanged

(* onSeekTo(): PAUSE, FLUSH, SEEK and START of the nodes.                  *)
OnSeekTo ==
    /\ Handling({"SEEK_ASYNC"})
    /\ state' = "PAUSED"
    /\ sink' = SinkStarted
    /\ played' = cur.arg
    /\ queue' = Append(queue, Event("SEEK_COMPLETE"))
    /\ Done
    /\ UNCHANGED <<pos, nodes, deliVars, seekVars, dropped>> /\ LooperUnchanged

(* The seek is complete: the player is STARTED whatever it was before ...  *)
OnSeekComplete ==
    /\ Handling({"SEEK_COMPLETE"})
    /\ flag' = "NO"
    /\ pos' = want
    /\ state' = "STARTED"
    /\ GoTo("reseek")
    /\ UNCHANGED <<queue, want, save, nodes, sink, deliVars, played, dropped>>
    /\ LooperUnchanged

(* ... and what was saved in the meantime is posted; the deliver thread    *)
(* may have moved the current position by now.                             *)
ReSeek ==
    /\ hpc = "reseek"
    /\ PostSeekIfNecessary(want, save, queue)
    /\ Done
    /\ UNCHANGED <<state, pos, nodes, sink, deliVars, played>>
    /\ LooperUnchanged

(* Any other event is only told to the listener.                           *)
Notify ==
    /\ Handling({"INFO"} \cup IF HasListener THEN {"ERROR"} ELSE {})
    /\ Done
    /\ UNCHANGED <<state, queue, pos, nodes, sink, deliVars, seekVars, played,
                   dropped>>
    /\ LooperUnchanged

-----------------------------------------------------------------------------
(* stop() and reset(); reset() is also what an ERROR does when there is no *)
(* listener.                                                               *)

Resetting == cur.what \in {"RESET", "ERROR"}
Active    == {"PREPARED", "STARTED", "PAUSED", "COMPLETE"}

(* Mutant: reset() does not stop() first.                                  *)
ResetActive ==
    /\ Handling({"STOP", "RESET"} \cup IF HasListener THEN {} ELSE {"ERROR"})
    /\ IF state \in Active /\ ~Resetting
         THEN Pausing /\ GoTo("stopnodes")
         ELSE /\ UNCHANGED <<state, queue>>
              /\ IF Resetting /\ state # "IDLE" THEN GoTo("interrupt") ELSE Done
    /\ UNCHANGED <<pos, nodes, sink, deliVars, seekVars, played, dropped>>
    /\ LooperUnchanged

(* A player that is prepared or more is paused and stopped; another has    *)
(* nothing to stop, and when IDLE nothing to reset.                        *)
StopOrReset ==
    /\ Handling({"STOP", "RESET"} \cup IF HasListener THEN {} ELSE {"ERROR"})
    /\ IF state \in Active
         THEN Pausing /\ GoTo("stopnodes")
         ELSE /\ UNCHANGED <<state, queue>>
              /\ IF Resetting /\ state # "IDLE" THEN GoTo("interrupt") ELSE Done
    /\ UNCHANGED <<pos, nodes, sink, deliVars, seekVars, played, dropped>>
    /\ LooperUnchanged

(* Mutant: STOP does not join the sink's thread.                           *)
StopNodesNoJoin ==
    /\ hpc = "stopnodes"
    /\ UNCHANGED sink
    /\ GoTo("flush")
    /\ UNCHANGED <<state, queue, pos, nodes, deliVars, seekVars, played,
                   dropped>>
    /\ LooperUnchanged

(* STOP of the nodes: from here on the sink's thread posts nothing ...     *)
StopNodes ==
    /\ hpc = "stopnodes"
    /\ sink' = SinkStopped
    /\ GoTo("flush")
    /\ UNCHANGED <<state, queue, pos, nodes, deliVars, seekVars, played,
                   dropped>>
    /\ LooperUnchanged

(* ... so that the flush drops the last event of this playback.  mSeekFlag *)
(* and what is saved stay as they are.                                     *)
Stopped ==
    /\ hpc = "flush"
    /\ queue' = <<Event("INFO")>>
    /\ pos' = 0 /\ played' = 0
    /\ state' = "STOPPED"
    /\ IF Resetting THEN GoTo("interrupt") ELSE Done
    /\ UNCHANGED <<nodes, sink, deliVars, seekVars, dropped>>
    /\ LooperUnchanged

(* Mutant: the deliver thread is joined without being interrupted.         *)
NoInterrupt ==
    /\ hpc = "interrupt"
    /\ UNCHANGED dstate
    /\ GoTo("join")
    /\ UNCHANGED <<state, queue, pos, nodes, sink, dpc, seekVars, played,
                   dropped>>
    /\ LooperUnchanged

(* The deliver thread is told to exit (twice: join() does it again) ...    *)
Interrupt ==
    /\ hpc = "interrupt"
    /\ dstate' = IF dpc = "none" THEN dstate ELSE "EXIT"
    /\ GoTo("join")
    /\ UNCHANGED <<state, queue, pos, nodes, sink, dpc, seekVars, played,
                   dropped>>
    /\ LooperUnchanged

(* ... and joined ...                                                      *)
Join ==
    /\ hpc = "join"
    /\ dpc \in {"none", "exited"}
    /\ dpc' = "none" /\ dstate' = "IDLE"
    /\ GoTo("release")
    /\ UNCHANGED <<state, queue, pos, nodes, sink, seekVars, played, dropped>>
    /\ LooperUnchanged

(* ... before the nodes it works with are deleted.                         *)
ReleaseNodes ==
    /\ hpc = "release"
    /\ nodes' = FALSE /\ sink' = "none"
    /\ state' = "IDLE"
    /\ Done
    /\ UNCHANGED <<queue, pos, deliVars, seekVars, played, dropped>>
    /\ LooperUnchanged

-----------------------------------------------------------------------------
(* The deliver thread, and the thread of the sink.                         *)

DeliverUnchanged == UNCHANGED <<state, queue, cur, hpc, apc, seekVars, looping,
                                nodes, sink, sent, ends, dropped>>

(* thread_looping() reads the thread's state ...                           *)
DeliverBorn ==
    /\ dpc = "born"
    /\ dpc' = IF dstate = "IDLE" THEN "setloop" ELSE "enter"
    /\ UNCHANGED <<dstate, pos, played>> /\ DeliverUnchanged

(* ... and writes it, whatever it has become in between.                   *)
DeliverSetLoop ==
    /\ dpc = "setloop"
    /\ dstate' = "LOOP"
    /\ dpc' = "enter"
    /\ UNCHANGED <<pos, played>> /\ DeliverUnchanged

(* startAudioPlayerProc() gives up without a decoder and a sink.           *)
DeliverEnter ==
    /\ dpc = "enter"
    /\ dpc' = IF sink = "none" THEN "exited" ELSE "check"
    /\ UNCHANGED <<dstate, pos, played>> /\ DeliverUnchanged

(* The loop ends when the thread is interrupted, idles unless the player   *)
(* is STARTED, and else begins a round ...                                 *)
DeliverCheck ==
    /\ dpc = "check"
    /\ \/ dstate # "LOOP" /\ dpc' = "exited"
       \/ dstate = "LOOP" /\ state = "STARTED" /\ dpc' = "work"
    /\ UNCHANGED <<dstate, pos, played>> /\ DeliverUnchanged

(* ... that it finishes whatever the state has become: no frame, or one of *)
(* time f that is pushed to the sink.                                      *)
DeliverNothing ==
    /\ dpc = "work"
    /\ dpc' = "check"
    /\ UNCHANGED <<dstate, pos, played>> /\ DeliverUnchanged

DeliverFrame(f) ==
    /\ dpc = "work"
    /\ pos' = f /\ played' = f
    /\ dpc' = "check"
    /\ UNCHANGED dstate /\ DeliverUnchanged

(* The sink's thread renders the end of the stream, or has had no data for *)
(* two seconds; it posts to the looper that startAudioPlayerProc() set.    *)
SinkEnd ==
    /\ sink = "running" /\ dpc \in {"check", "work"}
    /\ ends < MaxEnds
    /\ queue' = Append(queue, Event("PLAYBACK_COMPLETE"))
    /\ ends' = ends + 1
    /\ UNCHANGED <<state, cur, hpc, apc, seekVars, pos, looping, nodes, sink,
                   deliVars, sent, played, dropped>>

-----------------------------------------------------------------------------
AppStep ==
    \/ \E t \in Apps :
          \/ \E w \in Commands \ {"SEEKTO"} : Command(t, w, 0)
          \/ \E x \in Targets : Command(t, "SEEKTO", x)
          \/ SetLooping(t)
    \/ PrepareAsync

LooperStep ==
    \/ Pop \/ Start \/ Pause \/ HandleSeekTo \/ OnPlaybackComplete
    \/ \E ok, root \in BOOLEAN : SetDataSource(ok, root)
    \/ \E built \in BOOLEAN : Prepare(built)
    \/ OnSeekTo \/ OnSeekComplete \/ ReSeek \/ Notify
    \/ StopOrReset \/ StopNodes \/ Stopped
    \/ Interrupt \/ Join \/ ReleaseNodes

DeliverStep ==
    \/ DeliverBorn \/ DeliverSetLoop \/ DeliverEnter \/ DeliverCheck
    \/ DeliverNothing \/ \E f \in Frames : DeliverFrame(f)

Next == AppStep \/ LooperStep \/ DeliverStep \/ SinkEnd

Spec == Init /\ [][Next]_vars

(* The looper thread and the deliver thread are scheduled; no application  *)
(* has to call anything, and no stream has to end.                         *)
FairSpec == Spec /\ WF_vars(LooperStep) /\ WF_vars(DeliverStep)

-----------------------------------------------------------------------------
(* Every variable has its type.                                            *)
TypeOK ==
    /\ state \in States
    /\ queue \in Seq(Messages)
    /\ cur \in Messages
    /\ hpc \in {"idle", "handle", "reseek", "stopnodes", "flush", "interrupt",
                "join", "release"}
    /\ apc \in [Apps -> {"idle", "waiting"}]
    /\ want \in Targets \cup {-1} /\ save \in Targets \cup {-1}
    /\ flag \in {"NO", "DOING"}
    /\ pos \in Targets \cup Frames \cup {-1}
    /\ looping \in BOOLEAN /\ nodes \in BOOLEAN
    /\ sink \in {"none", "idle", "running", "exit", "ended"}
    /\ dpc \in {"none", "born", "setloop", "enter", "check", "work", "exited"}
    /\ dstate \in {"IDLE", "LOOP", "EXIT"}
    /\ sent \in 0..MaxCmds /\ ends \in 0..MaxEnds
    /\ played \in Targets \cup Frames
    /\ dropped \in BOOLEAN

Seeks == {"SEEK_ASYNC", "SEEK_COMPLETE"}
SeekHandled == hpc = "handle" /\ cur.what \in Seeks
SeekQueued  == \E k \in DOMAIN queue : queue[k].what \in Seeks

(* There is at most one seek on its way, from its SEEK_ASYNC to its        *)
(* SEEK_COMPLETE, and mSeekFlag tells: flush_message() never finds a seek  *)
(* to remove, which the deque would not survive.                           *)
OneSeekAtATime ==
    /\ \A k, l \in DOMAIN queue :
          queue[k].what \in Seeks /\ queue[l].what \in Seeks => k = l
    /\ ~(SeekHandled /\ SeekQueued)
    /\ SeekHandled \/ SeekQueued => flag = "DOING" /\ state # "STOPPED"

(* Once stopped, the player stays so until it is told otherwise: no late   *)
(* event of the sink, and no seek, makes it COMPLETE or STARTED.           *)
StoppedStaysStopped ==
    [][state = "STOPPED" /\ state' # "STOPPED"
         => cur.what \in {"PREPARE", "RESET"}]_vars

(* No command is lost in a flush: an application that waits has its        *)
(* command in the queue or in the handler.                                 *)
CommandNotFlushed ==
    \A t \in Apps :
        apc[t] = "waiting" =>
            \/ \E k \in DOMAIN queue : queue[k].from = t
            \/ hpc # "idle" /\ cur.from = t

(* What flush() and flush_message() may do to the queue: take no command   *)
(* that is waited for, and no message out of the middle.                   *)
QueueSound == OneSeekAtATime /\ CommandNotFlushed

(* The deliver thread works only with nodes that exist.                    *)
NodesOutliveDelivery == dpc = "work" => nodes /\ sink # "none"

(* An IDLE player is at rest: no thread of its runs, and no message of an  *)
(* earlier playback is queued that could act on the next one.              *)
IdleIsQuiet ==
    state = "IDLE" =>
        /\ dpc = "none" /\ sink \notin {"running", "ended"}
        /\ \A k \in DOMAIN queue :
              queue[k].what \notin Seeks \cup {"PLAYBACK_COMPLETE"}

(* reset() leaves nothing behind that moves: no thread that works with the *)
(* nodes it deletes, and no message for the playback that follows.         *)
ResetIsQuiet == NodesOutliveDelivery /\ IdleIsQuiet

(* A STARTED player has a thread that delivers its data.                   *)
StartedDelivers == state = "STARTED" => dpc # "none"

(* A seek is skipped only within the margin of the playback's position.    *)
SeekSkippedOnlyNear == ~dropped

(* The deliver thread is about to overwrite its interruption.              *)
Overwriting == hpc = "join" /\ dpc = "setloop"

(* Every command returns, unless a reset() meets a deliver thread that     *)
(* overwrites its interruption as it begins.                               *)
CommandReturns ==
    \/ <>Overwriting
    \/ \A t \in Apps : apc[t] = "waiting" ~> apc[t] = "idle"

(* A seek on its way gets to its SEEK_COMPLETE, unless the player is       *)
(* stopped first.                                                          *)
SeekEnds ==
    SeekHandled \/ SeekQueued
        ~> hpc = "reseek" \/ state \in {"STOPPED", "IDLE"}

(* A position that was saved while the player was seeking is restored, as  *)
(* long as the player is not stopped.                                      *)
SavedSeekServed ==
    save # -1 /\ state = "STARTED"
        ~> save = -1 \/ state \in {"STOPPED", "IDLE"}
=============================================================================
