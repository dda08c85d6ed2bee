-------------------------------- MODULE Decoder --------------------------------
(***************************************************************************)
(* FFNodeDecoder over FFAdapterCodec.  The deliver thread of the player    *)
(* takes an empty packet from the decoder's packet pool, fills it, pushes  *)
(* it into mPacketQ and pulls frames from mFrameQ for the sink.  The       *)
(* decoder's own thread sends packets to the FFmpeg codec and receives     *)
(* frames from it into buffers of the frame pool.  The looper thread of    *)
(* the player sends the commands.                                          *)
(*                                                                         *)
(* Each queue and each pool has a lock; mStarted has none and is read at   *)
(* two places of the loop.  A packet is its number in the order of         *)
(* pushing, and a frame the number of the packet it comes from.            *)
(***************************************************************************)
EXTENDS Integers, Sequences, FiniteSets

CONSTANTS
    PacketCount, \* MAX_INPUT_BUFFER_COUNT
    FrameCount,  \* MAX_OUTPUT_BUFFER_COUNT
    Streams,     \* the kinds of stream: see the variable
    Lossy,       \* the audio conversion may fail
    MaxPackets,  \* bound on the packets pushed
    MaxCmds      \* bound on the player's commands

ASSUME DecoderAssumption ==
    /\ PacketCount \in Nat /\ FrameCount \in Nat /\ Lossy \in BOOLEAN
    /\ Streams \subseteq [delay : Nat, ends : SUBSET (Nat \ {0}), rich : SUBSET Nat,
                          video : BOOLEAN, bypass : BOOLEAN]

None == 0

VARIABLES
    stream,    \* of this track: delay, how many packets its codec keeps
               \* before it has a frame; ends, the packets without data, which
               \* end the stream; rich, those that two frames come from;
               \* video, whether it is the video track; and
               \* bypass, mByPass: frames are copies of packets
    started,   \* mStarted
    running,   \* mRunning of both pools
    loopState, \* mLoopState of mProcThread
    tpc,       \* where mProcThread is in runTask()
    freeP,     \* how many buffers mPacketPool has free
    freeF,     \* the buffers mFramePool has free
    ready,     \* the frame buffers whose mStatus is READY
    pktQ,      \* mPacketQ
    frmQ,      \* mFrameQ
    input,     \* the packet of runTask()
    output,    \* the frame buffer of runTask()
    codec,     \* the packets inside the codec whose frame it has not given
    drain,     \* the packet without data that the codec drains for, or None
    eosFlag,   \* mEosFlag of the codec context
    todo,      \* what is left of the player's command
    phase,     \* the player's state
    dpc,       \* where the deliver thread is in its loop
    sunk,      \* the frame buffers that the sink holds
    pushed,    \* the number of the last packet pushed
    pulled,    \* the number of the last frame pulled
    mark,      \* pushed, when the queues were last flushed
    stale,     \* the frames pulled since then that come from before
    shown,     \* the ends that came out
    refused,   \* the codec has refused a packet
    cmds       \* how many commands have been sent

vars == <<stream, started, running, loopState, tpc, freeP, freeF, ready, pktQ, frmQ,
          input, output, codec, drain, eosFlag, todo, phase, dpc, sunk,
          pushed, pulled, mark, stale, shown, refused, cmds>>

pools   == <<freeP, freeF, ready, stream>>
taskVars == <<tpc, input, output, codec, drain, eosFlag, refused>>
obsVars == <<pushed, pulled, mark, stale, shown>>
ctlVars == <<running, loopState, todo, phase, cmds>>
linkVars == <<dpc, sunk>>

Frames == 1..FrameCount
Frame(b, n, k) == [buf |-> b, pkt |-> n, kind |-> k]

(* After init() and the player's prepare(): both pools are full, and the   *)
(* thread of onPrepare() may not have reached thread_looping() yet.        *)
Init ==
    /\ stream \in Streams
    /\ started = FALSE /\ running = FALSE
    /\ loopState = "IDLE" /\ tpc = "born"
    /\ freeP = PacketCount /\ freeF = Frames /\ ready = {}
    /\ pktQ = <<>> /\ frmQ = <<>>
    /\ input = None /\ output = None
    /\ codec = <<>> /\ drain = None /\ eosFlag = FALSE
    /\ todo = <<>> /\ phase = "PREPARED"
    /\ dpc = "top" /\ sunk = {}
    /\ pushed = 0 /\ pulled = 0 /\ mark = 0 /\ stale = 0 /\ shown = {}
    /\ refused = FALSE /\ cmds = 0

-----------------------------------------------------------------------------
(* The codec of FFmpeg.                                                    *)

HasFrame(c) == Len(c) > IF drain = None THEN stream.delay ELSE 0

(* It refuses a packet while it has two frames to give; while it drains it *)
(* drops packets with an error that the adapter does not look at.          *)
Refuses == drain = None /\ Len(codec) > stream.delay + 1

Accept(n) ==
    IF drain # None THEN UNCHANGED <<codec, drain>>
    ELSE IF n \in stream.ends THEN drain' = n /\ UNCHANGED codec
    ELSE /\ codec' = codec \o (IF n \in stream.rich THEN <<n, n>> ELSE <<n>>)
         /\ UNCHANGED drain

-----------------------------------------------------------------------------
(* The looper thread: the commands of the player, as NodePlayer has them.  *)

Command(p, steps) ==
    /\ todo = <<>> /\ cmds < MaxCmds
    /\ todo' = steps /\ phase' = p /\ cmds' = cmds + 1
    /\ UNCHANGED <<started, running, loopState, pktQ, frmQ, pools, taskVars, linkVars, obsVars>>

PlayerStart == phase \in {"PREPARED", "PAUSED"} /\ Command(phase, <<"start", "STARTED">>)
PlayerPause == phase = "STARTED" /\ Command(phase, <<"pause", "PAUSED">>)
PlayerSeek ==
    /\ phase \in {"STARTED", "PAUSED"}
    /\ Command("PAUSED", <<"pause", "flush", "frames", "start", "STARTED">>)
PlayerStop ==
    /\ phase \in {"PREPARED", "STARTED", "PAUSED"}
    /\ Command("PAUSED", <<"stop", "interrupt", "interrupt", "join", "flush", "frames", "STOPPED">>)

Done == todo' = Tail(todo)
Doing(step) == todo # <<>> /\ Head(todo) = step

PlayerState ==
    /\ todo # <<>> /\ Head(todo) \in {"STARTED", "PAUSED", "STOPPED"}
    /\ Done /\ phase' = Head(todo)
    /\ UNCHANGED <<started, running, loopState, cmds, pktQ, frmQ, pools, taskVars, linkVars, obsVars>>

OnStart ==
    /\ Doing("start") /\ Done
    /\ running' = TRUE /\ started' = TRUE
    /\ UNCHANGED <<loopState, phase, cmds, pktQ, frmQ, pools, taskVars, linkVars, obsVars>>

OnPause ==
    /\ Doing("pause") /\ Done
    /\ started' = FALSE
    /\ UNCHANGED <<running, loopState, phase, cmds, pktQ, frmQ, pools, taskVars, linkVars, obsVars>>

(* Mutant: the pools are not stopped.                                      *)
OnStopPoolsRun ==
    /\ Doing("stop") /\ Done
    /\ started' = FALSE
    /\ UNCHANGED <<running, loopState, phase, cmds, pktQ, frmQ, pools, taskVars, linkVars, obsVars>>

(* onStop(): a stopped pool wakes who waits for a buffer.                  *)
OnStop ==
    /\ Doing("stop") /\ Done
    /\ started' = FALSE /\ running' = FALSE
    /\ UNCHANGED <<loopState, phase, cmds, pktQ, frmQ, pools, taskVars, linkVars, obsVars>>

(* Then it asks the thread to end, and join() does so once more before it  *)
(* waits.                                                                  *)
RequestInterruption ==
    /\ Doing("interrupt") /\ Done
    /\ loopState' = "EXIT"
    /\ UNCHANGED <<started, running, phase, cmds, pktQ, frmQ, pools, taskVars, linkVars, obsVars>>

(* Mutant: onStop() does not wait for the thread.                          *)
JoinNoWait ==
    /\ Doing("join") /\ Done /\ loopState' = "IDLE"
    /\ UNCHANGED <<started, running, phase, cmds, pktQ, frmQ, pools, taskVars, linkVars, obsVars>>

Join ==
    /\ Doing("join") /\ tpc = "dead"
    /\ Done /\ loopState' = "IDLE"
    /\ UNCHANGED <<started, running, phase, cmds, pktQ, frmQ, pools, taskVars, linkVars, obsVars>>

(* onFlush(): the packets one after the other, each under the lock ...     *)
OnFlushPackets ==
    /\ Doing("flush")
    /\ started' = FALSE
    /\ IF pktQ = <<>> THEN Done /\ UNCHANGED <<pktQ, freeP>>
       ELSE pktQ' = Tail(pktQ) /\ freeP' = freeP + 1 /\ UNCHANGED todo
    /\ UNCHANGED <<stream, running, loopState, phase, cmds, frmQ, freeF, ready, taskVars, linkVars, obsVars>>

(* Mutant: a flush leaves the frames.                                      *)
FlushNoFrames ==
    /\ Doing("frames") /\ Done /\ mark' = pushed /\ stale' = 0
    /\ UNCHANGED <<started, running, loopState, phase, cmds, pktQ, frmQ, pools, taskVars,
                   linkVars, pushed, pulled, shown>>

(* ... and then the frames.                                                *)
OnFlushFrames ==
    /\ Doing("frames")
    /\ IF frmQ = <<>> THEN Done /\ mark' = pushed /\ stale' = 0 /\ UNCHANGED <<frmQ, freeF>>
       ELSE /\ frmQ' = Tail(frmQ) /\ freeF' = freeF \cup {Head(frmQ).buf}
            /\ UNCHANGED <<todo, mark, stale>>
    /\ UNCHANGED <<stream, started, running, loopState, phase, cmds, pktQ, freeP, ready, taskVars,
                   linkVars, pushed, pulled, shown>>

-----------------------------------------------------------------------------
(* The decoder's thread.                                                   *)

(* The new thread reads its state ...                                      *)
Born ==
    /\ tpc = "born" /\ tpc' = IF loopState = "IDLE" THEN "setloop" ELSE "top"
    /\ UNCHANGED <<started, ctlVars, pktQ, frmQ, pools, linkVars, obsVars,
                   input, output, codec, drain, eosFlag, refused>>

(* ... and writes it, whatever it has become in between.                   *)
SetLoop ==
    /\ tpc = "setloop" /\ tpc' = "top"
    /\ loopState' = "LOOP"
    /\ UNCHANGED <<started, running, todo, phase, cmds, pktQ, frmQ, pools, linkVars, obsVars,
                   input, output, codec, drain, eosFlag, refused>>

(* The head of the loop with the first look at mStarted.                   *)
Top ==
    /\ tpc = "top"
    /\ CASE loopState # "LOOP" -> tpc' = "exit" /\ UNCHANGED <<input, freeP>>
         [] loopState = "LOOP" /\ ~started ->
              /\ input' = None /\ freeP' = freeP + (IF input = None THEN 0 ELSE 1)
              /\ UNCHANGED tpc
         [] OTHER -> tpc' = "take" /\ UNCHANGED <<input, freeP>>
    /\ UNCHANGED <<stream, started, ctlVars, pktQ, frmQ, freeF, ready, linkVars, obsVars,
                   output, codec, drain, eosFlag, refused>>

Take ==
    /\ tpc = "take" /\ tpc' = "acquire"
    /\ IF input = None /\ pktQ # <<>>
       THEN input' = Head(pktQ) /\ pktQ' = Tail(pktQ)
       ELSE UNCHANGED <<input, pktQ>>
    /\ UNCHANGED <<started, ctlVars, frmQ, pools, linkVars, obsVars,
                   output, codec, drain, eosFlag, refused>>

(* acquireBuffer() with blocking: it returns nothing from a stopped pool.  *)
AcquireFrame ==
    /\ tpc = "acquire"
    /\ output # None \/ freeF # {} \/ ~running
    /\ tpc' = "check"
    /\ IF output = None /\ running
       THEN \E b \in freeF : /\ \A x \in freeF : b <= x
                             /\ output' = b /\ freeF' = freeF \ {b}
       ELSE UNCHANGED <<output, freeF>>
    /\ UNCHANGED <<stream, started, ctlVars, pktQ, frmQ, freeP, ready, linkVars, obsVars,
                   input, codec, drain, eosFlag, refused>>

(* The second look at mStarted.                                            *)
Check ==
    /\ tpc = "check"
    /\ tpc' = IF input = None \/ output = None \/ ~started THEN "top"
              ELSE IF stream.bypass THEN "copy" ELSE "send"
    /\ UNCHANGED <<started, ctlVars, pktQ, frmQ, pools, linkVars, obsVars,
                   input, output, codec, drain, eosFlag, refused>>

GiveFrame(n, k) ==
    /\ frmQ' = Append(frmQ, Frame(output, n, k))
    /\ ready' = ready \cup {output} /\ output' = None

Copy ==
    /\ tpc = "copy" /\ tpc' = "top"
    /\ GiveFrame(input, IF input \in stream.ends THEN "end" ELSE "data")
    /\ input' = None /\ freeP' = freeP + 1
    /\ UNCHANGED <<stream, started, ctlVars, pktQ, freeF, linkVars, obsVars, codec, drain, eosFlag, refused>>

(* fa_decode_send_packet().  A refused packet is tried again, with no      *)
(* frame received in between.                                              *)
Send ==
    /\ tpc = "send"
    /\ IF Refuses
       THEN tpc' = "top" /\ refused' = TRUE /\ UNCHANGED <<input, freeP, codec, drain>>
       ELSE /\ Accept(input) /\ tpc' = "receive"
            /\ input' = None /\ freeP' = freeP + 1 /\ UNCHANGED refused
    /\ UNCHANGED <<stream, started, ctlVars, pktQ, frmQ, freeF, ready, linkVars, obsVars, output, eosFlag>>

(* fa_decode_get_frame(): the codec has nothing yet, ...                   *)
ReceiveAgain ==
    /\ tpc = "receive" /\ ~HasFrame(codec) /\ drain = None
    /\ tpc' = "top"
    /\ UNCHANGED <<started, ctlVars, pktQ, frmQ, pools, linkVars, obsVars,
                   input, output, codec, drain, eosFlag, refused>>

(* ... or a frame of video, or the end of it: then the codec is flushed    *)
(* and an empty frame tells the end.                                       *)
ReceiveVideo ==
    /\ tpc = "receive" /\ stream.video
    /\ tpc' = "top"
    /\ \/ /\ HasFrame(codec) /\ codec' = Tail(codec)
          /\ GiveFrame(Head(codec), "data") /\ UNCHANGED drain
       \/ /\ ~HasFrame(codec) /\ drain # None /\ drain' = None
          /\ GiveFrame(drain, "end") /\ UNCHANGED codec
    /\ UNCHANGED <<stream, started, ctlVars, pktQ, freeP, freeF, linkVars, obsVars,
                   input, eosFlag, refused>>

(* Mutant: the frame goes out and stays in the codec as well.               *)
ReceiveTwice ==
    /\ tpc = "receive" /\ ~stream.video /\ HasFrame(codec)
    /\ tpc' = "top" /\ GiveFrame(Head(codec), "data") /\ eosFlag' = FALSE
    /\ UNCHANGED <<stream, started, ctlVars, pktQ, freeP, freeF, linkVars, obsVars,
                   input, codec, drain, refused>>

(* ... or one of audio, which the conversion may lose ...                  *)
ReceiveAudio ==
    /\ tpc = "receive" /\ ~stream.video /\ HasFrame(codec)
    /\ tpc' = "top" /\ codec' = Tail(codec)
    /\ \/ GiveFrame(Head(codec), "data") /\ eosFlag' = FALSE
       \/ Lossy /\ UNCHANGED <<frmQ, ready, output, eosFlag>>
    /\ UNCHANGED <<stream, started, ctlVars, pktQ, freeP, freeF, linkVars, obsVars,
                   input, drain, refused>>

(* Mutant: the mark of an earlier end makes the codec forget the first.    *)
AudioEndForgotten ==
    /\ tpc = "receive" /\ ~stream.video /\ ~HasFrame(codec) /\ drain # None
    /\ tpc' = "top" /\ drain' = None /\ eosFlag' = TRUE
    /\ UNCHANGED <<stream, started, ctlVars, pktQ, frmQ, freeP, freeF, ready, linkVars, obsVars,
                   input, output, codec, refused>>

(* ... or its end.  The second end in a row neither flushes the codec nor  *)
(* sets a status: the frame goes on, without the mark of an end, only if   *)
(* its buffer has kept READY from an earlier use.                          *)
ReceiveAudioEnd ==
    /\ tpc = "receive" /\ ~stream.video /\ ~HasFrame(codec) /\ drain # None
    /\ tpc' = "top"
    /\ IF eosFlag
       THEN /\ IF output \in ready THEN GiveFrame(drain, "empty") ELSE UNCHANGED <<frmQ, ready, output>>
            /\ UNCHANGED <<drain, eosFlag>>
       ELSE GiveFrame(drain, "end") /\ drain' = None /\ eosFlag' = TRUE
    /\ UNCHANGED <<stream, started, ctlVars, pktQ, freeP, freeF, linkVars, obsVars,
                   input, codec, refused>>

Exit ==
    /\ tpc = "exit" /\ tpc' = "dead"
    /\ input' = None /\ freeP' = freeP + (IF input = None THEN 0 ELSE 1)
    /\ output' = None /\ freeF' = freeF \cup ({output} \ {None})
    /\ UNCHANGED <<stream, started, ctlVars, pktQ, frmQ, ready, linkVars, obsVars,
                   codec, drain, eosFlag, refused>>

-----------------------------------------------------------------------------
(* The deliver thread of the player, and the sink.                         *)

DeliverTop ==
    /\ dpc \in {"top", "topES"} /\ phase = "STARTED"
    /\ dpc' = IF dpc = "top" THEN "acquire" ELSE "fill"
    /\ UNCHANGED <<started, ctlVars, pktQ, frmQ, pools, taskVars, sunk, obsVars>>

(* dequeBuffer(INPUT), which blocks while no packet is free.               *)
AcquirePacket ==
    /\ dpc = "acquire" /\ (freeP > 0 \/ ~running)
    /\ IF running THEN dpc' = "fill" /\ freeP' = freeP - 1
                  ELSE dpc' = "pull" /\ UNCHANGED freeP
    /\ UNCHANGED <<stream, started, ctlVars, pktQ, frmQ, freeF, ready, taskVars, sunk, obsVars>>

(* The demuxer has a packet, and queueBuffer() pushes it ...               *)
PushPacket ==
    /\ dpc = "fill" /\ pushed < MaxPackets
    /\ pushed' = pushed + 1 /\ pktQ' = Append(pktQ, pushed + 1)
    /\ dpc' = "pull"
    /\ UNCHANGED <<started, ctlVars, frmQ, pools, taskVars, sunk, pulled, mark, stale, shown>>

(* ... or it has none: the empty packet stays with the deliver thread.     *)
NoPacket ==
    /\ dpc = "fill" /\ dpc' = "pullES"
    /\ UNCHANGED <<started, ctlVars, pktQ, frmQ, pools, taskVars, sunk, obsVars>>

(* dequeBuffer(OUTPUT): the frame goes to the sink.                        *)
PullFrame ==
    /\ dpc \in {"pull", "pullES"}
    /\ dpc' = IF dpc = "pull" THEN "top" ELSE "topES"
    /\ IF frmQ = <<>> THEN UNCHANGED <<frmQ, sunk, pulled, stale, shown>>
       ELSE LET f == Head(frmQ)
            IN  /\ frmQ' = Tail(frmQ) /\ sunk' = sunk \cup {f.buf}
                /\ pulled' = IF f.kind = "empty" THEN pulled ELSE f.pkt
                /\ stale' = stale + (IF f.kind # "empty" /\ f.pkt <= mark THEN 1 ELSE 0)
                /\ shown' = IF f.kind = "end" THEN shown \cup {f.pkt} ELSE shown
    /\ UNCHANGED <<started, ctlVars, pktQ, pools, taskVars, pushed, mark>>

(* queueBuffer(OUTPUT): the sink has played a frame.                       *)
ReleaseFrame ==
    /\ \E b \in sunk : sunk' = sunk \ {b} /\ freeF' = freeF \cup {b}
    /\ UNCHANGED <<stream, started, ctlVars, pktQ, frmQ, freeP, ready, taskVars, dpc, obsVars>>

-----------------------------------------------------------------------------
Player  == PlayerState \/ OnStart \/ OnPause \/ OnStop \/ RequestInterruption \/ Join \/ OnFlushPackets \/ OnFlushFrames
Send_   == PlayerStart \/ PlayerPause \/ PlayerSeek \/ PlayerStop
Task    == Born \/ SetLoop \/ Top \/ Take \/ AcquireFrame \/ Check \/ Copy \/ Send \/ ReceiveAgain
           \/ ReceiveVideo \/ ReceiveAudio \/ ReceiveAudioEnd \/ Exit
Deliver == DeliverTop \/ AcquirePacket \/ PushPacket \/ NoPacket \/ PullFrame

Next == Send_ \/ Player \/ Task \/ Deliver \/ ReleaseFrame

(* The threads are scheduled; the demuxer always has a packet in the end.  *)
Fairness ==
    /\ WF_vars(Player) /\ WF_vars(Task) /\ WF_vars(ReleaseFrame)
    /\ WF_vars(Deliver) /\ SF_vars(PushPacket)

Spec == Init /\ [][Next]_vars /\ Fairness

-----------------------------------------------------------------------------
(* Properties.                                                             *)

(* What is on its way, from the frame pulled last to the packet pushed     *)
(* last; a frame without the mark of an end stands for no packet.          *)
Number(f) == IF f.kind = "empty" THEN None ELSE f.pkt
Numbers == [i \in DOMAIN frmQ |-> Number(frmQ[i])]
Pipeline == <<pulled>> \o Numbers \o codec \o <<input>> \o pktQ

Before(m, n) == \/ m = None \/ n = None
                \/ m < n
                \/ m = n /\ n \in stream.rich

(* FramesInOrder: the frames come in the order of the packets, and none    *)
(* twice, although a refused packet is tried again, the loop keeps an      *)
(* input and an output over its turns and a flush runs beside it.          *)
FramesInOrder ==
    \A i, j \in 1..Len(Pipeline) : i < j => Before(Pipeline[i], Pipeline[j])

(* StaleBounded: of what was pushed before the end of a flush at most one  *)
(* frame that the decoder's thread had in hand, one packet that the        *)
(* deliver thread had in hand and what the codec keeps come out after it.  *)
StaleBounded == stream.rich = {} => stale <= stream.delay + 2

(* BuffersBack: when stop() is done every buffer is in its pool again,     *)
(* apart from those of the deliver thread and the sink.                    *)
BuffersBack ==
    phase = "STOPPED" =>
        /\ freeP + Len(pktQ) + (IF dpc \in {"fill", "pullES", "topES"} THEN 1 ELSE 0) = PacketCount
        /\ freeF \cup sunk \cup {frmQ[i].buf : i \in DOMAIN frmQ} = Frames

(* The first end of the stream.                                            *)
First == CHOOSE n \in stream.ends : \A m \in stream.ends : n <= m

(* EndShown: where the codec gives one frame for a packet at once, the     *)
(* first end of the stream comes out as a frame, unless a command of the   *)
(* player intervenes.  Elsewhere it does not: an end brings one frame of   *)
(* what the codec has kept, and the rest waits for packets to come.        *)
EndShown ==
    (/\ stream.bypass \/ (stream.delay = 0 /\ stream.rich = {})
     /\ phase = "STARTED" /\ todo = <<>> /\ pushed < First)
    ~> (First \in shown \/ todo # <<>>)

(* StopReturns: a command returns, stop() among them, which waits for the  *)
(* thread, unless that overwrites the last request to end as it begins.    *)
StopReturns ==
    \/ <>(Doing("join") /\ tpc = "setloop")
    \/ (todo # <<>>) ~> (todo = <<>>)

(* OnlySeekDrops: the loop drops its input for "when seek to target time,  *)
(* input packet may be old time": before the first flush every packet that *)
(* was pushed is on its way.                                               *)
OnlySeekDrops ==
    mark = 0 /\ ~Doing("frames") /\ (phase = "STARTED" \/ (phase = "PAUSED" /\ todo = <<>>))
    => \A n \in pulled + 1 .. pushed : \E i \in 1..Len(Pipeline) : Pipeline[i] = n
=============================================================================
