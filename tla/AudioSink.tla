------------------------------- MODULE AudioSink -------------------------------
(***************************************************************************)
(* RTSinkAudioALSA: the deliver thread queues decoded frames, the sink's   *)
(* thread writes them to the sound card piece by piece and gives them      *)
(* back, and the player commands both.  The last part is the ALSA library  *)
(* as ALSAAapterImpl uses it.                                              *)
(*                                                                         *)
(* Assumed: a thread that was created runs before the next START of the    *)
(* player; without that, one sink may get two threads.                     *)
(***************************************************************************)
EXTENDS Integers, Sequences, FiniteSets

CONSTANTS
    Frames,       \* bound on the frames
    Pieces,       \* what writei() takes of a frame at once, at least one
    MaxCommands,  \* bound on the player's commands
    MaxErrors,    \* bound on the errors of the sound card
    StopsIdle     \* the player also stops a sink that was never started

ASSUME AudioSinkAssumption == Frames \in Nat /\ Pieces \in Nat \ {0} /\ StopsIdle \in BOOLEAN

VARIABLES
    player,       \* what the player has made of the sink
    cmd,          \* where the command stands that needs several steps
    commands,     \* how many there were
    mPlayStatus,
    mLoopState, mTid,  \* of mThread
    pc,           \* of the thread: "none", "born", "setloop", "test", "write", "give", "gone"
    input,        \* the frame in the thread's hand, 0 if none
    sent,         \* how much of it the card has taken
    mDeque,
    hand,         \* the frame in the deliver thread's hand, 0 if none
    pushed,       \* frames made so far
    mEos,         \* those of them that end the stream
    returned,     \* per frame: how often it was released
    device,       \* "closed", "open", "bad" (its parameters were refused)
    mALSASinkCtx, \* the context exists
    mCurPosition, \* the last write: "never", "now", "2s"
    heard,        \* what the card took
    spoilt,       \* frames that an error of the card cut
    completes,    \* RT_MEDIA_PLAYBACK_COMPLETE messages
    handled       \* a frame was handled since the last of them

threadVars == <<mLoopState, mTid, pc, input, sent, heard, spoilt, completes, handled>>
queueVars == <<mDeque, returned>>
deliverVars == <<hand, pushed, mEos>>
cmdVars == <<player, cmd, commands>>
vars == <<cmdVars, mPlayStatus, threadVars, queueVars, deliverVars, device, mALSASinkCtx, mCurPosition>>

Init ==
    /\ player = "new" /\ cmd = "none" /\ commands = 0
    /\ mPlayStatus = "PLAY_STOPPED" /\ mLoopState = "THREAD_IDLE" /\ mTid = FALSE
    /\ pc = "none" /\ input = 0 /\ sent = 0
    /\ mDeque = <<>> /\ hand = 0 /\ pushed = 0 /\ mEos = {}
    /\ returned = [f \in 1..Frames |-> 0]
    /\ device = "closed" /\ mALSASinkCtx = FALSE /\ mCurPosition = "never"
    /\ heard = <<>> /\ spoilt = {} /\ completes = 0 /\ handled = FALSE

-----------------------------------------------------------------------------
(* The sound card.                                                         *)

(* The calls that end the configuration when they fail; the period is set  *)
(* in another way when the card refuses the buffer's time.                 *)
HwCalls(refused) ==
    {"malloc", "any", "access", "format", "channels", "buffer_size", "period_size"} \union
    (IF "buffer_time" \in refused
     THEN {"period_time", "get_period_size", "set_buffer_size"}
     ELSE {"get_buffer_size", "get_buffer_time", "period_time"})

(* An error of the rate or of the last call is only logged.                *)
alsa_set_snd_hw_params(refused) ==
    [ok |-> refused \intersect HwCalls(refused) = {}, commits |-> "hw_params" \notin refused]

SwCalls == {"sw_malloc", "current", "start_threshold", "stop_threshold", "avail_min",
            "tstamp_mode", "sw_params"}

alsa_set_snd_sw_params(refused) == refused \intersect SwCalls = {}

Calls == HwCalls({}) \union HwCalls({"buffer_time"}) \union SwCalls
             \union {"buffer_time", "rate", "hw_params"}

(* One call fails, or the time of the buffer and one more.                 *)
Refusals == {{}} \union {{c} : c \in Calls} \union {{"buffer_time", c} : c \in Calls}

setAlsaSoundParams(refused) ==
    LET hw == alsa_set_snd_hw_params(refused)
        ok == hw.ok /\ alsa_set_snd_sw_params(refused)
    IN  /\ device' = IF ~ok THEN "closed" ELSE IF hw.commits THEN "open" ELSE "bad"
        /\ mALSASinkCtx' = ok

alsa_snd_create(opens, refused) ==
    IF opens THEN setAlsaSoundParams(refused) ELSE UNCHANGED <<device, mALSASinkCtx>>

(* init() reports success whatever the card says.                          *)
init ==
    /\ player = "new" /\ player' = "prepared"
    /\ \E opens \in BOOLEAN, refused \in Refusals : alsa_snd_create(opens, refused)
    /\ UNCHANGED <<cmd, commands, mPlayStatus, threadVars, queueVars, deliverVars, mCurPosition>>

alsa_snd_destroy == device' = "closed" /\ mALSASinkCtx' = FALSE

-----------------------------------------------------------------------------
(* The frames.                                                             *)

(* The deliver thread takes a frame while the player plays, and brings it  *)
(* whatever has happened since.                                            *)
TakeFrame ==
    /\ player = "started" /\ hand = 0 /\ pushed < Frames
    /\ hand' = pushed + 1 /\ pushed' = pushed + 1
    /\ \E eos \in BOOLEAN : mEos' = IF eos THEN mEos \union {pushed + 1} ELSE mEos
    /\ UNCHANGED <<cmdVars, mPlayStatus, threadVars, queueVars, device, mALSASinkCtx, mCurPosition>>

pushBuffer ==
    /\ hand # 0
    /\ mDeque' = Append(mDeque, hand) /\ hand' = 0
    /\ UNCHANGED <<cmdVars, mPlayStatus, threadVars, returned, pushed, mEos, device, mALSASinkCtx,
                   mCurPosition>>

(* Mutant: the frames are dropped and not given back.                      *)
FlushDrops ==
    /\ mDeque' = <<>> /\ mCurPosition' = "never"
    /\ UNCHANGED returned

onFlush ==
    /\ mDeque' = <<>> /\ mCurPosition' = "never"
    /\ returned' = [f \in 1..Frames |-> returned[f] + Cardinality({i \in DOMAIN mDeque : mDeque[i] = f})]

-----------------------------------------------------------------------------
(* The commands.                                                           *)

Command(from, to) ==
    /\ cmd = "none" /\ commands < MaxCommands /\ player \in from
    /\ player' = to /\ commands' = commands + 1

RtThread_start ==
    IF mLoopState = "THREAD_LOOP" THEN UNCHANGED <<mTid, pc>> ELSE mTid' = TRUE /\ pc' = "born"

Start ==
    /\ pc \notin {"born", "setloop"}
    /\ RtThread_start
    /\ mPlayStatus' = "PLAY_START"
    /\ UNCHANGED <<mLoopState, input, sent, heard, spoilt, completes, handled, queueVars, deliverVars,
                   device, mALSASinkCtx, mCurPosition>>

onStart == Command({"prepared", "paused", "complete"}, "started") /\ UNCHANGED cmd /\ Start

onPause ==
    /\ Command({"started"}, "paused") /\ UNCHANGED cmd
    /\ mPlayStatus' = "PLAY_PAUSED"
    /\ UNCHANGED <<threadVars, queueVars, deliverVars, device, mALSASinkCtx, mCurPosition>>

(* RtThread::requestInterruption(), also of a thread that never was.       *)
Interrupt ==
    /\ mPlayStatus' = "PLAY_STOPPED" /\ mLoopState' = "THREAD_EXIT"
    /\ UNCHANGED <<mTid, pc, input, sent, heard, spoilt, completes, handled, deliverVars,
                   device, mALSASinkCtx>>

onStop ==
    /\ Command({"started", "paused", "complete"} \union (IF StopsIdle THEN {"prepared"} ELSE {}), "stopped")
    /\ cmd' = "exit"
    /\ Interrupt /\ UNCHANGED <<queueVars, mCurPosition>>

(* RtThread::join() asks a thread to end once more before it waits.        *)
JoinBegins ==
    /\ cmd = "exit" /\ cmd' = "join"
    /\ mLoopState' = IF mTid THEN "THREAD_EXIT" ELSE mLoopState
    /\ UNCHANGED <<player, commands, mPlayStatus, mTid, pc, input, sent, heard, spoilt, completes, handled,
                   queueVars, deliverVars, device, mALSASinkCtx, mCurPosition>>

prepare ==
    /\ Command({"stopped"}, "prepared")
    /\ UNCHANGED <<cmd, mPlayStatus, threadVars, queueVars, deliverVars, device, mALSASinkCtx, mCurPosition>>

(* A seek pauses, flushes and starts; the end of the stream pauses,        *)
(* flushes and resets.                                                     *)
Seek ==
    /\ Command({"prepared", "started", "paused", "complete"}, "seeking") /\ cmd' = "seek"
    /\ mPlayStatus' = "PLAY_PAUSED"
    /\ UNCHANGED <<threadVars, queueVars, deliverVars, device, mALSASinkCtx, mCurPosition>>

PlaybackDone ==
    /\ completes > 0 /\ Command({"started"}, "complete") /\ cmd' = "reset"
    /\ mPlayStatus' = "PLAY_PAUSED"
    /\ UNCHANGED <<threadVars, queueVars, deliverVars, device, mALSASinkCtx, mCurPosition>>

SeekFlush ==
    /\ cmd = "seek" /\ cmd' = "start" /\ onFlush
    /\ UNCHANGED <<player, commands, mPlayStatus, threadVars, deliverVars, device, mALSASinkCtx>>

SeekStart ==
    /\ cmd = "start" /\ cmd' = "none" /\ player' = "started" /\ UNCHANGED commands
    /\ Start

onReset ==
    /\ cmd = "reset" /\ cmd' = "none" /\ onFlush /\ mPlayStatus' = "PLAY_STOPPED"
    /\ UNCHANGED <<player, commands, threadVars, deliverVars, device, mALSASinkCtx>>

(* RtThread::join() leaves the state alone when there is no thread.        *)
Joined ==
    /\ mTid => pc = "gone"
    /\ mTid' = FALSE
    /\ IF mTid THEN mLoopState' = "THREAD_IDLE" /\ pc' = "none" ELSE UNCHANGED <<mLoopState, pc>>

Join ==
    /\ cmd = "join" /\ Joined
    /\ cmd' = "none" /\ onFlush
    /\ UNCHANGED <<player, commands, mPlayStatus, input, sent, heard, spoilt, completes, handled,
                   deliverVars, device, mALSASinkCtx>>

(* release(), from the destructor; the deliver thread has ended.           *)
release ==
    /\ cmd = "none" /\ hand = 0 /\ player = "stopped" /\ player' = "released" /\ cmd' = "close"
    /\ Interrupt /\ onFlush /\ UNCHANGED commands

closeSoundCard ==
    /\ cmd = "close" /\ Joined /\ cmd' = "none"
    /\ onFlush /\ alsa_snd_destroy
    /\ UNCHANGED <<player, commands, mPlayStatus, input, sent, heard, spoilt, completes, handled, deliverVars>>

-----------------------------------------------------------------------------
(* The thread of the sink.                                                 *)

sinkRest == <<cmdVars, mPlayStatus, mTid, deliverVars, device, mALSASinkCtx>>

(* The new thread reads its state ...                                      *)
thread_looping ==
    /\ pc = "born" /\ pc' = IF mLoopState = "THREAD_IDLE" THEN "setloop" ELSE "test"
    /\ UNCHANGED <<sinkRest, mLoopState, input, sent, heard, spoilt, completes, handled, queueVars, mCurPosition>>

(* ... and writes it, whatever it has become in between.                   *)
SetLoop ==
    /\ pc = "setloop" /\ pc' = "test" /\ mLoopState' = "THREAD_LOOP"
    /\ UNCHANGED <<sinkRest, input, sent, heard, spoilt, completes, handled, queueVars, mCurPosition>>

LoopEnds ==
    /\ pc = "test" /\ mLoopState # "THREAD_LOOP" /\ pc' = "gone"
    /\ UNCHANGED <<sinkRest, mLoopState, input, sent, heard, spoilt, completes, handled, queueVars, mCurPosition>>

LoopPaused ==
    /\ pc = "test" /\ mLoopState = "THREAD_LOOP" /\ mPlayStatus = "PLAY_PAUSED"
    /\ mCurPosition' = "never"
    /\ UNCHANGED <<sinkRest, threadVars, queueVars>>

LoopTakes ==
    /\ pc = "test" /\ mLoopState = "THREAD_LOOP" /\ mPlayStatus # "PLAY_PAUSED" /\ mDeque # <<>>
    /\ input' = Head(mDeque) /\ mDeque' = Tail(mDeque) /\ sent' = 0
    /\ pc' = IF mALSASinkCtx THEN "write" ELSE "give"
    /\ UNCHANGED <<sinkRest, mLoopState, heard, spoilt, completes, handled, returned, mCurPosition>>

(* Mutant: the time of the last write is kept, and so the end is reported  *)
(* again and again.                                                        *)
StarvesOn ==
    /\ pc = "test" /\ mLoopState = "THREAD_LOOP" /\ mPlayStatus # "PLAY_PAUSED" /\ mDeque = <<>>
    /\ mCurPosition = "2s" /\ completes <= Frames
    /\ completes' = completes + 1 /\ handled' = FALSE
    /\ UNCHANGED <<sinkRest, mCurPosition, mLoopState, pc, input, sent, heard, spoilt, queueVars>>

(* Two seconds without a frame are the end of the stream.                  *)
LoopStarves ==
    /\ pc = "test" /\ mLoopState = "THREAD_LOOP" /\ mPlayStatus # "PLAY_PAUSED" /\ mDeque = <<>>
    /\ mCurPosition = "2s"
    /\ mCurPosition' = "never" /\ completes' = completes + 1 /\ handled' = FALSE
    /\ UNCHANGED <<sinkRest, mLoopState, pc, input, sent, heard, spoilt, queueVars>>

(* Mutant: the last piece is less than the card takes, and is offered for  *)
(* ever.                                                                   *)
WriteStuck ==
    /\ pc = "write" /\ device = "open" /\ sent + 1 < Pieces
    /\ sent' = sent + 1
    /\ heard' = Append(heard, <<input, sent + 1>>)
    /\ UNCHANGED <<sinkRest, mLoopState, pc, mCurPosition, input, spoilt, completes, handled, queueVars>>

(* The loop of alsa_snd_write_data(): what writei() took is counted until  *)
(* all is sent.                                                            *)
alsa_snd_write_data ==
    /\ pc = "write" /\ device = "open"
    /\ sent' = sent + 1
    /\ heard' = Append(heard, <<input, sent + 1>>)
    /\ pc' = IF sent' = Pieces THEN "give" ELSE "write"
    /\ mCurPosition' = IF sent' = Pieces THEN "now" ELSE mCurPosition
    /\ UNCHANGED <<sinkRest, mLoopState, input, spoilt, completes, handled, queueVars>>

(* An error that snd_pcm_recover() does not mend ends the frame; one that  *)
(* it mends changes nothing.                                               *)
WriteFails ==
    /\ pc = "write" /\ device \in {"open", "bad"}
    /\ device = "open" => Cardinality(spoilt) < MaxErrors
    /\ spoilt' = spoilt \union {input}
    /\ pc' = "give" /\ mCurPosition' = "now"
    /\ UNCHANGED <<sinkRest, mLoopState, input, sent, heard, completes, handled, queueVars>>

(* The frame goes back to its pool, and its mark ends the stream.          *)
LoopGives ==
    /\ pc = "give" /\ pc' = "test" /\ input' = 0
    /\ returned' = [returned EXCEPT ![input] = @ + 1]
    /\ IF input \in mEos
       THEN completes' = completes + 1 /\ mCurPosition' = "never" /\ handled' = FALSE
       ELSE UNCHANGED <<completes, mCurPosition>> /\ handled' = TRUE
    /\ UNCHANGED <<sinkRest, mLoopState, sent, heard, spoilt, mDeque>>

runTask == thread_looping \/ SetLoop \/ LoopEnds \/ LoopPaused \/ LoopTakes \/ LoopStarves \/ LoopGives
               \/ alsa_snd_write_data \/ WriteFails

TwoSecondsPass ==
    /\ mCurPosition = "now" /\ mCurPosition' = "2s"
    /\ UNCHANGED <<cmdVars, mPlayStatus, threadVars, queueVars, deliverVars, device, mALSASinkCtx>>

-----------------------------------------------------------------------------
runCmd == onStart \/ onPause \/ onStop \/ prepare \/ Seek \/ PlaybackDone \/ release
CmdGoesOn == SeekFlush \/ SeekStart \/ onReset \/ JoinBegins \/ Join \/ closeSoundCard

Next ==
    \/ init \/ runCmd \/ CmdGoesOn
    \/ TakeFrame \/ pushBuffer
    \/ runTask \/ TwoSecondsPass

(* The threads run; the player need not command anything.                  *)
Fairness == WF_vars(runTask) /\ WF_vars(CmdGoesOn) /\ WF_vars(pushBuffer)

Spec == Init /\ [][Next]_vars /\ Fairness

-----------------------------------------------------------------------------
(* The card gets the frames in their order and each from its start to its  *)
(* end; only an error of the card cuts one.                                *)
HeardInOrder ==
    \A i \in 1..(Len(heard) - 1) :
        LET a == heard[i] b == heard[i + 1]
        IN  \/ b = <<a[1], a[2] + 1>>
            \/ b[1] > a[1] /\ b[2] = 1 /\ (a[2] = Pieces \/ a[1] \in spoilt)

(* No frame goes back twice, the thread writes to an open card only, and a *)
(* sink that was released has given every frame back and closed the card.  *)
FramesBack ==
    /\ \A f \in 1..Frames : returned[f] <= 1
    /\ pc = "write" => device # "closed"
    /\ player = "released" /\ cmd = "none" =>
         /\ \A f \in 1..pushed : returned[f] = 1
         /\ device = "closed" /\ pc = "none"

(* What is pushed is heard, in order, and goes back once.                  *)
FramesKept == HeardInOrder /\ FramesBack

(* The end is reported again only after another frame.                     *)
CompleteOnce ==
    [][completes' # completes => (handled \/ input # 0)]_vars

(* A command comes to its end: the thread does not keep join() waiting,    *)
(* unless it overwrites the last THREAD_EXIT as it begins.                 *)
StopReturns ==
    \/ <>(cmd = "join" /\ pc = "setloop")
    \/ (cmd # "none") ~> (cmd = "none")

(* "Call entry point only if thread was not canceled before starting"      *)
(* (rt_os_thread.cpp:50), and a START starts a thread: what is queued      *)
(* while the player plays is played, or something else is commanded.       *)
StartedPlays == (player = "started" /\ mDeque # <<>>) ~> (player # "started" \/ mDeque = <<>>)
=============================================================================
