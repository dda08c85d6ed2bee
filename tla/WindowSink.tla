------------------------------- MODULE WindowSink -------------------------------
(***************************************************************************)
(* RTAWindowSink: it connects to a native window, draws frames into the    *)
(* window's buffers, and blanks the window by drawing one buffer more than *)
(* the window has.  The window and the compositor that shows its buffers   *)
(* in their order are Android's.                                           *)
(***************************************************************************)
EXTENDS Integers, Sequences, FiniteSets

CONSTANTS
    MIN_REF_BUFFER_COUNT,  \* 10 in the code
    SwBuffers,             \* 3 in the code
    MinUndequeued,         \* buffers that the window keeps for itself
    MaxCalls               \* bound on the calls of the sink's user

ASSUME WindowAssumption ==
    /\ MIN_REF_BUFFER_COUNT \in Nat /\ SwBuffers \in Nat /\ MaxCalls \in Nat
    /\ MinUndequeued \in 1..(MIN_REF_BUFFER_COUNT - 1) /\ MinUndequeued < SwBuffers

VARIABLES
    mState,        \* "DISCONNECTED", "CONNECTED"
    setting,       \* [count, dev], as checked
    mRenderBuffers,
    call,          \* the call in progress: "none", "frame", "alloc", "blank"
    idx,           \* its loop's counter
    anb,           \* the buffer in its hand, 0 if none
    refused,       \* the buffers with a frame that the window did not take
    calls,
    shownBlank,    \* the last drawing call was a renderBlank() that succeeded
    api,           \* whom the window is connected to: "none", "MEDIA", "CPU"
    owner,         \* of each buffer: "none", "free", "dequeued", "queued", "shown"
    queue,         \* what was drawn and not shown yet: <<buffer, content>>
    screen         \* "nothing", "video", "blank"

window == <<api, owner, queue, screen>>
sinkVars == <<mState, setting, mRenderBuffers, call, idx, anb, refused, calls, shownBlank>>
windowVars == <<sinkVars, window>>

Slots == 1..(MIN_REF_BUFFER_COUNT + 1)

-----------------------------------------------------------------------------
(* The window.                                                             *)

Count == Cardinality({s \in Slots : owner[s] # "none"})
Dequeued == {s \in Slots : owner[s] = "dequeued"}

(* A buffer count frees the buffers; the one shown stays on the screen.    *)
SetCount(n) ==
    /\ owner' = [s \in Slots |-> IF s <= n THEN "free" ELSE "none"]
    /\ queue' = [i \in DOMAIN queue |-> <<0, queue[i][2]>>]

(* Nobody may hold so many that the window has not enough for itself.      *)
MayDequeue == Cardinality(Dequeued) < Count - MinUndequeued
dequeue_buffer_and_wait(s) == MayDequeue /\ owner[s] = "free"

Draw(s, content) ==
    /\ owner' = [owner EXCEPT ![s] = "queued"]
    /\ queue' = Append(queue, <<s, content>>)

Compose ==
    /\ queue # <<>>
    /\ screen' = Head(queue)[2] /\ queue' = Tail(queue)
    /\ owner' = [s \in Slots |-> IF s = Head(queue)[1] THEN "shown"
                                 ELSE IF owner[s] = "shown" THEN "free" ELSE owner[s]]
    /\ UNCHANGED <<sinkVars, api>>

WindowInit ==
    /\ mState = "DISCONNECTED" /\ setting = [count |-> 0, dev |-> "HW"] /\ mRenderBuffers = {}
    /\ call = "none" /\ idx = 0 /\ anb = 0 /\ refused = {} /\ calls = 0 /\ shownBlank = FALSE
    /\ api = "none" /\ owner = [s \in Slots |-> "none"] /\ queue = <<>> /\ screen = "nothing"

-----------------------------------------------------------------------------
(* Connection.                                                             *)

(* Too few buffers become the device's number; the device is put right     *)
(* after that.                                                             *)
checkRenderSetting(s) ==
    [count |-> IF s.count >= MIN_REF_BUFFER_COUNT THEN s.count
               ELSE IF s.dev = "HW" THEN MIN_REF_BUFFER_COUNT ELSE SwBuffers,
     dev |-> IF s.dev = "none" THEN "HW" ELSE s.dev]

Begin(ready) == call = "none" /\ calls < MaxCalls /\ (ready => mState = "CONNECTED") /\ calls' = calls + 1

(* The first call connects; a later one that fails leaves the connection,  *)
(* and the sink believes that there is none.                               *)
initRender ==
    /\ Begin(FALSE) /\ mState = "DISCONNECTED"
    /\ \E s \in [count : {0, MIN_REF_BUFFER_COUNT + 1}, dev : {"HW", "SW", "none"}] :
         setting' = checkRenderSetting(s)
    /\ \E fails \in {"connect", "setup", "nothing"} :
         /\ api # "none" => fails = "connect"
         /\ api' = IF fails = "connect" THEN api ELSE "MEDIA"
         /\ IF fails = "nothing"
            THEN mState' = "CONNECTED" /\ SetCount(setting'.count) /\ refused' = {}
            ELSE mState' = "DISCONNECTED" /\ UNCHANGED <<owner, queue, refused>>
    /\ UNCHANGED <<mRenderBuffers, call, idx, anb, shownBlank, screen>>

(* It disconnects another API than the one that is connected, which the    *)
(* window refuses.                                                         *)
releaseRender ==
    /\ Begin(FALSE) /\ mState = "CONNECTED"
    /\ UNCHANGED <<mState, setting, mRenderBuffers, call, idx, anb, refused, shownBlank, window>>

-----------------------------------------------------------------------------
(* Buffers and frames.                                                     *)

(* One buffer after the other, until the window gives no more.  The list   *)
(* is emptied first: users call it once.                                   *)
allocRenderBuffers ==
    /\ Begin(TRUE) /\ mRenderBuffers = {}
    /\ call' = "alloc" /\ idx' = 0 /\ mRenderBuffers' = {}
    /\ UNCHANGED <<mState, setting, anb, refused, shownBlank, window>>

AllocNext ==
    /\ call = "alloc"
    /\ \/ /\ idx < setting.count
          /\ \E s \in Slots :
               /\ dequeue_buffer_and_wait(s)
               /\ owner' = [owner EXCEPT ![s] = "dequeued"]
               /\ mRenderBuffers' = mRenderBuffers \union {s}
          /\ idx' = idx + 1 /\ UNCHANGED call
       \/ /\ idx = setting.count \/ ~MayDequeue
          /\ call' = "none" /\ idx' = 0
          /\ UNCHANGED <<owner, mRenderBuffers>>
    /\ UNCHANGED <<mState, setting, anb, refused, calls, shownBlank, api, queue, screen>>

renderFrame ==
    /\ Begin(TRUE) /\ call' = "frame"
    /\ UNCHANGED <<mState, setting, mRenderBuffers, idx, anb, refused, shownBlank, window>>

(* dequeBuffer(): an error of the window ends the call.                    *)
dequeBuffer ==
    /\ call = "frame" /\ anb = 0
    /\ \/ \E s \in Slots : /\ dequeue_buffer_and_wait(s)
                           /\ anb' = s /\ owner' = [owner EXCEPT ![s] = "dequeued"]
          /\ UNCHANGED call
       \/ ~MayDequeue /\ call' = "none" /\ UNCHANGED <<anb, owner>>
    /\ UNCHANGED <<mState, setting, mRenderBuffers, idx, refused, calls, shownBlank, api, queue, screen>>

queueBuffer ==
    /\ call = "frame" /\ anb # 0
    /\ Draw(anb, "video")
    /\ anb' = 0 /\ call' = "none" /\ shownBlank' = FALSE
    /\ UNCHANGED <<mState, setting, mRenderBuffers, idx, refused, calls, api, screen>>

(* The window does not take the frame: the callers pass over the error     *)
(* and give nothing back, so the buffer stays dequeued.                    *)
QueueFails ==
    /\ call = "frame" /\ anb # 0
    /\ refused' = refused \union {anb} /\ anb' = 0 /\ call' = "none"
    /\ UNCHANGED <<mState, setting, mRenderBuffers, idx, calls, shownBlank, window>>

(* Setting the frame's time may fail first; a software display has none.   *)
TimestampFails ==
    /\ call = "frame" /\ anb = 0 /\ call' = "none"
    /\ UNCHANGED <<mState, setting, mRenderBuffers, idx, anb, refused, calls, shownBlank, window>>

renderHWFrame == setting.dev = "HW" /\ (TimestampFails \/ dequeBuffer \/ queueBuffer \/ QueueFails)
renderSWFrame == setting.dev = "SW" /\ (dequeBuffer \/ queueBuffer \/ QueueFails)

-----------------------------------------------------------------------------
(* Blanking.                                                               *)

(* The window is left and entered again; whatever fails after that leaves  *)
(* the one API and enters the other.                                       *)
renderHWBlank ==
    /\ Begin(TRUE) /\ setting.dev = "HW"
    /\ \E fails \in {"disconnect", "connect", "setup", "nothing"} :
         /\ api # "MEDIA" => fails = "disconnect"
         /\ api' = CASE fails = "disconnect" -> api
                     [] fails = "connect" -> "none"
                     [] fails = "setup" -> "MEDIA"
                     [] OTHER -> "CPU"
         /\ IF fails = "nothing"
            THEN call' = "blank" /\ SetCount(MinUndequeued + 1)
            ELSE call' = "none" /\ UNCHANGED <<owner, queue>>
         /\ mRenderBuffers' = IF fails = "nothing" THEN {} ELSE mRenderBuffers
         /\ refused' = IF fails = "nothing" THEN {} ELSE refused
    /\ idx' = 0
    /\ UNCHANGED <<mState, setting, anb, shownBlank, screen>>

BlankDequeue ==
    /\ call = "blank" /\ anb = 0 /\ idx < MinUndequeued + 2
    /\ \E s \in Slots : dequeue_buffer_and_wait(s) /\ anb' = s /\ owner' = [owner EXCEPT ![s] = "dequeued"]
    /\ UNCHANGED <<mState, setting, mRenderBuffers, call, idx, refused, calls, shownBlank, api, queue, screen>>

BlankQueue ==
    /\ call = "blank" /\ anb # 0
    /\ Draw(anb, "blank")
    /\ anb' = 0 /\ idx' = idx + 1
    /\ UNCHANGED <<mState, setting, mRenderBuffers, call, refused, calls, shownBlank, api, screen>>

(* The window gives no buffer, or the one in hand cannot be locked or is   *)
(* not taken: then it is given back.                                       *)
BlankFails ==
    /\ call = "blank" /\ (anb # 0 \/ idx < MinUndequeued + 2)
    /\ anb' = 0 /\ owner' = [s \in Slots |-> IF s = anb THEN "free" ELSE owner[s]]
    /\ api' = "MEDIA" /\ call' = "none" /\ idx' = 0
    /\ UNCHANGED <<mState, setting, mRenderBuffers, refused, calls, shownBlank, queue, screen>>

(* Mutant: each buffer is drawn once.                                      *)
BlankOnce ==
    /\ call = "blank" /\ anb = 0 /\ idx = MinUndequeued + 1
    /\ call' = "none" /\ idx' = 0 /\ shownBlank' = TRUE
    /\ UNCHANGED <<mState, setting, mRenderBuffers, anb, refused, calls, window>>

(* One buffer more than there are is drawn, and the call returns.          *)
BlankDone ==
    /\ call = "blank" /\ anb = 0 /\ idx = MinUndequeued + 2
    /\ call' = "none" /\ idx' = 0 /\ shownBlank' = TRUE
    /\ UNCHANGED <<mState, setting, mRenderBuffers, anb, refused, calls, window>>

-----------------------------------------------------------------------------
CallGoesOn == AllocNext \/ renderHWFrame \/ renderSWFrame \/ BlankDequeue \/ BlankQueue \/ BlankFails \/ BlankDone

WindowNext ==
    \/ initRender \/ releaseRender \/ allocRenderBuffers \/ renderFrame \/ renderHWBlank
    \/ CallGoesOn
    \/ Compose

WindowSpec == WindowInit /\ [][WindowNext]_windowVars
                  /\ WF_windowVars(CallGoesOn) /\ WF_windowVars(Compose)

-----------------------------------------------------------------------------
(* When renderBlank() has succeeded "an previous video frames are          *)
(* guaranteed NOT to be currently displayed" (RTAWindowSink.cpp), and none *)
(* is shown later; and between the calls the sink holds no buffer but      *)
(* those it allocated, and those that the window did not take with a       *)
(* frame: these it never gives back.                                       *)
BlankReplaces ==
    /\ shownBlank /\ call = "none" =>
         screen = "blank" /\ \A i \in DOMAIN queue : queue[i][2] = "blank"
    /\ call = "none" => Dequeued \subseteq mRenderBuffers \union refused

(* A call that draws comes to an end: the buffer it waits for is freed.    *)
RenderReturns == (call # "none") ~> (call = "none")
=============================================================================
