------------------------------ MODULE OutputProofs ------------------------------
(***************************************************************************)
(* What the outputs guarantee: the ALSA sink for any number of frames,     *)
(* pieces and commands, whatever the sound card refuses; the volume for    *)
(* any range of the control; the window sink for any number of buffers of  *)
(* the window and any sequence of calls.                                   *)
(*                                                                         *)
(* The ALSA sink: a frame is at one place (PlaceInv): in the deliver       *)
(* thread's hand, in the deque, in the hand of the sink's thread, or given *)
(* back, and these places follow each other in the order of the frames     *)
(* (OrderInv), so that what the card took last (HeardInv) lies before      *)
(* whatever comes.  Nobody but stop and release, which join it, interrupts *)
(* a thread that has a frame (ThreadInv): a START never makes a second one *)
(* beside it.                                                              *)
(*                                                                         *)
(* The volume: the volume of the user is the one that was accepted last,   *)
(* also while a mute hides it (VolumeInv).                                 *)
(*                                                                         *)
(* The window sink: while renderBlank() draws, either the window has begun *)
(* to show what it drew, and nothing older is left to show, or each buffer *)
(* it drew still waits (BlankInv): then there are as many that wait as it  *)
(* drew.  It draws one more than the window has, so that it ends in the    *)
(* first case.                                                             *)
(***************************************************************************)
EXTENDS AudioSink, AudioVolume, WindowSink, FiniteSetTheorems, SequenceTheorems, TLAPS

-----------------------------------------------------------------------------
(* The ALSA sink.                                                          *)

Vals(q) == {q[i] : i \in DOMAIN q}

TypeOK ==
    /\ player \in {"new", "prepared", "started", "paused", "complete", "stopped", "seeking", "released"}
    /\ cmd \in {"none", "seek", "start", "reset", "exit", "join", "close"}
    /\ mLoopState \in {"THREAD_IDLE", "THREAD_LOOP", "THREAD_EXIT"} /\ mTid \in BOOLEAN
    /\ pc \in {"none", "born", "setloop", "test", "write", "give", "gone"}
    /\ input \in 0..Frames /\ sent \in 0..Pieces
    /\ mDeque \in Seq(1..Frames) /\ returned \in [1..Frames -> Nat]
    /\ hand \in 0..Frames /\ pushed \in 0..Frames /\ mEos \subseteq 1..Frames
    /\ device \in {"closed", "open", "bad"} /\ mALSASinkCtx \in BOOLEAN
    /\ mCurPosition \in {"never", "now", "2s"}
    /\ heard \in Seq((1..Frames) \X (1..Pieces)) /\ spoilt \subseteq 1..Frames
    /\ completes \in Nat /\ handled \in BOOLEAN

Busy == pc \in {"write", "give"}

(* Where the player and the thread are.                                    *)
ThreadInv ==
    /\ ~mTid => pc = "none"
    /\ input # 0 <=> Busy
    /\ Busy => mLoopState = "THREAD_LOOP" \/ cmd \in {"exit", "join", "close"}
    /\ cmd \in {"seek", "start"} => player = "seeking"
    /\ cmd \in {"exit", "join"} => player = "stopped"
    /\ cmd = "reset" => player = "complete"
    /\ cmd = "close" => player = "released"
    /\ player = "new" => pc = "none"

CardInv ==
    /\ mALSASinkCtx => device # "closed"
    /\ player = "new" => ~mALSASinkCtx
    /\ pc = "write" => device # "closed"

OrderInv ==
    /\ \A i, j \in DOMAIN mDeque : i < j => mDeque[i] < mDeque[j]
    /\ \A i \in DOMAIN mDeque : input < mDeque[i] /\ mDeque[i] <= pushed
    /\ input <= pushed
    /\ hand # 0 => hand = pushed /\ input < hand /\ \A i \in DOMAIN mDeque : mDeque[i] < hand

PlaceInv ==
    \A f \in 1..Frames :
        returned[f] = IF f <= pushed /\ f \notin Vals(mDeque) /\ f # input /\ f # hand THEN 1 ELSE 0

(* The card is in the middle of a frame.                                   *)
Midway == pc = "write" /\ sent > 0

LastHeard == heard[Len(heard)]

HeardInv ==
    /\ HeardInOrder
    /\ pc = "write" => sent < Pieces
    /\ Midway => heard # <<>> /\ LastHeard = <<input, sent>>
    /\ heard # <<>> =>
         /\ LastHeard[1] <= pushed
         /\ \A i \in DOMAIN mDeque : LastHeard[1] < mDeque[i]
         /\ hand # 0 => LastHeard[1] < hand
         /\ pc = "write" /\ sent = 0 => LastHeard[1] < input
         /\ ~Midway => LastHeard[2] = Pieces \/ LastHeard[1] \in spoilt

ReleasedInv ==
    player = "released" =>
        /\ hand = 0
        /\ cmd = "none" => mDeque = <<>> /\ pc = "none" /\ device = "closed"

(* The time of the last write counts only after a frame.                   *)
PositionInv == mCurPosition # "never" => handled \/ input # 0

Inv == /\ TypeOK /\ ThreadInv /\ CardInv /\ OrderInv /\ PlaceInv /\ HeardInv
       /\ ReleasedInv /\ PositionInv

-----------------------------------------------------------------------------
(* An increasing queue has each of its frames once.                        *)
LEMMA Once ==
  ASSUME NEW q \in Seq(Nat), \A i, j \in DOMAIN q : i < j => q[i] < q[j], NEW f
  PROVE  Cardinality({i \in DOMAIN q : q[i] = f}) = IF f \in Vals(q) THEN 1 ELSE 0
<1>1. CASE f \in Vals(q)
  <2>1. PICK k \in DOMAIN q : q[k] = f
    BY <1>1 DEF Vals
  <2>2. {i \in DOMAIN q : q[i] = f} = {k}
    <3>1. ASSUME NEW i \in DOMAIN q, q[i] = f, i # k PROVE FALSE
      <4>1. i < k \/ k < i
        BY <3>1
      <4> QED
        BY <2>1, <3>1, <4>1
    <3> QED
      BY <2>1, <3>1
  <2> QED
    BY <1>1, <2>2, FS_Singleton
<1>2. CASE f \notin Vals(q)
  <2>1. {i \in DOMAIN q : q[i] = f} = {}
    BY <1>2 DEF Vals
  <2> QED
    BY <1>2, <2>1, FS_EmptySet
<1> QED
  BY <1>1, <1>2

(* What the card took last is a piece of a frame.                          *)
LEMMA LastHeardType ==
  ASSUME TypeOK, heard # <<>>
  PROVE  /\ Len(heard) \in Nat \ {0} /\ LastHeard \in (1..Frames) \X (1..Pieces)
         /\ LastHeard[1] \in 1..Frames /\ LastHeard[2] \in 1..Pieces
<1>1. heard \in Seq((1..Frames) \X (1..Pieces))
  BY DEF TypeOK
<1>2. Len(heard) \in Nat \ {0} /\ LastHeard \in (1..Frames) \X (1..Pieces)
  BY <1>1 DEF LastHeard
<1> QED
  BY <1>2

LEMMA FlushPlaces ==
  ASSUME Inv, onFlush, UNCHANGED <<input, hand, pushed>>
  PROVE  /\ mDeque' \in Seq(1..Frames) /\ returned' \in [1..Frames -> Nat]
         /\ OrderInv' /\ PlaceInv'
<1> USE AudioSinkAssumption
<1>1. mDeque' = <<>> /\ Vals(mDeque') = {}
  BY DEF onFlush, Vals
<1>2. ASSUME NEW f \in 1..Frames
      PROVE  returned'[f] = returned[f] + IF f \in Vals(mDeque) THEN 1 ELSE 0
  <2>1. mDeque \in Seq(Nat)
    BY DEF Inv, TypeOK
  <2>2. Cardinality({i \in DOMAIN mDeque : mDeque[i] = f}) = IF f \in Vals(mDeque) THEN 1 ELSE 0
    BY <2>1, Once DEF Inv, OrderInv
  <2> QED
    BY <2>2 DEF onFlush
<1>3. ASSUME NEW f \in Vals(mDeque)
      PROVE  f \in 1..pushed /\ f # input /\ f # hand
  BY DEF Inv, OrderInv, TypeOK, Vals
<1>4. PlaceInv'
  <2> SUFFICES ASSUME NEW f \in 1..Frames
               PROVE  returned'[f] = IF f <= pushed /\ f # input /\ f # hand THEN 1 ELSE 0
    BY <1>1 DEF PlaceInv
  <2>1. CASE f \in Vals(mDeque)
    <3>1. f <= pushed /\ f # input /\ f # hand
      BY <1>3, <2>1
    <3>2. returned[f] = 0
      BY <2>1 DEF Inv, PlaceInv
    <3> QED
      BY <1>2, <2>1, <3>1, <3>2
  <2>2. CASE f \notin Vals(mDeque)
    <3>1. returned'[f] = returned[f] + 0
      BY <1>2, <2>2
    <3> QED
      BY <2>2, <3>1 DEF Inv, PlaceInv
  <2> QED
    BY <2>1, <2>2
<1>5. returned' \in [1..Frames -> Nat]
  <2>1. ASSUME NEW f \in 1..Frames PROVE returned'[f] \in Nat
    <3>1. returned[f] \in Nat
      BY DEF Inv, TypeOK
    <3> QED
      BY <1>2, <3>1
  <2> QED
    BY <2>1 DEF onFlush
<1>6. OrderInv'
  BY <1>1 DEF Inv, OrderInv
<1> QED
  BY <1>1, <1>4, <1>5, <1>6

LEMMA InitInv == Init => Inv
<1> SUFFICES ASSUME Init PROVE Inv
  OBVIOUS
<1> USE AudioSinkAssumption DEF Init
<1>1. TypeOK
  <2>1. heard \in Seq((1..Frames) \X (1..Pieces)) /\ mDeque \in Seq(1..Frames)
    OBVIOUS
  <2>2. returned \in [1..Frames -> Nat]
    OBVIOUS
  <2>3. 0 \in 0..Frames /\ 0 \in 0..Pieces /\ 0 \in Nat
    OBVIOUS
  <2>4. mTid \in BOOLEAN /\ mALSASinkCtx \in BOOLEAN /\ handled \in BOOLEAN
    OBVIOUS
  <2> QED
    BY <2>1, <2>2, <2>3, <2>4 DEF TypeOK
<1>4. ThreadInv /\ CardInv
  BY DEF ThreadInv, CardInv, Busy
<1>2. OrderInv /\ PlaceInv
  BY DEF OrderInv, PlaceInv, Vals
<1>3. HeardInv /\ ReleasedInv /\ PositionInv
  BY DEF HeardInv, HeardInOrder, Midway, ReleasedInv, PositionInv
<1> QED
  BY <1>1, <1>2, <1>3, <1>4 DEF Inv

-----------------------------------------------------------------------------
(* The commands.                                                           *)

(* A command that neither starts nor stops anything leaves most alone.     *)
LEMMA QuietInv ==
  ASSUME Inv, onPause \/ prepare \/ Seek \/ PlaybackDone
  PROVE  Inv'
<1> USE DEF onPause, prepare, Seek, PlaybackDone, Command, threadVars, queueVars, deliverVars
<1>1. TypeOK' /\ ThreadInv' /\ CardInv'
  <2>1. TypeOK'
    BY DEF Inv, TypeOK
  <2>2. ThreadInv'
    BY DEF Inv, TypeOK, ThreadInv, Busy
  <2>3. CardInv'
    BY DEF Inv, TypeOK, ThreadInv, CardInv, Busy
  <2> QED
    BY <2>1, <2>2, <2>3
<1>2. OrderInv' /\ PlaceInv'
  BY DEF Inv, OrderInv, PlaceInv, Vals
<1>3. HeardInv'
  BY DEF Inv, HeardInv, HeardInOrder, Midway, LastHeard
<1>4. ReleasedInv' /\ PositionInv'
  BY DEF Inv, ReleasedInv, PositionInv
<1> QED
  BY <1>1, <1>2, <1>3, <1>4 DEF Inv

LEMMA StartInv ==
  ASSUME Inv, onStart \/ SeekStart
  PROVE  Inv'
<1> USE DEF onStart, SeekStart, Start, Command, queueVars, deliverVars
<1>0. cmd \notin {"exit", "join", "close"} /\ pc' # "write" => ~Busy \/ pc' = pc
  BY DEF Inv, ThreadInv, RtThread_start, Busy
<1>1. TypeOK' /\ ThreadInv' /\ CardInv'
  <2>1. TypeOK'
    <3>1. mTid' \in BOOLEAN /\ pc' \in {"none", "born", "setloop", "test", "write", "give", "gone"}
      BY DEF Inv, TypeOK, RtThread_start
    <3>2. player' \in {"started"} /\ cmd' \in {cmd, "none"}
      OBVIOUS
    <3> QED
      BY <3>1, <3>2 DEF Inv, TypeOK
  <2>2. ThreadInv'
    BY DEF Inv, TypeOK, ThreadInv, RtThread_start, Busy
  <2>3. CardInv'
    BY DEF Inv, TypeOK, ThreadInv, CardInv, RtThread_start, Busy
  <2> QED
    BY <2>1, <2>2, <2>3
<1>2. OrderInv' /\ PlaceInv'
  BY DEF Inv, OrderInv, PlaceInv, Vals
<1>3. Midway' = Midway /\ (pc' = "write" <=> pc = "write")
  BY DEF Inv, ThreadInv, RtThread_start, Busy, Midway
<1>4. HeardInv'
  BY <1>3 DEF Inv, HeardInv, HeardInOrder, LastHeard
<1>5. ReleasedInv' /\ PositionInv'
  BY DEF Inv, ReleasedInv, PositionInv, ThreadInv
<1> QED
  BY <1>1, <1>2, <1>4, <1>5 DEF Inv

LEMMA InitSinkInv ==
  ASSUME Inv, init
  PROVE  Inv'
<1> USE DEF init, threadVars, queueVars, deliverVars
<1>1. /\ device' \in {"closed", "open", "bad"} /\ mALSASinkCtx' \in BOOLEAN
      /\ mALSASinkCtx' => device' # "closed"
  BY DEF Inv, TypeOK, CardInv, alsa_snd_create, setAlsaSoundParams, alsa_set_snd_hw_params, alsa_set_snd_sw_params
<1>2. TypeOK' /\ ThreadInv' /\ CardInv'
  <2>1. TypeOK'
    BY <1>1 DEF Inv, TypeOK
  <2>2. ThreadInv'
    BY <1>1 DEF Inv, TypeOK, ThreadInv, Busy
  <2>3. CardInv'
    BY <1>1 DEF Inv, TypeOK, ThreadInv, CardInv, Busy
  <2> QED
    BY <2>1, <2>2, <2>3
<1>3. OrderInv' /\ PlaceInv'
  BY DEF Inv, OrderInv, PlaceInv, Vals
<1>4. HeardInv'
  BY DEF Inv, HeardInv, HeardInOrder, Midway, LastHeard
<1>5. ReleasedInv' /\ PositionInv'
  BY DEF Inv, ReleasedInv, PositionInv
<1> QED
  BY <1>2, <1>3, <1>4, <1>5 DEF Inv

LEMMA StopInv ==
  ASSUME Inv, onStop \/ JoinBegins
  PROVE  Inv'
<1> USE DEF onStop, JoinBegins, Command, Interrupt, queueVars, deliverVars
<1>1. TypeOK' /\ ThreadInv' /\ CardInv'
  <2>1. TypeOK'
    BY DEF Inv, TypeOK
  <2>2. ThreadInv'
    BY DEF Inv, TypeOK, ThreadInv, Busy
  <2>3. CardInv'
    BY DEF Inv, TypeOK, ThreadInv, CardInv, Busy
  <2> QED
    BY <2>1, <2>2, <2>3
<1>2. OrderInv' /\ PlaceInv'
  BY DEF Inv, OrderInv, PlaceInv, Vals
<1>3. HeardInv'
  BY DEF Inv, HeardInv, HeardInOrder, Midway, LastHeard
<1>4. ReleasedInv' /\ PositionInv'
  BY DEF Inv, ReleasedInv, PositionInv
<1> QED
  BY <1>1, <1>2, <1>3, <1>4 DEF Inv

(* What empties the deque: a seek, the end of the playback, and the two    *)
(* commands that join the thread.                                          *)
LEMMA FlushInv ==
  ASSUME Inv, SeekFlush \/ onReset \/ Join \/ release \/ closeSoundCard
  PROVE  Inv'
<1> USE DEF SeekFlush, onReset, Join, release, closeSoundCard, threadVars, deliverVars, Interrupt
<1>1. onFlush /\ UNCHANGED <<input, sent, hand, pushed, heard, spoilt, handled, completes, mEos>>
  OBVIOUS
<1>2. mDeque' \in Seq(1..Frames) /\ returned' \in [1..Frames -> Nat] /\ OrderInv' /\ PlaceInv'
  BY <1>1, FlushPlaces
<1>3. mDeque' = <<>> /\ mCurPosition' = "never"
  BY <1>1 DEF onFlush
<1>4. TypeOK' /\ ThreadInv' /\ CardInv'
  <2>1. TypeOK'
    BY <1>1, <1>2, <1>3 DEF Inv, TypeOK, Joined, alsa_snd_destroy
  <2>2. ThreadInv'
    BY <1>1, <1>2, <1>3 DEF Inv, TypeOK, ThreadInv, Joined, Busy, alsa_snd_destroy
  <2>3. CardInv'
    BY <1>1, <1>2, <1>3 DEF Inv, TypeOK, ThreadInv, CardInv, Joined, Busy, alsa_snd_destroy
  <2> QED
    BY <2>1, <2>2, <2>3
<1>5. pc' = "write" <=> pc = "write"
  BY DEF Inv, ThreadInv, Joined, Busy
<1>6. HeardInv'
  BY <1>1, <1>3, <1>5 DEF Inv, HeardInv, HeardInOrder, Midway, LastHeard
<1>7. ReleasedInv' /\ PositionInv'
  BY <1>1, <1>3 DEF Inv, ReleasedInv, PositionInv, ThreadInv, Joined, alsa_snd_destroy
<1> QED
  BY <1>2, <1>4, <1>6, <1>7 DEF Inv

-----------------------------------------------------------------------------
(* The deliver thread.                                                     *)

LEMMA TakeInv ==
  ASSUME Inv, TakeFrame
  PROVE  Inv'
<1> USE AudioSinkAssumption DEF TakeFrame, cmdVars, threadVars, queueVars
<1>1. TypeOK' /\ ThreadInv' /\ CardInv'
  <2>1. TypeOK'
    BY DEF Inv, TypeOK
  <2>2. ThreadInv'
    BY DEF Inv, TypeOK, ThreadInv, Busy
  <2>3. CardInv'
    BY DEF Inv, TypeOK, ThreadInv, CardInv, Busy
  <2> QED
    BY <2>1, <2>2, <2>3
<1>2. OrderInv'
  BY DEF Inv, TypeOK, OrderInv
<1>3. PlaceInv'
  BY DEF Inv, TypeOK, OrderInv, PlaceInv, Vals
<1>4. HeardInv'
  <2>1. HeardInOrder' /\ LastHeard' = LastHeard /\ Midway' = Midway
    BY DEF Inv, HeardInv, HeardInOrder, LastHeard, Midway
  <2>2. heard # <<>> => LastHeard[1] \in Nat /\ LastHeard[1] <= pushed /\ pushed \in Nat
    BY LastHeardType DEF Inv, HeardInv, TypeOK
  <2> QED
    BY <2>1, <2>2 DEF Inv, HeardInv
<1>5. ReleasedInv' /\ PositionInv'
  BY DEF Inv, ReleasedInv, PositionInv
<1> QED
  BY <1>1, <1>2, <1>3, <1>4, <1>5 DEF Inv

LEMMA PushInv ==
  ASSUME Inv, pushBuffer
  PROVE  Inv'
<1> USE AudioSinkAssumption DEF pushBuffer, cmdVars, threadVars
<1>0. hand \in 1..Frames /\ mDeque \in Seq(1..Frames)
  BY DEF Inv, TypeOK
<1>1. /\ mDeque' \in Seq(1..Frames) /\ Len(mDeque') = Len(mDeque) + 1
      /\ DOMAIN mDeque = 1..Len(mDeque) /\ DOMAIN mDeque' = 1..(Len(mDeque) + 1)
      /\ \A i \in 1..Len(mDeque) : mDeque'[i] = mDeque[i]
      /\ mDeque'[Len(mDeque) + 1] = hand
  BY <1>0
<1>2. TypeOK' /\ ThreadInv' /\ CardInv'
  <2>1. TypeOK'
    BY <1>1 DEF Inv, TypeOK
  <2>2. ThreadInv'
    BY <1>1 DEF Inv, TypeOK, ThreadInv, Busy
  <2>3. CardInv'
    BY <1>1 DEF Inv, TypeOK, ThreadInv, CardInv, Busy
  <2> QED
    BY <2>1, <2>2, <2>3
<1>3. OrderInv'
  <2>0. hand = pushed /\ input < hand /\ input <= pushed /\ pushed \in Nat /\ input \in Nat
    BY DEF Inv, TypeOK, OrderInv
  <2>1. ASSUME NEW j \in 1..(Len(mDeque) + 1)
        PROVE  /\ mDeque'[j] \in Nat /\ input < mDeque'[j] /\ mDeque'[j] <= pushed
               /\ j \notin DOMAIN mDeque => j = Len(mDeque) + 1 /\ mDeque'[j] = hand
    <3>1. CASE j \in 1..Len(mDeque)
      BY <1>0, <1>1, <3>1 DEF Inv, OrderInv
    <3>2. CASE j = Len(mDeque) + 1
      BY <1>0, <1>1, <2>0, <3>2
    <3> QED
      BY <1>0, <3>1, <3>2
  <2>2. ASSUME NEW k \in DOMAIN mDeque', NEW j \in DOMAIN mDeque', k < j
        PROVE  mDeque'[k] < mDeque'[j]
    <3>1. k \in 1..Len(mDeque) /\ mDeque'[k] = mDeque[k]
      BY <1>0, <1>1, <2>2
    <3>2. CASE j \in 1..Len(mDeque)
      BY <1>1, <2>2, <3>1, <3>2 DEF Inv, OrderInv
    <3>3. CASE j = Len(mDeque) + 1
      BY <1>0, <1>1, <3>1, <3>3 DEF Inv, OrderInv
    <3> QED
      BY <1>0, <1>1, <3>2, <3>3
  <2> QED
    BY <1>1, <2>0, <2>1, <2>2 DEF OrderInv
<1>4. Vals(mDeque') = Vals(mDeque) \union {hand}
  BY <1>0, <1>1 DEF Vals
<1>5. PlaceInv'
  BY <1>0, <1>4 DEF Inv, TypeOK, OrderInv, PlaceInv
<1>6. HeardInv'
  <2>1. HeardInOrder' /\ LastHeard' = LastHeard /\ Midway' = Midway
    BY DEF Inv, HeardInv, HeardInOrder, LastHeard, Midway
  <2>2. ASSUME heard # <<>>, NEW j \in DOMAIN mDeque'
        PROVE  LastHeard[1] < mDeque'[j]
    <3>1. CASE j \in 1..Len(mDeque)
      BY <1>1, <2>2, <3>1 DEF Inv, HeardInv
    <3>2. CASE j = Len(mDeque) + 1
      BY <1>0, <1>1, <2>2, <3>2 DEF Inv, HeardInv
    <3> QED
      BY <1>0, <1>1, <3>1, <3>2
  <2> QED
    BY <2>1, <2>2 DEF Inv, HeardInv
<1>7. ReleasedInv' /\ PositionInv'
  BY DEF Inv, ReleasedInv, PositionInv
<1> QED
  BY <1>2, <1>3, <1>5, <1>6, <1>7 DEF Inv

-----------------------------------------------------------------------------
(* The thread.                                                             *)

(* It begins, ends, idles or reports the end.                              *)
LEMMA LoopInv ==
  ASSUME Inv, thread_looping \/ SetLoop \/ LoopEnds \/ LoopPaused \/ LoopStarves \/ TwoSecondsPass
  PROVE  Inv'
<1> USE DEF thread_looping, SetLoop, LoopEnds, LoopPaused, LoopStarves, TwoSecondsPass, sinkRest, cmdVars,
            threadVars, queueVars, deliverVars
<1>1. UNCHANGED <<input, sent, hand, pushed, heard, spoilt, mEos, mDeque, returned, device, mALSASinkCtx, cmd, player, mTid>>
  OBVIOUS
<1>2. (pc' = "write" <=> pc = "write") /\ (Busy <=> Busy') /\ (pc = "none" <=> pc' = "none")
  BY DEF Busy
<1>3. TypeOK'
  <2>1. pc' \in {"none", "born", "setloop", "test", "write", "give", "gone"} /\ mCurPosition' \in {"never", "now", "2s"}
    BY DEF Inv, TypeOK
  <2>2. mLoopState' \in {"THREAD_IDLE", "THREAD_LOOP", "THREAD_EXIT"}
    BY DEF Inv, TypeOK
  <2>3. completes' \in Nat /\ handled' \in BOOLEAN
    <3>1. completes' = completes \/ completes' = completes + 1
      OBVIOUS
    <3>2. handled' = handled \/ handled' = FALSE
      OBVIOUS
    <3>3. completes \in Nat /\ handled \in BOOLEAN
      BY DEF Inv, TypeOK
    <3>4. completes' \in Nat
      BY <3>1, <3>3
    <3>5. handled' \in BOOLEAN
      BY <3>2, <3>3
    <3> QED
      BY <3>4, <3>5
  <2> QED
    BY <1>1, <2>1, <2>2, <2>3 DEF Inv, TypeOK
<1>8. CardInv'
  BY <1>1, <1>2 DEF Inv, CardInv
<1>4. ThreadInv'
  BY <1>1, <1>2 DEF Inv, ThreadInv, Busy
<1>5. OrderInv' /\ PlaceInv'
  BY <1>1 DEF Inv, OrderInv, PlaceInv, Vals
<1>6. HeardInv'
  BY <1>1, <1>2 DEF Inv, HeardInv, HeardInOrder, Midway, LastHeard
<1>7. ReleasedInv' /\ PositionInv'
  BY <1>1, <1>2 DEF Inv, ReleasedInv, PositionInv
<1> QED
  BY <1>3, <1>4, <1>5, <1>6, <1>7, <1>8 DEF Inv

LEMMA TakesInv ==
  ASSUME Inv, LoopTakes
  PROVE  Inv'
<1> USE AudioSinkAssumption DEF LoopTakes, sinkRest, cmdVars, deliverVars
<1>0. mDeque \in Seq(1..Frames) /\ mDeque # <<>> /\ input = 0
  BY DEF Inv, TypeOK, ThreadInv, Busy
<1>1. /\ mDeque' \in Seq(1..Frames) /\ Len(mDeque) \in Nat \ {0} /\ Len(mDeque') = Len(mDeque) - 1
      /\ DOMAIN mDeque = 1..Len(mDeque) /\ DOMAIN mDeque' = 1..(Len(mDeque) - 1)
      /\ \A i \in 1..(Len(mDeque) - 1) : mDeque'[i] = mDeque[i + 1]
      /\ input' = mDeque[1] /\ input' \in 1..Frames
  BY <1>0
<1>2. TypeOK' /\ ThreadInv' /\ CardInv'
  <2>1. TypeOK'
    BY <1>0, <1>1 DEF Inv, TypeOK
  <2>2. ThreadInv'
    BY <1>0, <1>1 DEF Inv, TypeOK, ThreadInv, Busy
  <2>3. CardInv'
    BY <1>0, <1>1 DEF Inv, TypeOK, ThreadInv, CardInv, Busy
  <2> QED
    BY <2>1, <2>2, <2>3
<1>3. OrderInv'
  <2>1. ASSUME NEW i \in DOMAIN mDeque' 
        PROVE  i + 1 \in DOMAIN mDeque /\ mDeque'[i] = mDeque[i + 1] /\ 1 < i + 1 /\ 1 \in DOMAIN mDeque
    BY <1>1
  <2>2. \A i \in DOMAIN mDeque' : input' < mDeque'[i] /\ mDeque'[i] <= pushed
    BY <1>1, <2>1 DEF Inv, OrderInv
  <2>3. \A i, j \in DOMAIN mDeque' : i < j => mDeque'[i] < mDeque'[j]
    <3> SUFFICES ASSUME NEW i \in DOMAIN mDeque', NEW j \in DOMAIN mDeque', i < j
                 PROVE  mDeque'[i] < mDeque'[j]
      OBVIOUS
    <3>1. i + 1 < j + 1
      BY <1>1
    <3> QED
      BY <2>1, <3>1 DEF Inv, OrderInv
  <2>4. 1 \in DOMAIN mDeque
    BY <1>1
  <2>5. /\ input' <= pushed
        /\ hand # 0 => hand = pushed /\ input' < hand /\ \A i \in DOMAIN mDeque' : mDeque'[i] < hand
    BY <1>1, <2>1, <2>4 DEF Inv, OrderInv
  <2> QED
    BY <2>2, <2>3, <2>5 DEF OrderInv
<1>4. Vals(mDeque) = Vals(mDeque') \union {input'}
  <2>1. ASSUME NEW i \in 1..Len(mDeque), i # 1 PROVE i - 1 \in DOMAIN mDeque' /\ mDeque[i] = mDeque'[i - 1]
    <3>1. i - 1 \in 1..(Len(mDeque) - 1) /\ (i - 1) + 1 = i
      BY <1>1, <2>1
    <3> QED
      BY <1>1, <3>1
  <2>2. Vals(mDeque) \subseteq Vals(mDeque') \union {input'}
    <3> SUFFICES ASSUME NEW i \in 1..Len(mDeque) PROVE mDeque[i] \in Vals(mDeque') \union {input'}
      BY <1>1 DEF Vals
    <3>1. CASE i = 1
      BY <1>1, <3>1
    <3>2. CASE i # 1
      BY <2>1, <3>2 DEF Vals
    <3> QED
      BY <3>1, <3>2
  <2>3. Vals(mDeque') \subseteq Vals(mDeque)
    <3>1. ASSUME NEW i \in DOMAIN mDeque' PROVE i + 1 \in DOMAIN mDeque /\ mDeque'[i] = mDeque[i + 1]
      BY <1>1
    <3> QED
      BY <3>1 DEF Vals
  <2>4. input' \in Vals(mDeque)
    <3>1. 1 \in DOMAIN mDeque
      BY <1>1
    <3> QED
      BY <1>1, <3>1 DEF Vals
  <2> QED
    BY <2>2, <2>3, <2>4
<1>5. input' \notin Vals(mDeque')
  BY <1>1, <1>3 DEF OrderInv, Vals, TypeOK
<1>6. PlaceInv'
  BY <1>0, <1>1, <1>4, <1>5 DEF Inv, TypeOK, OrderInv, PlaceInv
<1>7. HeardInv'
  <2>1. HeardInOrder' /\ LastHeard' = LastHeard /\ ~Midway /\ ~Midway'
    BY DEF Inv, HeardInv, HeardInOrder, LastHeard, Midway
  <2>2. ASSUME NEW i \in DOMAIN mDeque' PROVE i + 1 \in DOMAIN mDeque /\ mDeque'[i] = mDeque[i + 1]
    BY <1>1
  <2>3. 1 \in DOMAIN mDeque
    BY <1>1
  <2> QED
    BY <1>1, <2>1, <2>2, <2>3, AudioSinkAssumption DEF Inv, HeardInv
<1>8. ReleasedInv' /\ PositionInv'
  BY <1>0, <1>1 DEF Inv, ReleasedInv, PositionInv, ThreadInv
<1> QED
  BY <1>2, <1>3, <1>6, <1>7, <1>8 DEF Inv

LEMMA WriteInv ==
  ASSUME Inv, alsa_snd_write_data
  PROVE  Inv'
<1> USE AudioSinkAssumption DEF alsa_snd_write_data, sinkRest, cmdVars, deliverVars, queueVars
<1>0. input \in 1..Frames /\ sent \in 0..(Pieces - 1) /\ heard \in Seq((1..Frames) \X (1..Pieces))
  BY DEF Inv, TypeOK, ThreadInv, HeardInv, Busy
<1>1. /\ heard' \in Seq((1..Frames) \X (1..Pieces)) /\ Len(heard') = Len(heard) + 1 /\ heard' # <<>>
      /\ Len(heard) \in Nat /\ (heard # <<>> <=> Len(heard) > 0)
      /\ \A i \in 1..Len(heard) : heard'[i] = heard[i]
      /\ heard'[Len(heard) + 1] = <<input, sent + 1>>
  BY <1>0
<1>2. TypeOK'
  <2>1. sent' \in 0..Pieces /\ pc' \in {"none", "born", "setloop", "test", "write", "give", "gone"}
        /\ mCurPosition' \in {"never", "now", "2s"}
    BY <1>0 DEF Inv, TypeOK
  <2> QED
    BY <1>1, <2>1 DEF Inv, TypeOK
<1>3. ThreadInv' /\ CardInv'
  BY <1>0 DEF Inv, ThreadInv, CardInv, Busy
<1>4. OrderInv' /\ PlaceInv'
  BY DEF Inv, OrderInv, PlaceInv, Vals
<1>5. heard # <<>> => \/ sent > 0 /\ LastHeard = <<input, sent>>
                      \/ sent = 0 /\ LastHeard[1] < input /\ (LastHeard[2] = Pieces \/ LastHeard[1] \in spoilt)
  BY <1>0 DEF Inv, HeardInv, Midway
<1>6. HeardInOrder'
  <2> SUFFICES ASSUME NEW i \in 1..(Len(heard') - 1)
               PROVE  \/ heard'[i + 1] = <<heard'[i][1], heard'[i][2] + 1>>
                      \/ /\ heard'[i + 1][1] > heard'[i][1] /\ heard'[i + 1][2] = 1
                         /\ heard'[i][2] = Pieces \/ heard'[i][1] \in spoilt
    BY DEF HeardInOrder
  <2>0. i \in 1..Len(heard)
    BY <1>1
  <2>1. CASE i < Len(heard)
    <3>1. i \in 1..(Len(heard) - 1) /\ heard'[i] = heard[i] /\ heard'[i + 1] = heard[i + 1]
      BY <1>1, <2>0, <2>1
    <3> QED
      BY <3>1 DEF Inv, HeardInv, HeardInOrder
  <2>2. CASE i = Len(heard)
    <3>1. heard # <<>> /\ heard'[i] = LastHeard /\ heard'[i + 1] = <<input, sent + 1>>
      BY <1>1, <2>0, <2>2 DEF LastHeard
    <3>2. CASE sent > 0 /\ LastHeard = <<input, sent>>
      BY <3>1, <3>2
    <3>3. CASE sent = 0 /\ LastHeard[1] < input /\ (LastHeard[2] = Pieces \/ LastHeard[1] \in spoilt)
      <4>1. input > LastHeard[1] /\ sent + 1 = 1
        BY <3>3, <1>0, <3>1, LastHeardType DEF Inv
      <4> QED
        BY <3>1, <3>3, <4>1
    <3> QED
      BY <1>5, <3>1, <3>2, <3>3
  <2>3. i < Len(heard) \/ i = Len(heard)
    BY <1>1, <2>0
  <2> QED
    BY <2>1, <2>2, <2>3
<1>7. LastHeard' = <<input, sent + 1>> /\ LastHeard'[1] = input /\ LastHeard'[2] = sent + 1
  BY <1>1 DEF LastHeard
<1>8. HeardInv'
  <2>1. Midway' <=> sent + 1 # Pieces
    BY <1>0 DEF Midway
  <2>2. /\ LastHeard'[1] <= pushed
        /\ \A i \in DOMAIN mDeque : LastHeard'[1] < mDeque[i]
        /\ hand # 0 => LastHeard'[1] < hand
    BY <1>7 DEF Inv, OrderInv
  <2>3. ~Midway' => LastHeard'[2] = Pieces
    BY <1>7, <2>1
  <2>4. pc' = "write" => sent' < Pieces /\ sent' # 0
    BY <1>0
  <2> QED
    BY <1>1, <1>6, <1>7, <2>1, <2>2, <2>3, <2>4 DEF HeardInv
<1>9. ReleasedInv' /\ PositionInv'
  BY <1>0 DEF Inv, ReleasedInv, PositionInv, ThreadInv
<1> QED
  BY <1>2, <1>3, <1>4, <1>8, <1>9 DEF Inv

LEMMA FailsInv ==
  ASSUME Inv, WriteFails
  PROVE  Inv'
<1> USE AudioSinkAssumption DEF WriteFails, sinkRest, cmdVars, deliverVars, queueVars
<1>0. input \in 1..Frames
  BY DEF Inv, TypeOK, ThreadInv, Busy
<1>1. TypeOK' /\ ThreadInv' /\ CardInv'
  <2>1. TypeOK'
    BY <1>0 DEF Inv, TypeOK
  <2>2. ThreadInv'
    BY <1>0 DEF Inv, TypeOK, ThreadInv, Busy
  <2>3. CardInv'
    BY <1>0 DEF Inv, TypeOK, ThreadInv, CardInv, Busy
  <2> QED
    BY <2>1, <2>2, <2>3
<1>2. OrderInv' /\ PlaceInv'
  BY DEF Inv, OrderInv, PlaceInv, Vals
<1>3. HeardInOrder'
  BY DEF Inv, HeardInv, HeardInOrder
<1>4. heard # <<>> => LastHeard[2] = Pieces \/ LastHeard[1] \in spoilt'
  BY DEF Inv, TypeOK, HeardInv, Midway
<1>5. HeardInv'
  BY <1>3, <1>4 DEF Inv, HeardInv, Midway, LastHeard
<1>6. ReleasedInv' /\ PositionInv'
  BY <1>0 DEF Inv, ReleasedInv, PositionInv, ThreadInv
<1> QED
  BY <1>1, <1>2, <1>5, <1>6 DEF Inv

LEMMA GivesInv ==
  ASSUME Inv, LoopGives
  PROVE  Inv'
<1> USE AudioSinkAssumption DEF LoopGives, sinkRest, cmdVars, deliverVars
<1>0. input \in 1..Frames /\ input <= pushed /\ input # hand /\ input \notin Vals(mDeque)
  BY DEF Inv, TypeOK, ThreadInv, OrderInv, Vals, Busy
<1>1. TypeOK'
  <2>1. returned' \in [1..Frames -> Nat]
    BY <1>0 DEF Inv, TypeOK
  <2>2. completes' \in Nat /\ handled' \in BOOLEAN /\ mCurPosition' \in {"never", "now", "2s"}
    <3>0. completes \in Nat /\ mCurPosition \in {"never", "now", "2s"}
      BY DEF Inv, TypeOK
    <3>1. completes' \in Nat /\ mCurPosition' \in {"never", "now", "2s"}
      BY <3>0
    <3>2. handled' \in BOOLEAN
      OBVIOUS
    <3> QED
      BY <3>1, <3>2
  <2> QED
    BY <2>1, <2>2 DEF Inv, TypeOK
<1>2. ThreadInv' /\ CardInv'
  BY <1>0 DEF Inv, ThreadInv, CardInv, Busy
<1>3. OrderInv'
  BY <1>0 DEF Inv, TypeOK, OrderInv
<1>4. PlaceInv'
  BY <1>0 DEF Inv, TypeOK, PlaceInv
<1>5. HeardInv'
  BY DEF Inv, HeardInv, HeardInOrder, Midway, LastHeard
<1>6. ReleasedInv' /\ PositionInv'
  BY <1>0 DEF Inv, ReleasedInv, PositionInv
<1> QED
  BY <1>1, <1>2, <1>3, <1>4, <1>5, <1>6 DEF Inv

LEMMA NextInv == Inv /\ [Next]_vars => Inv'
<1> SUFFICES ASSUME Inv, [Next]_vars PROVE Inv'
  OBVIOUS
<1>1. CASE Next
  BY <1>1, QuietInv, StartInv, InitSinkInv, StopInv, FlushInv, TakeInv, PushInv, LoopInv, TakesInv,
     WriteInv, FailsInv, GivesInv DEF Next, runCmd, CmdGoesOn, runTask
<1>2. CASE UNCHANGED vars
  <2> USE <1>2 DEF vars, cmdVars, threadVars, queueVars, deliverVars
  <2>1. TypeOK' /\ ThreadInv' /\ CardInv'
    BY DEF Inv, TypeOK, ThreadInv, CardInv, Busy
  <2>2. OrderInv' /\ PlaceInv'
    BY DEF Inv, OrderInv, PlaceInv, Vals
  <2>3. HeardInv' /\ ReleasedInv' /\ PositionInv'
    BY DEF Inv, HeardInv, HeardInOrder, Midway, LastHeard, ReleasedInv, PositionInv
  <2> QED
    BY <2>1, <2>2, <2>3 DEF Inv
<1> QED
  BY <1>1, <1>2

-----------------------------------------------------------------------------
(* FramesKept for any number of frames and pieces: the card hears the      *)
(* frames whole and in their order, unless its own error cuts one, no      *)
(* frame goes back twice, and release() leaves none (runTask(), flush(),   *)
(* release() of RTSinkAudioALSA).                                          *)
THEOREM FramesAreKept == Spec => []FramesKept
<1>1. Inv => FramesKept
  <2> SUFFICES ASSUME Inv PROVE FramesKept
    OBVIOUS
  <2>1. \A f \in 1..Frames : returned[f] <= 1
    BY DEF Inv, PlaceInv
  <2>2. player = "released" /\ cmd = "none" => \A f \in 1..pushed : returned[f] = 1
    <3> SUFFICES ASSUME player = "released", cmd = "none", NEW f \in 1..pushed
                 PROVE  returned[f] = 1
      OBVIOUS
    <3>1. mDeque = <<>> /\ hand = 0 /\ input = 0
      BY DEF Inv, ReleasedInv, ThreadInv, Busy
    <3>2. f \in 1..Frames /\ f <= pushed /\ f # 0 /\ f \notin Vals(mDeque)
      BY <3>1, AudioSinkAssumption DEF Inv, TypeOK, Vals
    <3> QED
      BY <3>1, <3>2 DEF Inv, PlaceInv
  <2>3. FramesBack
    BY <2>1, <2>2 DEF Inv, CardInv, ReleasedInv, FramesBack
  <2> QED
    BY <2>3 DEF Inv, HeardInv, FramesKept
<1> QED
  BY <1>1, InitInv, NextInv, PTL DEF Spec

(* CompleteOnce for any sequence of commands: between two reports of the   *)
(* end a frame was handled, although a mark and a pause of two seconds     *)
(* both report it (runTask() of RTSinkAudioALSA).                          *)
THEOREM CompletesOnce == Spec => CompleteOnce
<1>1. Inv /\ [Next]_vars => [completes' # completes => (handled \/ input # 0)]_vars
  <2> SUFFICES ASSUME Inv, Next, completes' # completes
               PROVE  handled \/ input # 0
    OBVIOUS
  <2>1. CASE LoopStarves
    BY <2>1 DEF LoopStarves, Inv, PositionInv
  <2>2. CASE LoopGives
    BY <2>2 DEF LoopGives, Inv, ThreadInv, Busy
  <2>3. CASE init \/ runCmd \/ TakeFrame \/ pushBuffer \/ TwoSecondsPass
    BY <2>3 DEF init, runCmd, onStart, onPause, onStop, prepare, Seek, PlaybackDone, release, Start,
       Interrupt, TakeFrame, pushBuffer, TwoSecondsPass, threadVars
  <2>4. CASE CmdGoesOn
    BY <2>4 DEF CmdGoesOn, SeekFlush, SeekStart, onReset, JoinBegins, Join, closeSoundCard, Start, threadVars
  <2>5. CASE thread_looping \/ SetLoop \/ LoopEnds \/ LoopPaused \/ LoopTakes \/ alsa_snd_write_data \/ WriteFails
    BY <2>5 DEF thread_looping, SetLoop, LoopEnds, LoopPaused, LoopTakes, alsa_snd_write_data, WriteFails, threadVars
  <2> QED
    BY <2>1, <2>2, <2>3, <2>4, <2>5 DEF Next, runTask
<1> QED
  BY <1>1, InitInv, NextInv, PTL DEF Spec, CompleteOnce

-----------------------------------------------------------------------------
(* The volume.                                                             *)

(* The volume of the user is the one that was accepted last, also while a  *)
(* mute hides it.                                                          *)
VolumeInv ==
    /\ user_volume \in [volume : Int, is_mute : BOOLEAN]
    /\ meant # None => user_volume.volume = meant
    /\ MuteRestores

(* What is written to the control reaches it, or the write has failed.     *)
LEMMA SoftVolumeWrites ==
  ASSUME NEW v, softVolume(v)
  PROVE  \/ missed'
         \/ control' = [c \in Channels |-> get_integer([value |-> v, percent |-> FALSE], Least, Greatest)]
BY DEF softVolume, alsa_amixer_cset_vol_impl

LEMMA VolumeInitInv == VolumeInit => VolumeInv
BY DEF VolumeInit, VolumeInv, MuteRestores

(* A volume that is accepted is the user's and the control's.              *)
LEMMA SetVolumeInv ==
  ASSUME VolumeInv, NEW v \in Volumes, setVolume(v)
  PROVE  VolumeInv'
<1>1. check_range(v, 0, 100) \in Int
  BY VolumeAssumption DEF check_range
<1>2. /\ user_volume' = [user_volume EXCEPT !.volume = check_range(v, 0, 100)]
      /\ softVolume(check_range(v, 0, 100)) /\ meant' = check_range(v, 0, 100)
      /\ user_volume'.is_mute = FALSE
  BY DEF setVolume, setVolumeUtil, VolumeInv
<1>3. user_volume' \in [volume : Int, is_mute : BOOLEAN] /\ user_volume'.volume = meant'
  BY <1>1, <1>2 DEF VolumeInv
<1>4. MuteRestores'
  BY <1>2, SoftVolumeWrites DEF MuteRestores
<1> QED
  BY <1>3, <1>4 DEF VolumeInv

(* A mute writes 0 and keeps the user's volume; the unmute writes it back. *)
LEMMA SetMuteInv ==
  ASSUME VolumeInv, NEW m \in BOOLEAN, setMute(m)
  PROVE  VolumeInv'
<1>1. UNCHANGED meant /\ user_volume' = [user_volume EXCEPT !.is_mute = m]
  BY DEF setMute, setVolumeUtil, VolumeInv
<1>2. softVolume(IF m THEN 0 ELSE user_volume.volume)
  BY DEF setMute, setVolumeUtil, VolumeInv
<1>3. /\ user_volume' \in [volume : Int, is_mute : BOOLEAN]
      /\ user_volume'.volume = user_volume.volume /\ user_volume'.is_mute = m
  BY <1>1 DEF VolumeInv
<1>4. MuteRestores'
  BY <1>1, <1>2, <1>3, SoftVolumeWrites DEF MuteRestores, VolumeInv
<1> QED
  BY <1>1, <1>3, <1>4 DEF VolumeInv

LEMMA VolumeNextInv == VolumeInv /\ [VolumeNext]_volumeVars => VolumeInv'
<1> SUFFICES ASSUME VolumeInv, [VolumeNext]_volumeVars PROVE VolumeInv'
  OBVIOUS
<1>1. CASE getVolume \/ UNCHANGED volumeVars
  BY <1>1 DEF getVolume, volumeVars, VolumeInv, MuteRestores
<1> QED
  BY <1>1, SetVolumeInv, SetMuteInv DEF VolumeNext

(* MuteRestores for every range of the control and all that callers pass:  *)
(* the volume accepted last is played again after any sequence of mutes    *)
(* (setVolumeUtil() of ALSAVolumeManager).                                 *)
THEOREM MutingRestores == VolumeSpec => []MuteRestores
<1>1. VolumeInv => MuteRestores
  BY DEF VolumeInv
<1> QED
  BY <1>1, VolumeInitInv, VolumeNextInv, PTL DEF VolumeSpec

-----------------------------------------------------------------------------
(* The window sink.                                                        *)

Owners == {"none", "free", "dequeued", "queued", "shown"}

WindowTypeOK ==
    /\ call \in {"none", "frame", "alloc", "blank"}
    /\ idx \in Nat /\ anb \in Slots \union {0} /\ shownBlank \in BOOLEAN
    /\ owner \in [Slots -> Owners]
    /\ queue \in Seq((Slots \union {0}) \X {"video", "blank"})
    /\ screen \in {"nothing", "video", "blank"}

(* Nothing but blank is shown or waits to be.                              *)
Clean == screen = "blank" /\ \A i \in DOMAIN queue : queue[i][2] = "blank"

Queued == {s \in Slots : owner[s] = "queued"}

(* What the sink holds.                                                    *)
HoldInv ==
    /\ Dequeued \subseteq mRenderBuffers \union refused \union (IF anb = 0 THEN {} ELSE {anb})
    /\ anb # 0 => call \in {"frame", "blank"}

BlankInv ==
    /\ shownBlank => Clean
    /\ call = "blank" =>
         /\ \A i \in DOMAIN queue : queue[i][1] # 0 => queue[i][2] = "blank"
         /\ \A i, j \in DOMAIN queue : i < j /\ queue[i][1] # 0 => queue[j][1] # 0
         /\ anb <= MinUndequeued + 1
         /\ \A i \in DOMAIN queue : queue[i][1] <= MinUndequeued + 1
         /\ \A s \in Slots : s > MinUndequeued + 1 => owner[s] = "none"
         /\ ~Clean => Cardinality(Queued) = idx /\ anb \notin Queued

WindowInv == WindowTypeOK /\ HoldInv /\ BlankInv

-----------------------------------------------------------------------------
LEMMA WindowInitInv == WindowInit => WindowInv
<1> SUFFICES ASSUME WindowInit PROVE WindowInv
  OBVIOUS
<1> USE DEF WindowInit
<1>1. WindowTypeOK
  <2>1. queue \in Seq((Slots \union {0}) \X {"video", "blank"})
    BY EmptySeq
  <2>2. owner \in [Slots -> Owners]
    BY DEF Owners
  <2>3. idx \in Nat /\ anb \in Slots \union {0} /\ shownBlank \in BOOLEAN
    OBVIOUS
  <2> QED
    BY <2>1, <2>2, <2>3 DEF WindowTypeOK
<1>2. HoldInv /\ BlankInv
  BY DEF HoldInv, BlankInv, Dequeued
<1> QED
  BY <1>1, <1>2 DEF WindowInv

(* The steps that leave the window, its buffers and the sink's hand alone. *)
LEMMA SameWindow ==
  ASSUME WindowInv, UNCHANGED <<owner, queue, screen, anb, refused, shownBlank, mRenderBuffers>>,
         call' \in {"none", "frame", "alloc"}, anb # 0 => call' = "frame", idx' \in Nat
  PROVE  WindowInv'
<1>1. WindowTypeOK'
  BY DEF WindowInv, WindowTypeOK
<1>2. HoldInv'
  BY DEF WindowInv, HoldInv, Dequeued
<1>3. BlankInv'
  BY DEF WindowInv, BlankInv, Clean
<1> QED
  BY <1>1, <1>2, <1>3 DEF WindowInv

(* A buffer count frees the buffers and leaves what is drawn.              *)
LEMMA Counted ==
  ASSUME WindowInv, NEW n \in Nat, SetCount(n)
  PROVE  /\ owner' \in [Slots -> Owners]
         /\ queue' \in Seq((Slots \union {0}) \X {"video", "blank"})
         /\ DOMAIN queue' = DOMAIN queue
         /\ \A i \in DOMAIN queue : queue'[i][1] = 0 /\ queue'[i][2] = queue[i][2]
         /\ \A s \in Slots : owner'[s] = IF s <= n THEN "free" ELSE "none"
<1>1. owner' \in [Slots -> Owners] /\ \A s \in Slots : owner'[s] = IF s <= n THEN "free" ELSE "none"
  BY DEF SetCount, Owners
<1>2. queue \in Seq((Slots \union {0}) \X {"video", "blank"})
  BY DEF WindowInv, WindowTypeOK
<1>3. \A i \in DOMAIN queue : queue[i][2] \in {"video", "blank"}
  BY <1>2
<1>4. queue' = [i \in 1..Len(queue) |-> <<0, queue[i][2]>>] /\ DOMAIN queue = 1..Len(queue) /\ Len(queue) \in Nat
  BY <1>2 DEF SetCount
<1>5. queue' \in [1..Len(queue) -> (Slots \union {0}) \X {"video", "blank"}]
  BY <1>3, <1>4
<1>6. queue' \in Seq((Slots \union {0}) \X {"video", "blank"})
  <2> DEFINE D == (Slots \union {0}) \X {"video", "blank"}
  <2>1. queue' \in [1..Len(queue) -> D] /\ Len(queue) \in Nat
    BY <1>4, <1>5
  <2> HIDE DEF D
  <2>2. queue' \in Seq(D)
    BY <2>1
  <2> QED
    BY <2>2 DEF D
<1> QED
  BY <1>1, <1>4, <1>6

-----------------------------------------------------------------------------
LEMMA InitRenderInv ==
  ASSUME WindowInv, initRender
  PROVE  WindowInv'
<1> USE DEF initRender, Begin
<1>1. call = "none" /\ call' = "none" /\ UNCHANGED <<mRenderBuffers, idx, anb, shownBlank, screen>>
  OBVIOUS
<1>2. CASE UNCHANGED <<owner, queue, refused>>
  BY <1>1, <1>2, SameWindow DEF WindowInv, WindowTypeOK, HoldInv
<1>3. CASE SetCount(setting'.count)
  <2>1. setting'.count \in Nat
    <3>1. PICK s \in [count : {0, MIN_REF_BUFFER_COUNT + 1}, dev : {"HW", "SW", "none"}] :
              setting' = checkRenderSetting(s)
      OBVIOUS
    <3>2. s.count \in Nat
      BY WindowAssumption
    <3> QED
      BY <3>1, <3>2, WindowAssumption DEF checkRenderSetting
  <2>2. /\ owner' \in [Slots -> Owners]
        /\ queue' \in Seq((Slots \union {0}) \X {"video", "blank"})
        /\ DOMAIN queue' = DOMAIN queue
        /\ \A i \in DOMAIN queue : queue'[i][2] = queue[i][2]
        /\ \A s \in Slots : owner'[s] # "dequeued"
    BY <1>3, <2>1, Counted
  <2>3. WindowTypeOK'
    BY <1>1, <2>2 DEF WindowInv, WindowTypeOK
  <2>4. HoldInv'
    BY <1>1, <2>2 DEF WindowInv, HoldInv, Dequeued
  <2>5. BlankInv'
    BY <1>1, <2>2 DEF WindowInv, BlankInv, Clean
  <2> QED
    BY <2>3, <2>4, <2>5 DEF WindowInv
<1> QED
  BY <1>2, <1>3

(* The calls that only begin, and those that fail or end there.            *)
LEMMA CallInv ==
  ASSUME WindowInv, releaseRender \/ renderFrame \/ TimestampFails
  PROVE  WindowInv'
<1>1. /\ UNCHANGED <<owner, queue, screen, anb, refused, shownBlank, mRenderBuffers>>
      /\ call' \in {"none", "frame"} /\ anb = 0 /\ idx' \in Nat
  BY DEF WindowInv, WindowTypeOK, HoldInv, releaseRender, renderFrame, TimestampFails, Begin, window
<1> QED
  BY <1>1, SameWindow

LEMMA AllocInv ==
  ASSUME WindowInv, allocRenderBuffers \/ AllocNext
  PROVE  WindowInv'
<1>1. CASE allocRenderBuffers
  <2>1. /\ UNCHANGED <<owner, queue, screen, anb, refused, shownBlank, mRenderBuffers>>
        /\ call' = "alloc" /\ anb = 0 /\ idx' \in Nat
    BY <1>1 DEF WindowInv, HoldInv, allocRenderBuffers, Begin, window
  <2> QED
    BY <2>1, SameWindow
<1>2. CASE AllocNext /\ idx' = 0
  <2>1. CASE UNCHANGED <<owner, mRenderBuffers>>
    <3>1. /\ UNCHANGED <<queue, screen, anb, refused, shownBlank>>
          /\ call' \in {"alloc", "none"} /\ anb = 0 /\ idx' \in Nat
      BY <1>2 DEF WindowInv, HoldInv, AllocNext
    <3> QED
      BY <2>1, <3>1, SameWindow
  <2>2. CASE ~UNCHANGED <<owner, mRenderBuffers>>
    BY <1>2, <2>2 DEF WindowInv, WindowTypeOK, AllocNext
  <2> QED
    BY <2>1, <2>2
<1>3. CASE AllocNext /\ idx' # 0
  <2> USE <1>3 DEF AllocNext
  <2>1. PICK s \in Slots : /\ owner' = [owner EXCEPT ![s] = "dequeued"]
                           /\ mRenderBuffers' = mRenderBuffers \union {s}
    OBVIOUS
  <2>2. WindowTypeOK'
    BY <2>1 DEF WindowInv, WindowTypeOK, Owners
  <2>3. HoldInv'
    BY <2>1 DEF WindowInv, WindowTypeOK, HoldInv, Dequeued
  <2>4. BlankInv'
    BY DEF WindowInv, BlankInv, Clean
  <2> QED
    BY <2>2, <2>3, <2>4 DEF WindowInv
<1> QED
  BY <1>1, <1>2, <1>3

(* A frame is drawn: the window is no longer blank; or the window does not *)
(* take it.                                                                *)
LEMMA FrameInv ==
  ASSUME WindowInv, dequeBuffer \/ queueBuffer \/ QueueFails
  PROVE  WindowInv'
<1>1. CASE dequeBuffer /\ ~UNCHANGED <<anb, owner>>
  <2> USE <1>1 DEF dequeBuffer
  <2>1. PICK s \in Slots : anb' = s /\ owner' = [owner EXCEPT ![s] = "dequeued"]
    OBVIOUS
  <2>2. WindowTypeOK'
    BY <2>1 DEF WindowInv, WindowTypeOK, Owners
  <2>3. s # 0
    BY WindowAssumption DEF Slots
  <2>4. HoldInv'
    BY <2>1, <2>3 DEF WindowInv, WindowTypeOK, HoldInv, Dequeued
  <2>5. BlankInv'
    BY DEF WindowInv, BlankInv, Clean
  <2> QED
    BY <2>2, <2>4, <2>5 DEF WindowInv
<1>2. CASE dequeBuffer /\ UNCHANGED <<anb, owner>>
  <2>1. /\ UNCHANGED <<queue, screen, anb, refused, shownBlank, mRenderBuffers, owner>>
        /\ call' \in {"frame", "none"} /\ anb = 0 /\ idx' \in Nat
    BY <1>2 DEF dequeBuffer, WindowInv, WindowTypeOK
  <2> QED
    BY <2>1, SameWindow
<1>3. CASE queueBuffer
  <2> USE <1>3 DEF queueBuffer, Draw
  <2>1. anb \in Slots /\ queue' = Append(queue, <<anb, "video">>)
    BY DEF WindowInv, WindowTypeOK
  <2>2. WindowTypeOK'
    <3>1. owner' \in [Slots -> Owners]
      BY <2>1 DEF WindowInv, WindowTypeOK, Owners
    <3>2. queue' \in Seq((Slots \union {0}) \X {"video", "blank"})
      BY <2>1 DEF WindowInv, WindowTypeOK
    <3> QED
      BY <3>1, <3>2 DEF WindowInv, WindowTypeOK
  <2>3. HoldInv'
    BY <2>1 DEF WindowInv, WindowTypeOK, HoldInv, Dequeued
  <2>4. BlankInv'
    BY DEF BlankInv
  <2> QED
    BY <2>2, <2>3, <2>4 DEF WindowInv
<1>4. CASE QueueFails
  <2> USE <1>4 DEF QueueFails, window
  <2>1. WindowTypeOK' /\ HoldInv'
    BY DEF WindowInv, WindowTypeOK, HoldInv, Dequeued
  <2>2. BlankInv'
    BY DEF WindowInv, BlankInv, Clean
  <2> QED
    BY <2>1, <2>2 DEF WindowInv
<1> QED
  BY <1>1, <1>2, <1>3, <1>4

-----------------------------------------------------------------------------
LEMMA BlankBegins ==
  ASSUME WindowInv, renderHWBlank
  PROVE  WindowInv'
<1> USE DEF renderHWBlank, Begin
<1>1. call = "none" /\ idx' = 0 /\ anb = 0 /\ UNCHANGED <<anb, shownBlank, screen>>
  BY DEF WindowInv, HoldInv
<1>2. CASE call' = "none"
  <2>1. UNCHANGED <<owner, queue, mRenderBuffers, refused>>
    BY <1>2
  <2> QED
    BY <1>1, <1>2, <2>1, SameWindow
<1>3. CASE call' # "none"
  <2>1. call' = "blank" /\ SetCount(MinUndequeued + 1) /\ mRenderBuffers' = {}
    BY <1>3
  <2>2. /\ owner' \in [Slots -> Owners]
        /\ queue' \in Seq((Slots \union {0}) \X {"video", "blank"})
        /\ DOMAIN queue' = DOMAIN queue
        /\ \A i \in DOMAIN queue : queue'[i][1] = 0 /\ queue'[i][2] = queue[i][2]
        /\ \A s \in Slots : owner'[s] = IF s <= MinUndequeued + 1 THEN "free" ELSE "none"
    BY <2>1, Counted, WindowAssumption
  <2>3. WindowTypeOK'
    BY <1>1, <2>1, <2>2 DEF WindowInv, WindowTypeOK
  <2>4. HoldInv'
    BY <1>1, <2>1, <2>2 DEF HoldInv, Dequeued
  <2>5. Queued' = {}
    BY <2>2 DEF Queued
  <2>6. \A s \in Slots : s > MinUndequeued + 1 => owner'[s] = "none"
    BY <2>2, WindowAssumption DEF Slots
  <2>7. BlankInv'
    <3>1. shownBlank' => Clean'
      BY <1>1, <2>2 DEF WindowInv, BlankInv, Clean
    <3>2. Cardinality(Queued') = idx' /\ anb' \notin Queued'
      BY <1>1, <2>5, FS_EmptySet
    <3>3. 0 <= MinUndequeued + 1
      BY WindowAssumption
    <3> QED
      BY <1>1, <2>2, <2>6, <3>1, <3>2, <3>3 DEF BlankInv
  <2> QED
    BY <2>3, <2>4, <2>7 DEF WindowInv
<1> QED
  BY <1>2, <1>3

LEMMA BlankTakes ==
  ASSUME WindowInv, BlankDequeue
  PROVE  WindowInv'
<1> USE DEF BlankDequeue
<1>1. PICK s \in Slots : owner[s] = "free" /\ anb' = s /\ owner' = [owner EXCEPT ![s] = "dequeued"]
  BY DEF dequeue_buffer_and_wait
<1>2. s # 0
  BY WindowAssumption DEF Slots
<1>3. WindowTypeOK'
  BY <1>1 DEF WindowInv, WindowTypeOK, Owners
<1>4. HoldInv'
  BY <1>1, <1>2 DEF WindowInv, WindowTypeOK, HoldInv, Dequeued
<1>5. Queued' = Queued /\ anb' \notin Queued'
  BY <1>1 DEF WindowInv, WindowTypeOK, Queued
<1>6. \A x \in Slots : x > MinUndequeued + 1 => owner'[x] = "none"
  BY <1>1 DEF WindowInv, WindowTypeOK, BlankInv
<1>8. anb' <= MinUndequeued + 1
  <2>1. ~(s > MinUndequeued + 1)
    BY <1>1 DEF WindowInv, BlankInv
  <2> QED
    BY <1>1, <2>1, WindowAssumption DEF Slots
<1>7. BlankInv'
  BY <1>1, <1>5, <1>6, <1>8 DEF WindowInv, BlankInv, Clean
<1> QED
  BY <1>3, <1>4, <1>7 DEF WindowInv

LEMMA BlankDraws ==
  ASSUME WindowInv, BlankQueue
  PROVE  WindowInv'
<1> USE DEF BlankQueue, Draw
<1>1. anb \in Slots /\ queue' = Append(queue, <<anb, "blank">>)
      /\ queue \in Seq((Slots \union {0}) \X {"video", "blank"})
  BY DEF WindowInv, WindowTypeOK
<1>2. /\ DOMAIN queue = 1..Len(queue) /\ Len(queue) \in Nat /\ DOMAIN queue' = 1..(Len(queue) + 1)
      /\ \A i \in 1..Len(queue) : queue'[i] = queue[i]
      /\ queue'[Len(queue) + 1] = <<anb, "blank">>
  BY <1>1
<1>3. WindowTypeOK'
  <2>1. owner' \in [Slots -> Owners]
    BY <1>1 DEF WindowInv, WindowTypeOK, Owners
  <2>2. queue' \in Seq((Slots \union {0}) \X {"video", "blank"})
    BY <1>1
  <2>3. idx' \in Nat
    BY DEF WindowInv, WindowTypeOK
  <2> QED
    BY <2>1, <2>2, <2>3 DEF WindowInv, WindowTypeOK
<1>4. HoldInv'
  BY <1>1 DEF WindowInv, WindowTypeOK, HoldInv, Dequeued
<1>5. Queued' = Queued \union {anb} /\ \A s \in Slots : s # anb => owner'[s] = owner[s]
  BY <1>1 DEF WindowInv, WindowTypeOK, Queued
<1>6. IsFiniteSet(Queued)
  <2>1. Queued \subseteq Slots /\ IsFiniteSet(Slots)
    BY FS_Interval, WindowAssumption DEF Queued, Slots
  <2> QED
    BY <2>1, FS_Subset
<1>7. Clean => Clean'
  BY <1>2 DEF Clean
<1>8. ~Clean => Cardinality(Queued') = idx' /\ anb' \notin Queued'
  <2> SUFFICES ASSUME ~Clean PROVE Cardinality(Queued') = idx + 1 /\ 0 \notin Slots
    BY DEF Queued
  <2>1. Cardinality(Queued) = idx /\ anb \notin Queued
    BY DEF WindowInv, BlankInv
  <2> QED
    BY <1>5, <1>6, <2>1, FS_AddElement DEF Slots
<1>9. /\ \A i \in DOMAIN queue' : queue'[i][1] # 0 => queue'[i][2] = "blank"
      /\ \A i \in DOMAIN queue' : queue'[i][1] <= MinUndequeued + 1
      /\ \A i, j \in DOMAIN queue' : i < j /\ queue'[i][1] # 0 => queue'[j][1] # 0
  <2>1. anb # 0
    OBVIOUS
  <2>2. ASSUME NEW i \in DOMAIN queue' PROVE i \in DOMAIN queue \/ i = Len(queue) + 1
    BY <1>2
  <2>3. ASSUME NEW i \in DOMAIN queue', queue'[i][1] # 0 PROVE queue'[i][2] = "blank"
    BY <1>2, <2>2, <2>3 DEF WindowInv, BlankInv
  <2>5. ASSUME NEW i \in DOMAIN queue' PROVE queue'[i][1] <= MinUndequeued + 1
    BY <1>2, <2>2 DEF WindowInv, BlankInv
  <2>4. ASSUME NEW i \in DOMAIN queue', NEW j \in DOMAIN queue', i < j, queue'[i][1] # 0
        PROVE  queue'[j][1] # 0
    <3>1. i \in 1..Len(queue)
      BY <1>2, <2>4
    <3>2. CASE j \in 1..Len(queue)
      BY <1>2, <2>4, <3>1, <3>2 DEF WindowInv, BlankInv
    <3>3. CASE j = Len(queue) + 1
      BY <1>2, <2>1, <3>3
    <3> QED
      BY <1>2, <3>2, <3>3
  <2> QED
    BY <2>3, <2>4, <2>5
<1>10. /\ \A x \in Slots : x > MinUndequeued + 1 => owner'[x] = "none"
       /\ anb' <= MinUndequeued + 1
  BY <1>5, WindowAssumption DEF WindowInv, BlankInv, Slots
<1>11. BlankInv'
  BY <1>7, <1>8, <1>9, <1>10 DEF WindowInv, BlankInv
<1> QED
  BY <1>3, <1>4, <1>11 DEF WindowInv

LEMMA BlankEndsInv ==
  ASSUME WindowInv, BlankFails \/ BlankDone
  PROVE  WindowInv'
<1>1. CASE BlankFails
  <2> USE <1>1 DEF BlankFails
  <2>1. WindowTypeOK'
    BY DEF WindowInv, WindowTypeOK, Owners
  <2>2. HoldInv'
    BY DEF WindowInv, WindowTypeOK, HoldInv, Dequeued
  <2>3. BlankInv'
    BY DEF WindowInv, BlankInv, Clean
  <2> QED
    BY <2>1, <2>2, <2>3 DEF WindowInv
<1>2. CASE BlankDone
  <2> USE <1>2 DEF BlankDone, window
  <2>1. WindowTypeOK' /\ HoldInv'
    BY DEF WindowInv, WindowTypeOK, HoldInv, Dequeued
  <2>2. Clean
    <3>1. Queued \subseteq 1..(MinUndequeued + 1)
      BY WindowAssumption DEF WindowInv, BlankInv, Queued, Slots
    <3>2. IsFiniteSet(1..(MinUndequeued + 1)) /\ Cardinality(1..(MinUndequeued + 1)) = MinUndequeued + 1
      BY FS_Interval, WindowAssumption
    <3>3. Cardinality(Queued) <= MinUndequeued + 1
      BY <3>1, <3>2, FS_Subset
    <3>4. Cardinality(Queued) # idx
      BY <3>3, WindowAssumption
    <3> QED
      BY <3>4 DEF WindowInv, BlankInv
  <2>3. BlankInv'
    BY <2>2 DEF BlankInv, Clean
  <2> QED
    BY <2>1, <2>3 DEF WindowInv
<1> QED
  BY <1>1, <1>2

(* The compositor shows what was drawn first.                              *)
LEMMA ComposeInv ==
  ASSUME WindowInv, Compose
  PROVE  WindowInv'
<1> USE DEF Compose, sinkVars
<1>1. queue \in Seq((Slots \union {0}) \X {"video", "blank"}) /\ queue # <<>>
  BY DEF WindowInv, WindowTypeOK
<1>2. /\ Len(queue) \in Nat \ {0} /\ DOMAIN queue = 1..Len(queue) /\ DOMAIN queue' = 1..(Len(queue) - 1)
      /\ \A i \in 1..(Len(queue) - 1) : i + 1 \in DOMAIN queue /\ queue'[i] = queue[i + 1]
      /\ 1 \in DOMAIN queue /\ Head(queue) = queue[1] /\ screen' = queue[1][2]
  BY <1>1
<1>3. WindowTypeOK'
  <2>1. queue' \in Seq((Slots \union {0}) \X {"video", "blank"}) /\ screen' \in {"video", "blank"}
    BY <1>1
  <2>2. owner' \in [Slots -> Owners]
    BY DEF WindowInv, WindowTypeOK, Owners
  <2> QED
    BY <2>1, <2>2 DEF WindowInv, WindowTypeOK
<1>4. HoldInv'
  BY DEF WindowInv, HoldInv, Dequeued
<1>5. Clean => Clean'
  BY <1>2 DEF Clean
<1>6. ASSUME call = "blank" PROVE BlankInv'
  <2>1. /\ \A i \in DOMAIN queue' : queue'[i][1] # 0 => queue'[i][2] = "blank"
        /\ \A i \in DOMAIN queue' : queue'[i][1] <= MinUndequeued + 1
        /\ \A i, j \in DOMAIN queue' : i < j /\ queue'[i][1] # 0 => queue'[j][1] # 0
    <3>1. ASSUME NEW i \in DOMAIN queue', queue'[i][1] # 0 PROVE queue'[i][2] = "blank"
      BY <1>2, <1>6, <3>1 DEF WindowInv, BlankInv
    <3>2. ASSUME NEW i \in DOMAIN queue', NEW j \in DOMAIN queue', i < j, queue'[i][1] # 0
          PROVE  queue'[j][1] # 0
      <4>1. i + 1 < j + 1 /\ queue[i + 1][1] # 0
        BY <1>2, <3>2
      <4> QED
        BY <1>2, <1>6, <4>1 DEF WindowInv, BlankInv
    <3>3. ASSUME NEW i \in DOMAIN queue' PROVE queue'[i][1] <= MinUndequeued + 1
      BY <1>2, <1>6 DEF WindowInv, BlankInv
    <3> QED
      BY <3>1, <3>2, <3>3
  <2>2. CASE queue[1][1] = 0
    <3>1. \A s \in Slots : owner'[s] = IF owner[s] = "shown" THEN "free" ELSE owner[s]
      BY <1>2, <2>2 DEF Slots
    <3>2. Queued' = Queued
      BY <3>1 DEF Queued
    <3>3. \A s \in Slots : s > MinUndequeued + 1 => owner'[s] = "none"
      BY <1>6, <3>1 DEF WindowInv, BlankInv
    <3> QED
      BY <1>5, <1>6, <2>1, <3>2, <3>3 DEF WindowInv, BlankInv
  <2>3. CASE queue[1][1] # 0
    <3>1. ASSUME NEW i \in DOMAIN queue PROVE queue[i][2] = "blank"
      <4>1. i = 1 \/ 1 < i
        BY <1>2
      <4> QED
        BY <1>2, <1>6, <2>3, <4>1 DEF WindowInv, BlankInv
    <3>2. Clean'
      BY <1>2, <3>1 DEF Clean
    <3>3. queue[1][1] \in Slots /\ queue[1][1] <= MinUndequeued + 1
      BY <1>1, <1>2, <1>6, <2>3 DEF WindowInv, BlankInv
    <3>4. \A s \in Slots : s > MinUndequeued + 1 => owner'[s] = "none"
      <4> SUFFICES ASSUME NEW s \in Slots, s > MinUndequeued + 1 PROVE owner'[s] = "none"
        OBVIOUS
      <4>1. s # queue[1][1] /\ owner[s] = "none"
        BY <1>6, <3>3, WindowAssumption DEF WindowInv, BlankInv, Slots
      <4> QED
        BY <1>2, <4>1
    <3> QED
      BY <1>6, <2>1, <3>2, <3>4 DEF WindowInv, BlankInv
  <2> QED
    BY <2>2, <2>3
<1>7. ASSUME call # "blank" PROVE BlankInv'
  BY <1>5, <1>7 DEF WindowInv, BlankInv
<1> QED
  BY <1>3, <1>4, <1>6, <1>7 DEF WindowInv

LEMMA WindowNextInv == WindowInv /\ [WindowNext]_windowVars => WindowInv'
<1> SUFFICES ASSUME WindowInv, [WindowNext]_windowVars PROVE WindowInv'
  OBVIOUS
<1>1. CASE WindowNext
  BY <1>1, InitRenderInv, CallInv, AllocInv, FrameInv, BlankBegins, BlankTakes, BlankDraws, BlankEndsInv,
     ComposeInv DEF WindowNext, CallGoesOn, renderHWFrame, renderSWFrame
<1>2. CASE UNCHANGED windowVars
  BY <1>2 DEF windowVars, sinkVars, window, WindowInv, WindowTypeOK, HoldInv, BlankInv, Dequeued, Clean, Queued
<1> QED
  BY <1>1, <1>2

-----------------------------------------------------------------------------
(* BlankReplaces for windows of any number of buffers: after a             *)
(* renderBlank() that succeeded no video frame is shown or will be, and    *)
(* between the calls the sink keeps no buffer but those it allocated and   *)
(* those that the window refused with a frame.                             *)
THEOREM BlankHasReplaced == WindowSpec => []BlankReplaces
<1>1. WindowInv => BlankReplaces
  BY DEF WindowInv, HoldInv, BlankInv, Clean, BlankReplaces
<1> QED
  BY <1>1, WindowInitInv, WindowNextInv, PTL DEF WindowSpec
=============================================================================
