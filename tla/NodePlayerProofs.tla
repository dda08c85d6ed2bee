--------------------------- MODULE NodePlayerProofs ---------------------------
(***************************************************************************)
(* What NodePlayer guarantees for any number of applications, any seek     *)
(* targets and frames, and any margin.                                     *)
(*                                                                         *)
(* The argument rests on where each kind of message can be on its way: a   *)
(* seek only while the player is Active and mSeekFlag is DOING (SeekInv),  *)
(* the end of the stream only once the playback has Begun (EndInv), an     *)
(* ERROR only as the first message of an IDLE player, and a command only   *)
(* while the one application that holds mCmdLock waits for it              *)
(* (CommandInv).  So a flush, which is done by the command's own handler,  *)
(* finds no other command, and a stopped player finds no late event.       *)
(***************************************************************************)
EXTENDS NodePlayer, TLAPS

Begun     == {"STARTED", "PAUSED", "COMPLETE"}
Unstarted == {"none", "idle", "exit"}

SeekInv ==
    /\ \A k \in DOMAIN queue :
          queue[k].what \in Seeks => flag = "DOING" /\ state \in Active /\ ~SeekHandled
    /\ \A k, l \in DOMAIN queue :
          queue[k].what \in Seeks /\ queue[l].what \in Seeks => k = l
    /\ SeekHandled => flag = "DOING" /\ state \in Active

(* Where the handler can be, and in which state.                           *)
ControlInv ==
    /\ hpc = "reseek" => flag = "NO" /\ state = "STARTED"
    /\ hpc \in {"stopnodes", "flush"} => state \in Active
    /\ hpc \in {"interrupt", "join", "release"} => state \in {"STOPPED", "INITIALIZED"}
    /\ hpc \in {"stopnodes", "flush"} => cur.what \in {"STOP", "RESET"}
    /\ hpc \in {"interrupt", "join", "release"} => cur.what = "RESET"

EndInv ==
    /\ \A k \in DOMAIN queue :
          queue[k].what = "PLAYBACK_COMPLETE" => state \in Begun
    /\ hpc = "handle" /\ cur.what = "PLAYBACK_COMPLETE" => state \in Begun
    /\ state \notin Begun \/ hpc = "flush" => sink \in Unstarted
    /\ state \in {"IDLE", "INITIALIZED"} => sink = "none"

DeliverInv ==
    /\ sink # "none" => nodes
    /\ dpc \in {"check", "work"} => sink # "none"
    /\ dpc # "none" => state \in Begun \cup {"PREPARED", "STOPPED"}
    /\ hpc = "release" => dpc = "none"

(* Who sends what: the player its events, applications their commands.     *)
Sender(m) == /\ m.what \in Events => m.from = Player
             /\ m.what \in Commands \ {"PREPARE"} => m.from \in Apps

CommandInv ==
    /\ \A t, u \in Apps : apc[t] = "waiting" /\ apc[u] = "waiting" => t = u
    /\ \A k \in DOMAIN queue : Sender(queue[k])
    /\ hpc # "idle" => Sender(cur)
    /\ \A k \in DOMAIN queue :
          queue[k].from \in Apps => apc[queue[k].from] = "waiting"
                                   /\ ~(hpc # "idle" /\ cur.from \in Apps)
    /\ \A k, l \in DOMAIN queue :
          queue[k].from \in Apps /\ queue[l].from \in Apps => k = l
    /\ hpc # "idle" /\ cur.from \in Apps => apc[cur.from] = "waiting"
    /\ \A k \in DOMAIN queue :
          queue[k].what = "ERROR" => k = 1 /\ state = "IDLE" /\ hpc = "idle"
    /\ hpc # "idle" /\ cur.what = "ERROR" => hpc = "handle" /\ state = "IDLE"
    /\ CommandNotFlushed

Inv == TypeOK /\ SeekInv /\ ControlInv /\ EndInv /\ DeliverInv /\ CommandInv

-----------------------------------------------------------------------------
USE PlayerAssumption

(* The queue keeps its messages, and gets events of the kinds ws at most.  *)
Kept(ws) ==
    /\ queue' \in Seq(Messages)
    /\ \A k \in DOMAIN queue : k \in DOMAIN queue' /\ queue'[k] = queue[k]
    /\ \A k \in DOMAIN queue' :
          k \notin DOMAIN queue => queue'[k].from = Player /\ queue'[k].what \in ws

(* The messages the player posts have no sender that waits for them.       *)
LEMMA EventType ==
  /\ \A w \in Commands \cup Events :
        /\ Event(w) \in Messages /\ Event(w).what = w /\ Event(w).from = Player
  /\ \A x \in Targets : LET m == [Event("SEEK_ASYNC") EXCEPT !.arg = x] IN
        m \in Messages /\ m.what = "SEEK_ASYNC" /\ m.from = Player
<1>1. \A w \in Commands \cup Events :
        /\ Event(w) \in Messages /\ Event(w).what = w /\ Event(w).from = Player
  BY DEF Event, Msg, Messages
<1>2. ASSUME NEW x \in Targets
      PROVE  LET m == [Event("SEEK_ASYNC") EXCEPT !.arg = x] IN
             m \in Messages /\ m.what = "SEEK_ASYNC" /\ m.from = Player
  BY DEF Event, Msg, Messages, Events
<1> QED
  BY <1>1, <1>2

(* What Append does to the positions of a queue.                           *)
LEMMA Appended ==
  ASSUME NEW q \in Seq(Messages), NEW m \in Messages
  PROVE  /\ Append(q, m) \in Seq(Messages)
         /\ \A k \in DOMAIN q : k \in DOMAIN Append(q, m) /\ Append(q, m)[k] = q[k]
         /\ Len(q) + 1 \in DOMAIN Append(q, m) /\ Append(q, m)[Len(q) + 1] = m
         /\ Len(q) + 1 \notin DOMAIN q
         /\ \A k \in DOMAIN Append(q, m) : k \in DOMAIN q \/ k = Len(q) + 1
  OBVIOUS

(* What Tail does to them.                                                 *)
LEMMA Tailed ==
  ASSUME NEW q \in Seq(Messages), q # << >>
  PROVE  /\ Tail(q) \in Seq(Messages) /\ Head(q) \in Messages
         /\ 1 \in DOMAIN q /\ Head(q) = q[1]
         /\ \A k \in DOMAIN Tail(q) :
               k + 1 \in DOMAIN q /\ k \in Nat \ {0} /\ Tail(q)[k] = q[k + 1]
         /\ \A k \in DOMAIN q :
               k # 1 => k - 1 \in DOMAIN Tail(q) /\ Tail(q)[k - 1] = q[k]
  OBVIOUS

(* A queue of one message.                                                 *)
LEMMA Single ==
  ASSUME NEW m \in Messages
  PROVE  <<m>> \in Seq(Messages) /\ DOMAIN <<m>> = {1} /\ <<m>>[1] = m
  OBVIOUS

(* Posting an event keeps the queue.                                       *)
LEMMA EventKept ==
  ASSUME TypeOK, NEW w \in Events \cup {"PREPARE"}, queue' = Append(queue, Event(w))
  PROVE  Kept({w})
<1>1. queue \in Seq(Messages) /\ Event(w) \in Messages
      /\ Event(w).what = w /\ Event(w).from = Player
  BY EventType DEF TypeOK, Commands
<1> QED
  BY <1>1, Appended DEF Kept

(* Nothing is posted.                                                      *)
LEMMA SameKept == ASSUME TypeOK, queue' = queue PROVE Kept({})
  BY DEF Kept, TypeOK

(* Where a seek may be posted there is none: flush_message() removes       *)
(* nothing, and the queue gets the SEEK_ASYNC at most.                     *)
LEMMA SeekPosted ==
  ASSUME TypeOK, NEW w \in Targets \cup {-1}, NEW s \in Targets \cup {-1},
         NEW q \in Seq(Messages),
         \A k \in DOMAIN q : q[k].what \notin Seeks,
         PostSeekIfNecessary(w, s, q)
  PROVE  /\ want' = -1 /\ save' = -1 /\ dropped' \in BOOLEAN
         /\ \/ queue' = q /\ flag' = flag
            \/ \E x \in Targets :
                  /\ queue' = Append(q, [Event("SEEK_ASYNC") EXCEPT !.arg = x])
                  /\ flag' = "DOING"
<1> DEFINE target == IF s # -1 THEN s ELSE w
           far    == target # -1 /\ Distance(target, pos) > Margin
<1>1. FlushSeekAsync(q) = q
  BY DEF FlushSeekAsync, Seeks
<1>2. want' = -1 /\ save' = -1
  BY DEF PostSeekIfNecessary
<1>3. CASE far
  <2>1. target \in Targets
    BY <1>3
  <2>2. /\ queue' = Append(q, [Event("SEEK_ASYNC") EXCEPT !.arg = target])
        /\ flag' = "DOING" /\ dropped' = dropped
    BY <1>1, <1>3 DEF PostSeekIfNecessary
  <2> QED
    BY <1>2, <2>1, <2>2 DEF TypeOK
<1>4. CASE ~far
  <2>1. queue' = q /\ flag' = flag /\ dropped' \in BOOLEAN
    BY <1>4 DEF PostSeekIfNecessary, TypeOK
  <2> QED
    BY <1>2, <2>1
<1> QED
  BY <1>3, <1>4

-----------------------------------------------------------------------------
(* The commands.                                                           *)

(* A handler that posts events, but no ERROR, loses no command.            *)
LEMMA HandlerCommands ==
  ASSUME Inv, TypeOK', hpc # "idle", cur' = cur,
         Kept({"INFO", "SEEK_ASYNC", "SEEK_COMPLETE"}),
         \/ Done
         \/ \E h : h # "idle" /\ GoTo(h) /\ cur.what # "ERROR"
  PROVE  CommandInv'
<1>1. \A k \in DOMAIN queue : queue[k].what # "ERROR"
  BY DEF Inv, CommandInv
<1>2. \A k \in DOMAIN queue' : queue'[k].what # "ERROR" /\ Sender(queue'[k])
  BY <1>1 DEF Inv, CommandInv, Kept, Sender, Events, Commands
<1>3. \A k \in DOMAIN queue' :
         queue'[k].from \in Apps => /\ k \in DOMAIN queue /\ queue'[k] = queue[k]
                                   /\ apc[queue'[k].from] = "waiting"
                                   /\ cur.from \notin Apps
  BY DEF Inv, CommandInv, Kept
<1>4. \A k, l \in DOMAIN queue' :
         queue'[k].from \in Apps /\ queue'[l].from \in Apps => k = l
  BY <1>3 DEF Inv, CommandInv
<1>5. \A t \in Apps : apc[t] = "waiting" /\ t # cur.from =>
         \E k \in DOMAIN queue' : queue'[k].from = t
  BY DEF Inv, CommandInv, CommandNotFlushed, Kept
<1>6. CASE Done
  <2>1. /\ hpc' = "idle"
        /\ \A t \in Apps : apc'[t] = "waiting" <=> apc[t] = "waiting" /\ t # cur.from
    BY <1>6 DEF Done
  <2>2. CommandNotFlushed'
    BY <2>1, <1>5 DEF CommandNotFlushed
  <2>3. \A t, u \in Apps : apc'[t] = "waiting" /\ apc'[u] = "waiting" => t = u
    BY <2>1 DEF Inv, CommandInv
  <2>4. \A k \in DOMAIN queue' :
           queue'[k].from \in Apps => apc'[queue'[k].from] = "waiting"
    BY <2>1, <1>3
  <2> QED
    BY <1>2, <1>4, <2>1, <2>2, <2>3, <2>4 DEF CommandInv
<1>7. CASE ~Done
  <2>1. hpc' # "idle" /\ apc' = apc /\ cur.what # "ERROR"
    BY <1>7 DEF GoTo
  <2>2. CommandNotFlushed'
    BY <2>1, <1>5 DEF CommandNotFlushed
  <2>3. /\ Sender(cur)
        /\ cur.from \in Apps => apc[cur.from] = "waiting"
        /\ \A t, u \in Apps : apc[t] = "waiting" /\ apc[u] = "waiting" => t = u
    BY DEF Inv, CommandInv
  <2> QED
    BY <1>2, <1>3, <1>4, <2>1, <2>2, <2>3 DEF CommandInv
<1> QED
  BY <1>6, <1>7

(* A thread that posts an event, or none, loses no command.                *)
LEMMA EventCommands ==
  ASSUME Inv, UNCHANGED <<apc, hpc, cur, state>>,
         Kept({"PLAYBACK_COMPLETE", "PREPARE"})
  PROVE  CommandInv'
<1>1. \A k \in DOMAIN queue' : Sender(queue'[k])
  BY DEF Inv, CommandInv, Kept, Sender, Events, Commands
<1>2. \A k \in DOMAIN queue' :
         queue'[k].what = "ERROR" => k \in DOMAIN queue /\ queue'[k] = queue[k]
  BY DEF Kept
<1>3. \A k \in DOMAIN queue' :
         queue'[k].from \in Apps => k \in DOMAIN queue /\ queue'[k] = queue[k]
  BY DEF Kept
<1>4. CommandNotFlushed'
  BY DEF Inv, CommandInv, CommandNotFlushed, Kept
<1> QED
  BY <1>1, <1>2, <1>3, <1>4 DEF Inv, CommandInv, Sender

(* A command is posted while nobody waits: it becomes the only one.        *)
LEMMA CommandPosted ==
  ASSUME Inv, NEW t \in Apps, NEW w \in Commands, NEW x \in Targets, Command(t, w, x)
  PROVE  CommandInv'
<1> DEFINE m == [what |-> w, arg |-> x, from |-> t]
<1>1. m \in Messages /\ m.from = t /\ m.what = w
  BY DEF Messages
<1>2. queue' = Append(queue, m) /\ apc' = [apc EXCEPT ![t] = "waiting"]
      /\ UNCHANGED <<hpc, cur, state>>
  BY DEF Command, AppUnchanged
<1> HIDE DEF m
<1>3. queue \in Seq(Messages) /\ apc \in [Apps -> {"idle", "waiting"}]
  BY DEF Inv, TypeOK
<1>4. \A u \in Apps : apc[u] # "waiting"
  BY DEF Command, LockFree
<1>5. /\ \A k \in DOMAIN queue : queue[k].from \notin Apps
      /\ ~(hpc # "idle" /\ cur.from \in Apps)
  BY <1>4 DEF Inv, CommandInv
<1>6. \A u \in Apps : apc'[u] = "waiting" <=> u = t
  BY <1>2, <1>3, <1>4
<1>7. \A k \in DOMAIN queue' : \/ k \in DOMAIN queue /\ queue'[k] = queue[k]
                               \/ k = Len(queue) + 1 /\ queue'[k] = m
  BY <1>1, <1>2, <1>3, Appended
<1>8. Sender(m)
  BY <1>1 DEF Sender, Commands, Events
<1>9. \A k \in DOMAIN queue' : Sender(queue'[k])
  BY <1>7, <1>8 DEF Inv, CommandInv
<1>10. CommandNotFlushed'
  BY <1>1, <1>2, <1>3, <1>6, Appended DEF CommandNotFlushed
<1>11. /\ \A k \in DOMAIN queue' : queue'[k].from \in Apps => k = Len(queue) + 1 /\ queue'[k].from = t
       /\ \A k \in DOMAIN queue' : queue'[k].what = "ERROR" =>
                                     k \in DOMAIN queue /\ queue[k].what = "ERROR"
  BY <1>1, <1>5, <1>7 DEF Commands
<1> QED
  BY <1>2, <1>5, <1>6, <1>9, <1>10, <1>11 DEF Inv, CommandInv, Sender

(* Only the handler of a command flushes: the one command there is.        *)
LEMMA FlushCommands ==
  ASSUME Inv, TypeOK', hpc # "idle", cur.from \in Apps, cur' = cur,
         NEW w \in {"INFO", "ERROR"}, queue' = <<Event(w)>>,
         \/ Done
         \/ \E h : h # "idle" /\ GoTo(h) /\ cur.what # "ERROR",
         w = "ERROR" => Done /\ state' = "IDLE"
  PROVE  CommandInv'
<1>1. Event(w) \in Messages /\ Event(w).what = w /\ Event(w).from = Player
  BY EventType DEF Events
<1>2. \A k \in DOMAIN queue' : k = 1 /\ queue'[k] = Event(w)
  BY <1>1, Single
<1>3. \A k \in DOMAIN queue' : Sender(queue'[k]) /\ queue'[k].from \notin Apps
  BY <1>1, <1>2 DEF Sender, Events, Commands
<1>4. /\ Sender(cur) /\ apc[cur.from] = "waiting"
      /\ \A t \in Apps : apc[t] = "waiting" => t = cur.from
  BY DEF Inv, CommandInv
<1>5. CASE Done
  <2>1. hpc' = "idle" /\ \A t \in Apps : apc'[t] # "waiting"
    BY <1>4, <1>5 DEF Done
  <2> QED
    BY <1>1, <1>2, <1>3, <2>1 DEF CommandInv, CommandNotFlushed
<1>6. CASE ~Done
  <2>1. hpc' # "idle" /\ apc' = apc /\ cur.what # "ERROR" /\ w # "ERROR"
    BY <1>6 DEF GoTo
  <2> QED
    BY <1>1, <1>2, <1>3, <1>4, <2>1 DEF CommandInv, CommandNotFlushed, Sender
<1> QED
  BY <1>5, <1>6

-----------------------------------------------------------------------------
(* The seeks and the end of the stream.                                    *)

(* No seek is posted, and those on their way stay as they are.             *)
LEMMA SeekQuiet ==
  ASSUME Inv, NEW ws, ws \cap Seeks = {}, Kept(ws),
         SeekHandled' => SeekHandled, flag' = flag,
         state \in Active => state' \in Active
  PROVE  SeekInv'
<1>1. \A k \in DOMAIN queue' :
         queue'[k].what \in Seeks => k \in DOMAIN queue /\ queue'[k] = queue[k]
  BY DEF Kept
<1> QED
  BY <1>1 DEF Inv, SeekInv

(* A seek is posted where there is none.                                   *)
LEMMA SeekAdded ==
  ASSUME TypeOK, NEW m \in Messages, NEW q \in Seq(Messages),
         \A k \in DOMAIN q : q[k].what \notin Seeks,
         queue' = Append(q, m), flag' = "DOING", state' \in Active, ~SeekHandled'
  PROVE  SeekInv'
<1>1. \A k \in DOMAIN queue' : queue'[k].what \in Seeks => k = Len(q) + 1
  BY Appended
<1> QED
  BY <1>1 DEF SeekInv

(* A queue without seeks.                                                  *)
LEMMA NoSeek ==
  ASSUME \A k \in DOMAIN queue' : queue'[k].what \notin Seeks, ~SeekHandled'
  PROVE  SeekInv'
  BY DEF SeekInv

(* The end of the stream is not posted.                                    *)
LEMMA EndQuiet ==
  ASSUME Inv, NEW ws, "PLAYBACK_COMPLETE" \notin ws, Kept(ws), cur' = cur,
         hpc' # "handle" \/ hpc' = hpc,
         state \in Begun => state' \in Begun,
         state' \notin Begun \/ hpc' = "flush" => sink' \in Unstarted,
         state' \in {"IDLE", "INITIALIZED"} => sink' = "none"
  PROVE  EndInv'
<1>1. \A k \in DOMAIN queue' : queue'[k].what = "PLAYBACK_COMPLETE"
         => k \in DOMAIN queue /\ queue'[k] = queue[k]
  BY DEF Kept
<1> QED
  BY <1>1 DEF Inv, EndInv

-----------------------------------------------------------------------------
(* A player that was just constructed satisfies the invariant.             *)
LEMMA InvInit == Init => Inv
<1> SUFFICES ASSUME Init PROVE Inv
  OBVIOUS
<1>1. queue = << >> /\ DOMAIN queue = {} /\ queue \in Seq(Messages)
  BY DEF Init
<1>2. cur \in Messages /\ hpc = "idle"
  BY EventType DEF Init, Events
<1>3. TypeOK
  <2>1. apc \in [Apps -> {"idle", "waiting"}]
    BY DEF Init
  <2>2. /\ state \in States /\ sink = "none" /\ dpc = "none" /\ dstate = "IDLE"
        /\ want \in Targets \cup {-1} /\ save \in Targets \cup {-1}
        /\ flag = "NO" /\ hpc = "idle"
    BY DEF Init, States
  <2>3. pos \in Targets \cup Frames \cup {-1} /\ played \in Targets \cup Frames
    BY DEF Init
  <2>4. sent \in 0..MaxCmds /\ ends \in 0..MaxEnds
    BY DEF Init
  <2>5. looping \in BOOLEAN /\ nodes \in BOOLEAN /\ dropped \in BOOLEAN
    BY DEF Init
  <2> QED
    BY <1>1, <1>2, <2>1, <2>2, <2>3, <2>4, <2>5 DEF TypeOK
<1>4. SeekInv /\ ControlInv
  BY <1>1, <1>2 DEF SeekInv, SeekHandled, ControlInv
<1>5. EndInv /\ DeliverInv
  BY <1>1, <1>2 DEF Init, EndInv, DeliverInv, Unstarted
<1>6. CommandInv
  BY <1>1, <1>2 DEF Init, CommandInv, CommandNotFlushed
<1> QED
  BY <1>3, <1>4, <1>5, <1>6 DEF Inv

(* The steps of the applications, of the deliver thread and of the sink.   *)
LEMMA AppInv == Inv /\ AppStep => Inv'
<1> SUFFICES ASSUME Inv, AppStep PROVE Inv'
  OBVIOUS
<1>0. TypeOK
  BY DEF Inv
<1>1. ASSUME NEW t \in Apps, NEW w \in Commands, NEW x \in Targets, Command(t, w, x)
      PROVE  Inv'
  <2> DEFINE m == [what |-> w, arg |-> x, from |-> t]
  <2>1. m \in Messages /\ m.what = w
    BY DEF Messages
  <2>2. queue' = Append(queue, m) /\ apc' = [apc EXCEPT ![t] = "waiting"] /\ sent' = sent + 1
        /\ sent < MaxCmds
        /\ UNCHANGED <<state, cur, hpc, want, save, flag, pos, looping, nodes,
                       sink, dpc, dstate, ends, played, dropped>>
    BY <1>1 DEF Command, AppUnchanged
  <2> HIDE DEF m
  <2>3. TypeOK'
    BY <1>0, <2>1, <2>2, Appended DEF TypeOK
  <2>4. \A k \in DOMAIN queue' : \/ k \in DOMAIN queue /\ queue'[k] = queue[k]
                                 \/ queue'[k].what = w
    BY <1>0, <2>1, <2>2, Appended DEF TypeOK
  <2>5. SeekInv'
    BY <2>2, <2>4 DEF Inv, SeekInv, SeekHandled, Seeks, Commands
  <2>6. EndInv'
    BY <2>2, <2>4 DEF Inv, EndInv, Commands
  <2>7. ControlInv' /\ DeliverInv'
    BY <2>2 DEF Inv, ControlInv, DeliverInv
  <2>8. CommandInv'
    BY <1>1, CommandPosted
  <2> QED
    BY <2>3, <2>5, <2>6, <2>7, <2>8 DEF Inv
<1>2. CASE PrepareAsync
  <2>1. queue' = Append(queue, Event("PREPARE")) /\ sent' = sent + 1 /\ sent < MaxCmds
        /\ UNCHANGED <<apc, state, cur, hpc, want, save, flag, pos, looping,
                       nodes, sink, dpc, dstate, ends, played, dropped>>
    BY <1>2 DEF PrepareAsync, AppUnchanged
  <2>2. Kept({"PREPARE"})
    BY <1>0, <2>1, EventKept
  <2>3. TypeOK'
    BY <1>0, <2>1, <2>2 DEF TypeOK, Kept
  <2>4. SeekInv'
    BY <2>1, <2>2, SeekQuiet DEF Seeks, SeekHandled
  <2>5. EndInv'
    BY <2>1, <2>2, EndQuiet DEF Inv, EndInv
  <2>6. ControlInv' /\ DeliverInv'
    BY <2>1 DEF Inv, ControlInv, DeliverInv
  <2>7. CommandInv'
    BY <2>1, <2>2, EventCommands DEF Kept
  <2> QED
    BY <2>3, <2>4, <2>5, <2>6, <2>7 DEF Inv
<1>3. ASSUME NEW t \in Apps, SetLooping(t) PROVE Inv'
  <2>1. looping' \in BOOLEAN
        /\ UNCHANGED <<queue, apc, state, cur, hpc, want, save, flag, pos, nodes,
                       sink, dpc, dstate, sent, ends, played, dropped>>
    BY <1>0, <1>3 DEF SetLooping, AppUnchanged, TypeOK
  <2> QED
    BY <2>1 DEF Inv, TypeOK, SeekInv, SeekHandled, ControlInv, EndInv,
                DeliverInv, CommandInv, CommandNotFlushed, Sender
<1>4. "SEEKTO" \in Commands /\ 0 \in Targets
  BY DEF Commands
<1> QED
  BY <1>1, <1>2, <1>3, <1>4 DEF AppStep

(* The deliver thread and the sink's thread preserve it.                   *)
LEMMA ThreadInv == Inv /\ (DeliverStep \/ SinkEnd) => Inv'
<1> SUFFICES ASSUME Inv, DeliverStep \/ SinkEnd PROVE Inv'
  OBVIOUS
<1>0. TypeOK
  BY DEF Inv
<1>1. CASE DeliverStep
  <2>1. DeliverUnchanged
    BY <1>1 DEF DeliverStep, DeliverBorn, DeliverSetLoop, DeliverEnter,
                DeliverCheck, DeliverNothing, DeliverFrame
  <2>2. /\ pos' \in Targets \cup Frames \cup {-1} /\ played' \in Targets \cup Frames
        /\ dstate' \in {"IDLE", "LOOP", "EXIT"}
        /\ dpc' \in {"setloop", "enter", "check", "work", "exited"}
        /\ dpc # "none"
        /\ dpc' \in {"check", "work"} => sink # "none"
    BY <1>0, <1>1 DEF DeliverStep, DeliverBorn, DeliverSetLoop, DeliverEnter,
                DeliverCheck, DeliverNothing, DeliverFrame, TypeOK, Inv, DeliverInv
  <2>3. UNCHANGED <<state, queue, cur, hpc, apc, want, save, flag, looping,
                    nodes, sink, sent, ends, dropped>>
    BY <2>1 DEF DeliverUnchanged, seekVars
  <2>4. TypeOK'
    BY <1>0, <2>2, <2>3 DEF TypeOK
  <2>5. DeliverInv'
    BY <2>2, <2>3 DEF Inv, DeliverInv
  <2> QED
    BY <2>3, <2>4, <2>5 DEF Inv, SeekInv, SeekHandled, ControlInv, EndInv,
                            CommandInv, CommandNotFlushed, Sender
<1>2. CASE SinkEnd
  <2>1. queue' = Append(queue, Event("PLAYBACK_COMPLETE")) /\ ends' = ends + 1
        /\ ends < MaxEnds /\ sink = "running"
        /\ UNCHANGED <<state, cur, hpc, apc, want, save, flag, pos, looping,
                       nodes, sink, dpc, dstate, sent, played, dropped>>
    BY <1>2 DEF SinkEnd, seekVars, deliVars
  <2>2. Kept({"PLAYBACK_COMPLETE"})
    BY <1>0, <2>1, EventKept DEF Events
  <2>3. TypeOK'
    BY <1>0, <2>1, <2>2 DEF TypeOK, Kept
  <2>4. SeekInv'
    BY <2>1, <2>2, SeekQuiet DEF Seeks, SeekHandled
  <2>5. state \in Begun
    BY <2>1 DEF Inv, EndInv, Unstarted
  <2>6. EndInv'
    BY <2>1, <2>5 DEF Inv, EndInv
  <2>7. ControlInv' /\ DeliverInv'
    BY <2>1 DEF Inv, ControlInv, DeliverInv
  <2>8. CommandInv'
    BY <2>1, <2>2, EventCommands DEF Kept
  <2> QED
    BY <2>3, <2>4, <2>6, <2>7, <2>8 DEF Inv
<1> QED
  BY <1>1, <1>2

-----------------------------------------------------------------------------
(* The handlers.                                                           *)

USE DEF LooperUnchanged, seekVars, deliVars

(* So does the looper thread when it takes a message.                      *)
LEMMA PopInv == Inv /\ Pop => Inv'
<1> SUFFICES ASSUME Inv, Pop PROVE Inv'
  OBVIOUS
<1>1. /\ cur' = Head(queue) /\ queue' = Tail(queue) /\ hpc = "idle" /\ hpc' = "handle"
      /\ UNCHANGED <<apc, state, want, save, flag, pos, looping, nodes, sink, dpc,
                     dstate, sent, ends, played, dropped>>
  BY DEF Pop, GoTo
<1>2. queue \in Seq(Messages) /\ queue # << >>
  BY DEF Inv, TypeOK, Pop
<1>3. /\ queue' \in Seq(Messages) /\ cur' \in Messages
      /\ 1 \in DOMAIN queue /\ cur' = queue[1]
      /\ \A k \in DOMAIN queue' :
            k + 1 \in DOMAIN queue /\ k \in Nat \ {0} /\ queue'[k] = queue[k + 1]
      /\ \A k \in DOMAIN queue :
            k # 1 => k - 1 \in DOMAIN queue' /\ queue'[k - 1] = queue[k]
  BY <1>1, <1>2, Tailed
<1>4. TypeOK'
  BY <1>1, <1>3 DEF Inv, TypeOK
<1>5. SeekInv'
  <2>1. ASSUME NEW k \in DOMAIN queue', NEW l \in DOMAIN queue',
               queue'[k].what \in Seeks, queue'[l].what \in Seeks
        PROVE  k = l
    <3>1. k + 1 = l + 1
      BY <1>3, <2>1 DEF Inv, SeekInv
    <3> QED
      BY <1>3, <3>1
  <2>2. ASSUME NEW k \in DOMAIN queue', queue'[k].what \in Seeks
        PROVE  flag' = "DOING" /\ state' \in Active /\ ~SeekHandled'
    <3>1. k + 1 # 1
      BY <1>3
    <3>2. cur'.what \notin Seeks
      BY <1>3, <2>2, <3>1 DEF Inv, SeekInv
    <3> QED
      BY <1>1, <1>3, <2>2, <3>2 DEF Inv, SeekInv, SeekHandled
  <2>3. SeekHandled' => flag' = "DOING" /\ state' \in Active
    BY <1>1, <1>3 DEF Inv, SeekInv, SeekHandled
  <2> QED
    BY <2>1, <2>2, <2>3 DEF SeekInv
<1>6. ControlInv' /\ DeliverInv'
  BY <1>1 DEF Inv, ControlInv, DeliverInv
<1>7. EndInv'
  BY <1>1, <1>3 DEF Inv, EndInv
<1>8. CommandInv'
  <2>1. /\ \A t, u \in Apps : apc'[t] = "waiting" /\ apc'[u] = "waiting" => t = u
        /\ \A k \in DOMAIN queue' : Sender(queue'[k])
        /\ Sender(cur')
        /\ cur'.from \in Apps => apc'[cur'.from] = "waiting"
        /\ cur'.what = "ERROR" => state' = "IDLE"
    BY <1>1, <1>3 DEF Inv, CommandInv
  <2>2. ASSUME NEW k \in DOMAIN queue', queue'[k].from \in Apps
        PROVE  apc'[queue'[k].from] = "waiting" /\ cur'.from \notin Apps
    <3>1. k + 1 # 1
      BY <1>3
    <3> QED
      BY <1>1, <1>3, <2>2, <3>1 DEF Inv, CommandInv
  <2>3. ASSUME NEW k \in DOMAIN queue', NEW l \in DOMAIN queue',
               queue'[k].from \in Apps, queue'[l].from \in Apps
        PROVE  k = l
    <3>1. k + 1 = l + 1
      BY <1>3, <2>3 DEF Inv, CommandInv
    <3> QED
      BY <1>3, <3>1
  <2>4. ASSUME NEW k \in DOMAIN queue' PROVE queue'[k].what # "ERROR"
    <3>1. k + 1 # 1
      BY <1>3
    <3> QED
      BY <1>3, <3>1 DEF Inv, CommandInv
  <2>5. CommandNotFlushed'
    <3> SUFFICES ASSUME NEW t \in Apps, apc[t] = "waiting"
                 PROVE  (\E k \in DOMAIN queue' : queue'[k].from = t) \/ cur'.from = t
      BY <1>1 DEF CommandNotFlushed
    <3>1. PICK k \in DOMAIN queue : queue[k].from = t
      BY <1>1 DEF Inv, CommandInv, CommandNotFlushed
    <3> QED
      BY <1>3, <3>1
  <2>6. \A m : Sender(m) <=> Sender(m)'
    BY DEF Sender
  <2> QED
    BY <1>1, <2>1, <2>2, <2>3, <2>4, <2>5 DEF CommandInv, Sender
<1> QED
  BY <1>4, <1>5, <1>6, <1>7, <1>8 DEF Inv

(* A handler that is not about seeks.                                      *)
LEMMA HandlerInv ==
  ASSUME Inv, TypeOK', hpc # "idle", cur' = cur, flag' = flag, Kept({"INFO"}),
         \/ Done
         \/ \E h : h \notin {"idle", "handle"} /\ GoTo(h) /\ cur.what # "ERROR",
         state \in Active => state' \in Active,
         state \in Begun => state' \in Begun,
         state' \notin Begun \/ hpc' = "flush" => sink' \in Unstarted,
         state' \in {"IDLE", "INITIALIZED"} => sink' = "none",
         ControlInv', DeliverInv'
  PROVE  Inv'
<1>1. Kept({"INFO", "SEEK_ASYNC", "SEEK_COMPLETE"})
  BY DEF Kept
<1>2. hpc' # "handle"
  BY DEF Done, GoTo
<1>3. CommandInv'
  <2>1. CASE Done
    BY <1>1, <2>1, HandlerCommands
  <2>2. CASE ~Done
    BY <1>1, <2>2, HandlerCommands
  <2> QED
    BY <2>1, <2>2
<1>4. SeekInv'
  BY <1>2, SeekQuiet DEF SeekHandled, Seeks
<1>5. EndInv'
  BY <1>2, EndQuiet
<1> QED
  BY <1>3, <1>4, <1>5 DEF Inv

(* The end of a handler: the sender of the message waits no more.          *)
LEMMA DoneApps == ASSUME TypeOK, Done
                  PROVE  hpc' = "idle" /\ apc' \in [Apps -> {"idle", "waiting"}]
<1>1. \A t \in Apps : apc[t] \in {"idle", "waiting"}
  BY DEF TypeOK
<1> QED
  BY <1>1 DEF Done

(* start(), pause(), the other events, and the first step of stop().       *)
LEMMA PlainHandlersInv ==
  Inv /\ (Start \/ Pause \/ Notify \/ StopOrReset) => Inv'
<1> SUFFICES ASSUME Inv, Start \/ Pause \/ Notify \/ StopOrReset PROVE Inv'
  OBVIOUS
<1>0. TypeOK
  BY DEF Inv
<1>1. queue' = queue \/ queue' = Append(queue, Event("INFO"))
  BY DEF Start, Pause, Notify, StopOrReset, Pausing
<1>2. Kept({"INFO"})
  BY <1>0, <1>1, EventKept, SameKept DEF Kept, Events
<1>3. /\ hpc = "handle" /\ cur' = cur
      /\ UNCHANGED <<want, save, flag, pos, looping, nodes, sent, ends, played, dropped>>
  BY DEF Start, Pause, Notify, StopOrReset, Handling
<1>4. CASE Start
  <2>1. \/ /\ state \in {"PREPARED", "PAUSED", "COMPLETE"} /\ state' = "STARTED"
           /\ sink' = SinkStarted /\ dpc' \in {dpc, "born"} /\ dstate' \in {dstate, "IDLE"}
           /\ dpc' = "born" \/ dpc' = dpc
        \/ UNCHANGED <<state, sink, dpc, dstate>>
    BY <1>4 DEF Start
  <2>2. Done
    BY <1>4 DEF Start
  <2>3. /\ sink' \in {"none", "idle", "running", "exit", "ended"}
        /\ sink' = "none" <=> sink = "none"
    BY <1>0, <2>1 DEF SinkStarted, TypeOK
  <2>4. TypeOK'
    BY <1>0, <1>2, <1>3, <2>1, <2>2, <2>3, DoneApps DEF TypeOK, Kept, States
  <2>5. ControlInv'
    BY <2>2 DEF Done, ControlInv
  <2>6. DeliverInv'
    BY <1>3, <2>1, <2>2, <2>3 DEF Inv, DeliverInv, Done, Begun
  <2>7. /\ state \in Active => state' \in Active
        /\ state \in Begun => state' \in Begun
        /\ state' \notin Begun \/ hpc' = "flush" => sink' \in Unstarted
        /\ state' \in {"IDLE", "INITIALIZED"} => sink' = "none"
    BY <2>1, <2>2 DEF Inv, EndInv, Active, Begun, Done
  <2> QED
    BY <1>2, <1>3, <2>2, <2>4, <2>5, <2>6, <2>7, HandlerInv
<1>5. CASE Pause \/ Notify
  <2>1. \/ state = "STARTED" /\ state' = "PAUSED"
        \/ state' = state
    BY <1>5 DEF Pause, Notify, Pausing
  <2>2. Done /\ UNCHANGED <<sink, dpc, dstate>>
    BY <1>5 DEF Pause, Notify
  <2>4. TypeOK'
    BY <1>0, <1>2, <1>3, <2>1, <2>2, DoneApps DEF TypeOK, Kept, States
  <2>5. ControlInv'
    BY <2>2 DEF Done, ControlInv
  <2>6. DeliverInv'
    BY <1>3, <2>1, <2>2 DEF Inv, DeliverInv, Done, Begun
  <2>7. /\ state \in Active => state' \in Active
        /\ state \in Begun => state' \in Begun
        /\ state' \notin Begun \/ hpc' = "flush" => sink' \in Unstarted
        /\ state' \in {"IDLE", "INITIALIZED"} => sink' = "none"
    BY <2>1, <2>2 DEF Inv, EndInv, Active, Begun, Done
  <2> QED
    BY <1>2, <1>3, <2>2, <2>4, <2>5, <2>6, <2>7, HandlerInv
<1>6. CASE StopOrReset
  <2>1. \/ state = "STARTED" /\ state' = "PAUSED"
        \/ state' = state
    BY <1>6 DEF StopOrReset, Pausing
  <2>2. UNCHANGED <<sink, dpc, dstate>>
    BY <1>6 DEF StopOrReset
  <2>3. \/ Done
        \/ state \in Active /\ GoTo("stopnodes")
        \/ state \notin Active /\ state # "IDLE" /\ Resetting /\ GoTo("interrupt")
    BY <1>6 DEF StopOrReset
  <2>4. TypeOK'
    <3>1. hpc' \in {"idle", "stopnodes", "interrupt"} /\ apc' \in [Apps -> {"idle", "waiting"}]
      BY <1>0, <2>3, DoneApps DEF GoTo, TypeOK
    <3> QED
      BY <1>0, <1>2, <1>3, <2>1, <2>2, <3>1 DEF TypeOK, Kept, States
  <2>5. cur.what \in {"STOP", "RESET", "ERROR"} /\ (cur.what = "ERROR" => state = "IDLE")
    BY <1>3, <1>6 DEF StopOrReset, Handling, Inv, CommandInv
  <2>6. \/ Done
        \/ \E h : h \notin {"idle", "handle"} /\ GoTo(h) /\ cur.what # "ERROR"
    BY <2>3, <2>5 DEF Active
  <2>7. ControlInv'
    <3>1. CASE Done
      BY <3>1 DEF Done, ControlInv
    <3>2. CASE state \in Active /\ GoTo("stopnodes")
      BY <1>3, <2>1, <2>5, <3>2 DEF GoTo, ControlInv, Active
    <3>3. CASE state \notin Active /\ state # "IDLE" /\ Resetting /\ GoTo("interrupt")
      <4>1. state \in {"STOPPED", "INITIALIZED"} /\ state' = state
        BY <1>0, <2>1, <3>3 DEF Active, TypeOK, States
      <4> QED
        BY <1>3, <2>5, <3>3, <4>1 DEF GoTo, ControlInv, Resetting
    <3> QED
      BY <2>3, <3>1, <3>2, <3>3
  <2>8. DeliverInv'
    BY <1>3, <2>1, <2>2, <2>3 DEF Inv, DeliverInv, Done, GoTo, Begun
  <2>9. hpc' # "flush"
    BY <2>3 DEF Done, GoTo
  <2>10. /\ state \in Active => state' \in Active
         /\ state \in Begun => state' \in Begun
         /\ state' \notin Begun \/ hpc' = "flush" => sink' \in Unstarted
         /\ state' \in {"IDLE", "INITIALIZED"} => sink' = "none"
    BY <2>1, <2>2, <2>9 DEF Inv, EndInv, Active, Begun
  <2> QED
    BY <1>2, <1>3, <2>4, <2>6, <2>7, <2>8, <2>10, HandlerInv
<1> QED
  BY <1>4, <1>5, <1>6

(* setDataSource(), which may drop all messages for an ERROR.              *)
LEMMA SetDataSourceInv ==
  ASSUME Inv, NEW ok \in BOOLEAN, NEW root \in BOOLEAN, SetDataSource(ok, root)
  PROVE  Inv'
<1>0. TypeOK
  BY DEF Inv
<1>1. /\ hpc = "handle" /\ cur.what = "SET_DATASOURCE" /\ cur' = cur /\ Done
      /\ UNCHANGED <<want, save, flag, pos, looping, sink, dpc, dstate, sent, ends,
                     played, dropped>>
  BY DEF SetDataSource, Handling
<1>2. \/ UNCHANGED <<state, nodes, queue>>
      \/ state = "IDLE" /\ state' \in {"IDLE", "INITIALIZED"} /\ queue' = queue
         /\ nodes' \in BOOLEAN /\ (nodes => nodes')
      \/ state = "IDLE" /\ state' = "IDLE" /\ queue' = <<Event("ERROR")>>
         /\ nodes' \in BOOLEAN /\ (nodes => nodes')
  BY <1>0 DEF SetDataSource, TypeOK
<1>3. /\ hpc' = "idle" /\ apc' \in [Apps -> {"idle", "waiting"}]
      /\ state' \in States /\ nodes' \in BOOLEAN /\ (nodes => nodes')
      /\ state' \in Begun <=> state \in Begun
      /\ state' \in Active <=> state \in Active
      /\ state \in {"IDLE", "INITIALIZED"} <=> state' \in {"IDLE", "INITIALIZED"}
  BY <1>0, <1>1, <1>2, DoneApps DEF TypeOK, States, Begun, Active
<1>4. DeliverInv'
  BY <1>1, <1>2, <1>3 DEF Inv, DeliverInv, Begun
<1>5. ControlInv'
  BY <1>3 DEF ControlInv
<1>6. CASE queue' = queue
  <2>1. Kept({}) /\ Kept({"INFO"})
    BY <1>0, <1>6, SameKept DEF Kept
  <2>2. TypeOK'
    BY <1>0, <1>1, <1>3, <1>6 DEF TypeOK
  <2>3. /\ state \in Active => state' \in Active
        /\ state \in Begun => state' \in Begun
        /\ state' \notin Begun \/ hpc' = "flush" => sink' \in Unstarted
        /\ state' \in {"IDLE", "INITIALIZED"} => sink' = "none"
    BY <1>1, <1>3 DEF Inv, EndInv
  <2> QED
    BY <1>1, <1>4, <1>5, <2>1, <2>2, <2>3, HandlerInv
<1>7. CASE queue' = <<Event("ERROR")>> /\ state = "IDLE" /\ state' = "IDLE"
  <2>1. Event("ERROR") \in Messages /\ Event("ERROR").what = "ERROR"
    BY EventType DEF Events
  <2>2. queue' \in Seq(Messages) /\ \A k \in DOMAIN queue' : queue'[k].what = "ERROR"
    BY <1>7, <2>1, Single
  <2>3. TypeOK'
    BY <1>0, <1>1, <1>3, <2>2 DEF TypeOK
  <2>4. SeekInv'
    BY <1>3, <2>2, NoSeek DEF Seeks, SeekHandled
  <2>5. EndInv'
    BY <1>1, <1>3, <1>7, <2>2 DEF Inv, EndInv
  <2>6. cur.from \in Apps
    BY <1>1 DEF Inv, CommandInv, Sender, Commands
  <2>7. CommandInv'
    BY <1>1, <1>7, <2>3, <2>6, FlushCommands
  <2> QED
    BY <1>4, <1>5, <2>3, <2>4, <2>5, <2>7 DEF Inv
<1> QED
  BY <1>2, <1>6, <1>7

(* A handler that may post a seek, from a state in which there is none.    *)
LEMMA SeekingInv ==
  ASSUME Inv, hpc # "idle", cur' = cur, Done, NEW q \in Seq(Messages),
         q = queue \/ q = Append(queue, Event("INFO")),
         \A k \in DOMAIN queue : queue[k].what \notin Seeks,
         PostSeekIfNecessary(want, save, q) \/ \E x \in Targets : PostSeekIfNecessary(x, -1, q),
         state' \in Active, state \in Begun => state' \in Begun,
         state' \in States,
         state' \notin Begun => sink' \in Unstarted,
         sink' \in {"none", "idle", "running", "exit", "ended"},
         sink' # "none" => nodes', nodes' \in BOOLEAN,
         sink # "none" => sink' # "none",
         UNCHANGED <<dpc, dstate, pos, played, looping, sent, ends>>,
         dpc # "none" => state' \in Begun \cup {"PREPARED", "STOPPED"}
  PROVE  Inv'
<1>0. TypeOK
  BY DEF Inv
<1>1. \A k \in DOMAIN q : q[k].what \notin Seeks
  <2>1. Event("INFO") \in Messages /\ Event("INFO").what = "INFO"
    BY EventType DEF Events
  <2> QED
    BY <1>0, <2>1, Appended DEF TypeOK, Seeks
<1>2. /\ want' = -1 /\ save' = -1 /\ dropped' \in BOOLEAN
      /\ \/ queue' = q /\ flag' = flag
         \/ \E x \in Targets : /\ queue' = Append(q, [Event("SEEK_ASYNC") EXCEPT !.arg = x])
                               /\ flag' = "DOING"
  <2>1. CASE PostSeekIfNecessary(want, save, q)
    <3>1. want \in Targets \cup {-1} /\ save \in Targets \cup {-1}
      BY <1>0 DEF TypeOK
    <3> QED
      BY <1>0, <1>1, <2>1, <3>1, SeekPosted
  <2>2. ASSUME NEW x \in Targets, PostSeekIfNecessary(x, -1, q)
        PROVE  /\ want' = -1 /\ save' = -1 /\ dropped' \in BOOLEAN
               /\ \/ queue' = q /\ flag' = flag
                  \/ \E y \in Targets :
                       /\ queue' = Append(q, [Event("SEEK_ASYNC") EXCEPT !.arg = y])
                       /\ flag' = "DOING"
    <3>1. x \in Targets \cup {-1} /\ -1 \in Targets \cup {-1}
      OBVIOUS
    <3> QED
      BY <1>0, <1>1, <2>2, <3>1, SeekPosted
  <2> QED
    BY <2>1, <2>2
<1>3. /\ \A k \in DOMAIN queue : k \in DOMAIN q /\ q[k] = queue[k]
      /\ \A k \in DOMAIN q :
            k \notin DOMAIN queue => q[k].from = Player /\ q[k].what = "INFO"
  <2>1. Event("INFO") \in Messages /\ Event("INFO").what = "INFO" /\ Event("INFO").from = Player
    BY EventType DEF Events
  <2> QED
    BY <1>0, <2>1, Appended DEF TypeOK
<1>4. hpc' = "idle" /\ apc' \in [Apps -> {"idle", "waiting"}]
  BY <1>0, DoneApps
<1>5. Kept({"INFO", "SEEK_ASYNC", "SEEK_COMPLETE"}) /\ SeekInv'
  <2>1. CASE queue' = q /\ flag' = flag
    <3>1. Kept({"INFO", "SEEK_ASYNC", "SEEK_COMPLETE"})
      BY <1>3, <2>1 DEF Kept
    <3>2. SeekInv'
      BY <1>1, <1>4, <2>1, NoSeek DEF SeekHandled
    <3> QED
      BY <3>1, <3>2
  <2>2. ASSUME NEW x \in Targets,
               queue' = Append(q, [Event("SEEK_ASYNC") EXCEPT !.arg = x]), flag' = "DOING"
        PROVE  Kept({"INFO", "SEEK_ASYNC", "SEEK_COMPLETE"}) /\ SeekInv'
    <3> DEFINE m == [Event("SEEK_ASYNC") EXCEPT !.arg = x]
    <3>1. m \in Messages /\ m.what = "SEEK_ASYNC" /\ m.from = Player
      BY EventType
    <3> HIDE DEF m
    <3>2. queue' = Append(q, m)
      BY <2>2 DEF m
    <3>3. Kept({"INFO", "SEEK_ASYNC", "SEEK_COMPLETE"})
      BY <1>3, <3>1, <3>2, Appended DEF Kept
    <3>4. SeekInv'
      BY <1>0, <1>1, <1>4, <2>2, <3>1, <3>2, SeekAdded DEF SeekHandled
    <3> QED
      BY <3>3, <3>4
  <2> QED
    BY <1>2, <2>1, <2>2
<1>6. TypeOK'
  <2>1. flag' \in {"NO", "DOING"} /\ want' \in Targets \cup {-1} /\ save' \in Targets \cup {-1}
    BY <1>0, <1>2 DEF TypeOK
  <2>2. queue' \in Seq(Messages) /\ hpc' \in {"idle"}
    BY <1>4, <1>5 DEF Kept
  <2> QED
    BY <1>0, <1>2, <1>4, <2>1, <2>2 DEF TypeOK
<1>7. CommandInv'
  BY <1>5, <1>6, HandlerCommands
<1>8. EndInv'
  <2>1. state' \notin {"IDLE", "INITIALIZED"} /\ hpc' # "flush" /\ hpc' # "handle"
    BY <1>4 DEF Active
  <2> QED
    BY <1>5, <2>1, EndQuiet
<1>9. DeliverInv'
  BY <1>4 DEF Inv, DeliverInv
<1>10. ControlInv'
  BY <1>4 DEF ControlInv
<1> QED
  BY <1>5, <1>6, <1>7, <1>8, <1>9, <1>10 DEF Inv

(* prepare() posts its event, and the seek that was wanted before.         *)
LEMMA PrepareInv == ASSUME Inv, NEW built \in BOOLEAN, Prepare(built) PROVE Inv'
<1>0. TypeOK
  BY DEF Inv
<1>1. /\ hpc = "handle" /\ cur.what = "PREPARE" /\ cur' = cur /\ Done
      /\ UNCHANGED <<pos, looping, dpc, dstate, sent, ends, played>>
  BY DEF Prepare, Handling
<1>2. CASE state \in {"INITIALIZED", "STOPPED"}
  <2>1. /\ state' = "PREPARED"
        /\ sink' = IF state = "INITIALIZED" /\ built THEN "idle" ELSE sink
        /\ nodes' = (nodes \/ sink' # "none")
        /\ PostSeekIfNecessary(want, save, Append(queue, Event("INFO")))
    BY <1>2 DEF Prepare
  <2>2. \A k \in DOMAIN queue : queue[k].what \notin Seeks
    BY <1>2 DEF Inv, SeekInv, Active
  <2>3. Append(queue, Event("INFO")) \in Seq(Messages)
    <3>1. Event("INFO") \in Messages
      BY EventType DEF Events
    <3> QED
      BY <1>0, <3>1 DEF TypeOK
  <2>4. sink \in Unstarted
    BY <1>2 DEF Inv, EndInv, Begun
  <2>5. sink' \in Unstarted /\ sink' \in {"none", "idle", "running", "exit", "ended"}
    BY <1>0, <2>1, <2>4 DEF Unstarted, TypeOK
  <2>6. /\ nodes' \in BOOLEAN
        /\ sink' # "none" => nodes'
        /\ sink # "none" => sink' # "none"
    BY <1>0, <2>1 DEF TypeOK
  <2>7. state' \in Active /\ state' \in States /\ state \notin Begun
    BY <1>2, <2>1 DEF Active, States, Begun
  <2> QED
    BY <1>1, <2>1, <2>2, <2>3, <2>5, <2>6, <2>7, SeekingInv
<1>3. CASE state \notin {"INITIALIZED", "STOPPED"}
  <2>1. UNCHANGED <<state, sink, nodes, queue, want, save, flag, dropped>>
    BY <1>3 DEF Prepare
  <2>2. Kept({"INFO"})
    BY <1>0, <2>1, SameKept DEF Kept
  <2>3. TypeOK'
    BY <1>0, <1>1, <2>1, DoneApps DEF TypeOK
  <2>4. ControlInv' /\ DeliverInv'
    BY <1>1, <2>1 DEF Inv, Done, ControlInv, DeliverInv
  <2>5. /\ state' \notin Begun \/ hpc' = "flush" => sink' \in Unstarted
        /\ state' \in {"IDLE", "INITIALIZED"} => sink' = "none"
    BY <1>1, <2>1 DEF Inv, EndInv, Done
  <2> QED
    BY <1>1, <2>1, <2>2, <2>3, <2>4, <2>5, HandlerInv
<1> QED
  BY <1>2, <1>3

(* seekTo() itself, for an application or for the replay of a loop.        *)
LEMMA SeekToInv ==
  ASSUME Inv, NEW x \in Targets, SeekTo(x), hpc = "handle",
         cur.what \in {"SEEKTO", "PLAYBACK_COMPLETE"}, cur' = cur, Done,
         UNCHANGED <<state, pos, nodes, sink, dpc, dstate, played, looping, sent, ends>>
  PROVE  Inv'
<1>0. TypeOK
  BY DEF Inv
<1>1. \/ state \in Active /\ flag # "DOING" /\ PostSeekIfNecessary(x, -1, queue)
      \/ UNCHANGED <<queue, flag, dropped>> /\ want' \in {want, -1} /\ save' \in {save, x}
  BY <1>0 DEF SeekTo, TypeOK, States, Active
<1>2. CASE state \in Active /\ flag # "DOING" /\ PostSeekIfNecessary(x, -1, queue)
  <2>1. \A k \in DOMAIN queue : queue[k].what \notin Seeks
    BY <1>2 DEF Inv, SeekInv
  <2>2. queue \in Seq(Messages) /\ state' \in States /\ nodes' \in BOOLEAN
        /\ sink' \in {"none", "idle", "running", "exit", "ended"}
    BY <1>0 DEF TypeOK
  <2>3. /\ state' \notin Begun => sink' \in Unstarted
        /\ sink' # "none" => nodes'
        /\ dpc # "none" => state' \in Begun \cup {"PREPARED", "STOPPED"}
    BY DEF Inv, EndInv, DeliverInv
  <2> QED
    BY <1>2, <2>1, <2>2, <2>3, SeekingInv
<1>3. CASE UNCHANGED <<queue, flag, dropped>> /\ want' \in {want, -1} /\ save' \in {save, x}
  <2>1. Kept({"INFO"})
    BY <1>0, <1>3, SameKept DEF Kept
  <2>2. TypeOK'
    BY <1>0, <1>3, DoneApps DEF TypeOK
  <2>3. ControlInv' /\ DeliverInv'
    BY DEF Inv, Done, ControlInv, DeliverInv
  <2>4. /\ state' \notin Begun \/ hpc' = "flush" => sink' \in Unstarted
        /\ state' \in {"IDLE", "INITIALIZED"} => sink' = "none"
    BY DEF Inv, EndInv, Done
  <2> QED
    BY <1>3, <2>1, <2>2, <2>3, <2>4, HandlerInv
<1> QED
  BY <1>1, <1>2, <1>3

(* The two handlers that seek: an application's seek, and the replay.      *)
LEMMA SeekersInv == Inv /\ (HandleSeekTo \/ OnPlaybackComplete) => Inv'
<1> SUFFICES ASSUME Inv, HandleSeekTo \/ OnPlaybackComplete PROVE Inv'
  OBVIOUS
<1>0. TypeOK
  BY DEF Inv
<1>1. CASE HandleSeekTo
  <2>1. cur.arg \in Targets
    BY <1>0 DEF TypeOK, Messages
  <2>2. /\ SeekTo(cur.arg) /\ hpc = "handle" /\ cur.what = "SEEKTO" /\ cur' = cur /\ Done
        /\ UNCHANGED <<state, pos, nodes, sink, dpc, dstate, played, looping, sent, ends>>
    BY <1>1 DEF HandleSeekTo, Handling
  <2> QED
    BY <2>1, <2>2, SeekToInv
<1>2. CASE OnPlaybackComplete
  <2>1. /\ hpc = "handle" /\ cur.what = "PLAYBACK_COMPLETE" /\ cur' = cur /\ Done
        /\ UNCHANGED <<pos, nodes, sink, dpc, dstate, played, looping, sent, ends>>
    BY <1>2 DEF OnPlaybackComplete, Handling
  <2>2. CASE looping
    <3>1. SeekTo(0) /\ state' = state
      BY <1>2, <2>2 DEF OnPlaybackComplete
    <3> QED
      BY <2>1, <3>1, SeekToInv
  <2>3. CASE ~looping
    <3>1. state' = "COMPLETE" /\ UNCHANGED <<queue, want, save, flag, dropped>>
      BY <1>2, <2>3 DEF OnPlaybackComplete
    <3>2. Kept({"INFO"})
      BY <1>0, <3>1, SameKept DEF Kept
    <3>3. TypeOK'
      BY <1>0, <2>1, <3>1, DoneApps DEF TypeOK, States
    <3>4. ControlInv' /\ DeliverInv'
      BY <2>1, <3>1 DEF Inv, Done, ControlInv, DeliverInv, Begun
    <3>5. /\ state \in Active => state' \in Active
          /\ state \in Begun => state' \in Begun
          /\ state' \notin Begun \/ hpc' = "flush" => sink' \in Unstarted
          /\ state' \in {"IDLE", "INITIALIZED"} => sink' = "none"
      BY <2>1, <3>1 DEF Active, Begun, Done
    <3> QED
      BY <2>1, <3>1, <3>2, <3>3, <3>4, <3>5, HandlerInv
  <2> QED
    BY <2>2, <2>3
<1> QED
  BY <1>1, <1>2

(* The seek itself: its SEEK_COMPLETE takes the place of its SEEK_ASYNC.   *)
LEMMA OnSeekToInv == Inv /\ OnSeekTo => Inv'
<1> SUFFICES ASSUME Inv, OnSeekTo PROVE Inv'
  OBVIOUS
<1>0. TypeOK
  BY DEF Inv
<1>1. /\ hpc = "handle" /\ cur.what = "SEEK_ASYNC" /\ cur' = cur /\ Done
      /\ state' = "PAUSED" /\ sink' = SinkStarted /\ played' = cur.arg
      /\ queue' = Append(queue, Event("SEEK_COMPLETE"))
      /\ UNCHANGED <<pos, nodes, dpc, dstate, want, save, flag, dropped, sent, ends, looping>>
  BY DEF OnSeekTo, Handling
<1>2. flag = "DOING" /\ state \in Active /\ \A k \in DOMAIN queue : queue[k].what \notin Seeks
  BY <1>1 DEF Inv, SeekInv, SeekHandled, Seeks
<1>3. /\ sink' \in {"none", "idle", "running", "exit", "ended"}
      /\ sink' = "none" <=> sink = "none"
  BY <1>0, <1>1 DEF SinkStarted, TypeOK
<1>4. Kept({"SEEK_COMPLETE"})
  BY <1>0, <1>1, EventKept DEF Events
<1>5. Kept({"INFO", "SEEK_ASYNC", "SEEK_COMPLETE"})
  BY <1>4 DEF Kept
<1>6. cur.arg \in Targets
  BY <1>0 DEF TypeOK, Messages
<1>7. hpc' = "idle" /\ apc' \in [Apps -> {"idle", "waiting"}]
  BY <1>0, <1>1, DoneApps
<1>8. TypeOK'
  BY <1>0, <1>1, <1>3, <1>4, <1>6, <1>7 DEF TypeOK, Kept, States
<1>9. SeekInv'
  <2>1. Event("SEEK_COMPLETE") \in Messages /\ queue \in Seq(Messages)
    BY <1>0, EventType DEF Events, TypeOK
  <2>2. flag' = "DOING" /\ state' \in Active /\ ~SeekHandled'
    BY <1>1, <1>2, <1>7 DEF Active, SeekHandled
  <2> QED
    BY <1>0, <1>1, <1>2, <2>1, <2>2, SeekAdded
<1>10. CommandInv'
  BY <1>1, <1>5, <1>8, HandlerCommands
<1>11. EndInv'
  BY <1>1, <1>4, <1>7, EndQuiet DEF Begun
<1>12. ControlInv' /\ DeliverInv'
  BY <1>1, <1>3, <1>7 DEF Inv, ControlInv, DeliverInv, Begun
<1> QED
  BY <1>8, <1>9, <1>10, <1>11, <1>12 DEF Inv

(* Its end leaves no seek on its way ...                                   *)
LEMMA OnSeekCompleteInv == Inv /\ OnSeekComplete => Inv'
<1> SUFFICES ASSUME Inv, OnSeekComplete PROVE Inv'
  OBVIOUS
<1>0. TypeOK
  BY DEF Inv
<1>1. /\ hpc = "handle" /\ cur.what = "SEEK_COMPLETE" /\ cur' = cur /\ GoTo("reseek")
      /\ flag' = "NO" /\ pos' = want /\ state' = "STARTED"
      /\ UNCHANGED <<queue, want, save, nodes, sink, dpc, dstate, played, dropped, sent,
                     ends, looping>>
  BY DEF OnSeekComplete, Handling
<1>2. \A k \in DOMAIN queue : queue[k].what \notin Seeks
  BY <1>1 DEF Inv, SeekInv, SeekHandled, Seeks
<1>3. Kept({"INFO"}) /\ Kept({"INFO", "SEEK_ASYNC", "SEEK_COMPLETE"})
  BY <1>0, <1>1, SameKept DEF Kept
<1>4. hpc' = "reseek" /\ apc' = apc
  BY <1>1 DEF GoTo
<1>5. TypeOK'
  BY <1>0, <1>1, <1>4 DEF TypeOK, States
<1>6. SeekInv'
  BY <1>1, <1>2, <1>4, NoSeek DEF SeekHandled
<1>7. CommandInv'
  BY <1>1, <1>3, <1>5, HandlerCommands
<1>8. EndInv'
  BY <1>1, <1>3, <1>4, EndQuiet DEF Begun
<1>9. ControlInv' /\ DeliverInv'
  BY <1>1, <1>4 DEF Inv, ControlInv, DeliverInv, Begun
<1> QED
  BY <1>5, <1>6, <1>7, <1>8, <1>9 DEF Inv

(* ... so that the saved one can be posted.                                *)
LEMMA ReSeekInv == Inv /\ ReSeek => Inv'
<1> SUFFICES ASSUME Inv, ReSeek PROVE Inv'
  OBVIOUS
<1>0. TypeOK
  BY DEF Inv
<1>1. /\ hpc = "reseek" /\ PostSeekIfNecessary(want, save, queue) /\ cur' = cur /\ Done
      /\ UNCHANGED <<state, pos, nodes, sink, dpc, dstate, played, sent, ends, looping>>
  BY DEF ReSeek
<1>2. flag = "NO" /\ state = "STARTED"
  BY <1>1 DEF Inv, ControlInv
<1>3. \A k \in DOMAIN queue : queue[k].what \notin Seeks
  BY <1>2 DEF Inv, SeekInv
<1>4. queue \in Seq(Messages) /\ nodes' \in BOOLEAN
      /\ sink' \in {"none", "idle", "running", "exit", "ended"}
  BY <1>0, <1>1 DEF TypeOK
<1>5. /\ state' \in Active /\ state' \in States /\ state' \in Begun
      /\ sink' # "none" => nodes'
      /\ dpc # "none" => state' \in Begun \cup {"PREPARED", "STOPPED"}
  BY <1>1, <1>2 DEF Inv, DeliverInv, Active, States, Begun
<1> QED
  BY <1>1, <1>3, <1>4, <1>5, SeekingInv

-----------------------------------------------------------------------------
(* stop() and reset(), step by step.                                       *)

(* The nodes are stopped: the sink's thread has been joined.               *)
LEMMA StopNodesInv == Inv /\ StopNodes => Inv'
<1> SUFFICES ASSUME Inv, StopNodes PROVE Inv'
  OBVIOUS
<1>0. TypeOK
  BY DEF Inv
<1>1. /\ hpc = "stopnodes" /\ cur' = cur /\ GoTo("flush") /\ sink' = SinkStopped
      /\ UNCHANGED <<state, queue, pos, nodes, dpc, dstate, want, save, flag, played,
                     dropped, sent, ends, looping>>
  BY DEF StopNodes
<1>2. state \in Active /\ cur.what \in {"STOP", "RESET"}
  BY <1>1 DEF Inv, ControlInv
<1>3. sink' \in Unstarted /\ (sink' = "none" <=> sink = "none")
  BY <1>0, <1>1 DEF SinkStopped, Unstarted, TypeOK
<1>4. hpc' = "flush" /\ apc' = apc
  BY <1>1 DEF GoTo
<1>5. TypeOK'
  BY <1>0, <1>1, <1>3, <1>4 DEF TypeOK, Unstarted
<1>6. Kept({"INFO"})
  BY <1>0, <1>1, SameKept DEF Kept
<1>7. ControlInv' /\ DeliverInv'
  BY <1>1, <1>2, <1>3, <1>4 DEF Inv, ControlInv, DeliverInv
<1>8. state' \notin {"IDLE", "INITIALIZED"}
  BY <1>1, <1>2 DEF Active
<1> QED
  BY <1>1, <1>2, <1>3, <1>5, <1>6, <1>7, <1>8, HandlerInv

(* The flush: no seek, no end of the stream and no command is left.        *)
LEMMA StoppedInv == Inv /\ Stopped => Inv'
<1> SUFFICES ASSUME Inv, Stopped PROVE Inv'
  OBVIOUS
<1>0. TypeOK
  BY DEF Inv
<1>1. /\ hpc = "flush" /\ cur' = cur /\ queue' = <<Event("INFO")>>
      /\ pos' = 0 /\ played' = 0 /\ state' = "STOPPED"
      /\ UNCHANGED <<nodes, sink, dpc, dstate, want, save, flag, dropped, sent, ends, looping>>
  BY DEF Stopped
<1>2. Done \/ (Resetting /\ GoTo("interrupt"))
  BY DEF Stopped
<1>3. cur.what \in {"STOP", "RESET"} /\ sink \in Unstarted
  BY <1>1 DEF Inv, ControlInv, EndInv
<1>4. cur.from \in Apps
  BY <1>1, <1>3 DEF Inv, CommandInv, Sender, Commands
<1>5. hpc' \in {"idle", "interrupt"} /\ apc' \in [Apps -> {"idle", "waiting"}]
  BY <1>0, <1>2, DoneApps DEF GoTo, TypeOK
<1>6. queue' \in Seq(Messages) /\ \A k \in DOMAIN queue' : queue'[k].what = "INFO"
  <2>1. Event("INFO") \in Messages /\ Event("INFO").what = "INFO"
    BY EventType DEF Events
  <2> QED
    BY <1>1, <2>1, Single
<1>7. TypeOK'
  BY <1>0, <1>1, <1>5, <1>6 DEF TypeOK, States
<1>8. SeekInv'
  BY <1>5, <1>6, NoSeek DEF SeekHandled, Seeks
<1>9. EndInv'
  BY <1>1, <1>3, <1>5, <1>6 DEF EndInv, Begun
<1>10. ControlInv' /\ DeliverInv'
  BY <1>1, <1>2, <1>3, <1>5 DEF Inv, ControlInv, DeliverInv, Begun, Resetting, Done
<1>11. CommandInv'
  <2>1. CASE Done
    BY <1>1, <1>4, <1>7, <2>1, FlushCommands
  <2>2. CASE GoTo("interrupt")
    BY <1>1, <1>3, <1>4, <1>7, <2>2, FlushCommands
  <2> QED
    BY <1>2, <2>1, <2>2
<1> QED
  BY <1>7, <1>8, <1>9, <1>10, <1>11 DEF Inv

(* The deliver thread is interrupted and joined, and the nodes released.   *)
LEMMA ResetInv == Inv /\ (Interrupt \/ Join \/ ReleaseNodes) => Inv'
<1> SUFFICES ASSUME Inv, Interrupt \/ Join \/ ReleaseNodes PROVE Inv'
  OBVIOUS
<1>0. TypeOK
  BY DEF Inv
<1>1. /\ hpc \in {"interrupt", "join", "release"} /\ cur' = cur
      /\ UNCHANGED <<queue, pos, want, save, flag, played, dropped, sent, ends, looping>>
  BY DEF Interrupt, Join, ReleaseNodes
<1>2. state \in {"STOPPED", "INITIALIZED"} /\ cur.what = "RESET"
  BY <1>1 DEF Inv, ControlInv
<1>3. Kept({"INFO"})
  BY <1>0, <1>1, SameKept DEF Kept
<1>4. CASE Interrupt \/ Join
  <2>1. /\ UNCHANGED <<state, nodes, sink>>
        /\ \/ hpc' = "join" /\ dpc' = dpc /\ dstate' \in {dstate, "EXIT"}
           \/ hpc' = "release" /\ dpc' = "none" /\ dstate' = "IDLE"
    BY <1>4 DEF Interrupt, Join, GoTo
  <2>2. \E h : h \notin {"idle", "handle"} /\ GoTo(h) /\ cur.what # "ERROR"
    BY <1>2, <1>4 DEF Interrupt, Join
  <2>3. apc' = apc
    BY <2>2 DEF GoTo
  <2>4. TypeOK'
    BY <1>0, <1>1, <2>1, <2>3 DEF TypeOK
  <2>5. ControlInv' /\ DeliverInv'
    BY <1>1, <1>2, <2>1 DEF Inv, ControlInv, DeliverInv
  <2>6. /\ state' \notin Begun \/ hpc' = "flush" => sink' \in Unstarted
        /\ state' \in {"IDLE", "INITIALIZED"} => sink' = "none"
    BY <2>1 DEF Inv, EndInv
  <2> QED
    BY <1>1, <1>3, <2>1, <2>2, <2>4, <2>5, <2>6, HandlerInv
<1>5. CASE ReleaseNodes
  <2>1. hpc = "release" /\ nodes' = FALSE /\ sink' = "none" /\ state' = "IDLE" /\ Done
        /\ UNCHANGED <<dpc, dstate>>
    BY <1>5 DEF ReleaseNodes
  <2>2. hpc' = "idle" /\ apc' \in [Apps -> {"idle", "waiting"}] /\ dpc = "none"
    BY <1>0, <2>1, DoneApps DEF Inv, DeliverInv
  <2>3. TypeOK'
    BY <1>0, <1>1, <2>1, <2>2 DEF TypeOK, States
  <2>4. ControlInv' /\ DeliverInv'
    BY <2>1, <2>2 DEF ControlInv, DeliverInv
  <2>5. state \notin Active /\ state \notin Begun
    BY <1>2 DEF Active, Begun
  <2>6. sink' \in Unstarted
    BY <2>1 DEF Unstarted
  <2> QED
    BY <1>1, <1>3, <2>1, <2>3, <2>4, <2>5, <2>6, HandlerInv
<1> QED
  BY <1>4, <1>5 DEF Interrupt, Join, ReleaseNodes

-----------------------------------------------------------------------------
(* Every step of every thread preserves Inv.                               *)
LEMMA InvNext == Inv /\ [Next]_vars => Inv'
<1> SUFFICES ASSUME Inv, [Next]_vars PROVE Inv'
  OBVIOUS
<1>1. CASE AppStep
  BY <1>1, AppInv
<1>2. CASE LooperStep
  <2>1. CASE Pop
    BY <2>1, PopInv
  <2>2. CASE Start \/ Pause \/ Notify \/ StopOrReset
    BY <2>2, PlainHandlersInv
  <2>3. CASE HandleSeekTo \/ OnPlaybackComplete
    BY <2>3, SeekersInv
  <2>4. CASE \E ok, root \in BOOLEAN : SetDataSource(ok, root)
    BY <2>4, SetDataSourceInv
  <2>5. CASE \E built \in BOOLEAN : Prepare(built)
    BY <2>5, PrepareInv
  <2>6. CASE OnSeekTo \/ OnSeekComplete \/ ReSeek
    BY <2>6, OnSeekToInv, OnSeekCompleteInv, ReSeekInv
  <2>7. CASE StopNodes \/ Stopped
    BY <2>7, StopNodesInv, StoppedInv
  <2>8. CASE Interrupt \/ Join \/ ReleaseNodes
    BY <2>8, ResetInv
  <2> QED
    BY <1>2, <2>1, <2>2, <2>3, <2>4, <2>5, <2>6, <2>7, <2>8 DEF LooperStep
<1>3. CASE DeliverStep \/ SinkEnd
  BY <1>3, ThreadInv
<1>4. CASE UNCHANGED vars
  BY <1>4 DEF vars, seekVars, deliVars, Inv, TypeOK, SeekInv, ControlInv, EndInv,
     DeliverInv, CommandInv, CommandNotFlushed, SeekHandled, Sender
<1> QED
  BY <1>1, <1>2, <1>3, <1>4 DEF Next

(* So Inv holds in every state of the system.                              *)
LEMMA Invariance == Spec => []Inv
<1>1. Init => Inv
  BY InvInit
<1>2. Inv /\ [Next]_vars => Inv'
  BY InvNext
<1> QED
  BY <1>1, <1>2, PTL DEF Spec

-----------------------------------------------------------------------------
(* Every variable of the player keeps its type: the queue holds only       *)
(* messages the handlers know, and mSeekFlag is never RT_SEEK_DONE.        *)
THEOREM TypeCorrect == Spec => []TypeOK
<1>1. Inv => TypeOK
  BY DEF Inv
<1> QED
  BY <1>1, Invariance, PTL

(* There is never more than one seek on its way, and mSeekFlag tells: so   *)
(* flush_message() never has to remove one from the looper's deque.        *)
THEOREM OneSeek == Spec => []OneSeekAtATime
<1>1. Inv => OneSeekAtATime
  BY DEF Inv, SeekInv, OneSeekAtATime, SeekQueued, Active
<1> QED
  BY <1>1, Invariance, PTL

(* stop() and a failing setDataSource() empty the looper's queue, but no   *)
(* application waits for a command they dropped.                           *)
THEOREM CommandsKept == Spec => []CommandNotFlushed
<1>1. Inv => CommandNotFlushed
  BY DEF Inv, CommandInv
<1> QED
  BY <1>1, Invariance, PTL

(* The looper's queue through every flush, with any applications.          *)
THEOREM QueueKept == Spec => []QueueSound
  BY OneSeek, CommandsKept, PTL DEF QueueSound

(* The deliver thread is joined before reset() deletes the nodes it pulls  *)
(* from and pushes to.                                                     *)
THEOREM NodesLive == Spec => []NodesOutliveDelivery
<1>1. Inv => NodesOutliveDelivery
  BY DEF Inv, DeliverInv, NodesOutliveDelivery
<1> QED
  BY <1>1, Invariance, PTL

(* After a reset() no thread of the last playback runs, and none of its    *)
(* messages can act on the next one.                                       *)
THEOREM IdleQuiet == Spec => []IdleIsQuiet
<1>1. ASSUME Inv, state = "IDLE"
      PROVE  /\ dpc = "none" /\ sink \notin {"running", "ended"}
             /\ \A k \in DOMAIN queue :
                   queue[k].what \notin Seeks \cup {"PLAYBACK_COMPLETE"}
  <2>1. dpc = "none" /\ sink = "none"
    BY <1>1 DEF Inv, DeliverInv, EndInv, Begun
  <2>2. \A k \in DOMAIN queue :
           queue[k].what \notin Seeks /\ queue[k].what # "PLAYBACK_COMPLETE"
    BY <1>1 DEF Inv, SeekInv, EndInv, Active, Begun
  <2> QED
    BY <2>1, <2>2
<1>2. Inv => IdleIsQuiet
  BY <1>1 DEF IdleIsQuiet
<1> QED
  BY <1>2, Invariance, PTL

(* Both: what reset() deletes is used no more, and nothing acts afterwards. *)
THEOREM ResetQuiets == Spec => []ResetIsQuiet
  BY NodesLive, IdleQuiet, PTL DEF ResetIsQuiet

(* A stopped player leaves STOPPED only by prepare() or reset(): neither   *)
(* the end of the stream, which the sink's thread may post at any time,    *)
(* nor a seek that was on its way moves it.                                *)
THEOREM StopLasts == Spec => StoppedStaysStopped
<1> DEFINE Told == state = "STOPPED" /\ state' # "STOPPED" => cur.what \in {"PREPARE", "RESET"}
<1>1. ASSUME Inv, Next, state = "STOPPED", state' # "STOPPED"
      PROVE  cur.what \in {"PREPARE", "RESET"}
  <2>1. LooperStep
    BY <1>1 DEF Next, AppStep, Command, SetLooping, PrepareAsync, AppUnchanged,
       DeliverStep, DeliverBorn, DeliverSetLoop, DeliverEnter, DeliverCheck,
       DeliverNothing, DeliverFrame, DeliverUnchanged, SinkEnd
  <2>2. ~OnPlaybackComplete
    BY <1>1 DEF Inv, EndInv, Begun, OnPlaybackComplete, Handling
  <2>3. ~OnSeekTo /\ ~OnSeekComplete
    BY <1>1 DEF Inv, SeekInv, SeekHandled, Seeks, Active, OnSeekTo, OnSeekComplete,
       Handling
  <2>4. /\ ~Pop /\ ~Start /\ ~Pause /\ ~HandleSeekTo /\ ~ReSeek /\ ~Notify
        /\ ~StopOrReset /\ ~StopNodes /\ ~Stopped /\ ~Interrupt /\ ~Join
    BY <1>1 DEF Pop, Start, Pause, Pausing, HandleSeekTo, ReSeek, Notify,
       StopOrReset, StopNodes, Stopped, Interrupt, Join
  <2>5. ASSUME NEW ok, NEW root PROVE ~SetDataSource(ok, root)
    BY <1>1 DEF SetDataSource
  <2>6. CASE \E built \in BOOLEAN : Prepare(built)
    BY <2>6 DEF Prepare, Handling
  <2>7. CASE ReleaseNodes
    BY <1>1, <2>7 DEF ReleaseNodes, Inv, ControlInv
  <2> QED
    BY <2>1, <2>2, <2>3, <2>4, <2>5, <2>6, <2>7 DEF LooperStep
<1>2. Inv /\ [Next]_vars => [Told]_vars
  BY <1>1
<1> QED
  BY <1>2, Invariance, PTL DEF Spec, StoppedStaysStopped
=============================================================================
