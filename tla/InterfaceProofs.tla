---------------------------- MODULE InterfaceProofs ----------------------------
(***************************************************************************)
(* What the C interface and the task pool guarantee, for any number of     *)
(* calls, writes, chunks and readers, and for any number of workers,       *)
(* pushers and tasks; and what the demuxer does, at the other end of the   *)
(* player, for every stream, every set of seek targets and every limit of  *)
(* its caches.                                                             *)
(*                                                                         *)
(* The interface: only the holder of mDataLock sends commands (LockInv),   *)
(* one at a time, and the looper has the one it waits for (CommandInv).    *)
(* The url in play is therefore the one whose protocol the context keeps   *)
(* (PlayInv), and the end of the written data is heard when all of it was  *)
(* played (EndInv), so that a writer that finds the player complete resets *)
(* an empty sink (WriterInv).                                              *)
(*                                                                         *)
(* The pool: an accepted task is at exactly one place (PlaceInv): in the   *)
(* queue, with the worker that is about to run it, or among those that     *)
(* were run.  When the pool waits nobody pushes any more (PoolEndInv), so  *)
(* that the count which a worker reads without the lock and finds 0 stays  *)
(* 0: a worker that has left leaves an empty queue, and when all of them   *)
(* are joined none has a task in its hand.                                 *)
(*                                                                         *)
(* The demuxer: Inv says which command may be under way in which phase of  *)
(* the player and where a seek is; RoomInv and BoundInv that the thread,   *)
(* the only one that fills the caches, has seen room for the packet it     *)
(* holds, so that a cache passes a limit by less than one packet; CacheInv *)
(* that each cache is what lies between the last packet taken out and the  *)
(* next one to be queued, but for packets that found the deque full; and   *)
(* where packets last long enough (LongEnough) none finds it full.         *)
(***************************************************************************)
EXTENDS RockitPlayer, TaskPool, Demuxer, FiniteSetTheorems, SequenceTheorems,
        WellFoundedInduction, TLAPS

States == {"IDLE", "INITIALIZED", "PREPARED", "STARTED", "PAUSED", "STOPPED", "COMPLETE"}
Commands == {"SOURCE", "PREPARE", "START", "PAUSE", "STOP", "RESET", "SEEK"}
Events == {"COMPLETE", "CALLBACK"}
Message == [player : Players, what : Commands \union Events,
            file : Files \union {None}, from : Clients \union {None}]
Written == {End, [of |-> "app"]}
CallsOf(c) == IF c = "control" THEN ControlCalls ELSE {[name |-> "WriteData", data |-> d] : d \in Written}
Fns == {Idle.fn} \union CallsOf("control") \union CallsOf("writer")
Data == [of : {"end", "app", None} \union Files]
Reader == [at : {"open", "test", "lock", "write", "done"}, file : Files \union {None}, left : Int]
Places == {"idle", "lock", "first", "wait1", "second", "wait2", "push", "released"}
Job == [fn : Fns, at : Places, seen : States, todo : Seq(Message)]
Context == [select : Players, protocol : Files, stopFlag : BOOLEAN, url : Files \union {None}]

FacadeTypeOK ==
    /\ state \in [Players -> States]
    /\ source \in [Players -> Files \union {None}]
    /\ sink \in [Players -> Seq(Data) \union {None}]
    /\ mail \in [Players -> Seq(Message)]
    /\ context \in Context
    /\ holder \in {None, "control", "writer", "reader"}
    /\ job \in [Clients -> Job]
    /\ readers \in Seq(Reader)
    /\ told \in BOOLEAN /\ waiting \in BOOLEAN /\ dropped \in BOOLEAN

Waits(c) == job[c].at \in {"wait1", "wait2"}
Inside(c) == Waits(c) \/ job[c].at \in {"first", "second"}
Before(c) == job[c].at \in {"first", "wait1"}
NoEvents(p) == \A i \in DOMAIN mail[p] : mail[p][i].what \notin Events
Empty(p) == sink[p] \in {None, <<>>}

LockInv ==
    /\ \A c \in Clients : Inside(c) => holder = c
    /\ \A r \in DOMAIN readers : readers[r].at = "write" => holder = "reader"
    /\ \A r, s \in DOMAIN readers : readers[r].at = "write" /\ readers[s].at = "write" => r = s

CommandInv ==
    /\ \A c \in Clients : Waits(c) => job[c].todo # <<>>
    /\ \A p \in Players : \A i \in DOMAIN mail[p] : mail[p][i].what \in Commands =>
          \E c \in Clients : /\ Waits(c) /\ mail[p][i] = Sent(c, Head(job[c].todo))
                             /\ Head(job[c].todo).player = p
    /\ \A p \in Players : \A i, j \in DOMAIN mail[p] :
          mail[p][i].what \in Commands /\ mail[p][j].what \in Commands => i = j

ToSend(c, m) ==
    /\ m.what \in Commands
    /\ c = "writer" => m.player = "pcm"
    /\ m.what = "RESET" /\ c = "writer" => Before(c)
    /\ m.what = "SOURCE" =>
          ~Before(c) /\ m.file \in (IF m.player = "pcm" THEN {None} ELSE {None, context.protocol})

Busy(c) == job[c].at \notin {"idle", "released"}

TodoInv ==
    /\ \A c \in Clients : Busy(c) => job[c].fn \in CallsOf(c)
    /\ \A c \in Clients : Inside(c) => \A i \in DOMAIN job[c].todo : ToSend(c, job[c].todo[i])
    /\ \A c \in Clients : job[c].fn.name = "PlayAudio" /\ Before(c) =>
          IF job[c].todo = <<>> THEN state["local"] = "IDLE"
          ELSE job[c].todo[Len(job[c].todo)] = Cmd("local", "RESET")

PlayInv ==
    /\ \A p \in Players : state[p] = "IDLE" => source[p] = None
    /\ \A p \in Players : state[p] \notin {"STARTED", "PAUSED", "COMPLETE"} => NoEvents(p)
    /\ source["pcm"] = None
    /\ source["local"] \in {None, context.protocol}

EndInv ==
    /\ ~NoEvents("pcm") => waiting /\ Empty("pcm")
    /\ \A i, j \in DOMAIN mail["pcm"] : mail["pcm"][i].what \in Events /\ mail["pcm"][j].what \in Events => i = j
    /\ sink["pcm"] # None =>
          \A i \in DOMAIN sink["pcm"] : sink["pcm"][i] = End => waiting /\ i = Len(sink["pcm"])
    /\ state["pcm"] = "COMPLETE" /\ ~waiting => Empty("pcm")

Replaces ==
    \/ job["writer"].at = "lock" /\ job["writer"].seen = "COMPLETE"
    \/ Before("writer") /\ job["writer"].todo # <<>>

WriterInv ==
    /\ Busy("writer") => ~waiting
    /\ Replaces => Empty("pcm")
    /\ Busy("writer") /\ ~Replaces => state["pcm"] # "COMPLETE"
    /\ Before("writer") /\ job["writer"].todo # <<>> =>
          job["writer"].todo[Len(job["writer"].todo)] = Cmd("pcm", "RESET")

FacadeInv ==
    /\ FacadeTypeOK /\ LockInv /\ CommandInv /\ TodoInv /\ PlayInv /\ EndInv /\ WriterInv
    /\ EndKind /\ WrittenIsPlayed

-----------------------------------------------------------------------------
LEMMA FacadeInit == Rockit_CreatePlayer => FacadeInv
<1> SUFFICES ASSUME Rockit_CreatePlayer PROVE FacadeInv OBVIOUS
<1> USE FacadeAssumption DEF Rockit_CreatePlayer
<1>1. FacadeTypeOK
  <2>1. Idle \in Job
    BY DEF Job, Idle, Fns, Places, States
  <2>2. context \in Context
    BY DEF Context, Players, Files, Kind
  <2>3. state \in [Players -> States]
    BY DEF States
  <2>4. source \in [Players -> Files \union {None}] /\ sink \in [Players -> Seq(Data) \union {None}]
    OBVIOUS
  <2>5. mail \in [Players -> Seq(Message)]
    OBVIOUS
  <2>6. job \in [Clients -> Job]
    BY <2>1
  <2>7. readers \in Seq(Reader)
    OBVIOUS
  <2> QED BY <2>2, <2>3, <2>4, <2>5, <2>6, <2>7 DEF FacadeTypeOK
<1>2. LockInv
  BY DEF LockInv, Inside, Waits, Idle, Clients
<1>3. CommandInv /\ TodoInv /\ PlayInv
  BY DEF CommandInv, TodoInv, PlayInv, Busy, Inside, Waits, Before, Idle, Clients, Players, NoEvents
<1>4. EndInv /\ WriterInv
  BY DEF EndInv, WriterInv, Busy, Replaces, NoEvents, Players, Before, Idle, Clients
<1>5. EndKind /\ WrittenIsPlayed
  BY DEF EndKind, WrittenIsPlayed
<1> QED BY <1>1, <1>2, <1>3, <1>4, <1>5 DEF FacadeInv

(* What an appended and a shortened sequence is made of.                   *)
LEMMA Appended ==
    ASSUME NEW S, NEW s \in Seq(S), NEW e \in S
    PROVE  /\ Append(s, e) \in Seq(S) /\ Len(Append(s, e)) = Len(s) + 1 /\ Append(s, e) # <<>>
           /\ Len(s) \in Nat /\ DOMAIN Append(s, e) = 1..(Len(s) + 1) /\ DOMAIN s = 1..Len(s)
           /\ \A i \in 1..Len(s) : Append(s, e)[i] = s[i]
           /\ Append(s, e)[Len(s) + 1] = e
  OBVIOUS

LEMMA Shortened ==
    ASSUME NEW S, NEW s \in Seq(S), s # <<>>
    PROVE  /\ Len(s) \in Nat \ {0} /\ Head(s) = s[1] /\ Head(s) \in S /\ 1 \in DOMAIN s /\ DOMAIN s = 1..Len(s)
           /\ Tail(s) \in Seq(S) /\ Len(Tail(s)) = Len(s) - 1 /\ DOMAIN Tail(s) = 1..(Len(s) - 1)
           /\ \A i \in DOMAIN Tail(s) : i + 1 \in DOMAIN s /\ Tail(s)[i] = s[i + 1]
           /\ Tail(s) = <<>> <=> Len(s) = 1
<1>1. Len(s) \in Nat \ {0} /\ Head(s) = s[1] /\ 1 \in DOMAIN s /\ DOMAIN s = 1..Len(s)
  OBVIOUS
<1>2. Head(s) \in S
  BY <1>1
<1>3. Tail(s) \in Seq(S) /\ Len(Tail(s)) = Len(s) - 1
  OBVIOUS
<1>4. DOMAIN Tail(s) = 1..(Len(s) - 1)
  BY <1>3
<1>5. \A i \in DOMAIN Tail(s) : i + 1 \in DOMAIN s /\ Tail(s)[i] = s[i + 1]
  BY <1>1, <1>4
<1>6. Tail(s) = <<>> <=> Len(s) = 1
  <2>1. Tail(s) # <<>> => Len(Tail(s)) \in Nat \ {0}
    BY <1>3, EmptySeq
  <2>2. Tail(s) = <<>> => Len(Tail(s)) = 0
    BY EmptySeq
  <2> QED BY <1>1, <1>3, <2>1, <2>2
<1> QED BY <1>1, <1>2, <1>3, <1>4, <1>5, <1>6

LEMMA CallNames ==
    ASSUME NEW c \in Clients, NEW fn \in CallsOf(c)
    PROVE  /\ c = "writer" => fn.name = "WriteData" /\ fn.data \in Written
           /\ c = "control" => fn.name \in {"PlayAudio", "PlayerStop", "PlayerPause",
                                            "PlayerResume", "PlayerPlay", "PlayerSeek"}
           /\ fn.name = "PlayAudio" => fn.file \in Files /\ fn.pcm \in BOOLEAN
<1>1. CASE c = "writer"
  <2>1. PICK d \in Written : fn = [name |-> "WriteData", data |-> d]
    BY <1>1 DEF CallsOf
  <2> QED BY <1>1, <2>1
<1>2. CASE c = "control"
  <2>0. fn \in ControlCalls
    BY <1>2 DEF CallsOf
  <2>1. CASE \E n \in {"PlayerStop", "PlayerPause", "PlayerResume", "PlayerPlay", "PlayerSeek"} : fn = [name |-> n]
    BY <1>2, <2>1
  <2>2. CASE \E f \in Files : fn = [name |-> "PlayAudio", file |-> f, pcm |-> FALSE]
    BY <1>2, <2>2
  <2>3. CASE fn = [name |-> "PlayAudio", file |-> "oem", pcm |-> TRUE]
    BY <1>2, <2>3 DEF Files, Kind
  <2> QED BY <2>0, <2>1, <2>2, <2>3 DEF ControlCalls
<1> QED BY <1>1, <1>2 DEF Clients

LEMMA CommandList ==
    ASSUME NEW p \in Players
    PROVE  /\ \A w \in Commands : Cmd(p, w) \in Message /\ Cmd(p, w).player = p /\ Cmd(p, w).what = w
           /\ \A f \in Files \union {None} : Source(p, f) \in Message
  BY DEF Cmd, Source, Message, Commands

(* What is in a list of one, two or three.                                 *)
LEMMA Listed1 ==
    ASSUME NEW S, NEW s, NEW a \in S, s = <<a>>
    PROVE  s \in Seq(S) /\ \A i \in DOMAIN s : s[i] = a
  OBVIOUS

LEMMA Listed2 ==
    ASSUME NEW S, NEW s, NEW a \in S, NEW b \in S, s = <<a, b>>
    PROVE  /\ s \in Seq(S) /\ s # <<>> /\ Len(s) = 2 /\ s[2] = b
           /\ \A i \in DOMAIN s : s[i] \in {a, b}
  OBVIOUS

LEMMA Listed3 ==
    ASSUME NEW S, NEW s, NEW a \in S, NEW b \in S, NEW d \in S, s = <<a, b, d>>
    PROVE  s \in Seq(S) /\ \A i \in DOMAIN s : s[i] \in {a, b, d}
  OBVIOUS

(* The first commands of a call source nothing, and end with a reset of    *)
(* the player that is replaced.                                            *)
LEMMA FirstCommands ==
    ASSUME FacadeTypeOK, NEW c \in Clients, NEW fn \in CallsOf(c), NEW was \in States, NEW s, s = First(fn, was)
    PROVE  /\ s \in Seq(Message)
           /\ \A i \in DOMAIN s : /\ s[i].what \in Commands \ {"SOURCE"}
                                  /\ c = "writer" => s[i].player = "pcm"
           /\ fn.name = "PlayAudio" =>
                 IF s = <<>> THEN state["local"] = "IDLE" ELSE s[Len(s)] = Cmd("local", "RESET")
           /\ c = "writer" =>
                 IF was # "COMPLETE" THEN s = <<>> ELSE s # <<>> /\ s[Len(s)] = Cmd("pcm", "RESET")
<1>0. \A p \in Players : \A w \in {"STOP", "RESET", "PAUSE", "START", "SEEK"} :
         /\ Cmd(p, w) \in Message /\ Cmd(p, w).player = p
         /\ Cmd(p, w).what \in Commands \ {"SOURCE"}
  BY CommandList DEF Commands
<1>1. ASSUME NEW p \in Players, s = StopReset(p)
      PROVE  /\ s \in Seq(Message) /\ s # <<>> /\ s[Len(s)] = Cmd(p, "RESET")
             /\ \A i \in DOMAIN s : s[i].what \in Commands \ {"SOURCE"} /\ s[i].player = p
  <2>1. s = <<Cmd(p, "STOP"), Cmd(p, "RESET")>>
    BY <1>1 DEF StopReset
  <2>2. Cmd(p, "STOP") \in Message /\ Cmd(p, "RESET") \in Message
    BY <1>0
  <2>3. /\ s \in Seq(Message) /\ s # <<>> /\ Len(s) = 2 /\ s[2] = Cmd(p, "RESET")
        /\ \A i \in DOMAIN s : s[i] \in {Cmd(p, "STOP"), Cmd(p, "RESET")}
    BY <2>1, <2>2, Listed2
  <2> QED BY <1>0, <2>3
<1>n. s = <<>> => s \in Seq(Message) /\ DOMAIN s = {}
  OBVIOUS
<1>p. "pcm" \in Players /\ "local" \in Players
  BY DEF Players
<1>2. CASE c = "writer"
  <2>1. s = IF was = "COMPLETE" THEN StopReset("pcm") ELSE <<>>
    BY <1>2, CallNames DEF First
  <2> QED BY <1>1, <1>2, <1>n, <1>p, <2>1, CallNames
<1>3. CASE c = "control" /\ fn.name \in {"PlayAudio", "PlayerStop"}
  <2>1. s = IF state["local"] = "IDLE" THEN <<>> ELSE StopReset("local")
    BY <1>3 DEF First, StopUnlessIdle
  <2> QED BY <1>1, <1>3, <1>n, <1>p, <2>1
<1>4. CASE c = "control" /\ fn.name \notin {"PlayAudio", "PlayerStop"}
  <2>1. context.select \in Players
    BY DEF FacadeTypeOK, Context
  <2>2. PICK p \in Players, w \in {"PAUSE", "START", "SEEK"} : s = <<Cmd(p, w)>>
    <3>1. fn.name = "PlayerPause" => s = <<Cmd(context.select, "PAUSE")>>
      BY DEF First
    <3>2. fn.name = "PlayerResume" => s = <<Cmd(context.select, "START")>>
      BY DEF First
    <3>3. fn.name = "PlayerPlay" => s = <<Cmd("local", "START")>>
      BY DEF First
    <3>4. fn.name = "PlayerSeek" => s = <<Cmd("local", "SEEK")>>
      BY DEF First
    <3> QED BY <1>p, <1>4, <2>1, <3>1, <3>2, <3>3, <3>4, CallNames
  <2>3. Cmd(p, w) \in Message
    BY <1>0
  <2>4. s \in Seq(Message) /\ \A i \in DOMAIN s : s[i] = Cmd(p, w)
    BY <2>2, <2>3, Listed1, Zenon
  <2> QED BY <1>0, <1>4, <2>4
<1> QED BY <1>2, <1>3, <1>4 DEF Clients

(* The second commands reset nothing of the application's own data, and    *)
(* source the url that the call has stored in the context.                 *)
LEMMA SecondCommands ==
    ASSUME FacadeTypeOK, NEW c \in Clients, NEW fn \in CallsOf(c), NEW s, s = Second(fn)
    PROVE  /\ s \in Seq(Message)
           /\ \A i \in DOMAIN s :
                 /\ s[i].what \in Commands
                 /\ c = "writer" => s[i].player = "pcm" /\ s[i].what # "RESET"
                 /\ s[i].what = "SOURCE" => IF s[i].player = "pcm" THEN s[i].file = None
                                            ELSE fn.name = "PlayAudio" /\ s[i].file \in {None, fn.file}
<1>0. \A p \in Players : \A w \in {"STOP", "RESET", "PREPARE", "START"} :
         /\ Cmd(p, w) \in Message /\ Cmd(p, w).player = p
         /\ Cmd(p, w).what \in Commands \ {"SOURCE"} /\ Cmd(p, w).what = w
  BY CommandList DEF Commands
<1>s. \A p \in Players : \A f \in Files \union {None} :
         /\ Source(p, f) \in Message /\ Source(p, f).player = p /\ Source(p, f).file = f
         /\ Source(p, f).what \in Commands \ {"RESET"}
  BY CommandList DEF Source, Commands
<1>n. s = <<>> => s \in Seq(Message) /\ DOMAIN s = {}
  OBVIOUS
<1>p. "pcm" \in Players /\ "local" \in Players
  BY DEF Players
<1>q. ASSUME NEW p \in Players, NEW f \in Files \union {None}, s = <<Source(p, f), Cmd(p, "PREPARE"), Cmd(p, "START")>>
      PROVE  /\ s \in Seq(Message)
             /\ \A i \in DOMAIN s : /\ s[i].what \in Commands \ {"RESET"} /\ s[i].player = p
                                    /\ s[i].what = "SOURCE" => s[i].file = f
  <2>1. Source(p, f) \in Message /\ Cmd(p, "PREPARE") \in Message /\ Cmd(p, "START") \in Message
    BY <1>0, <1>s
  <2>2. /\ s \in Seq(Message)
        /\ \A i \in DOMAIN s : s[i] \in {Source(p, f), Cmd(p, "PREPARE"), Cmd(p, "START")}
    BY <1>q, <2>1, Listed3, Zenon
  <2> QED BY <1>0, <1>s, <2>2
<1>1. CASE c = "writer"
  <2>1. s = IF state["pcm"] = "IDLE" THEN Rockit_PlayAudio_PCM ELSE <<>>
    BY <1>1, CallNames DEF Second
  <2>2. s = <<>> \/ s = <<Source("pcm", None), Cmd("pcm", "PREPARE"), Cmd("pcm", "START")>>
    BY <2>1 DEF Rockit_PlayAudio_PCM
  <2> QED BY <1>1, <1>n, <1>p, <1>q, <2>2
<1>2. CASE c = "control" /\ fn.name = "PlayAudio"
  <2>1. PICK f \in {None, fn.file} : s = <<Source("local", f), Cmd("local", "PREPARE"), Cmd("local", "START")>>
    BY <1>2 DEF Second, Rockit_PlayAudio
  <2>2. f \in Files \union {None}
    BY <1>2, <2>1, CallNames
  <2> QED BY <1>2, <1>p, <1>q, <2>1, <2>2
<1>3. CASE c = "control" /\ fn.name # "PlayAudio"
  <2>1. s = <<>> \/ s = <<Cmd("pcm", "STOP"), Cmd("pcm", "RESET")>>
    BY <1>3, CallNames DEF Second, StopUnlessIdle, StopReset
  <2>2. Cmd("pcm", "STOP") \in Message /\ Cmd("pcm", "RESET") \in Message
    BY <1>0, <1>p
  <2>3. s # <<>> => /\ s \in Seq(Message)
                    /\ \A i \in DOMAIN s : s[i] \in {Cmd("pcm", "STOP"), Cmd("pcm", "RESET")}
    BY <2>1, <2>2, Listed2
  <2> QED BY <1>0, <1>3, <1>n, <1>p, <2>3
<1> QED BY <1>1, <1>2, <1>3 DEF Clients

(* What a step of a call leaves of its job.                                *)
LEMMA JobStep ==
    ASSUME NEW J \in [Clients -> Job], NEW c \in Clients, NEW a \in Places, NEW s \in Seq(Message),
           NEW K, K = [J EXCEPT ![c].at = a, ![c].todo = s]
    PROVE  /\ K \in [Clients -> Job]
           /\ K[c].at = a /\ K[c].todo = s /\ K[c].fn = J[c].fn /\ K[c].seen = J[c].seen
           /\ \A d \in Clients : d # c => K[d] = J[d]
  BY DEF Job

LEMMA JobLocked ==
    ASSUME NEW J \in [Clients -> Job], NEW c \in Clients, NEW s \in Seq(Message),
           NEW K, K = [J EXCEPT ![c].at = "first", ![c].seen = "IDLE", ![c].todo = s]
    PROVE  /\ K \in [Clients -> Job]
           /\ K[c].at = "first" /\ K[c].todo = s /\ K[c].fn = J[c].fn
           /\ \A d \in Clients : d # c => K[d] = J[d]
  BY DEF Job, Places, States

LEMMA JobAt ==
    ASSUME NEW J \in [Clients -> Job], NEW c \in Clients, NEW a \in Places, NEW K, K = [J EXCEPT ![c].at = a]
    PROVE  /\ K \in [Clients -> Job]
           /\ K[c].at = a /\ K[c].todo = J[c].todo /\ K[c].fn = J[c].fn /\ K[c].seen = J[c].seen
           /\ \A d \in Clients : d # c => K[d] = J[d]
  BY DEF Job

LEMMA JobNew ==
    ASSUME NEW J \in [Clients -> Job], NEW c \in Clients, NEW x \in Job, NEW K, K = [J EXCEPT ![c] = x]
    PROVE  K \in [Clients -> Job] /\ K[c] = x /\ \A d \in Clients : d # c => K[d] = J[d]
  OBVIOUS

(* A step of a call that sends nothing waits for what it waited for.       *)
LEMMA CommandsStay ==
    ASSUME CommandInv, mail' = mail,
           \A d \in Clients : Waits(d)' = Waits(d) /\ (Waits(d) => job'[d] = job[d])
    PROVE  CommandInv'
  BY DEF CommandInv

LEMMA CallInv ==
    ASSUME FacadeInv, NEW c \in Clients, NEW fn,
           fn \in IF c = "control" THEN ControlCalls ELSE WriterCalls, Call(c, fn)
    PROVE  FacadeInv'
<1>a. /\ FacadeTypeOK /\ LockInv /\ CommandInv /\ TodoInv /\ PlayInv /\ EndInv /\ WriterInv
      /\ EndKind /\ WrittenIsPlayed
  BY DEF FacadeInv
<1>b. /\ job[c].at = "idle"
      /\ UNCHANGED <<state, source, sink, mail, holder, readers, told, waiting, dropped>>
  BY DEF Call, playerVars, Idle
<1>0. fn \in CallsOf(c) /\ fn \in Fns /\ (c = "writer" => ~waiting)
  BY DEF CallsOf, Fns, WriterCalls, Written, Clients
<1> DEFINE x == [fn |-> fn, at |-> "lock", seen |-> IF c = "writer" THEN state["pcm"] ELSE "IDLE", todo |-> <<>>]
<1>x. x \in Job /\ job' = [job EXCEPT ![c] = x]
  <2>1. state["pcm"] \in States /\ "IDLE" \in States
    BY <1>a DEF FacadeTypeOK, Players, States
  <2> QED BY <1>0, <2>1 DEF Job, Places, Call
<1>j. /\ job' \in [Clients -> Job]
      /\ job'[c].at = "lock" /\ job'[c].fn = fn /\ job'[c].seen = IF c = "writer" THEN state["pcm"] ELSE "IDLE"
      /\ \A d \in Clients : d # c => job'[d] = job[d]
  <2>1. job' \in [Clients -> Job] /\ job'[c] = x /\ \A d \in Clients : d # c => job'[d] = job[d]
    BY <1>a, <1>x, JobNew DEF FacadeTypeOK
  <2> QED BY <2>1
<1>c. context' \in Context /\ context'.protocol = context.protocol
  BY <1>a DEF FacadeTypeOK, Call, Context
<1>1. FacadeTypeOK'
  BY <1>a, <1>b, <1>c, <1>j DEF FacadeTypeOK
<1>2. LockInv'
  BY <1>a, <1>b, <1>j DEF LockInv, Inside, Waits
<1>3. CommandInv'
  <2>1. \A d \in Clients : Waits(d)' = Waits(d) /\ (Waits(d) => job'[d] = job[d])
    BY <1>b, <1>j DEF Waits
  <2> QED BY <1>a, <1>b, <2>1, CommandsStay
<1>4. TodoInv'
  BY <1>a, <1>b, <1>0, <1>j, <1>c DEF TodoInv, Busy, Inside, Waits, Before, ToSend
<1>5. PlayInv' /\ EndInv'
  BY <1>a, <1>b, <1>c DEF PlayInv, EndInv, NoEvents, Empty
<1>6. WriterInv'
  <2>1. CASE c = "writer"
    BY <2>1, <1>a, <1>b, <1>0, <1>j DEF WriterInv, EndInv, Busy, Replaces, Before, Empty, Clients
  <2>2. CASE c = "control"
    BY <2>2, <1>a, <1>b, <1>0, <1>j DEF WriterInv, Busy, Replaces, Before, Empty, Clients
  <2> QED BY <2>1, <2>2 DEF Clients
<1>7. EndKind' /\ WrittenIsPlayed'
  BY <1>a, <1>b DEF EndKind, WrittenIsPlayed
<1> QED BY <1>1, <1>2, <1>3, <1>4, <1>5, <1>6, <1>7 DEF FacadeInv

LEMMA LockKeeps ==
    ASSUME FacadeInv, NEW c \in Clients, Lock(c)
    PROVE  FacadeInv'
<1>a. /\ FacadeTypeOK /\ LockInv /\ CommandInv /\ TodoInv /\ PlayInv /\ EndInv /\ WriterInv
      /\ EndKind /\ WrittenIsPlayed
  BY DEF FacadeInv
<1>b. /\ job[c].at = "lock" /\ holder = None /\ holder' = c
      /\ UNCHANGED <<state, source, sink, mail, context, readers, told, waiting, dropped>>
  BY DEF Lock, playerVars
<1>0. job[c].fn \in CallsOf(c) /\ job[c].seen \in States
  BY <1>a, <1>b DEF FacadeTypeOK, TodoInv, Busy, Job
<1> DEFINE s == First(job[c].fn, job[c].seen)
<1>t. job' = [job EXCEPT ![c].at = "first", ![c].seen = "IDLE", ![c].todo = s]
  BY DEF Lock
<1> HIDE DEF s
<1>1. /\ s \in Seq(Message)
      /\ \A i \in DOMAIN s : /\ s[i].what \in Commands \ {"SOURCE"}
                             /\ c = "writer" => s[i].player = "pcm"
      /\ job[c].fn.name = "PlayAudio" =>
            IF s = <<>> THEN state["local"] = "IDLE" ELSE s[Len(s)] = Cmd("local", "RESET")
      /\ c = "writer" =>
            IF job[c].seen # "COMPLETE" THEN s = <<>> ELSE s # <<>> /\ s[Len(s)] = Cmd("pcm", "RESET")
  BY <1>0, <1>a, FirstCommands DEF s
<1>j. /\ job' \in [Clients -> Job]
      /\ job'[c].at = "first" /\ job'[c].fn = job[c].fn /\ job'[c].todo = s
      /\ \A d \in Clients : d # c => job'[d] = job[d]
  <2>1. job \in [Clients -> Job]
    BY <1>a DEF FacadeTypeOK
  <2>2. s \in Seq(Message)
    BY <1>1
  <2> QED BY <2>1, <2>2, <1>t DEF Job, Places, States
<1>2. FacadeTypeOK'
  BY <1>a, <1>b, <1>j DEF FacadeTypeOK, Clients
<1>3. LockInv'
  BY FacadeAssumption, <1>a, <1>b, <1>j DEF LockInv, Inside, Waits, Clients
<1>4. CommandInv'
  <2>1. \A d \in Clients : Waits(d)' = Waits(d) /\ (Waits(d) => job'[d] = job[d])
    BY <1>b, <1>j DEF Waits
  <2> QED BY <1>a, <1>b, <2>1, CommandsStay
<1>5. TodoInv'
  <2>1. \A i \in DOMAIN s : \A m : m = s[i] => ToSend(c, m)'
    BY <1>1, <1>j DEF ToSend, Before
  <2>2. \A d \in Clients : d # c => ~Inside(d)
    BY FacadeAssumption, <1>a, <1>b DEF LockInv, Clients
  <2>3. \A d \in Clients : d # c => Inside(d)' = Inside(d) /\ Before(d)' = Before(d) /\ (Before(d) => Inside(d))
    BY <1>j DEF Inside, Waits, Before
  <2>4. Busy(c) /\ \A d \in Clients : Busy(d)' = Busy(d)
    BY <1>b, <1>j DEF Busy
  <2> QED BY <1>a, <1>b, <1>1, <1>j, <2>1, <2>2, <2>3, <2>4 DEF TodoInv
<1>6. PlayInv' /\ EndInv'
  BY <1>a, <1>b DEF PlayInv, EndInv, NoEvents, Empty
<1>7. WriterInv'
  <2>1. CASE c = "writer"
    BY <2>1, <1>a, <1>b, <1>1, <1>j DEF WriterInv, Busy, Replaces, Before, Empty, Clients
  <2>2. CASE c = "control"
    BY <2>2, <1>a, <1>b, <1>j DEF WriterInv, Busy, Replaces, Before, Empty, Clients
  <2> QED BY <2>1, <2>2 DEF Clients
<1>8. EndKind' /\ WrittenIsPlayed'
  BY <1>a, <1>b DEF EndKind, WrittenIsPlayed
<1> QED BY <1>2, <1>3, <1>4, <1>5, <1>6, <1>7, <1>8 DEF FacadeInv

LEMMA GoInv ==
    ASSUME FacadeInv, NEW c \in Clients, Go(c)
    PROVE  FacadeInv'
<1>a. /\ FacadeTypeOK /\ LockInv /\ CommandInv /\ TodoInv /\ PlayInv /\ EndInv /\ WriterInv
      /\ EndKind /\ WrittenIsPlayed
  BY DEF FacadeInv
<1>b. /\ job[c].at = "first" /\ job[c].todo = <<>>
      /\ UNCHANGED <<state, source, sink, mail, holder, readers, told, waiting, dropped>>
  BY DEF Go, playerVars
<1>0. job[c].fn \in CallsOf(c) /\ holder = c
  BY <1>a, <1>b DEF TodoInv, Busy, LockInv, Inside
<1> DEFINE s == Second(job[c].fn)
<1>t. job' = [job EXCEPT ![c].at = "second", ![c].todo = s]
  BY DEF Go
<1> HIDE DEF s
<1>1. /\ s \in Seq(Message)
      /\ \A i \in DOMAIN s :
            /\ s[i].what \in Commands
            /\ c = "writer" => s[i].player = "pcm" /\ s[i].what # "RESET"
            /\ s[i].what = "SOURCE" => IF s[i].player = "pcm" THEN s[i].file = None
                                       ELSE job[c].fn.name = "PlayAudio" /\ s[i].file \in {None, job[c].fn.file}
  BY <1>0, <1>a, SecondCommands DEF s
<1>j. /\ job' \in [Clients -> Job]
      /\ job'[c].at = "second" /\ job'[c].fn = job[c].fn /\ job'[c].todo = s /\ job'[c].seen = job[c].seen
      /\ \A d \in Clients : d # c => job'[d] = job[d]
  <2>1. job \in [Clients -> Job] /\ "second" \in Places
    BY <1>a DEF FacadeTypeOK, Places
  <2>2. s \in Seq(Message)
    BY <1>1
  <2> QED BY <2>1, <2>2, <1>t DEF Job
<1>c. /\ context' \in Context
      /\ IF job[c].fn.name = "PlayAudio" THEN context'.protocol = job[c].fn.file
         ELSE context'.protocol = context.protocol
  <2>1. context \in Context /\ context' = Chosen(job[c].fn)
    BY <1>a DEF FacadeTypeOK, Go
  <2>2. CASE job[c].fn.name = "PlayAudio"
    <3>1. context' = [context EXCEPT !.select = "local", !.protocol = job[c].fn.file]
      BY <2>1, <2>2 DEF Chosen
    <3> QED BY <1>0, <2>1, <2>2, <3>1, CallNames DEF Players, Context
  <2>3. CASE job[c].fn.name # "PlayAudio"
    <3>1. context' = context \/ context' = [context EXCEPT !.select = "pcm"]
      BY <2>1, <2>3 DEF Chosen
    <3> QED BY <2>1, <2>3, <3>1 DEF Players, Context
  <2> QED BY <2>2, <2>3
<1>i. job[c].fn.name = "PlayAudio" => source["local"] = None
  BY <1>a, <1>b DEF TodoInv, Before, PlayInv, Players
<1>2. FacadeTypeOK'
  BY <1>a, <1>b, <1>c, <1>j DEF FacadeTypeOK
<1>3. LockInv'
  BY <1>a, <1>b, <1>j DEF LockInv, Inside, Waits
<1>4. CommandInv'
  <2>1. \A d \in Clients : Waits(d)' = Waits(d) /\ (Waits(d) => job'[d] = job[d])
    BY <1>b, <1>j DEF Waits
  <2> QED BY <1>a, <1>b, <2>1, CommandsStay
<1>5. TodoInv'
  <2>1. \A i \in DOMAIN s : \A m : m = s[i] => ToSend(c, m)'
    BY <1>1, <1>j, <1>c DEF ToSend, Before
  <2>2. \A d \in Clients : d # c => ~Inside(d)
    BY <1>a, <1>0 DEF LockInv
  <2>3. \A d \in Clients : d # c => Inside(d)' = Inside(d) /\ Before(d)' = Before(d) /\ (Before(d) => Inside(d))
    BY <1>j DEF Inside, Waits, Before
  <2>4. ~Before(c)' /\ Busy(c) /\ \A d \in Clients : Busy(d)' = Busy(d)
    BY <1>b, <1>j DEF Busy, Before
  <2> QED BY <1>a, <1>1, <1>j, <2>1, <2>2, <2>3, <2>4 DEF TodoInv
<1>6. PlayInv'
  BY <1>a, <1>b, <1>c, <1>i DEF PlayInv, NoEvents
<1>7. EndInv'
  BY <1>a, <1>b DEF EndInv, NoEvents, Empty
<1>8. WriterInv'
  <2>1. CASE c = "writer"
    BY <2>1, <1>a, <1>b, <1>j DEF WriterInv, Busy, Replaces, Before, Empty, Clients
  <2>2. CASE c = "control"
    BY <2>2, <1>a, <1>b, <1>j DEF WriterInv, Busy, Replaces, Before, Empty, Clients
  <2> QED BY <2>1, <2>2 DEF Clients
<1>9. EndKind' /\ WrittenIsPlayed'
  BY <1>a, <1>b DEF EndKind, WrittenIsPlayed
<1> QED BY <1>2, <1>3, <1>4, <1>5, <1>6, <1>7, <1>8, <1>9 DEF FacadeInv

LEMMA DoneInv ==
    ASSUME FacadeInv, NEW c \in Clients, Done(c)
    PROVE  FacadeInv'
<1>a. /\ FacadeTypeOK /\ LockInv /\ CommandInv /\ TodoInv /\ PlayInv /\ EndInv /\ WriterInv
      /\ EndKind /\ WrittenIsPlayed
  BY DEF FacadeInv
<1>b. /\ job[c].at = "second" /\ job[c].todo = <<>> /\ holder' = None
      /\ UNCHANGED <<state, source, sink, mail, told, waiting, dropped>>
  BY DEF Done, playerVars
<1>0. job[c].fn \in CallsOf(c) /\ holder = c
  BY <1>a, <1>b DEF TodoInv, Busy, LockInv, Inside
<1>j. /\ job' \in [Clients -> Job]
      /\ job'[c].at = IF c = "writer" THEN "push" ELSE "idle"
      /\ job'[c].at = "push" => job'[c].fn = job[c].fn
      /\ \A d \in Clients : d # c => job'[d] = job[d]
  <2>1. Idle \in Job /\ Idle.at = "idle" /\ job \in [Clients -> Job]
    BY <1>a DEF Idle, Fns, Places, States, Job, FacadeTypeOK
  <2>2. CASE c = "writer"
    <3>1. job' = [job EXCEPT ![c].at = "push"]
      BY <1>0, <2>2, CallNames DEF Done
    <3> QED BY <2>1, <2>2, <3>1, JobAt DEF Places
  <2>3. CASE c = "control"
    <3>1. job' = [job EXCEPT ![c] = Idle]
      BY <1>0, <2>3, CallNames DEF Done
    <3> QED BY <2>1, <2>3, <3>1, JobNew
  <2> QED BY <2>2, <2>3 DEF Clients
<1>c. context' \in Context /\ context'.protocol = context.protocol
  <2>1. context \in Context /\ (context' = context \/ (job[c].fn.name = "PlayAudio" /\ context' = [context EXCEPT !.url = job[c].fn.file]))
    <3>1. CASE job[c].fn.name = "PlayAudio"
      BY <1>0, <1>a, <3>1, CallNames DEF FacadeTypeOK, Done
    <3>2. CASE job[c].fn.name # "PlayAudio"
      BY <1>a, <3>2 DEF FacadeTypeOK, Done
    <3> QED BY <3>1, <3>2
  <2> QED BY <1>0, <2>1, CallNames DEF Context
<1>r. /\ readers' \in Seq(Reader)
      /\ \A r \in DOMAIN readers' : readers'[r].at = "write" => r \in DOMAIN readers /\ readers[r].at = "write"
  <2>0. readers \in Seq(Reader)
    BY <1>a DEF FacadeTypeOK
  <2>1. CASE readers' = readers
    BY <2>0, <2>1
  <2>2. CASE readers' = Append(readers, [at |-> "open", file |-> None, left |-> Chunks])
    <3>1. [at |-> "open", file |-> None, left |-> Chunks] \in Reader
      BY FacadeAssumption DEF Reader
    <3> QED BY <2>0, <2>2, <3>1, Appended
  <2> QED BY <2>1, <2>2 DEF Done
<1>2. FacadeTypeOK'
  BY <1>a, <1>b, <1>j, <1>c, <1>r DEF FacadeTypeOK
<1>n. \A d \in Clients : ~Inside(d)' /\ ~Before(d)' /\ ~Waits(d)' /\ (Waits(d) => FALSE)
  BY <1>a, <1>0, <1>b, <1>j DEF LockInv, Inside, Waits, Before
<1>w. \A r \in DOMAIN readers : readers[r].at # "write"
  BY <1>0, <1>a DEF LockInv, Clients
<1>3. LockInv'
  BY <1>n, <1>r, <1>w DEF LockInv
<1>4. CommandInv'
  <2>1. \A d \in Clients : Waits(d)' = Waits(d) /\ (Waits(d) => job'[d] = job[d])
    BY <1>n DEF Waits
  <2> QED BY <1>a, <1>b, <2>1, CommandsStay
<1>5. TodoInv'
  BY <1>0, <1>a, <1>n, <1>j DEF TodoInv, Busy
<1>6. PlayInv' /\ EndInv'
  BY <1>a, <1>b, <1>c DEF PlayInv, EndInv, NoEvents, Empty
<1>7. WriterInv'
  <2>1. CASE c = "writer"
    BY <2>1, <1>a, <1>b, <1>j, <1>n DEF WriterInv, Busy, Replaces, Before, Empty, Clients
  <2>2. CASE c = "control"
    BY <2>2, <1>a, <1>b, <1>j DEF WriterInv, Busy, Replaces, Before, Empty, Clients
  <2> QED BY <2>1, <2>2 DEF Clients
<1>8. EndKind' /\ WrittenIsPlayed'
  BY <1>a, <1>b DEF EndKind, WrittenIsPlayed
<1> QED BY <1>2, <1>3, <1>4, <1>5, <1>6, <1>7, <1>8 DEF FacadeInv

LEMMA SendInv ==
    ASSUME FacadeInv, NEW c \in Clients, send(c)
    PROVE  FacadeInv'
<1>a. /\ FacadeTypeOK /\ LockInv /\ CommandInv /\ TodoInv /\ PlayInv /\ EndInv /\ WriterInv
      /\ EndKind /\ WrittenIsPlayed
  BY DEF FacadeInv
<1> DEFINE p == Head(job[c].todo).player
           m == Sent(c, Head(job[c].todo))
           a == IF job[c].at = "first" THEN "wait1" ELSE "wait2"
<1>b. /\ job[c].at \in {"first", "second"} /\ job[c].todo # <<>>
      /\ UNCHANGED <<state, source, sink, context, holder, readers, told, waiting, dropped>>
      /\ mail' = [mail EXCEPT ![p] = Append(@, m)]
  BY DEF send
<1>t. job' = [job EXCEPT ![c].at = a]
  BY <1>b DEF send
<1>0. Inside(c) /\ holder = c /\ job[c].todo \in Seq(Message) /\ job \in [Clients -> Job]
  BY <1>a, <1>b DEF Inside, LockInv, FacadeTypeOK, Job
<1>h. /\ Head(job[c].todo) \in Message /\ m \in Message /\ p \in Players
      /\ m.what = Head(job[c].todo).what /\ m.what \in Commands
  <2>1. Head(job[c].todo) \in Message /\ Head(job[c].todo).what \in Commands
    BY <1>a, <1>b, <1>0, Shortened DEF TodoInv, ToSend
  <2> QED BY <2>1 DEF Message, Sent
<1> HIDE DEF p, m, a
<1>j. /\ job' \in [Clients -> Job] /\ a \in {"wait1", "wait2"} /\ (a = "wait1" <=> job[c].at = "first")
      /\ job'[c].at = a /\ job'[c].fn = job[c].fn /\ job'[c].todo = job[c].todo /\ job'[c].seen = job[c].seen
      /\ \A d \in Clients : d # c => job'[d] = job[d]
  BY <1>0, <1>b, <1>t DEF Job, Places, a
<1>m. /\ mail' \in [Players -> Seq(Message)]
      /\ \A q \in Players : q # p => mail'[q] = mail[q]
      /\ Len(mail[p]) \in Nat /\ DOMAIN mail[p] = 1..Len(mail[p]) /\ DOMAIN mail'[p] = 1..(Len(mail[p]) + 1)
      /\ \A i \in 1..Len(mail[p]) : mail'[p][i] = mail[p][i]
      /\ mail'[p][Len(mail[p]) + 1] = m
  <2>1. mail \in [Players -> Seq(Message)] /\ mail[p] \in Seq(Message)
    BY <1>a, <1>h DEF FacadeTypeOK
  <2>2. mail'[p] = Append(mail[p], m) /\ \A q \in Players : q # p => mail'[q] = mail[q]
    BY <2>1, <1>b, <1>h
  <2>3. Append(mail[p], m) \in Seq(Message)
    BY <2>1, <1>h, Appended
  <2>4. mail' \in [Players -> Seq(Message)]
    BY <2>1, <2>3, <1>b, <1>h
  <2> QED BY <2>1, <2>2, <2>4, <1>h, Appended
<1>n. \A q \in Players : \A i \in DOMAIN mail[q] : mail[q][i].what \notin Commands
  <2>1. \A d \in Clients : ~Waits(d)
    BY <1>0, <1>a, <1>b DEF LockInv, Inside, Waits
  <2> QED BY <2>1, <1>a DEF CommandInv
<1>v. /\ \A q \in Players : NoEvents(q)' = NoEvents(q)
      /\ \A i \in DOMAIN mail'["pcm"] : mail'["pcm"][i].what \in Events => i \in DOMAIN mail["pcm"] /\ mail'["pcm"][i] = mail["pcm"][i]
  <2>1. m.what \notin Events
    BY <1>h DEF Commands, Events
  <2>2. ASSUME NEW q \in Players
        PROVE  /\ \A i \in DOMAIN mail[q] : i \in DOMAIN mail'[q] /\ mail'[q][i] = mail[q][i]
               /\ \A i \in DOMAIN mail'[q] : mail'[q][i].what \in Events => i \in DOMAIN mail[q]
    <3>1. CASE q = p
      BY <3>1, <2>1, <1>m
    <3>2. CASE q # p
      BY <3>2, <1>m
    <3> QED BY <3>1, <3>2
  <2> QED BY <2>2 DEF NoEvents, Players
<1>i. \A d \in Clients : /\ Inside(d)' = Inside(d) /\ Before(d)' = Before(d) /\ Busy(d)' = Busy(d)
                         /\ job'[d].todo = job[d].todo /\ job'[d].fn = job[d].fn
  BY <1>b, <1>j DEF Inside, Waits, Before, Busy
<1>1. FacadeTypeOK'
  BY <1>a, <1>b, <1>j, <1>m DEF FacadeTypeOK
<1>2. LockInv'
  BY <1>a, <1>b, <1>i DEF LockInv
<1>3. CommandInv'
  <2>1. \A d \in Clients : Waits(d)' => job'[d].todo # <<>>
    BY <1>a, <1>b, <1>j DEF CommandInv, Waits
  <2>2. Waits(c)' /\ m = Sent(c, Head(job'[c].todo)) /\ Head(job'[c].todo).player = p
    BY <1>j DEF Waits, m, p
  <2>3. \A q \in Players : \A i \in DOMAIN mail'[q] : mail'[q][i].what \in Commands =>
           q = p /\ i = Len(mail[p]) + 1 /\ mail'[q][i] = m
    BY <1>n, <1>m, <1>h
  <2> QED BY <2>1, <2>2, <2>3 DEF CommandInv
<1>4. TodoInv'
  BY <1>a, <1>b, <1>i DEF TodoInv, ToSend
<1>5. PlayInv'
  BY <1>a, <1>b, <1>v DEF PlayInv
<1>6. EndInv'
  BY <1>a, <1>b, <1>v DEF EndInv, Empty, Players
<1>7. WriterInv'
  <2>1. Replaces' = Replaces
    BY <1>b, <1>i, <1>j DEF Replaces, Clients, Before
  <2> QED BY <1>a, <1>b, <1>i, <2>1 DEF WriterInv, Clients, Empty
<1>8. EndKind' /\ WrittenIsPlayed'
  BY <1>a, <1>b DEF EndKind, WrittenIsPlayed
<1> QED BY <1>1, <1>2, <1>3, <1>4, <1>5, <1>6, <1>7, <1>8 DEF FacadeInv

LEMMA PushInv ==
    ASSUME FacadeInv, Rockit_WriteData
    PROVE  FacadeInv'
<1>a. /\ FacadeTypeOK /\ LockInv /\ CommandInv /\ TodoInv /\ PlayInv /\ EndInv /\ WriterInv
      /\ EndKind /\ WrittenIsPlayed
  BY DEF FacadeInv
<1> DEFINE data == job["writer"].fn.data
<1>b. /\ job["writer"].at = "push" /\ writeData("pcm", data)
      /\ waiting' = (data = End /\ sink["pcm"] # None)
      /\ job' = [job EXCEPT !["writer"] = Idle]
      /\ UNCHANGED <<state, source, mail, holder, readers, told, dropped>>
  BY DEF Rockit_WriteData
<1>c. context' \in Context /\ context'.protocol = context.protocol
  BY <1>a DEF FacadeTypeOK, Rockit_WriteData, Context, Players
<1>0. /\ "writer" \in Clients /\ "pcm" \in Players /\ ~waiting /\ state["pcm"] # "COMPLETE"
      /\ data \in Data
  <2>1. "writer" \in Clients /\ job["writer"].fn \in CallsOf("writer")
    BY <1>a, <1>b DEF TodoInv, Busy, Clients
  <2>2. data \in Data
    BY <2>1, CallNames DEF Written, Data, End
  <2> QED BY <1>a, <1>b, <2>1, <2>2 DEF WriterInv, Busy, Replaces, Before, Players
<1>j. /\ job' \in [Clients -> Job] /\ job'["writer"].at = "idle"
      /\ \A d \in Clients : d # "writer" => job'[d] = job[d]
  <2>1. Idle \in Job /\ Idle.at = "idle" /\ job \in [Clients -> Job]
    BY <1>a DEF Idle, Fns, Places, States, Job, FacadeTypeOK
  <2> QED BY <2>1, <1>0, <1>b, JobNew
<1> HIDE DEF data
<1>s. /\ sink' \in [Players -> Seq(Data) \union {None}]
      /\ sink["pcm"] = None => sink' = sink
      /\ sink["pcm"] # None =>
            /\ sink["pcm"] \in Seq(Data) /\ sink'["pcm"] = Append(sink["pcm"], data)
            /\ Len(sink["pcm"]) \in Nat /\ DOMAIN sink["pcm"] = 1..Len(sink["pcm"])
            /\ Len(sink'["pcm"]) = Len(sink["pcm"]) + 1 /\ DOMAIN sink'["pcm"] = 1..(Len(sink["pcm"]) + 1)
            /\ \A i \in 1..Len(sink["pcm"]) : sink'["pcm"][i] = sink["pcm"][i]
            /\ sink'["pcm"][Len(sink["pcm"]) + 1] = data
  <2>1. sink \in [Players -> Seq(Data) \union {None}]
    BY <1>a DEF FacadeTypeOK
  <2>2. CASE sink["pcm"] = None
    BY <2>1, <2>2, <1>b DEF writeData
  <2>3. CASE sink["pcm"] # None
    <3>1. sink["pcm"] \in Seq(Data) /\ sink' = [sink EXCEPT !["pcm"] = Append(@, data)]
      BY <2>1, <2>3, <1>0, <1>b DEF writeData
    <3>2. Append(sink["pcm"], data) \in Seq(Data)
      BY <3>1, <1>0, Appended
    <3>3. sink' \in [Players -> Seq(Data) \union {None}] /\ sink'["pcm"] = Append(sink["pcm"], data)
      BY <2>1, <3>1, <3>2, <1>0
    <3> QED BY <2>3, <3>1, <3>3, <1>0, Appended
  <2> QED BY <2>2, <2>3
<1>1. FacadeTypeOK'
  BY <1>a, <1>b, <1>c, <1>j, <1>s DEF FacadeTypeOK
<1>2. LockInv'
  BY <1>a, <1>b, <1>j DEF LockInv, Inside, Waits
<1>3. CommandInv'
  <2>1. \A d \in Clients : Waits(d)' = Waits(d) /\ (Waits(d) => job'[d] = job[d])
    BY <1>b, <1>j DEF Waits
  <2> QED BY <1>a, <1>b, <2>1, CommandsStay
<1>4. TodoInv'
  BY <1>a, <1>b, <1>j, <1>c DEF TodoInv, Busy, Inside, Waits, Before, ToSend
<1>5. PlayInv'
  BY <1>a, <1>b, <1>c DEF PlayInv, NoEvents
<1>6. EndInv'
  <2>1. NoEvents("pcm")' /\ NoEvents("pcm")
    BY <1>a, <1>b, <1>0 DEF EndInv, NoEvents
  <2>2. sink'["pcm"] # None =>
           \A i \in DOMAIN sink'["pcm"] : sink'["pcm"][i] = End => waiting' /\ i = Len(sink'["pcm"])
    <3>1. CASE sink["pcm"] = None
      BY <3>1, <1>s
    <3>2. CASE sink["pcm"] # None
      <4>1. \A i \in DOMAIN sink["pcm"] : sink["pcm"][i] # End
        BY <3>2, <1>a, <1>0 DEF EndInv
      <4>2. data = End => waiting'
        BY <3>2, <1>b
      <4> QED BY <3>2, <4>1, <4>2, <1>s
    <3> QED BY <3>1, <3>2
  <2> QED BY <1>a, <1>b, <1>0, <2>1, <2>2 DEF EndInv
<1>7. WriterInv'
  BY <1>j DEF WriterInv, Busy, Replaces, Before
<1>8. EndKind' /\ WrittenIsPlayed'
  BY <1>a, <1>b DEF EndKind, WrittenIsPlayed
<1> QED BY <1>1, <1>2, <1>3, <1>4, <1>5, <1>6, <1>7, <1>8 DEF FacadeInv

LEMMA ReadLocksInv ==
    ASSUME FacadeInv, NEW r \in DOMAIN readers, ReadDataLocks(r)
    PROVE  FacadeInv'
<1>a. /\ FacadeTypeOK /\ LockInv /\ CommandInv /\ TodoInv /\ PlayInv /\ EndInv /\ WriterInv
      /\ EndKind /\ WrittenIsPlayed
  BY DEF FacadeInv
<1>b. /\ holder = None /\ holder' = "reader" /\ Reads(r, "write", readers[r].file, readers[r].left)
      /\ UNCHANGED <<state, source, sink, mail, context, job, told, waiting, dropped>>
  BY DEF ReadDataLocks, playerVars
<1>0. \A s \in DOMAIN readers : readers[s].at # "write"
  BY FacadeAssumption, <1>a, <1>b DEF LockInv
<1>r. /\ readers' \in Seq(Reader) /\ DOMAIN readers' = DOMAIN readers
      /\ \A s \in DOMAIN readers : s # r => readers'[s] = readers[s]
  <2>1. readers \in Seq(Reader) /\ readers[r] \in Reader
    BY <1>a DEF FacadeTypeOK
  <2>2. [at |-> "write", file |-> readers[r].file, left |-> readers[r].left] \in Reader
    BY <2>1 DEF Reader
  <2> QED BY <1>b, <2>1, <2>2 DEF Reads
<1>1. FacadeTypeOK'
  BY <1>a, <1>b, <1>r DEF FacadeTypeOK
<1>2. LockInv'
  <2>1. \A c \in Clients : ~Inside(c)'
    BY FacadeAssumption, <1>a, <1>b DEF LockInv, Inside, Waits, Clients
  <2> QED BY <1>b, <1>0, <1>r, <2>1 DEF LockInv
<1>3. CommandInv' /\ TodoInv'
  BY <1>a, <1>b DEF CommandInv, TodoInv, Inside, Before, Busy, Waits, ToSend
<1>4. PlayInv' /\ EndInv' /\ WriterInv'
  BY <1>a, <1>b DEF PlayInv, EndInv, WriterInv, NoEvents, Empty, Replaces, Before, Busy
<1>5. EndKind' /\ WrittenIsPlayed'
  BY <1>a, <1>b DEF EndKind, WrittenIsPlayed
<1> QED BY <1>1, <1>2, <1>3, <1>4, <1>5 DEF FacadeInv

LEMMA ReadInv ==
    ASSUME FacadeInv, NEW r \in DOMAIN readers, Rockit_ReadData(r)
    PROVE  FacadeInv'
<1>a. /\ FacadeTypeOK /\ LockInv /\ CommandInv /\ TodoInv /\ PlayInv /\ EndInv /\ WriterInv
      /\ EndKind /\ WrittenIsPlayed
  BY DEF FacadeInv
<1>b. UNCHANGED <<state, source, mail, job, told, waiting, dropped>>
  BY DEF Rockit_ReadData
<1>0. readers \in Seq(Reader) /\ readers[r] \in Reader /\ context \in Context
  BY <1>a DEF FacadeTypeOK
<1>w. \A d \in Data : writeData("local", d) => sink' \in [Players -> Seq(Data) \union {None}] /\ sink'["pcm"] = sink["pcm"]
  BY <1>a, Appended DEF FacadeTypeOK, writeData, Players
<1>p. PICK x \in Reader :
        /\ readers' = [readers EXCEPT ![r] = x] /\ x.at # "write"
        /\ context' \in Context /\ context'.protocol = context.protocol
        /\ sink' \in [Players -> Seq(Data) \union {None}] /\ sink'["pcm"] = sink["pcm"]
        /\ \/ holder' = holder /\ readers[r].at # "write"
           \/ holder' = None /\ readers[r].at = "write"
  <2>0. sink \in [Players -> Seq(Data) \union {None}]
    BY <1>a DEF FacadeTypeOK
  <2>1. CASE /\ readers[r].at = "open"
             /\ Reads(r, "test", context.url, readers[r].left)
             /\ context' = [context EXCEPT !.stopFlag = FALSE] /\ UNCHANGED <<sink, holder>>
    <3> DEFINE x == [at |-> "test", file |-> context.url, left |-> readers[r].left]
    <3>1. x \in Reader /\ readers' = [readers EXCEPT ![r] = x] /\ x.at # "write"
      BY <1>0, <2>1 DEF Reader, Reads, Context
    <3>2. context' \in Context /\ context'.protocol = context.protocol
      BY <1>0, <2>1 DEF Context
    <3> QED BY <2>0, <2>1, <3>1, <3>2
  <2>2. CASE /\ readers[r].at = "test" /\ Reads(r, "lock", readers[r].file, readers[r].left)
             /\ UNCHANGED <<sink, holder, context>>
    <3> DEFINE x == [at |-> "lock", file |-> readers[r].file, left |-> readers[r].left]
    <3>1. x \in Reader /\ readers' = [readers EXCEPT ![r] = x] /\ x.at # "write"
      BY <1>0, <2>2 DEF Reader, Reads
    <3> QED BY <1>0, <2>0, <2>2, <3>1
  <2>3. CASE /\ readers[r].at = "write"
             /\ writeData("local", [of |-> readers[r].file]) /\ holder' = None
             /\ Reads(r, "test", readers[r].file, readers[r].left - 1) /\ UNCHANGED context
    <3> DEFINE x == [at |-> "test", file |-> readers[r].file, left |-> readers[r].left - 1]
    <3>1. x \in Reader /\ readers' = [readers EXCEPT ![r] = x] /\ x.at # "write"
      BY <1>0, <2>3 DEF Reader, Reads
    <3>2. [of |-> readers[r].file] \in Data
      BY <1>0 DEF Reader, Data
    <3> QED BY <1>0, <1>w, <2>3, <3>1, <3>2
  <2>4. CASE /\ readers[r].at = "test"
             /\ writeData("local", End) \/ UNCHANGED sink
             /\ Reads(r, "done", None, 0)
             /\ UNCHANGED <<holder, context>>
    <3> DEFINE x == [at |-> "done", file |-> None, left |-> 0]
    <3>1. x \in Reader /\ x.at # "write" /\ End \in Data
      BY DEF Reader, End, Data
    <3>2. readers' = [readers EXCEPT ![r] = x]
      BY <2>4 DEF Reads
    <3> QED BY <1>0, <1>w, <2>0, <2>4, <3>1, <3>2
  <2> QED BY <2>1, <2>2, <2>3, <2>4 DEF Rockit_ReadData
<1>r. /\ readers' \in Seq(Reader) /\ DOMAIN readers' = DOMAIN readers /\ readers'[r] = x
      /\ \A s \in DOMAIN readers : s # r => readers'[s] = readers[s]
  BY <1>0, <1>p
<1>1. FacadeTypeOK'
  BY <1>a, <1>b, <1>p, <1>r DEF FacadeTypeOK
<1>2. LockInv'
  BY FacadeAssumption, <1>a, <1>b, <1>p, <1>r DEF LockInv, Inside, Waits, Clients
<1>3. CommandInv' /\ TodoInv'
  BY <1>a, <1>b, <1>p DEF CommandInv, TodoInv, Inside, Before, Busy, Waits, ToSend
<1>4. PlayInv' /\ EndInv' /\ WriterInv'
  BY <1>a, <1>b, <1>p DEF PlayInv, EndInv, WriterInv, NoEvents, Empty, Replaces, Before, Busy
<1>5. EndKind' /\ WrittenIsPlayed'
  BY <1>a, <1>b DEF EndKind, WrittenIsPlayed
<1> QED BY <1>1, <1>2, <1>3, <1>4, <1>5 DEF FacadeInv

LEMMA PlayKeeps ==
    ASSUME FacadeInv, NEW p \in Players, Play(p)
    PROVE  FacadeInv'
<1>a. /\ FacadeTypeOK /\ LockInv /\ CommandInv /\ TodoInv /\ PlayInv /\ EndInv /\ WriterInv
      /\ EndKind /\ WrittenIsPlayed
  BY DEF FacadeInv
<1>b. /\ state[p] \in {"STARTED", "COMPLETE"} /\ sink[p] \notin {None, <<>>}
      /\ sink' = [sink EXCEPT ![p] = Tail(@)]
      /\ mail' = IF Head(sink[p]) = End THEN [mail EXCEPT ![p] = Append(@, Cmd(p, "COMPLETE"))] ELSE mail
      /\ UNCHANGED <<state, source, context, holder, job, readers, told, waiting, dropped>>
  BY DEF Play
<1> DEFINE e == Cmd(p, "COMPLETE")
<1>e. e \in Message /\ e.what = "COMPLETE"
  BY DEF Cmd, Message, Events
<1> HIDE DEF e
<1>s. /\ sink' \in [Players -> Seq(Data) \union {None}]
      /\ sink[p] \in Seq(Data) /\ sink'[p] = Tail(sink[p])
      /\ \A q \in Players : q # p => sink'[q] = sink[q]
  <2>1. sink \in [Players -> Seq(Data) \union {None}] /\ sink[p] \in Seq(Data) /\ sink[p] # <<>>
    BY <1>a, <1>b DEF FacadeTypeOK
  <2>2. Tail(sink[p]) \in Seq(Data)
    BY <2>1, Shortened
  <2> QED BY <1>b, <2>1, <2>2
<1>t. /\ Len(sink[p]) \in Nat \ {0} /\ Head(sink[p]) = sink[p][1] /\ 1 \in DOMAIN sink[p]
      /\ Len(sink'[p]) = Len(sink[p]) - 1 /\ (sink'[p] = <<>> <=> Len(sink[p]) = 1)
      /\ \A i \in DOMAIN sink'[p] : i + 1 \in DOMAIN sink[p] /\ sink'[p][i] = sink[p][i + 1]
  BY <1>b, <1>s, Shortened
<1>m. /\ mail' \in [Players -> Seq(Message)] /\ mail[p] \in Seq(Message)
      /\ \A q \in Players : q # p => mail'[q] = mail[q]
      /\ mail'[p] = IF Head(sink[p]) = End THEN Append(mail[p], e) ELSE mail[p]
  <2>1. mail \in [Players -> Seq(Message)] /\ mail[p] \in Seq(Message)
    BY <1>a DEF FacadeTypeOK
  <2>2. Append(mail[p], e) \in Seq(Message)
    BY <2>1, <1>e, Appended
  <2> QED BY <2>1, <2>2, <1>b DEF e
<1>n. /\ \A i \in DOMAIN mail[p] : i \in DOMAIN mail'[p] /\ mail'[p][i] = mail[p][i]
      /\ \A i \in DOMAIN mail'[p] : mail'[p][i].what \in Commands => i \in DOMAIN mail[p]
      /\ \A i, j \in DOMAIN mail'[p] : i \notin DOMAIN mail[p] /\ j \notin DOMAIN mail[p] => i = j
      /\ Head(sink[p]) # End => DOMAIN mail'[p] = DOMAIN mail[p]
  <2>1. CASE Head(sink[p]) = End
    <3>1. /\ Len(mail[p]) \in Nat /\ DOMAIN mail'[p] = 1..(Len(mail[p]) + 1) /\ DOMAIN mail[p] = 1..Len(mail[p])
          /\ \A i \in 1..Len(mail[p]) : mail'[p][i] = mail[p][i]
          /\ mail'[p][Len(mail[p]) + 1] = e
      BY <2>1, <1>m, <1>e, Appended
    <3> QED BY <2>1, <3>1, <1>e DEF Commands
  <2>2. CASE Head(sink[p]) # End
    BY <2>2, <1>m
  <2> QED BY <2>1, <2>2
<1>1. FacadeTypeOK'
  BY <1>a, <1>b, <1>s, <1>m DEF FacadeTypeOK
<1>2. LockInv'
  BY <1>a, <1>b DEF LockInv, Inside, Waits
<1>3. CommandInv'
  <2>1. \A q \in Players : \A i \in DOMAIN mail'[q] : mail'[q][i].what \in Commands =>
           i \in DOMAIN mail[q] /\ mail'[q][i] = mail[q][i]
    BY <1>m, <1>n
  <2> QED BY <1>a, <1>b, <2>1 DEF CommandInv, Waits
<1>4. TodoInv'
  BY <1>a, <1>b DEF TodoInv, Inside, Before, Busy, Waits, ToSend
<1>5. PlayInv'
  BY <1>a, <1>b, <1>m DEF PlayInv, NoEvents
<1>6. EndInv'
  <2>1. CASE p = "local"
    <3>1. sink'["pcm"] = sink["pcm"] /\ mail'["pcm"] = mail["pcm"]
      BY <2>1, <1>s, <1>m DEF Players
    <3> QED BY <1>a, <1>b, <3>1 DEF EndInv, NoEvents, Empty
  <2>2. CASE p = "pcm"
    <3>1. NoEvents("pcm") /\ sink["pcm"] # None
      BY <2>2, <1>a, <1>b DEF EndInv, Empty
    <3>2. state["pcm"] = "COMPLETE" => waiting'
      BY <2>2, <1>a, <1>b DEF EndInv, Empty
    <3>3. Head(sink["pcm"]) = End => waiting' /\ sink'["pcm"] = <<>>
      BY <2>2, <3>1, <1>a, <1>b, <1>t DEF EndInv
    <3>4. ~NoEvents("pcm")' => Head(sink["pcm"]) = End
      BY <2>2, <3>1, <1>m DEF NoEvents
    <3>5. \A i \in DOMAIN sink'["pcm"] : sink'["pcm"][i] = End => waiting' /\ i = Len(sink'["pcm"])
      <4> SUFFICES ASSUME NEW i \in DOMAIN sink'["pcm"], sink'["pcm"][i] = End
                   PROVE  waiting' /\ i = Len(sink'["pcm"])
        OBVIOUS
      <4>1. i + 1 \in DOMAIN sink["pcm"] /\ sink["pcm"][i + 1] = End
        BY <2>2, <1>t
      <4>2. waiting /\ i + 1 = Len(sink["pcm"])
        BY <4>1, <3>1, <1>a DEF EndInv
      <4>3. i \in Int
        BY <1>s, <2>2, <1>t, Shortened, <1>b
      <4> QED BY <4>2, <4>3, <1>b, <1>t, <2>2
    <3>6. \A i, j \in DOMAIN mail'["pcm"] : mail'["pcm"][i].what \in Events /\ mail'["pcm"][j].what \in Events => i = j
      BY <2>2, <3>1, <1>n DEF NoEvents
    <3> QED BY <3>2, <3>3, <3>4, <3>5, <3>6, <2>2, <1>b DEF EndInv, Empty
  <2> QED BY <2>1, <2>2 DEF Players
<1>7. WriterInv'
  <2>1. Empty("pcm") => Empty("pcm")'
    BY <1>b, <1>s DEF Empty, Players
  <2> QED BY <2>1, <1>a, <1>b DEF WriterInv, Replaces, Before, Busy
<1>8. EndKind' /\ WrittenIsPlayed'
  BY <1>a, <1>b DEF EndKind, WrittenIsPlayed
<1> QED BY <1>1, <1>2, <1>3, <1>4, <1>5, <1>6, <1>7, <1>8 DEF FacadeInv

LEMMA ReleaseInv ==
    ASSUME FacadeInv, Rockit_ReleasePlayer
    PROVE  FacadeInv'
<1>a. /\ FacadeTypeOK /\ LockInv /\ CommandInv /\ TodoInv /\ PlayInv /\ EndInv /\ WriterInv
      /\ EndKind /\ WrittenIsPlayed
  BY DEF FacadeInv
<1>b. /\ job["control"] = Idle /\ job["writer"] = Idle
      /\ job' = [c \in Clients |-> [Idle EXCEPT !.at = "released"]]
      /\ state' = [p \in Players |-> "IDLE"] /\ source' = [p \in Players |-> None]
      /\ sink' = [p \in Players |-> None] /\ mail' = [p \in Players |-> <<>>]
      /\ UNCHANGED <<context, holder, readers, told, waiting, dropped>>
  BY DEF Rockit_ReleasePlayer
<1>j. job' \in [Clients -> Job] /\ \A c \in Clients : job'[c].at = "released" /\ job'[c].fn.name = "none"
  <2>1. [Idle EXCEPT !.at = "released"] = [fn |-> [name |-> "none"], at |-> "released", seen |-> "IDLE", todo |-> <<>>]
    BY DEF Idle
  <2>2. [fn |-> [name |-> "none"], at |-> "released", seen |-> "IDLE", todo |-> <<>>] \in Job
    BY DEF Job, Places, Fns, States, Idle
  <2> QED BY <1>b, <2>1, <2>2
<1>n. \A c \in Clients : ~Inside(c)' /\ ~Waits(c)' /\ ~Busy(c)' /\ ~Before(c)'
  BY <1>j DEF Inside, Waits, Busy, Before
<1>1. FacadeTypeOK'
  <2>1. state' \in [Players -> States] /\ mail' \in [Players -> Seq(Message)]
    BY <1>b DEF States
  <2> QED BY <1>a, <1>b, <1>j, <2>1 DEF FacadeTypeOK
<1>2. LockInv'
  BY <1>a, <1>b, <1>n DEF LockInv
<1>3. CommandInv' /\ TodoInv'
  BY <1>b, <1>n DEF CommandInv, TodoInv
<1>4. PlayInv' /\ EndInv'
  BY <1>b DEF PlayInv, EndInv, NoEvents, Players
<1>5. WriterInv'
  BY <1>n, <1>j DEF WriterInv, Replaces, Clients
<1>6. EndKind' /\ WrittenIsPlayed'
  BY <1>a, <1>b DEF EndKind, WrittenIsPlayed
<1> QED BY <1>1, <1>2, <1>3, <1>4, <1>5, <1>6 DEF FacadeInv

LEMMA EventInv ==
    ASSUME FacadeInv, NEW p \in Players, onEventReceived(p)
    PROVE  FacadeInv'
<1>a. /\ FacadeTypeOK /\ LockInv /\ CommandInv /\ TodoInv /\ PlayInv /\ EndInv /\ WriterInv
      /\ EndKind /\ WrittenIsPlayed
  BY DEF FacadeInv
<1> DEFINE first == Head(mail[p])
           b == Cmd(p, "CALLBACK")
<1>b. /\ mail[p] # <<>> /\ first.what \in Events
      /\ UNCHANGED <<source, sink, context, holder, job, readers, dropped>>
  BY DEF onEventReceived, Events
<1>c. \/ /\ state' = [state EXCEPT ![p] = "COMPLETE"] /\ mail' = [mail EXCEPT ![p][1] = b]
         /\ UNCHANGED <<told, waiting>>
      \/ /\ Rockit_Callback(p) /\ mail' = [mail EXCEPT ![p] = Tail(@)] /\ UNCHANGED state
  BY DEF onEventReceived
<1>e. b \in Message /\ b.what = "CALLBACK"
  BY DEF Cmd, Message, Events
<1> HIDE DEF b
<1>0. /\ mail \in [Players -> Seq(Message)] /\ mail[p] \in Seq(Message) /\ state \in [Players -> States]
      /\ Len(mail[p]) \in Nat \ {0} /\ first = mail[p][1] /\ 1 \in DOMAIN mail[p]
      /\ DOMAIN mail[p] = 1..Len(mail[p]) /\ mail[p][1].what \in Events
  <2>1. mail \in [Players -> Seq(Message)] /\ mail[p] \in Seq(Message) /\ state \in [Players -> States]
    BY <1>a DEF FacadeTypeOK
  <2> QED BY <1>b, <2>1, Shortened
<1>q. ~NoEvents(p) /\ state[p] # "IDLE"
  BY <1>a, <1>0 DEF PlayInv, NoEvents
<1>m. /\ mail' \in [Players -> Seq(Message)] /\ \A q \in Players : q # p => mail'[q] = mail[q]
      /\ \A i \in DOMAIN mail'[p] : mail'[p][i].what \in Commands =>
            \E j \in DOMAIN mail[p] : mail'[p][i] = mail[p][j]
      /\ \A i, j \in DOMAIN mail'[p] : mail'[p][i].what \in Commands /\ mail'[p][j].what \in Commands /\ i # j =>
            \E k, l \in DOMAIN mail[p] : k # l /\ mail[p][k].what \in Commands /\ mail[p][l].what \in Commands
      /\ \/ \A i \in DOMAIN mail'[p] : mail'[p][i].what \in Events => i \in DOMAIN mail[p] /\ mail[p][i].what \in Events
         \/ \A i \in DOMAIN mail'[p] : mail'[p][i].what \in Events => i + 1 \in DOMAIN mail[p] /\ mail[p][i + 1].what \in Events
  <2>1. CASE mail' = [mail EXCEPT ![p][1] = b]
    <3>1. /\ mail'[p] = [mail[p] EXCEPT ![1] = b] /\ mail'[p] \in Seq(Message)
          /\ \A q \in Players : q # p => mail'[q] = mail[q]
      BY <2>1, <1>0, <1>e
    <3>2. mail' \in [Players -> Seq(Message)]
      BY <2>1, <3>1, <1>0
    <3>3. /\ DOMAIN mail'[p] = DOMAIN mail[p] /\ mail'[p][1].what = "CALLBACK"
          /\ \A i \in DOMAIN mail[p] : i # 1 => mail'[p][i] = mail[p][i]
      BY <3>1, <1>0, <1>e
    <3> QED BY <1>0, <3>1, <3>2, <3>3 DEF Commands
  <2>2. CASE mail' = [mail EXCEPT ![p] = Tail(@)]
    <3>1. Tail(mail[p]) \in Seq(Message) /\ \A i \in DOMAIN Tail(mail[p]) : i \in Int /\ i + 1 \in DOMAIN mail[p] /\ Tail(mail[p])[i] = mail[p][i + 1]
      BY <1>0, <1>b, Shortened
    <3>2. mail'[p] = Tail(mail[p]) /\ mail' \in [Players -> Seq(Message)] /\ \A q \in Players : q # p => mail'[q] = mail[q]
      BY <2>2, <3>1, <1>0
    <3> QED BY <3>1, <3>2
  <2> QED BY <1>c, <2>1, <2>2
<1>s. /\ state' \in [Players -> States] /\ \A q \in Players : q # p => state'[q] = state[q]
      /\ state'[p] \in {state[p], "COMPLETE"}
  BY <1>c, <1>0 DEF States
<1>t. told' = told /\ (waiting' \in BOOLEAN) /\ (waiting' => waiting)
  <2>1. CASE Rockit_Callback(p)
    <3>1. waiting' \in BOOLEAN /\ (waiting' => waiting)
      BY <1>a, <2>1 DEF FacadeTypeOK, Rockit_Callback
    <3>2. CASE p = "pcm"
      BY <2>1, <3>1, <3>2, <1>a DEF Rockit_Callback, FacadeTypeOK
    <3>3. CASE p = "local"
      <4>1. source["local"] \in {None, context.protocol}
        BY <1>a DEF PlayInv
      <4> QED BY <2>1, <3>1, <3>3, <4>1, <1>a DEF Rockit_Callback, FacadeTypeOK
    <3> QED BY <3>2, <3>3 DEF Players
  <2>2. CASE UNCHANGED <<told, waiting>>
    BY <2>2, <1>a DEF FacadeTypeOK
  <2> QED BY <1>c, <2>1, <2>2
<1>1. FacadeTypeOK'
  BY <1>a, <1>b, <1>m, <1>s, <1>t DEF FacadeTypeOK
<1>2. LockInv'
  BY <1>a, <1>b DEF LockInv, Inside, Waits
<1>3. CommandInv'
  <2>1. \A q \in Players : \A i \in DOMAIN mail'[q] : mail'[q][i].what \in Commands =>
           \E j \in DOMAIN mail[q] : mail'[q][i] = mail[q][j]
    BY <1>m
  <2>2. \A q \in Players : \A i, j \in DOMAIN mail'[q] :
          mail'[q][i].what \in Commands /\ mail'[q][j].what \in Commands => i = j
    BY <1>a, <1>m DEF CommandInv
  <2> QED BY <1>a, <1>b, <2>1, <2>2 DEF CommandInv, Waits
<1>4. TodoInv'
  <2>1. state["local"] = "IDLE" => state'["local"] = "IDLE"
    BY <1>q, <1>s DEF Players
  <2> QED BY <1>a, <1>b, <2>1 DEF TodoInv, Inside, Before, Busy, Waits, ToSend
<1>5. PlayInv'
  <2>1. \A q \in Players : state'[q] = "IDLE" => state[q] = "IDLE"
    BY <1>s
  <2>2. \A q \in Players : state'[q] \notin {"STARTED", "PAUSED", "COMPLETE"} => q # p
    BY <1>a, <1>q, <1>s DEF PlayInv
  <2> QED BY <1>a, <1>b, <1>m, <1>s, <2>1, <2>2 DEF PlayInv, NoEvents
<1>6. EndInv' /\ WriterInv'
  <2>1. CASE p = "local"
    <3>1. waiting' = waiting
      BY <2>1, <1>c, <1>a DEF Rockit_Callback, FacadeTypeOK
    <3>2. mail'["pcm"] = mail["pcm"] /\ state'["pcm"] = state["pcm"]
      BY <2>1, <1>m, <1>s DEF Players
    <3> QED BY <1>a, <1>b, <3>1, <3>2 DEF EndInv, WriterInv, NoEvents, Empty, Replaces, Before, Busy
  <2>2. CASE p = "pcm"
    <3>1. waiting /\ Empty("pcm") /\ ~Busy("writer")
      BY <2>2, <1>a, <1>q DEF EndInv, WriterInv
    <3>2. Empty("pcm")' /\ ~Busy("writer")'
      BY <3>1, <1>b DEF Empty, Busy
    <3>3. WriterInv'
      BY <3>2 DEF WriterInv, Busy, Replaces, Before
    <3>4. sink'["pcm"] # None => DOMAIN sink'["pcm"] = {}
      BY <3>2 DEF Empty
    <3>5. \A i \in DOMAIN mail["pcm"] : mail["pcm"][i].what \in Events => i = 1
      BY <2>2, <1>a, <1>0 DEF EndInv
    <3>6. \A i, j \in DOMAIN mail'["pcm"] : mail'["pcm"][i].what \in Events /\ mail'["pcm"][j].what \in Events => i = j
      <4>1. mail["pcm"] \in Seq(Message) /\ mail'["pcm"] \in Seq(Message)
        BY <2>2, <1>m, <1>0
      <4>2. \A i \in DOMAIN mail'["pcm"] : i \in Int
        BY <4>1
      <4>3. CASE \A i \in DOMAIN mail'["pcm"] : mail'["pcm"][i].what \in Events =>
                   i \in DOMAIN mail["pcm"] /\ mail["pcm"][i].what \in Events
        BY <3>5, <4>3
      <4>4. CASE \A i \in DOMAIN mail'["pcm"] : mail'["pcm"][i].what \in Events =>
                   i + 1 \in DOMAIN mail["pcm"] /\ mail["pcm"][i + 1].what \in Events
        <5>1. \A i \in DOMAIN mail'["pcm"] : mail'["pcm"][i].what \in Events => i + 1 = 1
          BY <3>5, <4>4
        <5> QED BY <4>2, <5>1
      <4> QED BY <2>2, <4>3, <4>4, <1>m
    <3>7. ~NoEvents("pcm")' => waiting'
      <4>1. CASE mail' = [mail EXCEPT ![p][1] = b] /\ UNCHANGED <<told, waiting>>
        BY <3>1, <4>1
      <4>2. CASE mail' = [mail EXCEPT ![p] = Tail(@)]
        <5>1. mail'[p] = Tail(mail[p])
          BY <4>2, <1>0
        <5>2. \A i \in DOMAIN mail'[p] : i \in Nat \ {0} /\ i + 1 \in DOMAIN mail[p] /\ mail'[p][i] = mail[p][i + 1]
          BY <5>1, <1>0, <1>b, Shortened
        <5> QED BY <2>2, <3>5, <5>2 DEF NoEvents
      <4> QED BY <1>c, <4>1, <4>2
    <3> QED BY <3>2, <3>3, <3>4, <3>6, <3>7 DEF EndInv
  <2> QED BY <2>1, <2>2 DEF Players
<1>7. EndKind' /\ WrittenIsPlayed'
  BY <1>a, <1>b, <1>t DEF EndKind, WrittenIsPlayed
<1> QED BY <1>1, <1>2, <1>3, <1>4, <1>5, <1>6, <1>7 DEF FacadeInv

(* What the handling of one command does to the player it is for.          *)
LEMMA Effects ==
    ASSUME FacadeTypeOK, PlayInv, NEW p \in Players, onCmdReceived(p)
    PROVE  LET m == Head(mail[p]) IN
           /\ state' \in [Players -> States] /\ \A q \in Players : q # p => state'[q] = state[q]
           /\ source' \in [Players -> Files \union {None}] /\ \A q \in Players : q # p => source'[q] = source[q]
           /\ sink' \in [Players -> Seq(Data) \union {None}] /\ \A q \in Players : q # p => sink'[q] = sink[q]
           /\ p = "pcm" => sink'[p] \in {sink[p], None, <<>>}
           /\ \/ mail' = [mail EXCEPT ![p] = Tail(@)]
              \/ mail' = [mail EXCEPT ![p] = <<>>]
           /\ state'[p] \notin {"STARTED", "PAUSED", "COMPLETE"} =>
                 mail' = [mail EXCEPT ![p] = <<>>] \/ state[p] \notin {"STARTED", "PAUSED", "COMPLETE"}
           /\ state'[p] = "COMPLETE" => state[p] = "COMPLETE"
           /\ state'[p] = "IDLE" => source'[p] = None
           /\ m.what = "RESET" => state'[p] = "IDLE"
           /\ source'[p] \in {source[p], None} \union (IF m.what = "SOURCE" THEN {m.file} ELSE {})
           /\ dropped' \in BOOLEAN
           /\ dropped' => dropped \/ (m.what = "RESET" /\ m.from = "writer" /\ p = "pcm" /\ ~Empty(p))
<1> DEFINE m == Head(mail[p])
<1>0. /\ state \in [Players -> States] /\ source \in [Players -> Files \union {None}]
      /\ sink \in [Players -> Seq(Data) \union {None}] /\ mail \in [Players -> Seq(Message)]
      /\ dropped \in BOOLEAN /\ (state[p] = "IDLE" => source[p] = None) /\ (p = "pcm" => source[p] = None)
  BY DEF FacadeTypeOK, PlayInv
<1>1. mail[p] \in Seq(Message) /\ mail[p] # <<>> /\ m \in Message
  BY <1>0, Shortened DEF onCmdReceived
<1>2. CASE m.what = "SOURCE" /\ setDataSource(p, m.file)
  <2>1. m.file \in Files \union {None}
    BY <1>1 DEF Message
  <2> QED BY <1>0, <1>2, <2>1 DEF setDataSource, States
<1>3. CASE m.what = "PREPARE" /\ prepare(p)
  <2>1. <<>> \in Seq(Data) /\ <<End>> \in Seq(Data)
    BY DEF Data, End
  <2>2. state' \in [Players -> States] /\ \A q \in Players : q # p => state'[q] = state[q]
    BY <1>0, <1>3 DEF prepare, States
  <2>3. sink' \in [Players -> Seq(Data) \union {None}] /\ \A q \in Players : q # p => sink'[q] = sink[q]
    BY <1>0, <1>3, <2>1 DEF prepare
  <2>4. p = "pcm" => sink'[p] \in {sink[p], None, <<>>}
    BY <1>0, <1>3 DEF prepare
  <2> QED BY <1>0, <1>3, <2>2, <2>3, <2>4 DEF prepare
<1>4. CASE m.what = "START" /\ start(p)
  BY <1>0, <1>4 DEF start, States
<1>5. CASE m.what = "PAUSE" /\ pause(p)
  BY <1>0, <1>5 DEF pause, States
<1>6. CASE m.what = "STOP" /\ stop(p)
  BY <1>0, <1>6 DEF stop, States, Stoppable
<1>7. CASE m.what = "RESET" /\ reset(p, m.from)
  <2>1. \/ mail' = [mail EXCEPT ![p] = Tail(@)]
        \/ mail' = [mail EXCEPT ![p] = <<>>]
    BY <1>7 DEF reset
  <2>2. state[p] \in {"STARTED", "PAUSED", "COMPLETE"} => mail' = [mail EXCEPT ![p] = <<>>]
    BY <1>7 DEF reset, Stoppable
  <2>3. CASE state[p] = "IDLE"
    BY <1>0, <1>7, <2>1, <2>2, <2>3 DEF reset
  <2>4. CASE state[p] # "IDLE"
    BY <1>0, <1>7, <2>1, <2>2, <2>4 DEF reset, States, Empty
  <2> QED BY <2>3, <2>4
<1>8. CASE m.what = "SEEK" /\ mail' = [mail EXCEPT ![p] = Tail(@)] /\ UNCHANGED <<state, source, sink, dropped>>
  BY <1>0, <1>8
<1> QED BY <1>2, <1>3, <1>4, <1>5, <1>6, <1>7, <1>8 DEF onCmdReceived

LEMMA CommandHandledInv ==
    ASSUME FacadeInv, NEW p \in Players, onCmdReceived(p)
    PROVE  FacadeInv'
<1>a. /\ FacadeTypeOK /\ LockInv /\ CommandInv /\ TodoInv /\ PlayInv /\ EndInv /\ WriterInv
      /\ EndKind /\ WrittenIsPlayed
  BY DEF FacadeInv
<1> DEFINE m == Head(mail[p])
           c == m.from
           s == Tail(job[c].todo)
           a == IF job[c].at = "wait1" THEN "first" ELSE "second"
<1>b. /\ mail[p] # <<>> /\ m.what \notin Events
      /\ job' = [job EXCEPT ![c].at = a, ![c].todo = s]
      /\ UNCHANGED <<context, holder, readers, told, waiting>>
  BY DEF onCmdReceived, Handled, Events
<1>0. /\ mail \in [Players -> Seq(Message)] /\ mail[p] \in Seq(Message) /\ job \in [Clients -> Job]
      /\ Len(mail[p]) \in Nat \ {0} /\ m = mail[p][1] /\ 1 \in DOMAIN mail[p] /\ m \in Message
      /\ m.what \in Commands
  <2>1. mail \in [Players -> Seq(Message)] /\ mail[p] \in Seq(Message) /\ job \in [Clients -> Job]
    BY <1>a DEF FacadeTypeOK
  <2>2. m \in Message /\ Len(mail[p]) \in Nat \ {0} /\ m = mail[p][1] /\ 1 \in DOMAIN mail[p]
    BY <1>b, <2>1, Shortened
  <2> QED BY <1>b, <2>1, <2>2 DEF Message
<1>c. /\ c \in Clients /\ Waits(c) /\ Head(job[c].todo).player = p
      /\ m.what = Head(job[c].todo).what /\ m.file = Head(job[c].todo).file
  <2>1. PICK d \in Clients : /\ Waits(d) /\ m = Sent(d, Head(job[d].todo))
                             /\ Head(job[d].todo).player = p
    BY <1>0, <1>a DEF CommandInv
  <2>2. /\ Sent(d, Head(job[d].todo)).from = d /\ Sent(d, Head(job[d].todo)).what = Head(job[d].todo).what
        /\ Sent(d, Head(job[d].todo)).file = Head(job[d].todo).file
    BY DEF Sent
  <2> QED BY <2>1, <2>2
<1>e. /\ state' \in [Players -> States] /\ \A q \in Players : q # p => state'[q] = state[q]
      /\ source' \in [Players -> Files \union {None}] /\ \A q \in Players : q # p => source'[q] = source[q]
      /\ sink' \in [Players -> Seq(Data) \union {None}] /\ \A q \in Players : q # p => sink'[q] = sink[q]
      /\ p = "pcm" => sink'[p] \in {sink[p], None, <<>>}
      /\ \/ mail' = [mail EXCEPT ![p] = Tail(@)]
         \/ mail' = [mail EXCEPT ![p] = <<>>]
      /\ state'[p] \notin {"STARTED", "PAUSED", "COMPLETE"} =>
            mail' = [mail EXCEPT ![p] = <<>>] \/ state[p] \notin {"STARTED", "PAUSED", "COMPLETE"}
      /\ state'[p] = "COMPLETE" => state[p] = "COMPLETE"
      /\ state'[p] = "IDLE" => source'[p] = None
      /\ m.what = "RESET" => state'[p] = "IDLE"
      /\ source'[p] \in {source[p], None} \union (IF m.what = "SOURCE" THEN {m.file} ELSE {})
      /\ dropped' \in BOOLEAN
      /\ dropped' => dropped \/ (m.what = "RESET" /\ c = "writer" /\ p = "pcm" /\ ~Empty(p))
  BY <1>a, Effects
<1> HIDE DEF c, m, a, s
<1>t. /\ job[c].todo \in Seq(Message) /\ job[c].todo # <<>> /\ s \in Seq(Message) /\ Len(s) = Len(job[c].todo) - 1
      /\ Len(job[c].todo) \in Nat \ {0} /\ (s = <<>> <=> Len(job[c].todo) = 1)
      /\ \A i \in DOMAIN s : i \in Nat \ {0} /\ i + 1 \in DOMAIN job[c].todo /\ s[i] = job[c].todo[i + 1]
      /\ Head(job[c].todo) = job[c].todo[1] /\ 1 \in DOMAIN job[c].todo
      /\ s # <<>> => s[Len(s)] = job[c].todo[Len(job[c].todo)]
  <2>1. job[c].todo \in Seq(Message) /\ job[c].todo # <<>>
    BY <1>0, <1>a, <1>c DEF Job, CommandInv
  <2>2. /\ s \in Seq(Message) /\ Len(s) = Len(job[c].todo) - 1 /\ DOMAIN s = 1..(Len(job[c].todo) - 1)
        /\ Len(job[c].todo) \in Nat \ {0} /\ (s = <<>> <=> Len(job[c].todo) = 1)
        /\ \A i \in DOMAIN s : i + 1 \in DOMAIN job[c].todo /\ s[i] = job[c].todo[i + 1]
        /\ Head(job[c].todo) = job[c].todo[1] /\ 1 \in DOMAIN job[c].todo
    BY <2>1, Shortened DEF s
  <2> QED BY <2>1, <2>2
<1>j. /\ job' \in [Clients -> Job] /\ a \in {"first", "second"} /\ (a = "first" <=> job[c].at = "wait1")
      /\ job'[c].at = a /\ job'[c].fn = job[c].fn /\ job'[c].todo = s /\ job'[c].seen = job[c].seen
      /\ \A d \in Clients : d # c => job'[d] = job[d]
  <2>1. a \in Places /\ a \in {"first", "second"} /\ (a = "first" <=> job[c].at = "wait1")
    BY DEF a, Places
  <2> QED BY <2>1, <1>0, <1>b, <1>c, <1>t DEF Job
<1>i. /\ \A d \in Clients : /\ Inside(d)' = Inside(d) /\ Before(d)' = Before(d) /\ Busy(d)' = Busy(d)
                            /\ job'[d].fn = job[d].fn
      /\ Inside(c) /\ holder = c /\ \A d \in Clients : ~Waits(d)' /\ (d # c => ~Inside(d) /\ ~Before(d) /\ ~Waits(d))
  <2>1. Inside(c) /\ holder = c /\ \A d \in Clients : d # c => ~Inside(d)
    BY <1>a, <1>c DEF LockInv, Inside
  <2> QED BY <2>1, <1>c, <1>j DEF Inside, Waits, Before, Busy
<1>m. /\ mail' \in [Players -> Seq(Message)] /\ \A q \in Players : q # p => mail'[q] = mail[q]
      /\ \A i \in DOMAIN mail'[p] : i \in Nat \ {0} /\ i + 1 \in DOMAIN mail[p] /\ mail'[p][i] = mail[p][i + 1]
      /\ mail' = [mail EXCEPT ![p] = <<>>] => DOMAIN mail'[p] = {}
  <2>0. <<>> \in Seq(Message) /\ DOMAIN <<>> = {}
    OBVIOUS
  <2>1. CASE mail' = [mail EXCEPT ![p] = <<>>]
    BY <1>0, <2>0, <2>1
  <2>2. CASE mail' = [mail EXCEPT ![p] = Tail(@)]
    <3>1. Tail(mail[p]) \in Seq(Message) /\ DOMAIN Tail(mail[p]) = 1..(Len(mail[p]) - 1)
          /\ \A i \in DOMAIN Tail(mail[p]) : i + 1 \in DOMAIN mail[p] /\ Tail(mail[p])[i] = mail[p][i + 1]
      BY <1>0, <1>b, Shortened
    <3>2. /\ mail'[p] = Tail(mail[p]) /\ mail' \in [Players -> Seq(Message)]
          /\ \A q \in Players : q # p => mail'[q] = mail[q]
      BY <2>2, <1>0, <3>1
    <3> QED BY <2>0, <3>1, <3>2, <1>0
  <2> QED BY <1>e, <2>1, <2>2
<1>n. \A q \in Players : \A i \in DOMAIN mail'[q] : mail'[q][i].what \notin Commands
  <2>1. ASSUME NEW q \in Players, NEW i \in DOMAIN mail'[q], mail'[q][i].what \in Commands PROVE FALSE
    <3>1. CASE q = p
      <4>1. i + 1 \in DOMAIN mail[p] /\ mail[p][i + 1].what \in Commands /\ i \in Nat \ {0}
        BY <2>1, <3>1, <1>m
      <4>2. i + 1 = 1
        BY <4>1, <1>0, <1>a DEF CommandInv
      <4> QED BY <4>1, <4>2
    <3>2. CASE q # p
      <4>1. PICK d \in Clients : Waits(d) /\ Head(job[d].todo).player = q
        BY <2>1, <3>2, <1>m, <1>a DEF CommandInv
      <4> QED BY <4>1, <3>2, <1>i, <1>c
    <3> QED BY <3>1, <3>2
  <2> QED BY <2>1
<1>q. \A q \in Players : NoEvents(q) => NoEvents(q)'
  BY <1>m DEF NoEvents
<1>1. FacadeTypeOK'
  BY <1>a, <1>b, <1>e, <1>j, <1>m DEF FacadeTypeOK
<1>2. LockInv'
  BY <1>a, <1>b, <1>i DEF LockInv
<1>3. CommandInv'
  BY <1>i, <1>n DEF CommandInv
<1>h. ToSend(c, Head(job[c].todo)) /\ \A i \in DOMAIN s : ToSend(c, s[i])
  BY <1>a, <1>c, <1>i, <1>t DEF TodoInv
<1>4. TodoInv'
  <2>1. \A i \in DOMAIN job'[c].todo : ToSend(c, job'[c].todo[i])
    BY <1>h, <1>j
  <2>3. \A d \in Clients : Inside(d)' => d = c
    BY <1>i
  <2>4. (\A d \in Clients : Inside(d) => \A i \in DOMAIN job[d].todo : ToSend(d, job[d].todo[i]))'
    <3>1. ASSUME NEW d \in Clients, Inside(d)', NEW i \in DOMAIN job'[d].todo
          PROVE  ToSend(d, job[d].todo[i])'
      <4>1. d = c
        BY <2>3, <3>1
      <4>2. ToSend(d, job'[d].todo[i])
        BY <2>1, <3>1, <4>1, Zenon
      <4>3. context' = context /\ Before(d)' = Before(d)
        BY <1>b, <1>i
      <4> QED BY <4>2, <4>3 DEF ToSend
    <3> QED BY <3>1
  <2>5. ASSUME NEW d \in Clients, job'[d].fn.name = "PlayAudio", Before(d)'
        PROVE  IF job'[d].todo = <<>> THEN state'["local"] = "IDLE"
               ELSE job'[d].todo[Len(job'[d].todo)] = Cmd("local", "RESET")
    <3>1. d = c /\ Before(c) /\ job[c].fn.name = "PlayAudio"
      BY <2>5, <1>i
    <3>2. job[c].todo[Len(job[c].todo)] = Cmd("local", "RESET")
      BY <3>1, <1>a, <1>c, <1>t DEF TodoInv
    <3>3. CASE s = <<>>
      <4>1. Head(job[c].todo) = Cmd("local", "RESET")
        BY <3>2, <3>3, <1>t
      <4>2. p = "local" /\ m.what = "RESET"
        BY <4>1, <1>c DEF Cmd
      <4> QED BY <3>1, <3>3, <4>2, <1>e, <1>j
    <3>4. CASE s # <<>>
      BY <3>1, <3>2, <3>4, <1>j, <1>t
    <3> QED BY <3>3, <3>4
  <2> QED BY <1>a, <1>i, <2>4, <2>5 DEF TodoInv
<1>5. PlayInv'
  <2>1. source'["pcm"] = None
    <3>1. CASE p = "pcm"
      BY <3>1, <1>a, <1>c, <1>e, <1>h DEF PlayInv, ToSend
    <3>2. CASE p # "pcm"
      BY <3>2, <1>a, <1>e DEF PlayInv, Players
    <3> QED BY <3>1, <3>2
  <2>2. source'["local"] \in {None, context'.protocol}
    <3>1. CASE p = "local"
      BY <3>1, <1>a, <1>b, <1>c, <1>e, <1>h DEF PlayInv, ToSend
    <3>2. CASE p # "local"
      BY <3>2, <1>a, <1>b, <1>e DEF PlayInv, Players
    <3> QED BY <3>1, <3>2
  <2>3. \A q \in Players : state'[q] = "IDLE" => source'[q] = None
    BY <1>a, <1>e DEF PlayInv
  <2>4. \A q \in Players : state'[q] \notin {"STARTED", "PAUSED", "COMPLETE"} => NoEvents(q)'
    <3>1. DOMAIN mail'[p] = {} => NoEvents(p)'
      BY DEF NoEvents
    <3> QED BY <1>a, <1>e, <1>m, <1>q, <3>1 DEF PlayInv
  <2> QED BY <2>1, <2>2, <2>3, <2>4 DEF PlayInv
<1>k. /\ Empty("pcm") => Empty("pcm")'
      /\ sink'["pcm"] \in {sink["pcm"], None, <<>>}
      /\ state'["pcm"] = "COMPLETE" => state["pcm"] = "COMPLETE"
  BY <1>e DEF Empty, Players
<1>6. EndInv'
  <2>1. ~NoEvents("pcm")' => waiting' /\ Empty("pcm")'
    BY <1>a, <1>b, <1>k, <1>q DEF EndInv, Players
  <2>2. \A i, j \in DOMAIN mail'["pcm"] : mail'["pcm"][i].what \in Events /\ mail'["pcm"][j].what \in Events => i = j
    <3>1. CASE p = "pcm"
      BY <3>1, <1>a, <1>m DEF EndInv
    <3>2. CASE p # "pcm"
      BY <3>2, <1>a, <1>m DEF EndInv, Players
    <3> QED BY <3>1, <3>2
  <2>3. sink'["pcm"] # None =>
           \A i \in DOMAIN sink'["pcm"] : sink'["pcm"][i] = End => waiting' /\ i = Len(sink'["pcm"])
    <3>1. CASE sink'["pcm"] = <<>>
      BY <3>1
    <3>2. CASE sink'["pcm"] = sink["pcm"]
      BY <3>2, <1>a, <1>b DEF EndInv
    <3> QED BY <3>1, <3>2, <1>k
  <2> QED BY <2>1, <2>2, <2>3, <1>a, <1>b, <1>k DEF EndInv
<1>w. c = "writer" => /\ p = "pcm"
                      /\ m.what = "RESET" => Replaces /\ Empty("pcm")
  <2>1. c = "writer" => p = "pcm" /\ (m.what = "RESET" => Before(c))
    BY <1>c, <1>h DEF ToSend
  <2> QED BY <2>1, <1>a, <1>t DEF Replaces, WriterInv
<1>7. WriterInv'
  <2>1. Replaces' => Replaces
    <3>1. CASE c = "writer"
      BY <3>1, <1>i, <1>j, <1>t, <1>c DEF Replaces, Waits
    <3>2. CASE c # "writer"
      BY <3>2, <1>i, <1>j DEF Replaces, Clients
    <3> QED BY <3>1, <3>2
  <2>2. Replaces /\ ~Replaces' => state'["pcm"] # "COMPLETE"
    <3> SUFFICES ASSUME Replaces, ~Replaces' PROVE state'["pcm"] # "COMPLETE"
      OBVIOUS
    <3>1. c = "writer" /\ Before("writer") /\ s = <<>>
      <4>1. CASE c # "writer"
        BY <4>1, <1>i, <1>j DEF Replaces, Clients
      <4>2. CASE c = "writer"
        BY <4>2, <1>i, <1>j, <1>c DEF Replaces, Waits, Clients
      <4> QED BY <4>1, <4>2
    <3>2. Head(job[c].todo) = Cmd("pcm", "RESET")
      BY <3>1, <1>a, <1>t DEF WriterInv
    <3>3. m.what = "RESET" /\ p = "pcm"
      BY <3>2, <1>c DEF Cmd
    <3> QED BY <3>3, <1>e
  <2>3. Before("writer")' /\ job'["writer"].todo # <<>> =>
           job'["writer"].todo[Len(job'["writer"].todo)] = Cmd("pcm", "RESET")
    <3>1. CASE c = "writer"
      BY <3>1, <1>a, <1>i, <1>j, <1>t DEF WriterInv, Clients
    <3>2. CASE c # "writer"
      BY <3>2, <1>a, <1>i, <1>j DEF WriterInv, Clients
    <3> QED BY <3>1, <3>2
  <2>4. Busy("writer")' = Busy("writer")
    BY <1>i DEF Clients
  <2> QED BY <1>a, <1>b, <1>k, <2>1, <2>2, <2>3, <2>4 DEF WriterInv
<1>8. EndKind' /\ WrittenIsPlayed'
  BY <1>a, <1>b, <1>e, <1>w DEF EndKind, WrittenIsPlayed
<1> QED BY <1>1, <1>2, <1>3, <1>4, <1>5, <1>6, <1>7, <1>8 DEF FacadeInv

LEMMA FacadeKeeps == FacadeInv /\ [FacadeNext]_facadeVars => FacadeInv'
<1> SUFFICES ASSUME FacadeInv, [FacadeNext]_facadeVars PROVE FacadeInv'
  OBVIOUS
<1>1. ASSUME NEW fn \in ControlCalls, Call("control", fn) PROVE FacadeInv'
  BY <1>1, CallInv DEF Clients
<1>2. ASSUME NEW fn \in WriterCalls, Call("writer", fn) PROVE FacadeInv'
  BY <1>2, CallInv DEF Clients
<1>3. ASSUME NEW c \in Clients, Lock(c) \/ send(c) \/ Go(c) \/ Done(c) PROVE FacadeInv'
  BY <1>3, LockKeeps, SendInv, GoInv, DoneInv
<1>4. CASE Rockit_WriteData
  BY <1>4, PushInv
<1>5. ASSUME NEW r \in DOMAIN readers, Rockit_ReadData(r) \/ ReadDataLocks(r) PROVE FacadeInv'
  BY <1>5, ReadInv, ReadLocksInv
<1>6. ASSUME NEW p \in Players, onCmdReceived(p) \/ onEventReceived(p) \/ Play(p) PROVE FacadeInv'
  BY <1>6, CommandHandledInv, EventInv, PlayKeeps
<1>7. CASE Rockit_ReleasePlayer
  BY <1>7, ReleaseInv
<1>8. CASE UNCHANGED facadeVars
  BY <1>8 DEF facadeVars, playerVars, FacadeInv, FacadeTypeOK, LockInv, CommandInv, TodoInv, PlayInv, EndInv,
              WriterInv, EndKind, WrittenIsPlayed, Waits, Inside, Before, NoEvents, Empty, ToSend, Busy, Replaces
<1> QED BY <1>1, <1>2, <1>3, <1>4, <1>5, <1>6, <1>7, <1>8 DEF FacadeNext

(* The end of a url is always told as the end of that kind of url.         *)
THEOREM EndsAreTold == FacadeSpec => []EndKind
<1>1. FacadeInv => EndKind
  BY DEF FacadeInv
<1> QED BY <1>1, FacadeInit, FacadeKeeps, PTL DEF FacadeSpec

(* The next write never drops the data of the one before.                  *)
THEOREM WritesArePlayed == FacadeSpec => []WrittenIsPlayed
<1>1. FacadeInv => WrittenIsPlayed
  BY DEF FacadeInv
<1> QED BY <1>1, FacadeInit, FacadeKeeps, PTL DEF FacadeSpec

-----------------------------------------------------------------------------
(* The pool numbers its workers, and the owner is one of the pushers.      *)
PoolConstants ==
    /\ \E n \in Nat \ {0} : Workers = 1..n
    /\ Owner \in Pushers /\ Quota \in Nat

PoolTypeOK ==
    /\ pool \in {"none", "running", "pausing", "waiting", "freed"}
    /\ tasks \in Seq(Tasks) /\ cur = Len(tasks)
    /\ wpc \in [Workers -> {"unborn", "test", "pop", "run", "read", "write", "done"}]
    /\ task \in [Workers -> Tasks \union {NULL}]
    /\ ppc \in [Pushers -> {"idle", "full?", "push", "join"}]
    /\ made \in [Pushers -> 0..Quota]
    /\ accepted \subseteq Tasks /\ ran \in [Tasks -> Nat]
    /\ joined \in 0..Cardinality(Workers)

Running(w) == wpc[w] = "run"

PlaceInv ==
    /\ \A i, j \in DOMAIN tasks : tasks[i] = tasks[j] => i = j
    /\ \A i \in DOMAIN tasks : tasks[i] \in accepted /\ ran[tasks[i]] = 0
    /\ \A w \in Workers : Running(w) =>
          /\ task[w] \in accepted /\ ran[task[w]] = 0
          /\ \A i \in DOMAIN tasks : tasks[i] # task[w]
    /\ \A v, w \in Workers : Running(v) /\ Running(w) /\ task[v] = task[w] => v = w
    /\ \A t \in accepted : \/ ran[t] = 1
                           \/ \E i \in DOMAIN tasks : tasks[i] = t
                           \/ \E w \in Workers : Running(w) /\ task[w] = t
    /\ \A t \in Tasks : ran[t] <= 1 /\ (t \notin accepted => ran[t] = 0)

PoolPushInv ==
    /\ \A p \in Pushers : \A i \in 1..Quota : <<p, i>> \in accepted => i <= made[p]
    /\ \A p \in Pushers : ppc[p] \in {"full?", "push"} => made[p] >= 1 /\ Made(p) \notin accepted

PoolEndInv ==
    /\ pool \in {"waiting", "freed"} =>
          /\ Started
          /\ \A p \in Pushers : made[p] = Quota /\ ppc[p] \in {"idle", "join"}
    /\ \A p \in Pushers : ppc[p] = "join" => p = Owner /\ pool = "waiting"
    /\ pool = "waiting" => ppc[Owner] = "join"
    /\ \A w \in Workers : wpc[w] = "done" => pool \in {"waiting", "freed"} /\ tasks = <<>>
    /\ \A w \in 1..joined : wpc[w] = "done"
    /\ pool = "freed" => joined = Cardinality(Workers)

PoolInv == PoolTypeOK /\ PlaceInv /\ PoolPushInv /\ PoolEndInv

-----------------------------------------------------------------------------
LEMMA WorkersCount ==
  ASSUME PoolConstants
  PROVE  Cardinality(Workers) \in Nat \ {0} /\ Workers = 1..Cardinality(Workers)
<1>1. PICK n \in Nat \ {0} : Workers = 1..n
  BY DEF PoolConstants
<1>2. Cardinality(1..n) = n
  BY FS_Interval
<1> QED
  BY <1>1, <1>2

(* A queue that gets an element at one of its ends ...                     *)
Grown(S, q, e, r) ==
    /\ r \in Seq(S) /\ Len(r) = Len(q) + 1
    /\ \E k \in DOMAIN r : r[k] = e
    /\ \A i \in DOMAIN q : \E j \in DOMAIN r : r[j] = q[i]
    /\ \A j \in DOMAIN r : r[j] = e \/ \E i \in DOMAIN q : r[j] = q[i]
    /\ \A i, j \in DOMAIN r : r[i] = r[j] => i = j

LEMMA QueuePut ==
  ASSUME NEW S, NEW q \in Seq(S), NEW e \in S,
         \A i, j \in DOMAIN q : q[i] # e /\ (q[i] = q[j] => i = j)
  PROVE  Grown(S, q, e, Append(q, e)) /\ Grown(S, q, e, <<e>> \o q)
<1>1. Grown(S, q, e, Append(q, e))
  <2> DEFINE r == Append(q, e)
  <2>1. /\ r \in Seq(S) /\ DOMAIN r = 1..(Len(q) + 1) /\ DOMAIN q = 1..Len(q) /\ Len(q) \in Nat
        /\ Len(r) = Len(q) + 1
        /\ r[Len(q) + 1] = e /\ \A i \in DOMAIN q : r[i] = q[i]
    OBVIOUS
  <2> HIDE DEF r
  <2>2. Grown(S, q, e, r)
    BY <2>1 DEF Grown
  <2> QED
    BY <2>2 DEF r
<1>2. Grown(S, q, e, <<e>> \o q)
  <2> DEFINE r == <<e>> \o q
  <2>1. /\ r \in Seq(S) /\ DOMAIN r = 1..(Len(q) + 1) /\ DOMAIN q = 1..Len(q) /\ Len(q) \in Nat
        /\ Len(r) = Len(q) + 1
        /\ r[1] = e /\ \A i \in DOMAIN q : r[i + 1] = q[i]
    OBVIOUS
  <2> HIDE DEF r
  <2>2. \A j \in DOMAIN r : j = 1 \/ (j - 1 \in DOMAIN q /\ r[j] = q[j - 1])
    BY <2>1
  <2>3. \A i \in DOMAIN q : i + 1 \in DOMAIN r
    BY <2>1
  <2>4. \A j \in DOMAIN r : r[j] = e \/ \E i \in DOMAIN q : r[j] = q[i]
    BY <2>1, <2>2
  <2>5. ASSUME NEW i \in DOMAIN r, NEW j \in DOMAIN r, r[i] = r[j]
        PROVE  i = j
    <3>1. CASE i = 1
      BY <2>1, <2>2, <2>5, <3>1
    <3>2. CASE j = 1
      BY <2>1, <2>2, <2>5, <3>2
    <3>3. CASE i # 1 /\ j # 1
      <4>1. q[i - 1] = q[j - 1] /\ i - 1 \in DOMAIN q /\ j - 1 \in DOMAIN q
        BY <2>2, <2>5, <3>3
      <4> QED
        BY <2>1, <4>1
    <3> QED
      BY <3>1, <3>2, <3>3
  <2>6. 1 \in DOMAIN r
    BY <2>1
  <2>7. Grown(S, q, e, r)
    BY <2>1, <2>3, <2>4, <2>5, <2>6 DEF Grown
  <2> QED
    BY <2>7 DEF r
<1> QED
  BY <1>1, <1>2

(* ... and one whose first is taken.                                       *)
LEMMA QueueTake ==
  ASSUME NEW S, NEW q \in Seq(S), q # <<>>
  PROVE  /\ 1 \in DOMAIN q /\ q[1] \in S /\ Head(q) = q[1]
         /\ Tail(q) \in Seq(S) /\ Len(Tail(q)) = Len(q) - 1
         /\ \A i \in DOMAIN Tail(q) : i + 1 \in DOMAIN q /\ Tail(q)[i] = q[i + 1]
         /\ \A i \in DOMAIN q : i = 1 \/ (i - 1 \in DOMAIN Tail(q) /\ Tail(q)[i - 1] = q[i])
OBVIOUS

(* Where the tasks are, for steps that move none.                          *)
LEMMA PlaceKept ==
  ASSUME PoolInv, UNCHANGED <<tasks, accepted, ran>>,
         \A w \in Workers : (Running(w))' <=> Running(w),
         \A w \in Workers : Running(w) => task'[w] = task[w]
  PROVE  PlaceInv'
<1> USE DEF PoolInv, PlaceInv
<1>1. (\A i, j \in DOMAIN tasks : tasks[i] = tasks[j] => i = j)'
  OBVIOUS
<1>2. (\A i \in DOMAIN tasks : tasks[i] \in accepted /\ ran[tasks[i]] = 0)'
  OBVIOUS
<1>3. (\A w \in Workers : Running(w) =>
        /\ task[w] \in accepted /\ ran[task[w]] = 0
        /\ \A i \in DOMAIN tasks : tasks[i] # task[w])'
  OBVIOUS
<1>4. (\A v, w \in Workers : Running(v) /\ Running(w) /\ task[v] = task[w] => v = w)'
  OBVIOUS
<1>5. ASSUME NEW t \in accepted'
      PROVE  \/ ran'[t] = 1
             \/ \E i \in DOMAIN tasks' : tasks'[i] = t
             \/ \E w \in Workers : Running(w)' /\ task'[w] = t
  <2>1. CASE \E w \in Workers : Running(w) /\ task[w] = t
    BY <2>1
  <2> QED
    BY <2>1
<1>6. (\A t \in Tasks : ran[t] <= 1 /\ (t \notin accepted => ran[t] = 0))'
  BY DEF Tasks
<1> QED
  BY <1>1, <1>2, <1>3, <1>4, <1>5, <1>6

LEMMA PoolInitInv ==
  ASSUME PoolConstants, PoolInit
  PROVE  PoolInv
<1>1. PoolTypeOK
  <2>1. tasks \in Seq(Tasks) /\ Len(tasks) = 0
    BY DEF PoolInit
  <2> QED
    BY <2>1, WorkersCount DEF PoolInit, PoolTypeOK, PoolConstants
<1>2. PlaceInv
  BY DEF PoolInit, PlaceInv, Running
<1>3. PoolPushInv
  BY DEF PoolInit, PoolPushInv, PoolConstants
<1>4. PoolEndInv
  BY DEF PoolInit, PoolEndInv, Started
<1> QED
  BY <1>1, <1>2, <1>3, <1>4 DEF PoolInv

-----------------------------------------------------------------------------
(* The pushers.                                                            *)

LEMMA TestStateInv ==
  ASSUME PoolConstants, PoolInv, NEW p \in Pushers, TestState(p)
  PROVE  PoolInv'
<1> USE DEF TestState, PushTo, workVars
<1>1. PoolTypeOK'
  BY DEF PoolInv, PoolTypeOK, PoolConstants
<1>2. PlaceInv'
  BY PlaceKept DEF Running
<1>3. PoolPushInv'
  BY DEF PoolInv, PoolTypeOK, PoolPushInv, Made, PoolConstants
<1>4. PoolEndInv'
  BY DEF PoolInv, PoolTypeOK, PoolEndInv, Started, PoolConstants
<1> QED
  BY <1>1, <1>2, <1>3, <1>4 DEF PoolInv

LEMMA TestRoomInv ==
  ASSUME PoolConstants, PoolInv, NEW p \in Pushers, TestRoom(p)
  PROVE  PoolInv'
<1> USE DEF TestRoom, PushTo, workVars
<1>1. PoolTypeOK'
  BY DEF PoolInv, PoolTypeOK
<1>2. PlaceInv'
  BY PlaceKept DEF Running
<1>3. PoolPushInv'
  BY DEF PoolInv, PoolTypeOK, PoolPushInv, Made
<1>4. PoolEndInv'
  BY DEF PoolInv, PoolTypeOK, PoolEndInv, Started
<1> QED
  BY <1>1, <1>2, <1>3, <1>4 DEF PoolInv

(* A task that is pushed is new, at whichever end it is queued.            *)
LEMMA PushInvariant ==
  ASSUME PoolConstants, PoolInv, NEW p \in Pushers, Push(p)
  PROVE  PoolInv'
<1> USE DEF Push, PushTo, workVars
<1> DEFINE new == Made(p)
<1>1. /\ new \in Tasks /\ new \notin accepted
      /\ tasks \in Seq(Tasks) /\ accepted' = accepted \union {new}
      /\ ran[new] = 0
  BY DEF PoolInv, PoolTypeOK, PlaceInv, PoolPushInv, Made, Tasks
<1> HIDE DEF new
<1>2. /\ tasks' \in Seq(Tasks) /\ Len(tasks') = Len(tasks) + 1
      /\ \E k \in DOMAIN tasks' : tasks'[k] = new
      /\ \A i \in DOMAIN tasks : \E j \in DOMAIN tasks' : tasks'[j] = tasks[i]
      /\ \A j \in DOMAIN tasks' : tasks'[j] = new \/ \E i \in DOMAIN tasks : tasks'[j] = tasks[i]
      /\ \A i, j \in DOMAIN tasks' : tasks'[i] = tasks'[j] => i = j
  <2>1. \A i, j \in DOMAIN tasks : tasks[i] # new /\ (tasks[i] = tasks[j] => i = j)
    BY <1>1 DEF PoolInv, PlaceInv
  <2>2. tasks' = Append(tasks, new) \/ tasks' = <<new>> \o tasks
    BY DEF new
  <2>3. /\ Grown(Tasks, tasks, new, Append(tasks, new))
        /\ Grown(Tasks, tasks, new, <<new>> \o tasks)
    BY <1>1, <2>1, QueuePut
  <2>4. Grown(Tasks, tasks, new, tasks')
    BY <2>2, <2>3, Zenon
  <2> QED
    BY <2>4 DEF Grown
<1>3. PoolTypeOK'
  BY <1>1, <1>2 DEF PoolInv, PoolTypeOK
<1>4. PlaceInv'
  <2>1. (\A i \in DOMAIN tasks : tasks[i] \in accepted /\ ran[tasks[i]] = 0)'
    BY <1>1, <1>2 DEF PoolInv, PlaceInv
  <2>2. (\A w \in Workers : Running(w) =>
          /\ task[w] \in accepted /\ ran[task[w]] = 0
          /\ \A i \in DOMAIN tasks : tasks[i] # task[w])'
    BY <1>1, <1>2 DEF PoolInv, PlaceInv, Running
  <2>3. (\A v, w \in Workers : Running(v) /\ Running(w) /\ task[v] = task[w] => v = w)'
    BY DEF PoolInv, PlaceInv, Running
  <2>4. (\A t \in accepted : \/ ran[t] = 1
                           \/ \E i \in DOMAIN tasks : tasks[i] = t
                           \/ \E w \in Workers : Running(w) /\ task[w] = t)'
    BY <1>1, <1>2 DEF PoolInv, PlaceInv, Running
  <2>5. (\A t \in Tasks : ran[t] <= 1 /\ (t \notin accepted => ran[t] = 0))'
    BY <1>1 DEF PoolInv, PlaceInv
  <2> QED
    BY <1>2, <2>1, <2>2, <2>3, <2>4, <2>5 DEF PlaceInv
<1>5. PoolPushInv'
  BY <1>1 DEF PoolInv, PoolTypeOK, PoolPushInv, Made, new
<1>6. PoolEndInv'
  BY <1>2 DEF PoolInv, PoolTypeOK, PoolEndInv, Started
<1> QED
  BY <1>3, <1>4, <1>5, <1>6 DEF PoolInv

-----------------------------------------------------------------------------
(* The workers.                                                            *)

(* A worker's step that moves no task.                                     *)
LEMMA WorkerTests ==
  ASSUME PoolConstants, PoolInv, NEW w \in Workers,
         WorkerLeaves(w) \/ WorkerGoesOn(w) \/ ReadBusy(w) \/ WriteBusy(w)
  PROVE  PoolInv'
<1> USE DEF WorkerLeaves, WorkerGoesOn, ReadBusy, WriteBusy, WorkTo, pushVars
<1>1. PoolTypeOK'
  BY DEF PoolInv, PoolTypeOK
<1>2. PlaceInv'
  BY PlaceKept DEF PoolInv, PoolTypeOK, Running
<1>3. PoolPushInv'
  BY DEF PoolInv, PoolPushInv, Made
<1>4. PoolEndInv'
  <2>1. ASSUME WorkerLeaves(w) PROVE tasks = <<>>
    <3>1. tasks \in Seq(Tasks) /\ Len(tasks) = 0
      BY <2>1 DEF PoolInv, PoolTypeOK
    <3> QED
      BY <3>1
  <2> QED
    BY <2>1, WorkersCount DEF PoolInv, PoolTypeOK, PoolEndInv, Started
<1> QED
  BY <1>1, <1>2, <1>3, <1>4 DEF PoolInv

LEMMA PopInv ==
  ASSUME PoolConstants, PoolInv, NEW w \in Workers, Pop(w)
  PROVE  PoolInv'
<1> USE DEF Pop, WorkTo, pushVars
<1>1. CASE tasks = <<>>
  <2>1. PoolTypeOK'
    BY <1>1 DEF PoolInv, PoolTypeOK
  <2>2. PlaceInv'
    BY <1>1, PlaceKept DEF PoolInv, PoolTypeOK, Running
  <2>3. PoolPushInv'
    BY <1>1 DEF PoolInv, PoolPushInv, Made
  <2>4. PoolEndInv'
    BY <1>1, WorkersCount DEF PoolInv, PoolTypeOK, PoolEndInv, Started
  <2> QED
    BY <2>1, <2>2, <2>3, <2>4 DEF PoolInv
<1>2. CASE tasks # <<>>
  <2> USE <1>2
  <2>1. /\ tasks \in Seq(Tasks) /\ 1 \in DOMAIN tasks /\ tasks' = Tail(tasks)
        /\ tasks' \in Seq(Tasks) /\ Len(tasks') = Len(tasks) - 1
        /\ \A i \in DOMAIN tasks' : i + 1 \in DOMAIN tasks /\ tasks'[i] = tasks[i + 1]
        /\ \A i \in DOMAIN tasks : i = 1 \/ (i - 1 \in DOMAIN tasks' /\ tasks'[i - 1] = tasks[i])
    <3>1. tasks \in Seq(Tasks) /\ tasks' = Tail(tasks)
      BY DEF PoolInv, PoolTypeOK
    <3> QED
      BY <3>1, QueueTake
  <2>2. /\ task' = [task EXCEPT ![w] = tasks[1]] /\ wpc' = [wpc EXCEPT ![w] = "run"]
        /\ task \in [Workers -> Tasks \union {NULL}]
        /\ wpc[w] = "pop" /\ DOMAIN wpc = Workers /\ tasks[1] \in Tasks
    BY <2>1, QueueTake DEF PoolInv, PoolTypeOK
  <2>3. PoolTypeOK'
    BY <2>1, <2>2 DEF PoolInv, PoolTypeOK
  <2>4. PlaceInv'
    <3>1. (\A i, j \in DOMAIN tasks : tasks[i] = tasks[j] => i = j)'
      BY <2>1 DEF PoolInv, PlaceInv
    <3>2. (\A i \in DOMAIN tasks : tasks[i] \in accepted /\ ran[tasks[i]] = 0)'
      BY <2>1 DEF PoolInv, PlaceInv
    <3>3. ASSUME NEW v \in Workers, Running(v)'
          PROVE  /\ task'[v] \in accepted' /\ ran'[task'[v]] = 0
                 /\ \A i \in DOMAIN tasks' : tasks'[i] # task'[v]
      <4>1. CASE v = w
        BY <2>1, <2>2, <4>1 DEF PoolInv, PlaceInv
      <4>2. CASE v # w
        BY <2>1, <2>2, <3>3, <4>2 DEF PoolInv, PlaceInv, Running
      <4> QED
        BY <4>1, <4>2
    <3>4. (\A u, v \in Workers : Running(u) /\ Running(v) /\ task[u] = task[v] => u = v)'
      BY <2>1, <2>2 DEF PoolInv, PlaceInv, Running
    <3>5. ASSUME NEW t \in accepted'
          PROVE  \/ ran'[t] = 1
                 \/ \E i \in DOMAIN tasks' : tasks'[i] = t
                 \/ \E v \in Workers : Running(v)' /\ task'[v] = t
      <4>1. t \in accepted
        OBVIOUS
      <4>2. CASE ran[t] = 1
        BY <4>2
      <4>3. CASE \E i \in DOMAIN tasks : tasks[i] = t
        <5>1. PICK i \in DOMAIN tasks : tasks[i] = t
          BY <4>3
        <5>2. CASE i = 1
          BY <2>2, <5>1, <5>2 DEF Running
        <5>3. CASE i # 1
          BY <2>1, <5>1, <5>3
        <5> QED
          BY <5>2, <5>3
      <4>4. CASE \E v \in Workers : Running(v) /\ task[v] = t
        BY <2>2, <4>4 DEF Running
      <4> QED
        BY <4>1, <4>2, <4>3, <4>4 DEF PoolInv, PlaceInv
    <3>6. (\A t \in Tasks : ran[t] <= 1 /\ (t \notin accepted => ran[t] = 0))'
      BY DEF PoolInv, PlaceInv
    <3> QED
      BY <3>1, <3>2, <3>3, <3>4, <3>5, <3>6 DEF PlaceInv
  <2>5. PoolPushInv'
    BY DEF PoolInv, PoolPushInv, Made
  <2>6. PoolEndInv'
    BY <2>1, <2>2 DEF PoolInv, PoolTypeOK, PoolEndInv, Started
  <2> QED
    BY <2>3, <2>4, <2>5, <2>6 DEF PoolInv
<1> QED
  BY <1>1, <1>2

LEMMA RunInv ==
  ASSUME PoolConstants, PoolInv, NEW w \in Workers, Run(w)
  PROVE  PoolInv'
<1> USE DEF Run, WorkTo, pushVars
<1>1. /\ task[w] \in accepted /\ ran[task[w]] = 0 /\ task[w] \in Tasks
      /\ \A i \in DOMAIN tasks : tasks[i] # task[w]
      /\ \A v \in Workers : Running(v) /\ task[v] = task[w] => v = w
      /\ ran' = [ran EXCEPT ![task[w]] = 1]
      /\ ran \in [Tasks -> Nat]
      /\ \A v \in Workers : Running(v)' <=> (Running(v) /\ v # w)
  <2>1. Running(w)
    BY DEF Running
  <2>2. /\ task[w] \in accepted /\ ran[task[w]] = 0
        /\ \A i \in DOMAIN tasks : tasks[i] # task[w]
        /\ \A v \in Workers : Running(v) /\ task[v] = task[w] => v = w
    BY <2>1 DEF PoolInv, PlaceInv
  <2>3. \A v \in Workers : Running(v)' <=> (Running(v) /\ v # w)
    BY DEF PoolInv, PoolTypeOK, Running
  <2> QED
    BY <2>2, <2>3 DEF PoolInv, PoolTypeOK
<1>2. PoolTypeOK'
  BY <1>1 DEF PoolInv, PoolTypeOK
<1>3. PlaceInv'
  <2>1. (\A i \in DOMAIN tasks : tasks[i] \in accepted /\ ran[tasks[i]] = 0)'
    BY <1>1 DEF PoolInv, PoolTypeOK, PlaceInv
  <2>2. (\A v \in Workers : Running(v) =>
          /\ task[v] \in accepted /\ ran[task[v]] = 0
          /\ \A i \in DOMAIN tasks : tasks[i] # task[v])'
    BY <1>1 DEF PoolInv, PoolTypeOK, PlaceInv
  <2>3. (\A u, v \in Workers : Running(u) /\ Running(v) /\ task[u] = task[v] => u = v)'
    BY <1>1 DEF PoolInv, PlaceInv
  <2>4. ASSUME NEW t \in accepted'
        PROVE  \/ ran'[t] = 1
               \/ \E i \in DOMAIN tasks' : tasks'[i] = t
               \/ \E v \in Workers : Running(v)' /\ task'[v] = t
    <3>1. t \in accepted /\ t \in Tasks /\ tasks' = tasks /\ task' = task
      BY DEF PoolInv, PoolTypeOK
    <3>2. CASE t = task[w]
      BY <1>1, <3>1, <3>2
    <3>3. CASE t # task[w] /\ ran[t] = 1
      BY <1>1, <3>1, <3>3
    <3>4. CASE t # task[w] /\ \E v \in Workers : Running(v) /\ task[v] = t
      BY <1>1, <3>1, <3>4
    <3> QED
      BY <3>1, <3>2, <3>3, <3>4 DEF PoolInv, PlaceInv
  <2>5. (\A t \in Tasks : ran[t] <= 1 /\ (t \notin accepted => ran[t] = 0))'
    BY <1>1 DEF PoolInv, PlaceInv
  <2>6. (\A i, j \in DOMAIN tasks : tasks[i] = tasks[j] => i = j)'
    BY DEF PoolInv, PlaceInv
  <2> QED
    BY <2>1, <2>2, <2>3, <2>4, <2>5, <2>6 DEF PlaceInv
<1>4. PoolPushInv'
  BY DEF PoolInv, PoolPushInv, Made
<1>5. PoolEndInv'
  BY DEF PoolInv, PoolTypeOK, PoolEndInv, Started
<1> QED
  BY <1>2, <1>3, <1>4, <1>5 DEF PoolInv

-----------------------------------------------------------------------------
(* The owner.                                                              *)

LEMMA OwnerInv ==
  ASSUME PoolConstants, PoolInv, OwnerStep
  PROVE  PoolInv'
<1> USE DEF pushVars, workVars, WorkTo, PushTo
<1>1. CASE rt_taskpool_init
  <2> USE <1>1 DEF rt_taskpool_init
  <2>1. PICK w \in Workers : wpc[w] = "unborn" /\ wpc' = [wpc EXCEPT ![w] = "test"]
    OBVIOUS
  <2>2. PoolTypeOK'
    BY <2>1 DEF PoolInv, PoolTypeOK
  <2>3. PlaceInv'
    BY <2>1, PlaceKept DEF PoolInv, PoolTypeOK, Running
  <2>4. PoolPushInv'
    BY DEF PoolInv, PoolPushInv, Made
  <2>5. pool \notin {"waiting", "freed"}
    BY <2>1 DEF PoolInv, PoolEndInv, Started
  <2>6. PoolEndInv'
    BY <2>1, <2>5, WorkersCount DEF PoolInv, PoolTypeOK, PoolEndInv, Started
  <2> QED
    BY <2>2, <2>3, <2>4, <2>6 DEF PoolInv
<1>2. CASE rt_taskpool_pause \/ rt_taskpool_resume
  <2> USE <1>2 DEF rt_taskpool_pause, rt_taskpool_resume
  <2>1. PoolTypeOK'
    BY DEF PoolInv, PoolTypeOK
  <2>2. PlaceInv'
    BY PlaceKept DEF Running
  <2>3. PoolPushInv'
    BY DEF PoolInv, PoolPushInv, Made
  <2>4. PoolEndInv'
    BY DEF PoolInv, PoolEndInv, Started
  <2> QED
    BY <2>1, <2>2, <2>3, <2>4 DEF PoolInv
<1>3. CASE rt_taskpool_wait
  <2> USE <1>3 DEF rt_taskpool_wait, PoolConstants
  <2>1. PoolTypeOK'
    BY DEF PoolInv, PoolTypeOK
  <2>2. PlaceInv'
    BY PlaceKept DEF Running
  <2>3. PoolPushInv'
    BY DEF PoolInv, PoolTypeOK, PoolPushInv, Made
  <2>4. PoolEndInv'
    BY DEF PoolInv, PoolTypeOK, PoolEndInv, Started
  <2> QED
    BY <2>1, <2>2, <2>3, <2>4 DEF PoolInv
<1>4. CASE JoinWorker
  <2> USE <1>4 DEF JoinWorker
  <2>1. PoolTypeOK'
    BY WorkersCount DEF PoolInv, PoolTypeOK
  <2>2. PlaceInv'
    BY PlaceKept DEF Running
  <2>3. PoolPushInv'
    BY DEF PoolInv, PoolPushInv, Made
  <2>4. PoolEndInv'
    BY WorkersCount DEF PoolInv, PoolTypeOK, PoolEndInv, Started
  <2> QED
    BY <2>1, <2>2, <2>3, <2>4 DEF PoolInv
<1>5. CASE Free
  <2> USE <1>5 DEF Free
  <2>1. PoolTypeOK'
    BY DEF PoolInv, PoolTypeOK, PoolConstants
  <2>2. PlaceInv'
    BY PlaceKept DEF Running
  <2>3. PoolPushInv'
    BY DEF PoolInv, PoolTypeOK, PoolPushInv, Made, PoolConstants
  <2>4. pool = "waiting"
    BY DEF PoolInv, PoolEndInv, PoolConstants
  <2>5. PoolEndInv'
    BY <2>4 DEF PoolInv, PoolTypeOK, PoolEndInv, Started, PoolConstants
  <2> QED
    BY <2>1, <2>2, <2>3, <2>5 DEF PoolInv
<1> QED
  BY <1>1, <1>2, <1>3, <1>4, <1>5 DEF OwnerStep

LEMMA PoolNextInv ==
  ASSUME PoolConstants, PoolInv, [PoolNext]_poolVars
  PROVE  PoolInv'
<1>1. ASSUME NEW p \in Pushers, PushStep(p) PROVE PoolInv'
  BY <1>1, TestStateInv, TestRoomInv, PushInvariant DEF PushStep
<1>2. ASSUME NEW w \in Workers, Work(w) PROVE PoolInv'
  BY <1>2, WorkerTests, PopInv, RunInv DEF Work
<1>3. ASSUME OwnerStep PROVE PoolInv'
  BY <1>3, OwnerInv
<1>4. ASSUME UNCHANGED poolVars PROVE PoolInv'
  BY <1>4 DEF PoolInv, PoolTypeOK, PlaceInv, PoolPushInv, PoolEndInv, Running, Started, Made, poolVars, pushVars, workVars
<1> QED
  BY <1>1, <1>2, <1>3, <1>4 DEF PoolNext

(* When all workers are joined nothing is queued and nobody runs a task.   *)
LEMMA InvRunsAll ==
  ASSUME PoolConstants, PoolInv
  PROVE  WaitRunsAll
<1>1. ASSUME pool = "freed", NEW t \in accepted PROVE ran[t] = 1
  <2>1. \A w \in Workers : wpc[w] = "done"
    BY <1>1, WorkersCount DEF PoolInv, PoolEndInv
  <2>2. 1 \in Workers
    BY WorkersCount
  <2>3. tasks = <<>>
    BY <2>1, <2>2 DEF PoolInv, PoolEndInv
  <2> QED
    BY <1>1, <2>1, <2>3 DEF PoolInv, PlaceInv, Running
<1> QED
  BY <1>1 DEF PoolInv, PlaceInv, WaitRunsAll

(* WaitRunsAll: no task is run twice, and when wait() has freed the pool   *)
(* every task that push() accepted was run (rt_taskpool_wait() and         *)
(* rt_taskpool_loop()).                                                    *)
THEOREM WaitRunsThemAll ==
  ASSUME PoolConstants
  PROVE  PoolSpec => []WaitRunsAll
<1>1. PoolInit => PoolInv
  BY PoolInitInv
<1>2. PoolInv /\ [PoolNext]_poolVars => PoolInv'
  BY PoolNextInv
<1>3. PoolInv => WaitRunsAll
  BY InvRunsAll
<1> QED
  BY <1>1, <1>2, <1>3, PTL DEF PoolSpec

-----------------------------------------------------------------------------
(* What is left of a seek, and of a stop.                                  *)
SeekTodos ==
    {<<"flush", "need", "target", "state", "start">>,
     <<"need", "target", "state", "start">>, <<"target", "state", "start">>,
     <<"state", "start">>, <<"start">>}
StopTodos == {<<"interrupt", "interrupt", "join">>, <<"interrupt", "join">>,
              <<"join">>}

(* The player's phases in which the demuxer has no thread.                 *)
Quiet == {"INITIALIZED", "STOPPED", "IDLE"}

(* The node's thread exists only between prepare() and stop(), and the     *)
(* stream is closed only by reset().                                       *)
ControlInv ==
    /\ todo \in {<< >>} \cup SeekTodos \cup StopTodos
    /\ todo \in StopTodos => seeked = "no"
    /\ phase \in Quiet => todo = << >> /\ seeked = "no" /\ tpc = "none"
    /\ phase # "IDLE" => open

(* A packet that is held is the last one that was read.                    *)
HeldInv == tpc = "queue" => held \in Positions /\ next = held + 1

(* A seek that has not met another one.                                    *)
SeekInv ==
    ~torn =>
        /\ InSeek => need /\ ~Seeking
        /\ tpc \in {"seekflush", "seekdone"} => aimed = target
        /\ ~need /\ ~Seeking =>
              aimed = target /\ (tpc # "seekstate" => node # "SEEKING")

(* The packet without data is queued where no other can follow.            *)
NoNull == \A t \in Tracks : \A i \in DOMAIN cache[t] : cache[t][i] # Null
AtEnd  == next > Len(Stream) \/ errs > ErrLimit

(* There is room for the packet that is read.                              *)
Room == NoNull /\ \A t \in Tracks : HasRoom(cache[t])

RoomInv ==
    /\ tpc = "null" => AtEnd
    /\ NoNull \/ AtEnd \/ tpc = "seekflush"
    /\ tpc = "read" => AtEnd \/ Room
    /\ tpc = "queue" => Room

(* What a track's cache holds.                                             *)
Cached(t) == {cache[t][i] : i \in DataAt(t)}
Sorted(t) == \A i, j \in DataAt(t) : i < j => cache[t][i] < cache[t][j]

(* What a track's cache should hold at a position of the stream.           *)
Ordered(t) ==
    /\ Sorted(t) /\ Cached(t) = Due(t) \ missed[t]
    /\ taken[t] < Front /\ \A p \in missed[t] : p < Front

QuietInv ==
    phase \in Quiet =>
        \A t \in Tracks : cache[t] = << >> /\ taken[t] = next - 1 /\ missed[t] = {}
OrderInv == errs <= ErrLimit /\ tpc # "seekflush" => \A t \in Tracks : Ordered(t)
CacheInv == QuietInv /\ OrderInv

Inv == TypeOK /\ HeldInv /\ ControlInv /\ SeekInv

-----------------------------------------------------------------------------
(* What most steps need of the constants.                                  *)
LEMMA Constants ==
  /\ Audio \in Tracks
  /\ Stream \in Seq(Tracks)
  /\ Targets \subseteq Positions /\ 1 \in Targets
  /\ MaxDuration \in Nat \ {0}
  /\ MaxCount \in Nat \ {0}
  /\ MaxSize \in Nat \ {0}
  /\ ErrLimit \in Nat /\ MaxCmds \in Nat
  BY DemuxerAssumption

USE Constants

(* What a step of a command leaves of it.                                  *)
LEMMA Tails ==
  /\ Tail(<<"flush", "need", "target", "state", "start">>) = <<"need", "target", "state", "start">>
  /\ Tail(<<"need", "target", "state", "start">>) = <<"target", "state", "start">>
  /\ Tail(<<"target", "state", "start">>) = <<"state", "start">>
  /\ Tail(<<"state", "start">>) = <<"start">>
  /\ Tail(<<"start">>) = << >>
  /\ Tail(<<"interrupt", "interrupt", "join">>) = <<"interrupt", "join">>
  /\ Tail(<<"interrupt", "join">>) = <<"join">>
  /\ Tail(<<"join">>) = << >>
  OBVIOUS

LEMMA Heads ==
  /\ Head(<<"flush", "need", "target", "state", "start">>) = "flush"
  /\ Head(<<"need", "target", "state", "start">>) = "need"
  /\ Head(<<"target", "state", "start">>) = "target"
  /\ Head(<<"state", "start">>) = "state"
  /\ Head(<<"start">>) = "start"
  /\ Head(<<"interrupt", "interrupt", "join">>) = "interrupt"
  /\ Head(<<"interrupt", "join">>) = "interrupt"
  /\ Head(<<"join">>) = "join"
  OBVIOUS

LEMMA NotEmpty ==
  /\ <<"flush", "need", "target", "state", "start">> # << >>
  /\ <<"need", "target", "state", "start">> # << >>
  /\ <<"target", "state", "start">> # << >>
  /\ <<"state", "start">> # << >>
  /\ <<"start">> # << >>
  /\ <<"interrupt", "interrupt", "join">> # << >>
  /\ <<"interrupt", "join">> # << >>
  /\ <<"join">> # << >>
  OBVIOUS

LEMMA Lengths ==
  /\ \A s \in SeekTodos \cup StopTodos : s # << >>
  /\ SeekTodos \cap StopTodos = {}
<1>1. \A s \in StopTodos : Head(s) \in {"interrupt", "join"}
  BY Heads DEF StopTodos
<1>2. \A s \in SeekTodos : Head(s) \in {"flush", "need", "target", "state", "start"}
  BY Heads DEF SeekTodos
<1>3. SeekTodos \cap StopTodos = {}
  BY <1>1, <1>2
<1>4. \A s \in SeekTodos : s # << >>
  BY NotEmpty DEF SeekTodos
<1>5. \A s \in StopTodos : s # << >>
  BY NotEmpty DEF StopTodos
<1> QED
  BY <1>3, <1>4, <1>5

LEMMA TodoStep ==
  ASSUME ControlInv, NEW s, Step(s)
  PROVE  /\ todo' \in {<< >>} \cup SeekTodos \cup StopTodos
         /\ todo \in SeekTodos => todo' \notin StopTodos
         /\ s = "join" => todo \in StopTodos /\ todo' = << >>
         /\ s \in {"need", "target", "state", "start"} => todo \in SeekTodos
<1>1. todo \in SeekTodos \cup StopTodos /\ s = Head(todo) /\ todo' = Tail(todo)
  BY DEF ControlInv, Step
<1>2. CASE todo \in SeekTodos
  <2>1. Head(todo) # "join" /\ Tail(todo) \in {<< >>} \cup SeekTodos
    BY <1>2, Tails, Heads DEF SeekTodos
  <2> QED
    BY <1>1, <1>2, <2>1, Lengths
<1>3. CASE todo \in StopTodos
  <2>1. /\ Head(todo) \in {"interrupt", "join"}
        /\ Tail(todo) \in {<< >>} \cup StopTodos
        /\ Head(todo) = "join" => Tail(todo) = << >>
    BY <1>3, Tails, Heads DEF StopTodos
  <2> QED
    BY <1>1, <1>3, <2>1, Lengths
<1> QED
  BY <1>1, <1>2, <1>3

(* Where onSeek() is.                                                      *)
LEMMA InSeekStep ==
  ASSUME ControlInv, NEW s, Step(s)
  PROVE  /\ s = "need" => InSeek'
         /\ s = "target" => InSeek /\ InSeek'
         /\ s = "state" => InSeek /\ ~InSeek'
         /\ s \notin {"need", "target"} => ~InSeek'
<1>1. todo \in SeekTodos \cup StopTodos /\ s = Head(todo) /\ todo' = Tail(todo)
  BY DEF ControlInv, Step
<1>2. CASE todo \in SeekTodos
  <2>1. Tail(todo) # << >> /\ Head(Tail(todo)) \in {"target", "state"} <=>
          Head(todo) \in {"need", "target"}
    BY <1>2, Tails, Heads, NotEmpty DEF SeekTodos
  <2>2. todo # << >>
    BY <1>2, Lengths
  <2> QED
    BY <1>1, <2>1, <2>2 DEF InSeek
<1>3. CASE todo \in StopTodos
  BY <1>1, <1>3, Tails, Heads DEF StopTodos, InSeek
<1> QED
  BY <1>1, <1>2, <1>3

LEMMA FrontType ==
  ASSUME TypeOK, HeldInv
  PROVE  Front \in 1..(Len(Stream) + 1)
<1>1. Len(Stream) \in Nat
  OBVIOUS
<1>2. next \in 1..(Len(Stream) + 1)
  BY DEF TypeOK
<1> QED
  BY <1>1, <1>2 DEF HeldInv, Front, Positions

(* A flush leaves empty caches.                                            *)
LEMMA FlushType ==
  ASSUME TypeOK, HeldInv, Flush
  PROVE  /\ cache' \in [Tracks -> Seq({Null} \cup Positions)]
         /\ taken' \in [Tracks -> 0..Len(Stream)]
         /\ missed' \in [Tracks -> SUBSET ({Null} \cup Positions)]
         /\ ended' \in BOOLEAN
         /\ \A t \in Tracks : /\ cache'[t] = << >> /\ taken'[t] = Front - 1
                             /\ missed'[t] = {}
<1>1. Front - 1 \in 0..Len(Stream)
  <2>1. Len(Stream) \in Nat
    OBVIOUS
  <2> QED
    BY <2>1, FrontType
<1>2. << >> \in Seq({Null} \cup Positions)
  OBVIOUS
<1> QED
  BY <1>1, <1>2 DEF Flush

-----------------------------------------------------------------------------
(* Types.                                                                  *)

LEMMA InitInv == Init => Inv
<1> SUFFICES ASSUME Init PROVE Inv
  OBVIOUS
<1>1. TypeOK
  <2>1. Len(Stream) \in Nat /\ << >> \in Seq({Null} \cup Positions)
    OBVIOUS
  <2>2. /\ next \in 1..(Len(Stream) + 1) /\ errs \in 0..(ErrLimit + 1)
        /\ sent \in 0..MaxCmds /\ taken \in [Tracks -> 0..Len(Stream)]
        /\ missed \in [Tracks -> SUBSET ({Null} \cup Positions)]
    BY <2>1 DEF Init
  <2>3. todo \in Seq({"flush", "need", "target", "state", "start", "interrupt",
                     "join"})
    BY DEF Init
  <2> QED
    BY <2>1, <2>2, <2>3 DEF Init, TypeOK, Null
<1>2. HeldInv /\ ControlInv
  BY Lengths DEF Init, HeldInv, ControlInv
<1>3. SeekInv
  BY DEF Init, SeekInv, InSeek, Seeking
<1> QED
  BY <1>1, <1>2, <1>3 DEF Inv

LEMMA TodoType ==
  ASSUME TypeOK, NEW s, Step(s)
  PROVE  todo' \in Seq({"flush", "need", "target", "state", "start", "interrupt", "join"})
  BY DEF TypeOK, Step

LEMMA PushType ==
  ASSUME NEW q \in Seq({Null} \cup Positions), NEW p \in {Null} \cup Positions
  PROVE  /\ Pushed(q, p) \in Seq({Null} \cup Positions)
         /\ Refused(q, p) \subseteq {Null} \cup Positions
  BY DEF Pushed, Refused

LEMMA TypeStep == TypeOK /\ HeldInv /\ [Next]_vars => TypeOK' /\ HeldInv'
<1> SUFFICES ASSUME TypeOK, HeldInv, [Next]_vars PROVE TypeOK' /\ HeldInv'
  OBVIOUS
<1>0. Len(Stream) \in Nat
  OBVIOUS
<1>1. ASSUME Prepare PROVE TypeOK' /\ HeldInv'
  BY <1>1, <1>0 DEF TypeOK, HeldInv, Prepare, CanCall, Command, DemuxerAlone, OnStart, OnPause, flagVars, ghosts
<1>2. ASSUME Start PROVE TypeOK' /\ HeldInv'
  <2>1. node' \in {"IDLE", "SEEKING", "PAUSED", "STARTED"} /\ eos' \in BOOLEAN
    BY <1>2 DEF TypeOK, Start, OnStart
  <2>2. phase' = "STARTED" /\ seeked' \in {"no", "behind", "next"} /\ sent' \in 0..MaxCmds
    BY <1>2 DEF TypeOK, Start, Command, CanCall
  <2> QED
    BY <1>2, <2>1, <2>2 DEF TypeOK, HeldInv, Start, DemuxerAlone, ghosts
<1>3. ASSUME Pause PROVE TypeOK' /\ HeldInv'
  BY <1>3, <1>0 DEF TypeOK, HeldInv, Pause, CanCall, Command, DemuxerAlone, OnStart, OnPause, flagVars, ghosts
<1>4. ASSUME Complete PROVE TypeOK' /\ HeldInv'
  BY <1>4, <1>0 DEF TypeOK, HeldInv, Complete, CanCall, Command, DemuxerAlone, OnStart, OnPause, flagVars, ghosts
<1>5. ASSUME Stop PROVE TypeOK' /\ HeldInv'
  BY <1>5, <1>0 DEF TypeOK, HeldInv, Stop, CanCall, Command, DemuxerAlone, OnStart, OnPause, flagVars, ghosts
<1>6. ASSUME Reset PROVE TypeOK' /\ HeldInv'
  <2>1. seeked' \in {"no", "behind", "next"} /\ sent' \in 0..MaxCmds
    BY <1>6 DEF TypeOK, Reset, Command, CanCall
  <2>2. /\ cache' \in [Tracks -> Seq({Null} \cup Positions)]
        /\ taken' \in [Tracks -> 0..Len(Stream)] /\ ended' \in BOOLEAN
        /\ missed' \in [Tracks -> SUBSET ({Null} \cup Positions)]
    BY <1>6, FlushType DEF Reset
  <2>3. open' \in BOOLEAN /\ phase' = "IDLE"
    BY <1>6 DEF Reset
  <2>4. UNCHANGED <<next, node, eos, need, target, held, errs, tpc, tstate, dpc,
                    todo, arg, aimed, torn>>
    BY <1>6 DEF Reset, flagVars
  <2> QED
    BY <2>1, <2>2, <2>3, <2>4 DEF TypeOK, HeldInv
<1>7. ASSUME NEW x \in Targets, Seek(x) PROVE TypeOK' /\ HeldInv'
  BY <1>7, <1>0 DEF TypeOK, HeldInv, Seek, CanCall, Command, DemuxerAlone, OnStart, OnPause, flagVars, ghosts
<1>8. ASSUME OnFlush PROVE TypeOK' /\ HeldInv'
  BY <1>8, <1>0, TodoType, FlushType DEF TypeOK, HeldInv, OnFlush, DemuxerAlone, OnStart, streamVars, flagVars, ghosts
<1>9. ASSUME SeekNeed PROVE TypeOK' /\ HeldInv'
  <2>1. torn' \in BOOLEAN /\ need' \in BOOLEAN
    BY <1>9 DEF SeekNeed, Seeking
  <2>2. UNCHANGED <<cache, next, node, eos, target, open, tpc, tstate, held, errs,
                    phase, arg, seeked, dpc, taken, missed, aimed, ended, sent>>
    BY <1>9 DEF SeekNeed, DemuxerAlone
  <2>3. Step("need")
    BY <1>9 DEF SeekNeed
  <2> QED
    BY <2>1, <2>2, <2>3, TodoType DEF TypeOK, HeldInv
<1>10. ASSUME SeekTarget PROVE TypeOK' /\ HeldInv'
  BY <1>10, <1>0, TodoType DEF TypeOK, HeldInv, SeekTarget, DemuxerAlone, OnStart, streamVars, flagVars, ghosts
<1>11. ASSUME SeekState PROVE TypeOK' /\ HeldInv'
  BY <1>11, <1>0, TodoType DEF TypeOK, HeldInv, SeekState, DemuxerAlone, OnStart, streamVars, flagVars, ghosts
<1>12. ASSUME SeekStart PROVE TypeOK' /\ HeldInv'
  <2>1. node' \in {"IDLE", "SEEKING", "PAUSED", "STARTED"} /\ eos' \in BOOLEAN
    BY <1>12 DEF TypeOK, SeekStart, OnStart
  <2>2. Step("start") /\ seeked' = "behind"
    BY <1>12 DEF SeekStart
  <2>3. UNCHANGED <<cache, next, need, target, open, tpc, tstate, held, errs,
                    phase, arg, dpc, taken, missed, aimed, torn, ended, sent>>
    BY <1>12 DEF SeekStart, DemuxerAlone, ghosts
  <2> QED
    BY <2>1, <2>2, <2>3, TodoType DEF TypeOK, HeldInv
<1>13. ASSUME SeekComplete PROVE TypeOK' /\ HeldInv'
  BY <1>13, <1>0 DEF TypeOK, HeldInv, SeekComplete, DemuxerAlone, OnStart, streamVars, flagVars, ghosts
<1>14. ASSUME Interrupt PROVE TypeOK' /\ HeldInv'
  BY <1>14, <1>0, TodoType DEF TypeOK, HeldInv, Interrupt, DemuxerAlone, OnStart, streamVars, flagVars, ghosts
<1>15. ASSUME Join PROVE TypeOK' /\ HeldInv'
  BY <1>15, <1>0, TodoType, FlushType DEF TypeOK, HeldInv, Join, DemuxerAlone, OnStart, streamVars, flagVars, ghosts
<1>16. ASSUME Born PROVE TypeOK' /\ HeldInv'
  BY <1>16, <1>0 DEF TypeOK, HeldInv, Born, At, GoTo, ThreadOnly, streamVars, flagVars, ghosts
<1>17. ASSUME SetLoop PROVE TypeOK' /\ HeldInv'
  BY <1>17, <1>0 DEF TypeOK, HeldInv, SetLoop, At, GoTo, ThreadOnly, streamVars, flagVars, ghosts
<1>18. ASSUME Top PROVE TypeOK' /\ HeldInv'
  BY <1>18, <1>0 DEF TypeOK, HeldInv, Top, At, GoTo, ThreadOnly, streamVars, flagVars, ghosts
<1>19. ASSUME TakeSeek PROVE TypeOK' /\ HeldInv'
  BY <1>19, <1>0 DEF TypeOK, HeldInv, TakeSeek, At, GoTo, ThreadOnly, streamVars, flagVars, ghosts
<1>20. ASSUME SeekStream PROVE TypeOK' /\ HeldInv'
  <2>1. next' = target /\ aimed' = target /\ target \in Targets
    BY <1>20 DEF TypeOK, SeekStream
  <2>2. next' \in 1..(Len(Stream) + 1)
    BY <1>0, <2>1 DEF Positions
  <2> QED
    BY <1>20, <2>1, <2>2 DEF TypeOK, HeldInv, SeekStream, At, GoTo, ThreadOnly, flagVars
<1>21. ASSUME SeekFlush PROVE TypeOK' /\ HeldInv'
  BY <1>21, <1>0, FlushType DEF TypeOK, HeldInv, SeekFlush, At, GoTo, ThreadOnly, streamVars, flagVars, ghosts
<1>22. ASSUME SeekDone PROVE TypeOK' /\ HeldInv'
  <2>1. eos' \in BOOLEAN /\ need' \in BOOLEAN /\ tpc' = "seekstate"
    BY <1>22 DEF SeekDone, GoTo
  <2>2. UNCHANGED <<cache, next, node, target, open, tstate, held, errs, phase,
                    todo, arg, seeked, dpc, taken, missed, aimed, torn, ended, sent>>
    BY <1>22 DEF SeekDone, ThreadOnly, streamVars, ghosts
  <2> QED
    BY <2>1, <2>2 DEF TypeOK, HeldInv
<1>23. ASSUME SeekStarted PROVE TypeOK' /\ HeldInv'
  BY <1>23, <1>0 DEF TypeOK, HeldInv, SeekStarted, At, GoTo, ThreadOnly, streamVars, flagVars, ghosts
<1>24. ASSUME Fetch PROVE TypeOK' /\ HeldInv'
  BY <1>24, <1>0 DEF TypeOK, HeldInv, Fetch, At, GoTo, ThreadOnly, streamVars, flagVars, ghosts
<1>25. ASSUME ReadError PROVE TypeOK' /\ HeldInv'
  BY <1>25, <1>0 DEF TypeOK, HeldInv, ReadError, At, GoTo, ThreadOnly, streamVars, flagVars, ghosts
<1>26. ASSUME ReadEnd PROVE TypeOK' /\ HeldInv'
  BY <1>26, <1>0 DEF TypeOK, HeldInv, ReadEnd, At, GoTo, ThreadOnly, streamVars, flagVars, ghosts
<1>27. ASSUME ReadPacket PROVE TypeOK' /\ HeldInv'
  <2>1. next \in 1..(Len(Stream) + 1) /\ next <= Len(Stream)
    BY <1>27 DEF TypeOK, ReadPacket
  <2>2. held' = next /\ next' = next + 1 /\ errs' = 0 /\ tpc' = "queue"
    BY <1>27 DEF ReadPacket, GoTo
  <2>3. held' \in Positions /\ next' \in 1..(Len(Stream) + 1) /\ errs' \in 0..(ErrLimit + 1)
    BY <1>0, <2>1, <2>2 DEF Positions
  <2>4. UNCHANGED <<cache, node, eos, need, target, open, tstate, phase, todo, arg,
                    seeked, dpc, taken, missed, aimed, torn, ended, sent>>
    BY <1>27 DEF ReadPacket, ThreadOnly, flagVars, ghosts
  <2> QED
    BY <2>2, <2>3, <2>4 DEF TypeOK, HeldInv
<1>28. ASSUME Queue PROVE TypeOK' /\ HeldInv'
  <2>1. held \in Positions /\ Stream[held] \in Tracks
    BY <1>0, <1>28 DEF HeldInv, Queue, At, Positions
  <2>2. \A q \in Seq({Null} \cup Positions) :
           /\ Pushed(q, held) \in Seq({Null} \cup Positions)
           /\ Refused(q, held) \subseteq {Null} \cup Positions
    BY <2>1, PushType
  <2>3. cache' \in [Tracks -> Seq({Null} \cup Positions)]
    BY <1>28, <2>1, <2>2 DEF TypeOK, Queue
  <2>6. missed' \in [Tracks -> SUBSET ({Null} \cup Positions)]
    BY <1>28, <2>1, <2>2 DEF TypeOK, Queue
  <2>4. tpc' = "top"
    BY <1>28 DEF Queue, GoTo
  <2>5. UNCHANGED <<next, node, eos, need, target, open, tstate, held, errs, phase,
                    todo, arg, seeked, dpc, taken, aimed, torn, ended, sent>>
    BY <1>28 DEF Queue, ThreadOnly, flagVars, streamVars
  <2> QED
    BY <2>3, <2>4, <2>5, <2>6 DEF TypeOK, HeldInv
<1>29. ASSUME QueueNull PROVE TypeOK' /\ HeldInv'
  <2>1. \A q \in Seq({Null} \cup Positions) :
           /\ Pushed(q, Null) \in Seq({Null} \cup Positions)
           /\ Refused(q, Null) \subseteq {Null} \cup Positions
    BY PushType
  <2>2. /\ cache' \in [Tracks -> Seq({Null} \cup Positions)]
        /\ missed' \in [Tracks -> SUBSET ({Null} \cup Positions)]
    BY <1>29, <2>1 DEF TypeOK, QueueNull
  <2>3. tpc' = "top"
    BY <1>29 DEF QueueNull, GoTo
  <2>4. UNCHANGED <<next, node, eos, need, target, open, tstate, held, errs, phase,
                    todo, arg, seeked, dpc, taken, aimed, torn, ended, sent>>
    BY <1>29 DEF QueueNull, ThreadOnly, flagVars, streamVars
  <2> QED
    BY <2>2, <2>3, <2>4 DEF TypeOK, HeldInv
<1>30. ASSUME Pull PROVE TypeOK' /\ HeldInv'
  BY <1>30, <1>0 DEF TypeOK, HeldInv, Pull, DeliverOnly, streamVars, playVars
<1>31. ASSUME PullState PROVE TypeOK' /\ HeldInv'
  BY <1>31, <1>0 DEF TypeOK, HeldInv, PullState, DeliverOnly, streamVars, playVars
<1>32. ASSUME PullTake PROVE TypeOK' /\ HeldInv'
  <2>1. UNCHANGED <<next, node, eos, need, target, open, tpc, tstate, held, errs,
                    phase, todo, arg, seeked, missed, aimed, torn, ended, sent>>
    BY <1>32 DEF PullTake, DeliverOnly, streamVars, playVars
  <2>2. CASE cache[Audio] = << >>
    <3>1. dpc' = "idle" /\ UNCHANGED <<cache, taken>>
      BY <1>32, <2>2 DEF PullTake
    <3> QED
      BY <2>1, <3>1 DEF TypeOK, HeldInv
  <2>3. CASE cache[Audio] # << >>
    <3>1. cache[Audio] \in Seq({Null} \cup Positions)
      BY DEF TypeOK
    <3>2. Tail(cache[Audio]) \in Seq({Null} \cup Positions)
          /\ Head(cache[Audio]) \in {Null} \cup Positions
      BY <2>3, <3>1
    <3>3. cache' = [cache EXCEPT ![Audio] = Tail(@)] /\ dpc' \in {"null", "idle"}
      BY <1>32, <2>3 DEF PullTake
    <3>4. cache' \in [Tracks -> Seq({Null} \cup Positions)]
      BY <3>2, <3>3 DEF TypeOK
    <3>5. taken' \in [Tracks -> 0..Len(Stream)]
      <4>1. CASE Head(cache[Audio]) = Null
        BY <1>32, <2>3, <4>1 DEF PullTake, TypeOK
      <4>2. CASE Head(cache[Audio]) # Null
        <5>1. taken' = [taken EXCEPT ![Audio] = Head(cache[Audio])]
          BY <1>32, <2>3, <4>2 DEF PullTake
        <5>2. Head(cache[Audio]) \in 0..Len(Stream)
          BY <1>0, <3>2, <4>2 DEF Positions
        <5> QED
          BY <5>1, <5>2 DEF TypeOK
      <4> QED
        BY <4>1, <4>2
    <3> QED
      BY <2>1, <3>3, <3>4, <3>5 DEF TypeOK, HeldInv
  <2> QED
    BY <2>2, <2>3
<1>33. ASSUME PullNull PROVE TypeOK' /\ HeldInv'
  BY <1>33, <1>0 DEF TypeOK, HeldInv, PullNull, DeliverOnly, streamVars, playVars
<1>34. ASSUME UNCHANGED vars PROVE TypeOK' /\ HeldInv'
  BY <1>34 DEF TypeOK, HeldInv, vars
<1> QED
  BY <1>1, <1>2, <1>3, <1>4, <1>5, <1>6, <1>7, <1>8, <1>9, <1>10, <1>11, <1>12, <1>13,
     <1>14, <1>15, <1>16, <1>17, <1>18, <1>19, <1>20, <1>21, <1>22, <1>23, <1>24,
     <1>25, <1>26, <1>27, <1>28, <1>29, <1>30, <1>31, <1>32, <1>33, <1>34
  DEF Next, PlayerCall, PlayerStep, ThreadStep, DeliverStep

-----------------------------------------------------------------------------
(* Threads and commands.                                                   *)

(* The demuxer's thread runs only between prepare() and stop().            *)
LEMMA ControlThread ==
  ASSUME TypeOK, ThreadStep
  PROVE  tpc # "none" /\ UNCHANGED <<phase, todo, seeked, open>>
  BY DEF ThreadStep, Born, SetLoop, Top, TakeSeek, SeekStream, SeekFlush, SeekDone,
         SeekStarted, Fetch, ReadError, ReadEnd, ReadPacket, Queue, QueueNull,
         At, GoTo, ThreadOnly, streamVars

LEMMA ControlDeliver ==
  ASSUME DeliverStep
  PROVE  UNCHANGED <<phase, todo, seeked, open, tpc>>
  BY DEF DeliverStep, Pull, PullState, PullTake, PullNull, DeliverOnly, streamVars, playVars

(* A step of a command that does not end it leaves the phase alone.        *)
LEMMA CommandStep ==
  ASSUME ControlInv, NEW s, Step(s), UNCHANGED <<phase, tpc, open>>,
         seeked' = seeked \/ s = "start"
  PROVE  ControlInv'
<1>1. /\ todo' \in {<< >>} \cup SeekTodos \cup StopTodos
      /\ todo \in SeekTodos => todo' \notin StopTodos
      /\ s = "start" => todo \in SeekTodos
      /\ todo \in SeekTodos \cup StopTodos
  BY TodoStep DEF Step, ControlInv
<1>2. phase \notin Quiet
  BY <1>1, Lengths DEF ControlInv
<1> QED
  BY <1>1, <1>2 DEF ControlInv

LEMMA ControlStep == TypeOK /\ ControlInv /\ [Next]_vars => ControlInv'
<1> SUFFICES ASSUME TypeOK, ControlInv, [Next]_vars PROVE ControlInv'
  OBVIOUS
<1>1. ASSUME Prepare PROVE ControlInv'
  BY <1>1, Lengths DEF ControlInv, Prepare, CanCall, Command, DemuxerAlone, Quiet
<1>2. ASSUME Start PROVE ControlInv'
  BY <1>2, Lengths DEF ControlInv, Start, CanCall, Command, DemuxerAlone, Quiet
<1>3. ASSUME Pause PROVE ControlInv'
  BY <1>3, Lengths DEF ControlInv, Pause, CanCall, Command, DemuxerAlone, Quiet
<1>4. ASSUME Complete PROVE ControlInv'
  BY <1>4, Lengths DEF ControlInv, Complete, CanCall, Command, DemuxerAlone, Quiet
<1>5. ASSUME Stop PROVE ControlInv'
  BY <1>5 DEF ControlInv, Stop, CanCall, OnPause, DemuxerAlone, Quiet, SeekTodos, StopTodos
<1>6. ASSUME Reset PROVE ControlInv'
  BY <1>6, Lengths DEF ControlInv, Reset, CanCall, Command, DemuxerAlone, Quiet
<1>7. ASSUME NEW x \in Targets, Seek(x) PROVE ControlInv'
  <2>1. todo' \in SeekTodos /\ phase' = "PAUSED" /\ open' = open /\ phase # "IDLE"
    BY <1>7 DEF Seek, CanCall, DemuxerAlone, SeekTodos
  <2> QED
    BY <2>1, Lengths DEF ControlInv, Quiet
<1>8. ASSUME OnFlush PROVE ControlInv'
  BY <1>8, CommandStep DEF OnFlush, DemuxerAlone
<1>9. ASSUME SeekNeed PROVE ControlInv'
  BY <1>9, CommandStep DEF SeekNeed, DemuxerAlone
<1>10. ASSUME SeekTarget PROVE ControlInv'
  BY <1>10, CommandStep DEF SeekTarget, DemuxerAlone
<1>11. ASSUME SeekState PROVE ControlInv'
  BY <1>11, CommandStep DEF SeekState, DemuxerAlone
<1>12. ASSUME SeekStart PROVE ControlInv'
  BY <1>12, CommandStep DEF SeekStart, DemuxerAlone
<1>13. ASSUME SeekComplete PROVE ControlInv'
  BY <1>13, TodoStep, Lengths DEF ControlInv, SeekComplete, DemuxerAlone, streamVars, Quiet
<1>14. ASSUME Interrupt PROVE ControlInv'
  BY <1>14, CommandStep DEF Interrupt, DemuxerAlone
<1>15. ASSUME Join PROVE ControlInv'
  BY <1>15, TodoStep, Lengths DEF ControlInv, Join, DemuxerAlone, streamVars, Quiet
<1>16. ASSUME ThreadStep PROVE ControlInv'
  BY <1>16, ControlThread DEF ControlInv
<1>17. ASSUME DeliverStep PROVE ControlInv'
  BY <1>17, ControlDeliver DEF ControlInv
<1>18. ASSUME UNCHANGED vars PROVE ControlInv'
  BY <1>18 DEF ControlInv, vars
<1> QED
  BY <1>1, <1>2, <1>3, <1>4, <1>5, <1>6, <1>7, <1>8, <1>9, <1>10, <1>11, <1>12, <1>13,
     <1>14, <1>15, <1>16, <1>17, <1>18 DEF Next, PlayerCall, PlayerStep

-----------------------------------------------------------------------------
(* Seeks.                                                                  *)

(* OnStart and OnPause only take the node out of NODE_STATE_SEEKING.       *)
LEMMA NodeOut ==
  ASSUME OnStart \/ OnPause \/ node' = node
  PROVE  node' = "SEEKING" => node = "SEEKING"
  BY DEF OnStart, OnPause

(* A step that leaves the seek alone.                                      *)
LEMMA SeekAlone ==
  ASSUME SeekInv, UNCHANGED <<torn, need, tpc, aimed, target>>,
         InSeek' => InSeek, node' = "SEEKING" => node = "SEEKING"
  PROVE  SeekInv'
  BY DEF SeekInv, Seeking

(* A step of the thread outside of the seek.                               *)
LEMMA SeekElsewhere ==
  ASSUME SeekInv, UNCHANGED <<torn, need, node, todo, aimed, target>>,
         tpc \notin {"seek", "seekflush", "seekdone", "seekstate"},
         tpc' \notin {"seek", "seekflush", "seekdone", "seekstate"}
  PROVE  SeekInv'
  BY DEF SeekInv, Seeking, InSeek

LEMMA SeekStep == TypeOK /\ ControlInv /\ SeekInv /\ [Next]_vars => SeekInv'
<1> SUFFICES ASSUME TypeOK, ControlInv, SeekInv, [Next]_vars PROVE SeekInv'
  OBVIOUS
<1>1. ASSUME Prepare PROVE SeekInv'
  BY <1>1 DEF ControlInv, SeekInv, Seeking, InSeek, Prepare, Command, CanCall, Quiet, flagVars, ghosts
<1>2. ASSUME Start PROVE SeekInv'
  BY <1>2, NodeOut, SeekAlone DEF Start, Command, CanCall, DemuxerAlone, InSeek, flagVars, ghosts
<1>3. ASSUME Pause PROVE SeekInv'
  BY <1>3, NodeOut, SeekAlone DEF Pause, Command, CanCall, DemuxerAlone, InSeek, flagVars, ghosts
<1>4. ASSUME Complete PROVE SeekInv'
  BY <1>4, NodeOut, SeekAlone DEF Complete, Command, CanCall, DemuxerAlone, InSeek, flagVars, ghosts
<1>5. ASSUME Stop PROVE SeekInv'
  BY <1>5, Heads, NodeOut, SeekAlone DEF Stop, CanCall, DemuxerAlone, InSeek, ghosts
<1>6. ASSUME Reset PROVE SeekInv'
  BY <1>6, NodeOut, SeekAlone DEF Reset, Command, CanCall, DemuxerAlone, InSeek, flagVars, ghosts
<1>7. ASSUME NEW x \in Targets, Seek(x) PROVE SeekInv'
  BY <1>7, Heads, NodeOut, SeekAlone DEF Seek, CanCall, DemuxerAlone, InSeek, ghosts
<1>8. ASSUME OnFlush PROVE SeekInv'
  BY <1>8, InSeekStep, NodeOut, SeekAlone DEF OnFlush, DemuxerAlone, flagVars, ghosts
<1>9. ASSUME SeekNeed PROVE SeekInv'
  BY <1>9, InSeekStep DEF SeekInv, Seeking, SeekNeed, DemuxerAlone, ghosts
<1>10. ASSUME SeekTarget PROVE SeekInv'
  BY <1>10, InSeekStep DEF SeekInv, Seeking, SeekTarget, DemuxerAlone, ghosts
<1>11. ASSUME SeekState PROVE SeekInv'
  BY <1>11, InSeekStep DEF SeekInv, Seeking, SeekState, DemuxerAlone, ghosts
<1>12. ASSUME SeekStart PROVE SeekInv'
  BY <1>12, InSeekStep, NodeOut, SeekAlone DEF SeekStart, DemuxerAlone, flagVars, ghosts
<1>13. ASSUME SeekComplete PROVE SeekInv'
  BY <1>13, SeekAlone DEF SeekComplete, DemuxerAlone, InSeek, flagVars, ghosts
<1>14. ASSUME Interrupt PROVE SeekInv'
  BY <1>14, InSeekStep, NodeOut, SeekAlone DEF Interrupt, DemuxerAlone, flagVars, ghosts
<1>15. ASSUME Join PROVE SeekInv'
  BY <1>15, InSeekStep DEF SeekInv, Seeking, Join, DemuxerAlone, ghosts
<1>16. ASSUME Born PROVE SeekInv'
  BY <1>16, SeekElsewhere DEF Born, At, GoTo, ThreadOnly, flagVars, streamVars, ghosts
<1>17. ASSUME SetLoop PROVE SeekInv'
  BY <1>17, SeekElsewhere DEF SetLoop, At, GoTo, ThreadOnly, flagVars, streamVars, ghosts
<1>18. ASSUME Top PROVE SeekInv'
  BY <1>18, SeekElsewhere DEF Top, At, GoTo, ThreadOnly, flagVars, streamVars, ghosts
<1>19. ASSUME TakeSeek PROVE SeekInv'
  BY <1>19 DEF SeekInv, Seeking, InSeek, TakeSeek, At, GoTo, ThreadOnly, flagVars, streamVars, ghosts
<1>20. ASSUME SeekStream PROVE SeekInv'
  BY <1>20 DEF SeekInv, Seeking, InSeek, SeekStream, At, GoTo, ThreadOnly, flagVars, streamVars, ghosts
<1>21. ASSUME SeekFlush PROVE SeekInv'
  BY <1>21 DEF SeekInv, Seeking, InSeek, SeekFlush, At, GoTo, ThreadOnly, flagVars, streamVars, ghosts
<1>22. ASSUME SeekDone PROVE SeekInv'
  BY <1>22 DEF SeekInv, Seeking, InSeek, SeekDone, At, GoTo, ThreadOnly, flagVars, streamVars, ghosts
<1>23. ASSUME SeekStarted PROVE SeekInv'
  BY <1>23 DEF SeekInv, Seeking, InSeek, SeekStarted, At, GoTo, ThreadOnly, flagVars, streamVars, ghosts
<1>24. ASSUME Fetch PROVE SeekInv'
  BY <1>24, SeekElsewhere DEF Fetch, At, GoTo, ThreadOnly, flagVars, streamVars, ghosts
<1>25. ASSUME ReadError PROVE SeekInv'
  BY <1>25, SeekElsewhere DEF ReadError, At, GoTo, ThreadOnly, flagVars, streamVars, ghosts
<1>26. ASSUME ReadEnd PROVE SeekInv'
  BY <1>26, SeekElsewhere DEF ReadEnd, At, GoTo, ThreadOnly, flagVars, streamVars, ghosts
<1>27. ASSUME ReadPacket PROVE SeekInv'
  BY <1>27, SeekElsewhere DEF ReadPacket, At, GoTo, ThreadOnly, flagVars, streamVars, ghosts
<1>28. ASSUME Queue PROVE SeekInv'
  BY <1>28, SeekElsewhere DEF Queue, At, GoTo, ThreadOnly, flagVars, streamVars, ghosts
<1>29. ASSUME QueueNull PROVE SeekInv'
  BY <1>29, SeekElsewhere DEF QueueNull, At, GoTo, ThreadOnly, flagVars, streamVars, ghosts
<1>30. ASSUME Pull PROVE SeekInv'
  BY <1>30, SeekAlone DEF Pull, DeliverOnly, playVars, InSeek
<1>31. ASSUME PullState PROVE SeekInv'
  BY <1>31, SeekAlone DEF PullState, DeliverOnly, playVars, InSeek
<1>32. ASSUME PullTake PROVE SeekInv'
  BY <1>32, SeekAlone DEF PullTake, DeliverOnly, playVars, InSeek
<1>33. ASSUME PullNull PROVE SeekInv'
  BY <1>33, SeekAlone DEF PullNull, DeliverOnly, playVars, InSeek
<1>34. ASSUME UNCHANGED vars PROVE SeekInv'
  BY <1>34, SeekAlone DEF vars, InSeek
<1> QED
  BY <1>1, <1>2, <1>3, <1>4, <1>5, <1>6, <1>7, <1>8, <1>9, <1>10, <1>11, <1>12, <1>13,
     <1>14, <1>15, <1>16, <1>17, <1>18, <1>19, <1>20, <1>21, <1>22, <1>23, <1>24,
     <1>25, <1>26, <1>27, <1>28, <1>29, <1>30, <1>31, <1>32, <1>33, <1>34
  DEF Next, PlayerCall, PlayerStep, ThreadStep, DeliverStep

(* Together they are inductive.                                            *)
LEMMA InvStep == Inv /\ [Next]_vars => Inv'
  BY TypeStep, ControlStep, SeekStep DEF Inv

LEMMA Invariance == Spec => []Inv
  BY InitInv, InvStep, PTL DEF Spec

-----------------------------------------------------------------------------
(* Every variable has its type: TypeOK of runTask(), the commands and      *)
(* pullBuffer(), for any stream.                                           *)
THEOREM TypeCorrect == Spec => []TypeOK
<1>1. Inv => TypeOK
  BY DEF Inv
<1> QED
  BY <1>1, Invariance, PTL

(* reset() never closes the stream under the thread that reads it, since   *)
(* stop() has joined it.                                                   *)
THEOREM StreamOpen == Spec => []OpenWhileRead
<1>1. Inv => OpenWhileRead
  BY DEF Inv, ControlInv, OpenWhileRead, Quiet
<1> QED
  BY <1>1, Invariance, PTL

(* A seek that onSeek() and runTask() do not write at the same time is     *)
(* served: it is pending, or done to its own target with the node out of   *)
(* NODE_STATE_SEEKING.                                                     *)
THEOREM SeeksServed == Spec => []SeekServed
<1>1. Inv => SeekServed
  BY DEF Inv, SeekInv, SeekServed
<1> QED
  BY <1>1, Invariance, PTL

-----------------------------------------------------------------------------
(* What the caches hold.                                                   *)

LEMMA CachedType ==
  ASSUME TypeOK, NEW t \in Tracks
  PROVE  /\ cache[t] \in Seq({Null} \cup Positions)
         /\ DataAt(t) \subseteq 1..Len(cache[t]) /\ Len(cache[t]) \in Nat
         /\ \A i \in DataAt(t) : cache[t][i] \in Positions /\ cache[t][i] \in Nat
<1>1. cache[t] \in Seq({Null} \cup Positions)
  BY DEF TypeOK
<1>2. DataAt(t) \subseteq 1..Len(cache[t]) /\ Len(cache[t]) \in Nat
  BY <1>1 DEF DataAt
<1>3. \A i \in DataAt(t) : cache[t][i] \in Positions
  BY <1>1 DEF DataAt
<1>4. Positions \subseteq Nat
  BY DEF Positions
<1> QED
  BY <1>1, <1>2, <1>3, <1>4

LEMMA SameOrder ==
  ASSUME UNCHANGED <<cache, taken, missed, Front>>, NEW t \in Tracks, Ordered(t)
  PROVE  Ordered(t)'
  BY DEF Ordered, Sorted, Cached, Due, DataAt

LEMMA EmptyOrder ==
  ASSUME NEW f \in Nat, Front' = f, NEW t \in Tracks,
         cache'[t] = << >>, taken'[t] = f - 1, missed'[t] = {}
  PROVE  Ordered(t)'
<1>1. DataAt(t)' = {}
  BY DEF DataAt
<1>2. Due(t)' = {}
  BY DEF Due, Positions
<1>3. Cached(t)' = {}
  BY <1>1 DEF Cached
<1>4. Sorted(t)'
  BY <1>1 DEF Sorted
<1>5. taken'[t] < Front' /\ \A p \in missed'[t] : p < Front'
  OBVIOUS
<1> QED
  BY <1>2, <1>3, <1>4, <1>5 DEF Ordered

(* The end of a track leaves what it held.                                 *)
LEMMA NullOrder ==
  ASSUME TypeOK, QueueNull, Front' = Front, Front \in Nat \ {0}, NEW t \in Tracks, Ordered(t)
  PROVE  Ordered(t)'
<1>1. taken' = taken /\ (missed'[t] = missed[t] \/ missed'[t] = missed[t] \cup {Null})
  BY DEF QueueNull, Refused
<1>2. cache'[t] = cache[t] \/ cache'[t] = Append(cache[t], Null)
  BY DEF QueueNull, Pushed
<1>3. DataAt(t)' = DataAt(t) /\ \A i \in DataAt(t) : cache'[t][i] = cache[t][i]
  <2>1. cache[t] \in Seq({Null} \cup Positions)
    BY DEF TypeOK
  <2>2. CASE cache'[t] = cache[t]
    BY <2>2 DEF DataAt
  <2>3. CASE cache'[t] = Append(cache[t], Null)
    <3>1. /\ DOMAIN cache'[t] = DOMAIN cache[t] \cup {Len(cache[t]) + 1}
          /\ cache'[t][Len(cache[t]) + 1] = Null
          /\ \A i \in DOMAIN cache[t] : cache'[t][i] = cache[t][i]
      BY <2>1, <2>3
    <3> QED
      BY <3>1 DEF DataAt
  <2> QED
    BY <1>2, <2>2, <2>3
<1>4. Sorted(t)' /\ Cached(t)' = Cached(t)
  BY <1>3 DEF Ordered, Sorted, Cached
<1>5. Due(t)' = Due(t) /\ Null \notin Due(t)
  BY <1>1 DEF Due, Null, Positions
<1>6. \A p \in missed'[t] : p < Front'
  BY <1>1 DEF Ordered, Null
<1> QED
  BY <1>1, <1>4, <1>5, <1>6 DEF Ordered

(* A packet is queued behind those before it, or missed.                   *)
LEMMA QueueOrder ==
  ASSUME TypeOK, HeldInv, Queue, NEW t \in Tracks, Ordered(t)
  PROVE  Ordered(t)'
<1>1. /\ held \in Positions /\ next = held + 1 /\ Front = held /\ Front' = held + 1
      /\ taken' = taken /\ taken[t] \in Nat /\ held \in Nat
  BY DEF Queue, At, GoTo, HeldInv, Front, streamVars, TypeOK, Positions
<1>2. cache[t] \in Seq({Null} \cup Positions) /\ Len(cache[t]) \in Nat
  BY CachedType
<1>3. /\ missed \in [Tracks -> SUBSET ({Null} \cup Positions)]
      /\ cache \in [Tracks -> Seq({Null} \cup Positions)]
      /\ \A p \in missed[t] : p < held
  BY <1>1 DEF TypeOK, Ordered
<1>4. \A p \in missed[t] : p \in Nat
  <2>1. missed[t] \subseteq {Null} \cup Positions
    BY <1>3
  <2>2. {Null} \cup Positions \subseteq Nat
    BY DEF Null, Positions
  <2> QED
    BY <2>1, <2>2
<1>5. CASE Stream[held] = t /\ HasRoom(cache[t])
  <2>1. cache'[t] = Append(cache[t], held) /\ missed'[t] = missed[t]
    BY <1>3, <1>5 DEF Queue, Pushed, Refused
  <2>2. /\ DOMAIN cache'[t] = DOMAIN cache[t] \cup {Len(cache[t]) + 1}
        /\ cache'[t][Len(cache[t]) + 1] = held
        /\ \A i \in DOMAIN cache[t] : cache'[t][i] = cache[t][i]
    BY <1>1, <1>2, <2>1
  <2>3. /\ DataAt(t)' = DataAt(t) \cup {Len(cache[t]) + 1}
        /\ \A i \in DataAt(t) : cache'[t][i] = cache[t][i]
    BY <1>1, <2>2 DEF DataAt, Null, Positions
  <2>4. Cached(t)' = Cached(t) \cup {held}
    <3>1. Len(cache[t]) + 1 \notin DataAt(t)
      BY CachedType
    <3> QED
      BY <2>2, <2>3, <3>1 DEF Cached
  <2>5. \A i \in DataAt(t) : cache[t][i] < held /\ i < Len(cache[t]) + 1
    <3>1. \A i \in DataAt(t) : cache[t][i] \in Due(t)
      BY DEF Ordered, Cached
    <3> QED
      BY <1>1, <1>2, <3>1, CachedType DEF Due
  <2>6. Sorted(t)'
    <3>1. SUFFICES ASSUME NEW i \in DataAt(t)', NEW j \in DataAt(t)', i < j
                   PROVE  cache'[t][i] < cache'[t][j]
      BY DEF Sorted
    <3>2. i \in DataAt(t)
      BY <1>2, <2>3, <2>5, <3>1, CachedType
    <3>3. CASE j \in DataAt(t)
      BY <2>3, <3>1, <3>2, <3>3 DEF Ordered, Sorted
    <3>4. CASE j = Len(cache[t]) + 1
      BY <2>2, <2>3, <2>5, <3>2, <3>4
    <3> QED
      BY <2>3, <3>3, <3>4
  <2>7. Due(t)' = Due(t) \cup {held} /\ held \notin missed[t]
    BY <1>1, <1>3, <1>5 DEF Due, Ordered, Positions
  <2>8. taken'[t] < Front' /\ \A p \in missed'[t] : p < Front'
    BY <1>1, <1>3, <1>4, <2>1 DEF Ordered
  <2> QED
    BY <2>1, <2>4, <2>6, <2>7, <2>8 DEF Ordered
<1>6. CASE Stream[held] = t /\ ~HasRoom(cache[t])
  <2>1. cache'[t] = cache[t] /\ missed'[t] = missed[t] \cup {held}
    BY <1>3, <1>6 DEF Queue, Pushed, Refused
  <2>2. Sorted(t)' /\ Cached(t)' = Cached(t)
    BY <2>1 DEF Ordered, Sorted, Cached, DataAt
  <2>3. Due(t)' = Due(t) \cup {held} /\ held \notin Due(t)
    BY <1>1, <1>6 DEF Due, Ordered, Positions
  <2>4. taken'[t] < Front' /\ \A p \in missed'[t] : p < Front'
    BY <1>1, <1>3, <1>4, <2>1 DEF Ordered
  <2> QED
    BY <2>1, <2>2, <2>3, <2>4 DEF Ordered
<1>7. CASE Stream[held] # t
  <2>1. cache'[t] = cache[t] /\ missed'[t] = missed[t]
    BY <1>3, <1>7 DEF Queue
  <2>2. Sorted(t)' /\ Cached(t)' = Cached(t)
    BY <2>1 DEF Ordered, Sorted, Cached, DataAt
  <2>3. Due(t)' = Due(t)
    BY <1>1, <1>7 DEF Due, Positions
  <2>4. taken'[t] < Front' /\ \A p \in missed'[t] : p < Front'
    BY <1>1, <1>3, <1>4, <2>1 DEF Ordered
  <2> QED
    BY <2>1, <2>2, <2>3, <2>4 DEF Ordered
<1> QED
  BY <1>5, <1>6, <1>7

(* The first packet is the next one of its track.                          *)
LEMMA PullOrder ==
  ASSUME TypeOK, PullTake, NEW t \in Tracks, Ordered(t)
  PROVE  Ordered(t)'
<1>1. Front' = Front /\ missed' = missed
  BY DEF PullTake, DeliverOnly, streamVars, Front
<1>2. CASE cache[Audio] = << >> \/ t # Audio
  <2>1. cache'[t] = cache[t] /\ taken'[t] = taken[t]
    BY <1>2 DEF PullTake, TypeOK
  <2> QED
    BY <1>1, <2>1 DEF Ordered, Sorted, Cached, Due, DataAt
<1>3. CASE cache[Audio] # << >> /\ t = Audio
  <2> DEFINE q == cache[t]  n == Len(q)
  <2>1. q \in Seq({Null} \cup Positions) /\ n \in Nat /\ q # << >>
    BY <1>3, CachedType
  <2>2. cache'[t] = Tail(q)
    BY <1>3 DEF PullTake, TypeOK
  <2>3. /\ Head(q) = q[1] /\ 1 \in DOMAIN q
        /\ \A i \in DOMAIN Tail(q) : i + 1 \in DOMAIN q /\ i \in Nat \ {0} /\ Tail(q)[i] = q[i + 1]
        /\ \A i \in DOMAIN q : i \in Nat /\ (i # 1 => i - 1 \in DOMAIN Tail(q) /\ Tail(q)[i - 1] = q[i])
    BY <2>1
  <2>4. /\ \A i \in DataAt(t)' : i + 1 \in DataAt(t) /\ i \in Nat \ {0}
                                 /\ cache'[t][i] = q[i + 1]
        /\ \A i \in DataAt(t) : i \in Nat /\ (i # 1 => i - 1 \in DataAt(t)' /\ cache'[t][i - 1] = q[i])
    BY <2>2, <2>3 DEF DataAt
  <2> HIDE DEF n, q
  <2>5. Sorted(t)'
    <3>1. SUFFICES ASSUME NEW i \in DataAt(t)', NEW j \in DataAt(t)', i < j
                   PROVE  cache'[t][i] < cache'[t][j]
      BY DEF Sorted
    <3>2. i + 1 < j + 1
      BY <2>4, <3>1
    <3> QED
      BY <2>4, <3>2 DEF Ordered, Sorted, q
  <2>6. CASE Head(q) = Null
    <3>1. taken' = taken
      BY <1>3, <2>6 DEF PullTake, q
    <3>2. 1 \notin DataAt(t)
      BY <2>3, <2>6 DEF DataAt, q
    <3>3. Cached(t)' = Cached(t)
      BY <2>4, <3>2 DEF Cached, q
    <3>4. Due(t)' = Due(t)
      BY <1>1, <3>1 DEF Due
    <3> QED
      BY <1>1, <2>5, <3>1, <3>3, <3>4 DEF Ordered
  <2>7. CASE Head(q) # Null
    <3>1. taken'[t] = Head(q)
      BY <1>3, <2>7 DEF PullTake, TypeOK, q
    <3>2. 1 \in DataAt(t) /\ Head(q) \in Cached(t)
      BY <2>3, <2>7 DEF DataAt, Cached, q
    <3>3. Head(q) \in Due(t) /\ Head(q) \notin missed[t]
      BY <3>2 DEF Ordered
    <3>4. \A i \in DataAt(t) : i # 1 => Head(q) < q[i]
      BY <2>3, <2>4, <3>2 DEF Ordered, Sorted, q
    <3>5. \A p \in Cached(t) : p \in Nat /\ (p = Head(q) \/ Head(q) < p)
      BY <2>3, <3>4, CachedType DEF Cached, q
    <3>6. Cached(t)' = Cached(t) \ {Head(q)}
      <4>1. \A p \in Cached(t)' : p \in Cached(t) /\ p # Head(q)
        BY <2>4, <3>4, <3>5 DEF Cached, q
      <4>2. ASSUME NEW p \in Cached(t), p # Head(q) PROVE p \in Cached(t)'
        BY <2>3, <2>4, <4>2 DEF Cached, q
      <4> QED
        BY <4>1, <4>2
    <3>7. Due(t)' \ missed'[t] = (Due(t) \ missed[t]) \ {Head(q)}
      <4>1. taken[t] \in Nat /\ taken[t] < Head(q) /\ Head(q) \in Nat
        <5>1. taken[t] \in 0..Len(Stream) /\ Len(Stream) \in Nat
          BY DEF TypeOK
        <5> QED
          BY <3>3, <5>1 DEF Due, Positions
      <4>2. \A p \in Due(t) \ missed[t] : p \in Nat /\ (p = Head(q) \/ Head(q) < p)
        BY <3>5 DEF Ordered
      <4> QED
        BY <1>1, <3>1, <4>1, <4>2 DEF Due, Positions
    <3> QED
      BY <1>1, <2>5, <3>1, <3>3, <3>6, <3>7 DEF Ordered, Due
  <2> QED
    BY <2>6, <2>7
<1> QED
  BY <1>2, <1>3

(* A step that leaves the caches and the stream alone.                     *)
LEMMA CacheAlone ==
  ASSUME CacheInv, UNCHANGED <<cache, taken, missed, next, held, errs, tpc>>,
         phase' \in Quiet => phase \in Quiet
  PROVE  CacheInv'
<1>1. Front' = Front
  BY DEF Front
<1> QED
  BY <1>1, SameOrder DEF CacheInv, QuietInv, OrderInv

(* A step of the thread that neither reads nor queues.                     *)
LEMMA CacheElsewhere ==
  ASSUME CacheInv, phase \notin Quiet, phase' = phase,
         UNCHANGED <<cache, taken, missed, next, held, errs>>,
         tpc \notin {"seekflush", "queue"}, tpc' # "queue"
  PROVE  CacheInv'
<1>1. Front' = Front
  BY DEF Front
<1> QED
  BY <1>1, SameOrder DEF CacheInv, QuietInv, OrderInv

(* A flush by whichever thread.                                            *)
LEMMA CacheFlushed ==
  ASSUME TypeOK, HeldInv, Flush, Front' = Front,
         phase' \in Quiet => Front = next /\ next' = next
  PROVE  CacheInv'
<1>1. Front \in Nat /\ \A t \in Tracks : /\ cache'[t] = << >> /\ taken'[t] = Front' - 1
                                          /\ missed'[t] = {}
  <2>1. Len(Stream) \in Nat
    OBVIOUS
  <2> QED
    BY <2>1, FrontType, FlushType
<1>2. \A t \in Tracks : Ordered(t)'
  BY <1>1, EmptyOrder
<1> QED
  BY <1>1, <1>2 DEF CacheInv, QuietInv, OrderInv

LEMMA CacheStep ==
  ASSUME Inv, CacheInv, [Next]_vars
  PROVE  CacheInv'
<1>0. TypeOK /\ HeldInv /\ ControlInv /\ CacheInv /\ QuietInv /\ OrderInv
  BY DEF CacheInv, Inv
<1>1. ASSUME Prepare PROVE CacheInv'
  <2>1. /\ phase \in Quiet /\ tpc' = "born" /\ errs' = 0 /\ phase' = "PREPARED"
        /\ UNCHANGED <<cache, taken, missed, next, held>>
    BY <1>1 DEF Prepare, Command, CanCall, Quiet, ghosts
  <2>2. Front' \in Nat /\ Front' = next
    <3>1. Len(Stream) \in Nat
      OBVIOUS
    <3> QED
      BY <1>0, <2>1, <3>1 DEF TypeOK, Front
  <2>3. \A t \in Tracks : cache'[t] = << >> /\ taken'[t] = Front' - 1 /\ missed'[t] = {}
    BY <1>0, <2>1, <2>2 DEF QuietInv
  <2>4. \A t \in Tracks : Ordered(t)'
    BY <2>2, <2>3, EmptyOrder
  <2> QED
    BY <2>1, <2>4 DEF CacheInv, QuietInv, OrderInv, Quiet
<1>2. ASSUME Start PROVE CacheInv'
  BY <1>0, <1>2, CacheAlone DEF Start, DemuxerAlone, ghosts, Quiet
<1>3. ASSUME Pause PROVE CacheInv'
  BY <1>0, <1>3, CacheAlone DEF Pause, DemuxerAlone, ghosts, Quiet
<1>4. ASSUME Complete PROVE CacheInv'
  BY <1>0, <1>4, CacheAlone DEF Complete, DemuxerAlone, ghosts, Quiet
<1>5. ASSUME Stop PROVE CacheInv'
  BY <1>0, <1>5, CacheAlone DEF Stop, DemuxerAlone, ghosts, Quiet
<1>6. ASSUME Reset PROVE CacheInv'
  <2>1. phase \in Quiet /\ Flush /\ UNCHANGED <<next, held, errs, tpc>>
    BY <1>6 DEF Reset, Command, CanCall, Quiet
  <2>2. tpc = "none" /\ Front = next /\ Front' = Front
    BY <1>0, <2>1 DEF ControlInv, Front
  <2> QED
    BY <1>0, <2>1, <2>2, CacheFlushed
<1>7. ASSUME NEW x \in Targets, Seek(x) PROVE CacheInv'
  BY <1>0, <1>7, CacheAlone DEF Seek, DemuxerAlone, ghosts, Quiet
<1>8. ASSUME OnFlush PROVE CacheInv'
  <2>1. Flush /\ UNCHANGED <<phase, next, held, errs, tpc>>
    BY <1>8 DEF OnFlush, DemuxerAlone
  <2>2. Front' = Front /\ phase \notin Quiet
    BY <1>0, <1>8, <2>1 DEF Front, ControlInv, OnFlush, Step
  <2> QED
    BY <1>0, <2>1, <2>2, CacheFlushed
<1>9. ASSUME SeekNeed PROVE CacheInv'
  BY <1>0, <1>9, CacheAlone DEF SeekNeed, DemuxerAlone, ghosts
<1>10. ASSUME SeekTarget PROVE CacheInv'
  BY <1>0, <1>10, CacheAlone DEF SeekTarget, DemuxerAlone, ghosts
<1>11. ASSUME SeekState PROVE CacheInv'
  BY <1>0, <1>11, CacheAlone DEF SeekState, DemuxerAlone, ghosts
<1>12. ASSUME SeekStart PROVE CacheInv'
  BY <1>0, <1>12, CacheAlone DEF SeekStart, DemuxerAlone, ghosts
<1>13. ASSUME SeekComplete PROVE CacheInv'
  BY <1>0, <1>13, CacheAlone DEF SeekComplete, DemuxerAlone, ghosts, Quiet
<1>14. ASSUME Interrupt PROVE CacheInv'
  BY <1>0, <1>14, CacheAlone DEF Interrupt, DemuxerAlone, ghosts
<1>15. ASSUME Join PROVE CacheInv'
  <2>1. Flush /\ tpc = "exited" /\ tpc' = "none" /\ UNCHANGED <<next, held, errs>>
    BY <1>15 DEF Join, streamVars
  <2>2. Front = next /\ Front' = Front
    BY <2>1 DEF Front
  <2> QED
    BY <1>0, <2>1, <2>2, CacheFlushed
<1>16. ASSUME Born PROVE CacheInv'
  <2>1. phase \notin Quiet /\ phase' = phase
    BY <1>0, <1>16 DEF Born, At, ThreadOnly, ControlInv
  <2> QED
    BY <1>0, <1>16, <2>1, CacheElsewhere DEF Born, At, GoTo, streamVars, ghosts
<1>17. ASSUME SetLoop PROVE CacheInv'
  <2>1. phase \notin Quiet /\ phase' = phase
    BY <1>0, <1>17 DEF SetLoop, At, ThreadOnly, ControlInv
  <2> QED
    BY <1>0, <1>17, <2>1, CacheElsewhere DEF SetLoop, At, GoTo, streamVars, ghosts
<1>18. ASSUME Top PROVE CacheInv'
  <2>1. phase \notin Quiet /\ phase' = phase
    BY <1>0, <1>18 DEF Top, At, ThreadOnly, ControlInv
  <2> QED
    BY <1>0, <1>18, <2>1, CacheElsewhere DEF Top, At, GoTo, streamVars, ghosts
<1>19. ASSUME TakeSeek PROVE CacheInv'
  <2>1. phase \notin Quiet /\ phase' = phase
    BY <1>0, <1>19 DEF TakeSeek, At, ThreadOnly, ControlInv
  <2> QED
    BY <1>0, <1>19, <2>1, CacheElsewhere DEF TakeSeek, At, GoTo, streamVars, ghosts
<1>20. ASSUME SeekStream PROVE CacheInv'
  <2>1. phase \notin Quiet /\ phase' = phase /\ tpc' = "seekflush"
    BY <1>0, <1>20 DEF SeekStream, At, GoTo, ThreadOnly, ControlInv
  <2> QED
    BY <2>1 DEF CacheInv, QuietInv, OrderInv
<1>21. ASSUME SeekFlush PROVE CacheInv'
  <2>1. Flush /\ tpc = "seekflush" /\ tpc' = "seekdone" /\ UNCHANGED <<phase, next, held, errs>>
    BY <1>21 DEF SeekFlush, At, GoTo, streamVars, ThreadOnly
  <2>2. Front' = Front /\ phase \notin Quiet
    BY <1>0, <2>1 DEF Front, ControlInv
  <2> QED
    BY <1>0, <2>1, <2>2, CacheFlushed
<1>22. ASSUME SeekDone PROVE CacheInv'
  <2>1. phase \notin Quiet /\ phase' = phase
    BY <1>0, <1>22 DEF SeekDone, At, ThreadOnly, ControlInv
  <2> QED
    BY <1>0, <1>22, <2>1, CacheElsewhere DEF SeekDone, At, GoTo, streamVars, ghosts
<1>23. ASSUME SeekStarted PROVE CacheInv'
  <2>1. phase \notin Quiet /\ phase' = phase
    BY <1>0, <1>23 DEF SeekStarted, At, ThreadOnly, ControlInv
  <2> QED
    BY <1>0, <1>23, <2>1, CacheElsewhere DEF SeekStarted, At, GoTo, streamVars, ghosts
<1>24. ASSUME Fetch PROVE CacheInv'
  <2>1. phase \notin Quiet /\ phase' = phase
    BY <1>0, <1>24 DEF Fetch, At, ThreadOnly, ControlInv
  <2> QED
    BY <1>0, <1>24, <2>1, CacheElsewhere DEF Fetch, At, GoTo, streamVars, ghosts
<1>25. ASSUME ReadError PROVE CacheInv'
  <2>1. /\ phase \notin Quiet /\ phase' = phase /\ tpc = "read" /\ tpc' = "top"
        /\ errs' = errs + 1 /\ UNCHANGED <<cache, taken, missed, next, held>>
    BY <1>0, <1>25 DEF ReadError, At, GoTo, ThreadOnly, ControlInv, ghosts
  <2>2. Front' = Front /\ (errs' <= ErrLimit => errs <= ErrLimit)
    BY <1>0, <2>1 DEF Front, TypeOK
  <2> QED
    BY <1>0, <2>1, <2>2, SameOrder DEF CacheInv, QuietInv, OrderInv
<1>26. ASSUME ReadEnd PROVE CacheInv'
  <2>1. /\ phase \notin Quiet /\ phase' = phase /\ tpc = "read" /\ tpc' = "null"
        /\ next > Len(Stream) \/ errs > ErrLimit
        /\ next' \in {next, next + 1} /\ next' <= Len(Stream) + 1
        /\ UNCHANGED <<cache, taken, missed, held, errs>>
    BY <1>0, <1>26 DEF ReadEnd, At, GoTo, ThreadOnly, ControlInv, ghosts
  <2>2. errs' <= ErrLimit => errs <= ErrLimit /\ next' = next
    BY <1>0, <2>1 DEF TypeOK
  <2>3. Front = next /\ Front' = next'
    BY <2>1 DEF Front
  <2> QED
    BY <1>0, <2>1, <2>2, <2>3, SameOrder DEF CacheInv, QuietInv, OrderInv
<1>27. ASSUME ReadPacket PROVE CacheInv'
  <2>1. /\ phase \notin Quiet /\ phase' = phase /\ tpc = "read" /\ tpc' = "queue"
        /\ held' = next /\ errs <= ErrLimit /\ UNCHANGED <<cache, taken, missed>>
    BY <1>0, <1>27 DEF ReadPacket, At, GoTo, ThreadOnly, ControlInv, ghosts
  <2>2. Front' = Front
    BY <2>1 DEF Front
  <2> QED
    BY <1>0, <2>1, <2>2, SameOrder DEF CacheInv, QuietInv, OrderInv
<1>28. ASSUME Queue PROVE CacheInv'
  <2>1. phase \notin Quiet /\ phase' = phase /\ errs' = errs /\ tpc = "queue"
    BY <1>0, <1>28 DEF Queue, At, ThreadOnly, ControlInv, streamVars
  <2>2. errs' <= ErrLimit => \A t \in Tracks : Ordered(t)'
    BY <1>0, <1>28, <2>1, QueueOrder DEF OrderInv
  <2> QED
    BY <2>1, <2>2 DEF CacheInv, QuietInv, OrderInv
<1>29. ASSUME QueueNull PROVE CacheInv'
  <2>1. /\ phase \notin Quiet /\ phase' = phase /\ tpc = "null" /\ tpc' = "top"
        /\ UNCHANGED <<next, held, errs>>
    BY <1>0, <1>29 DEF QueueNull, At, GoTo, ThreadOnly, ControlInv, streamVars
  <2>2. Front' = Front /\ Front \in Nat \ {0}
    <3>1. Len(Stream) \in Nat
      OBVIOUS
    <3> QED
      BY <1>0, <2>1, <3>1, FrontType DEF Front
  <2>3. errs' <= ErrLimit => \A t \in Tracks : Ordered(t)'
    BY <1>0, <1>29, <2>1, <2>2, NullOrder DEF OrderInv
  <2> QED
    BY <2>1, <2>3 DEF CacheInv, QuietInv, OrderInv
<1>30. ASSUME Pull PROVE CacheInv'
  BY <1>0, <1>30, CacheAlone DEF Pull, DeliverOnly, streamVars, playVars
<1>31. ASSUME PullState PROVE CacheInv'
  BY <1>0, <1>31, CacheAlone DEF PullState, DeliverOnly, streamVars, playVars
<1>32. ASSUME PullTake PROVE CacheInv'
  <2>1. UNCHANGED <<phase, next, errs, tpc, missed>>
    BY <1>32 DEF PullTake, DeliverOnly, streamVars, playVars
  <2>2. phase \in Quiet => UNCHANGED <<cache, taken>>
    BY <1>0, <1>32 DEF QuietInv, PullTake
  <2>3. errs <= ErrLimit /\ tpc # "seekflush" => \A t \in Tracks : Ordered(t)'
    BY <1>0, <1>32, PullOrder DEF OrderInv
  <2>4. QuietInv'
    BY <1>0, <2>1, <2>2 DEF QuietInv
  <2> QED
    BY <2>1, <2>3, <2>4 DEF CacheInv, OrderInv
<1>33. ASSUME PullNull PROVE CacheInv'
  BY <1>0, <1>33, CacheAlone DEF PullNull, DeliverOnly, streamVars, playVars
<1>34. ASSUME UNCHANGED vars PROVE CacheInv'
  BY <1>0, <1>34, CacheAlone DEF vars
<1> QED
  BY <1>1, <1>2, <1>3, <1>4, <1>5, <1>6, <1>7, <1>8, <1>9, <1>10, <1>11, <1>12, <1>13,
     <1>14, <1>15, <1>16, <1>17, <1>18, <1>19, <1>20, <1>21, <1>22, <1>23, <1>24,
     <1>25, <1>26, <1>27, <1>28, <1>29, <1>30, <1>31, <1>32, <1>33, <1>34
  DEF Next, PlayerCall, PlayerStep, ThreadStep, DeliverStep

LEMMA InitCache == Init => CacheInv
<1> SUFFICES ASSUME Init PROVE CacheInv
  OBVIOUS
<1>1. \A t \in Tracks : cache[t] = << >> /\ taken[t] = next - 1 /\ missed[t] = {}
  BY DEF Init
<1>2. \A t \in Tracks : Ordered(t)
  BY <1>1 DEF Init, Ordered, Sorted, Cached, DataAt, Due, Front, Positions
<1> QED
  BY <1>1, <1>2 DEF CacheInv, QuietInv, OrderInv

(* No packet but one that found the deque full is lost, and none repeated  *)
(* or kept over a seek, whichever of the three threads flushes, queues and *)
(* pulls (FFNodeDemuxer::runTask(), onFlush() and pullBuffer()).           *)
THEOREM PacketsInOrder == Spec => []CacheInOrder
<1>1. Init => Inv /\ CacheInv
  BY InitInv, InitCache
<1>2. Inv /\ CacheInv /\ [Next]_vars => (Inv /\ CacheInv)'
  BY InvStep, CacheStep
<1>3. CacheInv => CacheInOrder
  BY DEF CacheInv, OrderInv, Ordered, CacheInOrder, Sorted, Cached
<1> QED
  BY <1>1, <1>2, <1>3, PTL DEF Spec

-----------------------------------------------------------------------------
(* What the packets of a queue amount to.                                  *)

LEMMA LeastNumber ==
    ASSUME NEW S \in SUBSET Nat, S # {}
    PROVE  \E x \in S : \A y \in S : x <= y
<1>1. \E x \in S : \A y \in S : ~ (<<y, x>> \in OpToRel(<, Nat))
  BY NatLessThanWellFounded, WFMin
<1>2. PICK x \in S : \A y \in S : ~ (<<y, x>> \in OpToRel(<, Nat))
  BY <1>1
<1>3. \A y \in S : x =< y
  <2> SUFFICES ASSUME NEW y \in S, ~(x =< y) PROVE FALSE
    OBVIOUS
  <2>1. y \in Nat /\ x \in Nat /\ y < x
    OBVIOUS
  <2>2. <<y, x>> \in OpToRel(<, Nat)
    BY <2>1 DEF OpToRel
  <2> QED
    BY <1>2, <2>2
<1> QED
  BY <1>3

Queues  == Seq({Null} \cup Positions)
Amounts == [Positions -> Nat]

Added(of, q, f) == [n \in 0..Len(q) |-> IF n = 0 THEN 0 ELSE f[n - 1] + Amount(of, q[n])]
UpTo(of, q)     == CHOOSE f : f = Added(of, q, f)

LEMMA TotalIs == \A of, q : Total(of, q) = UpTo(of, q)[Len(q)]
  BY DEF Total, UpTo, Added

(* There is such a function, one element after the other.                  *)
LEMMA UpToIs ==
  ASSUME NEW of, NEW q \in Queues
  PROVE  UpTo(of, q) = Added(of, q, UpTo(of, q))
<1> DEFINE Up(k, f) == [n \in 0..k |-> IF n = 0 THEN 0 ELSE f[n - 1] + Amount(of, q[n])]
           Off == {k \in 0..Len(q) : ~ \E f : f = Up(k, f)}
<1>0. Len(q) \in Nat
  BY DEF Queues
<1>1. Off = {}
  <2> SUFFICES ASSUME Off # {} PROVE FALSE
    OBVIOUS
  <2>1. Off \in SUBSET Nat
    BY <1>0
  <2> HIDE DEF Off
  <2>2. PICK k \in Off : \A j \in Off : k <= j
    BY <2>1, LeastNumber
  <2>3. k \in 0..Len(q) /\ k \in Nat /\ ~ \E f : f = Up(k, f)
    BY <2>1, <2>2 DEF Off
  <2>4. k # 0
    <3>1. [n \in 0..0 |-> 0] = Up(0, [n \in 0..0 |-> 0])
      OBVIOUS
    <3> QED
      BY <2>3, <3>1
  <2>5. k - 1 \in 0..Len(q) /\ ~(k <= k - 1)
    BY <1>0, <2>3, <2>4
  <2>6. k - 1 \notin Off
    BY <2>2, <2>5
  <2>7. PICK f : f = Up(k - 1, f)
    BY <2>5, <2>6 DEF Off
  <2> DEFINE g == [n \in 0..k |-> IF n = k THEN f[k - 1] + Amount(of, q[k]) ELSE f[n]]
  <2>8. g = Up(k, g)
    <3> SUFFICES ASSUME NEW n \in 0..k
                 PROVE  g[n] = IF n = 0 THEN 0 ELSE g[n - 1] + Amount(of, q[n])
      OBVIOUS
    <3>1. CASE n = k
      <4>1. n - 1 \in 0..k /\ n - 1 # k /\ n # 0
        BY <2>3, <2>4, <3>1
      <4> QED
        BY <3>1, <4>1
    <3>2. CASE n # k
      <4>1. n \in 0..k - 1
        BY <2>3, <3>2
      <4>2. f[n] = IF n = 0 THEN 0 ELSE f[n - 1] + Amount(of, q[n])
        BY <2>7, <4>1
      <4>3. n # 0 => n - 1 \in 0..k /\ n - 1 # k
        BY <2>3, <4>1
      <4> QED
        BY <3>2, <4>2, <4>3
    <3> QED
      BY <3>1, <3>2
  <2> QED
    BY <2>3, <2>8
<1>2. \E f : f = Up(Len(q), f)
  BY <1>0, <1>1
<1>3. \E f : f = Added(of, q, f)
  BY <1>2 DEF Added
<1> QED
  BY <1>3 DEF UpTo

LEMMA UpToStep ==
  ASSUME NEW of, NEW q \in Queues
  PROVE  /\ UpTo(of, q)[0] = 0 /\ Len(q) \in Nat
         /\ \A n \in 1..Len(q) : UpTo(of, q)[n] = UpTo(of, q)[n - 1] + Amount(of, q[n])
<1>1. Len(q) \in Nat
  BY DEF Queues
<1>2. \A n \in 0..Len(q) : Added(of, q, UpTo(of, q))[n] =
         IF n = 0 THEN 0 ELSE UpTo(of, q)[n - 1] + Amount(of, q[n])
  BY DEF Added
<1>3. \A n \in 0..Len(q) : UpTo(of, q)[n] =
         IF n = 0 THEN 0 ELSE UpTo(of, q)[n - 1] + Amount(of, q[n])
  BY <1>2, UpToIs
<1>4. 0 \in 0..Len(q) /\ \A n \in 1..Len(q) : n \in 0..Len(q) /\ n # 0
  BY <1>1
<1> QED
  BY <1>1, <1>3, <1>4

LEMMA AmountType ==
  ASSUME NEW of \in Amounts, NEW p \in {Null} \cup Positions
  PROVE  Amount(of, p) \in Nat
  BY DEF Amount, Amounts

(* The counterexample with the fewest elements, if there is one.           *)
LEMMA FewestOff ==
  ASSUME NEW k \in Nat, NEW S \in SUBSET (0..k), S # {}, 0 \notin S
  PROVE  \E n \in S : n \in 1..k /\ n - 1 \in 0..k /\ n - 1 \notin S
<1>1. S \in SUBSET Nat
  OBVIOUS
<1>2. PICK n \in S : \A m \in S : n <= m
  BY <1>1, LeastNumber
<1>3. n \in 0..k /\ n # 0
  OBVIOUS
<1>4. n \in 1..k /\ n - 1 \in 0..k /\ ~(n <= n - 1)
  BY <1>3
<1> QED
  BY <1>2, <1>4

LEMMA TotalType ==
  ASSUME NEW of \in Amounts, NEW q \in Queues
  PROVE  Total(of, q) \in Nat /\ \A n \in 0..Len(q) : UpTo(of, q)[n] \in Nat
<1> DEFINE f == UpTo(of, q)
           Off == {n \in 0..Len(q) : f[n] \notin Nat}
<1>1. /\ f[0] = 0 /\ Len(q) \in Nat
      /\ \A n \in 1..Len(q) : f[n] = f[n - 1] + Amount(of, q[n])
  BY UpToStep
<1>2. \A n \in 1..Len(q) : Amount(of, q[n]) \in Nat
  BY AmountType DEF Queues
<1> HIDE DEF f
<1>3. Off = {}
  <2> SUFFICES ASSUME Off # {} PROVE FALSE
    OBVIOUS
  <2>1. Off \in SUBSET (0..Len(q)) /\ 0 \notin Off
    BY <1>1
  <2>2. PICK n \in Off : n \in 1..Len(q) /\ n - 1 \in 0..Len(q) /\ n - 1 \notin Off
    BY <1>1, <2>1, FewestOff
  <2> QED
    BY <1>1, <1>2, <2>2
<1> QED
  BY <1>1, <1>3, TotalIs DEF f

(* Queues that agree on their first elements do so on their amounts.       *)
LEMMA SameUpTo ==
  ASSUME NEW of \in Amounts, NEW q \in Queues, NEW r \in Queues,
         NEW k \in 0..Len(q), k <= Len(r), \A i \in 1..k : r[i] = q[i]
  PROVE  UpTo(of, r)[k] = UpTo(of, q)[k]
<1> DEFINE f == UpTo(of, q)  g == UpTo(of, r)
           Off == {n \in 0..k : g[n] # f[n]}
<1>1. /\ f[0] = 0 /\ g[0] = 0 /\ Len(q) \in Nat /\ Len(r) \in Nat
      /\ \A n \in 1..Len(q) : f[n] = f[n - 1] + Amount(of, q[n])
      /\ \A n \in 1..Len(r) : g[n] = g[n - 1] + Amount(of, r[n])
  BY UpToStep
<1>2. k \in Nat /\ \A n \in 1..k : n \in 1..Len(q) /\ n \in 1..Len(r)
  BY <1>1
<1> HIDE DEF f, g
<1>3. Off = {}
  <2> SUFFICES ASSUME Off # {} PROVE FALSE
    OBVIOUS
  <2>1. Off \in SUBSET (0..k) /\ 0 \notin Off
    BY <1>1
  <2>2. PICK n \in Off : n \in 1..k /\ n - 1 \in 0..k /\ n - 1 \notin Off
    BY <1>2, <2>1, FewestOff
  <2> QED
    BY <1>1, <1>2, <2>2
<1>4. k \in 0..k
  BY <1>2
<1> QED
  BY <1>3, <1>4 DEF f, g

LEMMA TotalEmpty == \A of : Total(of, << >>) = 0
<1>1. << >> \in Queues /\ Len(<< >>) = 0
  BY DEF Queues
<1> QED
  BY <1>1, UpToStep, TotalIs

LEMMA TotalAppend ==
  ASSUME NEW of \in Amounts, NEW q \in Queues, NEW p \in {Null} \cup Positions
  PROVE  Total(of, Append(q, p)) = Total(of, q) + Amount(of, p)
<1> DEFINE r == Append(q, p)
<1>1. /\ r \in Queues /\ Len(r) = Len(q) + 1 /\ r[Len(r)] = p /\ Len(q) \in Nat
      /\ \A i \in 1..Len(q) : r[i] = q[i]
  BY DEF Queues
<1> HIDE DEF r
<1>2. UpTo(of, r)[Len(q)] = UpTo(of, q)[Len(q)]
  <2>1. Len(q) \in 0..Len(q) /\ Len(q) <= Len(r)
    BY <1>1
  <2> QED
    BY <1>1, <2>1, SameUpTo
<1>3. Len(r) \in 1..Len(r) /\ Len(r) - 1 = Len(q)
  BY <1>1
<1>4. UpTo(of, r)[Len(r)] = UpTo(of, r)[Len(q)] + Amount(of, p)
  BY <1>1, <1>3, UpToStep
<1> QED
  BY <1>2, <1>4, TotalIs DEF r

LEMMA TotalTail ==
  ASSUME NEW of \in Amounts, NEW q \in Queues, q # << >>
  PROVE  Total(of, q) = Amount(of, Head(q)) + Total(of, Tail(q)) /\ Tail(q) \in Queues
<1> DEFINE r == Tail(q)
           f == UpTo(of, q)
           g == UpTo(of, r)
           Off == {n \in 0..Len(r) : f[n + 1] # Amount(of, q[1]) + g[n]}
<1>1. /\ r \in Queues /\ Len(q) = Len(r) + 1 /\ Len(r) \in Nat /\ Head(q) = q[1]
      /\ \A i \in 1..Len(r) : r[i] = q[i + 1]
      /\ q[1] \in {Null} \cup Positions
  BY DEF Queues
<1> HIDE DEF r
<1>2. /\ f[0] = 0 /\ g[0] = 0
      /\ \A n \in 1..Len(q) : f[n] = f[n - 1] + Amount(of, q[n])
      /\ \A n \in 1..Len(r) : g[n] = g[n - 1] + Amount(of, r[n])
  BY <1>1, UpToStep
<1>3. Amount(of, q[1]) \in Nat /\ \A n \in 0..Len(r) : g[n] \in Nat
  BY <1>1, TotalType, AmountType
<1>4. \A n \in 1..Len(r) : Amount(of, r[n]) \in Nat
  BY <1>1, AmountType DEF Queues
<1> HIDE DEF f, g
<1>5. f[1] = Amount(of, q[1]) + g[0]
  <2>1. 1 \in 1..Len(q) /\ 1 - 1 = 0
    BY <1>1
  <2> QED
    BY <1>2, <1>3, <2>1
<1>6. Off = {}
  <2> SUFFICES ASSUME Off # {} PROVE FALSE
    OBVIOUS
  <2>1. Off \in SUBSET (0..Len(r)) /\ 0 \notin Off
    BY <1>5
  <2>2. PICK n \in Off : n \in 1..Len(r) /\ n - 1 \in 0..Len(r) /\ n - 1 \notin Off
    BY <1>1, <2>1, FewestOff
  <2>3. f[n] = Amount(of, q[1]) + g[n - 1]
    <3>1. (n - 1) + 1 = n
      BY <2>2
    <3> QED
      BY <2>2, <3>1
  <2>4. f[n + 1] = f[n] + Amount(of, q[n + 1])
    <3>1. n + 1 \in 1..Len(q) /\ (n + 1) - 1 = n
      BY <1>1, <2>2
    <3> QED
      BY <1>2, <3>1
  <2>5. r[n] = q[n + 1] /\ g[n] = g[n - 1] + Amount(of, r[n])
    BY <1>1, <1>2, <2>2
  <2>6. f[n + 1] = Amount(of, q[1]) + g[n]
    BY <1>3, <1>4, <2>2, <2>3, <2>4, <2>5
  <2> QED
    BY <2>2, <2>6
<1>7. Len(r) \in 0..Len(r)
  BY <1>1
<1>8. f[Len(r) + 1] = Amount(of, q[1]) + g[Len(r)]
  BY <1>6, <1>7
<1> QED
  BY <1>1, <1>8, TotalIs DEF f, g, r

-----------------------------------------------------------------------------
(* The limits of the caches.                                               *)

(* There is room for one packet, which only the thread adds.               *)
Spare == CacheSize < MaxSize /\ \A t \in Tracks : Duration(t) < MaxDuration

BoundInv == CacheBounded /\ (tpc \in {"read", "queue"} => Spare)

LEMMA Limits == /\ Durations \in Amounts /\ Sizes \in Amounts
                /\ Tracks \subseteq {Audio, Video} /\ Audio # Video
  BY DemuxerAssumption DEF Amounts

LEMMA Totals ==
  ASSUME TypeOK
  PROVE  /\ CacheSize \in Nat /\ Bytes(Audio) \in Nat /\ Bytes(Video) \in Nat
         /\ \A t \in Tracks : /\ Duration(t) \in Nat /\ cache[t] \in Queues
                             /\ Bytes(t) = Total(Sizes, cache[t])
<1>1. \A t \in Tracks : cache[t] \in Queues
  BY DEF TypeOK, Queues
<1>2. \A t \in Tracks : Duration(t) \in Nat
  BY <1>1, Limits, TotalType DEF Duration
<1>3. \A t \in Tracks : Total(Sizes, cache[t]) \in Nat
  BY <1>1, Limits, TotalType
<1>4. Bytes(Audio) \in Nat /\ Bytes(Video) \in Nat
  BY <1>3 DEF Bytes
<1> QED
  BY <1>1, <1>2, <1>4 DEF CacheSize, Bytes

(* A cache that only lost packets.                                         *)
Shrunk ==
    \A t \in Tracks : \/ cache'[t] = cache[t]
                      \/ cache'[t] = << >>
                      \/ cache[t] # << >> /\ cache'[t] = Tail(cache[t])

(* A flush is one way to shrink, and leaves no packet without data.        *)
LEMMA FlushShrunk ==
  ASSUME TypeOK, HeldInv, Flush
  PROVE  Shrunk /\ NoNull' /\ Room'
<1>1. \A t \in Tracks : cache'[t] = << >>
  BY FlushType
<1>2. \A t \in Tracks : Len(cache'[t]) = 0 /\ DOMAIN cache'[t] = {}
  BY <1>1
<1> QED
  BY <1>1, <1>2 DEF Shrunk, NoNull, Room, HasRoom

LEMMA PullShrunk == ASSUME TypeOK, PullTake PROVE Shrunk
<1>1. CASE cache[Audio] = << >>
  BY <1>1 DEF PullTake, Shrunk
<1>2. CASE cache[Audio] # << >>
  <2>1. cache' = [cache EXCEPT ![Audio] = Tail(@)]
    BY <1>2 DEF PullTake
  <2> QED
    BY <1>2, <2>1 DEF TypeOK, Shrunk
<1> QED
  BY <1>1, <1>2

LEMMA ShrunkTotals ==
  ASSUME TypeOK, Shrunk
  PROVE  /\ CacheSize' <= CacheSize /\ CacheSize' \in Nat
         /\ \A t \in Tracks : /\ Duration(t)' <= Duration(t) /\ Duration(t)' \in Nat
                             /\ Len(cache'[t]) <= Len(cache[t]) /\ Len(cache'[t]) \in Nat
                             /\ Len(cache[t]) \in Nat
<1>1. ASSUME NEW t \in Tracks, NEW of \in Amounts
      PROVE  /\ Total(of, cache'[t]) <= Total(of, cache[t])
             /\ Total(of, cache'[t]) \in Nat
             /\ Len(cache'[t]) <= Len(cache[t]) /\ Len(cache'[t]) \in Nat
             /\ Len(cache[t]) \in Nat
  <2>1. cache[t] \in Queues /\ Total(of, cache[t]) \in Nat /\ Len(cache[t]) \in Nat
    BY Totals, TotalType DEF Queues
  <2>2. CASE cache'[t] = cache[t]
    BY <2>1, <2>2
  <2>3. CASE cache'[t] = << >>
    BY <2>1, <2>3, TotalEmpty
  <2>4. CASE cache[t] # << >> /\ cache'[t] = Tail(cache[t])
    <3>1. /\ Total(of, cache[t]) = Amount(of, Head(cache[t])) + Total(of, cache'[t])
          /\ cache'[t] \in Queues
      BY <2>1, <2>4, TotalTail
    <3>2. Head(cache[t]) \in {Null} \cup Positions /\ Len(cache'[t]) = Len(cache[t]) - 1
          /\ Len(cache'[t]) \in Nat
      BY <2>1, <2>4 DEF Queues
    <3>3. Amount(of, Head(cache[t])) \in Nat /\ Total(of, cache'[t]) \in Nat
      BY <3>1, <3>2, AmountType, TotalType
    <3> QED
      BY <2>1, <3>1, <3>2, <3>3
  <2> QED
    BY <2>2, <2>3, <2>4 DEF Shrunk
<1>2. \A t \in Tracks : Duration(t)' <= Duration(t) /\ Duration(t)' \in Nat
  BY <1>1, Limits DEF Duration
<1>3. \A t \in Tracks : Total(Sizes, cache'[t]) <= Total(Sizes, cache[t]) /\ Total(Sizes, cache'[t]) \in Nat
  BY <1>1, Limits
<1>4. \A t : Bytes(t)' <= Bytes(t) /\ Bytes(t)' \in Nat
  BY <1>3 DEF Bytes
<1>5. CacheSize' <= CacheSize /\ CacheSize' \in Nat
  BY <1>4, Totals DEF CacheSize
<1> QED
  BY <1>1, <1>2, <1>5, Limits

(* Less is within the same bound.                                          *)
LEMMA PassedLess ==
  ASSUME NEW of \in Amounts, NEW n \in Nat, NEW m \in Nat, m <= n, NEW max \in Nat,
         PassedBy(of, n, max)
  PROVE  PassedBy(of, m, max)
<1>1. PICK p \in {Null} \cup Positions : n < max + Amount(of, p)
  BY DEF PassedBy
<1>2. Amount(of, p) \in Nat
  BY AmountType
<1>3. m < max + Amount(of, p)
  BY <1>1, <1>2
<1> QED
  BY <1>3 DEF PassedBy

LEMMA BoundShrunk ==
  ASSUME TypeOK, BoundInv, Shrunk, tpc' \in {"read", "queue"} => tpc' = tpc
  PROVE  BoundInv'
<1>0. MaxSize \in Nat /\ MaxDuration \in Nat /\ MaxCount \in Nat
  OBVIOUS
<1>1. PassedBy(Sizes, CacheSize', MaxSize)
  <2>1. PassedBy(Sizes, CacheSize, MaxSize) /\ CacheSize \in Nat
    BY Totals DEF BoundInv, CacheBounded
  <2> QED
    BY <1>0, <2>1, Limits, ShrunkTotals, PassedLess
<1>2. ASSUME NEW t \in Tracks
      PROVE  PassedBy(Durations, Duration(t)', MaxDuration) /\ Len(cache'[t]) <= MaxCount
  <2>1. /\ PassedBy(Durations, Duration(t), MaxDuration) /\ Duration(t) \in Nat
        /\ Len(cache[t]) <= MaxCount
    BY Totals DEF BoundInv, CacheBounded
  <2>2. /\ Duration(t)' <= Duration(t) /\ Duration(t)' \in Nat
        /\ Len(cache'[t]) <= Len(cache[t]) /\ Len(cache'[t]) \in Nat /\ Len(cache[t]) \in Nat
    BY ShrunkTotals
  <2>3. PassedBy(Durations, Duration(t)', MaxDuration)
    BY <1>0, <2>1, <2>2, Limits, PassedLess
  <2> QED
    BY <1>0, <2>1, <2>2, <2>3
<1>3. CacheBounded'
  BY <1>1, <1>2 DEF CacheBounded, PassedBy
<1>4. Spare => Spare'
  BY <1>0, ShrunkTotals, Totals DEF Spare
<1> QED
  BY <1>3, <1>4 DEF BoundInv

(* One packet more, or none: what it adds.                                 *)
LEMMA PushedTotals ==
  ASSUME NEW of \in Amounts, NEW q \in Queues, NEW p \in {Null} \cup Positions
  PROVE  /\ Total(of, Pushed(q, p)) \in Nat
         /\ Total(of, Pushed(q, p)) <= Total(of, q) + Amount(of, p)
         /\ Len(q) <= MaxCount => Len(Pushed(q, p)) <= MaxCount
<1>1. Total(of, q) \in Nat /\ Amount(of, p) \in Nat /\ Len(q) \in Nat /\ MaxCount \in Nat
  BY TotalType, AmountType DEF Queues
<1>2. CASE HasRoom(q)
  <2>1. Pushed(q, p) = Append(q, p) /\ Len(Append(q, p)) = Len(q) + 1
    BY <1>2 DEF Pushed, Queues
  <2> QED
    BY <1>1, <1>2, <2>1, TotalAppend DEF HasRoom
<1>3. CASE ~HasRoom(q)
  <2>1. Pushed(q, p) = q
    BY <1>3 DEF Pushed
  <2> QED
    BY <1>1, <2>1
<1> QED
  BY <1>2, <1>3

(* A packet is queued: one more than there was room for.                   *)
LEMMA BoundQueued ==
  ASSUME TypeOK, HeldInv, BoundInv, Queue
  PROVE  BoundInv'
<1>0. MaxSize \in Nat /\ MaxDuration \in Nat /\ MaxCount \in Nat
  OBVIOUS
<1>1. /\ held \in Positions /\ tpc' = "top" /\ CacheBounded /\ Spare
      /\ Stream[held] \in Tracks /\ held \in {Null} \cup Positions
  BY DEF Queue, At, GoTo, HeldInv, BoundInv, Positions
<1>2. PICK t \in Tracks : t = Stream[held]
  BY <1>1
<1>3. /\ cache'[t] = Pushed(cache[t], held)
      /\ \A u \in Tracks : u # t => cache'[u] = cache[u]
  BY <1>2 DEF Queue, TypeOK
<1>4. ASSUME NEW of \in Amounts
      PROVE  /\ Total(of, cache'[t]) <= Total(of, cache[t]) + Amount(of, held)
             /\ Total(of, cache'[t]) \in Nat /\ Total(of, cache[t]) \in Nat
             /\ Amount(of, held) \in Nat /\ Len(cache'[t]) <= MaxCount
  <2>1. cache[t] \in Queues /\ Len(cache[t]) <= MaxCount
    BY <1>1, Totals DEF CacheBounded
  <2> QED
    BY <1>1, <1>3, <2>1, PushedTotals, TotalType, AmountType
<1>5. CacheSize' <= CacheSize + Amount(Sizes, held)
  <2>1. Bytes(t)' <= Bytes(t) + Amount(Sizes, held) /\ Bytes(t)' \in Nat /\ Amount(Sizes, held) \in Nat
    BY <1>4, Limits DEF Bytes
  <2>2. \A u \in {Audio, Video} : u # t => Bytes(u)' = Bytes(u)
    BY <1>3 DEF Bytes
  <2>3. t = Audio \/ t = Video
    BY Limits
  <2> QED
    BY <2>1, <2>2, <2>3, Limits, Totals DEF CacheSize
<1>6. CacheSize' < MaxSize + Amount(Sizes, held)
  <2>1. CacheSize < MaxSize /\ CacheSize \in Nat /\ Amount(Sizes, held) \in Nat
    BY <1>1, <1>4, Limits, Totals DEF Spare
  <2>2. CacheSize' \in Int
    <3>1. \A u \in {Audio, Video} : Bytes(u)' \in Nat
      <4>1. ASSUME NEW u \in {Audio, Video} PROVE Bytes(u)' \in Nat
        <5>1. CASE u = t
          BY <1>4, <5>1, Limits DEF Bytes
        <5>2. CASE u # t
          BY <1>3, <4>1, <5>2, Totals DEF Bytes
        <5> QED
          BY <5>1, <5>2
      <4> QED
        BY <4>1
    <3> QED
      BY <3>1 DEF CacheSize
  <2> QED
    BY <1>0, <1>5, <2>1, <2>2
<1>7. ASSUME NEW u \in Tracks
      PROVE  PassedBy(Durations, Duration(u)', MaxDuration) /\ Len(cache'[u]) <= MaxCount
  <2>1. CASE u = t
    <3>1. /\ Duration(t)' <= Duration(t) + Amount(Durations, held)
          /\ Duration(t)' \in Nat /\ Amount(Durations, held) \in Nat
          /\ Duration(t) < MaxDuration /\ Duration(t) \in Nat /\ Len(cache'[t]) <= MaxCount
      BY <1>1, <1>4, Limits DEF Duration, Spare
    <3>2. Duration(t)' < MaxDuration + Amount(Durations, held)
      BY <1>0, <3>1
    <3> QED
      BY <1>1, <2>1, <3>1, <3>2 DEF PassedBy
  <2>2. CASE u # t
    <3>1. cache'[u] = cache[u] /\ Duration(u)' = Duration(u)
      BY <1>3, <2>2 DEF Duration
    <3> QED
      BY <1>1, <3>1 DEF CacheBounded
  <2> QED
    BY <2>1, <2>2
<1>8. CacheBounded'
  BY <1>1, <1>6, <1>7 DEF CacheBounded, PassedBy
<1> QED
  BY <1>1, <1>8 DEF BoundInv

(* The packets that stand for the end have no size and no duration.        *)
LEMMA BoundNull ==
  ASSUME TypeOK, BoundInv, QueueNull
  PROVE  BoundInv'
<1>1. ASSUME NEW t \in Tracks, NEW of \in Amounts
      PROVE  Total(of, cache'[t]) = Total(of, cache[t]) /\ Len(cache'[t]) <= MaxCount
  <2>1. cache[t] \in Queues /\ cache'[t] = Pushed(cache[t], Null) /\ Len(cache[t]) <= MaxCount
    BY Totals DEF BoundInv, CacheBounded, QueueNull
  <2>2. Total(of, Append(cache[t], Null)) = Total(of, cache[t]) + 0 /\ Total(of, cache[t]) \in Nat
    BY <2>1, TotalAppend, TotalType DEF Amount
  <2>3. Len(cache'[t]) <= MaxCount
    BY <2>1, PushedTotals
  <2> QED
    BY <2>1, <2>2, <2>3 DEF Pushed
<1>2. \A t \in Tracks : Duration(t)' = Duration(t)
  BY <1>1, Limits DEF Duration
<1>3. CacheSize' = CacheSize
  BY <1>1, Limits DEF CacheSize, Bytes
<1>4. CacheBounded'
  BY <1>1, <1>2, <1>3, Limits DEF BoundInv, CacheBounded, PassedBy
<1>5. tpc' = "top"
  BY DEF QueueNull, GoTo
<1> QED
  BY <1>4, <1>5 DEF BoundInv

(* The caches are the same, and the thread has not just looked.            *)
LEMMA BoundAlone ==
  ASSUME BoundInv, cache' = cache,
         tpc' \in {"read", "queue"} => tpc \in {"read", "queue"} \/ Spare
  PROVE  BoundInv'
<1>1. CacheBounded' <=> CacheBounded
  BY DEF CacheBounded, CacheSize, Bytes, Duration
<1>2. Spare' <=> Spare
  BY DEF Spare, CacheSize, Bytes, Duration
<1> QED
  BY <1>1, <1>2 DEF BoundInv

LEMMA BoundStep ==
  ASSUME TypeOK, HeldInv, BoundInv, [Next]_vars
  PROVE  BoundInv'
<1>1. CASE PlayerCall \/ PlayerStep
  <2>1. CASE Prepare
    BY <2>1, BoundAlone DEF Prepare
  <2>2. CASE Start \/ Pause \/ Complete \/ Stop \/ \E x \in Targets : Seek(x)
    BY <2>2, BoundAlone DEF Start, Pause, Complete, Stop, Seek, DemuxerAlone
  <2>3. CASE Reset
    BY <2>3, FlushShrunk, BoundShrunk DEF Reset
  <2>4. CASE OnFlush
    BY <2>4, FlushShrunk, BoundShrunk DEF OnFlush, DemuxerAlone
  <2>5. CASE SeekNeed \/ SeekTarget \/ SeekState \/ SeekStart \/ SeekComplete \/ Interrupt
    BY <2>5, BoundAlone
    DEF SeekNeed, SeekTarget, SeekState, SeekStart, SeekComplete, Interrupt, DemuxerAlone
  <2>6. CASE Join
    BY <2>6, FlushShrunk, BoundShrunk DEF Join
  <2> QED
    BY <1>1, <2>1, <2>2, <2>3, <2>4, <2>5, <2>6 DEF PlayerCall, PlayerStep
<1>2. CASE ThreadStep
  <2>1. CASE Born \/ SetLoop \/ Top
    BY <2>1, BoundAlone DEF Born, SetLoop, Top, GoTo
  <2>2. CASE TakeSeek \/ SeekStream \/ SeekDone \/ SeekStarted
    BY <2>2, BoundAlone DEF TakeSeek, SeekStream, SeekDone, SeekStarted, GoTo
  <2>3. CASE SeekFlush
    BY <2>3, FlushShrunk, BoundShrunk DEF SeekFlush, GoTo
  <2>4. CASE Fetch
    <3>1. cache' = cache /\ (tpc' = "read" => ~Full) /\ tpc' \in {"top", "read"}
      BY <2>4 DEF Fetch, GoTo
    <3>2. MaxSize \in Nat /\ MaxDuration \in Nat
      OBVIOUS
    <3>3. ~Full => Spare
      BY <3>2, Totals DEF Full, Spare
    <3> QED
      BY <3>1, <3>3, BoundAlone
  <2>5. CASE ReadError \/ ReadEnd \/ ReadPacket
    BY <2>5, BoundAlone DEF ReadError, ReadEnd, ReadPacket, At, GoTo
  <2>6. CASE Queue
    BY <2>6, BoundQueued
  <2>7. CASE QueueNull
    BY <2>7, BoundNull
  <2> QED
    BY <1>2, <2>1, <2>2, <2>3, <2>4, <2>5, <2>6, <2>7 DEF ThreadStep
<1>3. CASE DeliverStep
  <2>1. CASE Pull \/ PullState \/ PullNull
    BY <2>1, BoundAlone DEF Pull, PullState, PullNull, DeliverOnly
  <2>2. CASE PullTake
    BY <2>2, PullShrunk, BoundShrunk DEF PullTake, DeliverOnly
  <2> QED
    BY <1>3, <2>1, <2>2 DEF DeliverStep
<1>4. CASE UNCHANGED vars
  BY <1>4, BoundAlone DEF vars
<1> QED
  BY <1>1, <1>2, <1>3, <1>4 DEF Next

LEMMA InitBound == Init => BoundInv
<1> SUFFICES ASSUME Init PROVE BoundInv
  OBVIOUS
<1>1. \A t \in Tracks : cache[t] = << >> /\ Len(cache[t]) = 0
  BY DEF Init
<1>2. CacheSize = 0 /\ \A t \in Tracks : Duration(t) = 0
  BY <1>1, TotalEmpty DEF CacheSize, Bytes, Duration
<1>3. MaxSize \in Nat \ {0} /\ MaxDuration \in Nat \ {0} /\ MaxCount \in Nat
  OBVIOUS
<1>4. \A of, max : max \in Nat \ {0} => PassedBy(of, 0, max)
  BY DEF PassedBy, Amount
<1> QED
  BY <1>1, <1>2, <1>3, <1>4 DEF Init, BoundInv, CacheBounded

(* The caches pass their limits of size and duration by less than one      *)
(* packet, and the one of count not at all, although fullness is tested    *)
(* before a packet is read and the lock is taken only to queue it: no      *)
(* other thread adds a packet (dequeueUnusedPacket(), queuePacket()).      *)
THEOREM CachesBounded == Spec => []CacheBounded
<1>1. Init => Inv /\ BoundInv
  BY InitInv, InitBound
<1>2. Inv /\ BoundInv /\ [Next]_vars => (Inv /\ BoundInv)'
  BY InvStep, BoundStep DEF Inv
<1>3. BoundInv => CacheBounded
  BY DEF BoundInv
<1> QED
  BY <1>1, <1>2, <1>3, PTL DEF Spec

(* Both: the packets are those between the puller and the reader that      *)
(* found room, and not too many (runTask() and RTPktSourceLocal).          *)
THEOREM CachesKept == Spec => []CacheKept
  BY PacketsInOrder, CachesBounded, PTL DEF CacheKept
-----------------------------------------------------------------------------
(* When no packet finds the deque full.                                    *)

(* As many packets as the deque holds last as long as a cache may.         *)
LongEnough == \A p \in Positions : Durations[p] * MaxCount >= MaxDuration

(* As many times the duration of a queue is as many times its length.      *)
LEMMA LongQueue ==
  ASSUME LongEnough, NEW q \in Queues, \A i \in 1..Len(q) : q[i] # Null
  PROVE  Total(Durations, q) * MaxCount >= Len(q) * MaxDuration
<1> DEFINE f == UpTo(Durations, q)
           Off == {n \in 0..Len(q) : ~(f[n] * MaxCount >= n * MaxDuration)}
<1>0. MaxDuration \in Nat /\ MaxCount \in Nat
  OBVIOUS
<1>1. /\ f[0] = 0 /\ Len(q) \in Nat
      /\ \A n \in 1..Len(q) : f[n] = f[n - 1] + Amount(Durations, q[n])
  BY UpToStep
<1>2. ASSUME NEW n \in 1..Len(q)
      PROVE  /\ Amount(Durations, q[n]) \in Nat
             /\ Amount(Durations, q[n]) * MaxCount >= MaxDuration
  <2>1. q[n] \in Positions /\ q[n] \in {Null} \cup Positions
    BY <1>1 DEF Queues
  <2>2. Amount(Durations, q[n]) = Durations[q[n]]
    BY DEF Amount
  <2> QED
    BY <2>1, <2>2, Limits, AmountType DEF LongEnough
<1>3. \A n \in 0..Len(q) : f[n] \in Nat
  BY Limits, TotalType
<1> HIDE DEF f
<1>4. Off = {}
  <2> SUFFICES ASSUME Off # {} PROVE FALSE
    OBVIOUS
  <2>1. Off \in SUBSET (0..Len(q)) /\ 0 \notin Off
    BY <1>0, <1>1
  <2>2. PICK n \in Off : n \in 1..Len(q) /\ n - 1 \in 0..Len(q) /\ n - 1 \notin Off
    BY <1>1, <2>1, FewestOff
  <2>3. f[n - 1] * MaxCount >= (n - 1) * MaxDuration
    BY <2>2
  <2>4. PICK a \in Nat : a = f[n - 1]
    BY <1>3, <2>2
  <2>5. PICK b \in Nat : b = Amount(Durations, q[n])
    BY <1>2, <2>2
  <2>6. PICK m \in Nat : m = n - 1
    BY <2>2
  <2>7. f[n] = a + b /\ n = m + 1 /\ a * MaxCount >= m * MaxDuration /\ b * MaxCount >= MaxDuration
    BY <1>1, <1>2, <2>2, <2>3, <2>4, <2>5, <2>6
  <2>8. /\ (a + b) * MaxCount = a * MaxCount + b * MaxCount
        /\ (m + 1) * MaxDuration = m * MaxDuration + MaxDuration
    BY <1>0, Z3
  <2>9. /\ a * MaxCount \in Nat /\ b * MaxCount \in Nat /\ m * MaxDuration \in Nat
    BY <1>0
  <2>10. (a + b) * MaxCount >= (m + 1) * MaxDuration
    BY <1>0, <2>7, <2>8, <2>9
  <2> QED
    BY <2>2, <2>7, <2>10
<1>5. Len(q) \in 0..Len(q)
  BY <1>1
<1> QED
  BY <1>4, <1>5, TotalIs DEF f

(* A cache whose duration is short has room.                               *)
LEMMA LongIsFull ==
  ASSUME LongEnough, TypeOK, NoNull, NEW t \in Tracks, ~(Duration(t) >= MaxDuration)
  PROVE  HasRoom(cache[t])
<1> SUFFICES ASSUME ~(Len(cache[t]) < MaxCount) PROVE FALSE
  BY DEF HasRoom
<1>1. cache[t] \in Queues /\ Len(cache[t]) \in Nat /\ Duration(t) \in Nat
  BY Totals DEF Queues
<1>2. \A i \in 1..Len(cache[t]) : cache[t][i] # Null
  BY <1>1 DEF NoNull, Queues
<1>3. Duration(t) * MaxCount >= Len(cache[t]) * MaxDuration
  BY <1>1, <1>2, LongQueue DEF Duration
<1>4. MaxCount \in Nat \ {0} /\ MaxDuration \in Nat \ {0}
  OBVIOUS
<1>5. PICK d \in Nat : d = Duration(t)
  BY <1>1
<1>6. PICK n \in Nat : n = Len(cache[t])
  BY <1>1
<1>7. d * MaxCount >= n * MaxDuration /\ d + 1 <= MaxDuration /\ MaxCount <= n
  BY <1>1, <1>3, <1>4, <1>5, <1>6
<1>8. (d + 1) * MaxCount <= MaxDuration * MaxCount
  BY <1>4, <1>7, Z3
<1>9. MaxCount * MaxDuration <= n * MaxDuration
  BY <1>4, <1>7, Z3
<1>10. (d + 1) * MaxCount = d * MaxCount + MaxCount /\ MaxDuration * MaxCount = MaxCount * MaxDuration
  BY <1>4, Z3
<1>11. d * MaxCount \in Nat /\ n * MaxDuration \in Nat /\ MaxDuration * MaxCount \in Nat
  BY <1>4
<1> QED
  BY <1>4, <1>7, <1>8, <1>9, <1>10, <1>11

LEMMA ShrunkRoom ==
  ASSUME TypeOK, Shrunk
  PROVE  (NoNull => NoNull') /\ (Room => Room')
<1>1. ASSUME NEW t \in Tracks
      PROVE  /\ Len(cache'[t]) <= Len(cache[t]) /\ Len(cache'[t]) \in Nat
             /\ \A i \in DOMAIN cache'[t] :
                   \E j \in DOMAIN cache[t] : cache'[t][i] = cache[t][j]
  <2>1. cache[t] \in Seq({Null} \cup Positions)
    BY DEF TypeOK
  <2>2. CASE cache'[t] = cache[t]
    BY <2>1, <2>2
  <2>3. CASE cache'[t] = << >>
    BY <2>1, <2>3
  <2>4. CASE cache[t] # << >> /\ cache'[t] = Tail(cache[t])
    <3>1. Len(Tail(cache[t])) = Len(cache[t]) - 1 /\ Len(cache[t]) \in Nat \ {0}
      BY <2>1, <2>4
    <3>2. \A i \in DOMAIN Tail(cache[t]) :
             i + 1 \in DOMAIN cache[t] /\ Tail(cache[t])[i] = cache[t][i + 1]
      BY <2>1, <2>4
    <3> QED
      BY <2>4, <3>1, <3>2
  <2> QED
    BY <2>2, <2>3, <2>4 DEF Shrunk
<1>2. NoNull => NoNull'
  BY <1>1 DEF NoNull
<1>3. ASSUME Room, NEW t \in Tracks PROVE HasRoom(cache'[t])
  <2>1. Len(cache[t]) < MaxCount /\ Len(cache[t]) \in Nat /\ MaxCount \in Nat
    BY <1>3 DEF Room, HasRoom, TypeOK
  <2> QED
    BY <1>1, <2>1 DEF HasRoom
<1> QED
  BY <1>2, <1>3 DEF Room

LEMMA RoomShrunk ==
  ASSUME TypeOK, RoomInv, Shrunk, UNCHANGED <<next, errs, tpc>>
  PROVE  RoomInv'
  BY ShrunkRoom DEF RoomInv, AtEnd

(* A step of the thread that neither reads nor queues.                     *)
LEMMA RoomElsewhere ==
  ASSUME RoomInv, UNCHANGED <<cache, next, errs>>, tpc # "seekflush",
         tpc' \notin {"null", "read", "queue"}
  PROVE  RoomInv'
  BY DEF RoomInv, NoNull, AtEnd

LEMMA RoomStep ==
  ASSUME LongEnough, Inv, CacheInv, RoomInv, [Next]_vars
  PROVE  RoomInv'
<1>0. TypeOK /\ HeldInv /\ ControlInv /\ RoomInv /\ CacheInv
  BY DEF Inv
<1>1. ASSUME Prepare PROVE RoomInv'
  <2>1. /\ phase \in Quiet /\ tpc' = "born"
        /\ cache' = cache
    BY <1>1 DEF Prepare, Command, CanCall, Quiet
  <2>2. NoNull'
    BY <1>0, <2>1 DEF CacheInv, QuietInv, NoNull
  <2> QED
    BY <2>1, <2>2 DEF RoomInv
<1>2. ASSUME Start PROVE RoomInv'
  BY <1>0, <1>2, RoomShrunk DEF Start, Command, DemuxerAlone, Shrunk
<1>3. ASSUME Pause PROVE RoomInv'
  BY <1>0, <1>3, RoomShrunk DEF Pause, Command, DemuxerAlone, Shrunk
<1>4. ASSUME Complete PROVE RoomInv'
  BY <1>0, <1>4, RoomShrunk DEF Complete, Command, DemuxerAlone, Shrunk
<1>5. ASSUME Stop PROVE RoomInv'
  BY <1>0, <1>5, RoomShrunk DEF Stop, Command, DemuxerAlone, Shrunk
<1>6. ASSUME Reset PROVE RoomInv'
  BY <1>0, <1>6, FlushShrunk, RoomShrunk DEF Reset
<1>7. ASSUME NEW x \in Targets, Seek(x) PROVE RoomInv'
  BY <1>0, <1>7, RoomShrunk DEF Seek, Command, DemuxerAlone, Shrunk
<1>8. ASSUME OnFlush PROVE RoomInv'
  BY <1>0, <1>8, FlushShrunk, RoomShrunk DEF OnFlush, DemuxerAlone
<1>9. ASSUME SeekNeed PROVE RoomInv'
  BY <1>0, <1>9, RoomShrunk DEF SeekNeed, Command, DemuxerAlone, Shrunk
<1>10. ASSUME SeekTarget PROVE RoomInv'
  BY <1>0, <1>10, RoomShrunk DEF SeekTarget, Command, DemuxerAlone, Shrunk
<1>11. ASSUME SeekState PROVE RoomInv'
  BY <1>0, <1>11, RoomShrunk DEF SeekState, Command, DemuxerAlone, Shrunk
<1>12. ASSUME SeekStart PROVE RoomInv'
  BY <1>0, <1>12, RoomShrunk DEF SeekStart, Command, DemuxerAlone, Shrunk
<1>13. ASSUME SeekComplete PROVE RoomInv'
  BY <1>0, <1>13, RoomShrunk DEF SeekComplete, Command, DemuxerAlone, Shrunk
<1>14. ASSUME Interrupt PROVE RoomInv'
  BY <1>0, <1>14, RoomShrunk DEF Interrupt, Command, DemuxerAlone, Shrunk
<1>15. ASSUME Join PROVE RoomInv'
  <2>1. NoNull' /\ tpc' = "none"
    BY <1>0, <1>15, FlushShrunk DEF Join
  <2> QED
    BY <2>1 DEF RoomInv
<1>16. ASSUME Born PROVE RoomInv'
  BY <1>0, <1>16, RoomElsewhere DEF Born, At, GoTo, streamVars, ghosts
<1>17. ASSUME SetLoop PROVE RoomInv'
  BY <1>0, <1>17, RoomElsewhere DEF SetLoop, At, GoTo, streamVars, ghosts
<1>18. ASSUME Top PROVE RoomInv'
  BY <1>0, <1>18, RoomElsewhere DEF Top, At, GoTo, streamVars, ghosts
<1>19. ASSUME TakeSeek PROVE RoomInv'
  BY <1>0, <1>19, RoomElsewhere DEF TakeSeek, At, GoTo, streamVars, ghosts
<1>20. ASSUME SeekStream PROVE RoomInv'
  BY <1>20 DEF RoomInv, SeekStream, GoTo
<1>21. ASSUME SeekFlush PROVE RoomInv'
  <2>1. NoNull' /\ tpc' = "seekdone"
    BY <1>0, <1>21, FlushShrunk DEF SeekFlush, GoTo
  <2> QED
    BY <2>1 DEF RoomInv
<1>22. ASSUME SeekDone PROVE RoomInv'
  BY <1>0, <1>22, RoomElsewhere DEF SeekDone, At, GoTo, streamVars, ghosts
<1>23. ASSUME SeekStarted PROVE RoomInv'
  BY <1>0, <1>23, RoomElsewhere DEF SeekStarted, At, GoTo, streamVars, ghosts
<1>24. ASSUME Fetch PROVE RoomInv'
  <2>1. UNCHANGED <<cache, next, errs>> /\ tpc = "fetch" /\ tpc' \in {"top", "read"}
    BY <1>24 DEF Fetch, At, GoTo, streamVars
  <2>2. CASE tpc' = "top"
    BY <1>0, <2>1, <2>2, RoomElsewhere
  <2>3. CASE tpc' = "read"
    <3>1. ~Full
      BY <1>24, <2>3 DEF Fetch, GoTo
    <3>2. \A t \in Tracks : ~(Duration(t) >= MaxDuration)
      BY <3>1 DEF Full
    <3>3. ASSUME NoNull, NEW t \in Tracks PROVE HasRoom(cache[t])
      BY <1>0, <3>2, <3>3, LongIsFull
    <3>4. AtEnd \/ Room
      BY <1>0, <2>1, <3>3 DEF RoomInv, Room
    <3>5. (AtEnd \/ Room)' /\ (NoNull \/ AtEnd)'
      BY <1>0, <2>1, <3>4 DEF RoomInv, AtEnd, Room, NoNull
    <3> QED
      BY <2>3, <3>5 DEF RoomInv
  <2> QED
    BY <2>1, <2>2, <2>3
<1>25. ASSUME ReadError PROVE RoomInv'
  <2>1. cache' = cache /\ next' = next /\ errs' = errs + 1 /\ tpc = "read" /\ tpc' = "top"
    BY <1>25 DEF ReadError, At, GoTo
  <2>2. AtEnd => AtEnd'
    BY <1>0, <2>1 DEF AtEnd, TypeOK
  <2> QED
    BY <1>0, <2>1, <2>2 DEF RoomInv, NoNull
<1>26. ASSUME ReadEnd PROVE RoomInv'
  <2>1. /\ cache' = cache /\ errs' = errs /\ tpc = "read" /\ tpc' = "null"
        /\ next' \in {next, next + 1} /\ AtEnd
    BY <1>26 DEF ReadEnd, At, GoTo, AtEnd
  <2>2. AtEnd'
    BY <1>0, <2>1 DEF AtEnd, TypeOK
  <2> QED
    BY <2>1, <2>2 DEF RoomInv
<1>27. ASSUME ReadPacket PROVE RoomInv'
  <2>1. /\ cache' = cache /\ errs' = 0 /\ tpc = "read" /\ tpc' = "queue"
        /\ next <= Len(Stream) /\ errs <= ErrLimit
    BY <1>27 DEF ReadPacket, At, GoTo
  <2>2. ~AtEnd
    BY <1>0, <2>1 DEF AtEnd, TypeOK
  <2>3. Room
    BY <1>0, <2>1, <2>2 DEF RoomInv
  <2>4. Room' /\ NoNull'
    BY <2>1, <2>3 DEF Room, NoNull
  <2> QED
    BY <2>1, <2>4 DEF RoomInv
<1>28. ASSUME Queue PROVE RoomInv'
  <2>1. NoNull /\ tpc' = "top" /\ held \in Positions /\ cache \in [Tracks -> Seq({Null} \cup Positions)]
    BY <1>0, <1>28 DEF RoomInv, Room, Queue, At, GoTo, HeldInv, TypeOK
  <2>2. ASSUME NEW t \in Tracks, NEW i \in DOMAIN cache'[t] PROVE cache'[t][i] # Null
    <3>1. cache'[t] = cache[t] \/ cache'[t] = Append(cache[t], held)
      BY <1>28, <2>1 DEF Queue, Pushed
    <3>2. cache[t] \in Seq({Null} \cup Positions) /\ held # Null /\ held \in {Null} \cup Positions
      BY <2>1 DEF Null, Positions
    <3>3. CASE cache'[t] = cache[t]
      BY <2>1, <3>3 DEF NoNull
    <3>4. CASE cache'[t] = Append(cache[t], held)
      <4>1. CASE i = Len(cache[t]) + 1
        BY <3>2, <3>4, <4>1
      <4>2. CASE i # Len(cache[t]) + 1
        <5>1. i \in DOMAIN cache[t] /\ cache'[t][i] = cache[t][i]
          BY <3>2, <3>4, <4>2
        <5> QED
          BY <2>1, <5>1 DEF NoNull
      <4> QED
        BY <4>1, <4>2
    <3> QED
      BY <3>1, <3>3, <3>4
  <2> QED
    BY <2>1, <2>2 DEF RoomInv, NoNull
<1>29. ASSUME QueueNull PROVE RoomInv'
  <2>1. AtEnd /\ tpc' = "top" /\ UNCHANGED <<next, errs>>
    BY <1>0, <1>29 DEF RoomInv, QueueNull, At, GoTo, streamVars
  <2> QED
    BY <2>1 DEF RoomInv, AtEnd
<1>30. ASSUME Pull PROVE RoomInv'
  BY <1>0, <1>30, RoomShrunk DEF Pull, DeliverOnly, streamVars, Shrunk
<1>31. ASSUME PullState PROVE RoomInv'
  BY <1>0, <1>31, RoomShrunk DEF PullState, DeliverOnly, streamVars, Shrunk
<1>32. ASSUME PullTake PROVE RoomInv'
  BY <1>0, <1>32, PullShrunk, RoomShrunk DEF PullTake, DeliverOnly, streamVars
<1>33. ASSUME PullNull PROVE RoomInv'
  BY <1>0, <1>33, RoomShrunk DEF PullNull, DeliverOnly, streamVars, Shrunk
<1>34. ASSUME UNCHANGED vars PROVE RoomInv'
  BY <1>0, <1>34, RoomShrunk DEF vars, Shrunk
<1> QED
  BY <1>1, <1>2, <1>3, <1>4, <1>5, <1>6, <1>7, <1>8, <1>9, <1>10, <1>11, <1>12, <1>13,
     <1>14, <1>15, <1>16, <1>17, <1>18, <1>19, <1>20, <1>21, <1>22, <1>23, <1>24,
     <1>25, <1>26, <1>27, <1>28, <1>29, <1>30, <1>31, <1>32, <1>33, <1>34
  DEF Next, PlayerCall, PlayerStep, ThreadStep, DeliverStep

(* What a full deque has refused is at most the end.                       *)
NoneMissed == \A t \in Tracks : missed[t] \subseteq {Null}

LEMMA NoneMissedStep ==
  ASSUME Inv, RoomInv, NoneMissed, [Next]_vars
  PROVE  NoneMissed'
<1>0. TypeOK /\ HeldInv /\ RoomInv
  BY DEF Inv
<1>1. CASE missed' = missed
  BY <1>1 DEF NoneMissed
<1>2. CASE Flush
  BY <1>2 DEF Flush, NoneMissed
<1>3. CASE Queue
  <2>1. Stream[held] \in Tracks /\ HasRoom(cache[Stream[held]])
    BY <1>0, <1>3 DEF Queue, At, HeldInv, RoomInv, Room, Positions
  <2>2. missed' = [missed EXCEPT ![Stream[held]] = @ \cup {}]
    BY <1>3, <2>1 DEF Queue, Refused
  <2> QED
    BY <1>0, <2>1, <2>2 DEF NoneMissed, TypeOK
<1>4. CASE QueueNull
  BY <1>4 DEF QueueNull, Refused, NoneMissed
<1>5. PlayerCall \/ PlayerStep => missed' = missed \/ Flush
  BY DEF PlayerCall, PlayerStep, Prepare, Start, Pause, Complete, Stop, Reset, Seek, OnFlush,
         SeekNeed, SeekTarget, SeekState, SeekStart, SeekComplete, Interrupt, Join, ghosts
<1>6. ThreadStep => missed' = missed \/ Flush \/ Queue \/ QueueNull
  BY DEF ThreadStep, Born, SetLoop, Top, TakeSeek, SeekStream, SeekFlush, SeekDone,
         SeekStarted, Fetch, ReadError, ReadEnd, ReadPacket, ghosts
<1>7. DeliverStep => missed' = missed
  BY DEF DeliverStep, Pull, PullState, PullTake, PullNull, DeliverOnly
<1>8. UNCHANGED vars => missed' = missed
  BY DEF vars
<1> QED
  BY <1>1, <1>2, <1>3, <1>4, <1>5, <1>6, <1>7, <1>8 DEF Next

LEMMA InitRoom == Init => RoomInv /\ NoneMissed
<1> SUFFICES ASSUME Init PROVE RoomInv /\ NoneMissed
  OBVIOUS
<1>1. NoNull /\ tpc = "none" /\ \A t \in Tracks : missed[t] = {}
  BY DEF Init, NoNull
<1> QED
  BY <1>1 DEF RoomInv, NoneMissed

(* Where packets last so long that a cache is full by its duration before  *)
(* the deque is by their number, no packet finds the deque full: the cases *)
(* in which queuePacket() drops one are those of short packets only.       *)
THEOREM LongPacketsKept == LongEnough /\ Spec => []NoneMissed
<1> SUFFICES ASSUME LongEnough PROVE Spec => []NoneMissed
  OBVIOUS
<1> DEFINE I == Inv /\ CacheInv /\ RoomInv /\ NoneMissed
<1>1. Init => I
  BY InitInv, InitCache, InitRoom
<1>2. I /\ [Next]_vars => I'
  BY InvStep, CacheStep, RoomStep, NoneMissedStep
<1>3. I => NoneMissed
  OBVIOUS
<1> HIDE DEF I
<1> QED
  BY <1>1, <1>2, <1>3, PTL DEF Spec
=============================================================================
