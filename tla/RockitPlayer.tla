------------------------------ MODULE RockitPlayer ------------------------------
(***************************************************************************)
(* The C interface Rockit_*: one context with two media players, "local"   *)
(* for files and "pcm" for the data an application writes.  Two threads    *)
(* of the application call it: one plays, stops, pauses and seeks, one     *)
(* writes data; a file of PCM data has a reader thread of its own.  Every  *)
(* call sends commands to the looper of a player and waits for each.       *)
(*                                                                         *)
(* Assumed: the writer waits for the end event after it wrote an end, and  *)
(* leaves no gap of two seconds; writeData() finds a sink and pushes to    *)
(* it in one step (no lock keeps reset() from freeing the sink between);   *)
(* Rockit_ReleasePlayer() is called when no other thread uses the context; *)
(* the callback does not call the interface (the looper would wait for     *)
(* mDataLock, whose holder may wait for the looper).                       *)
(***************************************************************************)
EXTENDS Integers, Sequences, FiniteSets

CONSTANTS
    None,
    MaxCalls,    \* bound: calls of the control thread
    MaxWrites,   \* bound: calls of Rockit_WriteData
    Chunks       \* bound: pieces of a PCM file

ASSUME FacadeAssumption == None \notin {"control", "writer", "reader"} /\ Chunks \in Nat

Players == {"local", "pcm"}
Clients == {"control", "writer"}
Kind == [oem |-> "kit", http |-> "vlc"]   \* the event at the end of a url
Files == DOMAIN Kind
End == [of |-> "end"]

VARIABLES
    state,      \* mState of each player
    source,     \* the url a player plays: a file, or None
    sink,       \* what was pushed to the audio sink of a player, None: no sink
    mail,       \* the messages in the looper of a player
    context,    \* [select, protocol, stopFlag, url] of RockitContext
    holder,     \* the client or reader holding mDataLock, None if it is free
    job,        \* [fn, at, seen, todo] of a client
    readers,    \* the threads of Rockit_ReadData
    calls,      \* calls made by each client
    told,       \* whether every end was told to the application as what it was
    waiting,    \* the writer has written an end and was not told yet
    dropped     \* written data that no call of the control thread dropped

playerVars == <<state, source, sink, mail>>
facadeVars == <<playerVars, context, holder, job, readers, calls, told, waiting, dropped>>

Idle == [fn |-> [name |-> "none"], at |-> "idle", seen |-> "IDLE", todo |-> <<>>]
Cmd(p, what) == [player |-> p, what |-> what, file |-> None, from |-> None]
Source(p, f) == [player |-> p, what |-> "SOURCE", file |-> f, from |-> None]
Sent(c, cmd) == [player |-> cmd.player, what |-> cmd.what, file |-> cmd.file, from |-> c]

Rockit_CreatePlayer ==
    /\ state = [p \in Players |-> "IDLE"] /\ source = [p \in Players |-> None]
    /\ sink = [p \in Players |-> None] /\ mail = [p \in Players |-> <<>>]
    /\ context = [select |-> "local", protocol |-> "oem", stopFlag |-> TRUE, url |-> None]
    /\ holder = None /\ job = [c \in Clients |-> Idle] /\ readers = <<>>
    /\ calls = [c \in Clients |-> 0] /\ told = TRUE /\ waiting = FALSE /\ dropped = FALSE

-----------------------------------------------------------------------------
(* RTNDKMediaPlayer: every command is a message sent under mCmdLock, and   *)
(* the caller waits until the looper has handled it.                       *)
send(c) ==
    LET cmd == Head(job[c].todo)
        p == cmd.player
    IN  /\ job[c].at \in {"first", "second"} /\ job[c].todo # <<>>
        /\ ~\E i \in DOMAIN mail[p] : mail[p][i].what # "COMPLETE" /\ mail[p][i].what # "CALLBACK"
        /\ mail' = [mail EXCEPT ![p] = Append(@, Sent(c, cmd))]
        /\ job' = [job EXCEPT ![c].at = IF @ = "first" THEN "wait1" ELSE "wait2"]
        /\ UNCHANGED <<state, source, sink, context, holder, readers, calls, told, waiting, dropped>>

Handled(c) == job' = [job EXCEPT ![c].at = IF @ = "wait1" THEN "first" ELSE "second", ![c].todo = Tail(@)]

setDataSource(p, file) ==
    /\ IF state[p] = "IDLE" THEN /\ state' = [state EXCEPT ![p] = "INITIALIZED"]
                                 /\ source' = [source EXCEPT ![p] = file]
       ELSE UNCHANGED <<state, source>>
    /\ mail' = [mail EXCEPT ![p] = Tail(@)]
    /\ UNCHANGED <<sink, dropped>>

(* The sink is built with the codec; a file that is demuxed is abstracted  *)
(* to its end, which the sink plays as the last frame.                     *)
prepare(p) ==
    /\ state' = [state EXCEPT ![p] = IF @ \in {"INITIALIZED", "STOPPED"} THEN "PREPARED" ELSE @]
    /\ sink' = IF state[p] = "INITIALIZED"
               THEN [sink EXCEPT ![p] = IF source[p] = None THEN <<>> ELSE <<End>>] ELSE sink
    /\ mail' = [mail EXCEPT ![p] = Tail(@)]
    /\ UNCHANGED <<source, dropped>>

start(p) ==
    /\ state' = [state EXCEPT ![p] = IF @ \in {"PREPARED", "PAUSED", "COMPLETE"} THEN "STARTED" ELSE @]
    /\ mail' = [mail EXCEPT ![p] = Tail(@)]
    /\ UNCHANGED <<source, sink, dropped>>

pause(p) ==
    /\ state' = [state EXCEPT ![p] = IF @ = "STARTED" THEN "PAUSED" ELSE @]
    /\ mail' = [mail EXCEPT ![p] = Tail(@)]
    /\ UNCHANGED <<source, sink, dropped>>

(* A stop also flushes the looper: the events behind it are gone.          *)
Stoppable == {"PREPARED", "STARTED", "PAUSED", "COMPLETE"}
stop(p) ==
    /\ state' = [state EXCEPT ![p] = IF @ \in Stoppable THEN "STOPPED" ELSE @]
    /\ mail' = [mail EXCEPT ![p] = IF state[p] \in Stoppable THEN <<>> ELSE Tail(@)]
    /\ UNCHANGED <<source, sink, dropped>>

reset(p, from) ==
    /\ mail' = [mail EXCEPT ![p] = IF state[p] \in Stoppable THEN <<>> ELSE Tail(@)]
    /\ IF state[p] = "IDLE" THEN UNCHANGED <<state, source, sink, dropped>>
       ELSE /\ state' = [state EXCEPT ![p] = "IDLE"]
            /\ source' = [source EXCEPT ![p] = None]
            /\ sink' = [sink EXCEPT ![p] = None]
            /\ dropped' = (dropped \/ (p = "pcm" /\ from = "writer" /\ sink[p] \notin {None, <<>>}))

onCmdReceived(p) ==
    LET m == Head(mail[p])
    IN  /\ mail[p] # <<>> /\ m.what \notin {"COMPLETE", "CALLBACK"}
        /\ \/ m.what = "SOURCE" /\ setDataSource(p, m.file)
           \/ m.what = "PREPARE" /\ prepare(p)
           \/ m.what = "START" /\ start(p)
           \/ m.what = "PAUSE" /\ pause(p)
           \/ m.what = "STOP" /\ stop(p)
           \/ m.what = "RESET" /\ reset(p, m.from)
           \/ m.what = "SEEK" /\ mail' = [mail EXCEPT ![p] = Tail(@)] /\ UNCHANGED <<state, source, sink, dropped>>
        /\ Handled(m.from)
        /\ UNCHANGED <<context, holder, readers, calls, told, waiting>>

(* Rockit_Callback: which end it was is told from the player and, without  *)
(* a lock, from the protocol of the context.                               *)
Rockit_Callback(p) ==
    /\ LET kind == IF p = "pcm" THEN "pcm" ELSE Kind[context.protocol]
           due == IF p = "pcm" THEN "pcm" ELSE IF source[p] = None THEN kind ELSE Kind[source[p]]
       IN  told' = (told /\ kind = due)
    /\ waiting' = (waiting /\ p # "pcm")

(* Mutant: the application is told before the state is set.                *)
ToldFirst(p) ==
    /\ mail[p] # <<>>
    /\ \/ /\ Head(mail[p]).what = "COMPLETE"
          /\ Rockit_Callback(p)
          /\ mail' = [mail EXCEPT ![p][1] = Cmd(p, "CALLBACK")] /\ UNCHANGED state
       \/ /\ Head(mail[p]).what = "CALLBACK"
          /\ state' = [state EXCEPT ![p] = "COMPLETE"]
          /\ mail' = [mail EXCEPT ![p] = Tail(@)] /\ UNCHANGED <<told, waiting>>
    /\ UNCHANGED <<source, sink, context, holder, job, readers, calls, dropped>>

(* The looper: the end of playback sets the state, then tells it.          *)
onEventReceived(p) ==
    /\ mail[p] # <<>>
    /\ \/ /\ Head(mail[p]).what = "COMPLETE"
          /\ state' = [state EXCEPT ![p] = "COMPLETE"]
          /\ mail' = [mail EXCEPT ![p][1] = Cmd(p, "CALLBACK")] /\ UNCHANGED <<told, waiting>>
       \/ /\ Head(mail[p]).what = "CALLBACK"
          /\ Rockit_Callback(p)
          /\ mail' = [mail EXCEPT ![p] = Tail(@)] /\ UNCHANGED state
    /\ UNCHANGED <<source, sink, context, holder, job, readers, calls, dropped>>

(* The sink's thread plays on until it is paused or stopped.               *)
Play(p) ==
    /\ state[p] \in {"STARTED", "COMPLETE"} /\ sink[p] \notin {None, <<>>}
    /\ sink' = [sink EXCEPT ![p] = Tail(@)]
    /\ mail' = IF Head(sink[p]) = End THEN [mail EXCEPT ![p] = Append(@, Cmd(p, "COMPLETE"))] ELSE mail
    /\ UNCHANGED <<state, source, context, holder, job, readers, calls, told, waiting, dropped>>

(* Data for a player without a sink is only logged.                        *)
writeData(p, data) == sink' = IF sink[p] = None THEN sink ELSE [sink EXCEPT ![p] = Append(@, data)]

-----------------------------------------------------------------------------
(* The commands of a call, first those decided before it looks at the      *)
(* states again, then the others.                                          *)
StopReset(p) == <<Cmd(p, "STOP"), Cmd(p, "RESET")>>
StopUnlessIdle(p) == IF state[p] = "IDLE" THEN <<>> ELSE StopReset(p)

First(fn, seen) ==
    CASE fn.name = "PlayAudio"  -> StopUnlessIdle("local")
      [] fn.name = "PlayerStop" -> StopUnlessIdle("local")
      [] fn.name = "WriteData"  -> IF seen = "COMPLETE" THEN StopReset("pcm") ELSE <<>>
      [] fn.name = "PlayerPause"  -> <<Cmd(context.select, "PAUSE")>>
      [] fn.name = "PlayerResume" -> <<Cmd(context.select, "START")>>
      [] fn.name = "PlayerPlay"   -> <<Cmd("local", "START")>>
      [] fn.name = "PlayerSeek"   -> <<Cmd("local", "SEEK")>>

Rockit_PlayAudio_PCM == <<Source("pcm", None), Cmd("pcm", "PREPARE"), Cmd("pcm", "START")>>
Rockit_PlayAudio(fn) ==
    <<Source("local", IF fn.pcm THEN None ELSE fn.file), Cmd("local", "PREPARE"), Cmd("local", "START")>>

Second(fn) ==
    CASE fn.name = "PlayAudio"  -> Rockit_PlayAudio(fn)
      [] fn.name = "PlayerStop" -> StopUnlessIdle("pcm")
      [] fn.name = "WriteData"  -> IF state["pcm"] = "IDLE" THEN Rockit_PlayAudio_PCM ELSE <<>>
      [] OTHER -> <<>>

(* What the call stores in the context once it knows its second commands.  *)
Chosen(fn) ==
    CASE fn.name = "PlayAudio" -> [context EXCEPT !.select = "local", !.protocol = fn.file]
      [] fn.name = "WriteData" /\ state["pcm"] = "IDLE" -> [context EXCEPT !.select = "pcm"]
      [] OTHER -> context

(* Before any lock: PlayAudio tells the readers to stop, and WriteData     *)
(* reads the state it decides by.                                          *)
Call(c, fn) ==
    /\ job[c] = Idle
    /\ LET seen == IF c = "writer" THEN state["pcm"] ELSE "IDLE"
       IN  job' = [job EXCEPT ![c] = [fn |-> fn, at |-> "lock", seen |-> seen, todo |-> <<>>]]
    /\ context' = IF fn.name = "PlayAudio" THEN [context EXCEPT !.stopFlag = TRUE] ELSE context
    /\ calls' = [calls EXCEPT ![c] = @ + 1]
    /\ UNCHANGED <<playerVars, holder, readers, told, waiting, dropped>>

(* Mutant: the protocol of the new url is stored before the old one ends.  *)
LockChooses(c) ==
    /\ job[c].at = "lock" /\ holder = None
    /\ holder' = c
    /\ job' = [job EXCEPT ![c].at = "first", ![c].seen = "IDLE", ![c].todo = First(job[c].fn, job[c].seen)]
    /\ context' = Chosen(job[c].fn)
    /\ UNCHANGED <<playerVars, readers, calls, told, waiting, dropped>>

Lock(c) ==
    /\ job[c].at = "lock" /\ holder = None
    /\ holder' = c
    /\ job' = [job EXCEPT ![c].at = "first", ![c].seen = "IDLE", ![c].todo = First(job[c].fn, job[c].seen)]
    /\ UNCHANGED <<playerVars, context, readers, calls, told, waiting, dropped>>

Go(c) ==
    /\ job[c].at = "first" /\ job[c].todo = <<>>
    /\ job' = [job EXCEPT ![c].at = "second", ![c].todo = Second(job[c].fn)]
    /\ context' = Chosen(job[c].fn)
    /\ UNCHANGED <<playerVars, holder, readers, calls, told, waiting, dropped>>

(* The lock is released; PlayAudio has started a reader for a PCM file.    *)
Done(c) ==
    /\ job[c].at = "second" /\ job[c].todo = <<>>
    /\ holder' = None
    /\ LET fn == job[c].fn
           reads == fn.name = "PlayAudio" /\ fn.pcm
       IN  /\ job' = [job EXCEPT ![c] = IF fn.name = "WriteData" THEN [@ EXCEPT !.at = "push"] ELSE Idle]
           /\ context' = IF reads THEN [context EXCEPT !.url = fn.file] ELSE context
           /\ readers' = IF reads THEN Append(readers, [at |-> "open", file |-> None, left |-> Chunks]) ELSE readers
    /\ UNCHANGED <<playerVars, calls, told, waiting, dropped>>

(* WriteData pushes under mPcmLock alone.                                  *)
Rockit_WriteData ==
    LET data == job["writer"].fn.data
    IN  /\ job["writer"].at = "push"
        /\ writeData("pcm", data)
        /\ context' = [context EXCEPT !.select = "pcm"]
        /\ waiting' = (data = End /\ sink["pcm"] # None)
        /\ job' = [job EXCEPT !["writer"] = Idle]
        /\ UNCHANGED <<state, source, mail, holder, readers, calls, told, dropped>>

Reads(r, at, file, left) == readers' = [readers EXCEPT ![r] = [at |-> at, file |-> file, left |-> left]]

(* Mutant: a reader that is told to stop leaves with the lock held.        *)
ReadDataBreaks(r) ==
    /\ readers[r].at = "lock" /\ holder = None
    /\ holder' = "reader" /\ Reads(r, IF context.stopFlag THEN "done" ELSE "write", readers[r].file, readers[r].left)
    /\ UNCHANGED <<playerVars, context, job, calls, told, waiting, dropped>>

ReadDataLocks(r) ==
    /\ readers[r].at = "lock" /\ holder = None
    /\ holder' = "reader" /\ Reads(r, "write", readers[r].file, readers[r].left)
    /\ UNCHANGED <<playerVars, context, job, calls, told, waiting, dropped>>

(* The reader of a PCM file: it lowers the flag that is to stop it when it *)
(* starts, tests it outside the lock, and writes the end without the lock. *)
Rockit_ReadData(r) ==
    LET me == readers[r]
    IN  /\ \/ /\ me.at = "open"
              /\ Reads(r, "test", context.url, me.left)
              /\ context' = [context EXCEPT !.stopFlag = FALSE] /\ UNCHANGED <<sink, holder>>
           \/ /\ me.at = "test" /\ me.left > 0 /\ ~context.stopFlag
              /\ Reads(r, "lock", me.file, me.left) /\ UNCHANGED <<sink, holder, context>>
           \/ /\ me.at = "write"
              /\ writeData("local", [of |-> me.file]) /\ holder' = None
              /\ Reads(r, "test", me.file, me.left - 1) /\ UNCHANGED context
           \/ /\ me.at = "test" /\ (me.left = 0 \/ context.stopFlag)
              /\ IF me.left = 0 /\ ~context.stopFlag THEN writeData("local", End) ELSE UNCHANGED sink
              /\ Reads(r, "done", None, 0)
              /\ UNCHANGED <<holder, context>>
        /\ UNCHANGED <<state, source, mail, job, calls, told, waiting, dropped>>

ControlCalls ==
    {[name |-> n] : n \in {"PlayerStop", "PlayerPause", "PlayerResume", "PlayerPlay", "PlayerSeek"}}
    \union {[name |-> "PlayAudio", file |-> f, pcm |-> FALSE] : f \in Files}
    \union {[name |-> "PlayAudio", file |-> "oem", pcm |-> TRUE]}   \* bound: PCM of one file

(* The patient writer of the assumptions.                                  *)
WriterCalls == IF waiting THEN {} ELSE {[name |-> "WriteData", data |-> d] : d \in {[of |-> "app"], End}}

Rockit_ReleasePlayer ==
    /\ job["control"] = Idle /\ job["writer"] = Idle
    /\ \A r \in DOMAIN readers : readers[r].at = "done"
    /\ calls["control"] = MaxCalls
    /\ job' = [c \in Clients |-> [Idle EXCEPT !.at = "released"]]
    /\ state' = [p \in Players |-> "IDLE"] /\ source' = [p \in Players |-> None]
    /\ sink' = [p \in Players |-> None] /\ mail' = [p \in Players |-> <<>>]
    /\ UNCHANGED <<context, holder, readers, calls, told, waiting, dropped>>

FacadeNext ==
    \/ calls["control"] < MaxCalls /\ \E fn \in ControlCalls : Call("control", fn)
    \/ calls["writer"] < MaxWrites /\ \E fn \in WriterCalls : Call("writer", fn)
    \/ \E c \in Clients : Lock(c) \/ send(c) \/ Go(c) \/ Done(c)
    \/ Rockit_WriteData
    \/ \E r \in DOMAIN readers : Rockit_ReadData(r) \/ ReadDataLocks(r)
    \/ \E p \in Players : onCmdReceived(p) \/ onEventReceived(p) \/ Play(p)
    \/ Rockit_ReleasePlayer

(* The threads of the program run on; only the application may do nothing. *)
Fairness ==
    /\ \A c \in Clients : SF_facadeVars(Lock(c)) /\ WF_facadeVars(send(c) \/ Go(c) \/ Done(c))
    /\ WF_facadeVars(Rockit_WriteData)
    /\ WF_facadeVars(\E r \in DOMAIN readers : Rockit_ReadData(r))
    /\ SF_facadeVars(\E r \in DOMAIN readers : ReadDataLocks(r))
    /\ \A p \in Players : WF_facadeVars(onCmdReceived(p) \/ onEventReceived(p))

FacadeSpec == Rockit_CreatePlayer /\ [][FacadeNext]_facadeVars /\ Fairness

-----------------------------------------------------------------------------
(* The end of a url is told as the end of that kind of url, although the   *)
(* callback reads the protocol without a lock while another url may be     *)
(* about to play.                                                          *)
EndKind == told

(* Data the application wrote is thrown away only by a call that stops     *)
(* playback, never because the next write finds the player complete and    *)
(* resets it.                                                              *)
WrittenIsPlayed == ~dropped

(* Every call comes back, whatever the other thread, the readers and the   *)
(* loopers do meanwhile.                                                   *)
CallsReturn == \A c \in Clients : job[c].at = "lock" ~> job[c].at \in {"idle", "released"}
=============================================================================
