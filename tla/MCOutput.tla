------------------------------- MODULE MCOutput -------------------------------
(* Small instances of the outputs for TLC: the ALSA sink, the volume and   *)
(* the window sink; and of the task pool.  They share nothing: a run is    *)
(* about one of them, its part.                                            *)
EXTENDS AudioSink, AudioVolume, WindowSink, TaskPool

VARIABLE part

outputVars == <<part, vars, volumeVars, windowVars, poolVars>>

(* The volume that a run about another part starts with is one of them.    *)
OutputInit ==
    /\ part \in {"audio", "volume", "window", "tasks"}
    /\ Init /\ VolumeInit /\ WindowInit /\ PoolInit
    /\ part # "volume" => control = [c \in Channels |-> Least]

OutputNext ==
    /\ part' = part
    /\ \/ part = "audio" /\ Next /\ UNCHANGED <<volumeVars, windowVars, poolVars>>
       \/ part = "volume" /\ VolumeNext /\ UNCHANGED <<vars, windowVars, poolVars>>
       \/ part = "window" /\ WindowNext /\ UNCHANGED <<vars, volumeVars, poolVars>>
       \/ part = "tasks" /\ PoolNext /\ UNCHANGED <<vars, volumeVars, windowVars>>

(* The fairness is the ALSA sink's; what it speaks of is not enabled       *)
(* before that has taken a step.                                           *)
OutputSpec == OutputInit /\ [][OutputNext]_outputVars /\ Fairness

(* The window sink and the task pool with their own fairness.              *)
LiveSpec ==
    /\ OutputInit /\ part \in {"window", "tasks"} /\ [][OutputNext]_outputVars
    /\ PoolFairness /\ WF_windowVars(CallGoesOn) /\ WF_windowVars(Compose)
=============================================================================
