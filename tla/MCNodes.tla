------------------------------- MODULE MCNodes -------------------------------
(* Small instances for TLC of what stands behind the nodes: the ports of   *)
(* the codec nodes, the bus that builds the nodes, and the tracks of a     *)
(* file.  A run is about one of them, its part; the others do not step.    *)
EXTENDS CodecPorts

CONSTANTS
    NULL, Sessions, OS_WINDOWS,
    MaxStreams, Kinds, MaxReads, MaxOpens, NoPts, Starts, Units

VARIABLES
    part,
    state, session, tracks, heap, twice, failed, mRootNodes, links, mNodeBus, mDemuxer,
    mMeta, owned, reached, found,
    file, avfc, demuxer, mFormatCtx, mIndex, mNodeState, looping, mEosFlag,
    cache, reads, decoder, fed

busVars  == <<state, session, tracks, heap, twice, failed, mRootNodes, links, mNodeBus, mDemuxer,
              mMeta, owned, reached, found>>
fileVars == <<file, avfc, demuxer, mFormatCtx, mIndex, mNodeState, looping, mEosFlag,
              cache, reads, decoder, fed>>

(* Three streams: the second has no start time.                            *)
TheStarts == <<2, NoPts, 1>>
TheUnits  == <<1, 3, 2>>

B == INSTANCE NodeBus
T == INSTANCE Tracks WITH codec <- decoder

(* No node is the null pointer.                                            *)
ASSUME NodesAssumption == NULL \notin B!Objects /\ Sessions \in Nat

(* Nor is a decoder or a packet; the times of every stream are numbers.    *)
ASSUME TracksAssumption ==
    /\ NULL \notin T!Decoders \union Int
    /\ {MaxStreams, MaxOpens} \subseteq Nat
    /\ \A s \in 1..MaxStreams : Starts[s] \in Int \union {NoPts} /\ Units[s] \in Int

(* A part that the run is not about keeps one initial state.               *)
NodesInit ==
    /\ part \in {"ports", "bus", "tracks"}
    /\ Init /\ B!Init /\ T!Init
    /\ part # "ports" => kind = "ff"

NodesNext ==
    /\ part' = part
    /\ \/ part = "ports" /\ Next /\ UNCHANGED <<busVars, fileVars>>
       \/ part = "bus" /\ B!Next /\ UNCHANGED <<vars, fileVars>>
       \/ part = "tracks" /\ T!Next /\ UNCHANGED <<vars, busVars>>

NodesSpec == NodesInit /\ [][NodesNext]_<<part, vars, busVars, fileVars>>

(* The properties of the parts, where they are stated.                     *)
FreedOnce         == B!FreedOnce
CommandReachesAll == B!CommandReachesAll
TracksKept        == T!TracksKept
OwnTrackDecoded   == T!OwnTrackDecoded
=============================================================================
