-------------------------------- MODULE NodeBus --------------------------------
(***************************************************************************)
(* RTNodeBus: which nodes and which metadata exist, who deletes them, how  *)
(* the nodes hang in the chains of the bus, and which the bus still knows. *)
(* The player that calls the bus plays one source after the other.  An     *)
(* object is what was allocated, for which line and for which source.      *)
(***************************************************************************)
EXTENDS Integers, Sequences

CONSTANTS
    Sessions,    \* bound on the sources played
    OS_WINDOWS,  \* a window and an audio sink; else an audio sink only
    NULL

Media == {"video", "audio"}
Object(what, line, n) == [what |-> what, line |-> line, session |-> n]
Objects ==
    {Object(what, "root", n) : what \in {"demuxer", "uri"}, n \in 1..Sessions}
    \union {Object(what, line, n) : what \in {"decoder", "sink", "in", "out", "context", "app"},
                                   line \in Media, n \in 1..Sessions}

VARIABLES
    state,    \* of the player: "idle", "initialized", "prepared"
    session,  \* the source that is played
    tracks,   \* the media that the source has
    heap,     \* per object: "none", "live", "freed"
    twice,    \* the objects that were freed again
    failed,   \* the decoders whose init() failed
    mRootNodes, \* the heads of the chains
    links,    \* mNext and mPrev of the nodes
    mNodeBus, \* the nodes registered, the newest first
    mDemuxer,
    mMeta,    \* mVideoMeta and mAudioMeta
    owned,    \* what a node's release() deletes
    reached,  \* the nodes that the last command went to
    found     \* the node that findNode() returned last

vars == <<state, session, tracks, heap, twice, failed, mRootNodes, links, mNodeBus, mDemuxer,
          mMeta, owned, reached, found>>

Lines == {"root"} \union Media

(* The bus is built step by step: a step takes the world and returns the   *)
(* next one.                                                               *)
World == [heap |-> heap, twice |-> twice, failed |-> failed, root |-> mRootNodes, links |-> links,
          bus |-> mNodeBus, meta |-> mMeta, owned |-> owned]

Becomes(w) ==
    /\ heap' = w.heap /\ twice' = w.twice /\ failed' = w.failed /\ mRootNodes' = w.root
    /\ links' = w.links /\ mNodeBus' = w.bus /\ mMeta' = w.meta /\ owned' = w.owned

Obj(what, line) == Object(what, line, session)
New(w, o) == [w EXCEPT !.heap[o] = "live"]
DeleteAll(w, objs) ==
    [w EXCEPT !.twice = @ \union {o \in objs : w.heap[o] = "freed"},
              !.heap = [o \in Objects |-> IF o \in objs THEN "freed" ELSE w.heap[o]]]
Delete(w, o) == IF o = NULL THEN w ELSE DeleteAll(w, {o})

(* Mutant: the node is deleted, but not what it owns.                      *)
DeleteShallow(w, n) == Delete(w, n)

(* The destructor of a node calls its release().                           *)
DeleteNode(w, n) == DeleteAll(w, {n} \union w.owned[n])

-----------------------------------------------------------------------------
(* RTNodeBus(), and the nodes that the bus can create.                     *)

Init ==
    /\ state = "idle" /\ session = 1 /\ tracks = {}
    /\ heap = [o \in Objects |-> "none"] /\ twice = {} /\ failed = {}
    /\ mRootNodes = [l \in Lines |-> NULL]
    /\ links = [o \in Objects |-> [next |-> NULL, prev |-> NULL]]
    /\ mNodeBus = <<>> /\ mDemuxer = NULL
    /\ mMeta = [m \in Media |-> NULL]
    /\ owned = [o \in Objects |-> {}]
    /\ reached = <<>> /\ found = NULL

(* The stubs of the decoders in the order of their bucket: the one that    *)
(* was registered last is the first, and it plays both media.              *)
registerCoreStubs == <<[name |-> "ff_node_decoder", role |-> Media],
                       [name |-> "hw_node_mpi_decoder", role |-> {"video"}]>>

probeBusType(role, line) == line \in role

RTNodeBus_findStub(line) ==
    LET Fits(i) == probeBusType(registerCoreStubs[i].role, line)
        first == CHOOSE i \in DOMAIN registerCoreStubs : Fits(i) /\ \A j \in 1..(i - 1) : ~Fits(j)
    IN  registerCoreStubs[first].name

(* The function findStub(), for the sinks: Linux has none for video.       *)
findStub(line) == line = "audio" \/ OS_WINDOWS

registerNode(w, n) == [w EXCEPT !.bus = <<n>> \o @, !.links[n] = [next |-> NULL, prev |-> NULL]]

-----------------------------------------------------------------------------
(* Creation.                                                               *)

(* The demuxer owns the metadata of its source from the start.             *)
bus_find_and_add_demuxer(w, opens) ==
    LET n == Obj("demuxer", "root")
        made == [New(New(w, n), Obj("uri", "root")) EXCEPT !.owned[n] = {Obj("uri", "root")}]
    IN  IF opens THEN registerNode(made, n) ELSE DeleteNode(made, n)

(* The contexts of FFmpeg; a failure leaves none behind.                   *)
fa_video_decode_create(w, ok) == IF ok THEN New(w, Obj("context", "video")) ELSE w
fa_audio_decode_create(w, ok) == IF ok THEN New(w, Obj("context", "audio")) ELSE w

fa_decode_create(w, line, ok) ==
    IF line = "video" THEN fa_video_decode_create(w, ok) ELSE fa_audio_decode_create(w, ok)

(* FFNodeDecoder::init(): once the codec is open the decoder owns its      *)
(* metadata, the one it was given too, and keeps all of it when it finds   *)
(* no allocator there; a failure before leaves the metadata to the caller. *)
FFNodeDecoder_init(w, n, line, meta, init) ==
    LET made == fa_decode_create(w, line, init # "unopened")
        out == Obj("out", line)
    IN  IF init = "unopened" THEN made
        ELSE [New(made, out) EXCEPT !.owned[n] = {Obj("context", line), meta, out}]

(* How a decoder may come out: the metadata of a track names its codec and *)
(* the allocator; the application's may lack either.                       *)
Inits == {"opened", "unopened"} \union (IF mDemuxer = NULL THEN {"unnamed", "unallocated"} ELSE {})

(* What the decoder will be given: the demuxer's metadata of the track, or *)
(* what the application has registered, if it names a codec.               *)
findMetadata(w, line, init) ==
    IF mDemuxer # NULL THEN IF line \in tracks THEN Obj("in", line) ELSE NULL
    ELSE IF init = "unnamed" THEN NULL ELSE w.meta[line]

(* A decoder whose init() fails is deleted, and its metadata before it:    *)
(* the bus goes on to point to an application's, and the decoder's own     *)
(* release() may delete it again.                                          *)
bus_find_and_add_codec(w, line, init) ==
    LET n == Obj("decoder", line)
        meta == findMetadata(w, line, init)
        given == IF meta = NULL \/ mDemuxer = NULL THEN w ELSE New(w, meta)
        made == FFNodeDecoder_init(New(given, n), n, line, meta, init)
    IN  IF meta = NULL \/ RTNodeBus_findStub(line) # "ff_node_decoder" THEN w
        ELSE IF init = "opened" THEN registerNode(made, n)
        ELSE DeleteNode(Delete([made EXCEPT !.failed = @ \union {n}], meta), n)

(* A sink needs the output format of a decoder, or the application's       *)
(* metadata: without, it is neither registered nor deleted.  It reads a    *)
(* few numbers there, also where the metadata is freed already.            *)
bus_find_and_add_sink(w, line) ==
    LET n == Obj("sink", line)
        known == w.heap[Obj("decoder", line)] = "live" \/ w.meta[line] # NULL
    IN  IF ~findStub(line) THEN w
        ELSE IF known THEN registerNode(New(w, n), n) ELSE New(w, n)

(* The second node of a chain follows the first.                           *)
nodeChainAppend(w, n, line) ==
    LET root == w.root[line]
    IN  IF w.heap[n] # "live" THEN w
        ELSE IF root = NULL THEN [w EXCEPT !.root[line] = n, !.links[n] = [next |-> NULL, prev |-> NULL]]
        ELSE [w EXCEPT !.links[n] = [next |-> NULL, prev |-> root], !.links[root].next = n]

(* The demuxer of setDataSource(); an empty URI makes a player without     *)
(* one, that the application feeds.                                        *)
autoBuild ==
    /\ state = "idle" /\ session <= Sessions
    /\ UNCHANGED <<reached, found>>

OpenSource ==
    /\ autoBuild
    /\ \E opens \in BOOLEAN :
         LET w == bus_find_and_add_demuxer([World EXCEPT !.root["root"] = NULL], opens)
             n == Obj("demuxer", "root")
         IN  /\ Becomes([w EXCEPT !.root["root"] = IF opens THEN n ELSE NULL])
             /\ mDemuxer' = IF opens THEN n ELSE NULL
             /\ state' = IF opens THEN "initialized" ELSE "idle"
             /\ session' = IF opens THEN session ELSE session + 1
    /\ tracks' \in SUBSET Media

OpenWithoutSource ==
    /\ autoBuild
    /\ state' = "initialized"
    /\ tracks' = {}
    /\ UNCHANGED <<session, heap, twice, failed, mRootNodes, links, mNodeBus, mDemuxer, mMeta, owned>>

(* setCodecMeta() of an application that feeds the player.                 *)
registerMetadata(line) ==
    /\ state = "initialized" /\ mDemuxer = NULL /\ mMeta[line] = NULL
    /\ Becomes([New(World, Obj("app", line)) EXCEPT !.meta[line] = Obj("app", line)])
    /\ UNCHANGED <<state, session, tracks, mDemuxer, reached, found>>

AddCodec(w, line, init) ==
    LET n == Obj("decoder", line)
        added == bus_find_and_add_codec(w, line, init)
    IN  IF added.heap[n] # "live" THEN added
        ELSE nodeChainAppend([added EXCEPT !.meta[line] = NULL], n, line)

AddSink(w, line) == nodeChainAppend(bus_find_and_add_sink(w, line), Obj("sink", line), line)

(* prepare(): both decoders, then both sinks.                              *)
autoBuildCodecSink ==
    /\ state = "initialized"
    /\ \E inits \in [Media -> Inits] :
         LET coded == AddCodec(AddCodec(World, "video", inits["video"]), "audio", inits["audio"])
         IN  Becomes(AddSink(AddSink(coded, "video"), "audio"))
    /\ state' = "prepared"
    /\ UNCHANGED <<session, tracks, mDemuxer, reached, found>>

-----------------------------------------------------------------------------
(* Use.                                                                    *)

(* runCmd() of the adapter: the node and those after it.                   *)
ChainFrom[n \in Objects \union {NULL}] ==
    IF n = NULL THEN <<>> ELSE <<n>> \o (IF links[n].next = NULL THEN <<>> ELSE <<links[n].next>>)

(* Mutant: the decoder's line is served before the demuxer.                *)
RootLast ==
    /\ state = "prepared"
    /\ reached' = ChainFrom[mRootNodes["video"]] \o ChainFrom[mRootNodes["audio"]] \o ChainFrom[mRootNodes["root"]]
    /\ UNCHANGED <<state, session, tracks, heap, twice, failed, mRootNodes, links, mNodeBus, mDemuxer, mMeta, owned, found>>

excuteCommand ==
    /\ state = "prepared"
    /\ reached' = ChainFrom[mRootNodes["root"]] \o ChainFrom[mRootNodes["video"]] \o ChainFrom[mRootNodes["audio"]]
    /\ UNCHANGED <<state, session, tracks, heap, twice, failed, mRootNodes, links, mNodeBus, mDemuxer, mMeta, owned, found>>

(* The newest node of the type and the line, from the bucket of the type.  *)
(* The role of the decoder names both media: it fits every line.           *)
findNode(what, line) ==
    LET fit == SelectSeq(mNodeBus, LAMBDA n : n.what = what /\ (what = "decoder" \/ n.line = line))
    IN  IF fit = <<>> THEN NULL ELSE Head(fit)

(* writeData(), setVolume() and the deliver thread look for their nodes,   *)
(* and summary() for all of them, whatever the state of the player.        *)
LookUp(what, line) ==
    /\ found' = findNode(what, line)
    /\ UNCHANGED <<state, session, tracks, heap, twice, failed, mRootNodes, links, mNodeBus, mDemuxer, mMeta, owned, reached>>

-----------------------------------------------------------------------------
(* The end.                                                                *)

ReleaseChain(w, line) ==
    LET head == w.root[line]
    IN  IF head = NULL THEN w
        ELSE IF w.links[head].next = NULL THEN DeleteNode(w, head)
        ELSE DeleteNode(DeleteNode([w EXCEPT !.links[head].next = NULL], w.links[head].next), head)

clearNodeBus(w) == [w EXCEPT !.root = [l \in Lines |-> NULL]]

(* reset(): every chain from its tail, then the metadata that no decoder   *)
(* has taken.  The nodes stay registered.                                  *)
releaseNodes ==
    /\ state # "idle"
    /\ LET w == ReleaseChain(ReleaseChain(ReleaseChain(World, "root"), "video"), "audio")
           metas == Delete(Delete(w, w.meta["video"]), w.meta["audio"])
       IN  Becomes(clearNodeBus([metas EXCEPT !.meta = [m \in Media |-> NULL]]))
    /\ mDemuxer' = NULL /\ state' = "idle" /\ session' = session + 1
    /\ UNCHANGED <<tracks, reached, found>>

Next ==
    \/ OpenSource \/ OpenWithoutSource
    \/ \E line \in Media : registerMetadata(line)
    \/ autoBuildCodecSink
    \/ excuteCommand
    \/ \E what \in {"decoder", "sink"}, line \in Media : LookUp(what, line)
    \/ releaseNodes

Spec == Init /\ [][Next]_vars

-----------------------------------------------------------------------------
(* Nothing is freed twice but the metadata of an application whose decoder *)
(* could not be initialised (bus_find_and_add_codec() deletes it and keeps *)
(* its pointer), and a player that was reset has nothing left of the       *)
(* sources it played (RTNodeBus::releaseNodes()).                          *)
Excused(o) == o.what = "app" /\ Object("decoder", o.line, o.session) \in failed

FreedOnce ==
    /\ \A o \in twice : Excused(o)
    /\ state = "idle" => \A o \in Objects : heap[o] # "live"

Nodes == {o \in Objects : o.what \in {"demuxer", "decoder", "sink"}}

(* A command reaches every node there is, each once, and a node before the *)
(* one that it feeds.                                                      *)
CommandReachesAll ==
    [][reached' # reached =>
         /\ {reached'[i] : i \in DOMAIN reached'} = {n \in Nodes : heap[n] = "live"}
         /\ \A i, j \in DOMAIN reached' : i < j =>
              /\ reached'[i] # reached'[j]
              /\ reached'[j].what # "demuxer"
              /\ reached'[i].line = reached'[j].line => reached'[i].what = "decoder"]_vars

(* A node that the bus finds exists: reset() releases "all [RTNodes] in    *)
(* node_bus" (RTNDKNodePlayer.cpp:169).                                    *)
NodesFoundAreLive == [][found' # NULL /\ found' # found => heap[found'] = "live"]_vars
=============================================================================
