------------------------------- MODULE CodecPorts -------------------------------
(***************************************************************************)
(* The codec nodes whose ports are object pools: FFNodeEncoder ("ff"),     *)
(* HWNodeMpiEncoder ("he") and HWNodeMpiDecoder ("hd").  A client borrows  *)
(* an input buffer, fills and queues it, and takes and gives back outputs; *)
(* the node's thread moves them through the codec of FFmpeg or of mpp.     *)
(* The codec is outside of the repository: it may refuse an input, and an  *)
(* output may take its time.                                               *)
(***************************************************************************)
EXTENDS Integers, Sequences, Functions

CONSTANTS
    FfCount, HwCount, \* MAX_INPUT_BUFFER_COUNT and MAX_OUTPUT_BUFFER_COUNT
    PoolMin,          \* the least size of an RTObjectPool
    Frames,           \* bound on the inputs that the client sends
    MaxRefusals,      \* bound on the inputs that the codec refuses
    MaxStarts,        \* bound on the starts of the thread
    Delay,            \* frames that an FFmpeg encoder keeps for itself
    Depth,            \* inputs that mpp keeps
    BitRates, Word,   \* the rates that are asked for, and 2^32
    None

(* The buffers are numbered, and an INT32 has an even number of values.    *)
ASSUME PortsAssumption ==
    /\ {FfCount, HwCount, PoolMin, Delay, Word \div 2} \subseteq Nat
    /\ None \notin Int
    /\ BitRates \subseteq Nat /\ Word = 2 * (Word \div 2) /\ Word > 0

VARIABLES
    kind,     \* the node
    node,     \* "new", "ready", "failed", "gone", "crashed"
    handles,  \* the objects of the libraries that are allocated
    pool,     \* the ports: the idle buffers and the count of the borrowed
    made,     \* the buffers that were allocated, per direction
    frameIn,  \* the frame that an input buffer holds
    out,      \* what an output buffer holds, and its status
    codec,    \* the frames inside, the info change to come, the refusals
    group,    \* mpp's group of output buffers: where each is, and its mapping
    thread,   \* its state, where it is, and the two buffers that it holds
    client,   \* the client's buffers, the frames it sent, the last one it took
    starts

ports == <<pool, made>>
vars == <<kind, node, handles, pool, made, frameIn, out, codec, group, thread, client, starts>>

Least(count) == IF count < PoolMin THEN PoolMin ELSE count

(* The sizes that the constructors give to the four pools.                 *)
mMaxNum(p) == IF kind # "ff" THEN Least(HwCount)
              ELSE Least(IF p \in {"usIn", "usOut"} THEN 4 * FfCount ELSE FfCount)

(* The inputs and, with the sign changed, the outputs.                     *)
InBufs == 1..Least(HwCount) \union 1..Least(FfCount)
OutBufs == {-i : i \in InBufs}
Count == IF kind = "ff" THEN FfCount ELSE HwCount

(* The pools that were given an AllocListener.                             *)
Allocates(p) == p = "unIn" \/ p = IF kind = "hd" THEN "usOut" ELSE "unOut"

NewBuffer(p) == IF p = "unIn" THEN made.in + 1 ELSE -(made.out + 1)

-----------------------------------------------------------------------------
(* RTObjectPool.  mObjNum counts the calls that found nothing too.         *)

borrowObj(p) ==
    LET idle == pool[p].q
        new == idle = <<>> /\ Allocates(p)
    IN  IF pool[p].num >= mMaxNum(p)
        THEN [obj |-> None, pool |-> pool, new |-> FALSE]
        ELSE [obj |-> IF new THEN NewBuffer(p) ELSE IF idle = <<>> THEN None ELSE Head(idle),
              pool |-> [pool EXCEPT ![p] = [q |-> IF idle = <<>> THEN idle ELSE Tail(idle),
                                            num |-> @.num + 1]],
              new |-> new]

(* Mutant: the object comes back and stays counted.                        *)
ReturnKeepsCount(pools, p, obj) == [pools EXCEPT ![p].q = Append(@, obj)]

returnObj(pools, p, obj) == [pools EXCEPT ![p] = [q |-> Append(@.q, obj), num |-> @.num - 1]]

Lend(got, p) ==
    /\ pool' = got.pool
    /\ made' = IF ~got.new THEN made
               ELSE IF p = "unIn" THEN [made EXCEPT !.in = @ + 1] ELSE [made EXCEPT !.out = @ + 1]

-----------------------------------------------------------------------------
(* The codec contexts.  A failure keeps the handles that it does not free. *)

fa_video_encode_create ==
    \E ok \in BOOLEAN : /\ handles' = IF ok THEN {"ctx", "av"} ELSE {}
                        /\ node' = IF ok THEN "ready" ELSE "failed"

fa_video_encode_destroy == handles' = {} /\ node' = "gone"

(* The failures: mpp_create() fails, a key is missing or mpp_init() fails, *)
(* the group cannot be had, or the list cannot.                            *)
ma_decode_create ==
    LET all == {"ctx", "mpp", "grp", "list"}
    IN  \/ handles' = all /\ node' = "ready"
        \/ \E got \in {{"ctx"}, {"ctx", "mpp"}, {"ctx", "mpp", "grp"}} :
              handles' = got \ {"list", "mpp", "ctx"} /\ node' = "failed"

(* A missing size of the frame or of the picture fails it; a control call  *)
(* that fails does not.                                                    *)
ma_encode_config == node' \in {"ready", "failed"}

(* The extra data is there if mpp has it.                                  *)
ma_encode_prepare ==
    /\ ma_encode_config
    /\ handles' \in IF node' = "ready" THEN {{"ctx", "mpp", "grp"}, {"ctx", "mpp", "grp", "extra"}}
                     ELSE {{"ctx", "mpp", "grp"}}

(* Only the context is freed on failure; init() goes on to prepare it.     *)
ma_encode_create ==
    \/ \E got \in {{"ctx"}, {"ctx", "mpp"}} : handles' = got \ {"ctx"} /\ node' = "failed"
    \/ ma_encode_prepare

(* The context is read before it is tested: there must be one.             *)
ma_decode_destroy ==
    IF "ctx" \in handles
    THEN handles' = handles \ {"ctx", "mpp", "grp", "list"} /\ node' = "gone"
    ELSE UNCHANGED handles /\ node' = "crashed"

(* The buffer group is not put.                                            *)
ma_encode_destroy ==
    IF "ctx" \in handles
    THEN handles' = handles \ {"ctx", "mpp", "extra"} /\ node' = "gone"
    ELSE UNCHANGED handles /\ node' = "crashed"

-----------------------------------------------------------------------------
(* What ma_encode_config() asks of mpp, in 32 bits; a division of C drops  *)
(* the fraction.                                                           *)

Int32(x) == ((x + Word \div 2) % Word) - Word \div 2
Quotient(x, y) == IF x < 0 THEN -((-x) \div y) ELSE x \div y

RateControl(mode, rate) ==
    CASE mode = "CBR" -> [min |-> Quotient(Int32(rate * 15), 16), target |-> rate,
                          max |-> Quotient(Int32(rate * 17), 16)]
      [] mode = "CQP" -> [min |-> -1, target |-> -1, max |-> -1]
      [] OTHER        -> [min |-> Quotient(Int32(rate), 16), target |-> rate,
                          max |-> Quotient(Int32(rate * 17), 16)]

(* The quantiser of H.264: limits by mode, and constant QP is one value.   *)
H264Quantiser(mode, qp) ==
    CASE mode = "CBR" -> [min |-> 4, max |-> 48, step |-> 16, init |-> qp]
      [] mode = "CQP" -> [min |-> 26, max |-> 26, step |-> 0, init |-> 0]
      [] OTHER        -> [min |-> 12, max |-> 40, step |-> 8, init |-> 0]

-----------------------------------------------------------------------------
(* init() of the nodes: the context, then the buffers of the ports.        *)

Init ==
    /\ kind \in {"ff", "he", "hd"}
    /\ node = "new" /\ handles = {}
    /\ pool = [p \in {"unIn", "usIn", "unOut", "usOut"} |-> [q |-> <<>>, num |-> 0]]
    /\ made = [in |-> 0, out |-> 0]
    /\ frameIn = [b \in InBufs |-> 0]
    /\ out = [b \in OutBufs |-> [frame |-> 0, status |-> "unknown"]]
    /\ codec = [inside |-> <<>>, info |-> kind = "hd", refused |-> 0]
    /\ group = [b \in OutBufs |-> [at |-> "none", mpp |-> "null"]]
    /\ thread = [alive |-> FALSE, state |-> "IDLE", pc |-> "top", input |-> None, output |-> None]
    /\ client = [in |-> {}, out |-> {}, sent |-> 0, last |-> 0, skipped |-> FALSE]
    /\ starts = 0

Buffers(sign) == [i \in 1..Count |-> sign * i]

(* Every buffer is borrowed, and so allocated, and then returned.          *)
EncoderPorts ==
    /\ pool' = [pool EXCEPT !["unIn"].q = Buffers(1), !["unOut"].q = Buffers(-1)]
    /\ made' = [in |-> Count, out |-> Count]
    /\ UNCHANGED group

ff_allocateBuffersOnPort == EncoderPorts
he_allocateBuffersOnPort == EncoderPorts

(* The mapping comes from rt_malloc() and is cleared in part: mpp_buffer   *)
(* holds what the memory held.                                             *)
ma_commit_buffer_to_group(was) == [at |-> "free", mpp |-> was]

(* The outputs stay borrowed: mpp's group has them.                        *)
hd_allocateBuffersOnPort ==
    /\ pool' = [pool EXCEPT !["unIn"].q = Buffers(1), !["usOut"].num = Count]
    /\ made' = [in |-> Count, out |-> Count]
    /\ \E was \in {"null", "junk"} :
          group' = [b \in OutBufs |-> IF -b \in 1..Count THEN ma_commit_buffer_to_group(was)
                                      ELSE group[b]]

Create(create, allocate) ==
    /\ node = "new"
    /\ create
    /\ IF node' = "ready" THEN allocate ELSE UNCHANGED <<pool, made, group>>
    /\ UNCHANGED <<kind, frameIn, out, codec, thread, client, starts>>

ff_init == kind = "ff" /\ Create(fa_video_encode_create, ff_allocateBuffersOnPort)

he_init == kind = "he" /\ Create(ma_encode_create, he_allocateBuffersOnPort)

hd_init == kind = "hd" /\ Create(ma_decode_create, hd_allocateBuffersOnPort)

(* release() is called when no thread runs.                                *)
Release(destroy) ==
    /\ node \in {"ready", "failed"} /\ ~thread.alive
    /\ destroy
    /\ pool' = [p \in DOMAIN pool |-> [q |-> <<>>, num |-> 0]]
    /\ UNCHANGED <<kind, made, frameIn, out, codec, group, thread, client, starts>>

ff_release == kind = "ff" /\ Release(fa_video_encode_destroy)
he_release == kind = "he" /\ Release(ma_encode_destroy)
hd_release == kind = "hd" /\ Release(ma_decode_destroy)

-----------------------------------------------------------------------------
(* The client's calls.                                                     *)

(* An encoder of FFmpeg gives a frame again, when it was sent again.  The  *)
(* info change is no frame, and the encoder of mpp promises no order.      *)
Received(b) ==
    LET frame == out[b].frame
        next == frame = client.last + 1 \/ (kind = "ff" /\ frame = client.last)
    IN  IF kind = "he" \/ frame = 0 THEN [client EXCEPT !.out = @ \union {b}]
        ELSE [client EXCEPT !.out = @ \union {b}, !.last = frame, !.skipped = @ \/ ~next]

Take(p, type) ==
    LET got == borrowObj(p)
    IN  /\ node = "ready"
        /\ Lend(got, p)
        /\ client' = IF got.obj = None THEN client
                     ELSE IF type = "in" THEN [client EXCEPT !.in = @ \union {got.obj}]
                     ELSE Received(got.obj)
        /\ UNCHANGED <<kind, node, handles, frameIn, out, codec, group, thread, starts>>

ff_dequeBuffer(type) == kind = "ff" /\ Take(IF type = "in" THEN "unIn" ELSE "usOut", type)
he_dequeBuffer(type) == kind = "he" /\ Take(IF type = "in" THEN "unIn" ELSE "usOut", type)
hd_dequeBuffer(type) == kind = "hd" /\ Take(IF type = "in" THEN "unIn" ELSE "usOut", type)

(* The client fills an input with the next frame.                          *)
Push(b) ==
    /\ node = "ready" /\ b \in client.in /\ client.sent < Frames
    /\ client' = [client EXCEPT !.in = @ \ {b}, !.sent = @ + 1]
    /\ frameIn' = [frameIn EXCEPT ![b] = client.sent + 1]
    /\ pool' = returnObj(pool, "usIn", b)
    /\ UNCHANGED <<kind, node, handles, made, out, codec, group, thread, starts>>

GiveBack(b) ==
    /\ node = "ready" /\ b \in client.out
    /\ client' = [client EXCEPT !.out = @ \ {b}]
    /\ UNCHANGED <<kind, node, handles, made, frameIn, out, codec, thread, starts>>

ff_queueBuffer(b) == kind = "ff" /\ \/ Push(b)
                                    \/ GiveBack(b) /\ pool' = returnObj(pool, "unOut", b) /\ UNCHANGED group
he_queueBuffer(b) == kind = "he" /\ \/ Push(b)
                                    \/ GiveBack(b) /\ pool' = returnObj(pool, "unOut", b) /\ UNCHANGED group

(* mpp gets its buffer back, if the mapping knows it.                      *)
ma_fill_buffer_to_group(b) ==
    group' = IF group[b].mpp = "set" THEN [group EXCEPT ![b].at = "free"] ELSE group

hd_queueBuffer(b) == kind = "hd" /\ \/ Push(b)
                                    \/ GiveBack(b) /\ ma_fill_buffer_to_group(b) /\ UNCHANGED pool

(* A node that is stopped is started.                                      *)
Start ==
    /\ node = "ready" /\ ~thread.alive /\ starts < MaxStarts
    /\ thread' = [thread EXCEPT !.alive = TRUE, !.pc = "enter"]
    /\ starts' = starts + 1
    /\ UNCHANGED <<kind, node, handles, pool, made, frameIn, out, codec, group, client>>

(* onStop() requests the interruption; join() follows below.               *)
Stop ==
    /\ thread.alive /\ thread.state = "LOOP"
    /\ thread' = [thread EXCEPT !.state = "EXIT"]
    /\ UNCHANGED <<kind, node, handles, pool, made, frameIn, out, codec, group, client, starts>>

-----------------------------------------------------------------------------
(* runTask().                                                              *)

Idle == <<kind, node, handles, frameIn, client, starts>>

Enter ==
    /\ thread.alive /\ thread.pc = "enter"
    /\ thread' = [thread EXCEPT !.state = IF @ = "IDLE" THEN "LOOP" ELSE @, !.pc = "top"]
    /\ UNCHANGED <<Idle, ports, out, codec, group>>

(* The thread ends with what it holds, and join() finds it ended.          *)
Leave ==
    /\ thread.alive /\ thread.pc = "top" /\ thread.state = "EXIT"
    /\ thread' = [alive |-> FALSE, state |-> "IDLE", pc |-> "top", input |-> None, output |-> None]
    /\ UNCHANGED <<Idle, ports, out, codec, group>>

At(pc) == thread.alive /\ thread.pc = pc

TakeInput ==
    LET got == borrowObj("usIn")
    IN  /\ At("top") /\ thread.state = "LOOP"
        /\ IF thread.input # None THEN UNCHANGED ports /\ thread' = [thread EXCEPT !.pc = "out"]
           ELSE /\ Lend(got, "usIn")
                /\ thread' = [thread EXCEPT !.input = got.obj, !.pc = "out"]
        /\ UNCHANGED <<Idle, out, codec, group>>

(* Without both, the thread sleeps and begins again.  A decoder has its    *)
(* outputs in mpp, and looks at the input alone.                           *)
TakeOutput ==
    LET got == borrowObj("unOut")
        output == IF thread.output = None /\ kind # "hd" THEN got.obj ELSE thread.output
        ready == thread.input # None /\ (kind = "hd" \/ output # None)
    IN  /\ At("out")
        /\ IF thread.output = None /\ kind # "hd" THEN Lend(got, "unOut") ELSE UNCHANGED ports
        /\ thread' = [thread EXCEPT !.output = output, !.pc = IF ready THEN "send" ELSE "top"]
        /\ UNCHANGED <<Idle, out, codec, group>>

Refuse == codec.refused < MaxRefusals /\ codec' = [codec EXCEPT !.refused = @ + 1]
Accept == codec' = [codec EXCEPT !.inside = Append(@, frameIn[thread.input])]

(* A frame that the encoder refuses is sent again on the next round.       *)
fa_encode_send_frame ==
    /\ kind = "ff" /\ At("send")
    /\ \/ Refuse /\ thread' = [thread EXCEPT !.pc = "top"]
       \/ Accept /\ thread' = [thread EXCEPT !.pc = "get"]
    /\ UNCHANGED <<Idle, ports, out, group>>

Done(output) == [thread EXCEPT !.input = None, !.output = output, !.pc = "top"]

(* While the encoder keeps its frames to itself the round ends with both   *)
(* buffers held: the same frame is sent again.                             *)
fa_encode_get_packet ==
    /\ kind = "ff" /\ At("get")
    /\ IF Len(codec.inside) <= Delay
       THEN UNCHANGED <<ports, out, codec>> /\ thread' = [thread EXCEPT !.pc = "top"]
       ELSE /\ out' = [out EXCEPT ![thread.output] = [frame |-> Head(codec.inside), status |-> "ready"]]
            /\ codec' = [codec EXCEPT !.inside = Tail(@)]
            /\ pool' = returnObj(returnObj(pool, "usOut", thread.output), "unIn", thread.input)
            /\ thread' = Done(None)
            /\ UNCHANGED made
    /\ UNCHANGED <<Idle, group>>

(* A frame that mpp does not take is reported as sent, and is lost.        *)
ma_encode_send_frame ==
    /\ kind = "he" /\ At("send")
    /\ Refuse \/ (Len(codec.inside) < Depth /\ Accept)
    /\ pool' = returnObj(pool, "unIn", thread.input)
    /\ thread' = [thread EXCEPT !.input = None, !.pc = "get"]
    /\ UNCHANGED <<Idle, made, out, group>>

(* Without a packet the result is still RT_OK: an output whose status is   *)
(* the one of its last use goes to the client once more.                   *)
ma_encode_get_packet ==
    /\ kind = "he" /\ At("get")
    /\ \/ UNCHANGED <<out, codec>>
       \/ /\ codec.inside # <<>>
          /\ codec' = [codec EXCEPT !.inside = Tail(@)]
          /\ out' = [out EXCEPT ![thread.output] = [frame |-> Head(codec.inside), status |-> "ready"]]
    /\ IF out'[thread.output].status = "ready"
       THEN pool' = returnObj(pool, "usOut", thread.output) /\ thread' = Done(None)
       ELSE UNCHANGED pool /\ thread' = Done(thread.output)
    /\ UNCHANGED <<Idle, made, group>>

(* RT_ERR_LIST_FULL keeps the packet for the next round.                   *)
ma_decode_send_packet ==
    /\ kind = "hd" /\ At("send")
    /\ \/ /\ Refuse
          /\ UNCHANGED pool
          /\ thread' = [thread EXCEPT !.pc = "get"]
       \/ /\ Len(codec.inside) < Depth /\ Accept
          /\ pool' = returnObj(pool, "unIn", thread.input)
          /\ thread' = [thread EXCEPT !.input = None, !.pc = "get"]
    /\ UNCHANGED <<Idle, made, out, group>>

Free == {b \in OutBufs : group[b].at = "free"}

(* A frame is decoded into a buffer of the group, and the first is the     *)
(* change of the picture's format, which takes a buffer too: when there is *)
(* none the change is lost.  A buffer's mapping learns mpp's buffer if it  *)
(* was cleared.                                                            *)
ma_decode_get_frame ==
    /\ kind = "hd" /\ At("get")
    /\ thread' = [thread EXCEPT !.pc = "top"]
    /\ \/ UNCHANGED <<pool, out, codec, group>>
       \/ /\ codec.info /\ codec.inside # <<>> /\ Free = {}
          /\ codec' = [codec EXCEPT !.info = FALSE]
          /\ UNCHANGED <<pool, out, group>>
       \/ \E b \in Free :
            /\ codec.inside # <<>>
            /\ codec' = IF codec.info THEN [codec EXCEPT !.info = FALSE] ELSE [codec EXCEPT !.inside = Tail(@)]
            /\ out' = [out EXCEPT ![b] = IF codec.info THEN [frame |-> 0, status |-> "info"]
                                         ELSE [frame |-> Head(codec.inside), status |-> "ready"]]
            /\ group' = [group EXCEPT ![b] = [at |-> "lent", mpp |-> IF @.mpp = "null" THEN "set" ELSE @.mpp]]
            /\ pool' = returnObj(pool, "usOut", b)
    /\ UNCHANGED <<Idle, made>>

ff_runTask == fa_encode_send_frame \/ fa_encode_get_packet
he_runTask == ma_encode_send_frame \/ ma_encode_get_packet
hd_runTask == ma_decode_send_packet \/ ma_decode_get_frame

(* runCmd(): the other commands do nothing, or are not known.              *)
ff_runCmd == ff_init \/ (kind = "ff" /\ (Start \/ Stop))
he_runCmd == he_init \/ (kind = "he" /\ (Start \/ Stop))
hd_runCmd == hd_init \/ (kind = "hd" /\ (Start \/ Stop))

Thread == Enter \/ Leave \/ TakeInput \/ TakeOutput \/ ff_runTask \/ he_runTask \/ hd_runTask

Client ==
    \/ \E type \in {"in", "out"} : ff_dequeBuffer(type) \/ he_dequeBuffer(type) \/ hd_dequeBuffer(type)
    \/ \E b \in InBufs \union OutBufs : ff_queueBuffer(b) \/ he_queueBuffer(b) \/ hd_queueBuffer(b)

Next ==
    \/ ff_runCmd \/ he_runCmd \/ hd_runCmd
    \/ ff_release \/ he_release \/ hd_release
    \/ Client \/ Thread

(* The thread is scheduled; mpp encodes and decodes what it took, and the  *)
(* client takes the outputs and gives them back.                           *)
Fairness ==
    /\ WF_vars(Enter \/ Leave \/ TakeInput \/ TakeOutput \/ ff_runTask)
    /\ WF_vars(ff_dequeBuffer("out"))
    /\ WF_vars(\E b \in OutBufs : ff_queueBuffer(b))

Spec == Init /\ [][Next]_vars /\ Fairness

-----------------------------------------------------------------------------
(* A buffer that a port holds is never refused to the one who asks for it, *)
(* although calls that found nothing are counted as borrowed, and the port *)
(* has room for every buffer that comes back.                              *)
PortsServe ==
    \A p \in DOMAIN pool : /\ pool[p].q # <<>> => pool[p].num < mMaxNum(p)
                           /\ Len(pool[p].q) <= mMaxNum(p)

Holders(b) ==
    {p \in DOMAIN pool : b \in Range(pool[p].q)}
    \union {type \in {"in", "out"} : b \in client[type]}
    \union {hand \in {"input", "output"} : b = thread[hand]}
    \union {mpp \in {"mpp"} : b \in Free}

(* A buffer is in one hand: a port, the client, the thread or mpp.         *)
OneHolder ==
    /\ \A b \in InBufs \union OutBufs : \A x, y \in Holders(b) : x = y
    /\ \A p \in DOMAIN pool : IsInjective(pool[p].q)

(* Before the first stop the client gets the outputs in the order of the   *)
(* frames it sent and misses none, whatever the codec refuses: an FFmpeg   *)
(* encoder may give one several times, the decoder of mpp gives it once.   *)
NothingSkipped == starts = 1 /\ thread.state = "LOOP" => ~client.skipped

(* The bit rate that a prepared encoder was asked for lies within its      *)
(* bounds, as long as 17 times the rate is an INT32.                       *)
RatesOrdered ==
    kind = "he" /\ node = "ready" =>
      \A mode \in {"CBR", "VBR", "CQP"}, rate \in BitRates :
        17 * rate < Word \div 2 =>
            LET rc == RateControl(mode, rate) IN rc.min <= rc.target /\ rc.target <= rc.max

(* What was opened is closed when the node is released; the buffer group   *)
(* of an encoder of mpp stays.                                             *)
HandlesBack == node = "gone" => handles \subseteq (IF kind = "he" THEN {"grp"} ELSE {})

(* What the clients of a codec node rely on, whatever the codec refuses.   *)
CodecsKept == PortsServe /\ OneHolder /\ NothingSkipped /\ RatesOrdered /\ HandlesBack

(* A frame that the FFmpeg encoder's port has is taken, and its buffer is  *)
(* free again, unless the node is stopped.                                 *)
InputReturns ==
    \A b \in InBufs :
        (kind = "ff" /\ thread.alive /\ b \in Range(pool["usIn"].q))
            ~> (b \in Range(pool["unIn"].q) \/ b \in client.in \/ thread.state # "LOOP" \/ node # "ready")
=============================================================================
