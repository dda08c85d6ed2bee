-------------------------------- MODULE Tracks --------------------------------
(***************************************************************************)
(* From the streams of a file to the decoders: FFAdapterFormat opens the   *)
(* file, FFNodeDemuxer chooses a track per type, the bus makes a decoder   *)
(* from the parameters of that track, and the packets that are read reach  *)
(* a decoder through the metadata of a buffer.  The demuxer's thread and   *)
(* its commands against each other are module Demuxer's.                   *)
(***************************************************************************)
EXTENDS Integers, Sequences, FiniteSets

CONSTANTS
    MaxStreams,  \* bound on the streams of a file
    Kinds,       \* the types of streams in the files
    Starts,      \* Starts[s+1]: the start time of stream s in its time base
    Units,       \* Units[s+1]: microseconds of one tick of stream s
    MaxReads,    \* bound on the packets read of one file
    MaxOpens,    \* bound on the files opened
    NoPts,       \* AV_NOPTS_VALUE
    NULL

VARIABLES
    file,        \* the types of the streams
    avfc,        \* per file opened: "open", "lost", "closed", "twice"
    demuxer,     \* the number of the demuxer that is alive, or NULL
    mFormatCtx,  \* the format it holds, or NULL
    mIndex,      \* mIndexVideo, mIndexAudio, mIndexSubtitle
    mNodeState,
    looping,     \* its thread runs
    mEosFlag,
    cache,       \* the packets in the source, per type
    reads,       \* the packets read of the file, in order
    codec,       \* the decoders: their parameters, per type
    fed          \* what the decoders got, per type

vars == <<file, avfc, demuxer, mFormatCtx, mIndex, mNodeState, looping, mEosFlag,
          cache, reads, codec, fed>>

Media   == {"video", "audio"}
Indexed == Media \union {"subtitle"}
Streams == 0..(Len(file) - 1)
Type(s) == file[s + 1]

-----------------------------------------------------------------------------
(* The parameters of a track: what they say of the codec, and what only    *)
(* video and only audio have.  A value is the stream that it was read of.  *)

Common == {"CodecID", "CodecFormat", "CodecProfile", "CodecLevel", "Bitrate", "ExtraData"}
OwnFields(t) ==
    IF t = "video" THEN {"Width", "Height", "FrameRate", "FieldOrder", "Color"}
    ELSE IF t = "audio" THEN {"ChannelLayout", "Channels", "SampleRate", "BlockAlign",
                              "FrameSize", "Padding", "BitsPerCodedSample"}
    ELSE {}
Fields == Common \union OwnFields("video") \union OwnFields("audio")

(* rt_memset(&track_par, 0): its type is RTTRACK_TYPE_VIDEO.               *)
Zero == -1
Zeroed == [mCodecType |-> "video", of |-> [f \in Fields |-> Zero]]

fa_format_build_track_meta(s) == [mCodecType |-> Type(s), of |-> [f \in Fields |-> s]]

(* Mutant: only the streams of the type are counted.                       *)
CountedOfType(s, t) == Cardinality({r \in 0..s : Type(r) = t})

(* How many streams were counted when the search is at stream s.           *)
Counted(s, t) == s + 1

fa_format_query_track(idx, t) ==
    LET hits == {s \in Streams : Type(s) = t /\ Counted(s, t) - 1 = idx}
    IN  IF mFormatCtx = NULL \/ hits = {} THEN Zeroed
        ELSE fa_format_build_track_meta(CHOOSE s \in hits : TRUE)

rt_medatdata_from_trackpar(tpar) ==
    [mCodecType |-> tpar.mCodecType,
     of |-> [f \in Common \union OwnFields(tpar.mCodecType) |-> tpar.of[f]]]

queryTrackMeta(idx, t) == rt_medatdata_from_trackpar(fa_format_query_track(idx, t))

Find(meta, f, default) == IF f \in DOMAIN meta.of THEN meta.of[f] ELSE default

(* The decoder's mTrackParms, zeroed before.                               *)
rt_medatdata_goto_trackpar(meta) ==
    [mCodecType |-> meta.mCodecType,
     of |-> [f \in Fields |-> IF f \in Common \union OwnFields(meta.mCodecType)
                              THEN Find(meta, f, Zero) ELSE Zero]]

(* What the codec context gets of the metadata; the defaults are 2         *)
(* channels, 44100 Hz and zeros.                                           *)
fa_init_audio_params_from_metadata(meta) ==
    [f \in {"ExtraData", "Channels", "SampleRate", "Bitrate", "BitsPerCodedSample"} |->
        Find(meta, f, Zero)]

-----------------------------------------------------------------------------
(* The file and its tracks.                                                *)

First(S) == IF S = {} THEN -1 ELSE CHOOSE s \in S : \A r \in S : s <= r
OfType(t) == {s \in Streams : Type(s) = t}

(* RTTRACK_TYPE_UNKNOWN counts all streams.                                *)
fa_format_count_tracks(t) == IF t = "unknown" THEN Len(file) ELSE Cardinality(OfType(t))

fa_format_find_track(streams, t) == First({s \in 0..(Len(streams) - 1) : streams[s + 1] = t})

(* av_find_best_stream() returns a stream of the type, or an error.        *)
fa_format_find_best_track(streams, t) ==
    {s \in 0..(Len(streams) - 1) : streams[s + 1] = t}
    \union {fa_format_find_track(streams, t)}

Init ==
    /\ file = <<>> /\ avfc = <<>>
    /\ demuxer = NULL /\ mFormatCtx = NULL /\ mIndex = [t \in Indexed |-> 0]
    /\ mNodeState = NULL /\ looping = FALSE /\ mEosFlag = FALSE
    /\ cache = [t \in Media |-> <<>>] /\ reads = <<>>
    /\ codec = [t \in Media |-> NULL] /\ fed = [t \in Media |-> <<>>]

(* A fresh node, with the zeroed context of FFNodeDemuxer().               *)
FreshNode ==
    /\ looping' = FALSE /\ mEosFlag' = FALSE /\ reads' = <<>>
    /\ cache' = [t \in Media |-> <<>>]
    /\ codec' = [t \in Media |-> NULL] /\ fed' = [t \in Media |-> <<>>]

(* autoBuild(): the node is made, and fa_format_open() opens the file;     *)
(* init() takes the best track of each type.                               *)
FFNodeDemuxer_init ==
    /\ demuxer = NULL /\ Len(avfc) < MaxOpens
    /\ \E n \in 1..MaxStreams : \E streams \in [1..n -> Kinds] :
        /\ file' = streams
        /\ mIndex' \in {best \in [Indexed -> -1..(n - 1)] :
              \A t \in Indexed : best[t] \in fa_format_find_best_track(streams, t)}
    /\ demuxer' = Len(avfc) + 1 /\ mFormatCtx' = Len(avfc) + 1
    /\ avfc' = Append(avfc, "open")
    /\ mNodeState' = "IDLE" /\ FreshNode

(* fa_format_open() fails: the file cannot be opened, or it is open and    *)
(* has no stream information, and the AVFormatContext is lost.  The bus    *)
(* deletes the demuxer.                                                    *)
fa_format_open ==
    /\ demuxer = NULL /\ Len(avfc) < MaxOpens
    /\ \E fate \in {"closed", "lost"} : avfc' = Append(avfc, fate)
    /\ UNCHANGED <<file, demuxer, mFormatCtx, mIndex, mNodeState, looping, mEosFlag,
                   cache, reads, codec, fed>>

Close(i) == [avfc EXCEPT ![i] = IF @ = "open" THEN "closed" ELSE "twice"]

onReset ==
    /\ cache' = [t \in Media |-> <<>>]
    /\ IF mFormatCtx = NULL THEN UNCHANGED <<avfc, mFormatCtx>>
       ELSE avfc' = Close(mFormatCtx) /\ mFormatCtx' = NULL

(* The bus deletes the node: its destructor calls release().               *)
FFNodeDemuxer_release ==
    /\ demuxer # NULL /\ ~looping
    /\ onReset /\ demuxer' = NULL
    /\ UNCHANGED <<file, mIndex, mNodeState, looping, mEosFlag, reads, codec, fed>>

(* The user may choose another stream of the type before the decoders are  *)
(* made.                                                                   *)
selectTrack ==
    /\ demuxer # NULL /\ codec = [t \in Media |-> NULL] /\ mFormatCtx # NULL
    /\ \E t \in Media :
        /\ fa_format_count_tracks(t) > 0
        /\ \E s \in OfType(t) : mIndex' = [mIndex EXCEPT ![t] = s]
    /\ UNCHANGED <<file, avfc, demuxer, mFormatCtx, mNodeState, looping, mEosFlag,
                   cache, reads, codec, fed>>

queryTrackUsed(t) == IF t \in Indexed THEN mIndex[t] ELSE -1

Decoders ==
    [track   : [mCodecType : Media, of : [Fields -> Int]],
     context : UNION {[F -> Int] : F \in SUBSET Fields}]

(* autoBuildCodecSink(): a decoder for each type that has a track.         *)
Decoder(t) ==
    IF queryTrackUsed(t) < 0 THEN NULL
    ELSE LET meta == queryTrackMeta(queryTrackUsed(t), t)
         IN  [track |-> rt_medatdata_goto_trackpar(meta),
              context |-> IF meta.mCodecType = "audio"
                          THEN fa_init_audio_params_from_metadata(meta)
                          ELSE [f \in {"ExtraData", "Width", "Height"} |-> Find(meta, f, Zero)]]

MakeDecoders ==
    /\ demuxer # NULL /\ mFormatCtx # NULL /\ codec = [t \in Media |-> NULL]
    /\ codec' = [t \in Media |-> Decoder(t)]
    /\ UNCHANGED <<file, avfc, demuxer, mFormatCtx, mIndex, mNodeState, looping, mEosFlag,
                   cache, reads, fed>>

(* The commands, in the order in which the player gives them.  A start     *)
(* after a stop, and a pause or a start after the end, are module Demuxer's. *)
runCmd ==
    /\ demuxer # NULL
    /\ \/ /\ codec # [t \in Media |-> NULL] /\ mFormatCtx # NULL             \* PREPARE
          /\ ~looping /\ reads = <<>> /\ looping' = TRUE
          /\ UNCHANGED <<avfc, mFormatCtx, mNodeState, mEosFlag, cache>>
       \/ /\ looping /\ ~mEosFlag /\ mNodeState \in {"IDLE", "PAUSED"}        \* START
          /\ mNodeState' = "STARTED" /\ mEosFlag' = FALSE
          /\ UNCHANGED <<avfc, mFormatCtx, looping, cache>>
       \/ /\ looping /\ ~mEosFlag /\ mNodeState \in {"IDLE", "STARTED"}       \* PAUSE
          /\ mNodeState' = "PAUSED"
          /\ UNCHANGED <<avfc, mFormatCtx, looping, mEosFlag, cache>>
       \/ /\ looping                                                         \* STOP
          /\ looping' = FALSE /\ cache' = [t \in Media |-> <<>>]
          /\ UNCHANGED <<avfc, mFormatCtx, mNodeState, mEosFlag>>
       \/ /\ ~looping /\ onReset                                             \* RESET
          /\ UNCHANGED <<mNodeState, looping, mEosFlag>>
    /\ UNCHANGED <<file, demuxer, mIndex, reads, codec, fed>>

-----------------------------------------------------------------------------
(* The packets.                                                            *)

StartTime(s) == IF Starts[s + 1] = NoPts THEN 0 ELSE Starts[s + 1]

(* The time in microseconds, from the start of its own stream.             *)
fa_format_packet_parse(raw) ==
    LET s == raw.stream_index IN
    [mType |-> Type(s), mTrackIndex |-> s, mData |-> raw.data,
     mPts |-> raw.pts * Units[s + 1] - StartTime(s) * Units[s + 1],
     mDts |-> raw.dts * Units[s + 1] - StartTime(s) * Units[s + 1]]

(* The n-th packet of the file, if it is of stream s.                      *)
RawPacket(s, n) == [stream_index |-> s, data |-> n, pts |-> StartTime(s) + n,
                    dts |-> StartTime(s) + n]

EndPacket == [mType |-> NULL, mTrackIndex |-> -1, mData |-> NULL, mPts |-> 0, mDts |-> 0]

(* runTask(): a packet is read and queued by the type of its stream.  A    *)
(* packet of another type than video and audio is freed.                   *)
queuePacket(s) ==
    /\ looping /\ ~mEosFlag /\ Len(reads) < MaxReads
    /\ LET pkt == fa_format_packet_parse(RawPacket(s, Len(reads) + 1)) IN
        /\ reads' = Append(reads, RawPacket(s, Len(reads) + 1))
        /\ cache' = IF Type(s) \in Media THEN [cache EXCEPT ![Type(s)] = Append(@, pkt)] ELSE cache
    /\ UNCHANGED <<file, avfc, demuxer, mFormatCtx, mIndex, mNodeState, looping, mEosFlag,
                   codec, fed>>

queueNullPacket ==
    /\ looping /\ ~mEosFlag /\ mEosFlag' = TRUE
    /\ cache' = [t \in Media |-> IF mIndex[t] >= 0 THEN Append(cache[t], EndPacket) ELSE cache[t]]
    /\ UNCHANGED <<file, avfc, demuxer, mFormatCtx, mIndex, mNodeState, looping,
                   reads, codec, fed>>

(* pullBuffer(): setData() clears the buffer's metadata, and then          *)
(* rt_mediabuf_from_packet() fills it.                                     *)
rt_mediabuf_from_packet(pkt) ==
    [data |-> pkt.mData, found |-> {"PacketPts", "PacketDts"}, mPts |-> pkt.mPts,
     mDts |-> pkt.mDts, index |-> pkt.mTrackIndex]

(* The AVPacket that the codec gets of the buffer.                         *)
fa_init_av_packet(buf) ==
    [data |-> buf.data,
     pts  |-> IF "PacketPts" \in buf.found THEN buf.mPts ELSE NoPts,
     dts  |-> IF "PacketDts" \in buf.found THEN buf.mDts ELSE NoPts]

(* The deliver thread moves a packet from the demuxer to the decoder of    *)
(* its type.  It reads which track is used, but not of which track the     *)
(* packet is.  The end has no data, and counts only while mEosFlag is up.  *)
Deliver(t) ==
    /\ demuxer # NULL /\ looping /\ mNodeState = "STARTED"
    /\ codec[t] # NULL /\ cache[t] # <<>>
    /\ cache' = [cache EXCEPT ![t] = Tail(@)]
    /\ LET pkt == Head(cache[t]) IN
        fed' = IF pkt.mData = NULL THEN fed
               ELSE [fed EXCEPT ![t] = Append(@, fa_init_av_packet(rt_mediabuf_from_packet(pkt)))]
    /\ UNCHANGED <<file, avfc, demuxer, mFormatCtx, mIndex, mNodeState, looping, mEosFlag,
                   reads, codec>>

Next ==
    \/ FFNodeDemuxer_init \/ fa_format_open \/ FFNodeDemuxer_release
    \/ selectTrack \/ MakeDecoders \/ runCmd \/ queueNullPacket
    \/ \E s \in Streams : queuePacket(s)
    \/ \E t \in Media : Deliver(t)

TracksSpec == Init /\ [][Next]_vars

-----------------------------------------------------------------------------
(* A decoder exists exactly for a type of which the file has a stream, and *)
(* every parameter that its codec context takes of the metadata is of the  *)
(* stream that is used, with none left at its default: the index that      *)
(* queryTrackUsed() returns counts all streams, and so must the search of  *)
(* fa_format_query_track() (RTNodeBus.cpp, FFAdapterFormat.cpp,            *)
(* RTMediaData.cpp).                                                       *)
DecoderFitsTrack ==
    codec # [t \in Media |-> NULL] =>
        \A t \in Media :
            /\ (codec[t] = NULL) = (OfType(t) = {})
            /\ codec[t] # NULL =>
                /\ codec[t].track.mCodecType = t
                /\ \A f \in Common \union OwnFields(t) : codec[t].track.of[f] = mIndex[t]
                /\ \A f \in DOMAIN codec[t].context : codec[t].context[f] = mIndex[t]

(* A format that a demuxer opened is closed once: by the reset or by the   *)
(* destructor, which resets again (FFNodeDemuxer::release()).              *)
FormatClosedOnce ==
    \A i \in DOMAIN avfc :
        /\ avfc[i] # "twice"
        /\ avfc[i] = "open" => demuxer = i /\ mFormatCtx = i

(* The packets that were read of a type, by their number in the file.      *)
ReadOf(t) == {n \in DOMAIN reads : Type(reads[n].stream_index) = t}

(* What a decoder gets is what was read of its type, in order and without  *)
(* a gap, at its time from the start of its stream: the metadata of the    *)
(* buffer that carries a packet is cleared by setData() and filled after   *)
(* (FFNodeDemuxer::pullBuffer()).                                          *)
PacketsWhole ==
    \A t \in Media : \A k \in DOMAIN fed[t] :
        LET n   == fed[t][k].data
            raw == reads[n]
        IN  /\ n \in ReadOf(t)
            /\ \A j \in 1..(k - 1) : fed[t][j].data < n
            /\ \A m \in ReadOf(t) : m < n => \E j \in 1..(k - 1) : fed[t][j].data = m
            /\ fed[t][k].pts = (raw.pts - StartTime(raw.stream_index)) * Units[raw.stream_index + 1]
            /\ fed[t][k].dts = (raw.dts - StartTime(raw.stream_index)) * Units[raw.stream_index + 1]

(* What a decoder is made of and what it gets, file after file.            *)
TracksKept == DecoderFitsTrack /\ FormatClosedOnce /\ PacketsWhole

(* The audio decoder gets packets of the track that it was made for, as    *)
(* the loop of test_node_audio_codec.cpp passes over packets of other      *)
(* tracks; startAudioPlayerProc() reads the track's index and does not     *)
(* compare it (RTNDKNodePlayer.cpp).                                       *)
OwnTrackDecoded ==
    \A k \in DOMAIN fed["audio"] : reads[fed["audio"][k].data].stream_index = mIndex["audio"]
=============================================================================
