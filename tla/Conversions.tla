----------------------------- MODULE Conversions -----------------------------
(***************************************************************************)
(* What is translated on the way of the data: the names of codecs between  *)
(* FFmpeg, Rockit and mpp, the fields of packets and frames in the         *)
(* metadata of a buffer that is used again and again, and the samples of a *)
(* picture on their way to pixels.                                         *)
(***************************************************************************)
EXTENDS Integers, Sequences, FiniteSets

CONSTANTS
    Sizes,     \* widths and heights of pictures: even, as decoders give them
    Samples,   \* values of a sample of Y, U or V
    MaxPuts    \* bound: packets and frames put into the buffer

VARIABLES
    task,      \* "carry" or "paint": what this behaviour is about
    buffer,    \* the data of an RTMediaBuffer and the fields of its mMetaData
    put,       \* what was put into it last: [kind, number]
    puts,      \* how often
    picture,   \* [width, height] of the source
    at,        \* iy, ix, and the samples that ysrc, usrc and vsrc point to
    dest,      \* per pixel written: the samples it was made of
    colours    \* the two pixels written last: their samples and r, g, b

vars == <<task, buffer, put, puts, picture, at, dest, colours>>

-----------------------------------------------------------------------------
(* Codecs.  A table is searched from its beginning, in either direction.   *)

kFdCodecMappingList == <<
    <<"MPEG2", "MPEG2VIDEO">>, <<"H263", "H263">>, <<"MPEG4", "MPEG4">>, <<"WMV", "WMV3">>,
    <<"AVC", "H264">>, <<"MJPEG", "MJPEG">>, <<"VP8", "VP8">>, <<"VP9", "VP9">>,
    <<"HEVC", "HEVC">>, <<"VC1", "VC1">>, <<"AVS", "AVS">>,
    <<"AAC", "AAC">>, <<"APE", "APE">>, <<"MP3", "MP3">>, <<"WMALOSSLESS", "WMALOSSLESS">>,
    <<"WMAPRO", "WMAPRO">>, <<"WMAV1", "WMAV1">>, <<"WMAV2", "WMAV2">>,
    <<"ADPCM", "ADPCM_IMA_QT">>, <<"VORBIS", "VORBIS">>, <<"PCM_S16LE", "PCM_S16LE">>,
    <<"PCM_S24LE", "PCM_S24LE">>, <<"FLAC", "FLAC">>, <<"MP1", "MP1">>, <<"MP2", "MP2">> >>

kMACodecIDMappingList == <<
    <<"MPEG2", "CodingMPEG2">>, <<"H263", "CodingH263">>, <<"MPEG4", "CodingMPEG4">>,
    <<"WMV", "CodingWMV">>, <<"AVC", "CodingAVC">>, <<"MJPEG", "CodingMJPEG">>,
    <<"VP8", "CodingVP8">>, <<"VP9", "CodingVP9">>, <<"HEVC", "CodingHEVC">>,
    <<"VC1", "CodingVC1">>, <<"AVS", "CodingAVS">> >>

kMAFormatMappingList == << <<"YUV420SP", "FMT_YUV420SP">>, <<"YUV420P", "FMT_YUV420P">> >>
kMARCModeMappingList == << <<"CBR", "MODE_CBR">>, <<"VBR", "MODE_VBR">>, <<"CQP", "MODE_VBR">> >>

(* The row of the table that has x in the given column, or else default.   *)
Translate(table, from, to, x, default) ==
    LET rows == {i \in DOMAIN table : table[i][from] = x}
    IN  IF rows = {} THEN default
        ELSE table[CHOOSE i \in rows : \A j \in rows : i <= j][to]

fa_utils_to_rt_codec_id(av) == Translate(kFdCodecMappingList, 2, 1, av, "Unused")
fa_utils_to_av_codec_id(rt) == Translate(kFdCodecMappingList, 1, 2, rt, "NONE")
ma_rt_to_mpp_codec_id(rt)   == Translate(kMACodecIDMappingList, 1, 2, rt, "CodingUnused")

(* What is not in the table becomes the default without an error.          *)
ma_rt_to_mpp_color_format(rt) == Translate(kMAFormatMappingList, 1, 2, rt, "FMT_YUV420SP")
ma_rt_to_mpp_rc_mode(rt)      == Translate(kMARCModeMappingList, 1, 2, rt, "MODE_VBR")

-----------------------------------------------------------------------------
(* Packets and frames in a buffer.  Every field has as its value the       *)
(* number of the packet or frame that it comes from.                       *)

PacketFields == {"PacketPtr", "PacketPts", "PacketDts", "PacketPos", "PacketSize",
                 "PacketFlag", "PacketIndex", "PacketData"}
FrameFields  == {"FrameW", "FrameH", "FramePts", "DisplayW", "DisplayH"}
FrameOnly    == {"FrameType", "FieldOrder"}   \* stored, and never read again

Stored(fields, n) == [f \in fields |-> n]

(* setData() clears the metadata.                                          *)
setData(n) == [data |-> n, meta |-> Stored({}, n)]

rt_mediabuf_from_packet(b, n) ==
    [b EXCEPT !.meta = [f \in DOMAIN b.meta \union PacketFields |->
                           IF f \in PacketFields THEN n ELSE b.meta[f]]]
rt_mediabuf_from_frame(b, n) == [setData(n) EXCEPT !.meta = Stored(FrameFields \union FrameOnly, n)]

(* A field that the metadata has not stays as it was in the packet.        *)
rt_mediabuf_goto_packet(b, pkt) ==
    [f \in PacketFields |-> IF f \in DOMAIN b.meta THEN b.meta[f] ELSE pkt[f]]

(* The frame is zeroed first, and its size is that of the whole buffer.    *)
rt_mediabuf_goto_frame(b) ==
    [f \in FrameFields \union {"Data", "Size"} |->
        IF f \in {"Data", "Size"} THEN b.data ELSE IF f \in DOMAIN b.meta THEN b.meta[f] ELSE 0]

(* pullBuffer() of the demuxer puts a packet into a buffer, and the owner  *)
(* of the pictures a frame.                                                *)
PutPacket ==
    /\ buffer' = rt_mediabuf_from_packet(setData(puts + 1), puts + 1)
    /\ put' = [kind |-> "packet", number |-> puts + 1]
PutFrame ==
    /\ buffer' = rt_mediabuf_from_frame(buffer, puts + 1)
    /\ put' = [kind |-> "frame", number |-> puts + 1]

Carry ==
    /\ task = "carry" /\ puts < MaxPuts
    /\ PutPacket \/ PutFrame
    /\ puts' = puts + 1
    /\ UNCHANGED <<task, picture, at, dest, colours>>

-----------------------------------------------------------------------------
(* Pixels.                                                                 *)

Clamp(x) == IF x > 255 THEN 255 ELSE IF x < 0 THEN 0 ELSE x

YUV2R(y, u, v) == Clamp(y + ((v - 128) * 1436) \div 1024)
YUV2G(y, u, v) == Clamp(y - ((u - 128) * 352 + (v - 128) * 731) \div 1024)
YUV2B(y, u, v) == Clamp(y + ((u - 128) * 1814) \div 1024)

Pixel(y, u, v) == [of |-> <<y, u, v>>,
                   rgb |-> <<YUV2R(y, u, v), YUV2G(y, u, v), YUV2B(y, u, v)>>]

Begin(w, h) == [iy |-> 0, ix |-> 0, y |-> 0, u |-> w * h, v |-> w * h + (w * h) \div 4]

(* Two pixels of a line share a sample of U and one of V.                  *)
PaintPair ==
    /\ at.iy < picture.height /\ at.ix < picture.width
    /\ dest' = dest \o << <<at.y, at.u, at.v>>, <<at.y + 1, at.u, at.v>> >>
    /\ \E y1, y2, u, v \in Samples : colours' = {Pixel(y1, u, v), Pixel(y2, u, v)}
    /\ at' = [at EXCEPT !.ix = @ + 2, !.y = @ + 2, !.u = @ + 1, !.v = @ + 1]

(* Mutant: the lines of odd number rewind, not those of even number.       *)
RewindOdd ==
    /\ at.iy < picture.height /\ at.ix >= picture.width
    /\ LET back == IF at.iy % 2 = 1 THEN picture.width \div 2 ELSE 0
       IN  at' = [at EXCEPT !.iy = @ + 1, !.ix = 0, !.u = @ - back, !.v = @ - back]
    /\ UNCHANGED <<dest, colours>>

(* The next line uses the samples of U and V of an even line again.        *)
NextLine ==
    /\ at.iy < picture.height /\ at.ix >= picture.width
    /\ LET back == IF at.iy % 2 = 0 THEN picture.width \div 2 ELSE 0
       IN  at' = [at EXCEPT !.iy = @ + 1, !.ix = 0, !.u = @ - back, !.v = @ - back]
    /\ UNCHANGED <<dest, colours>>

fa_utils_yuv420_to_rgb ==
    /\ task = "paint"
    /\ PaintPair \/ NextLine
    /\ UNCHANGED <<task, buffer, put, puts, picture>>

-----------------------------------------------------------------------------
Init ==
    /\ task \in {"carry", "paint"}
    /\ buffer = setData(0) /\ put = [kind |-> "none", number |-> 0] /\ puts = 0
    /\ picture \in [width : Sizes, height : Sizes]
    /\ at = Begin(picture.width, picture.height) /\ dest = <<>> /\ colours = {}

Next == Carry \/ fa_utils_yuv420_to_rgb

Spec == Init /\ [][Next]_vars

-----------------------------------------------------------------------------
AvCodecs == {kFdCodecMappingList[i][2] : i \in DOMAIN kFdCodecMappingList} \union {"OPUS", "AV1"}
Software(av) == fa_utils_to_av_codec_id(fa_utils_to_rt_codec_id(av))
Hardware(av) == ma_rt_to_mpp_codec_id(fa_utils_to_rt_codec_id(av))

(* CodecsReached: the decoder that is opened for a stream is the stream's  *)
(* codec, or none; the software decoder knows every codec that the         *)
(* hardware knows, and no two codecs share a decoder of the hardware       *)
(* (FFAdapterUtils.cpp, MpiAdapterUtils.cpp).                              *)
CodecsReached ==
    \A a \in AvCodecs :
        /\ Software(a) \in {a, "NONE"}
        /\ Software(a) = "NONE" => Hardware(a) = "CodingUnused"
        /\ \A b \in AvCodecs \ {a} : Hardware(a) = Hardware(b) => Hardware(a) = "CodingUnused"

(* EncoderAsked: pictures of the two formats that mpp is given keep their  *)
(* format, and a constant bit rate is asked for when it is wanted and only *)
(* then; every format that is not in the table passes for YUV420SP         *)
(* (MpiAdapterUtils.cpp).                                                  *)
EncoderAsked ==
    /\ ma_rt_to_mpp_color_format("YUV420P") # ma_rt_to_mpp_color_format("YUV420SP")
    /\ \A mode \in {"DISABLE", "CBR", "VBR", "CQP"} :
        (ma_rt_to_mpp_rc_mode(mode) = "MODE_CBR") = (mode = "CBR")

(* CarriedWhole: a buffer that is used again tells of what was put into it *)
(* last and of nothing that it carried before, whatever the packet held    *)
(* into which it is read (RTMediaData.cpp).                                *)
CarriedWhole ==
    /\ put.kind = "frame" =>
        /\ \A f \in DOMAIN rt_mediabuf_goto_frame(buffer) : rt_mediabuf_goto_frame(buffer)[f] = put.number
        /\ rt_mediabuf_goto_packet(buffer, Stored(PacketFields, -1)) = Stored(PacketFields, -1)
    /\ put.kind = "packet" =>
        rt_mediabuf_goto_packet(buffer, Stored(PacketFields, -1)) = Stored(PacketFields, put.number)

(* The n-th pixel is made of its own sample of Y and the sample of U and V *)
(* that the square of four pixels around it shares, and none of another    *)
(* plane; the pointers stay within their planes.                           *)
PixelsPlaced ==
    LET w == picture.width
        size == w * picture.height
        Shared(n) == (((n - 1) \div w) \div 2) * (w \div 2) + ((n - 1) % w) \div 2
    IN  \A n \in DOMAIN dest :
            /\ n <= size
            /\ dest[n] = <<n - 1, size + Shared(n), size + size \div 4 + Shared(n)>>

(* The colours are those of the full range conversion of BT.601, which has *)
(* its factors in thousandths, to little more than one level.              *)
Near(c, exact) ==
    LET bounded == IF exact < 0 THEN 0 ELSE IF exact > 255000 THEN 255000 ELSE exact
    IN  bounded - 1100 <= 1000 * c /\ 1000 * c <= bounded + 1100

ColoursNear ==
    \A p \in colours :
        LET y == p.of[1] u == p.of[2] - 128 v == p.of[3] - 128
        IN  /\ Near(p.rgb[1], 1000 * y + 1402 * v)
            /\ Near(p.rgb[2], 1000 * y - 344 * u - 714 * v)
            /\ Near(p.rgb[3], 1000 * y + 1772 * u)

(* Whatever is converted arrives as what it was.                           *)
ConversionsKept == CodecsReached /\ EncoderAsked /\ CarriedWhole /\ PixelsPlaced /\ ColoursNear
=============================================================================
