------------------------------- MODULE MCDemuxer -------------------------------
(* Small instances of Demuxer for TLC: streams of a few packets.           *)
EXTENDS Demuxer

(* One packet of another track, a cover picture, between the audio.  The   *)
(* first two have no duration and the last one is large: the deque of the  *)
(* audio may be full while its duration is short.                          *)
WithPicture   == <<"audio", "video", "audio", "audio">>
ShortAndLong  == <<0, 0, 2, 2>>
SmallAndLarge == <<1, 1, 1, 3>>

(* More packets of the other track than the cache may hold.                *)
WithVideo == <<"video", "audio", "video", "audio">>
Ones      == <<1, 1, 1, 1>>
=============================================================================
