------------------------------- MODULE MCDecoder -------------------------------
(* Small instances of Decoder for TLC: a plain stream, one whose codec     *)
(* keeps a packet, one that ends twice, one with two frames in a packet,   *)
(* and one that bypasses the codec.                                        *)
EXTENDS Decoder

Stream(v, d, e, r, b) == [video |-> v, delay |-> d, ends |-> e, rich |-> r, bypass |-> b]

AllStreams == {Stream(TRUE, 0, {2, 3}, {}, FALSE), Stream(TRUE, 1, {3}, {}, FALSE),
               Stream(FALSE, 0, {2, 3}, {}, FALSE), Stream(FALSE, 0, {3}, {1, 2}, FALSE),
               Stream(FALSE, 0, {3}, {}, TRUE)}
PlainStream == {Stream(FALSE, 0, {3}, {}, FALSE)}
=============================================================================
