---------------------------- MODULE MCAudioPlayer ----------------------------
(* Instances of AudioPlayer for TLC. *)
EXTENDS AudioPlayer, TLC

CONSTANTS i1, i2, t1, t2, p1, p2

MCIds == {i1, i2}
MCTwoTracks == {t1, t2}
MCPCMs == {p1, p2}
MCOneDevice == {p1}
MCLength == t1 :> 1 @@ t2 :> 3
MCLengthZero == t1 :> 0 @@ t2 :> 2
Mono == [frame |-> 1, max |-> 2]
Stereo == [frame |-> 2, max |-> 2]
MCFormats == {Mono, Stereo}
MCMono == {Mono}
MCForever == {-1, 1, 2}
MCCounted == {1, 2}
=============================================================================
