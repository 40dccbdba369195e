----------------------------- MODULE MCVideoCodec -----------------------------
(***************************************************************************)
(* Streams for TLC's runs of DVDVideoCodecPS5.                             *)
(***************************************************************************)
EXTENDS DVDVideoCodecPS5

(* H.264, long enough for two rows of refusals after a picture was shown. *)
H264Stream == <<<<"key">>, <<"inter">>, <<"inter">>, <<"inter">>, <<"inter">>,
                <<"key">>, <<"inter">>, <<"inter">>, <<"inter">>>>

(* HEVC that begins in the middle of a GOP; its keyframe comes late, and   *)
(* is too few access units to be refused often enough.                     *)
MidGopStream == <<<<"rasl">>, <<"inter">>, <<"inter">>, <<"inter">>, <<"none">>, <<"none">>,
                  <<"none">>, <<"inter">>, <<"key">>>>

(* VP9 with superframes: hidden frames and a shown one in one packet.      *)
Vp9Stream == <<<<"key">>, <<"hidden", "inter">>, <<"hidden", "inter">>, <<"key">>,
               <<"hidden", "hidden", "inter">>>>

MCVp9 == {[codec |-> "vp9", packets |-> Vp9Stream]}
MCStreams ==
  {[codec |-> "h264", packets |-> H264Stream], [codec |-> "hevc", packets |-> MidGopStream]}
    \cup MCVp9
===============================================================================
