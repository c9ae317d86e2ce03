----------------------------- MODULE MCPlayback -----------------------------
(***************************************************************************)
(* Playback for TLC.  The exponents are the ones the tests of convint8     *)
(* divide, with the largest shift and the ones next to 1.0; the fractions  *)
(* lie on either side of where the subtraction of 1 << 8 carries, for the  *)
(* shifts by 0, 1 and 7.                                                   *)
(***************************************************************************)
EXTENDS Playback

MCAudio ==
  [sign : {0, 1},
   exp : {0, 119, 120, 126, 127, 128, 134, 135},
   frac : {0, 255, 256, 511, 512, 32767, 32768, 8388607}]
=============================================================================
