------------------------------ MODULE Samples ------------------------------
(***************************************************************************)
(* The way of one sample from the network to the DAC: convint8 of          *)
(* src/src/app/stream.rs takes the bits of an f32 apart and makes an i8 of *)
(* them, and src/src/platform/dac.rs makes a 16 bit DMA word of that.      *)
(*                                                                         *)
(* Shifts are products and quotients, casts keep the low bits.  In a build *)
(* with overflow checks the product with the sign panics for -1 * -128;    *)
(* this is the build without.                                              *)
(***************************************************************************)
EXTENDS Integers

(* 2^23                                                                    *)
Top == 8388608

(* The three fields of an f32.                                             *)
F32 == [sign : {0, 1}, exp : 0 .. 255, frac : 0 .. Top - 1]

(* 2^0 .. 2^7, the shifts convint8 makes.                                  *)
Pow2 == [k \in 0 .. 7 |-> <<1, 2, 4, 8, 16, 32, 64, 128>>[k + 1]]

(* u32 or i16 as i8.                                                       *)
AsI8(n) == ((n + 128) % 256) - 128

Sign(x) == IF x.sign = 1 THEN -1 ELSE 1

(* 0x78 and 0x86, beyond which the result is 0 or clipped.                 *)
Tiny(x) == x.exp < 120
Clipped(x) == x.exp > 134

(* frac with its implicit top bit, as a fixed point number with 23 places. *)
Normal(x) ==
  LET frac == x.frac + Top
  IN  IF x.exp <= 127 THEN frac \div Pow2[127 - x.exp] ELSE frac * Pow2[x.exp - 127]

(* Defect: the subtraction of 1 << 8 is left out.                          *)
convint8_unrounded(x) ==
  IF Tiny(x) THEN 0
  ELSE IF Clipped(x) THEN 127 * Sign(x)
  ELSE AsI8(Sign(x) * AsI8(Normal(x) \div 65536))

(* The special case of 0.0 gives what Tiny does.                           *)
convint8(x) ==
  IF Tiny(x) THEN 0
  ELSE IF Clipped(x) THEN 127 * Sign(x)
  ELSE AsI8(Sign(x) * AsI8((Normal(x) - 256) \div 65536))

(* DmaFrame::from: wrapping_add_signed of the bias, then << 8.             *)
DmaWord(v) == ((128 + v) % 256) * 256

(* DmaFrame::default                                                       *)
DmaSilence == 32768

Silence == [sign |-> 0, exp |-> 0, frac |-> 0]
=============================================================================
