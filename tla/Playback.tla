------------------------------ MODULE Playback ------------------------------
(***************************************************************************)
(* The loop of run_stream in src/src/app/stream.rs over the jitter buffer  *)
(* of PacketQueue.tla: each turn pops a packet, or finds none, converts    *)
(* its samples and hands them to the DAC, whose interrupt makes DMA words  *)
(* of them, or of nothing when the ring has run dry.  The ring in between  *)
(* keeps order (module Dac); here it has no length.                        *)
(*                                                                         *)
(* One sample of one channel stands for the packet: the conversion is the  *)
(* same for all, and the packet's samples matter only when it is played,   *)
(* so that is when they are chosen.                                        *)
(***************************************************************************)
EXTENDS PacketQueue, Samples

CONSTANT Audio       \* samples packets carry

ASSUME AudioAssumption == Audio \subseteq F32

VARIABLES
  sample,            \* the sample on its way to the converter
  level              \* the DMA word that came of it

playVars == <<vars, sample, level>>

(* Dac::new has filled the ring with Frame(0, 0).                          *)
PlayInit ==
  /\ Init
  /\ sample = Silence
  /\ level = DmaWord(0)

Network ==
  /\ \E p \in Packets : InsertPacket(p) \/ DropPacket(p)
  /\ UNCHANGED <<sample, level>>

(* Defect: the frames of the last packet are played again for a gap.       *)
PlayRepeat ==
  /\ PopFront
  /\ \E x \in Audio :
       sample' = IF played' = None THEN Silence ELSE x
  /\ level' = IF played' = None THEN level ELSE DmaWord(convint8(sample'))

(* One turn of the loop, and on_convert_done over its frames.              *)
Play ==
  /\ PopFront
  /\ \E x \in Audio :
       sample' = IF played' = None THEN Silence ELSE x
  /\ level' = DmaWord(convint8(sample'))

(* on_convert_done with an empty ring.                                     *)
Underrun ==
  /\ sample' = Silence
  /\ level' = DmaSilence
  /\ UNCHANGED vars

PlayNext == Network \/ Play \/ Underrun

PlaySpec == PlayInit /\ [][PlayNext]_playVars

----------------------------------------------------------------------------
(* Properties *)

(* The number an f32 stands for grows with its bits.                       *)
Key(x) == Sign(x) * (x.exp * Top + x.frac)

(* [-1.0, 1.0], the range the comment in convint8 speaks of.               *)
InRange(x) == -127 * Top <= Key(x) /\ Key(x) <= 127 * Top

(* |x| * 2^30, for x in range and not tiny.                                *)
Magnitude(x) == (x.frac + Top) * Pow2[x.exp - 120]

(* |x| * 2^30 split into steps of the 8 bit converter.                     *)
WholeSteps(x) == IF Tiny(x) THEN 0 ELSE (Magnitude(x) - 32768) \div Top

(* A sample in range comes out as the level its number asks for, a step     *)
(* being taken once it is exceeded by 2^-15: nowhere do the shifts and      *)
(* casts wrap, at 1.0 and at -1.0 neither, and 0.0, a gap and an underrun   *)
(* all give the level in the middle.                                        *)
LevelIsExact ==
  InRange(sample) => level = 32768 + 256 * Sign(sample) * WholeSteps(sample)

(* From one packet to the next the level moves the way the sample does.     *)
LevelFollows ==
  [][InRange(sample) /\ InRange(sample') /\ Key(sample) <= Key(sample')
       => level <= level']_playVars
=============================================================================
