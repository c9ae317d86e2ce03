----------------------------- MODULE DacProofs -----------------------------
(***************************************************************************)
(* Dac, for any number of stream tasks and any sizes: the driver's refusal *)
(* of a second opening is enough for the ring to be reset alone, and then  *)
(* what the interrupt plays are the frames of the present opening in turn. *)
(* A stream task that is in time is never behind it, if ring, DMA buffer   *)
(* and packet are in the proportions of the firmware.  To the others the   *)
(* whole is a DacLease, and to its waker set a user of WakerSets.          *)
(***************************************************************************)
EXTENDS Dac, FiniteSetTheorems, SequenceTheorems, TLAPS

(* The task that has the DAC has it alone, and its place says how far the  *)
(* driver is.                                                              *)
Exclusive ==
  /\ \A t, u \in Streams : pc[t] \in HasDac /\ pc[u] \in HasDac => t = u
  /\ driver # "none" => \E t \in Streams : pc[t] \in HasDac
  /\ \A t \in Streams :
       /\ pc[t] \in HasDac => driver # "none"
       /\ pc[t] \in {"reset", "fill", "register", "enable"} => driver = "open"
       /\ pc[t] = "start" => driver = "enabled"
       /\ pc[t] \in Writing \cup {"pop"} => driver = "async"
       /\ pc[t] = "disable" => driver # "async"
       /\ pc[t] = "delete" => driver = "open"

(* The interrupt runs only between the start of the converter and the      *)
(* deletion of its channels.                                               *)
Confined ==
  isr # "idle" =>
    \E t \in Streams : pc[t] \in Writing \cup Closing \cup {"pop"}

(* A write under way finds the frames it has yet to show unnumbered.       *)
Budget ==
  \A t \in Streams :
    /\ pc[t] \in Writing => made + left[t] <= MaxFrames
    /\ pc[t] = "show" => offer[t] <= left[t]

(* The ring holds the silence of Dac::new, as far as it has not been       *)
(* played, and then every frame that has not been.                         *)
Quiet == Len(chan) - (made - heard)

Content ==
  /\ heard <= made /\ made - heard <= Len(chan)
  /\ \A i \in DOMAIN chan : chan[i] = IF i <= Quiet THEN 0 ELSE made - Len(chan) + i
  /\ \A t \in Streams : pc[t] = "fill" => chan = <<>>

IInv == TypeOK /\ Exclusive /\ Confined /\ Budget /\ Content /\ PlayedInTurn

USE DacAssumption

LEMMA SizesNat ==
  /\ Room \in Nat /\ DmaFrames \in Nat /\ PacketFrames \in Nat
  /\ MaxFrames \in Nat /\ Slack \in Nat
OBVIOUS

LEMMA InvInit == Init => IInv
<1> SUFFICES ASSUME Init PROVE IInv
  OBVIOUS
<1> USE DEF Init, Ring!Init, Waker!WakerInit
<1>1. TypeOK
  <2>1. Waker!WakerTypeOK
    BY DEF Waker!WakerTypeOK
  <2>2. chan = <<>> /\ out = <<>> /\ Len(chan) = 0 /\ Len(out) = 0
    OBVIOUS
  <2>3. /\ chan \in Seq(0 .. MaxFrames) /\ Len(chan) <= Room
        /\ out \in Seq(0 .. MaxFrames) /\ Len(out) <= DmaFrames
    BY <2>2, SizesNat
  <2>4. /\ made \in 0 .. MaxFrames /\ heard \in 0 .. MaxFrames
        /\ take \in 0 .. DmaFrames /\ lag \in 0 .. Slack + 1
        /\ 0 \in 0 .. PacketFrames
    BY SizesNat
  <2>5. /\ left \in [Streams -> 0 .. PacketFrames]
        /\ offer \in [Streams -> 0 .. PacketFrames]
    BY <2>4
  <2> QED BY <2>1, <2>3, <2>4, <2>5 DEF TypeOK, HasDac
<1>2. Exclusive /\ Confined /\ Budget /\ PlayedInTurn
  BY DEF Exclusive, Confined, Budget, PlayedInTurn, HasDac, Opening, Writing, Closing
<1>3. Content
  BY DEF Content
<1> QED BY <1>1, <1>2, <1>3 DEF IInv

----------------------------------------------------------------------------
(* Who has the DAC *)

LEMMA ExclusiveStep ==
  ASSUME TypeOK, Exclusive, Confined, [Next]_vars
  PROVE  Exclusive' /\ Confined'
<1> USE DEF Exclusive, Confined, HasDac, Opening, Writing, Closing, Goto, wakes
<1>0. /\ pc \in [Streams -> HasDac \cup {"gone", "new"}]
      /\ driver \in {"none", "open", "enabled", "async"}
  BY DEF TypeOK
<1>1. ASSUME NEW t \in Streams, Spawn(t) PROVE Exclusive' /\ Confined'
  BY <1>0, <1>1 DEF Spawn
<1>2. ASSUME NEW t \in Streams, Open(t) PROVE Exclusive' /\ Confined'
  <2>1. CASE driver = "none"
    <3>1. /\ pc[t] = "new" /\ pc' = [pc EXCEPT ![t] = "reset"]
          /\ driver' = "open" /\ UNCHANGED isr
      BY <1>2, <2>1 DEF Open
    <3>2. \A u \in Streams : pc[u] \notin HasDac
      BY <2>1
    <3>3. \A u \in Streams : pc'[u] \in HasDac => u = t
      BY <1>0, <3>1, <3>2
    <3> QED BY <1>0, <3>1, <3>2, <3>3
  <2>2. CASE driver # "none"
    <3>1. /\ pc[t] = "new" /\ pc' = [pc EXCEPT ![t] = "gone"]
          /\ UNCHANGED <<driver, isr>>
      BY <1>2, <2>2 DEF Open
    <3> QED BY <1>0, <3>1
  <2> QED BY <2>1, <2>2
<1>3. ASSUME NEW t \in Streams, Reset(t) \/ Fill(t) \/ Register(t) PROVE Exclusive' /\ Confined'
  BY <1>0, <1>3 DEF Reset, Fill, Register
<1>4. ASSUME NEW t \in Streams, Enable(t) PROVE Exclusive' /\ Confined'
  BY <1>0, <1>4 DEF Enable
<1>5. ASSUME NEW t \in Streams, StartAsyncWriting(t) PROVE Exclusive' /\ Confined'
  BY <1>0, <1>5 DEF StartAsyncWriting
<1>6. ASSUME NEW t \in Streams, Fail(t) \/ Leave(t) PROVE Exclusive' /\ Confined'
  <2>1. /\ pc[t] \in {"register", "enable", "start", "pop"}
        /\ pc' = [pc EXCEPT ![t] = "stop"]
        /\ UNCHANGED <<driver, isr>>
    BY <1>6 DEF Fail, Leave
  <2> QED BY <1>0, <2>1
<1>7. ASSUME NEW t \in Streams, Pop(t) PROVE Exclusive' /\ Confined'
  BY <1>0, <1>7 DEF Pop
<1>8. ASSUME NEW t \in Streams, Write(t) PROVE Exclusive' /\ Confined'
  <2>1. CASE Load(t)
    BY <1>0, <2>1 DEF Load
  <2>2. CASE Show(t)
    BY <1>0, <2>2 DEF Show
  <2>3. CASE ShowNothing(t)
    BY <1>0, <2>3 DEF ShowNothing
  <2>4. CASE AddSelf(t)
    BY <1>0, <2>4 DEF AddSelf
  <2>5. CASE Unpark(t)
    BY <1>0, <2>5 DEF Unpark
  <2> QED BY <1>8, <2>1, <2>2, <2>3, <2>4, <2>5 DEF Write
<1>9. ASSUME NEW t \in Streams, Stop(t) PROVE Exclusive' /\ Confined'
  BY <1>0, <1>9 DEF Stop
<1>10. ASSUME NEW t \in Streams, Disable(t) PROVE Exclusive' /\ Confined'
  BY <1>0, <1>10 DEF Disable
<1>11. ASSUME NEW t \in Streams, Delete(t) PROVE Exclusive' /\ Confined'
  BY <1>0, <1>11 DEF Delete
<1>12. ASSUME NEW t \in Streams, Spurious(t) PROVE Exclusive' /\ Confined'
  BY <1>0, <1>12 DEF Spurious, task
<1>13. CASE Interrupt
  <2>1. UNCHANGED <<pc, driver>>
    BY <1>13 DEF Interrupt, ConvertDone, Copy, WakeFromIsr, NotifyOne, ConvertReturn, task
  <2>2. Exclusive'
    BY <2>1
  <2>3. isr' # "idle" => isr # "idle" \/ driver = "async"
    BY <1>13 DEF Interrupt, ConvertDone, Copy, WakeFromIsr, NotifyOne, ConvertReturn
  <2>4. driver = "async" => \E t \in Streams : pc[t] \in Writing \cup Closing \cup {"pop"}
    <3> SUFFICES ASSUME driver = "async"
                 PROVE  \E t \in Streams : pc[t] \in Writing \cup Closing \cup {"pop"}
      OBVIOUS
    <3>1. PICK t \in Streams : pc[t] \in HasDac
      OBVIOUS
    <3> QED BY <3>1
  <2> QED BY <2>1, <2>2, <2>3, <2>4
<1>14. CASE UNCHANGED vars
  BY <1>14 DEF vars, core, task
<1> HIDE DEF Exclusive, Confined
<1> QED BY <1>1, <1>2, <1>3, <1>4, <1>5, <1>6, <1>7, <1>8, <1>9, <1>10, <1>11,
           <1>12, <1>13, <1>14 DEF Next, StreamStep, InterruptStep, Stream, Close

(* Whoever resets or fills the ring has the DAC, and the converter is not  *)
(* started.                                                                *)
LEMMA Alone == ASSUME Exclusive, Confined PROVE ResetAlone
BY DEF Exclusive, Confined, ResetAlone, HasDac, Opening, Writing, Closing

----------------------------------------------------------------------------
(* What the operations of the ring do *)

LEMMA WriteEffect ==
  ASSUME NEW S, chan \in Seq(S), made \in Nat, NEW n \in Nat,
         \A i \in 1 .. n : made + i \in S, Ring!Write(n)
  PROVE  /\ chan' \in Seq(S) /\ Len(chan') = Len(chan) + n
         /\ \A i \in 1 .. Len(chan) + n :
              chan'[i] = IF i <= Len(chan) THEN chan[i] ELSE made + (i - Len(chan))
         /\ made' = made + n /\ out' = out /\ Len(chan) + n <= Room
<1> DEFINE f == [i \in 1 .. n |-> made + i]
<1>1. f \in Seq(S) /\ Len(f) = n /\ \A i \in 1 .. n : f[i] = made + i
  OBVIOUS
<1>2. chan' = chan \o f /\ made' = made + n /\ out' = out /\ Len(chan) + n <= Room
  BY DEF Ring!Write
<1> HIDE DEF f
<1>3. /\ chan \o f \in Seq(S) /\ Len(chan \o f) = Len(chan) + n
      /\ \A i \in 1 .. Len(chan) + n : (chan \o f)[i] =
            IF i <= Len(chan) THEN chan[i] ELSE f[i - Len(chan)]
  BY <1>1, ConcatProperties
<1>4. Len(chan) \in Nat
  BY LenProperties
<1>5. \A i \in 1 .. Len(chan) + n : i <= Len(chan) \/ i - Len(chan) \in 1 .. n
  BY <1>4
<1> QED BY <1>1, <1>2, <1>3, <1>5

LEMMA ReadEffect ==
  ASSUME NEW S, chan \in Seq(S), NEW n \in Nat, Ring!Read(n)
  PROVE  /\ n <= Len(chan) /\ made' = made
         /\ out' \in Seq(S) /\ Len(out') = n /\ \A i \in 1 .. n : out'[i] = chan[i]
         /\ chan' \in Seq(S) /\ Len(chan') = Len(chan) - n
         /\ \A i \in 1 .. Len(chan) - n : chan'[i] = chan[i + n]
<1>1. /\ Len(chan) \in Nat /\ \A i \in 1 .. Len(chan) : chan[i] \in S
  BY LenProperties
<1>2. /\ n <= Len(chan) /\ made' = made
      /\ out' = SubSeq(chan, 1, n) /\ chan' = SubSeq(chan, n + 1, Len(chan))
  BY DEF Ring!Read
<1>3. /\ SubSeq(chan, 1, n) \in Seq(S)
      /\ Len(SubSeq(chan, 1, n)) = IF 1 <= n THEN n - 1 + 1 ELSE 0
      /\ \A i \in 1 .. n - 1 + 1 : SubSeq(chan, 1, n)[i] = chan[1 + i - 1]
  <2>1. \A i \in 1 .. n : chan[i] \in S
    BY <1>1, <1>2
  <2>2. 1 \in Int /\ n \in Int
    OBVIOUS
  <2> QED BY <2>1, <2>2, SubSeqProperties
<1>4. /\ SubSeq(chan, n + 1, Len(chan)) \in Seq(S)
      /\ Len(SubSeq(chan, n + 1, Len(chan))) =
           IF n + 1 <= Len(chan) THEN Len(chan) - (n + 1) + 1 ELSE 0
      /\ \A i \in 1 .. Len(chan) - (n + 1) + 1 :
           SubSeq(chan, n + 1, Len(chan))[i] = chan[n + 1 + i - 1]
  <2>1. \A i \in n + 1 .. Len(chan) : chan[i] \in S
    BY <1>1, <1>2
  <2>2. n + 1 \in Int /\ Len(chan) \in Int
    BY <1>1
  <2> QED BY <2>1, <2>2, SubSeqProperties
<1>5. /\ (IF 1 <= n THEN n - 1 + 1 ELSE 0) = n
      /\ \A i \in 1 .. n : i \in 1 .. n - 1 + 1 /\ 1 + i - 1 = i
  OBVIOUS
<1>6. /\ (IF n + 1 <= Len(chan) THEN Len(chan) - (n + 1) + 1 ELSE 0) = Len(chan) - n
      /\ \A i \in 1 .. Len(chan) - n :
           i \in 1 .. Len(chan) - (n + 1) + 1 /\ n + 1 + i - 1 = i + n
  BY <1>1, <1>2
<1> QED BY <1>2, <1>3, <1>4, <1>5, <1>6

LEMMA FillEffect ==
  ASSUME NEW S, 0 \in S, chan = <<>>, Ring!Fill
  PROVE  /\ chan' \in Seq(S) /\ Len(chan') = Room /\ \A i \in 1 .. Room : chan'[i] = 0
         /\ UNCHANGED <<made, out>>
<1> DEFINE f == [i \in 1 .. Room |-> 0]
<1>1. f \in Seq(S) /\ Len(f) = Room /\ \A i \in 1 .. Room : f[i] = 0
  BY SizesNat
<1>2. Room - Len(chan) = Room
  BY SizesNat
<1>3. chan' = <<>> \o f /\ UNCHANGED <<made, out>>
  BY <1>2 DEF Ring!Fill
<1> HIDE DEF f
<1> QED BY <1>1, <1>3, ConcatEmptySeq

(* The frames among the first n of the ring that are no silence.           *)
LEMMA Counted ==
  ASSUME TypeOK, Content, NEW n \in 0 .. Len(chan)
  PROVE  Cardinality({i \in 1 .. n : chan[i] # 0}) = IF n <= Quiet THEN 0 ELSE n - Quiet
<1>1. /\ Len(chan) \in Nat /\ DOMAIN chan = 1 .. Len(chan)
      /\ made \in Nat /\ heard \in Nat /\ n \in Nat
  BY SizesNat DEF TypeOK
<1>2. Quiet \in Nat /\ made - Len(chan) = heard - Quiet
  BY <1>1 DEF Content, Quiet
<1>3. \A i \in 1 .. n : chan[i] = IF i <= Quiet THEN 0 ELSE made - Len(chan) + i
  BY <1>1 DEF Content
<1>4. \A i \in 1 .. n : chan[i] # 0 <=> i > Quiet
  BY <1>1, <1>2, <1>3
<1>5. {i \in 1 .. n : chan[i] # 0} = Quiet + 1 .. n
  BY <1>1, <1>2, <1>4
<1>6. Cardinality(Quiet + 1 .. n) = IF Quiet + 1 > n THEN 0 ELSE n - (Quiet + 1) + 1
  <2>1. Quiet + 1 \in Int /\ n \in Int
    BY <1>1, <1>2
  <2> QED BY <2>1, FS_Interval, Zenon
<1>7. (IF Quiet + 1 > n THEN 0 ELSE n - (Quiet + 1) + 1) = IF n <= Quiet THEN 0 ELSE n - Quiet
  BY <1>1, <1>2
<1> QED BY <1>5, <1>6, <1>7, Zenon

----------------------------------------------------------------------------
(* The contents of the ring *)

(* Few steps touch the ring.                                               *)
LEMMA RingSteps ==
  ASSUME TypeOK, [Next]_vars
  PROVE  \/ \E t \in Streams : Reset(t) \/ Fill(t) \/ Show(t)
         \/ Copy
         \/ /\ UNCHANGED <<chan, made, out, heard>>
            /\ \A t \in Streams : pc'[t] = "fill" => pc[t] = "fill"
            /\ isr' = "wake" => isr = "wake"
<1> DEFINE Rest == /\ UNCHANGED <<chan, made, out, heard>>
                   /\ \A t \in Streams : pc'[t] = "fill" => pc[t] = "fill"
                   /\ isr' = "wake" => isr = "wake"
<1> USE DEF ring, task, Goto, TypeOK
<1>1. ASSUME NEW t \in Streams, Spawn(t) \/ Open(t) \/ Register(t) \/ Enable(t) PROVE Rest
  BY <1>1 DEF Spawn, Open, Register, Enable
<1>2. ASSUME NEW t \in Streams, StartAsyncWriting(t) \/ Fail(t) \/ Pop(t) \/ Leave(t) PROVE Rest
  BY <1>2 DEF StartAsyncWriting, Fail, Pop, Leave
<1>3. ASSUME NEW t \in Streams, Load(t) \/ ShowNothing(t) \/ AddSelf(t) \/ Unpark(t) PROVE Rest
  BY <1>3 DEF Load, ShowNothing, AddSelf, Unpark
<1>4. ASSUME NEW t \in Streams, Close(t) \/ Spurious(t) PROVE Rest
  BY <1>4 DEF Close, Stop, Disable, Delete, Spurious
<1>5. CASE ConvertDone \/ WakeFromIsr \/ NotifyOne \/ ConvertReturn
  BY <1>5 DEF ConvertDone, WakeFromIsr, NotifyOne, ConvertReturn
<1>6. CASE UNCHANGED vars
  BY <1>6 DEF vars, core
<1> HIDE DEF Rest, TypeOK
<1>7. ASSUME NEW t \in Streams, Stream(t) PROVE Rest \/ Reset(t) \/ Fill(t) \/ Show(t)
  BY <1>1, <1>2, <1>3, <1>4, <1>7 DEF Stream, Write
<1> QED BY <1>5, <1>6, <1>7 DEF Next, StreamStep, InterruptStep, Interrupt, Rest

RingTypeOK ==
  /\ chan \in Seq(0 .. MaxFrames) /\ Len(chan) <= Room
  /\ out \in Seq(0 .. MaxFrames) /\ Len(out) <= DmaFrames
  /\ made \in 0 .. MaxFrames /\ heard \in 0 .. MaxFrames

LEMMA ShowStep ==
  ASSUME IInv, NEW t \in Streams, Show(t)
  PROVE  RingTypeOK' /\ Content'
<1> DEFINE n == offer[t]
<1>1. /\ n \in Nat /\ made \in Nat /\ heard \in Nat /\ Len(chan) \in Nat
      /\ chan \in Seq(0 .. MaxFrames) /\ DOMAIN chan = 1 .. Len(chan)
      /\ MaxFrames \in Nat
  BY SizesNat DEF IInv, TypeOK
<1>2. made + n <= MaxFrames
  <2>1. left[t] \in Nat /\ made + left[t] <= MaxFrames /\ n <= left[t]
    BY SizesNat DEF IInv, TypeOK, Budget, Show, Goto, Writing
  <2> QED BY <1>1, <2>1
<1>3. \A i \in 1 .. n : made + i \in 0 .. MaxFrames
  BY <1>1, <1>2
<1>4. Ring!Write(n) /\ heard' = heard /\ \A u \in Streams : pc'[u] = "fill" => pc[u] = "fill"
  BY DEF Show, Goto, IInv, TypeOK
<1> HIDE DEF n
<1>5. /\ chan' \in Seq(0 .. MaxFrames) /\ Len(chan') = Len(chan) + n
      /\ \A i \in 1 .. Len(chan) + n :
           chan'[i] = IF i <= Len(chan) THEN chan[i] ELSE made + (i - Len(chan))
      /\ made' = made + n /\ out' = out /\ Len(chan) + n <= Room
  BY <1>1, <1>3, <1>4, WriteEffect
<1>6. RingTypeOK'
  <2>1. /\ out \in Seq(0 .. MaxFrames) /\ Len(out) <= DmaFrames /\ heard \in 0 .. MaxFrames
    BY DEF IInv, TypeOK
  <2>2. made + n \in 0 .. MaxFrames
    BY <1>1, <1>2
  <2> QED BY <1>4, <1>5, <2>1, <2>2 DEF RingTypeOK
<1>7. DOMAIN chan' = 1 .. Len(chan) + n
  BY <1>5
<1>8. heard <= made /\ made - heard <= Len(chan)
      /\ \A i \in 1 .. Len(chan) :
           chan[i] = IF i <= Len(chan) - (made - heard) THEN 0 ELSE made - Len(chan) + i
  BY <1>1 DEF IInv, Content, Quiet
<1>9. heard' <= made' /\ made' - heard' <= Len(chan') /\ Quiet' = Quiet
  BY <1>1, <1>4, <1>5, <1>8 DEF Quiet
<1>10. ASSUME NEW i \in 1 .. Len(chan) + n
       PROVE  chan'[i] = IF i <= Quiet' THEN 0 ELSE made' - Len(chan') + i
  <2>1. CASE i <= Len(chan)
    <3>1. i \in 1 .. Len(chan) /\ chan'[i] = chan[i]
      BY <1>1, <1>5, <2>1
    <3>2. Quiet' = Len(chan) - (made - heard) /\ made' - Len(chan') = made - Len(chan)
      BY <1>1, <1>5, <1>9 DEF Quiet
    <3> QED BY <1>8, <3>1, <3>2
  <2>2. CASE i > Len(chan)
    <3>1. chan'[i] = made + (i - Len(chan))
      BY <1>1, <1>5, <2>2
    <3>2. ~(i <= Quiet')
      BY <1>1, <1>5, <1>8, <1>9, <2>2 DEF Quiet
    <3>3. made' - Len(chan') + i = made + (i - Len(chan))
      BY <1>1, <1>5
    <3> QED BY <3>1, <3>2, <3>3
  <2> QED BY <1>1, <2>1, <2>2
<1>11. \A u \in Streams : pc'[u] # "fill"
  BY <1>4 DEF IInv, Exclusive, Show, Goto, HasDac, Writing, Opening
<1> QED BY <1>6, <1>7, <1>9, <1>10, <1>11 DEF Content

LEMMA CopyStep ==
  ASSUME IInv, Copy
  PROVE  RingTypeOK' /\ Content' /\ PlayedInTurn'
<1> DEFINE q == Quiet
           c == IF take <= q THEN 0 ELSE take - q
<1>1. /\ take \in Nat /\ take <= DmaFrames
      /\ made \in Nat /\ heard \in Nat /\ Len(chan) \in Nat
      /\ chan \in Seq(0 .. MaxFrames) /\ DOMAIN chan = 1 .. Len(chan)
      /\ made <= MaxFrames /\ MaxFrames \in Nat /\ Room \in Nat /\ Len(chan) <= Room
  BY SizesNat DEF IInv, TypeOK
<1>2. /\ take <= Len(chan) /\ made' = made
      /\ out' \in Seq(0 .. MaxFrames) /\ Len(out') = take
      /\ \A i \in 1 .. take : out'[i] = chan[i]
      /\ chan' \in Seq(0 .. MaxFrames) /\ Len(chan') = Len(chan) - take
      /\ \A i \in 1 .. Len(chan) - take : chan'[i] = chan[i + take]
  <2>1. Ring!Read(take)
    BY DEF Copy
  <2> QED BY <1>1, <2>1, ReadEffect, Zenon
<1>3. heard' = heard + c
  <2>1. take \in 0 .. Len(chan)
    BY <1>1, <1>2
  <2> QED BY <2>1, Counted DEF Copy, IInv
<1>4. \A i \in 1 .. Len(chan) : chan[i] = IF i <= q THEN 0 ELSE made - Len(chan) + i
  BY <1>1 DEF IInv, Content
<1>5. heard <= made /\ made - heard <= Len(chan) /\ q = Len(chan) - (made - heard)
  BY DEF IInv, Content, Quiet
<1> HIDE DEF q
<1>6. q \in Nat /\ q <= Len(chan) /\ made - Len(chan) = heard - q /\ c \in Nat
  BY <1>1, <1>5
<1>7. /\ heard' \in Nat /\ heard' <= made /\ made - heard' <= Len(chan) - take
      /\ Len(chan) - take - (made - heard') = IF take <= q THEN q - take ELSE 0
  <2>1. CASE take <= q
    BY <1>1, <1>2, <1>3, <1>5, <1>6, <2>1
  <2>2. CASE take > q
    BY SMTT(30), <1>1, <1>2, <1>3, <1>5, <1>6, <2>2
  <2> QED BY <1>1, <1>6, <2>1, <2>2
<1>8. Quiet' = IF take <= q THEN q - take ELSE 0
  BY <1>2, <1>7 DEF Quiet
<1>9. RingTypeOK'
  <2>1. /\ made' \in 0 .. MaxFrames /\ heard' \in 0 .. MaxFrames
        /\ Len(chan') <= Room /\ Len(out') <= DmaFrames
    BY <1>1, <1>2, <1>7
  <2> QED BY <1>2, <2>1 DEF RingTypeOK
<1>10. ASSUME NEW i \in DOMAIN chan'
       PROVE  chan'[i] = IF i <= Quiet' THEN 0 ELSE made' - Len(chan') + i
  <2>1. i \in 1 .. Len(chan) - take
    BY <1>2
  <2>2. i + take \in 1 .. Len(chan)
    <3>1. i \in Nat /\ 1 <= i /\ i <= Len(chan) - take
      BY <1>1, <1>2, <2>1
    <3> QED BY <1>1, <3>1
  <2>3. chan'[i] = IF i + take <= q THEN 0 ELSE made - Len(chan) + (i + take)
    <3>1. chan'[i] = chan[i + take]
      BY <1>2, <2>1
    <3> QED BY <1>4, <2>2, <3>1
  <2> HIDE DEF c
  <2>4. i + take <= q <=> i <= Quiet'
    BY SMTT(30), <1>1, <1>6, <1>8, <2>1
  <2>5. made - Len(chan) + (i + take) = made' - Len(chan') + i
    BY <1>1, <1>2, <2>1
  <2> QED BY <2>3, <2>4, <2>5
<1>11. \A u \in Streams : pc'[u] # "fill"
  <2>1. pc' = pc /\ isr # "idle"
    BY DEF Copy, task
  <2>2. ResetAlone
    BY Alone DEF IInv
  <2> QED BY <2>1, <2>2 DEF ResetAlone
<1>12. Content'
  <2>1. heard' <= made' /\ made' - heard' <= Len(chan')
    BY <1>2, <1>7
  <2> QED BY <1>10, <1>11, <2>1 DEF Content
<1>13. PlayedInTurn'
  <2> DEFINE s == IF take <= q THEN take ELSE q
  <2>1. s \in 0 .. Len(out')
    BY SMTT(30), <1>1, <1>2, <1>6
  <2>2. ASSUME NEW i \in DOMAIN out'
        PROVE  out'[i] = IF i <= s THEN 0 ELSE heard' - Len(out') + i
    <3>1. i \in 1 .. take /\ i \in 1 .. Len(chan)
      BY <1>1, <1>2
    <3>2. out'[i] = IF i <= q THEN 0 ELSE heard - q + i
      BY <1>2, <1>4, <1>6, <3>1
    <3>3. i <= q <=> i <= s
      BY <1>1, <1>6, <3>1
    <3>4. i > q => heard - q + i = heard' - take + i
      BY <1>1, <1>3, <1>6, <3>1
    <3> HIDE DEF s
    <3> QED BY <1>2, <3>1, <3>2, <3>3, <3>4, <1>6
  <2> HIDE DEF s
  <2> QED BY <2>1, <2>2 DEF PlayedInTurn
<1> QED BY <1>9, <1>12, <1>13

LEMMA RingStep ==
  ASSUME IInv, [Next]_vars
  PROVE  RingTypeOK' /\ Content' /\ PlayedInTurn'
<1>1. RingTypeOK /\ Content /\ PlayedInTurn /\ Exclusive /\ Confined /\ TypeOK
  BY DEF IInv, TypeOK, RingTypeOK
<1>2. CASE Copy
  BY <1>2, CopyStep
<1>3. ASSUME NEW t \in Streams, Show(t) PROVE RingTypeOK' /\ Content' /\ PlayedInTurn'
  <2>1. UNCHANGED <<out, heard, isr>>
    BY <1>3 DEF Show, Ring!Write
  <2> QED BY <1>1, <1>3, <2>1, ShowStep DEF PlayedInTurn
<1>4. ASSUME NEW t \in Streams, Reset(t) PROVE RingTypeOK' /\ Content' /\ PlayedInTurn'
  <2>1. chan' = <<>> /\ Len(chan') = 0 /\ heard' = made /\ UNCHANGED <<made, out, isr>>
    BY <1>4 DEF Reset, Ring!Reset
  <2>2. isr = "idle"
    BY <1>1, <1>4, Alone DEF ResetAlone, Reset, Goto
  <2>3. RingTypeOK'
    BY <1>1, <2>1, SizesNat DEF RingTypeOK
  <2>4. Content'
    BY <1>1, <2>1 DEF Content, TypeOK
  <2> QED BY <2>1, <2>2, <2>3, <2>4 DEF PlayedInTurn
<1>5. ASSUME NEW t \in Streams, Fill(t) PROVE RingTypeOK' /\ Content' /\ PlayedInTurn'
  <2>1. chan = <<>> /\ Ring!Fill /\ UNCHANGED <<heard, isr>>
    BY <1>1, <1>5 DEF Content, Fill, Goto
  <2>2. 0 \in 0 .. MaxFrames
    BY SizesNat
  <2>3. /\ chan' \in Seq(0 .. MaxFrames) /\ Len(chan') = Room
        /\ \A i \in 1 .. Room : chan'[i] = 0
        /\ UNCHANGED <<made, out>>
    BY <2>1, <2>2, FillEffect
  <2>4. RingTypeOK'
    BY <1>1, <2>1, <2>3, SizesNat DEF RingTypeOK
  <2>5. heard = made /\ made \in Nat
    BY <1>1, <2>1, SizesNat DEF Content, TypeOK
  <2>6. Quiet' = Room /\ DOMAIN chan' = 1 .. Room
    BY <2>1, <2>3, <2>5, SizesNat DEF Quiet
  <2>7. heard' <= made' /\ made' - heard' <= Len(chan')
    BY <2>1, <2>3, <2>5, SizesNat
  <2>8. \A i \in DOMAIN chan' : chan'[i] = 0 /\ i <= Quiet'
    BY <2>3, <2>6, SizesNat
  <2>9. \A u \in Streams : pc'[u] # "fill"
    BY <1>1, <1>5 DEF Fill, Goto, Exclusive, TypeOK, HasDac, Opening
  <2>10. Content'
    BY <2>7, <2>8, <2>9 DEF Content
  <2> QED BY <1>1, <2>1, <2>3, <2>4, <2>10 DEF PlayedInTurn
<1>6. CASE /\ UNCHANGED <<chan, made, out, heard>>
           /\ \A t \in Streams : pc'[t] = "fill" => pc[t] = "fill"
           /\ isr' = "wake" => isr = "wake"
  BY <1>1, <1>6 DEF RingTypeOK, Content, Quiet, PlayedInTurn
<1> QED BY <1>1, <1>2, <1>3, <1>4, <1>5, <1>6, RingSteps

----------------------------------------------------------------------------
(* The rest of the types, and what a write has left to show *)

OtherTypeOK ==
  /\ driver \in {"none", "open", "enabled", "async"}
  /\ WAKER \subseteq Actors
  /\ pc \in [Streams -> HasDac \cup {"gone", "new"}]
  /\ left \in [Streams -> 0 .. PacketFrames]
  /\ offer \in [Streams -> 0 .. PacketFrames]
  /\ isr \in {"idle", "copy", "wake", "notify"}
  /\ take \in 0 .. DmaFrames
  /\ lag \in 0 .. Slack + 1

LEMMA Parts ==
  TypeOK <=> RingTypeOK /\ OtherTypeOK /\ Waker!WakerTypeOK /\ late \in BOOLEAN
BY DEF TypeOK, RingTypeOK, OtherTypeOK

(* A write takes no more than the packet has left, nor than there is room. *)
LEMMA LoadEffect ==
  ASSUME TypeOK, NEW t \in Streams, Load(t)
  PROVE  /\ offer' = [offer EXCEPT ![t] = SmallerOf(left[t], Room - Len(chan))]
         /\ SmallerOf(left[t], Room - Len(chan)) \in 0 .. PacketFrames
         /\ SmallerOf(left[t], Room - Len(chan)) <= left[t]
<1>1. left[t] \in 0 .. PacketFrames /\ Len(chan) \in Nat /\ Len(chan) <= Room
  BY SizesNat DEF TypeOK
<1> QED BY <1>1, SizesNat DEF Load, SmallerOf

LEMMA ShowEffect ==
  ASSUME TypeOK, Budget, NEW t \in Streams, Show(t)
  PROVE  /\ left' = [left EXCEPT ![t] = left[t] - offer[t]]
         /\ offer[t] \in Nat /\ left[t] - offer[t] \in 0 .. PacketFrames
         /\ made' = made + offer[t] /\ made \in Nat /\ left[t] \in Nat
<1>1. /\ left[t] \in 0 .. PacketFrames /\ offer[t] \in Nat /\ made \in Nat
  BY SizesNat DEF TypeOK
<1>2. offer[t] <= left[t]
  BY DEF Budget, Show, Goto
<1> QED BY <1>1, <1>2, SizesNat DEF Show, Ring!Write

LEMMA WakerStep == ASSUME TypeOK, [Next]_vars PROVE Waker!WakerTypeOK'
<1> USE DEF TypeOK, Waker!WakerTypeOK, wakes, Actors
<1>1. ASSUME NEW t \in Streams, Spawn(t) \/ Unpark(t) \/ Spurious(t) PROVE Waker!WakerTypeOK'
  BY <1>1 DEF Spawn, Unpark, Waker!NotifyWait, Spurious, Waker!SpuriousWake
<1>2. ASSUME NEW t \in Streams,
             Open(t) \/ Reset(t) \/ Fill(t) \/ Register(t) \/ Enable(t) \/ StartAsyncWriting(t)
      PROVE Waker!WakerTypeOK'
  BY <1>2 DEF Open, Reset, Fill, Register, Enable, StartAsyncWriting
<1>3. ASSUME NEW t \in Streams, Fail(t) \/ Pop(t) \/ Leave(t) \/ Close(t) PROVE Waker!WakerTypeOK'
  BY <1>3 DEF Fail, Pop, Leave, Close, Stop, Disable, Delete
<1>4. ASSUME NEW t \in Streams, Load(t) \/ Show(t) \/ ShowNothing(t) \/ AddSelf(t)
      PROVE Waker!WakerTypeOK'
  BY <1>4 DEF Load, Show, ShowNothing, AddSelf
<1>5. CASE ConvertDone \/ Copy \/ ConvertReturn
  BY <1>5 DEF ConvertDone, Copy, ConvertReturn
<1>6. CASE WakeFromIsr
  BY <1>6 DEF WakeFromIsr, Waker!TakeWakeable
<1>7. CASE NotifyOne
  BY <1>7 DEF NotifyOne, Waker!Notify
<1>8. CASE UNCHANGED vars
  BY <1>8 DEF vars, core
<1> HIDE DEF TypeOK, Waker!WakerTypeOK
<1> QED BY <1>1, <1>2, <1>3, <1>4, <1>5, <1>6, <1>7, <1>8
        DEF Next, StreamStep, InterruptStep, Stream, Write, Interrupt

LEMMA OtherStep == ASSUME TypeOK, Budget, [Next]_vars PROVE OtherTypeOK'
<1> USE DEF OtherTypeOK, HasDac, Opening, Writing, Closing, Goto, wakes, task, Actors
<1>0. OtherTypeOK /\ 0 \in 0 .. Slack + 1 /\ PacketFrames \in 0 .. PacketFrames
  BY Parts, SizesNat
<1>1. ASSUME NEW t \in Streams,
             Spawn(t) \/ Open(t) \/ Reset(t) \/ Fill(t) \/ Register(t) \/ Enable(t)
      PROVE OtherTypeOK'
  BY <1>0, <1>1 DEF Spawn, Open, Reset, Fill, Register, Enable
<1>2. ASSUME NEW t \in Streams, StartAsyncWriting(t) \/ Fail(t) \/ Pop(t) \/ Leave(t) PROVE OtherTypeOK'
  BY <1>0, <1>2 DEF StartAsyncWriting, Fail, Pop, Leave
<1>3. ASSUME NEW t \in Streams, Load(t) PROVE OtherTypeOK'
  BY <1>0, <1>3, LoadEffect DEF Load
<1>4. ASSUME NEW t \in Streams, Show(t) PROVE OtherTypeOK'
  BY <1>0, <1>4, ShowEffect DEF Show
<1>5. ASSUME NEW t \in Streams, ShowNothing(t) \/ AddSelf(t) \/ Unpark(t) PROVE OtherTypeOK'
  BY <1>0, <1>5 DEF ShowNothing, AddSelf, Unpark, Waker!AddTask
<1>6. ASSUME NEW t \in Streams, Close(t) \/ Spurious(t) PROVE OtherTypeOK'
  BY <1>0, <1>6 DEF Close, Stop, Disable, Delete, Spurious
<1>7. CASE ConvertDone
  <2>1. SmallerOf(DmaFrames, Len(chan)) \in 0 .. DmaFrames
    BY SizesNat DEF SmallerOf, TypeOK
  <2>2. SmallerOf(lag, Slack) + 1 \in 0 .. Slack + 1
    BY <1>0, SizesNat DEF SmallerOf
  <2> QED BY <1>0, <1>7, <2>1, <2>2 DEF ConvertDone
<1>8. CASE Copy \/ WakeFromIsr \/ NotifyOne \/ ConvertReturn
  BY <1>0, <1>8 DEF Copy, WakeFromIsr, NotifyOne, ConvertReturn
<1>9. CASE UNCHANGED vars
  BY <1>0, <1>9 DEF vars, core
<1> HIDE DEF OtherTypeOK
<1> QED BY <1>1, <1>2, <1>3, <1>4, <1>5, <1>6, <1>7, <1>8, <1>9
        DEF Next, StreamStep, InterruptStep, Stream, Write, Interrupt

LEMMA LateStep == ASSUME TypeOK, [Next]_vars PROVE late' \in BOOLEAN
<1>1. CASE StreamStep
  BY <1>1 DEF StreamStep
<1>2. CASE InterruptStep
  BY <1>2 DEF InterruptStep
<1>3. CASE UNCHANGED vars
  BY <1>3 DEF vars, TypeOK
<1> QED BY <1>1, <1>2, <1>3 DEF Next

(* Only the one task that has the DAC shows frames, and what is left of a  *)
(* packet counts down with them.                                           *)
LEMMA BudgetStep == ASSUME TypeOK, Exclusive, Budget, [Next]_vars PROVE Budget'
<1> USE DEF Budget, Goto, HasDac, Opening, Writing, Closing, ring, task
<1>0. /\ pc \in [Streams -> HasDac \cup {"gone", "new"}]
      /\ left \in [Streams -> 0 .. PacketFrames] /\ offer \in [Streams -> 0 .. PacketFrames]
      /\ made \in Nat
  BY SizesNat DEF TypeOK
<1>1. ASSUME NEW t \in Streams,
             Spawn(t) \/ Open(t) \/ Register(t) \/ Enable(t) \/ StartAsyncWriting(t)
      PROVE Budget'
  BY <1>0, <1>1 DEF Spawn, Open, Register, Enable, StartAsyncWriting
<1>2. ASSUME NEW t \in Streams, Reset(t) \/ Fill(t) PROVE Budget'
  BY <1>0, <1>2 DEF Reset, Fill, Ring!Reset, Ring!Fill
<1>3. ASSUME NEW t \in Streams, Pop(t) PROVE Budget'
  <2>1. ASSUME NEW u \in Streams, u # t PROVE pc'[u] \notin Writing
    BY <1>0, <1>3, <2>1 DEF Pop, Exclusive
  <2>2. pc'[t] = "load" /\ left'[t] = PacketFrames /\ made' = made
    BY <1>0, <1>3 DEF Pop
  <2>3. made + PacketFrames <= MaxFrames
    BY <1>3 DEF Pop
  <2> QED BY <2>1, <2>2, <2>3
<1>4. ASSUME NEW t \in Streams, Load(t) PROVE Budget'
  BY <1>0, <1>4, LoadEffect DEF Load
<1>5. ASSUME NEW t \in Streams, Show(t) PROVE Budget'
  <2>1. ASSUME NEW u \in Streams, u # t PROVE pc'[u] \notin Writing
    BY <1>0, <1>5, <2>1 DEF Show, Exclusive
  <2>2. pc'[t] # "show" /\ left'[t] = left[t] - offer[t]
    BY <1>0, <1>5, ShowEffect DEF Show
  <2>3. made' + left'[t] <= MaxFrames
    <3>1. made + left[t] <= MaxFrames
      BY <1>5 DEF Show
    <3> QED BY <1>5, <2>2, <3>1, ShowEffect, SizesNat
  <2> QED BY <2>1, <2>2, <2>3
<1>6. ASSUME NEW t \in Streams, ShowNothing(t) \/ AddSelf(t) \/ Unpark(t) PROVE Budget'
  BY <1>0, <1>6 DEF ShowNothing, AddSelf, Unpark
<1>7. ASSUME NEW t \in Streams, Fail(t) \/ Leave(t) \/ Close(t) \/ Spurious(t) PROVE Budget'
  BY <1>0, <1>7 DEF Fail, Leave, Close, Stop, Disable, Delete, Spurious
<1>8. CASE Interrupt
  BY <1>0, <1>8 DEF Interrupt, ConvertDone, Copy, Ring!Read, WakeFromIsr, NotifyOne, ConvertReturn
<1>9. CASE UNCHANGED vars
  BY <1>9 DEF vars, core
<1> HIDE DEF Budget
<1> QED BY <1>1, <1>2, <1>3, <1>4, <1>5, <1>6, <1>7, <1>8, <1>9
        DEF Next, StreamStep, InterruptStep, Stream, Write

----------------------------------------------------------------------------
(* Never behind the converter *)

(* A packet is at least a DMA buffer, and the ring is at least four of     *)
(* them less the frame that tells full from empty: the firmware's 511.     *)
Proportions ==
  /\ Room >= 4 * DmaFrames - 1
  /\ PacketFrames >= DmaFrames
  /\ Slack <= 1

(* The converter starts on a full ring.                                    *)
Filled ==
  \A t \in Streams : pc[t] \in {"register", "enable", "start"} => Len(chan) = Room

Active(t) == pc[t] \in Writing \cup {"pop"}

(* What the ring holds once the read under way is done, and what of it is  *)
(* left when every interrupt has come that may come before the writer ends *)
(* its poll.                                                               *)
Level == IF isr = "copy" THEN Len(chan) - take ELSE Len(chan)
Reserve == Level - (IF lag = 0 THEN DmaFrames ELSE 0)

(* What the writer can still add in this poll makes up for that.  It is    *)
(* least when a wake-up was missed: three buffers are gone then, and only  *)
(* the last frame of a packet may be left to write.                        *)
Enough(t) ==
  /\ lag \in {0, 1}
  /\ isr = "copy" => take = DmaFrames
  /\ Reserve >= 0
  /\ pc[t] \in Writing => left[t] > 0
  /\ pc[t] = "load" => left[t] + Reserve >= DmaFrames
  /\ pc[t] = "show" =>
       /\ offer[t] + Reserve >= DmaFrames
       /\ offer[t] < left[t] => offer[t] + Reserve >= Room - DmaFrames
  /\ pc[t] = "add" => Reserve >= Room - DmaFrames
  /\ pc[t] = "park" => Reserve >= Room - 3 * DmaFrames
  /\ Asleep(t) => lag = 0 /\ (isr = "notify" => t \in waking[Isr])
  /\ Asleep(t) /\ isr = "idle" => Reserve >= Room - 2 * DmaFrames

InTime == ~late => \A t \in Streams : Active(t) => Enough(t)

LEMMA Sizes ==
  /\ Room \in Nat /\ DmaFrames \in Nat /\ PacketFrames \in Nat
  /\ DmaFrames >= 1 /\ Room >= 1 /\ PacketFrames >= 1
OBVIOUS

LEMMA SleeperStep ==
  ASSUME TypeOK, SleeperReachable, [Next]_vars
  PROVE  SleeperReachable'
<1> USE DEF SleeperReachable, Asleep, Goto, Actors, ring, task, wakes
<1>0. /\ pc \in [Streams -> HasDac \cup {"gone", "new"}]
      /\ notified \in [Actors -> BOOLEAN] /\ waking \in [Actors -> SUBSET Actors]
      /\ WAKER \subseteq Actors
  BY DEF TypeOK, Waker!WakerTypeOK
<1>1. ASSUME NEW t \in Streams,
             Open(t) \/ Reset(t) \/ Fill(t) \/ Register(t) \/ Enable(t) \/ StartAsyncWriting(t)
      PROVE SleeperReachable'
  BY <1>0, <1>1 DEF Open, Reset, Fill, Register, Enable, StartAsyncWriting
<1>2. ASSUME NEW t \in Streams, Fail(t) \/ Pop(t) \/ Leave(t) \/ Close(t)
      PROVE SleeperReachable'
  BY <1>0, <1>2 DEF Fail, Pop, Leave, Close, Stop, Disable, Delete
<1>3. ASSUME NEW t \in Streams, Load(t) \/ Show(t) \/ ShowNothing(t) PROVE SleeperReachable'
  BY <1>0, <1>3 DEF Load, Show, ShowNothing
<1>4. ASSUME NEW t \in Streams, AddSelf(t) PROVE SleeperReachable'
  BY <1>0, <1>4 DEF AddSelf, Waker!AddTask
<1>5. ASSUME NEW t \in Streams, Spawn(t) PROVE SleeperReachable'
  BY <1>0, <1>5 DEF Spawn
<1>6. ASSUME NEW t \in Streams, Unpark(t) \/ Spurious(t) PROVE SleeperReachable'
  BY <1>0, <1>6 DEF Unpark, Waker!NotifyWait, Spurious, Waker!SpuriousWake
<1>7. CASE ConvertDone \/ Copy \/ ConvertReturn
  BY <1>7 DEF ConvertDone, Copy, ConvertReturn
<1>8. CASE WakeFromIsr
  BY <1>0, <1>8 DEF WakeFromIsr, Waker!TakeWakeable
<1>9. CASE NotifyOne
  <2>1. PICK t \in Streams : Waker!Notify(Isr, t)
    BY <1>9 DEF NotifyOne
  <2>2. /\ waking'[Isr] = waking[Isr] \ {t}
        /\ notified' = [notified EXCEPT ![t] = TRUE]
    BY <1>0, <2>1 DEF Waker!Notify
  <2>3. UNCHANGED <<pc, WAKER, isr>> /\ isr = "notify"
    BY <1>9 DEF NotifyOne
  <2> QED BY <1>0, <2>2, <2>3
<1>10. CASE UNCHANGED vars
  BY <1>10 DEF vars, core
<1> HIDE DEF SleeperReachable
<1> QED BY <1>1, <1>2, <1>3, <1>4, <1>5, <1>6, <1>7, <1>8, <1>9, <1>10
        DEF Next, StreamStep, InterruptStep, Stream, Write, Interrupt

(* Between Fill and the start of the converter nobody touches the ring.    *)
LEMMA FilledStep ==
  ASSUME IInv, Filled, [Next]_vars
  PROVE  Filled'
<1> DEFINE Before == {"register", "enable", "start"}
<1>0. /\ TypeOK /\ Exclusive /\ Confined /\ Content
      /\ pc \in [Streams -> HasDac \cup {"gone", "new"}]
  BY DEF IInv, TypeOK
<1>1. ASSUME NEW t \in Streams, Fill(t) PROVE Filled'
  <2>1. chan = <<>> /\ Ring!Fill
    BY <1>0, <1>1 DEF Content, Fill, Goto
  <2>2. Len(chan') = Room
    <3>1. 0 \in 0 .. MaxFrames
      BY SizesNat
    <3> QED BY <2>1, <3>1, FillEffect
  <2> QED BY <2>2 DEF Filled
<1>2. ASSUME NEW t \in Streams, Reset(t) \/ Show(t) PROVE Filled'
  <2>1. /\ pc[t] \in HasDac /\ pc'[t] \notin Before
        /\ \A u \in Streams \ {t} : pc'[u] = pc[u]
    BY <1>0, <1>2 DEF Reset, Show, Goto, HasDac, Opening, Writing
  <2>2. \A u \in Streams : pc'[u] \notin Before
    BY <1>0, <2>1 DEF Exclusive, HasDac, Opening
  <2> QED BY <2>2 DEF Filled
<1>3. CASE Copy
  <2>1. pc' = pc /\ isr = "copy"
    BY <1>3 DEF Copy, task
  <2>2. \A u \in Streams : pc[u] \notin Before
    BY <1>0, <2>1 DEF Confined, Exclusive, HasDac, Opening, Writing, Closing
  <2> QED BY <2>1, <2>2 DEF Filled
<1> DEFINE Same == UNCHANGED chan /\ \A u \in Streams : pc'[u] \in Before => pc[u] \in Before
<1>4. ASSUME NEW t \in Streams,
             Spawn(t) \/ Open(t) \/ Register(t) \/ Enable(t) \/ StartAsyncWriting(t)
      PROVE Same
  BY <1>0, <1>4 DEF Spawn, Open, Register, Enable, StartAsyncWriting, Goto, ring
<1>5. ASSUME NEW t \in Streams, Fail(t) \/ Pop(t) \/ Leave(t) \/ Close(t) PROVE Same
  BY <1>0, <1>5 DEF Fail, Pop, Leave, Close, Stop, Disable, Delete, Goto, ring
<1>6. ASSUME NEW t \in Streams,
             Load(t) \/ ShowNothing(t) \/ AddSelf(t) \/ Unpark(t) \/ Spurious(t)
      PROVE Same
  BY <1>0, <1>6 DEF Load, ShowNothing, AddSelf, Unpark, Spurious, Goto, ring, task
<1>7. ASSUME ConvertDone \/ WakeFromIsr \/ NotifyOne \/ ConvertReturn PROVE Same
  BY <1>7 DEF ConvertDone, WakeFromIsr, NotifyOne, ConvertReturn, ring, task
<1>8. ASSUME UNCHANGED vars PROVE Same
  BY <1>8 DEF vars, core, ring, task
<1>9. Same => Filled'
  BY DEF Filled
<1> HIDE DEF Same
<1> QED BY <1>1, <1>2, <1>3, <1>4, <1>5, <1>6, <1>7, <1>8, <1>9
        DEF Next, StreamStep, InterruptStep, Stream, Write, Interrupt

(* Whoever does not have the DAC leaves the one who writes alone.          *)
LEMMA OthersStep ==
  ASSUME TypeOK, Exclusive, NEW t \in Streams, NEW u \in Streams, u # t,
         Active(t) \/ Active(t)', Stream(u)
  PROVE  /\ Active(t) /\ driver # "none"
         /\ UNCHANGED <<chan, take, isr, waking, lag>>
         /\ UNCHANGED <<pc[t], left[t], offer[t], notified[t]>>
<1> USE DEF Active, Goto, HasDac, Opening, Writing, Closing, ring, task, wakes
<1>0. /\ pc \in [Streams -> HasDac \cup {"gone", "new"}]
      /\ notified \in [Actors -> BOOLEAN] /\ t \in Actors
  BY DEF TypeOK, Waker!WakerTypeOK, Actors
<1>1. pc'[t] = pc[t]
  BY <1>0 DEF Stream, Spawn, Open, Reset, Fill, Register, Enable, StartAsyncWriting, Fail, Pop,
              Write, Load, Show, ShowNothing, AddSelf, Unpark, Leave, Close, Stop, Disable,
              Delete, Spurious
<1>2. Active(t) /\ driver # "none" /\ pc[u] \in {"gone", "new"}
  BY <1>0, <1>1 DEF Exclusive
<1>3. Spawn(u) \/ Open(u)
  BY <1>2 DEF Stream, Reset, Fill, Register, Enable, StartAsyncWriting, Fail, Pop,
              Write, Load, Show, ShowNothing, AddSelf, Unpark, Leave, Close, Stop, Disable,
              Delete, Spurious
<1>4. /\ UNCHANGED <<chan, take, isr, waking, lag>>
      /\ UNCHANGED <<left[t], offer[t]>>
  BY <1>3 DEF Spawn, Open
<1>5. UNCHANGED notified[t]
  BY <1>0, <1>3 DEF Spawn, Open
<1> QED BY <1>1, <1>2, <1>4, <1>5

LEMMA WriteLength ==
  ASSUME NEW S, chan \in Seq(S), NEW n \in Nat, Ring!Write(n)
  PROVE  Len(chan') = Len(chan) + n
BY DEF Ring!Write

(* A stream task that writes, or is about to, was in time so far.          *)
LEMMA StreamInTime ==
  ASSUME IInv, Filled, InTime, Proportions,
         NEW u \in Streams, Stream(u), late' = (driver # "none" /\ (late \/ isr # "idle")), ~late',
         NEW t \in Streams, Active(t)', Exclusive'
  PROVE  Enough(t)'
<1>0. /\ TypeOK /\ Exclusive /\ Budget
      /\ pc \in [Streams -> HasDac \cup {"gone", "new"}]
      /\ left \in [Streams -> 0 .. PacketFrames] /\ offer \in [Streams -> 0 .. PacketFrames]
      /\ notified \in [Actors -> BOOLEAN] /\ t \in Actors
      /\ Len(chan) \in Nat /\ Len(chan) <= Room /\ chan \in Seq(0 .. MaxFrames)
      /\ left[t] \in Nat /\ offer[t] \in Nat
  BY Sizes, SizesNat DEF IInv, TypeOK, Waker!WakerTypeOK, Actors
<1>1. driver' = "async"
  BY DEF Exclusive, Active
<1>2. driver # "none"
  BY <1>0, <1>1 DEF Exclusive, Goto, HasDac, Opening, Closing, Writing, Stream, Spawn, Open, Reset, Fill, Register, Enable,
       StartAsyncWriting, Fail, Pop, Write, Load, Show, ShowNothing, AddSelf, Unpark, Leave,
       Close, Stop, Disable, Delete, Spurious
<1>3. ~late /\ isr = "idle"
  <2>1. ~(late \/ isr # "idle")
    BY <1>2, Zenon
  <2> QED BY <2>1, Zenon
<1>4. Active(t) => Enough(t)
  BY <1>3 DEF InTime
<1>5. Level = Len(chan)
  BY <1>3 DEF Level
<1>6. CASE u # t
  <2>1. /\ Active(t)
        /\ UNCHANGED <<chan, take, isr, waking, lag>>
        /\ UNCHANGED <<pc[t], left[t], offer[t], notified[t]>>
    BY <1>0, <1>6, OthersStep
  <2> QED BY <1>4, <2>1 DEF Enough, Level, Reserve, Asleep
<1>7. CASE u = t
  <2> USE Sizes DEF Goto, Active, HasDac, Opening, Closing, Writing, ring, task, wakes
  <2>1. CASE StartAsyncWriting(t)
    <3>1. Len(chan) = Room /\ UNCHANGED <<chan, isr>> /\ lag' = 0 /\ pc'[t] = "pop"
      BY <1>0, <2>1 DEF StartAsyncWriting, Filled
    <3>2. Reserve' = Room - DmaFrames
      BY <1>3, <3>1 DEF Reserve, Level
    <3> QED BY <1>3, <3>1, <3>2 DEF Enough, Asleep, Proportions
  <2>2. CASE Pop(t)
    <3>1. /\ UNCHANGED <<chan, isr, lag, take>> /\ pc'[t] = "load" /\ left'[t] = PacketFrames
          /\ pc[t] = "pop"
      BY <1>0, <2>2 DEF Pop
    <3>2. Reserve' = Reserve /\ Reserve \in Int
      BY <1>0, <1>5, <3>1 DEF Reserve, Level
    <3> QED BY <1>3, <1>4, <3>1, <3>2 DEF Enough, Asleep, Proportions
  <2>3. CASE Load(t)
    <3>1. /\ UNCHANGED <<chan, isr, lag, take, left>> /\ pc'[t] = "show" /\ pc[t] = "load"
          /\ offer'[t] = SmallerOf(left[t], Room - Len(chan))
      BY <1>0, <2>3 DEF Load
    <3>2. Reserve' = Reserve /\ Reserve \in Int /\ Reserve >= Len(chan) - DmaFrames
      BY <1>0, <1>5, <3>1 DEF Reserve, Level
    <3>3. \/ offer'[t] = left[t]
          \/ offer'[t] = Room - Len(chan)
      BY <3>1 DEF SmallerOf
    <3>4. lag \in {0, 1} /\ Reserve >= 0 /\ left[t] > 0 /\ left[t] + Reserve >= DmaFrames
      BY <1>4, <3>1 DEF Enough
    <3>5. Room - DmaFrames >= DmaFrames
      BY DEF Proportions
    <3>6. /\ offer'[t] + Reserve >= DmaFrames
          /\ offer'[t] < left[t] => offer'[t] + Reserve >= Room - DmaFrames
      BY <1>0, <3>2, <3>3, <3>4, <3>5
    <3> QED BY <1>3, <3>1, <3>2, <3>4, <3>6 DEF Enough, Asleep
  <2>4. CASE Show(t)
    <3>1. /\ UNCHANGED isr /\ lag' = 0 /\ pc[t] = "show"
          /\ pc'[t] = (IF offer[t] < left[t] THEN "load" ELSE "pop")
          /\ left'[t] = left[t] - offer[t]
      BY <1>0, <2>4 DEF Show
    <3>2. Len(chan') = Len(chan) + offer[t]
      <4>1. Ring!Write(offer[t]) /\ made \in Nat
        BY <1>0, <2>4, SizesNat DEF Show, TypeOK
      <4> QED BY <1>0, <4>1, WriteLength
    <3>3. /\ Reserve' = Len(chan) + offer[t] - DmaFrames
          /\ Reserve \in Int /\ Reserve <= Len(chan)
      BY <1>0, <1>3, <1>5, <3>1, <3>2 DEF Reserve, Level
    <3>4. /\ offer[t] + Reserve >= DmaFrames
          /\ offer[t] < left[t] => offer[t] + Reserve >= Room - DmaFrames
      BY <1>4, <3>1 DEF Enough
    <3>5. Room >= 4 * DmaFrames - 1
      BY DEF Proportions
    <3>6. Reserve' >= 0
      BY <1>0, <3>3, <3>4
    <3>7. CASE offer[t] < left[t]
      <4>1. pc'[t] = "load" /\ left'[t] > 0 /\ left'[t] \in Nat
        BY <1>0, <3>1, <3>7
      <4>2. left'[t] + Reserve' >= DmaFrames
        BY SMTT(30), <1>0, <3>3, <3>4, <3>5, <3>7, <4>1
      <4> QED BY <1>3, <3>1, <3>6, <4>1, <4>2 DEF Enough, Asleep
    <3>8. CASE ~(offer[t] < left[t])
      BY <1>3, <3>1, <3>6, <3>8 DEF Enough, Asleep
    <3> QED BY <3>7, <3>8
  <2>5. CASE ShowNothing(t)
    <3>1. /\ UNCHANGED <<chan, isr, lag, take, left>> /\ pc'[t] = "add" /\ pc[t] = "show"
          /\ offer[t] = 0
      BY <1>0, <2>5 DEF ShowNothing
    <3>2. Reserve' = Reserve /\ Reserve \in Int
      BY <1>0, <1>5, <3>1 DEF Reserve, Level
    <3> QED BY <1>0, <1>3, <1>4, <3>1, <3>2 DEF Enough, Asleep, Proportions
  <2>6. CASE AddSelf(t)
    <3>1. /\ UNCHANGED <<chan, isr, left>> /\ lag' = 0 /\ pc'[t] = "park" /\ pc[t] = "add"
      BY <1>0, <2>6 DEF AddSelf
    <3>2. Reserve' = Len(chan) - DmaFrames /\ Reserve \in Int /\ Reserve <= Len(chan)
      BY <1>0, <1>3, <1>5, <3>1 DEF Reserve, Level
    <3>3. Reserve >= Room - DmaFrames /\ left[t] > 0
      BY <1>4, <3>1 DEF Enough
    <3>4. Reserve' \in Int /\ Reserve' >= Room - 2 * DmaFrames
      BY <1>0, <3>2, <3>3
    <3>5. Room - 2 * DmaFrames >= 0 /\ Room - 2 * DmaFrames >= Room - 3 * DmaFrames
      BY DEF Proportions
    <3>6. Reserve' >= 0 /\ Reserve' >= Room - 3 * DmaFrames
      BY <3>4, <3>5
    <3> QED BY <1>3, <3>1, <3>3, <3>4, <3>6 DEF Enough
  <2>7. CASE Unpark(t)
    <3>1. /\ UNCHANGED <<chan, isr, lag, take, left>> /\ pc'[t] = "load" /\ pc[t] = "park"
      BY <1>0, <2>7 DEF Unpark
    <3>2. Reserve' = Reserve /\ Reserve \in Int
      BY <1>0, <1>5, <3>1 DEF Reserve, Level
    <3> QED BY <1>0, <1>3, <1>4, <3>1, <3>2 DEF Enough, Asleep, Proportions
  <2>8. CASE Spurious(t)
    <3>1. /\ UNCHANGED <<chan, isr, lag, take, left, pc, offer>> /\ notified'[t]
      BY <1>0, <2>8 DEF Spurious, Waker!SpuriousWake
    <3>2. Reserve' = Reserve
      BY <3>1 DEF Reserve, Level
    <3> QED BY <1>3, <1>4, <3>1, <3>2 DEF Enough, Asleep
  <2>9. StartAsyncWriting(t) \/ Pop(t) \/ Write(t) \/ Spurious(t)
    BY <1>0, <1>7 DEF Stream, Spawn, Open, Reset, Fill, Register, Enable, Fail, Leave, Close,
                      Stop, Disable, Delete
  <2> QED BY <2>1, <2>2, <2>3, <2>4, <2>5, <2>6, <2>7, <2>8, <2>9 DEF Write
<1> QED BY <1>6, <1>7

LEMMA InterruptInTime ==
  ASSUME IInv, SleeperReachable, InTime, Proportions,
         Interrupt, late' = (late \/ lag' > Slack), ~late',
         NEW t \in Streams, Active(t)'
  PROVE  Enough(t)'
<1>0. /\ TypeOK /\ Exclusive
      /\ Len(chan) \in Nat /\ chan \in Seq(0 .. MaxFrames) /\ take \in Nat
      /\ notified \in [Actors -> BOOLEAN] /\ waking \in [Actors -> SUBSET Actors]
      /\ Isr \in Actors /\ t \in Actors
  BY Sizes, SizesNat DEF IInv, TypeOK, Waker!WakerTypeOK, Actors
<1>1. UNCHANGED task
  BY DEF Interrupt, ConvertDone, Copy, WakeFromIsr, NotifyOne, ConvertReturn
<1>2. ~(late \/ lag' > Slack)
  BY Zenon
<1>3. ~late /\ ~(lag' > Slack)
  BY <1>2, Zenon
<1>4. Enough(t) /\ Active(t) /\ UNCHANGED <<pc[t], left[t], offer[t]>>
  BY <1>1, <1>3 DEF InTime, Active, task
<1>5. CASE ConvertDone
  <2>1. /\ isr = "idle" /\ isr' = "copy" /\ UNCHANGED <<chan, notified, waking>>
        /\ take' = SmallerOf(DmaFrames, Len(chan)) /\ Level = Len(chan)
    BY <1>5 DEF ConvertDone, ring, wakes, Level
  <2>2. CASE Asleep(t)
    <3>1. lag = 0 /\ lag' = 0
      BY <1>4, <1>5, <2>2 DEF Enough, ConvertDone
    <3>2. Len(chan) - DmaFrames >= Room - 2 * DmaFrames
      BY <1>4, <2>1, <2>2, <3>1 DEF Enough, Reserve
    <3>3. take' = DmaFrames
      BY <1>0, <2>1, <3>2, Sizes DEF SmallerOf, Proportions
    <3>4. Reserve' = Reserve - DmaFrames /\ Reserve = Len(chan) - DmaFrames
      BY <1>0, <2>1, <3>1, <3>3, Sizes DEF Reserve, Level
    <3>5. pc'[t] = "park"
      BY <1>4, <2>2 DEF Asleep
    <3> QED BY <1>0, <1>4, <2>1, <3>1, <3>2, <3>3, <3>4, <3>5, Sizes
            DEF Enough, Asleep, Proportions
  <2>3. CASE ~Asleep(t)
    <3>1. \A u \in Streams : ~Asleep(u)
      BY <1>0, <1>4, <2>3 DEF Asleep, Exclusive, Active, HasDac, Writing
    <3>2. lag' = SmallerOf(lag, Slack) + 1
      BY <1>5, <3>1 DEF ConvertDone
    <3>3. lag = 0 /\ lag' = 1
      BY <1>3, <1>4, <3>2, SizesNat DEF Enough, SmallerOf, Proportions
    <3>4. Len(chan) - DmaFrames >= 0
      BY <1>4, <2>1, <3>3 DEF Enough, Reserve
    <3>5. take' = DmaFrames
      BY <1>0, <2>1, <3>4, Sizes DEF SmallerOf
    <3>6. Reserve' = Reserve
      BY <1>0, <2>1, <3>3, <3>5, Sizes DEF Reserve, Level
    <3>7. ~Asleep(t)'
      BY <1>4, <2>1, <2>3 DEF Asleep
    <3> QED BY <1>4, <3>3, <3>5, <3>6, <3>7 DEF Enough
  <2> QED BY <2>2, <2>3
<1>6. CASE Copy
  <2>1. isr = "copy" /\ isr' = "wake" /\ UNCHANGED <<take, lag, notified, waking>>
    BY <1>6 DEF Copy, wakes
  <2>2. Len(chan') = Len(chan) - take
    BY <1>0, <1>6, ReadEffect DEF Copy
  <2>3. Reserve' = Reserve
    BY <2>1, <2>2 DEF Reserve, Level
  <2> QED BY <1>4, <2>1, <2>3 DEF Enough, Asleep
<1>7. CASE WakeFromIsr
  <2>1. /\ isr = "wake" /\ isr' = "notify" /\ UNCHANGED <<chan, take, lag, notified>>
        /\ waking'[Isr] = WAKER
    BY <1>0, <1>7 DEF WakeFromIsr, Waker!TakeWakeable, ring
  <2>2. Reserve' = Reserve
    BY <2>1 DEF Reserve, Level
  <2>3. Asleep(t)' => Asleep(t) /\ t \in WAKER
    BY <1>4, <2>1 DEF Asleep, SleeperReachable
  <2> QED BY <1>4, <2>1, <2>2, <2>3 DEF Enough
<1>8. CASE NotifyOne
  <2>1. PICK u \in Streams : Waker!Notify(Isr, u)
    BY <1>8 DEF NotifyOne
  <2>2. /\ isr = "notify" /\ UNCHANGED <<isr, chan, take, lag>>
        /\ waking'[Isr] = waking[Isr] \ {u}
        /\ notified' = [notified EXCEPT ![u] = TRUE]
    BY <1>0, <1>8, <2>1 DEF NotifyOne, Waker!Notify, ring
  <2>3. Reserve' = Reserve
    BY <2>2 DEF Reserve, Level
  <2>4. Asleep(t)' => Asleep(t) /\ t # u
    BY <1>0, <1>4, <2>2 DEF Asleep
  <2> QED BY <1>4, <2>2, <2>3, <2>4 DEF Enough
<1>9. CASE ConvertReturn
  <2>1. /\ isr = "notify" /\ isr' = "idle" /\ waking[Isr] = {}
        /\ UNCHANGED <<chan, take, lag, notified, waking>>
    BY <1>9 DEF ConvertReturn, ring, wakes
  <2>2. Reserve' = Reserve
    BY <2>1 DEF Reserve, Level
  <2>3. ~Asleep(t)'
    BY <1>4, <2>1 DEF Enough, Asleep
  <2> QED BY <1>4, <2>1, <2>2, <2>3 DEF Enough
<1> QED BY <1>5, <1>6, <1>7, <1>8, <1>9 DEF Interrupt

LEMMA InTimeStep ==
  ASSUME IInv, SleeperReachable, Filled, InTime, Proportions, [Next]_vars, Exclusive'
  PROVE  InTime'
<1> SUFFICES ASSUME ~late', NEW t \in Streams, Active(t)' PROVE Enough(t)'
  BY DEF InTime
<1>1. CASE StreamStep
  BY <1>1, StreamInTime DEF StreamStep
<1>2. CASE InterruptStep
  BY <1>2, InterruptInTime DEF InterruptStep
<1>3. CASE UNCHANGED vars
  BY <1>3 DEF vars, core, ring, task, wakes, InTime, Enough, Active, Asleep, Reserve, Level
<1> QED BY <1>1, <1>2, <1>3 DEF Next

LEMMA LeaseStep ==
  ASSUME IInv, [Next]_vars
  PROVE  [Lease!Next]_Holders
<1> USE DEF Goto, HasDac, Opening, Writing, Closing, Holders
<1>0. Exclusive /\ pc \in [Streams -> HasDac \cup {"gone", "new"}]
  BY DEF IInv, TypeOK
<1>1. ASSUME NEW t \in Streams, Open(t) PROVE [Lease!Next]_Holders
  <2>1. CASE driver = "none"
    <3>1. Holders = {} /\ pc' = [pc EXCEPT ![t] = "reset"]
      BY <1>0, <1>1, <2>1 DEF Open, Exclusive
    <3>2. Holders' = {t}
      BY <1>0, <3>1
    <3> QED BY <3>1, <3>2 DEF Lease!Acquire, Lease!Next
  <2>2. CASE driver # "none"
    BY <1>0, <1>1, <2>2 DEF Open
  <2> QED BY <2>1, <2>2
<1>2. ASSUME NEW t \in Streams, Delete(t) PROVE [Lease!Next]_Holders
  <2>1. Holders = {t} /\ pc' = [pc EXCEPT ![t] = "gone"]
    BY <1>0, <1>2 DEF Delete, Exclusive
  <2>2. Holders' = {}
    BY <1>0, <2>1
  <2> QED BY <2>1, <2>2 DEF Lease!Release, Lease!Next
<1>3. ASSUME NEW t \in Streams,
             Spawn(t) \/ Reset(t) \/ Fill(t) \/ Register(t) \/ Enable(t) \/ StartAsyncWriting(t)
      PROVE UNCHANGED Holders
  BY <1>0, <1>3 DEF Spawn, Reset, Fill, Register, Enable, StartAsyncWriting
<1>4. ASSUME NEW t \in Streams, Fail(t) \/ Pop(t) \/ Leave(t) \/ Stop(t) \/ Disable(t)
      PROVE UNCHANGED Holders
  BY <1>0, <1>4 DEF Fail, Pop, Leave, Stop, Disable
<1>5. ASSUME NEW t \in Streams, Write(t) \/ Spurious(t) PROVE UNCHANGED Holders
  BY <1>0, <1>5 DEF Write, Load, Show, ShowNothing, AddSelf, Unpark, Spurious, task
<1>6. CASE Interrupt
  BY <1>6 DEF Interrupt, ConvertDone, Copy, WakeFromIsr, NotifyOne, ConvertReturn, task
<1>7. CASE UNCHANGED vars
  BY <1>7 DEF vars, core, task
<1> HIDE DEF Holders
<1> QED BY <1>1, <1>2, <1>3, <1>4, <1>5, <1>6, <1>7
        DEF Next, StreamStep, InterruptStep, Stream, Close

----------------------------------------------------------------------------
(* WAKER, as WakerSets asks for it to be used *)

LEMMA StreamUses ==
  ASSUME TypeOK, NEW t \in Streams, Stream(t)
  PROVE  [Wakers!Uses]_Wakers!setVars
<1> USE DEF Goto, Wakers!Uses, Wakers!Calls, Actors
<1>0. /\ pc \in [Streams -> HasDac \cup {"gone", "new"}] /\ Members["WAKER"] = WAKER
      /\ \A s : Members' = [Members EXCEPT !["WAKER"] = s] <=> WAKER' = s
  BY DEF TypeOK, Members
<1>1. ASSUME NEW l \in HasDac \cup {"gone", "new"}, l # "park",
             pc[t] # "park", pc' = [pc EXCEPT ![t] = l]
      PROVE  UNCHANGED Parked
  BY <1>0, <1>1 DEF Parked
<1>2. CASE AddSelf(t)
  <2>1. t \notin Parked /\ Parked' = Parked \cup {t}
    BY <1>0, <1>2 DEF AddSelf, Parked
  <2>2. Members' = [Members EXCEPT !["WAKER"] = Wakers!AddTask(@, t)]
    BY <1>0, <1>2 DEF AddSelf, Waker!AddTask, Wakers!AddTask
  <2>3. Wakers!Register(t, "WAKER")
    BY <1>2, <2>1, <2>2 DEF AddSelf, wakes, Wakers!Register
  <2> QED BY <2>3
<1>3. CASE Unpark(t)
  <2>1. t \in Parked /\ Parked' = Parked \ {t} /\ UNCHANGED Members
    BY <1>0, <1>3 DEF Unpark, Parked, Members
  <2>2. Wakers!Return(t)
    BY <1>3, <2>1 DEF Unpark, Waker!NotifyWait, Wakers!Return, Wakers!NotifyWait
  <2> QED BY <2>2
<1>4. CASE Spawn(t)
  <2>1. pc[t] = "gone" /\ pc' = [pc EXCEPT ![t] = "new"] /\ UNCHANGED <<WAKER, waking>>
    BY <1>4 DEF Spawn
  <2>2. t \notin Parked /\ UNCHANGED <<Parked, Members>>
    BY <1>1, <2>1 DEF Parked, Members
  <2>3. Wakers!Renew(t)
    BY <1>4, <2>2 DEF Spawn, Wakers!Renew
  <2> QED BY <2>3
<1>5. CASE Spurious(t)
  <2>1. UNCHANGED <<Parked, Members>>
    BY <1>5 DEF Spurious, task, Parked, Members
  <2>2. Wakers!Disturb(t)
    BY <1>5, <2>1 DEF Spurious, Waker!SpuriousWake, Wakers!Disturb, Wakers!SpuriousWake
  <2> QED BY <2>2
<1>6. ASSUME \/ Open(t) \/ Reset(t) \/ Fill(t) \/ Register(t) \/ Enable(t)
             \/ StartAsyncWriting(t) \/ Fail(t) \/ Pop(t) \/ Leave(t)
             \/ Load(t) \/ Show(t) \/ ShowNothing(t) \/ Close(t)
      PROVE  UNCHANGED Wakers!setVars
  <2>1. \E l \in (HasDac \cup {"gone", "new"}) \ {"park"} :
          pc[t] # "park" /\ pc' = [pc EXCEPT ![t] = l]
    BY <1>6 DEF Open, Reset, Fill, Register, Enable, StartAsyncWriting, Fail, Pop, Leave,
                Load, Show, ShowNothing, Close, Stop, Disable, Delete,
                HasDac, Opening, Writing, Closing
  <2>2. UNCHANGED <<WAKER, notified, waking>>
    BY <1>6 DEF Open, Reset, Fill, Register, Enable, StartAsyncWriting, Fail, Pop, Leave,
                Load, Show, ShowNothing, Close, Stop, Disable, Delete, wakes
  <2> QED BY <1>1, <2>1, <2>2 DEF Wakers!setVars, Members
<1> QED BY <1>2, <1>3, <1>4, <1>5, <1>6 DEF Stream, Write

LEMMA InterruptUses ==
  ASSUME TypeOK, SleeperReachable, Interrupt
  PROVE  [Wakers!Uses]_Wakers!setVars
<1> USE DEF Wakers!Uses, Wakers!Calls, Actors
<1>0. Members["WAKER"] = WAKER /\ UNCHANGED Parked
  BY DEF Members, Parked, Interrupt, ConvertDone, Copy, WakeFromIsr, NotifyOne, ConvertReturn, task
<1>1. CASE WakeFromIsr
  <2>1. waking[Isr] = {} /\ Members' = [Members EXCEPT !["WAKER"] = {}]
    BY <1>1 DEF WakeFromIsr, SleeperReachable, Members
  <2>2. Wakers!Take(Isr, "WAKER")
    BY <1>0, <1>1, <2>1 DEF WakeFromIsr, Waker!TakeWakeable, Wakers!Take, Wakers!TakeWakeable
  <2> QED BY <2>2
<1>2. CASE NotifyOne
  <2>1. PICK t \in Streams : Waker!Notify(Isr, t)
    BY <1>2 DEF NotifyOne
  <2>2. Wakers!Wake(Isr, t)
    BY <1>0, <1>2, <2>1 DEF NotifyOne, Members, Waker!Notify, Wakers!Wake, Wakers!Notify
  <2> QED BY <2>2
<1>3. CASE ConvertDone \/ Copy \/ ConvertReturn
  BY <1>0, <1>3 DEF ConvertDone, Copy, ConvertReturn, wakes, Members, Wakers!setVars
<1> QED BY <1>1, <1>2, <1>3 DEF Interrupt

----------------------------------------------------------------------------
(* Theorems *)

LEMMA Invariance == Spec => []IInv
<1>1. ASSUME IInv, [Next]_vars PROVE IInv'
  <2>1. TypeOK /\ Exclusive /\ Confined /\ Budget
    BY <1>1 DEF IInv
  <2>2. Exclusive' /\ Confined'
    BY <1>1, <2>1, ExclusiveStep
  <2>3. RingTypeOK' /\ Content' /\ PlayedInTurn'
    BY <1>1, RingStep
  <2>4. OtherTypeOK' /\ Waker!WakerTypeOK' /\ late' \in BOOLEAN
    BY <1>1, <2>1, OtherStep, WakerStep, LateStep
  <2>5. TypeOK'
    BY <2>3, <2>4 DEF TypeOK, RingTypeOK, OtherTypeOK
  <2>6. Budget'
    BY <1>1, <2>1, BudgetStep
  <2> QED BY <2>2, <2>3, <2>5, <2>6 DEF IInv
<1> QED BY <1>1, InvInit, PTL DEF Spec

(* Every variable keeps its type: no write outgrows its packet or the ring, *)
(* no read outgrows the DMA buffer.                                        *)
THEOREM TypeCorrect == Spec => []TypeOK
<1>1. IInv => TypeOK
  BY DEF IInv
<1> QED BY <1>1, Invariance, PTL

(* The refusal of a second dac_continuous_new_channels is what keeps every *)
(* other task and the interrupt away from a ring that is being reset.      *)
THEOREM ResetsAlone == Spec => []ResetAlone
<1>1. IInv => ResetAlone
  BY Alone DEF IInv
<1> QED BY <1>1, Invariance, PTL

(* Whatever the sizes of ring, DMA buffer and packet, the interrupt plays  *)
(* the frames of the present opening in turn, after nothing but silence.   *)
THEOREM PlaysInTurn == Spec => []PlayedInTurn
<1>1. IInv => PlayedInTurn
  BY DEF IInv
<1> QED BY <1>1, Invariance, PTL

(* An interrupt can be missed between a write that found no room and the    *)
(* registration, but whoever sleeps after that is found by the next one.    *)
THEOREM SleepersReachable == Spec => []SleeperReachable
<1>1. Init => SleeperReachable
  BY DEF Init, SleeperReachable, Asleep, Waker!WakerInit, Actors
<1>2. TypeOK /\ SleeperReachable /\ [Next]_vars => SleeperReachable'
  BY SleeperStep
<1> QED BY <1>1, <1>2, TypeCorrect, PTL DEF Spec

(* In the proportions of the firmware, whatever the sizes: the missed       *)
(* interrupt and the slowest poll that is still in time never meet in an    *)
(* empty ring.                                                              *)
THEOREM NeverUnderruns == ASSUME Proportions PROVE Spec => []NoUnderrun
<1>1. Init => Filled /\ InTime
  BY DEF Init, Filled, InTime, Active, Writing
<1>2. IInv /\ SleeperReachable /\ Filled /\ InTime /\ IInv' /\ [Next]_vars => Filled' /\ InTime'
  BY FilledStep, InTimeStep DEF IInv
<1>3. InTime => NoUnderrun
  BY DEF InTime, Enough, Active, NoUnderrun
<1> QED BY <1>1, <1>2, <1>3, Invariance, SleepersReachable, PTL DEF Spec

(* Dac, for any sizes: at no point of the opening and closing, with the     *)
(* refusals and failures of the driver's calls, do two tasks have a Dac.    *)
THEOREM DacKeepsLease == Spec => LeaseSpec
<1>1. Init => Lease!Init
  BY DEF Init, Holders, HasDac, Opening, Writing, Closing, Lease!Init
<1>2. IInv /\ [Next]_vars => [Lease!Next]_Holders
  BY LeaseStep
<1> QED BY <1>1, <1>2, Invariance, PTL DEF Spec, LeaseSpec, Lease!Spec

(* dac.rs against waker.rs, for any number of stream tasks, one after the   *)
(* other: the driver asks no more of WAKER than the registry is shown to    *)
(* give.                                                                    *)
THEOREM DacUsesSets == Spec => UsesSets
<1>1. Init => Wakers!Init
  <2> SUFFICES ASSUME Init PROVE Wakers!Init
    OBVIOUS
  <2>1. Members = [s \in {"WAKER"} |-> {}] /\ Parked = {}
    BY DEF Init, Members, Parked
  <2> QED BY <2>1 DEF Init, Waker!WakerInit, Wakers!Init, Wakers!WakerInit
<1>2. TypeOK /\ SleeperReachable /\ [Next]_vars => [Wakers!Uses]_Wakers!setVars
  <2> SUFFICES ASSUME TypeOK, SleeperReachable, [Next]_vars
               PROVE  [Wakers!Uses]_Wakers!setVars
    OBVIOUS
  <2>1. CASE UNCHANGED vars
    BY <2>1 DEF vars, core, task, wakes, Wakers!setVars, Members, Parked
  <2> QED BY <2>1, StreamUses, InterruptUses DEF Next, StreamStep, InterruptStep
<1> QED BY <1>1, <1>2, TypeCorrect, SleepersReachable, PTL DEF Spec, UsesSets, Wakers!UseSpec
=============================================================================
