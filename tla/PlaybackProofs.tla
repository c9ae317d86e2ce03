-------------------------- MODULE PlaybackProofs --------------------------
(***************************************************************************)
(* PacketQueue, for every capacity: where a sequence number fits a usize,  *)
(* every slot holds the packet it stands for, and the deque is the window  *)
(* PlayoutBuffer describes.  Then Playback, for every f32: what is played  *)
(* is converted without a wrap, and in order of loudness.                  *)
(***************************************************************************)
EXTENDS Playback, TLAPS

(* The cast in queue_slot_mut loses nothing.                               *)
Narrow == \A s \in Seqs : s < UsizeMod

IInv == TypeOK /\ SlotsImplied

USE PacketAssumption DEF Packets

LEMMA IndexNarrow ==
  ASSUME Narrow, NEW p \in Packets, head_seq \in Nat, p.seq >= head_seq
  PROVE  p.seq \in Nat /\ SlotIndex(p.seq) = p.seq - head_seq /\ SlotIndex(p.seq) \in Nat
<1>1. p.seq \in Nat /\ p.seq < UsizeMod
  BY DEF Narrow
<1>2. p.seq - head_seq \in 0 .. UsizeMod - 1
  BY <1>1
<1>3. ASSUME NEW x \in 0 .. UsizeMod - 1 PROVE x % UsizeMod = x
  OBVIOUS
<1> QED BY <1>1, <1>2, <1>3 DEF SlotIndex

(* Expanding the deque keeps what it holds.                                *)
LEMMA ExpandedType ==
  ASSUME TypeOK, NEW idx \in Nat, idx < Capacity
  PROVE  /\ Expanded(idx) \in Seq(Packets \cup {None})
         /\ Len(Expanded(idx)) = IF Len(queue) < idx + 1 THEN idx + 1 ELSE Len(queue)
         /\ Len(Expanded(idx)) <= Capacity
         /\ DOMAIN Expanded(idx) = 1 .. Len(Expanded(idx))
         /\ idx + 1 \in DOMAIN Expanded(idx)
         /\ \A i \in DOMAIN Expanded(idx) :
              Expanded(idx)[i] = IF i <= Len(queue) THEN queue[i] ELSE None
<1> DEFINE n == IF Len(queue) < idx + 1 THEN idx + 1 ELSE Len(queue)
           f == [i \in 1 .. n |-> IF i <= Len(queue) THEN queue[i] ELSE None]
<1>1. Len(queue) \in Nat /\ n \in Nat /\ n <= Capacity /\ idx + 1 \in 1 .. n
  BY DEF TypeOK
<1>2. \A i \in 1 .. n : (IF i <= Len(queue) THEN queue[i] ELSE None) \in Packets \cup {None}
  BY <1>1 DEF TypeOK
<1>3. f \in Seq(Packets \cup {None}) /\ Len(f) = n /\ DOMAIN f = 1 .. n
  BY <1>1, <1>2
<1>4. Expanded(idx) = f
  BY DEF Expanded
<1> QED BY <1>1, <1>3, <1>4

(* What insert_packet does to the slots, once the cast is known harmless.  *)
LEMMA InsertEffect ==
  ASSUME TypeOK, Narrow, NEW p \in Packets, InsertPacket(p)
  PROVE  /\ p.seq \in head_seq .. head_seq + Capacity - 1
         /\ queue' \in Seq(Packets \cup {None})
         /\ Len(queue') = IF Len(queue) < p.seq - head_seq + 1
                          THEN p.seq - head_seq + 1 ELSE Len(queue)
         /\ Len(queue') <= Capacity
         /\ \A i \in 1 .. Len(queue') :
              queue'[i] = IF i <= Len(queue) /\ queue[i] # None THEN queue[i]
                          ELSE IF i = p.seq - head_seq + 1 THEN p ELSE None
         /\ UNCHANGED <<head_seq, played>>
<1> DEFINE idx == SlotIndex(p.seq)
           e == Expanded(idx)
<1>1. /\ p.seq \in Nat /\ head_seq \in Nat /\ p.seq >= head_seq
      /\ idx = p.seq - head_seq /\ idx \in Nat /\ idx < Capacity
  BY IndexNarrow DEF InsertPacket, TypeOK
<1>2. queue' = [e EXCEPT ![idx + 1] = IF e[idx + 1] = None THEN p ELSE e[idx + 1]]
  BY DEF InsertPacket
<1>3. /\ e \in Seq(Packets \cup {None}) /\ DOMAIN e = 1 .. Len(e) /\ idx + 1 \in DOMAIN e
      /\ Len(e) = IF Len(queue) < idx + 1 THEN idx + 1 ELSE Len(queue)
      /\ Len(e) <= Capacity /\ Len(e) \in Nat
      /\ \A i \in DOMAIN e : e[i] = IF i <= Len(queue) THEN queue[i] ELSE None
  BY SMTT(60), <1>1, ExpandedType
<1> HIDE DEF idx, e
<1>4. queue' \in Seq(Packets \cup {None}) /\ Len(queue') = Len(e) /\ DOMAIN queue' = DOMAIN e
  BY <1>2, <1>3
<1>5. \A i \in 1 .. Len(e) :
        queue'[i] = IF i <= Len(queue) /\ queue[i] # None THEN queue[i]
                    ELSE IF i = idx + 1 THEN p ELSE None
  BY <1>2, <1>3
<1>6. UNCHANGED <<head_seq, played>>
  BY DEF InsertPacket
<1> QED BY <1>1, <1>3, <1>4, <1>5, <1>6

(* What pop_front does to the slots.                                       *)
LEMMA PopEffect ==
  ASSUME TypeOK, PopFront
  PROVE  /\ head_seq' = head_seq + 1 /\ head_seq \in Nat
         /\ queue' \in Seq(Packets \cup {None})
         /\ Len(queue') = IF Len(queue) = 0 THEN 0 ELSE Len(queue) - 1
         /\ Len(queue') <= Capacity
         /\ \A i \in 1 .. Len(queue') : queue'[i] = queue[i + 1]
         /\ played' = IF Len(queue) = 0 THEN None ELSE queue[1]
         /\ played' \in Packets \cup {None}
<1>1. head_seq' = head_seq + 1 /\ head_seq \in Nat /\ Len(queue) \in Nat /\ Len(queue) <= Capacity
  BY DEF PopFront, TypeOK
<1>2. CASE queue = <<>>
  BY <1>1, <1>2 DEF PopFront, TypeOK
<1>3. CASE queue # <<>>
  <2>1. queue' = Tail(queue) /\ played' = Head(queue) /\ queue \in Seq(Packets \cup {None})
    BY <1>3 DEF PopFront, TypeOK
  <2>2. /\ queue' \in Seq(Packets \cup {None}) /\ Len(queue) # 0
        /\ Len(queue') = Len(queue) - 1 /\ played' = queue[1]
        /\ \A i \in 1 .. Len(queue') : queue'[i] = queue[i + 1]
    BY <1>1, <1>3, <2>1
  <2>3. queue[1] \in Packets \cup {None}
    BY <1>1, <2>1, <2>2
  <2> QED BY <1>1, <2>2, <2>3
<1> QED BY <1>2, <1>3

LEMMA InvStep == ASSUME Narrow PROVE IInv /\ [Next]_vars => IInv'
<1> SUFFICES ASSUME IInv, [Next]_vars PROVE IInv'
  OBVIOUS
<1>0. TypeOK /\ head_seq \in Nat /\ Len(queue) \in Nat /\ queue \in Seq(Packets \cup {None})
      /\ \A i \in 1 .. Len(queue) : queue[i] # None => queue[i].seq = head_seq + i - 1
  BY DEF IInv, TypeOK, SlotsImplied
<1>1. ASSUME NEW p \in Packets, InsertPacket(p) PROVE IInv'
  <2>1. TypeOK'
    BY <1>0, <1>1, InsertEffect DEF TypeOK
  <2>2. ASSUME NEW i \in 1 .. Len(queue'), queue'[i] # None
        PROVE  queue'[i].seq = head_seq' + i - 1
    <3>1. /\ queue'[i] = IF i <= Len(queue) /\ queue[i] # None THEN queue[i]
                          ELSE IF i = p.seq - head_seq + 1 THEN p ELSE None
          /\ head_seq' = head_seq /\ i \in Nat /\ i >= 1 /\ p.seq \in Nat
      BY <1>0, <1>1, InsertEffect
    <3>2. CASE i <= Len(queue) /\ queue[i] # None
      BY <1>0, <3>1, <3>2
    <3>3. CASE ~(i <= Len(queue) /\ queue[i] # None)
      BY <1>0, <2>2, <3>1, <3>3
    <3> QED BY <3>2, <3>3
  <2> QED BY <2>1, <2>2 DEF IInv, SlotsImplied, TypeOK
<1>2. CASE PopFront
  <2>1. TypeOK'
    BY <1>0, <1>2, PopEffect DEF TypeOK
  <2>2. ASSUME NEW i \in 1 .. Len(queue'), queue'[i] # None
        PROVE  queue'[i].seq = head_seq' + i - 1
    <3>1. i + 1 \in 1 .. Len(queue) /\ queue'[i] = queue[i + 1] /\ head_seq' = head_seq + 1
      BY <1>0, <1>2, PopEffect
    <3> QED BY <1>0, <2>2, <3>1
  <2> QED BY <2>1, <2>2 DEF IInv, SlotsImplied, TypeOK
<1>3. CASE UNCHANGED vars
  BY <1>3 DEF vars, IInv, TypeOK, SlotsImplied
<1> QED BY <1>1, <1>2, <1>3 DEF Next, DropPacket

LEMMA InvInit == Init => IInv
BY DEF Init, IInv, TypeOK, SlotsImplied

(* app/queue.rs, for every capacity and every behaviour of the network: the *)
(* numbers of the queued packets are implied by head_seq, where they fit a  *)
(* usize.                                                                   *)
THEOREM SlotsAreImplied == ASSUME Narrow PROVE Spec => []SlotsImplied
<1>1. IInv /\ [Next]_vars => IInv'
  BY InvStep
<1>2. IInv => SlotsImplied
  BY DEF IInv
<1> QED BY InvInit, <1>1, <1>2, PTL DEF Spec

----------------------------------------------------------------------------
(* The refinement *)

(* Held for any deque and head, so that it can be compared across a step.  *)
HeldOf(q, h) ==
  [s \in {h + i - 1 : i \in {j \in DOMAIN q : q[j] # None}} |-> q[s - h + 1]]

LEMMA HeldChar ==
  ASSUME NEW q \in Seq(Packets \cup {None}), NEW h \in Nat
  PROVE  /\ DOMAIN HeldOf(q, h) =
              {s \in Nat : s >= h /\ s - h + 1 <= Len(q) /\ q[s - h + 1] # None}
         /\ \A s \in DOMAIN HeldOf(q, h) : HeldOf(q, h)[s] = q[s - h + 1]
         /\ HeldOf(q, h) = [s \in DOMAIN HeldOf(q, h) |-> q[s - h + 1]]
<1> DEFINE I == {j \in DOMAIN q : q[j] # None}
           D == {h + i - 1 : i \in I}
           E == {s \in Nat : s >= h /\ s - h + 1 <= Len(q) /\ q[s - h + 1] # None}
<1>1. DOMAIN q = 1 .. Len(q) /\ Len(q) \in Nat
  OBVIOUS
<1>2. \A s \in D : s \in E
  BY <1>1
<1>3. \A s \in E : s - h + 1 \in I /\ s = h + (s - h + 1) - 1
  BY <1>1
<1>4. D = E
  BY <1>2, <1>3
<1>5. HeldOf(q, h) = [s \in D |-> q[s - h + 1]]
  BY DEF HeldOf
<1> QED BY <1>4, <1>5

LEMMA InsertImplements ==
  ASSUME IInv, Narrow, NEW p \in Packets, InsertPacket(p)
  PROVE  Playout!Receive(p)
<1>0. /\ TypeOK /\ head_seq \in Nat /\ Len(queue) \in Nat
      /\ queue \in Seq(Packets \cup {None})
      /\ p # None /\ p.seq \in Nat
  <2>1. p # None
    BY PacketAssumption
  <2>2. p.seq \in Nat
    BY PacketAssumption
  <2> QED BY <2>1, <2>2 DEF IInv, TypeOK
<1> DEFINE k == p.seq - head_seq + 1
<1>1. /\ p.seq \in head_seq .. head_seq + Capacity - 1 /\ k \in Nat /\ k >= 1
      /\ queue' \in Seq(Packets \cup {None})
      /\ Len(queue') = (IF Len(queue) < k THEN k ELSE Len(queue)) /\ Len(queue') \in Nat
      /\ \A i \in 1 .. Len(queue') :
           queue'[i] = IF i <= Len(queue) /\ queue[i] # None THEN queue[i]
                       ELSE IF i = k THEN p ELSE None
      /\ head_seq' = head_seq /\ played' = played
  BY <1>0, InsertEffect
<1> HIDE DEF k
<1>2. /\ Held = HeldOf(queue, head_seq)
      /\ Held' = HeldOf(queue', head_seq)
  BY <1>1 DEF Held, HeldOf
<1>3. /\ DOMAIN Held = {s \in Nat : s >= head_seq /\ s - head_seq + 1 <= Len(queue)
                                  /\ queue[s - head_seq + 1] # None}
      /\ Held = [s \in DOMAIN Held |-> queue[s - head_seq + 1]]
  BY <1>0, <1>2, HeldChar
<1>4. /\ DOMAIN Held' = {s \in Nat : s >= head_seq /\ s - head_seq + 1 <= Len(queue')
                                   /\ queue'[s - head_seq + 1] # None}
      /\ Held' = [s \in DOMAIN Held' |-> queue'[s - head_seq + 1]]
  BY <1>0, <1>1, <1>2, HeldChar
<1>5. DOMAIN Held' = DOMAIN Held \cup {p.seq}
  <2>1. ASSUME NEW s \in DOMAIN Held PROVE s \in DOMAIN Held'
    <3> DEFINE i == s - head_seq + 1
    <3>1. s \in Nat /\ s >= head_seq /\ i \in 1 .. Len(queue) /\ queue[i] # None
      BY <1>0, <1>3
    <3>2. i \in 1 .. Len(queue') /\ queue'[i] = queue[i]
      BY SMTT(60), <1>0, <1>1, <3>1
    <3> QED BY <1>4, <3>1, <3>2
  <2>2. p.seq \in DOMAIN Held'
    BY SMTT(60), <1>0, <1>1, <1>4 DEF k
  <2>3. ASSUME NEW s \in DOMAIN Held', s # p.seq PROVE s \in DOMAIN Held
    <3> DEFINE i == s - head_seq + 1
    <3>1. s \in Nat /\ s >= head_seq /\ i \in 1 .. Len(queue') /\ queue'[i] # None
      BY <1>0, <1>1, <1>4
    <3>2. i # k
      BY <1>0, <2>3, <3>1 DEF k
    <3>3. i <= Len(queue) /\ queue[i] # None
      BY <1>1, <3>1, <3>2
    <3> QED BY <1>3, <3>1, <3>3
  <2> QED BY <2>1, <2>2, <2>3
<1>6. ASSUME NEW s \in DOMAIN Held PROVE Held'[s] = Held[s]
  BY SMTT(60), <1>0, <1>1, <1>3, <1>4, <1>5, <1>6
<1>7. CASE p.seq \in DOMAIN Held
  <2>1. DOMAIN Held' = DOMAIN Held
    BY <1>5, <1>7
  <2>2. Held' = Held
    BY <1>3, <1>4, <1>6, <2>1
  <2> QED BY <1>1, <1>7, <2>2 DEF Playout!Receive
<1>8. CASE p.seq \notin DOMAIN Held
  <2>1. Held'[p.seq] = p
    BY <1>0, <1>1, <1>3, <1>4, <1>5, <1>8 DEF k
  <2>2. Held' = [s \in DOMAIN Held \cup {p.seq} |-> IF s = p.seq THEN p ELSE Held[s]]
    BY <1>4, <1>5, <1>6, <1>8, <2>1
  <2> QED BY <1>1, <1>8, <2>2 DEF Playout!Receive
<1> QED BY <1>7, <1>8

LEMMA PopImplements == ASSUME IInv, PopFront PROVE Playout!Play
<1>0. /\ TypeOK /\ head_seq \in Nat /\ Len(queue) \in Nat
      /\ queue \in Seq(Packets \cup {None})
  BY DEF IInv, TypeOK
<1>1. /\ head_seq' = head_seq + 1 /\ head_seq' \in Nat
      /\ queue' \in Seq(Packets \cup {None})
      /\ Len(queue') = (IF Len(queue) = 0 THEN 0 ELSE Len(queue) - 1) /\ Len(queue') \in Nat
      /\ \A i \in 1 .. Len(queue') : queue'[i] = queue[i + 1]
      /\ played' = IF Len(queue) = 0 THEN None ELSE queue[1]
  BY <1>0, PopEffect
<1>2. /\ Held = HeldOf(queue, head_seq)
      /\ Held' = HeldOf(queue', head_seq')
  BY DEF Held, HeldOf
<1>3. /\ DOMAIN Held = {s \in Nat : s >= head_seq /\ s - head_seq + 1 <= Len(queue)
                                  /\ queue[s - head_seq + 1] # None}
      /\ Held = [s \in DOMAIN Held |-> queue[s - head_seq + 1]]
  BY <1>0, <1>2, HeldChar
<1>4. /\ DOMAIN Held' = {s \in Nat : s >= head_seq' /\ s - head_seq' + 1 <= Len(queue')
                                   /\ queue'[s - head_seq' + 1] # None}
      /\ Held' = [s \in DOMAIN Held' |-> queue'[s - head_seq' + 1]]
  BY <1>1, <1>2, HeldChar
<1>5. DOMAIN Held' = DOMAIN Held \ {head_seq}
  <2>1. ASSUME NEW s \in DOMAIN Held, s # head_seq PROVE s \in DOMAIN Held'
    <3>1. s \in Nat /\ s >= head_seq + 1 /\ s - head_seq <= Len(queue')
          /\ s - (head_seq + 1) + 1 = s - head_seq /\ s - head_seq \in 1 .. Len(queue')
      <4>1. s \in Nat /\ s >= head_seq /\ s - head_seq + 1 <= Len(queue)
        BY <1>3
      <4>2. Len(queue') = Len(queue) - 1
        BY <1>0, <1>1, <2>1, <4>1
      <4> QED BY <1>0, <2>1, <4>1, <4>2
    <3>2. queue'[s - head_seq] = queue[s - head_seq + 1]
      BY <1>1, <3>1
    <3> QED BY <1>1, <1>3, <1>4, <3>1, <3>2
  <2>2. ASSUME NEW s \in DOMAIN Held' PROVE s \in DOMAIN Held /\ s # head_seq
    <3>1. s \in Nat /\ s >= head_seq + 1 /\ s - (head_seq + 1) + 1 <= Len(queue')
          /\ s - (head_seq + 1) + 1 = s - head_seq /\ s - head_seq \in 1 .. Len(queue')
          /\ queue'[s - head_seq] # None
      <4>1. /\ s \in Nat /\ s >= head_seq + 1 /\ s - (head_seq + 1) + 1 <= Len(queue')
            /\ queue'[s - (head_seq + 1) + 1] # None
        BY <1>1, <1>4
      <4>2. s - (head_seq + 1) + 1 = s - head_seq
        BY <1>0, <4>1
      <4> QED BY <1>0, <1>1, <4>1, <4>2
    <3>2. queue'[s - head_seq] = queue[s - head_seq + 1]
      BY <1>1, <3>1
    <3>3. s - head_seq + 1 <= Len(queue)
      <4>1. Len(queue') <= Len(queue) - 1 \/ Len(queue') = 0
        BY <1>0, <1>1
      <4> QED BY <1>0, <1>1, <3>1, <4>1
    <3> QED BY <1>0, <1>3, <3>1, <3>2, <3>3
  <2> QED BY <2>1, <2>2
<1>6. ASSUME NEW s \in DOMAIN Held' PROVE Held'[s] = Held[s]
  <2>1. s \in DOMAIN Held /\ s # head_seq
    BY <1>5
  <2>2. s - (head_seq + 1) + 1 = s - head_seq /\ s - head_seq \in 1 .. Len(queue')
    <3>1. s \in Int /\ s - head_seq \in 1 .. Len(queue')
      <4>1. s \in DOMAIN Held' /\ head_seq' = head_seq + 1
        BY <1>1
      <4>2. s \in Nat /\ s >= head_seq + 1 /\ s - (head_seq + 1) + 1 <= Len(queue')
        BY <1>4, <4>1
      <4> QED BY <1>0, <1>1, <4>2
    <3> QED BY <1>0, <3>1
  <2> QED BY <1>1, <1>3, <1>4, <2>1, <2>2
<1>7. Held' = [s \in DOMAIN Held \ {head_seq} |-> Held[s]]
  BY <1>4, <1>5, <1>6
<1>8. played' = IF head_seq \in DOMAIN Held THEN Held[head_seq] ELSE None
  <2>1. head_seq - head_seq + 1 = 1
    BY <1>0
  <2>2. head_seq \in DOMAIN Held <=> Len(queue) >= 1 /\ queue[1] # None
    BY <1>0, <1>3, <2>1
  <2>3. head_seq \in DOMAIN Held => Held[head_seq] = queue[1]
    BY <1>3, <2>1
  <2> QED BY <1>0, <1>1, <2>2, <2>3
<1> QED BY <1>1, <1>7, <1>8 DEF Playout!Play

(* app/queue.rs, for every capacity and every behaviour of the network: the *)
(* deque plays exactly what PlayoutBuffer plays, first copies at their turn *)
(* and gaps for the rest, where sequence numbers fit a usize.               *)
THEOREM PlaysInTurn == ASSUME Narrow PROVE Spec => PlayoutSpec
<1>1. Init => Playout!Init
  <2> SUFFICES ASSUME Init PROVE Playout!Init
    OBVIOUS
  <2>1. Held = <<>>
    BY DEF Init, Held
  <2> QED BY <2>1 DEF Init, Playout!Init
<1>2. IInv /\ [Next]_vars => [Playout!Next]_<<head_seq, Held, played>>
  <2> SUFFICES ASSUME IInv, [Next]_vars PROVE [Playout!Next]_<<head_seq, Held, played>>
    OBVIOUS
  <2>1. ASSUME NEW p \in Packets, InsertPacket(p) PROVE Playout!Next
    BY <2>1, InsertImplements DEF Playout!Next
  <2>2. CASE PopFront
    BY <2>2, PopImplements DEF Playout!Next
  <2>3. CASE UNCHANGED vars
    BY <2>3 DEF vars, Held
  <2> QED BY <2>1, <2>2, <2>3 DEF Next, DropPacket
<1>3. IInv /\ [Next]_vars => IInv'
  BY InvStep
<1> QED BY InvInit, <1>1, <1>2, <1>3, PTL DEF Spec, PlayoutSpec, Playout!Spec

----------------------------------------------------------------------------
(* The conversion *)

LEMMA Fields ==
  ASSUME NEW x \in F32
  PROVE  /\ x.sign \in {0, 1} /\ x.exp \in Int /\ 0 <= x.exp /\ x.exp <= 255
         /\ x.frac \in Int /\ 0 <= x.frac /\ x.frac < Top
         /\ Top \in Int
<1>1. Top \in Int
  BY SMT DEF Top
<1>2. x.sign \in {0, 1} /\ x.exp \in 0 .. 255 /\ x.frac \in 0 .. Top - 1
  BY SMT DEF F32
<1> QED BY SMT, <1>1, <1>2

LEMMA SignCases == \A x : Sign(x) = 1 \/ Sign(x) = -1
BY SMT DEF Sign

LEMMA RangeExp ==
  ASSUME NEW x \in F32, InRange(x)
  PROVE  x.exp < 127 \/ (x.exp = 127 /\ x.frac = 0)
<1>1. x.exp * Top + x.frac <= 127 * Top
  BY SMT, Fields, SignCases DEF InRange, Key, Top
<1> QED BY SMT, <1>1, Fields DEF Top

(* The steps convint8 counts after its shift are the ones of the number.   *)
LEMMA StepsShifted ==
  ASSUME NEW x \in F32, InRange(x), ~Tiny(x)
  PROVE  /\ (Normal(x) - 256) \div 65536 = WholeSteps(x)
         /\ WholeSteps(x) \in 0 .. 127
<1> DEFINE m == x.frac + Top
<1>1. /\ x.exp \in Int /\ 120 <= x.exp /\ x.exp <= 127
      /\ m \in Int /\ 8388608 <= m /\ m < 16777216
      /\ x.exp = 127 => m = 8388608
  BY SMT, Fields, RangeExp DEF Tiny, Top
<1>2. /\ Normal(x) = m \div Pow2[127 - x.exp]
      /\ WholeSteps(x) = (m * Pow2[x.exp - 120] - 32768) \div 8388608
  BY SMT, <1>1 DEF Normal, WholeSteps, Magnitude, Top
<1>3. /\ Pow2[0] = 1 /\ Pow2[1] = 2 /\ Pow2[2] = 4 /\ Pow2[3] = 8
      /\ Pow2[4] = 16 /\ Pow2[5] = 32 /\ Pow2[6] = 64 /\ Pow2[7] = 128
  BY SMT DEF Pow2
<1> HIDE DEF m
<1>4. CASE x.exp = 120
  BY SMT, <1>1, <1>2, <1>3, <1>4
<1>5. CASE x.exp = 121
  BY SMT, <1>1, <1>2, <1>3, <1>5
<1>6. CASE x.exp = 122
  BY SMT, <1>1, <1>2, <1>3, <1>6
<1>7. CASE x.exp = 123
  BY SMT, <1>1, <1>2, <1>3, <1>7
<1>8. CASE x.exp = 124
  BY SMT, <1>1, <1>2, <1>3, <1>8
<1>9. CASE x.exp = 125
  BY SMT, <1>1, <1>2, <1>3, <1>9
<1>10. CASE x.exp = 126
  BY SMT, <1>1, <1>2, <1>3, <1>10
<1>11. CASE x.exp = 127
  BY SMT, <1>1, <1>2, <1>3, <1>11
<1> QED BY SMT, <1>1, <1>4, <1>5, <1>6, <1>7, <1>8, <1>9, <1>10, <1>11

LEMMA StepsRange ==
  ASSUME NEW x \in F32, InRange(x)
  PROVE  WholeSteps(x) \in 0 .. 127
<1>1. CASE Tiny(x)
  BY SMT, <1>1 DEF WholeSteps
<1> QED BY SMT, <1>1, StepsShifted

LEMMA Cast == \A n \in -128 .. 127 : AsI8(n) = n
BY SMT DEF AsI8

(* The two casts and the bias wrap nowhere.                                *)
LEMMA ConvertExact ==
  ASSUME NEW x \in F32, InRange(x)
  PROVE  DmaWord(convint8(x)) = 32768 + 256 * Sign(x) * WholeSteps(x)
<1>1. CASE Tiny(x)
  BY SMT, <1>1, SignCases DEF convint8, DmaWord, WholeSteps
<1>2. CASE ~Tiny(x)
  <2> DEFINE w == WholeSteps(x)
  <2>1. w \in 0 .. 127 /\ (Normal(x) - 256) \div 65536 = w /\ ~Clipped(x)
    BY SMT, <1>2, StepsShifted, RangeExp, Fields DEF Clipped
  <2>2. convint8(x) = AsI8(Sign(x) * AsI8(w))
    BY SMT, <1>2, <2>1 DEF convint8
  <2> HIDE DEF w
  <2>3. convint8(x) = Sign(x) * w
    BY SMT, <2>1, <2>2, Cast, SignCases
  <2>4. DmaWord(convint8(x)) = 32768 + 256 * (Sign(x) * w)
    BY SMT, <2>1, <2>3, SignCases DEF DmaWord
  <2>5. 256 * (Sign(x) * w) = 256 * Sign(x) * w
    BY SMT, <2>1, SignCases
  <2> QED BY SMT, <2>4, <2>5 DEF w
<1> QED BY <1>1, <1>2

(* Louder by its bits is no quieter in steps.                              *)
LEMMA StepsGrow ==
  ASSUME NEW x \in F32, NEW y \in F32, InRange(x), InRange(y),
         x.exp * Top + x.frac <= y.exp * Top + y.frac
  PROVE  WholeSteps(x) <= WholeSteps(y)
<1> DEFINE Scaled(z) == (z.frac + Top) * Pow2[z.exp - 120]
<1>1. x.exp < y.exp \/ (x.exp = y.exp /\ x.frac <= y.frac)
  BY SMT, Fields DEF Top
<1>2. CASE Tiny(x)
  BY SMT, <1>2, StepsRange DEF WholeSteps
<1>3. CASE ~Tiny(x)
  <2>1. /\ x.exp - 120 \in 0 .. 7 /\ y.exp - 120 \in 0 .. 7
        /\ x.exp \in Int /\ y.exp \in Int /\ ~Tiny(y)
    BY SMT, <1>1, <1>3, RangeExp, Fields DEF Tiny
  <2>2. \A i \in 0 .. 7 : Pow2[i] \in Int /\ Pow2[i] >= 1
    BY SMT DEF Pow2
  <2>3. \A i, j \in 0 .. 7 : i < j => 2 * Pow2[i] <= Pow2[j]
    BY SMT DEF Pow2
  <2>0. /\ x.frac \in Int /\ 0 <= x.frac /\ x.frac < Top
        /\ y.frac \in Int /\ 0 <= y.frac /\ y.frac < Top
        /\ Pow2[x.exp - 120] \in Int /\ 1 <= Pow2[x.exp - 120]
        /\ Pow2[y.exp - 120] \in Int /\ 1 <= Pow2[y.exp - 120]
    <3>1. /\ x.frac \in Int /\ 0 <= x.frac /\ x.frac < Top
          /\ y.frac \in Int /\ 0 <= y.frac /\ y.frac < Top
      BY Fields
    <3>2. ASSUME NEW i \in 0 .. 7 PROVE Pow2[i] \in Int /\ 1 <= Pow2[i]
      BY SMT, <2>2
    <3> QED BY <2>1, <3>1, <3>2
  <2>4. ASSUME NEW a \in Int, NEW b \in Int, NEW p \in Int, NEW q \in Int,
               0 <= a, a < Top, 0 <= b, b < Top, 1 <= p, 2 * p <= q
        PROVE  (a + Top) * p <= (b + Top) * q
    <3>0. Top \in Int /\ Top > 0
      BY SMT DEF Top
    <3>1. (a + Top) * p <= (2 * Top) * p
      BY SMT, <2>4, <3>0
    <3>2. (2 * Top) * p <= Top * q
      BY SMT, <2>4, <3>0
    <3>3. Top * q <= (b + Top) * q
      BY SMT, <2>4, <3>0
    <3> QED BY SMT, <2>4, <3>0, <3>1, <3>2, <3>3
  <2>5. ASSUME NEW a \in Int, NEW b \in Int, NEW p \in Int, a <= b, 1 <= p
        PROVE  (a + Top) * p <= (b + Top) * p
    BY SMT, <2>5 DEF Top
  <2>6. ASSUME x.exp < y.exp PROVE Scaled(x) <= Scaled(y)
    <3>1. x.exp - 120 < y.exp - 120
      BY SMT, <2>1, <2>6
    <3>2. 2 * Pow2[x.exp - 120] <= Pow2[y.exp - 120]
      BY SMT, <2>1, <2>3, <3>1
    <3> QED BY <2>0, <2>4, <3>2
  <2>7. ASSUME x.exp = y.exp, x.frac <= y.frac PROVE Scaled(x) <= Scaled(y)
    BY <2>0, <2>5, <2>7
  <2>8. Scaled(x) <= Scaled(y)
    BY <1>1, <2>6, <2>7
  <2>9. Scaled(x) \in Int /\ Scaled(y) \in Int
    BY SMT, <2>0 DEF Top
  <2> HIDE DEF Scaled
  <2>10. (Scaled(x) - 32768) \div 8388608 <= (Scaled(y) - 32768) \div 8388608
    BY SMT, <2>8, <2>9
  <2> QED BY SMT, <1>3, <2>1, <2>10 DEF WholeSteps, Magnitude, Top, Scaled
<1> QED BY <1>2, <1>3

LEMMA LevelGrows ==
  ASSUME NEW x \in F32, NEW y \in F32, InRange(x), InRange(y), Key(x) <= Key(y)
  PROVE  DmaWord(convint8(x)) <= DmaWord(convint8(y))
<1> DEFINE v == WholeSteps(x)
           w == WholeSteps(y)
           k == x.exp * Top + x.frac
           l == y.exp * Top + y.frac
<1>1. /\ v \in Int /\ 0 <= v /\ w \in Int /\ 0 <= w
      /\ k \in Int /\ 0 <= k /\ l \in Int /\ 0 <= l
  <2>1. v \in Int /\ 0 <= v /\ w \in Int /\ 0 <= w
    BY SMT, StepsRange
  <2>2. k \in Int /\ 0 <= k /\ l \in Int /\ 0 <= l
    BY SMT, Fields DEF Top
  <2> QED BY <2>1, <2>2
<1>2. Key(x) = Sign(x) * k /\ Key(y) = Sign(y) * l
  BY SMT DEF Key
<1>3. k <= l => v <= w
  BY StepsGrow
<1>4. l <= k => w <= v
  BY StepsGrow
<1>5. k = 0 => v = 0
  BY SMT, Fields DEF WholeSteps, Tiny, Top
<1>6. l = 0 => w = 0
  BY SMT, Fields DEF WholeSteps, Tiny, Top
<1>7. /\ DmaWord(convint8(x)) = 32768 + 256 * Sign(x) * v
      /\ DmaWord(convint8(y)) = 32768 + 256 * Sign(y) * w
  BY ConvertExact
<1> HIDE DEF v, w, k, l
<1>8. Sign(x) * v <= Sign(y) * w
  <2>1. CASE Sign(x) = 1 /\ Sign(y) = 1
    BY SMT, <1>1, <1>2, <1>3, <2>1
  <2>2. CASE Sign(x) = -1 /\ Sign(y) = -1
    BY SMT, <1>1, <1>2, <1>4, <2>2
  <2>3. CASE Sign(x) = -1 /\ Sign(y) = 1
    BY SMT, <1>1, <2>3
  <2>4. CASE Sign(x) = 1 /\ Sign(y) = -1
    BY SMT, <1>1, <1>2, <1>5, <1>6, <2>4
  <2> QED BY <2>1, <2>2, <2>3, <2>4, SignCases
<1> QED BY SMT, <1>1, <1>7, <1>8, SignCases

----------------------------------------------------------------------------
(* The loop *)

Converted == sample \in F32 /\ level = DmaWord(convint8(sample))

LEMMA SilenceConverted ==
  Silence \in F32 /\ DmaWord(convint8(Silence)) = DmaSilence /\ DmaSilence = DmaWord(0)
<1>1. Silence \in F32
  <2>1. Top \in Int /\ Top > 0
    BY SMT DEF Top
  <2> QED BY SMT, <2>1 DEF Silence, F32
<1>2. convint8(Silence) = 0
  <2>1. Silence.exp = 0
    BY SMT DEF Silence
  <2> QED BY SMT, <2>1 DEF convint8, Tiny
<1>3. DmaWord(0) = 32768
  BY SMT DEF DmaWord
<1> QED BY SMT, <1>1, <1>2, <1>3 DEF DmaSilence

LEMMA ConvertedHolds == PlaySpec => []Converted
<1>1. PlayInit => Converted
  BY SilenceConverted DEF PlayInit, Converted
<1>2. Converted /\ [PlayNext]_playVars => Converted'
  <2> SUFFICES ASSUME Converted, [PlayNext]_playVars PROVE Converted'
    OBVIOUS
  <2>1. CASE Network
    BY <2>1 DEF Network, Converted
  <2>2. CASE Play
    BY <2>2, SilenceConverted, AudioAssumption DEF Play, Converted
  <2>3. CASE Underrun
    BY <2>3, SilenceConverted DEF Underrun, Converted
  <2>4. CASE UNCHANGED playVars
    BY <2>4 DEF playVars, Converted
  <2> QED BY <2>1, <2>2, <2>3, <2>4 DEF PlayNext
<1> QED BY <1>1, <1>2, PTL DEF PlaySpec

(* run_stream and on_convert_done, for every f32: what a sample in range   *)
(* comes to at the DAC is the level its number asks for.                   *)
THEOREM LevelsExact == PlaySpec => []LevelIsExact
<1>1. Converted => LevelIsExact
  BY ConvertExact DEF Converted, LevelIsExact
<1> QED BY <1>1, ConvertedHolds, PTL

(* convint8 and the DMA word, for every two f32 in range: the level goes   *)
(* the way the sample goes.                                                *)
THEOREM LevelsFollow == PlaySpec => LevelFollows
<1>1. Converted /\ Converted' =>
        [InRange(sample) /\ InRange(sample') /\ Key(sample) <= Key(sample')
           => level <= level']_playVars
  BY LevelGrows DEF Converted
<1> QED BY <1>1, ConvertedHolds, PTL DEF LevelFollows

(* run_stream uses the jitter buffer the way PacketQueue is used, so what  *)
(* is proved of PacketQueue holds in Playback.                             *)
THEOREM QueuePart == PlaySpec => Spec
<1>1. PlayInit => Init
  BY DEF PlayInit
<1>2. [PlayNext]_playVars => [Next]_vars
  BY DEF PlayNext, playVars, Network, Play, Underrun, Next
<1> QED BY <1>1, <1>2, PTL DEF PlaySpec, Spec
=============================================================================
