--------------------------- MODULE Erasure_proofs ---------------------------
(***************************************************************************)
(* Overwriting. ContainerLayout implements SlotStore, for every size of    *)
(* container and every length of record. Emergency, for any number of      *)
(* containers, Faces, commands and triggers: a complete trigger is removed *)
(* only when a container has been overwritten, and what a clear condemned  *)
(* is gone or will be tried again. The two models are independent; each    *)
(* theorem names its specification.                                        *)
(***************************************************************************)
EXTENDS ContainerLayout, Emergency, TLAPS

-----------------------------------------------------------------------------
(* The container's slots.                                                  *)

(* What is written is one slot, or noise over whole slots only; and up to  *)
(* op.at it has been written.                                              *)
OpShape ==
    /\ op.start <= op.at /\ op.at <= op.end
    /\ op # Idle => op.start < op.end
    /\ op.rec # Noise =>
        op.start = SlotSpan(op.mode, op.role).start /\ op.end = End(SlotSpan(op.mode, op.role))
    /\ \A m \in Mode, r \in Role :
        Reach(m, r) => op.start <= SlotSpan(m, r).start /\ End(SlotSpan(m, r)) <= op.end

Written ==
    \A i \in op.start..(op.at - 1) :
        bytes[i] = IF op.rec = Noise THEN Blank
                   ELSE [rec |-> op.rec, mode |-> op.mode, role |-> op.role, at |-> i - op.start]

IInv == TypeOK /\ OpShape /\ Written

-----------------------------------------------------------------------------
(* The layout *)

LEMMA HalfFacts ==
    ASSUME NEW n \in Nat
    PROVE  n \div 2 \in Nat /\ 2 * (n \div 2) <= n /\ n <= 2 * (n \div 2) + 1
  BY SMT

(* Where the four slots begin and end. *)
Quarter == (Size \div 2) \div 2
Upper == Size \div 2 + (Size - Size \div 2) \div 2

LEMMA Cuts ==
    /\ Quarter \in Nat /\ Size \div 2 \in Nat /\ Upper \in Nat /\ Size \in Nat
    /\ 0 < Quarter /\ Quarter < Size \div 2 /\ Size \div 2 < Upper /\ Upper < Size
<1>1. Size \div 2 \in Nat /\ 2 * (Size \div 2) <= Size /\ Size <= 2 * (Size \div 2) + 1
    BY HalfFacts, SizeAssumption
<1> DEFINE h == Size \div 2
<1> HIDE DEF h
<1>2. h \in Nat /\ Size \in Nat /\ Size >= 4 /\ 2 * h <= Size /\ Size <= 2 * h + 1
    BY <1>1, SizeAssumption DEF h
<1>3. h \div 2 \in Nat /\ 2 * (h \div 2) <= h /\ h <= 2 * (h \div 2) + 1
    BY <1>2, HalfFacts
<1>4. Size - h \in Nat
    BY <1>2
<1>5. (Size - h) \div 2 \in Nat /\ 2 * ((Size - h) \div 2) <= Size - h
        /\ Size - h <= 2 * ((Size - h) \div 2) + 1
    BY <1>4, HalfFacts
<1> DEFINE a == h \div 2
           b == (Size - h) \div 2
<1> HIDE DEF a, b
<1>6. /\ a \in Nat /\ 2 * a <= h /\ h <= 2 * a + 1
      /\ b \in Nat /\ 2 * b <= Size - h /\ Size - h <= 2 * b + 1
    BY <1>3, <1>5 DEF a, b
<1>7. Quarter = a /\ Upper = h + b
    BY DEF Quarter, Upper, a, b, h
<1>8. /\ a \in Nat /\ h \in Nat /\ h + b \in Nat /\ Size \in Nat
      /\ 0 < a /\ a < h /\ h < h + b /\ h + b < Size
    BY <1>2, <1>6
<1> QED
    BY <1>7, <1>8 DEF h

LEMMA Spans ==
    /\ SlotSpan("dummy", "open").start = 0 /\ End(SlotSpan("dummy", "open")) = Quarter
    /\ SlotSpan("dummy", "purge").start = Quarter
    /\ End(SlotSpan("dummy", "purge")) = Size \div 2
    /\ SlotSpan("secret", "open").start = Size \div 2
    /\ End(SlotSpan("secret", "open")) = Upper
    /\ SlotSpan("secret", "purge").start = Upper /\ End(SlotSpan("secret", "purge")) = Size
    /\ ModeSpan("dummy").start = 0 /\ End(ModeSpan("dummy")) = Size \div 2
    /\ ModeSpan("secret").start = Size \div 2 /\ End(ModeSpan("secret")) = Size
<1> DEFINE h == Size \div 2
           a == h \div 2
           b == (Size - h) \div 2
<1>1. h \in Nat /\ Size \in Nat /\ a \in Nat
    BY Cuts DEF Quarter
<1>2. Upper = h + b /\ Quarter = a
    BY DEF Upper, Quarter
<1>3. h + b \in Nat
    BY <1>2, Cuts
<1>4. b \in Int
    BY <1>1
<1>5. ModeSpan("dummy") = [start |-> 0, length |-> h]
    BY DEF ModeSpan
<1>6. ModeSpan("secret") = [start |-> h, length |-> Size - h]
    BY DEF ModeSpan
<1>7. SlotSpan("dummy", "open") = [start |-> 0, length |-> a]
    BY <1>5 DEF SlotSpan
<1>8. SlotSpan("dummy", "purge") = [start |-> 0 + a, length |-> h - a]
    BY <1>5 DEF SlotSpan
<1>9. SlotSpan("secret", "open") = [start |-> h, length |-> b]
    BY <1>6 DEF SlotSpan
<1>10. SlotSpan("secret", "purge") = [start |-> h + b, length |-> (Size - h) - b]
    BY <1>6 DEF SlotSpan
<1> HIDE DEF h, a, b
<1>11. /\ SlotSpan("dummy", "open").start = 0 /\ End(SlotSpan("dummy", "open")) = a
       /\ SlotSpan("dummy", "purge").start = a /\ End(SlotSpan("dummy", "purge")) = h
       /\ SlotSpan("secret", "open").start = h /\ End(SlotSpan("secret", "open")) = h + b
       /\ SlotSpan("secret", "purge").start = h + b
       /\ End(SlotSpan("secret", "purge")) = Size
    BY <1>1, <1>4, <1>7, <1>8, <1>9, <1>10 DEF End
<1>12. /\ ModeSpan("dummy").start = 0 /\ End(ModeSpan("dummy")) = h
       /\ ModeSpan("secret").start = h /\ End(ModeSpan("secret")) = Size
    BY <1>1, <1>5, <1>6 DEF End
<1> QED
    BY <1>2, <1>11, <1>12 DEF h

LEMMA LengthFacts ==
    ASSUME NEW m \in Mode, NEW r \in Role
    PROVE  SlotSpan(m, r).length = End(SlotSpan(m, r)) - SlotSpan(m, r).start
<1>1. Size \in Nat /\ Size \div 2 \in Nat /\ Quarter \in Nat
    BY Cuts
<1>2. ModeSpan(m).start \in Int /\ ModeSpan(m).length \in Int
    BY <1>1 DEF ModeSpan
<1>3. ModeSpan(m).length \div 2 \in Int
    BY <1>2
<1>4. SlotSpan(m, r).start \in Int /\ SlotSpan(m, r).length \in Int
    BY <1>2, <1>3 DEF SlotSpan
<1> QED
    BY <1>4 DEF End

LEMMA SlotFacts ==
    ASSUME NEW m \in Mode, NEW r \in Role
    PROVE  /\ SlotSpan(m, r).start \in Nat /\ End(SlotSpan(m, r)) \in Nat
           /\ SlotSpan(m, r).start < End(SlotSpan(m, r)) /\ End(SlotSpan(m, r)) <= Size
           /\ ModeSpan(m).start \in Nat /\ End(ModeSpan(m)) \in Nat
           /\ ModeSpan(m).start < End(ModeSpan(m)) /\ End(ModeSpan(m)) <= Size
           /\ ModeSpan(m).start <= SlotSpan(m, r).start
           /\ End(SlotSpan(m, r)) <= End(ModeSpan(m))
<1>1. CASE m = "dummy" /\ r = "open"  BY <1>1, Spans, Cuts
<1>2. CASE m = "dummy" /\ r = "purge"  BY <1>2, Spans, Cuts
<1>3. CASE m = "secret" /\ r = "open"  BY <1>3, Spans, Cuts
<1>4. CASE m = "secret" /\ r = "purge"  BY <1>4, Spans, Cuts
<1> QED  BY <1>1, <1>2, <1>3, <1>4 DEF Mode, Role

(* Two slots share no byte, nor do a slot and the other Face.              *)
LEMMA Apart ==
    ASSUME NEW m \in Mode, NEW r \in Role, NEW n \in Mode, NEW q \in Role
    PROVE  /\ m # n => \/ End(SlotSpan(m, r)) <= ModeSpan(n).start
                       \/ End(ModeSpan(n)) <= SlotSpan(m, r).start
           /\ <<m, r>> # <<n, q>> => \/ End(SlotSpan(m, r)) <= SlotSpan(n, q).start
                                     \/ End(SlotSpan(n, q)) <= SlotSpan(m, r).start
<1>1. CASE m = "dummy" /\ r = "open"  BY <1>1, Spans, Cuts DEF Mode, Role
<1>2. CASE m = "dummy" /\ r = "purge"  BY <1>2, Spans, Cuts DEF Mode, Role
<1>3. CASE m = "secret" /\ r = "open"  BY <1>3, Spans, Cuts DEF Mode, Role
<1>4. CASE m = "secret" /\ r = "purge"  BY <1>4, Spans, Cuts DEF Mode, Role
<1> QED  BY <1>1, <1>2, <1>3, <1>4 DEF Mode, Role

(* Every byte lies in a slot. *)
LEMMA Covered ==
    ASSUME NEW i \in 0..(Size - 1)
    PROVE  \E m \in Mode, r \in Role : SlotSpan(m, r).start <= i /\ i < End(SlotSpan(m, r))
<1>1. i \in Nat /\ i < Size
    BY Cuts
<1>2. CASE i < Quarter  BY <1>1, <1>2, Spans, Cuts DEF Mode, Role
<1>3. CASE Quarter <= i /\ i < Size \div 2  BY <1>1, <1>3, Spans, Cuts DEF Mode, Role
<1>4. CASE Size \div 2 <= i /\ i < Upper  BY <1>1, <1>4, Spans, Cuts DEF Mode, Role
<1>5. CASE Upper <= i  BY <1>1, <1>5, Spans, Cuts DEF Mode, Role
<1> QED  BY <1>1, <1>2, <1>3, <1>4, <1>5, Cuts

LEMMA InSlot ==
    ASSUME NEW m \in Mode, NEW r \in Role, NEW i
    PROVE  i \in Bytes(SlotSpan(m, r)) <=>
             i \in 0..(Size - 1) /\ SlotSpan(m, r).start <= i /\ i < End(SlotSpan(m, r))
<1>1. /\ SlotSpan(m, r).start \in Nat /\ End(SlotSpan(m, r)) \in Nat /\ Size \in Nat
      /\ End(SlotSpan(m, r)) <= Size
    BY SlotFacts, Cuts
<1> QED
    BY <1>1 DEF Bytes

(* What is read back depends on the bytes of the slot only.                *)
LEMMA ReadsOwn ==
    ASSUME NEW m \in Mode, NEW r \in Role,
           \A i \in Bytes(SlotSpan(m, r)) : bytes'[i] = bytes[i]
    PROVE  RetrieveSlot(m, r)' = RetrieveSlot(m, r)
<1>1. SlotSpan(m, r).start \in Bytes(SlotSpan(m, r))
    BY SlotFacts, Cuts, InSlot
<1>2. \A x : Holds(x, m, r)' <=> Holds(x, m, r)
    BY DEF Holds
<1>3. bytes'[SlotSpan(m, r).start] = bytes[SlotSpan(m, r).start]
    BY <1>1
<1> QED
    BY <1>2, <1>3 DEF RetrieveSlot

(* A stretch of bytes meets a slot when neither ends before the other.     *)
LEMMA Meets ==
    ASSUME NEW m \in Mode, NEW r \in Role, NEW a \in Nat, NEW b \in Nat, a < b
    PROVE  (\E i \in Bytes(SlotSpan(m, r)) : a <= i /\ i < b)
             <=> a < End(SlotSpan(m, r)) /\ SlotSpan(m, r).start < b
<1> DEFINE c == SlotSpan(m, r).start
           d == End(SlotSpan(m, r))
<1>1. c \in Nat /\ d \in Nat /\ c < d
    BY SlotFacts
<1>2. Bytes(SlotSpan(m, r)) = c..(d - 1)
    BY DEF Bytes
<1> HIDE DEF c, d
<1>3. (\E i \in c..(d - 1) : a <= i /\ i < b) => a < d /\ c < b
    BY <1>1
<1>4. ASSUME a < d, c < b
      PROVE  \E i \in c..(d - 1) : a <= i /\ i < b
    <2>1. CASE a <= c  BY <1>1, <1>4, <2>1
    <2>2. CASE ~(a <= c)  BY <1>1, <1>4, <2>2
    <2> QED  BY <2>1, <2>2
<1>5. (\E i \in c..(d - 1) : a <= i /\ i < b) <=> a < d /\ c < b
    BY <1>3, <1>4
<1> QED
    BY <1>2, <1>5 DEF c, d

-----------------------------------------------------------------------------
(* The invariant *)

LEMMA InitInv == Init => IInv
<1> SUFFICES ASSUME Init PROVE IInv
    OBVIOUS
<1>1. Size \in Nat /\ Size >= 4
    BY SizeAssumption
<1>2. op.rec = Noise /\ op.start = 0 /\ op.at = 0 /\ op.end = 0
    BY DEF Init, Idle
<1>3. TypeOK
    <2>1. bytes \in [0..(Size - 1) -> Byte]
        BY DEF Init, Byte
    <2>2. op \in [rec : Record \union {Noise}, mode : Mode, role : Role,
                  start : 0..Size, at : 0..Size, end : 0..Size]
        BY <1>1 DEF Init, Idle, Mode, Role
    <2> QED  BY <2>1, <2>2 DEF TypeOK
<1>4. OpShape
    <2>1. ASSUME NEW m \in Mode, NEW r \in Role PROVE ~Reach(m, r)
        <3>1. \A i \in Bytes(SlotSpan(m, r)) : i \in 0..(Size - 1)
            BY InSlot
        <3> QED  BY <3>1, <1>1, <1>2 DEF Reach
    <2> QED  BY <1>2, <2>1 DEF OpShape, Init
<1>5. Written
    BY <1>2 DEF Written
<1> QED  BY <1>3, <1>4, <1>5 DEF IInv

(* An operation that starts keeps the invariant if what it writes is one   *)
(* slot, and what it erases is whole slots.                                *)
LEMMA BeginInv ==
    ASSUME IInv, NEW x \in Record \union {Noise}, NEW m \in Mode, NEW r \in Role,
           NEW a \in 0..Size, NEW b \in 0..Size, a < b, Begin(x, m, r, a, b),
           x # Noise => a = SlotSpan(m, r).start /\ b = End(SlotSpan(m, r)),
           \A n \in Mode, q \in Role :
              a < End(SlotSpan(n, q)) /\ SlotSpan(n, q).start < b
                => a <= SlotSpan(n, q).start /\ End(SlotSpan(n, q)) <= b
    PROVE  IInv'
<1>0. Size \in Nat /\ a \in Nat /\ b \in Nat
    BY SizeAssumption
<1>1. op' = [rec |-> x, mode |-> m, role |-> r, start |-> a, at |-> a, end |-> b]
    BY DEF Begin
<1>2. bytes' = bytes
    BY DEF Begin
<1>3. TypeOK'
    BY <1>1, <1>2 DEF IInv, TypeOK
<1>4. OpShape'
    <2>1. op'.start = a /\ op'.at = a /\ op'.end = b /\ op'.rec = x /\ op'.mode = m /\ op'.role = r
        BY <1>1
    <2>2. ASSUME NEW n \in Mode, NEW q \in Role, Reach(n, q)'
          PROVE  a <= SlotSpan(n, q).start /\ End(SlotSpan(n, q)) <= b
        <3>1. \E i \in Bytes(SlotSpan(n, q)) : a <= i /\ i < b
            BY <2>1, <2>2 DEF Reach
        <3> QED  BY <3>1, <1>0, Meets
    <2> QED  BY <1>0, <2>1, <2>2 DEF OpShape
<1>5. Written'
    BY <1>0, <1>1 DEF Written
<1> QED  BY <1>3, <1>4, <1>5 DEF IInv

(* The stretch each operation covers: one slot, a Face, or all.            *)
LEMMA WholeSlots ==
    ASSUME NEW m \in Mode, NEW r \in Role, NEW n \in Mode, NEW q \in Role
    PROVE  /\ SlotSpan(m, r).start < End(SlotSpan(n, q)) /\ SlotSpan(n, q).start < End(SlotSpan(m, r))
                <=> n = m /\ q = r
           /\ ModeSpan(m).start < End(SlotSpan(n, q)) /\ SlotSpan(n, q).start < End(ModeSpan(m))
                <=> n = m
           /\ 0 < End(SlotSpan(n, q)) /\ SlotSpan(n, q).start < Size
<1>1. CASE m = "dummy" /\ r = "open"  BY <1>1, Spans, Cuts DEF Mode, Role
<1>2. CASE m = "dummy" /\ r = "purge"  BY <1>2, Spans, Cuts DEF Mode, Role
<1>3. CASE m = "secret" /\ r = "open"  BY <1>3, Spans, Cuts DEF Mode, Role
<1>4. CASE m = "secret" /\ r = "purge"  BY <1>4, Spans, Cuts DEF Mode, Role
<1> QED  BY <1>1, <1>2, <1>3, <1>4 DEF Mode, Role

LEMMA WriteEnd ==
    ASSUME NEW m \in Mode, NEW r \in Role
    PROVE  SlotSpan(m, r).start + PayloadLength(m, r) = End(SlotSpan(m, r))
<1>1. SlotSpan(m, r).start \in Nat /\ End(SlotSpan(m, r)) \in Nat
    BY SlotFacts
<1>2. SlotSpan(m, r).length = End(SlotSpan(m, r)) - SlotSpan(m, r).start
    BY LengthFacts
<1>3. RECORD_OVERHEAD \in Nat
    BY RecordAssumption
<1>4. SlotSpan(m, r).length \in Int
    BY <1>1, <1>2
<1>5. PayloadLength(m, r) = SlotSpan(m, r).length
    BY <1>3, <1>4 DEF PayloadLength, PlaintextCapacity
<1> QED
    BY <1>1, <1>2, <1>5

(* The bytes from a to b are those of a write of x to a slot, or of the    *)
(* erasure of a slot, a Face, or all (x = Noise).                          *)
Covers(x, m, r, a, b) ==
    \/ /\ x \in Record \union {Noise}
       /\ a = SlotSpan(m, r).start /\ b = End(SlotSpan(m, r))
    \/ x = Noise /\ a = ModeSpan(m).start /\ b = End(ModeSpan(m))
    \/ x = Noise /\ a = 0 /\ b = Size

LEMMA CoversFacts ==
    ASSUME NEW x, NEW m \in Mode, NEW r \in Role, NEW a, NEW b, Covers(x, m, r, a, b)
    PROVE  /\ a \in 0..Size /\ b \in 0..Size /\ a < b /\ x \in Record \union {Noise}
           /\ x # Noise => a = SlotSpan(m, r).start /\ b = End(SlotSpan(m, r))
           /\ \A n \in Mode, q \in Role :
                a < End(SlotSpan(n, q)) /\ SlotSpan(n, q).start < b
                  => a <= SlotSpan(n, q).start /\ End(SlotSpan(n, q)) <= b
<1>1. Size \in Nat /\ 0 < Size
    BY Cuts
<1>2. CASE /\ x \in Record \union {Noise}
           /\ a = SlotSpan(m, r).start /\ b = End(SlotSpan(m, r))
    <2>1. a \in 0..Size /\ b \in 0..Size /\ a < b
        BY <1>1, <1>2, SlotFacts
    <2>2. ASSUME NEW n \in Mode, NEW q \in Role,
                 a < End(SlotSpan(n, q)), SlotSpan(n, q).start < b
          PROVE  a <= SlotSpan(n, q).start /\ End(SlotSpan(n, q)) <= b
        <3>1. n = m /\ q = r
            BY <1>2, <2>2, WholeSlots
        <3> QED  BY <1>2, <2>1, <3>1
    <2> QED  BY <1>2, <2>1, <2>2
<1>3. CASE x = Noise /\ a = ModeSpan(m).start /\ b = End(ModeSpan(m))
    <2>1. a \in 0..Size /\ b \in 0..Size /\ a < b
        BY <1>1, <1>3, SlotFacts
    <2>2. ASSUME NEW n \in Mode, NEW q \in Role,
                 a < End(SlotSpan(n, q)), SlotSpan(n, q).start < b
          PROVE  a <= SlotSpan(n, q).start /\ End(SlotSpan(n, q)) <= b
        <3>1. n = m
            BY <1>3, <2>2, WholeSlots
        <3> QED  BY <1>3, <3>1, SlotFacts
    <2> QED  BY <1>3, <2>1, <2>2
<1>4. CASE x = Noise /\ a = 0 /\ b = Size
    <2>1. \A n \in Mode, q \in Role :
             SlotSpan(n, q).start \in Nat /\ End(SlotSpan(n, q)) <= Size
        BY SlotFacts
    <2> QED  BY <1>1, <1>4, <2>1
<1> QED
    BY <1>2, <1>3, <1>4 DEF Covers

Starts == \E m \in Mode, r \in Role :
            \E x, a, b : Covers(x, m, r, a, b) /\ Begin(x, m, r, a, b)

(* Every step of ContainerLayout, by what it does to op.                   *)
LEMMA Steps ==
    ASSUME Next
    PROVE  \/ Starts
           \/ FormatContainer \/ PutByte \/ Done \/ PowerLoss
<1>0. "dummy" \in Mode /\ "open" \in Role
    BY DEF Mode, Role
<1>1. ASSUME NEW m \in Mode, NEW r \in Role, RandomizeSlot(m, r)
      PROVE  Starts
    <2>1. Covers(Noise, m, r, SlotSpan(m, r).start, End(SlotSpan(m, r)))
        BY DEF Covers
    <2> QED  BY <1>1, <2>1 DEF RandomizeSlot, Starts
<1>2. ASSUME NEW m \in Mode, NEW r \in Role, NEW x \in Record, WriteSlot(m, r, x)
      PROVE  Starts
    <2>1. Covers(x, m, r, SlotSpan(m, r).start, End(SlotSpan(m, r)))
        BY DEF Covers
    <2>2. Begin(x, m, r, SlotSpan(m, r).start, End(SlotSpan(m, r)))
        BY <1>2, WriteEnd DEF WriteSlot
    <2> QED  BY <2>1, <2>2 DEF Starts
<1>3. ASSUME NEW m \in Mode, PurgeMode(m)
      PROVE  Starts
    <2>1. Covers(Noise, m, "open", ModeSpan(m).start, End(ModeSpan(m)))
        BY DEF Covers
    <2> QED  BY <1>0, <1>3, <2>1 DEF PurgeMode, Starts
<1>4. ASSUME SilentBrick
      PROVE  Starts
    <2>1. Covers(Noise, "dummy", "open", 0, Size)
        BY DEF Covers
    <2> QED  BY <1>0, <1>4, <2>1 DEF SilentBrick, Starts
<1> QED
    BY <1>1, <1>2, <1>3, <1>4 DEF Next

LEMMA FormatInv == IInv /\ FormatContainer => IInv'
<1> SUFFICES ASSUME IInv, FormatContainer PROVE IInv'
    OBVIOUS
<1>1. op = Idle /\ op' = op /\ bytes' = [i \in 0..(Size - 1) |-> Blank]
    BY DEF FormatContainer
<1>2. TypeOK'
    BY <1>1 DEF IInv, TypeOK, Byte
<1>3. OpShape'
    BY <1>1 DEF IInv, OpShape, Reach
<1>4. Written'
    BY <1>1 DEF Written, Idle
<1> QED  BY <1>2, <1>3, <1>4 DEF IInv

(* PutByte writes in the container, and what it should.                    *)
LEMMA PutByteInv == IInv /\ PutByte => IInv'
<1> SUFFICES ASSUME IInv, PutByte PROVE IInv'
    OBVIOUS
<1>0. Size \in Nat /\ 0 < Size
    BY Cuts
<1>1. /\ bytes \in [0..(Size - 1) -> Byte]
      /\ op \in [rec : Record \union {Noise}, mode : Mode, role : Role,
                 start : 0..Size, at : 0..Size, end : 0..Size]
      /\ op.start <= op.at /\ op.start < op.end
    BY DEF IInv, TypeOK, OpShape, PutByte
<1>2. op.at < op.end /\ op.at \in 0..(Size - 1) /\ op.at - op.start \in 0..(Size - 1)
    BY <1>0, <1>1 DEF PutByte
<1>3. NextByte \in Byte
    BY <1>1, <1>2 DEF NextByte, Byte
<1>4. bytes' = [bytes EXCEPT ![op.at] = NextByte] /\ op' = [op EXCEPT !.at = op.at + 1]
    BY DEF PutByte
<1>5. /\ op'.rec = op.rec /\ op'.mode = op.mode /\ op'.role = op.role
      /\ op'.start = op.start /\ op'.end = op.end /\ op'.at = op.at + 1
    BY <1>1, <1>4
<1>6. TypeOK'
    <2>1. bytes' \in [0..(Size - 1) -> Byte]
        BY <1>1, <1>3, <1>4
    <2>2. op.at + 1 \in 0..Size
        BY <1>0, <1>2
    <2>3. op' \in [rec : Record \union {Noise}, mode : Mode, role : Role,
                   start : 0..Size, at : 0..Size, end : 0..Size]
        BY <1>1, <1>4, <2>2
    <2> QED  BY <2>1, <2>3 DEF TypeOK
<1>7. OpShape'
    <2>1. \A m \in Mode, r \in Role : Reach(m, r)' <=> Reach(m, r)
        BY <1>5 DEF Reach
    <2>2. op'.start <= op'.at /\ op'.at <= op'.end /\ op'.start < op'.end
        BY <1>0, <1>1, <1>2, <1>5
    <2>3. op'.rec # Noise =>
            op'.start = SlotSpan(op'.mode, op'.role).start
              /\ op'.end = End(SlotSpan(op'.mode, op'.role))
        BY <1>5 DEF IInv, OpShape
    <2>4. \A m \in Mode, r \in Role :
            Reach(m, r)' => op'.start <= SlotSpan(m, r).start /\ End(SlotSpan(m, r)) <= op'.end
        BY <1>5, <2>1 DEF IInv, OpShape
    <2> QED  BY <2>2, <2>3, <2>4 DEF OpShape
<1>8. Written'
    <2>1. SUFFICES ASSUME NEW i \in op.start..op.at
                   PROVE  bytes'[i] = IF op.rec = Noise THEN Blank
                            ELSE [rec |-> op.rec, mode |-> op.mode, role |-> op.role,
                                  at |-> i - op.start]
        BY <1>1, <1>2, <1>5 DEF Written
    <2>2. CASE i = op.at
        BY <1>1, <1>2, <1>4, <2>2 DEF NextByte
    <2>3. CASE i # op.at
        <3>1. i \in op.start..(op.at - 1)
            BY <1>1, <1>2, <2>3
        <3>2. bytes'[i] = bytes[i]
            BY <1>1, <1>4, <2>3, <3>1
        <3> QED  BY <3>1, <3>2 DEF IInv, Written
    <2> QED  BY <2>2, <2>3
<1> QED  BY <1>6, <1>7, <1>8 DEF IInv

(* An operation that ends, or is cut off, leaves nothing under way.        *)
LEMMA EndInv == IInv /\ (Done \/ PowerLoss) => IInv'
<1> SUFFICES ASSUME IInv, Done \/ PowerLoss PROVE IInv'
    OBVIOUS
<1>0. Size \in Nat /\ 0 < Size
    BY Cuts
<1>1. op' = Idle /\ bytes' = bytes
    BY DEF Done, PowerLoss
<1>2. /\ op'.rec = Noise /\ op'.start = 0 /\ op'.at = 0 /\ op'.end = 0
      /\ op'.mode = "dummy" /\ op'.role = "open"
    BY <1>1 DEF Idle
<1>3. TypeOK'
    BY <1>0, <1>1 DEF IInv, TypeOK, Idle, Mode, Role
<1>4. OpShape'
    <2>1. ASSUME NEW m \in Mode, NEW r \in Role PROVE ~(Reach(m, r)')
        <3>1. \A i \in Bytes(SlotSpan(m, r)) : i \in 0..(Size - 1)
            BY InSlot
        <3> QED  BY <1>0, <1>2, <3>1 DEF Reach
    <2> QED  BY <1>1, <1>2, <2>1 DEF OpShape
<1>5. Written'
    BY <1>2 DEF Written
<1> QED  BY <1>3, <1>4, <1>5 DEF IInv

LEMMA StepInv == IInv /\ [Next]_vars => IInv'
<1> SUFFICES ASSUME IInv, [Next]_vars PROVE IInv'
    OBVIOUS
<1>1. ASSUME NEW m \in Mode, NEW r \in Role, NEW x, NEW a, NEW b,
             Covers(x, m, r, a, b), Begin(x, m, r, a, b)
      PROVE  IInv'
    <2>1. /\ a \in 0..Size /\ b \in 0..Size /\ a < b /\ x \in Record \union {Noise}
          /\ x # Noise => a = SlotSpan(m, r).start /\ b = End(SlotSpan(m, r))
          /\ \A n \in Mode, q \in Role :
                a < End(SlotSpan(n, q)) /\ SlotSpan(n, q).start < b
                  => a <= SlotSpan(n, q).start /\ End(SlotSpan(n, q)) <= b
        BY <1>1, CoversFacts
    <2> QED  BY <1>1, <2>1, BeginInv
<1>2. CASE UNCHANGED vars
    BY <1>2 DEF vars, IInv, TypeOK, OpShape, Written, Reach
<1>3. CASE Next
    BY <1>1, <1>3, Steps, FormatInv, PutByteInv, EndInv DEF Starts
<1> QED  BY <1>2, <1>3

(* The container always has its type: no write, whatever its size, leaves  *)
(* the container.                                                          *)
THEOREM TypeCorrect == Spec => []TypeOK
<1>1. IInv => TypeOK
    BY DEF IInv
<1> QED
    BY <1>1, InitInv, StepInv, PTL DEF Spec

-----------------------------------------------------------------------------
(* The refinement: SlotStore's variables, as StoreSpec reads them.         *)
Held == [s \in Mode \X Role |-> RetrieveSlot(s[1], s[2])]
Doomed == {s \in Mode \X Role : op # Idle /\ Reach(s[1], s[2])}

LEMMA SameNames ==
    /\ Store!Mode = Mode /\ Store!Role = Role /\ Store!Slots = Mode \X Role
  BY DEF Store!Mode, Store!Role, Store!Slots, Mode, Role

LEMMA SameBytes == UNCHANGED bytes => Held' = Held
<1> SUFFICES ASSUME UNCHANGED bytes PROVE Held' = Held
    OBVIOUS
<1>1. \A s \in Mode \X Role : RetrieveSlot(s[1], s[2])' = RetrieveSlot(s[1], s[2])
    BY ReadsOwn
<1> QED  BY <1>1 DEF Held

(* A blank container holds nothing. *)
LEMMA BlankHolds ==
    ASSUME bytes = [i \in 0..(Size - 1) |-> Blank]
    PROVE  Held = [s \in Store!Slots |-> Noise]
<1>1. ASSUME NEW m \in Mode, NEW r \in Role PROVE RetrieveSlot(m, r) = Noise
    <2>1. SlotSpan(m, r).start \in 0..(Size - 1)
        BY SlotFacts, Cuts
    <2>2. bytes[SlotSpan(m, r).start].rec = Noise
        BY <2>1 DEF Blank
    <2> QED  BY <2>2 DEF RetrieveSlot
<1> QED  BY <1>1, SameNames DEF Held

LEMMA InitRefines == Init => Store!Init
<1> SUFFICES ASSUME Init PROVE Store!Init
    OBVIOUS
<1>1. Held = [s \in Store!Slots |-> Noise]
    BY BlankHolds DEF Init
<1>2. Doomed = {} /\ op.rec = Noise
    BY DEF Doomed, Init, Idle
<1> QED  BY <1>1, <1>2 DEF Store!Init, Held, Doomed

(* The slots named by an operation that starts.                            *)
LEMMA BeginDooms ==
    ASSUME NEW x, NEW m \in Mode, NEW r \in Role, NEW a \in 0..Size, NEW b \in 0..Size,
           a < b, Begin(x, m, r, a, b)
    PROVE  Doomed' = {s \in Mode \X Role :
                        a < End(SlotSpan(s[1], s[2])) /\ SlotSpan(s[1], s[2]).start < b}
<1>1. a \in Nat /\ b \in Nat
    BY Cuts
<1>2. op' = [rec |-> x, mode |-> m, role |-> r, start |-> a, at |-> a, end |-> b]
    BY DEF Begin
<1>3. op'.start = a /\ op'.end = b /\ op' # Idle
    BY <1>1, <1>2 DEF Idle
<1>4. \A n \in Mode, q \in Role :
        Reach(n, q)' <=> a < End(SlotSpan(n, q)) /\ SlotSpan(n, q).start < b
    BY <1>1, <1>3, Meets DEF Reach
<1> QED  BY <1>3, <1>4 DEF Doomed

LEMMA BeginRefines ==
    ASSUME NEW x, NEW m \in Mode, NEW r \in Role, NEW a, NEW b,
           Covers(x, m, r, a, b), Begin(x, m, r, a, b)
    PROVE  Store!Next
<1>1. Held' = Held /\ Doomed = {} /\ op'.rec = x
    BY SameBytes DEF Begin, Doomed
<1>2. a \in 0..Size /\ b \in 0..Size /\ a < b
    BY CoversFacts
<1>3. Doomed' = {s \in Mode \X Role :
                    a < End(SlotSpan(s[1], s[2])) /\ SlotSpan(s[1], s[2]).start < b}
    BY <1>2, BeginDooms
<1>4. ASSUME NEW S, Doomed' = S PROVE Store!Begin(S, x)
    BY <1>1, <1>4 DEF Store!Begin, Held, Doomed
<1>5. CASE /\ x \in Record \union {Noise}
           /\ a = SlotSpan(m, r).start /\ b = End(SlotSpan(m, r))
    <2>1. \A s \in Mode \X Role :
            a < End(SlotSpan(s[1], s[2])) /\ SlotSpan(s[1], s[2]).start < b <=> s = <<m, r>>
        BY <1>5, WholeSlots
    <2>2. Doomed' = {<<m, r>>}
        BY <1>3, <2>1
    <2> QED  BY <1>4, <1>5, <2>2, SameNames DEF Store!Next
<1>6. CASE x = Noise /\ a = ModeSpan(m).start /\ b = End(ModeSpan(m))
    <2>1. \A s \in Mode \X Role :
            a < End(SlotSpan(s[1], s[2])) /\ SlotSpan(s[1], s[2]).start < b <=> s[1] = m
        BY <1>6, WholeSlots
    <2>2. Doomed' = {m} \X Role
        BY <1>3, <2>1
    <2> QED  BY <1>4, <1>6, <2>2, SameNames DEF Store!Next
<1>7. CASE x = Noise /\ a = 0 /\ b = Size
    <2>1. \A s \in Mode \X Role :
            a < End(SlotSpan(s[1], s[2])) /\ SlotSpan(s[1], s[2]).start < b
        BY <1>7, WholeSlots
    <2>2. Doomed' = Mode \X Role
        BY <1>3, <2>1
    <2> QED  BY <1>4, <1>7, <2>2, SameNames DEF Store!Next
<1> QED  BY <1>5, <1>6, <1>7 DEF Covers

LEMMA FormatRefines == FormatContainer => Store!Next
<1> SUFFICES ASSUME FormatContainer PROVE Store!Next
    OBVIOUS
<1>1. bytes' = [i \in 0..(Size - 1) |-> Blank]
    BY DEF FormatContainer
<1>2. Held' = [s \in Store!Slots |-> Noise]
    <2>1. ASSUME NEW m \in Mode, NEW r \in Role PROVE RetrieveSlot(m, r)' = Noise
        <3>1. SlotSpan(m, r).start \in 0..(Size - 1)
            BY SlotFacts, Cuts
        <3>2. bytes'[SlotSpan(m, r).start].rec = Noise
            BY <1>1, <3>1 DEF Blank
        <3> QED  BY <3>2 DEF RetrieveSlot
    <2> QED  BY <2>1, SameNames DEF Held
<1>3. Doomed = {} /\ Doomed' = {} /\ op'.rec = op.rec
    BY DEF FormatContainer, Doomed
<1>4. Store!Format
    BY <1>2, <1>3 DEF Store!Format, Held, Doomed
<1> QED  BY <1>4 DEF Store!Next

(* A byte disturbs the slot it lies in and no other, and leaves that slot  *)
(* what it is to hold, or noise.                                           *)
LEMMA PutByteRefines == IInv /\ PutByte => Store!Next
<1> SUFFICES ASSUME IInv, PutByte PROVE Store!Next
    OBVIOUS
<1>1. /\ bytes \in [0..(Size - 1) -> Byte]
      /\ op \in [rec : Record \union {Noise}, mode : Mode, role : Role,
                 start : 0..Size, at : 0..Size, end : 0..Size]
      /\ op # Idle /\ op.at < op.end /\ op.start <= op.at
    BY DEF IInv, TypeOK, OpShape, PutByte
<1>2. op.at \in 0..(Size - 1)
    BY <1>1, Cuts
<1>3. PICK m \in Mode, r \in Role : SlotSpan(m, r).start <= op.at /\ op.at < End(SlotSpan(m, r))
    BY <1>2, Covered
<1>4. op.at \in Bytes(SlotSpan(m, r))
    BY <1>2, <1>3, InSlot
<1>5. Reach(m, r)
    BY <1>1, <1>4 DEF Reach
<1>6. bytes' = [bytes EXCEPT ![op.at] = NextByte] /\ op' = [op EXCEPT !.at = op.at + 1]
    BY DEF PutByte
<1>7. bytes'[op.at] = NextByte
    BY <1>1, <1>2, <1>6
<1>8. /\ op'.rec = op.rec /\ op'.start = op.start /\ op'.end = op.end
    BY <1>1, <1>6
<1>9. ASSUME NEW n \in Mode, NEW q \in Role, <<n, q>> # <<m, r>>
      PROVE  RetrieveSlot(n, q)' = RetrieveSlot(n, q)
    <2>1. ASSUME NEW i \in Bytes(SlotSpan(n, q)) PROVE i # op.at
        <3>1. i \in Nat /\ SlotSpan(n, q).start <= i /\ i < End(SlotSpan(n, q))
            BY InSlot, Cuts
        <3>2. \/ End(SlotSpan(n, q)) <= SlotSpan(m, r).start
              \/ End(SlotSpan(m, r)) <= SlotSpan(n, q).start
            BY <1>9, Apart
        <3>3. /\ SlotSpan(n, q).start \in Nat /\ End(SlotSpan(n, q)) \in Nat
              /\ SlotSpan(m, r).start \in Nat /\ End(SlotSpan(m, r)) \in Nat
              /\ op.at \in Nat
            BY <1>2, SlotFacts, Cuts
        <3> QED  BY <1>3, <3>1, <3>2, <3>3
    <2>2. \A i \in Bytes(SlotSpan(n, q)) : bytes'[i] = bytes[i]
        BY <1>1, <1>6, <2>1, InSlot
    <2> QED  BY <2>2, ReadsOwn
<1>10. RetrieveSlot(m, r)' \in {op.rec, Noise}
    <2>1. NextByte.rec = op.rec
        BY DEF NextByte, Blank
    <2>2. ASSUME RetrieveSlot(m, r)' # Noise PROVE RetrieveSlot(m, r)' = op.rec
        <3>1. PICK y : y = bytes'[SlotSpan(m, r).start].rec
            OBVIOUS
        <3>2. Holds(y, m, r)' /\ RetrieveSlot(m, r)' = y
            BY <2>2, <3>1 DEF RetrieveSlot
        <3>3. bytes'[op.at] = [rec |-> y, mode |-> m, role |-> r,
                               at |-> op.at - SlotSpan(m, r).start]
            BY <1>4, <3>2 DEF Holds
        <3>4. bytes'[op.at].rec = y
            BY <3>3
        <3> QED  BY <1>7, <2>1, <3>2, <3>4
    <2> QED  BY <2>2
<1>11. Held' = [Held EXCEPT ![<<m, r>>] = RetrieveSlot(m, r)']
    <2> DEFINE H == [Held EXCEPT ![<<m, r>>] = RetrieveSlot(m, r)']
    <2>1. Held' = [s \in Mode \X Role |-> RetrieveSlot(s[1], s[2])']
        BY DEF Held
    <2>2. H = [s \in Mode \X Role |-> IF s = <<m, r>> THEN RetrieveSlot(m, r)'
                                      ELSE RetrieveSlot(s[1], s[2])]
        BY DEF Held
    <2>3. ASSUME NEW s \in Mode \X Role
          PROVE  RetrieveSlot(s[1], s[2])' = IF s = <<m, r>> THEN RetrieveSlot(m, r)'
                                             ELSE RetrieveSlot(s[1], s[2])
        <3>1. PICK n \in Mode, q \in Role : s = <<n, q>>
            OBVIOUS
        <3>2. CASE s = <<m, r>>
            BY <3>2
        <3>3. CASE s # <<m, r>>
            BY <1>9, <3>1, <3>3
        <3> QED  BY <3>2, <3>3
    <2> HIDE DEF H
    <2>4. Held' = H
        BY <2>1, <2>2, <2>3
    <2> QED  BY <2>4 DEF H
<1>12. op' # Idle
    <2>1. op.end # 0
        BY <1>1, Cuts
    <2> QED  BY <1>8, <2>1 DEF Idle
<1>13. Doomed' = Doomed /\ <<m, r>> \in Doomed
    BY <1>1, <1>5, <1>8, <1>12 DEF Doomed, Reach
<1>14. Store!Disturb
    BY <1>8, <1>10, <1>11, <1>13 DEF Store!Disturb, Held, Doomed
<1> QED  BY <1>14 DEF Store!Next

(* What reports done has written all of every slot it named.               *)
LEMMA DoneRefines == IInv /\ Done => Store!Next
<1> SUFFICES ASSUME IInv, Done PROVE Store!Next
    OBVIOUS
<1>1. op # Idle /\ op.at = op.end /\ op' = Idle /\ UNCHANGED bytes
    BY DEF Done
<1>2. /\ op \in [rec : Record \union {Noise}, mode : Mode, role : Role,
                 start : 0..Size, at : 0..Size, end : 0..Size]
      /\ op.start \in Nat /\ op.end \in Nat /\ op.start < op.end
    BY <1>1, Cuts DEF IInv, TypeOK, OpShape
<1>3. Held' = Held
    BY <1>1, SameBytes
<1>4. Doomed' = {} /\ op'.rec = Noise
    BY <1>1 DEF Doomed, Idle
<1>5. ASSUME NEW m \in Mode, NEW r \in Role, Reach(m, r)
      PROVE  RetrieveSlot(m, r) = op.rec
    <2>1. /\ SlotSpan(m, r).start \in Nat /\ End(SlotSpan(m, r)) \in Nat
          /\ SlotSpan(m, r).start < End(SlotSpan(m, r))
          /\ op.start <= SlotSpan(m, r).start /\ End(SlotSpan(m, r)) <= op.end
        BY <1>5, SlotFacts DEF IInv, OpShape
    <2>2. \A i \in Bytes(SlotSpan(m, r)) : i \in op.start..(op.at - 1)
        BY <1>1, <1>2, <2>1 DEF Bytes
    <2>3. SlotSpan(m, r).start \in Bytes(SlotSpan(m, r))
        BY <2>1, SlotFacts, Cuts, InSlot
    <2>4. CASE op.rec = Noise
        <3>1. bytes[SlotSpan(m, r).start] = Blank
            BY <2>2, <2>3, <2>4 DEF IInv, Written
        <3>2. bytes[SlotSpan(m, r).start].rec = Noise
            BY <3>1 DEF Blank
        <3> QED  BY <2>4, <3>2 DEF RetrieveSlot
    <2>5. CASE op.rec # Noise
        <3>1. op.start = SlotSpan(op.mode, op.role).start
                /\ op.end = End(SlotSpan(op.mode, op.role))
            BY <2>5 DEF IInv, OpShape
        <3>2. op.mode = m /\ op.role = r
            BY <1>2, <2>1, <3>1, WholeSlots
        <3>3. \A i \in Bytes(SlotSpan(m, r)) :
                bytes[i] = [rec |-> op.rec, mode |-> m, role |-> r,
                            at |-> i - SlotSpan(m, r).start]
            BY <2>2, <2>5, <3>1, <3>2 DEF IInv, Written
        <3>4. Holds(op.rec, m, r)
            BY <3>3 DEF Holds
        <3>5. bytes[SlotSpan(m, r).start]
                = [rec |-> op.rec, mode |-> m, role |-> r,
                   at |-> SlotSpan(m, r).start - SlotSpan(m, r).start]
            BY <2>3, <3>3
        <3>6. bytes[SlotSpan(m, r).start].rec = op.rec
            BY <3>5
        <3> QED  BY <3>4, <3>6 DEF RetrieveSlot
    <2> QED  BY <2>4, <2>5
<1>6. \A s \in Doomed : Held[s] = op.rec
    BY <1>5 DEF Doomed, Held
<1>7. Store!Finish
    BY <1>3, <1>4, <1>6 DEF Store!Finish, Held, Doomed
<1> QED  BY <1>7 DEF Store!Next

LEMMA PowerLossRefines == PowerLoss => Store!Next
<1> SUFFICES ASSUME PowerLoss PROVE Store!Next
    OBVIOUS
<1>1. op' = Idle /\ UNCHANGED bytes
    BY DEF PowerLoss
<1>2. Held' = Held /\ Doomed' = {} /\ op'.rec = Noise
    BY <1>1, SameBytes DEF Doomed, Idle
<1>3. Store!PowerLoss
    BY <1>2 DEF Store!PowerLoss, Held, Doomed
<1> QED  BY <1>3 DEF Store!Next

LEMMA StepRefines == IInv /\ [Next]_vars => [Store!Next]_(Store!vars)
<1> SUFFICES ASSUME IInv, [Next]_vars PROVE [Store!Next]_(Store!vars)
    OBVIOUS
<1>1. CASE UNCHANGED vars
    <2>1. Held' = Held /\ Doomed' = Doomed /\ op'.rec = op.rec
        BY <1>1, SameBytes DEF vars, Doomed, Reach
    <2> QED  BY <2>1 DEF Store!vars, Held, Doomed
<1>2. CASE Next
    BY <1>2, Steps, BeginRefines, FormatRefines, PutByteRefines, DoneRefines, PowerLossRefines
       DEF Starts
<1> QED  BY <1>1, <1>2

(* Whatever is written and wherever power is lost, the container is the    *)
(* four independent slots that VesselStore takes it to be: an operation    *)
(* disturbs no slot but those it names (get_slot_span, get_mode_span), and *)
(* leaves each what it was, what it is to be, or unreadable.               *)
THEOREM ImplementsStore == Spec => StoreSpec
<1> QED
    BY InitInv, StepInv, InitRefines, StepRefines, PTL DEF Spec, StoreSpec, Store!Spec

-----------------------------------------------------------------------------
(* The emergency commands. A monitor discards what it read to be no token, *)
(* and who clears found a trigger (TriggerInv); what a command is about to write is of its own making     *)
(* (Fresh); and what a clear condemned and still opens was carried around  *)
(* it by a command, or the key resisted and the clear is not over          *)
(* (ClearInv).                                                             *)

(* How many Faces there are, and what their names mean.                    *)
LEMMA FacesFacts ==
    /\ Len(Faces) \in Nat /\ Len(Faces) > 0
    /\ \A i \in 1..Len(Faces) : Faces[i] \in Face
    /\ \A f \in Face : \E i \in 1..Len(Faces) : f = Faces[i]
    /\ Used \subseteq Face
BY FacesAssumption, UsedAssumption DEF Face

LEMMA RecordTypes ==
    /\ NoMain \in MainThread /\ NoMonitor \in MonitorThread
    /\ NoiseSlot \in [key : Key, files : SUBSET File]
BY FacesFacts, BoundAssumption DEF NoMain, NoMonitor, NoiseSlot, MainThread, MonitorThread, Key, File,
   Token, Text

LEMMA ReadableType ==
    ASSUME EmergencyTypeOK, NEW v \in Vessel, NEW f \in Face
    PROVE  Readable(v, f) \subseteq slot[v][f].files /\ Readable(v, f) \subseteq File
BY DEF EmergencyTypeOK, Readable

(* A thread that goes on keeps what it is about.                           *)
LEMMA Goes ==
    ASSUME EmergencyTypeOK, NEW c \in Command,
           NEW at \in {"ended", "creating", "filling", "loading", "prompt", "read", "derived", "done"},
           Go(c, at)
    PROVE  /\ main' \in [Command -> MainThread] /\ main'[c].at = at
           /\ main'[c].vessel = main[c].vessel /\ main'[c].face = main[c].face
           /\ main'[c].file = main[c].file /\ main'[c].files = main[c].files
           /\ main'[c].key = main[c].key /\ main'[c].around = main[c].around
           /\ \A d \in Command : d # c => main'[d] = main[d]
<1> USE DEF EmergencyTypeOK
<1>1. main[c] \in MainThread
  OBVIOUS
<1>2. [main[c] EXCEPT !.at = at] \in MainThread
  BY <1>1 DEF MainThread
<1>3. main' = [main EXCEPT ![c] = [main[c] EXCEPT !.at = at]]
  BY DEF Go
<1> QED BY <1>1, <1>2, <1>3 DEF MainThread

LEMMA Watches ==
    ASSUME EmergencyTypeOK, NEW c \in Command,
           NEW at \in {"off", "watch", "discard", "cleared", "keyless", "overwriting", "leaving", "dead"},
           Watch(c, at)
    PROVE  /\ mon' \in [Command -> MonitorThread] /\ mon'[c].at = at /\ mon'[c].next = 0
           /\ mon'[c].token = mon[c].token
           /\ \A d \in Command : d # c => mon'[d] = mon[d]
<1> USE DEF EmergencyTypeOK
<1>1. mon[c] \in MonitorThread /\ 0 \in 0..Len(Faces) /\ NoFile \in Text
  BY FacesFacts DEF Text, Token
<1>2. [mon[c] EXCEPT !.at = at, !.next = 0, !.saw = NoFile] \in MonitorThread
  BY <1>1 DEF MonitorThread
<1>3. mon' = [mon EXCEPT ![c] = [mon[c] EXCEPT !.at = at, !.next = 0, !.saw = NoFile]]
  BY DEF Watch
<1> QED BY <1>1, <1>2, <1>3 DEF MonitorThread

(* A monitor about to remove the trigger remembers what it read.           *)
LEMMA Reads ==
    ASSUME EmergencyTypeOK, NEW c \in Command, LookElse(c)
    PROVE  /\ mon' \in [Command -> MonitorThread] /\ mon'[c].at = "discard"
           /\ mon'[c].saw = trigger /\ mon'[c].token = mon[c].token
           /\ mon'[c].next = mon[c].next
           /\ \A d \in Command : d # c => mon'[d] = mon[d]
<1> USE DEF EmergencyTypeOK
<1>1. mon[c] \in MonitorThread /\ trigger \in Text
  OBVIOUS
<1>2. [mon[c] EXCEPT !.at = "discard", !.saw = trigger] \in MonitorThread
  BY <1>1 DEF MonitorThread
<1>3. mon' = [mon EXCEPT ![c] = [mon[c] EXCEPT !.at = "discard", !.saw = trigger]]
  BY DEF LookElse
<1> QED BY <1>1, <1>2, <1>3 DEF MonitorThread

(* Commands, their monitors and whoever places triggers keep every type.   *)
THEOREM EmergencyTypeCorrect == EmergencySpec => []EmergencyTypeOK
<1>1. EmergencyInit => EmergencyTypeOK
  <2> SUFFICES ASSUME EmergencyInit PROVE EmergencyTypeOK
    OBVIOUS
  <2>1. slot \in [Vessel -> [Face -> [key : Key, files : SUBSET File]]]
    <3>1. [key |-> 1, files |-> {0}] \in [key : Key, files : SUBSET File]
      BY BoundAssumption DEF Key, File
    <3> QED BY <3>1, RecordTypes DEF EmergencyInit
  <2>2. /\ main \in [Command -> MainThread] /\ mon \in [Command -> MonitorThread]
        /\ 0 \in 0..MaxStarts /\ 0 \in 0..MaxTriggers /\ 1 \in Key
    BY RecordTypes, BoundAssumption DEF EmergencyInit, Key
  <2>3. \A c \in Command : At(c, "ended") /\ mon[c].at = "off"
    BY DEF EmergencyInit, At, NoMain, NoMonitor
  <2> QED BY <2>1, <2>2, <2>3 DEF EmergencyInit, EmergencyTypeOK, Token, Text, Pending, Running
<1>2. EmergencyTypeOK /\ [EmergencyNext]_emergencyVars => EmergencyTypeOK'
  <2> SUFFICES ASSUME EmergencyTypeOK, [EmergencyNext]_emergencyVars PROVE EmergencyTypeOK'
    OBVIOUS
  <2> USE DEF EmergencyTypeOK, device, signals, history, At, Running, Pending, Beside, InFlight
  <2>0. /\ NoMain \in MainThread /\ NoMonitor \in MonitorThread
        /\ NoiseSlot \in [key : Key, files : SUBSET File]
        /\ Len(Faces) \in Nat /\ \A i \in 1..Len(Faces) : Faces[i] \in Face
    BY RecordTypes, FacesFacts
  <2>1. ASSUME NEW c \in Command, NEW v \in Vessel, NEW f \in Used, Start(c, v, f)
        PROVE  EmergencyTypeOK'
    <3>1. started' \in File /\ started' > 0 /\ f \in Face
      BY <2>1, BoundAssumption, FacesFacts DEF Start, File
    <3>2. [NoMain EXCEPT !.at = IF token = NoFile THEN "creating" ELSE "loading",
                         !.vessel = v, !.face = f, !.file = started'] \in MainThread
      BY <2>0, <3>1 DEF MainThread
    <3>3. mon[c].at = "off"
      BY <2>1 DEF Start
    <3> QED BY <2>1, <3>1, <3>2, <3>3 DEF Start, File
  <2>2. ASSUME NEW c \in Command, OpenToken(c) PROVE EmergencyTypeOK'
    <3>1. Go(c, "filling") /\ token' \in Token
      BY <2>2 DEF OpenToken, Token
    <3>2. main' \in [Command -> MainThread] /\ main'[c].at = "filling"
          /\ main'[c].vessel = main[c].vessel /\ main'[c].face = main[c].face
          /\ main'[c].file = main[c].file
          /\ \A d \in Command : d # c => main'[d] = main[d]
      BY <3>1, Goes
    <3> QED BY <2>2, <3>1, <3>2 DEF OpenToken
  <2>3. ASSUME NEW c \in Command, FillToken(c) PROVE EmergencyTypeOK'
    <3> DEFINE m == [NoMonitor EXCEPT !.at = "watch", !.token = c]
    <3>1. m \in MonitorThread /\ m.at = "watch"
      BY <2>0 DEF MonitorThread, Token, NoMonitor
    <3>2. mon' = [mon EXCEPT ![c] = m]
      BY <2>3 DEF FillToken
    <3> HIDE DEF m
    <3>3. mon' \in [Command -> MonitorThread] /\ mon'[c].at = "watch"
          /\ \A d \in Command : d # c => mon'[d] = mon[d]
      BY <3>1, <3>2
    <3>4. Go(c, "prompt") /\ token' \in Token
      BY <2>3 DEF FillToken, Token
    <3> HIDE DEF At, Running, Pending, Beside, InFlight
    <3>5. main' \in [Command -> MainThread] /\ main'[c].at = "prompt"
          /\ main'[c].vessel = main[c].vessel /\ main'[c].face = main[c].face
          /\ main'[c].file = main[c].file
          /\ \A d \in Command : d # c => main'[d] = main[d]
      BY <3>4, Goes
    <3> QED BY <2>3, <3>3, <3>4, <3>5
            DEF FillToken, At, Running, Pending, Beside, InFlight
  <2>4. ASSUME NEW c \in Command, LoadToken(c) PROVE EmergencyTypeOK'
    <3> DEFINE m == [NoMonitor EXCEPT !.at = "watch", !.token = token]
    <3>1. m \in MonitorThread /\ m.at = "watch"
      BY <2>0 DEF MonitorThread, Token, NoMonitor
    <3>2. mon' = [mon EXCEPT ![c] = m]
      BY <2>4 DEF LoadToken
    <3> HIDE DEF m
    <3>3. mon' \in [Command -> MonitorThread] /\ mon'[c].at = "watch"
          /\ \A d \in Command : d # c => mon'[d] = mon[d]
      BY <3>1, <3>2
    <3>4. Go(c, "prompt") /\ token' \in Token
      BY <2>4 DEF LoadToken, Token
    <3> HIDE DEF At, Running, Pending, Beside, InFlight
    <3>5. main' \in [Command -> MainThread] /\ main'[c].at = "prompt"
          /\ main'[c].vessel = main[c].vessel /\ main'[c].face = main[c].face
          /\ main'[c].file = main[c].file
          /\ \A d \in Command : d # c => main'[d] = main[d]
      BY <3>4, Goes
    <3> QED BY <2>4, <3>3, <3>4, <3>5
            DEF LoadToken, At, Running, Pending, Beside, InFlight
  <2>5. ASSUME NEW c \in Command, Read(c) PROVE EmergencyTypeOK'
    <3>1. Readable(main[c].vessel, main[c].face) \subseteq File
      BY <2>5, ReadableType DEF Read
    <3>2. main' \in [Command -> MainThread]
      <4>1. main[c] \in MainThread /\ (\E d \in Command : Clearing(d)) \in BOOLEAN
        OBVIOUS
      <4>2. [main[c] EXCEPT !.at = "read", !.files = Readable(main[c].vessel, main[c].face),
                            !.around = \E d \in Command : Clearing(d)] \in MainThread
        BY <3>1, <4>1 DEF MainThread
      <4>3. main' = [main EXCEPT ![c] =
                [main[c] EXCEPT !.at = "read", !.files = Readable(main[c].vessel, main[c].face),
                                !.around = \E d \in Command : Clearing(d)]]
        BY <2>5 DEF Read
      <4> QED BY <4>2, <4>3
    <3>3. \A d \in Command : /\ d # c => main'[d] = main[d]
                             /\ d = c => /\ main'[d].at = "read" /\ main'[d].vessel = main[d].vessel
                                        /\ main'[d].face = main[d].face /\ main'[d].file = main[d].file
      BY <2>5 DEF Read, MainThread
    <3> QED BY <2>5, <3>2, <3>3 DEF Read
  <2>6. ASSUME NEW c \in Command, Derive(c) PROVE EmergencyTypeOK'
    <3>1. key' \in Key
      BY <2>6, BoundAssumption DEF Derive, Key, File, MainThread
    <3>2. main[c] \in MainThread
      OBVIOUS
    <3>3. [main[c] EXCEPT !.at = "derived", !.key = key'] \in MainThread
      BY <3>1, <3>2 DEF MainThread
    <3>4. main' = [main EXCEPT ![c] = [main[c] EXCEPT !.at = "derived", !.key = key']]
      BY <2>6 DEF Derive
    <3>5. /\ main'[c].at = "derived" /\ main'[c].vessel = main[c].vessel
          /\ main'[c].face = main[c].face /\ main'[c].file = main[c].file
          /\ \A d \in Command : d # c => main'[d] = main[d]
      BY <3>2, <3>4 DEF MainThread
    <3> QED BY <2>6, <3>1, <3>3, <3>4, <3>5 DEF Derive
  <2>7. ASSUME NEW c \in Command, Write(c) PROVE EmergencyTypeOK'
    <3>1. /\ main[c] \in MainThread /\ main[c].vessel \in Vessel /\ main[c].face \in Face
          /\ main[c].key \in Key
          /\ main[c].files \union {main[c].file} \in SUBSET File
      BY <2>7 DEF Write, MainThread
    <3>2. slot' \in [Vessel -> [Face -> [key : Key, files : SUBSET File]]]
      BY <2>7, <3>1 DEF Write
    <3>3. carried' \subseteq File
      BY <2>7, <3>1 DEF Write
    <3>4. [NoMain EXCEPT !.at = "done", !.vessel = main[c].vessel] \in MainThread
      BY <2>0, <3>1 DEF MainThread
    <3> QED BY <2>7, <3>1, <3>2, <3>3, <3>4 DEF Write
  <2>8. ASSUME NEW c \in Command, Return(c) \/ Exit(c) PROVE EmergencyTypeOK'
    <3>1. NoMain.at = "ended" /\ NoMonitor.at = "off"
      BY DEF NoMain, NoMonitor
    <3> QED BY <2>0, <2>8, <3>1 DEF Return, Exit, Ended
  <2>9. ASSUME NEW c \in Command,
               Look(c) \/ LookRaises(c) \/ Discard(c) \/ NoContainer(c) \/ LogFails(c)
        PROVE  EmergencyTypeOK'
    <3>1. \E at \in {"watch", "cleared", "leaving", "dead"} : Watch(c, at) /\ mon[c].at # "off"
      BY <2>9 DEF Look, LookRaises, Discard, NoContainer, LogFails, AfterError
    <3>2. /\ mon' \in [Command -> MonitorThread]
          /\ \A d \in Command : mon'[d] = mon[d] \/ (mon[d].at # "off" /\ mon'[d].next = 0)
      BY <3>1, Watches
    <3>3. trigger' \in Text /\ found' \in {"none", "there", "used", "dismissed"}
      BY <2>9 DEF Look, LookRaises, Discard, NoContainer, LogFails, Text, Token
    <3>4. UNCHANGED <<device, token, main, started, placed, condemned, carried, resisted, finished>>
      BY <2>9 DEF Look, LookRaises, Discard, NoContainer, LogFails
    <3> QED BY <3>2, <3>3, <3>4
  <2>15. ASSUME NEW c \in Command, LookElse(c) PROVE EmergencyTypeOK'
    <3>1. mon[c].at = "watch" /\ UNCHANGED <<device, signals, main, started, placed, history>>
      BY <2>15 DEF LookElse
    <3> QED BY <2>15, <3>1, Reads
  <2>10. ASSUME NEW c \in Command, DestroyAccessKeys(c) PROVE EmergencyTypeOK'
    <3>1. key' \in Key /\ resisted' \in BOOLEAN
      BY <2>10, BoundAssumption, FacesAssumption DEF DestroyAccessKeys, Key
    <3>2. condemned' \subseteq File
      BY <2>10, ReadableType DEF DestroyAccessKeys
    <3>3. main' \in [Command -> MainThread]
          /\ \A d \in Command : /\ main'[d].at = main[d].at /\ main'[d].vessel = main[d].vessel
                                /\ main'[d].face = main[d].face /\ main'[d].file = main[d].file
      <4>1. \A d \in Command : [main[d] EXCEPT !.around = @ \/ InFlight(d)] \in MainThread
        BY DEF MainThread
      <4> QED BY <2>10, <4>1 DEF DestroyAccessKeys, MainThread
    <3>4. /\ mon' \in [Command -> MonitorThread]
          /\ \A d \in Command : mon'[d] = mon[d] \/ (mon[d].at # "off" /\ mon'[d].next = 0)
      BY <2>10, Watches DEF DestroyAccessKeys
    <3> QED BY <2>10, <3>1, <3>2, <3>3, <3>4 DEF DestroyAccessKeys
  <2>11. ASSUME NEW c \in Command, Overwrite(c) PROVE EmergencyTypeOK'
    <3>1. mon[c].next + 1 \in 1..Len(Faces) /\ main[c].vessel \in Vessel
      BY <2>0, <2>11 DEF Overwrite, MonitorThread
    <3>2. slot' \in [Vessel -> [Face -> [key : Key, files : SUBSET File]]]
      BY <2>0, <2>11, <3>1 DEF Overwrite
    <3>3. mon' \in [Command -> MonitorThread]
      BY <2>0, <2>11, <3>1 DEF Overwrite, MonitorThread
    <3> QED BY <2>11, <3>2, <3>3 DEF Overwrite
  <2>12. ASSUME NEW c \in Command, RemoveTrigger(c) PROVE EmergencyTypeOK'
    <3>1. /\ mon' \in [Command -> MonitorThread] /\ mon[c].at = "overwriting"
          /\ mon'[c].at = "leaving" /\ \A d \in Command : d # c => mon'[d] = mon[d]
      BY <2>12, Watches DEF RemoveTrigger, RemovesAt
    <3>2. main[c].vessel \in Vessel
      BY <3>1
    <3>3. trigger' \in Text /\ finished' \subseteq Vessel
          /\ resisted' \in BOOLEAN /\ found' \in {"none", "there", "used", "dismissed"}
      BY <2>12, <3>2 DEF RemoveTrigger, Text, Token
    <3>4. UNCHANGED <<exists, key, slot, token, main, started, placed, condemned, carried>>
      BY <2>12 DEF RemoveTrigger
    <3>5. \A d \in Command :
             /\ mon'[d].at # "off" => Beside(d)
             /\ mon'[d].at \in {"cleared", "keyless"} => mon'[d].next = 0
      BY <3>1
    <3> QED BY <3>1, <3>3, <3>4, <3>5
  <2>13. ASSUME Place \/ Fill PROVE EmergencyTypeOK'
    <3>1. placed' \in 0..MaxTriggers
      BY <2>13, BoundAssumption DEF Place, Fill
    <3> QED BY <2>13, <3>1 DEF Place, Fill, Token, Text
  <2>14. CASE UNCHANGED emergencyVars
    BY <2>14 DEF emergencyVars
  <2> QED BY <2>1, <2>2, <2>3, <2>4, <2>5, <2>6, <2>7, <2>8, <2>9, <2>10, <2>11, <2>12, <2>13,
             <2>14, <2>15 DEF EmergencyNext, Monitor
<1> QED BY <1>1, <1>2, PTL DEF EmergencySpec

-----------------------------------------------------------------------------
(* A monitor that discards the trigger read something else than its token; *)
(* while anyone clears, or after a key has resisted, the trigger found last *)
(* is there, unless a monitor has removed it since.                        *)
TriggerInv ==
    /\ \A c \in Command : mon[c].at = "discard" => mon[c].saw # mon[c].token
    /\ (resisted \/ \E c \in Command : Clearing(c))
         => trigger # NoFile \/ found \in {"used", "dismissed"}

LEMMA TriggerInvHolds == EmergencySpec => []TriggerInv
<1>1. EmergencyInit => TriggerInv
  BY DEF EmergencyInit, TriggerInv, Clearing, NoMonitor
<1>2. EmergencyTypeOK /\ TriggerInv /\ [EmergencyNext]_emergencyVars => TriggerInv'
  <2> SUFFICES ASSUME EmergencyTypeOK, TriggerInv, [EmergencyNext]_emergencyVars
               PROVE  TriggerInv'
    OBVIOUS
  <2> USE DEF signals, device, history
  <2>0. mon \in [Command -> MonitorThread]
    BY DEF EmergencyTypeOK
  (* A monitor's step that leaves the trigger alone. *)
  <2>1. ASSUME NEW c \in Command, UNCHANGED <<trigger, found>>,
               \A d \in Command : d # c => mon'[d] = mon[d],
               mon'[c].at = "discard" => mon'[c].saw # mon'[c].token,
               resisted' => resisted \/ Clearing(c), Clearing(c)' => Clearing(c)
        PROVE  TriggerInv'
    BY <2>1 DEF TriggerInv, Clearing
  <2>2. ASSUME UNCHANGED <<trigger, found, mon, resisted>> PROVE TriggerInv'
    BY <2>2 DEF TriggerInv, Clearing
  <2>3. ASSUME NEW c \in Command, NEW v \in Vessel, NEW f \in Used, Start(c, v, f)
        PROVE  TriggerInv'
    BY <2>2, <2>3 DEF Start
  <2>4. ASSUME NEW c \in Command, OpenToken(c) \/ Read(c) \/ Derive(c) \/ Write(c)
        PROVE  TriggerInv'
    BY <2>2, <2>4 DEF OpenToken, Read, Derive, Write
  <2>5. ASSUME NEW c \in Command, FillToken(c) \/ LoadToken(c) PROVE TriggerInv'
    <3>1. /\ UNCHANGED <<trigger, found, resisted>> /\ mon'[c].at = "watch"
          /\ \A d \in Command : d # c => mon'[d] = mon[d]
      BY <2>0, <2>5 DEF FillToken, LoadToken, NoMonitor
    <3> QED BY <2>1, <3>1 DEF Clearing
  <2>6. ASSUME NEW c \in Command, Return(c) \/ Exit(c) PROVE TriggerInv'
    <3>1. /\ UNCHANGED <<trigger, found, resisted>> /\ mon'[c].at = "off"
          /\ \A d \in Command : d # c => mon'[d] = mon[d]
      BY <2>0, <2>6 DEF Return, Exit, Ended, NoMonitor
    <3> QED BY <2>1, <3>1 DEF Clearing
  <2>7. ASSUME NEW c \in Command, Look(c) PROVE TriggerInv'
    <3>1. trigger # NoFile /\ UNCHANGED <<trigger, resisted>> /\ mon'[c].at = "cleared"
          /\ \A d \in Command : d # c => mon'[d] = mon[d]
      BY <2>7, Watches DEF Look
    <3> QED BY <3>1 DEF TriggerInv
  <2>8. ASSUME NEW c \in Command, LookElse(c) PROVE TriggerInv'
    <3>1. UNCHANGED <<trigger, found, resisted>> /\ trigger # mon[c].token
      BY <2>8 DEF LookElse, Authorized
    <3> QED BY <2>1, <2>8, <3>1, Reads DEF Clearing
  <2>9. ASSUME NEW c \in Command, LookRaises(c) \/ NoContainer(c) \/ LogFails(c) PROVE TriggerInv'
    <3>1. /\ \E at \in {"dead", "leaving"} : Watch(c, at)
          /\ UNCHANGED <<trigger, found, resisted>>
      BY <2>9 DEF LookRaises, NoContainer, LogFails, AfterError
    <3>2. mon'[c].at \in {"dead", "leaving"} /\ \A d \in Command : d # c => mon'[d] = mon[d]
      BY <3>1, Watches
    <3> QED BY <2>1, <3>1, <3>2 DEF Clearing
  <2>10. ASSUME NEW c \in Command, Discard(c) PROVE TriggerInv'
    <3>1. /\ mon'[c].at = "watch" /\ \A d \in Command : d # c => mon'[d] = mon[d]
          /\ trigger' = NoFile /\ UNCHANGED resisted
          /\ found' = IF trigger = NoFile THEN found ELSE "dismissed"
      BY <2>10, Watches DEF Discard
    <3> QED BY <3>1 DEF TriggerInv, Clearing
  <2>11. ASSUME NEW c \in Command, DestroyAccessKeys(c) PROVE TriggerInv'
    <3>1. /\ Clearing(c) /\ UNCHANGED <<trigger, found>> /\ mon'[c].at = "keyless"
          /\ \A d \in Command : d # c => mon'[d] = mon[d]
      BY <2>11, Watches DEF DestroyAccessKeys, Clearing
    <3> QED BY <2>1, <3>1
  <2>12. ASSUME NEW c \in Command, Overwrite(c) PROVE TriggerInv'
    <3>1. /\ Clearing(c) /\ UNCHANGED <<trigger, found, resisted>> /\ mon'[c].at = "overwriting"
          /\ \A d \in Command : d # c => mon'[d] = mon[d]
      BY <2>0, <2>12 DEF Overwrite, Clearing, MonitorThread
    <3> QED BY <2>1, <3>1
  <2>13. ASSUME NEW c \in Command, RemoveTrigger(c) PROVE TriggerInv'
    <3>1. /\ found' = "used" /\ mon'[c].at = "leaving"
          /\ \A d \in Command : d # c => mon'[d] = mon[d]
      BY <2>13, Watches DEF RemoveTrigger
    <3> QED BY <3>1 DEF TriggerInv
  <2>14. CASE Place \/ Fill
    <3>1. trigger' # NoFile /\ UNCHANGED <<mon, history>>
      BY <2>14, TokenAssumption DEF Place, Fill, NoFile, Cut, Wrong, Garbled
    <3> QED BY <3>1 DEF TriggerInv
  <2>15. CASE UNCHANGED emergencyVars
    BY <2>2, <2>15 DEF emergencyVars
  <2> QED BY <2>3, <2>4, <2>5, <2>6, <2>7, <2>8, <2>9, <2>10, <2>11, <2>12, <2>13, <2>14, <2>15
          DEF EmergencyNext, Monitor
<1> QED BY <1>1, <1>2, EmergencyTypeCorrect, PTL DEF EmergencySpec

(* A complete trigger with the device's token is removed only by a monitor *)
(* that has overwritten its whole container, or by one that takes it for   *)
(* invalid, having read another text or having another token to compare.   *)
THEOREM TriggerKeptHolds == EmergencySpec => TriggerKept
<1>1. ASSUME EmergencyTypeOK, TriggerInv, [EmergencyNext]_emergencyVars,
             Settled(trigger), trigger' = NoFile
      PROVE  \E c \in Command : UsesUp(c) \/ Misjudges(c)
  <2> USE <1>1 DEF signals
  <2>0. trigger # NoFile /\ trigger = token
    BY DEF Settled
  <2>1. ASSUME NEW c \in Command, NEW v \in Vessel, NEW f \in Used, Start(c, v, f) PROVE FALSE
    BY <2>0, <2>1 DEF Start
  <2>2. ASSUME NEW c \in Command,
               OpenToken(c) \/ FillToken(c) \/ LoadToken(c) \/ Read(c) \/ Derive(c) \/ Write(c) \/ Return(c)
        PROVE  FALSE
    BY <2>0, <2>2 DEF OpenToken, FillToken, LoadToken, Read, Derive, Write, Return
  <2>3. ASSUME NEW c \in Command,
               \/ Look(c) \/ LookElse(c) \/ LookRaises(c)
               \/ DestroyAccessKeys(c) \/ NoContainer(c) \/ Overwrite(c) \/ LogFails(c) \/ Exit(c)
        PROVE  FALSE
    BY <2>0, <2>3 DEF Look, LookElse, LookRaises, DestroyAccessKeys, NoContainer, Overwrite, LogFails, Exit
  <2>4. ASSUME NEW c \in Command, Discard(c) PROVE Misjudges(c)
    BY <2>0, <2>4 DEF Discard, TriggerInv, Misjudges
  <2>5. ASSUME NEW c \in Command, RemoveTrigger(c) PROVE UsesUp(c)
    BY <2>5 DEF RemoveTrigger, RemovesAt, UsesUp
  <2>6. ASSUME Place \/ Fill \/ UNCHANGED emergencyVars PROVE FALSE
    BY <2>0, <2>6, TokenAssumption DEF Place, Fill, emergencyVars, NoFile, Cut, Wrong, Garbled
  <2> QED BY <2>1, <2>2, <2>3, <2>4, <2>5, <2>6 DEF EmergencyNext, Monitor
<1>2. EmergencyTypeOK /\ TriggerInv /\ [EmergencyNext]_emergencyVars
        => [Settled(trigger) /\ trigger' = NoFile =>
              \E c \in Command : UsesUp(c) \/ Misjudges(c)]_emergencyVars
  BY <1>1
<1> QED BY <1>2, EmergencyTypeCorrect, TriggerInvHolds, PTL DEF EmergencySpec, TriggerKept

-----------------------------------------------------------------------------
(* Where a file can be found, and what a key is still good for.            *)
Seen(x) ==
    \/ x \in condemned
    \/ \E v \in Vessel, f \in Face : x \in slot[v][f].files
    \/ \E c \in Command : x \in main[c].files
Sealing(k) ==
    k = key \/ (\E v \in Vessel, f \in Face : k = slot[v][f].key) \/ \E c \in Command : k = main[c].key

(* A command that has not written yet has a file nobody has seen, and one  *)
(* that has no key yet would make one that nothing is sealed under.        *)
Fresh ==
    /\ \A c \in Command : Pending(c) =>
          /\ main[c].file <= started /\ ~Seen(main[c].file)
          /\ At(c, "derived") \/ ~Sealing(main[c].file + 1)
    /\ \A c, d \in Command : Pending(c) /\ Pending(d) /\ c # d => main[c].file # main[d].file
    /\ \A x \in File : Seen(x) => x <= started
    /\ \A k \in Key : Sealing(k) => k <= started + 1

(* Files and keys stay fresh when those that come up are those of a        *)
(* command that needs its own no more.                                     *)
LEMMA FreshKept ==
    ASSUME EmergencyTypeOK, Fresh, started' = started,
           \A x \in File : Seen(x)' => Seen(x)
              \/ \E c \in Command : Pending(c) /\ ~Pending(c)' /\ x = main[c].file,
           \A k \in Key \ {0} : Sealing(k)' => Sealing(k)
              \/ \E c \in Command : Pending(c) /\ k = main[c].file + 1
                                    /\ (At(c, "derived")' \/ ~Pending(c)'),
           \A c \in Command : Pending(c)' => /\ Pending(c) /\ main'[c].file = main[c].file
                                             /\ At(c, "derived") => At(c, "derived")'
    PROVE  Fresh'
<1>0. /\ started \in 0..MaxStarts /\ MaxStarts \in Nat
      /\ \A c \in Command : main[c].file \in File /\ main[c].file + 1 \in Key \ {0}
  BY BoundAssumption DEF EmergencyTypeOK, MainThread, File, Key
<1>1. ASSUME NEW c \in Command, Pending(c)'
      PROVE  /\ main'[c].file <= started' /\ ~Seen(main[c].file)'
             /\ At(c, "derived")' \/ ~Sealing(main[c].file + 1)'
  <2>1. Pending(c) /\ main'[c].file = main[c].file /\ (At(c, "derived") => At(c, "derived")')
    BY <1>1
  <2>2. \A d \in Command : Pending(d) /\ d # c => main[d].file # main[c].file
    BY <2>1 DEF Fresh
  <2>3. \A d \in Command : Pending(d) /\ d # c => main[d].file + 1 # main[c].file + 1
    BY <1>0, <2>2 DEF File
  <2>4. ~Seen(main[c].file)'
    BY <1>0, <1>1, <2>1, <2>2 DEF Fresh
  <2>5. At(c, "derived")' \/ ~Sealing(main[c].file + 1)'
    BY <1>0, <1>1, <2>1, <2>3 DEF Fresh
  <2> QED BY <2>1, <2>4, <2>5 DEF Fresh
<1>2. ASSUME NEW c \in Command, NEW d \in Command, Pending(c)', Pending(d)', c # d
      PROVE  main'[c].file # main'[d].file
  BY <1>2 DEF Fresh
<1>3. ASSUME NEW x \in File, Seen(x)' PROVE x <= started'
  BY <1>3 DEF Fresh
<1>4. ASSUME NEW k \in Key, Sealing(k)' PROVE k <= started' + 1
  <2>1. CASE k = 0
    BY <1>0, <2>1
  <2>2. CASE k # 0 /\ Sealing(k)
    BY <2>2 DEF Fresh
  <2>3. ASSUME NEW c \in Command, Pending(c), k = main[c].file + 1 PROVE k <= started' + 1
    BY <1>0, <2>3 DEF Fresh, File
  <2> QED BY <1>4, <2>1, <2>2, <2>3
<1>5. \A c \in Command : Pending(c)' => main'[c].file = main[c].file
  OBVIOUS
<1> QED BY <1>1, <1>2, <1>3, <1>4, <1>5 DEF Fresh

LEMMA FreshHolds == EmergencySpec => []Fresh
<1>1. EmergencyInit => Fresh
  <2> SUFFICES ASSUME EmergencyInit PROVE Fresh
    OBVIOUS
  <2>1. \A c \in Command : ~Pending(c) /\ main[c].files = {} /\ main[c].key = 0
    BY DEF EmergencyInit, Pending, At, NoMain
  <2>2. \A v \in Vessel, f \in Face : slot[v][f].files \subseteq {0} /\ slot[v][f].key \in {0, 1}
    BY DEF EmergencyInit, NoiseSlot
  <2>3. started = 0 /\ key = 1 /\ condemned = {}
    BY DEF EmergencyInit
  <2>4. \A x \in File : Seen(x) => x <= started
    BY <2>1, <2>2, <2>3 DEF Seen
  <2>5. \A k \in Key : Sealing(k) => k <= started + 1
    BY <2>1, <2>2, <2>3 DEF Sealing
  <2> QED BY <2>1, <2>4, <2>5 DEF Fresh
<1>2. EmergencyTypeOK /\ EmergencyTypeOK' /\ Fresh /\ [EmergencyNext]_emergencyVars => Fresh'
  <2> SUFFICES ASSUME EmergencyTypeOK, EmergencyTypeOK', Fresh, [EmergencyNext]_emergencyVars PROVE Fresh'
    OBVIOUS
  <2> USE DEF device, signals, history
  <2>0. /\ main \in [Command -> MainThread] /\ NoMain.files = {} /\ NoMain.key = 0
        /\ NoMain.at = "ended" /\ NoiseSlot.files = {} /\ NoiseSlot.key = 0
    BY DEF EmergencyTypeOK, NoMain, NoiseSlot
  <2>1. ASSUME NEW c \in Command, NEW v \in Vessel, NEW f \in Used, Start(c, v, f)
        PROVE  Fresh'
    <3>1. /\ started' = started + 1 /\ started \in 0..MaxStarts /\ started' \in 0..MaxStarts
          /\ MaxStarts \in Nat
          /\ UNCHANGED <<key, slot, condemned>>
      BY <2>1, BoundAssumption DEF Start, EmergencyTypeOK
    <3>2. /\ main'[c].file = started' /\ main'[c].files = {} /\ main'[c].key = 0
          /\ \A d \in Command : d # c => main'[d] = main[d]
      BY <2>0, <2>1 DEF Start, NoMain
    <3>3. \A x : Seen(x)' => Seen(x)
      BY <3>1, <3>2 DEF Seen
    <3>4. \A k : Sealing(k)' => Sealing(k) \/ k = 0
      BY <3>1, <3>2 DEF Sealing
    <3>5. \A d \in Command : d # c => (Pending(d)' <=> Pending(d)) /\ (At(d, "derived")' <=> At(d, "derived"))
      BY <3>2 DEF Pending, At
    <3>6. started' \in File /\ started' + 1 \in Key /\ ~Seen(started') /\ ~Sealing(started' + 1)
      BY <3>1 DEF File, Key, Fresh
    <3>7. \A d \in Command : main[d].file \in File
      BY <2>0 DEF MainThread
    <3>8. \A d \in Command : Pending(d)' =>
             /\ main'[d].file <= started' /\ ~Seen(main[d].file)'
             /\ At(d, "derived")' \/ ~Sealing(main[d].file + 1)'
      <4> SUFFICES ASSUME NEW d \in Command, Pending(d)'
                   PROVE  /\ main'[d].file <= started' /\ ~Seen(main[d].file)'
                          /\ At(d, "derived")' \/ ~Sealing(main[d].file + 1)'
        OBVIOUS
      <4>1. CASE d = c
        BY <3>1, <3>2, <3>3, <3>4, <3>6, <4>1
      <4>2. CASE d # c
        <5>1. Pending(d) /\ main'[d].file = main[d].file /\ main[d].file \in 0..MaxStarts
          BY <3>2, <3>5, <3>7, <4>2 DEF File
        <5>2. main[d].file <= started /\ ~Seen(main[d].file)
              /\ (At(d, "derived") \/ ~Sealing(main[d].file + 1))
          BY <5>1 DEF Fresh
        <5>3. main[d].file + 1 # 0 /\ main[d].file <= started'
          BY <3>1, <5>1, <5>2
        <5> QED BY <3>3, <3>4, <3>5, <4>2, <5>1, <5>2, <5>3
      <4> QED BY <4>1, <4>2
    <3>9. \A d, e \in Command : Pending(d)' /\ Pending(e)' /\ d # e => main'[d].file # main'[e].file
      <4>1. \A d \in Command : d # c /\ Pending(d)' => Pending(d) /\ main'[d].file <= started
        BY <3>2, <3>5 DEF Fresh
      <4>2. \A d \in Command : d # c /\ Pending(d)' => main'[d].file # main'[c].file
        BY <3>1, <3>2, <3>7, <4>1 DEF File
      <4> QED BY <3>2, <4>1, <4>2 DEF Fresh
    <3>10. \A x \in File : Seen(x)' => x <= started'
      BY <3>1, <3>3 DEF Fresh, File
    <3>11. \A k \in Key : Sealing(k)' => k <= started' + 1
      BY <3>1, <3>4 DEF Fresh, Key
    <3> QED BY <3>8, <3>9, <3>10, <3>11 DEF Fresh
  <2>2. ASSUME UNCHANGED <<started, key, slot, condemned>>,
               \A c \in Command : \/ main'[c] = NoMain
                                  \/ /\ main'[c].file = main[c].file /\ main'[c].key = main[c].key
                                     /\ \A x \in main'[c].files : Seen(x)
                                     /\ Pending(c)' => Pending(c) /\ ~At(c, "derived")
                                  \/ main'[c] = main[c]
        PROVE  Fresh'
    <3>1. \A c \in Command : Pending(c)' => /\ Pending(c) /\ main'[c].file = main[c].file
                                            /\ At(c, "derived") => At(c, "derived")'
      BY <2>0, <2>2 DEF Pending, At
    <3>2. \A x \in File : Seen(x)' => Seen(x)
      BY <2>0, <2>2 DEF Seen
    <3>3. \A k \in Key \ {0} : Sealing(k)' => Sealing(k)
      BY <2>0, <2>2 DEF Sealing
    <3> QED BY <2>2, <3>1, <3>2, <3>3, FreshKept
  <2>3. ASSUME NEW c \in Command, OpenToken(c) \/ FillToken(c) \/ LoadToken(c) PROVE Fresh'
    <3>1. /\ Go(c, "filling") \/ Go(c, "prompt")
          /\ Pending(c) /\ ~At(c, "derived")
          /\ UNCHANGED <<started, key, slot, condemned>>
      BY <2>3 DEF OpenToken, FillToken, LoadToken, Pending, At
    <3>2. /\ \A d \in Command : d # c => main'[d] = main[d]
          /\ main'[c].file = main[c].file /\ main'[c].key = main[c].key /\ main'[c].files = main[c].files
      BY <3>1, Goes
    <3>3. Pending(c) /\ ~At(c, "derived")
      BY <2>3 DEF OpenToken, FillToken, LoadToken, Pending, At
    <3> QED BY <2>2, <3>1, <3>2, <3>3 DEF Seen
  <2>4. ASSUME NEW c \in Command, Read(c) PROVE Fresh'
    <3>1. main[c].vessel \in Vessel /\ main[c].face \in Face /\ Pending(c) /\ ~At(c, "derived")
      BY <2>4 DEF Read, EmergencyTypeOK, Running, Pending, At
    <3>2. main'[c].files = Readable(main[c].vessel, main[c].face) /\ main'[c].file = main[c].file
          /\ main'[c].key = main[c].key
          /\ \A d \in Command : d # c => main'[d] = main[d]
      BY <2>0, <2>4 DEF Read, MainThread
    <3>3. \A x \in main'[c].files : Seen(x)
      BY <3>1, <3>2, ReadableType DEF Seen
    <3> QED BY <2>2, <2>4, <3>1, <3>2, <3>3 DEF Read
  <2>5. ASSUME NEW c \in Command, Derive(c) PROVE Fresh'
    <3>1. /\ Pending(c) /\ UNCHANGED <<started, slot, condemned>>
          /\ \A d \in Command : d # c => main'[d] = main[d]
          /\ main'[c].files = main[c].files /\ main'[c].file = main[c].file
          /\ main'[c].key = key' /\ main'[c].at = "derived"
          /\ key' \in {key, main[c].file + 1}
      BY <2>0, <2>5 DEF Derive, MainThread, Pending, At
    <3>2. \A x \in File : Seen(x)' => Seen(x)
      BY <3>1 DEF Seen
    <3>3. \A k \in Key \ {0} : Sealing(k)' => Sealing(k) \/ k = main[c].file + 1
      BY <3>1 DEF Sealing
    <3>4. \A d \in Command : Pending(d)' => /\ Pending(d) /\ main'[d].file = main[d].file
                                            /\ At(d, "derived") => At(d, "derived")'
      BY <3>1 DEF Pending, At
    <3>5. At(c, "derived")'
      BY <3>1 DEF At
    <3> QED BY <3>1, <3>2, <3>3, <3>4, <3>5, FreshKept
  <2>6. ASSUME NEW c \in Command, Write(c) PROVE Fresh'
    <3>1. /\ Pending(c) /\ UNCHANGED <<started, key, condemned>>
          /\ \A d \in Command : d # c => main'[d] = main[d]
          /\ main'[c].files = {} /\ main'[c].key = 0 /\ ~Pending(c)'
      BY <2>0, <2>6 DEF Write, NoMain, Pending, At
    <3>2. main[c].vessel \in Vessel /\ main[c].face \in Face
      BY <2>6 DEF Write, EmergencyTypeOK, Running, Pending, At
    <3>3. \A v \in Vessel, f \in Face :
             \/ slot'[v][f] = slot[v][f]
             \/ /\ slot'[v][f].key = main[c].key
                /\ slot'[v][f].files = main[c].files \union {main[c].file}
      BY <2>6, <3>2 DEF Write, EmergencyTypeOK
    <3>4. \A x \in File : Seen(x)' => Seen(x) \/ x = main[c].file
      <4> SUFFICES ASSUME NEW x \in File, Seen(x)' PROVE Seen(x) \/ x = main[c].file
        OBVIOUS
      <4>1. CASE \E v \in Vessel, f \in Face : x \in slot'[v][f].files
        BY <3>3, <4>1 DEF Seen
      <4>2. CASE x \in condemned' \/ \E d \in Command : x \in main'[d].files
        BY <3>1, <4>2 DEF Seen
      <4> QED BY <4>1, <4>2 DEF Seen
    <3>5. \A k \in Key \ {0} : Sealing(k)' => Sealing(k)
      <4> SUFFICES ASSUME NEW k \in Key \ {0}, Sealing(k)' PROVE Sealing(k)
        OBVIOUS
      <4>1. CASE \E v \in Vessel, f \in Face : k = slot'[v][f].key
        BY <3>3, <4>1 DEF Sealing
      <4>2. CASE k = key' \/ \E d \in Command : k = main'[d].key
        BY <3>1, <4>2 DEF Sealing
      <4> QED BY <4>1, <4>2 DEF Sealing
    <3>6. \A d \in Command : Pending(d)' => /\ Pending(d) /\ main'[d].file = main[d].file
                                            /\ At(d, "derived") => At(d, "derived")'
      BY <3>1 DEF Pending, At
    <3> QED BY <3>1, <3>4, <3>5, <3>6, FreshKept
  <2>7. ASSUME NEW c \in Command, Return(c) \/ Exit(c) PROVE Fresh'
    <3>1. /\ UNCHANGED <<started, key, slot, condemned>>
          /\ \A d \in Command : main'[d] = NoMain \/ main'[d] = main[d]
      BY <2>0, <2>7 DEF Return, Exit, Ended
    <3> QED BY <2>2, <3>1
  <2>8. ASSUME NEW c \in Command,
               \/ Look(c) \/ LookElse(c) \/ LookRaises(c) \/ Discard(c)
               \/ NoContainer(c) \/ RemoveTrigger(c) \/ LogFails(c)
        PROVE  Fresh'
    <3>1. UNCHANGED <<started, key, slot, condemned, main>>
      BY <2>8 DEF Look, LookElse, LookRaises, Discard, NoContainer, RemoveTrigger, LogFails
    <3> QED BY <2>2, <3>1
  <2>9. ASSUME NEW c \in Command, DestroyAccessKeys(c) PROVE Fresh'
    <3>1. /\ UNCHANGED <<started, slot>> /\ key' \in {0, key}
          /\ condemned' = condemned \union UNION {Readable(v, f) : v \in Vessel, f \in Face}
      BY <2>9 DEF DestroyAccessKeys
    <3>2. \A d \in Command :
             /\ main'[d].files = main[d].files /\ main'[d].file = main[d].file
             /\ main'[d].key = main[d].key /\ main'[d].at = main[d].at
      BY <2>0, <2>9 DEF DestroyAccessKeys, MainThread
    <3>3. \A x \in condemned' : Seen(x)
      BY <3>1, ReadableType DEF Seen
    <3>4. \A x \in File : Seen(x)' => Seen(x)
      BY <3>1, <3>2, <3>3 DEF Seen
    <3>5. \A k \in Key \ {0} : Sealing(k)' => Sealing(k)
      BY <3>1, <3>2 DEF Sealing
    <3>6. \A d \in Command : Pending(d)' => /\ Pending(d) /\ main'[d].file = main[d].file
                                            /\ At(d, "derived") => At(d, "derived")'
      BY <3>2 DEF Pending, At
    <3> QED BY <3>1, <3>4, <3>5, <3>6, FreshKept
  <2>10. ASSUME NEW c \in Command, Overwrite(c) PROVE Fresh'
    <3>1. UNCHANGED <<started, key, condemned, main>>
      BY <2>10 DEF Overwrite
    <3>2. \A v \in Vessel, f \in Face : slot'[v][f] = slot[v][f] \/ slot'[v][f] = NoiseSlot
      BY <2>10, FacesFacts DEF Overwrite, EmergencyTypeOK
    <3>3. \A x \in File : Seen(x)' => Seen(x)
      BY <2>0, <3>1, <3>2 DEF Seen
    <3>4. \A k \in Key \ {0} : Sealing(k)' => Sealing(k)
      BY <2>0, <3>1, <3>2 DEF Sealing
    <3>5. \A d \in Command : Pending(d)' => /\ Pending(d) /\ main'[d].file = main[d].file
                                            /\ At(d, "derived") => At(d, "derived")'
      BY <3>1 DEF Pending, At
    <3> QED BY <3>1, <3>3, <3>4, <3>5, FreshKept
  <2>11. CASE Place \/ Fill \/ UNCHANGED emergencyVars
    <3>1. UNCHANGED <<started, key, slot, condemned, main>>
      BY <2>11 DEF Place, Fill, emergencyVars
    <3> QED BY <2>2, <3>1
  <2> QED BY <2>1, <2>3, <2>4, <2>5, <2>6, <2>7, <2>8, <2>9, <2>10, <2>11 DEF EmergencyNext, Monitor
<1> QED BY <1>1, <1>2, EmergencyTypeCorrect, PTL DEF EmergencySpec

-----------------------------------------------------------------------------
(* Condemned files that can still be read were carried, or the key stood   *)
(* and the container was not overwritten to the end.                       *)
Cleared(v, files) == files \intersect condemned \subseteq carried \/ (resisted /\ v \notin finished)
WhatOpens == \A v \in Vessel, f \in Face : Cleared(v, Readable(v, f))
WhatWasRead ==
    /\ \A c \in Command : InFlight(c) /\ ~main[c].around => Cleared(main[c].vessel, main[c].files)
    /\ \A c, d \in Command : mon[d].at \in {"keyless", "overwriting"} /\ InFlight(c) => main[c].around
WhatIsOverwritten ==
    /\ \A c \in Command : mon[c].at = "overwriting" =>
          \A j \in 1..mon[c].next : slot[main[c].vessel][Faces[j]].files \subseteq carried
    /\ \A v \in finished, f \in Face : slot[v][f].files \intersect condemned \subseteq carried
ClearInv == WhatOpens /\ WhatWasRead /\ WhatIsOverwritten

(* What a step that clears, reads or writes nothing leaves alone.          *)
LEMMA ClearKept ==
    ASSUME ClearInv, UNCHANGED <<device, condemned, carried, resisted, finished>>,
           \A c \in Command : InFlight(c)' => InFlight(c) /\ main'[c] = main[c],
           \A c \in Command : mon'[c].at \in {"keyless", "overwriting"} =>
               mon'[c] = mon[c] /\ main'[c].vessel = main[c].vessel
    PROVE  ClearInv'
<1> USE DEF ClearInv, device, Cleared
<1>1. WhatOpens'
  BY DEF WhatOpens, Readable
<1>2. WhatWasRead'
  BY DEF WhatWasRead
<1>3. WhatIsOverwritten'
  <2>1. \A c \in Command : mon'[c].at = "overwriting" =>
           mon[c].at = "overwriting" /\ mon'[c] = mon[c] /\ main'[c].vessel = main[c].vessel
    OBVIOUS
  <2> QED BY <2>1 DEF WhatIsOverwritten
<1> QED BY <1>1, <1>2, <1>3

LEMMA ClearInvHolds == EmergencySpec => []ClearInv
<1>1. EmergencyInit => ClearInv
  <2> SUFFICES ASSUME EmergencyInit PROVE ClearInv
    OBVIOUS
  <2>1. condemned = {} /\ finished = {} /\ \A c \in Command : mon[c].at = "off" /\ ~InFlight(c)
    BY DEF EmergencyInit, NoMonitor, NoMain, InFlight
  <2> QED BY <2>1 DEF ClearInv, WhatOpens, WhatWasRead, WhatIsOverwritten, Cleared
<1>2. EmergencyTypeOK /\ EmergencyTypeOK' /\ Fresh /\ ClearInv /\ [EmergencyNext]_emergencyVars
        => ClearInv'
  <2> SUFFICES ASSUME EmergencyTypeOK, EmergencyTypeOK', Fresh, ClearInv,
                      [EmergencyNext]_emergencyVars
               PROVE  ClearInv'
    OBVIOUS
  <2> USE DEF device, signals, history
  <2>0. /\ main \in [Command -> MainThread] /\ mon \in [Command -> MonitorThread]
        /\ slot \in [Vessel -> [Face -> [key : Key, files : SUBSET File]]]
        /\ \A c \in Command : InFlight(c) => /\ main[c].vessel \in Vessel /\ main[c].face \in Face
                                             /\ Pending(c)
        /\ \A c \in Command : mon[c].at # "off" => main[c].vessel \in Vessel
    BY DEF EmergencyTypeOK, InFlight, Running, Pending, Beside, At
  <2>1. ASSUME NEW c \in Command, NEW v \in Vessel, NEW f \in Used, Start(c, v, f)
        PROVE  ClearInv'
    <3>1. mon[c].at = "off" /\ mon' = mon
      BY <2>1 DEF Start, EmergencyTypeOK, Running, Beside, InFlight, At
    <3>2. /\ main'[c].at \in {"creating", "loading"}
          /\ \A d \in Command : d # c => main'[d] = main[d]
      BY <2>0, <2>1 DEF Start, NoMain
    <3> QED BY <2>1, <3>1, <3>2, ClearKept DEF Start, InFlight
  <2>2. ASSUME NEW c \in Command, OpenToken(c) \/ FillToken(c) \/ LoadToken(c) PROVE ClearInv'
    <3>1. \A d \in Command : main'[d].vessel = main[d].vessel /\ (InFlight(d)' => main'[d] = main[d])
      BY <2>2, Goes DEF OpenToken, FillToken, LoadToken, InFlight
    <3>2. \A d \in Command : mon'[d].at \in {"keyless", "overwriting"} => mon'[d] = mon[d]
      BY <2>0, <2>2 DEF OpenToken, FillToken, LoadToken, NoMonitor
    <3>3. UNCHANGED <<device, condemned, carried, resisted, finished>>
      BY <2>2 DEF OpenToken, FillToken, LoadToken
    <3> QED BY <3>1, <3>2, <3>3, ClearKept DEF InFlight
  <2>3. ASSUME NEW c \in Command, Read(c) PROVE ClearInv'
    <3>1. /\ main[c].vessel \in Vessel /\ main[c].face \in Face
          /\ UNCHANGED <<device, mon, history>>
      BY <2>3 DEF Read, EmergencyTypeOK, Running, Pending, At
    <3>2. /\ main'[c].vessel = main[c].vessel
          /\ main'[c].files = Readable(main[c].vessel, main[c].face)
          /\ main'[c].around = \E d \in Command : Clearing(d)
          /\ \A d \in Command : d # c => main'[d] = main[d]
      BY <2>0, <2>3 DEF Read, MainThread
    <3>3. WhatOpens' /\ WhatIsOverwritten'
      BY <3>1, <3>2 DEF ClearInv, WhatOpens, WhatIsOverwritten, Cleared, Readable
    <3>4. Cleared(main'[c].vessel, main'[c].files)
      BY <3>1, <3>2 DEF ClearInv, WhatOpens
    <3>5. \A d \in Command : mon'[d].at \in {"keyless", "overwriting"} => main'[c].around
      BY <3>1, <3>2 DEF Clearing
    <3>6. WhatWasRead'
      BY <3>1, <3>2, <3>4, <3>5 DEF ClearInv, WhatWasRead, Cleared, InFlight
    <3> QED BY <3>3, <3>6 DEF ClearInv
  <2>4. ASSUME NEW c \in Command, Derive(c) PROVE ClearInv'
    <3>1. /\ InFlight(c) /\ UNCHANGED <<slot, mon, history>>
          /\ main'[c].vessel = main[c].vessel /\ main'[c].files = main[c].files
          /\ main'[c].around = main[c].around
          /\ \A d \in Command : d # c => main'[d] = main[d]
      BY <2>0, <2>4 DEF Derive, MainThread, InFlight, At
    <3>2. \A v \in Vessel, f \in Face : Readable(v, f)' = {} \/ Readable(v, f)' = Readable(v, f)
      <4>1. CASE key = 0
        <5>1. key' = main[c].file + 1 /\ ~Sealing(main[c].file + 1)
          BY <2>0, <2>4, <3>1, <4>1 DEF Derive, Fresh, At
        <5>2. \A v \in Vessel, f \in Face : slot[v][f].key # key'
          BY <5>1 DEF Sealing
        <5> QED BY <3>1, <5>2 DEF Readable
      <4>2. CASE key # 0
        BY <2>4, <3>1, <4>2 DEF Derive, Readable
      <4> QED BY <4>1, <4>2
    <3>3. WhatOpens'
      BY <3>1, <3>2 DEF ClearInv, WhatOpens, Cleared
    <3>4. WhatWasRead'
      BY <3>1 DEF ClearInv, WhatWasRead, Cleared, InFlight
    <3>5. WhatIsOverwritten'
      BY <3>1 DEF ClearInv, WhatIsOverwritten
    <3> QED BY <3>3, <3>4, <3>5 DEF ClearInv
  <2>5. ASSUME NEW c \in Command, Write(c) PROVE ClearInv'
    <3> DEFINE v == main[c].vessel
    <3> DEFINE f == main[c].face
    <3> DEFINE files == main[c].files \union {main[c].file}
    <3>1. /\ InFlight(c) /\ v \in Vessel /\ f \in Face /\ main[c].file \notin condemned
          /\ UNCHANGED <<key, mon, condemned, resisted, finished>>
      BY <2>0, <2>5 DEF Write, InFlight, At, Fresh, Seen
    <3>2. carried' = IF main[c].around THEN carried \union files ELSE carried
      BY <2>5 DEF Write
    <3>3. \A d \in Command : /\ d # c => main'[d] = main[d]
                             /\ main'[d].vessel = main[d].vessel /\ ~InFlight(c)'
      BY <2>0, <2>5 DEF Write, NoMain, InFlight
    <3>4. slot'[v][f].files = files
          /\ \A w \in Vessel, g \in Face : w # v \/ g # f => slot'[w][g] = slot[w][g]
      BY <2>0, <2>5, <3>1 DEF Write
    <3>5. files \subseteq carried' \/ (carried' = carried /\ Cleared(v, main[c].files))
      BY <3>1, <3>2 DEF ClearInv, WhatWasRead
    <3>7. WhatOpens'
      <4> SUFFICES ASSUME NEW w \in Vessel, NEW g \in Face PROVE Cleared(w, Readable(w, g))'
        BY DEF WhatOpens
      <4>1. CASE w = v /\ g = f
        BY <3>1, <3>4, <3>5, <4>1 DEF Readable, Cleared
      <4>2. CASE w # v \/ g # f
        BY <3>1, <3>2, <3>4, <4>2 DEF ClearInv, WhatOpens, Cleared, Readable
      <4> QED BY <4>1, <4>2
    <3>8. WhatWasRead'
      BY <3>1, <3>2, <3>3 DEF ClearInv, WhatWasRead, Cleared, InFlight
    <3>9. ASSUME NEW d \in Command, mon'[d].at = "overwriting", NEW j \in 1..mon'[d].next
          PROVE  slot'[main'[d].vessel][Faces[j]].files \subseteq carried'
      <4>1. /\ mon[d].at = "overwriting" /\ mon[d].next \in 0..Len(Faces) /\ main[d].vessel \in Vessel
            /\ j \in 1..mon[d].next /\ main'[d].vessel = main[d].vessel
        BY <2>0, <3>1, <3>3, <3>9 DEF MonitorThread
      <4>2. Faces[j] \in Face
        BY <4>1, FacesFacts
      <4>3. main[c].around
        BY <3>1, <4>1 DEF ClearInv, WhatWasRead
      <4>4. slot[main[d].vessel][Faces[j]].files \subseteq carried
        BY <4>1 DEF ClearInv, WhatIsOverwritten
      <4>5. CASE main[d].vessel = v /\ Faces[j] = f
        BY <3>2, <3>4, <4>1, <4>3, <4>5
      <4>6. CASE main[d].vessel # v \/ Faces[j] # f
        BY <3>2, <3>4, <4>1, <4>2, <4>4, <4>6
      <4> QED BY <4>5, <4>6
    <3>10. ASSUME NEW w \in finished', NEW g \in Face
           PROVE  slot'[w][g].files \intersect condemned' \subseteq carried'
      <4>1. w \in finished /\ w \in Vessel
        BY <3>1 DEF EmergencyTypeOK
      <4>2. CASE w = v /\ g = f
        BY <3>1, <3>4, <3>5, <4>1, <4>2 DEF Cleared
      <4>3. CASE w # v \/ g # f
        BY <3>1, <3>2, <3>4, <4>1, <4>3 DEF ClearInv, WhatIsOverwritten
      <4> QED BY <4>2, <4>3
    <3> QED BY <3>7, <3>8, <3>9, <3>10 DEF ClearInv, WhatIsOverwritten
  <2>6. ASSUME NEW c \in Command, Return(c) \/ Exit(c) PROVE ClearInv'
    <3>1. /\ \A d \in Command : d # c => main'[d] = main[d] /\ mon'[d] = mon[d]
          /\ main'[c].at = "ended" /\ mon'[c].at = "off"
          /\ UNCHANGED <<device, condemned, carried, resisted, finished>>
      BY <2>0, <2>6 DEF Return, Exit, Ended, NoMain, NoMonitor
    <3> QED BY <3>1, ClearKept DEF InFlight
  <2>7. ASSUME NEW c \in Command,
               Look(c) \/ LookRaises(c) \/ Discard(c) \/ NoContainer(c) \/ LogFails(c)
        PROVE  ClearInv'
    <3>1. /\ \E at \in {"watch", "cleared", "leaving", "dead"} : Watch(c, at)
          /\ UNCHANGED <<device, main, condemned, carried, resisted, finished>>
      BY <2>7 DEF Look, LookRaises, Discard, NoContainer, LogFails, AfterError
    <3>2. \A d \in Command : mon'[d].at \in {"keyless", "overwriting"} => mon'[d] = mon[d]
      BY <3>1, Watches
    <3> QED BY <3>1, <3>2, ClearKept DEF InFlight
  <2>8. ASSUME NEW c \in Command, DestroyAccessKeys(c) PROVE ClearInv'
    <3>1. UNCHANGED <<slot, carried>> /\ finished' = {} /\ resisted' \in BOOLEAN
          /\ (key' = 0 \/ (key' = key /\ (key > 0 => resisted')))
      BY <2>8, FacesAssumption DEF DestroyAccessKeys, EmergencyTypeOK
    <3>2. \A d \in Command : /\ main'[d].vessel = main[d].vessel
                             /\ InFlight(d)' => main'[d].around
      BY <2>0, <2>8 DEF DestroyAccessKeys, MainThread, InFlight
    <3>3. \A d \in Command : mon'[d].at = "overwriting" => mon'[d] = mon[d]
      BY <2>8, Watches DEF DestroyAccessKeys
    <3>4. \A v \in Vessel, f \in Face : Readable(v, f)' = {} \/ resisted'
      BY <3>1 DEF Readable
    <3>5. WhatOpens'
      BY <3>1, <3>4 DEF WhatOpens, Cleared
    <3>6. WhatWasRead'
      BY <3>2 DEF WhatWasRead
    <3>7. WhatIsOverwritten'
      BY <3>1, <3>2, <3>3 DEF ClearInv, WhatIsOverwritten
    <3> QED BY <3>5, <3>6, <3>7 DEF ClearInv
  <2>9. ASSUME NEW c \in Command, Overwrite(c) PROVE ClearInv'
    <3> DEFINE i == mon[c].next + 1
    <3>1. /\ mon[c].at \in {"keyless", "overwriting"} /\ i \in 1..Len(Faces) /\ Faces[i] \in Face
          /\ main[c].vessel \in Vessel /\ mon[c].next \in 0..Len(Faces)
          /\ UNCHANGED <<exists, key, main, history>>
          /\ mon[c].at = "keyless" => mon[c].next = 0
      BY <2>0, <2>9, FacesFacts DEF Overwrite, MonitorThread, EmergencyTypeOK
    <3>2. /\ slot'[main[c].vessel][Faces[i]] = NoiseSlot
          /\ \A v \in Vessel, f \in Face : slot'[v][f] = slot[v][f] \/ slot'[v][f] = NoiseSlot
      BY <2>0, <2>9, <3>1 DEF Overwrite, Overwritten
    <3>3. /\ mon'[c].at = "overwriting" /\ mon'[c].next = i
          /\ \A d \in Command : d # c => mon'[d] = mon[d]
      BY <2>0, <2>9 DEF Overwrite, MonitorThread
    <3>4. \A v \in Vessel, f \in Face : slot'[v][f].files \subseteq slot[v][f].files
      BY <3>2 DEF NoiseSlot
    <3>5. WhatOpens'
      <4>1. \A v \in Vessel, f \in Face : Readable(v, f)' \subseteq Readable(v, f)
        BY <3>1, <3>2 DEF Readable, NoiseSlot
      <4> QED BY <3>1, <4>1 DEF ClearInv, WhatOpens, Cleared
    <3>6. WhatWasRead'
      BY <3>1, <3>3 DEF ClearInv, WhatWasRead, Cleared, InFlight
    <3>7. ASSUME NEW d \in Command, mon'[d].at = "overwriting", NEW j \in 1..mon'[d].next
          PROVE  slot'[main'[d].vessel][Faces[j]].files \subseteq carried'
      <4>1. /\ main'[d] = main[d] /\ main[d].vessel \in Vessel /\ carried' = carried
            /\ mon[d].next \in 0..Len(Faces) /\ j \in 1..Len(Faces) /\ Faces[j] \in Face
        <5>1. mon[d].at # "off"
          BY <3>1, <3>3, <3>7
        <5>2. mon[d].next \in 0..Len(Faces) /\ mon'[d].next \in 0..Len(Faces)
          BY <2>0, <3>1, <3>3 DEF MonitorThread
        <5>3. j \in 1..Len(Faces)
          BY <5>2, FacesFacts
        <5> QED BY <2>0, <3>1, <5>1, <5>2, <5>3, FacesFacts
      <4>2. CASE d = c /\ j = i
        BY <3>2, <4>1, <4>2 DEF NoiseSlot
      <4>3. CASE d # c \/ j # i
        <5>1. mon[d].at = "overwriting" /\ j \in 1..mon[d].next
          BY <3>1, <3>3, <3>7, <4>1, <4>3
        <5>2. slot[main[d].vessel][Faces[j]].files \subseteq carried
          BY <5>1 DEF ClearInv, WhatIsOverwritten
        <5> QED BY <3>4, <4>1, <5>2
      <4> QED BY <4>2, <4>3
    <3>8. ASSUME NEW v \in finished', NEW f \in Face
          PROVE  slot'[v][f].files \intersect condemned' \subseteq carried'
      <4>1. v \in finished /\ v \in Vessel
        BY <3>1 DEF EmergencyTypeOK
      <4> QED BY <3>1, <3>4, <4>1 DEF ClearInv, WhatIsOverwritten
    <3> QED BY <3>5, <3>6, <3>7, <3>8 DEF ClearInv, WhatIsOverwritten
  <2>10. ASSUME NEW c \in Command, RemoveTrigger(c) PROVE ClearInv'
    <3> DEFINE v == main[c].vessel
    <3>1. /\ mon[c].at = "overwriting" /\ mon[c].next = Len(Faces) /\ v \in Vessel
          /\ finished' = finished \union {v}
          /\ UNCHANGED <<device, main, condemned, carried, resisted>>
      BY <2>0, <2>10 DEF RemoveTrigger, RemovesAt
    <3>2. \A d \in Command : mon'[d].at \in {"keyless", "overwriting"} => mon'[d] = mon[d]
      BY <2>10, Watches DEF RemoveTrigger
    <3>3. \A f \in Face : slot[v][f].files \subseteq carried
      <4> SUFFICES ASSUME NEW f \in Face PROVE slot[v][f].files \subseteq carried
        OBVIOUS
      <4>1. PICK j \in 1..mon[c].next : f = Faces[j]
        BY <3>1, FacesFacts
      <4> QED BY <3>1, <4>1 DEF ClearInv, WhatIsOverwritten
    <3>4. WhatOpens'
      <4> SUFFICES ASSUME NEW w \in Vessel, NEW g \in Face PROVE Cleared(w, Readable(w, g))'
        BY DEF WhatOpens
      <4>1. Cleared(w, Readable(w, g)) /\ Readable(w, g)' = Readable(w, g)
        BY <3>1 DEF ClearInv, WhatOpens, Readable
      <4>2. w = v => Readable(w, g) \subseteq carried
        BY <3>3, ReadableType
      <4> QED BY <3>1, <4>1, <4>2 DEF Cleared
    <3>5. WhatWasRead'
      <4>1. \A d \in Command : InFlight(d) => main[d].around
        BY <3>1 DEF ClearInv, WhatWasRead
      <4> QED BY <3>1, <4>1 DEF WhatWasRead, InFlight
    <3>6. WhatIsOverwritten'
      <4>1. \A d \in Command : mon'[d].at = "overwriting" => mon[d].at = "overwriting" /\ mon'[d] = mon[d]
        BY <3>2
      <4> QED BY <3>1, <3>3, <4>1 DEF ClearInv, WhatIsOverwritten
    <3> QED BY <3>4, <3>5, <3>6 DEF ClearInv
  <2>12. ASSUME NEW c \in Command, LookElse(c) PROVE ClearInv'
    <3>1. UNCHANGED <<device, main, condemned, carried, resisted, finished>>
      BY <2>12 DEF LookElse
    <3>2. \A d \in Command : mon'[d].at \in {"keyless", "overwriting"} => mon'[d] = mon[d]
      BY <2>12, Reads
    <3> QED BY <3>1, <3>2, ClearKept DEF InFlight
  <2>11. CASE Place \/ Fill \/ UNCHANGED emergencyVars
    <3>1. UNCHANGED <<device, main, mon, condemned, carried, resisted, finished>>
      BY <2>11 DEF Place, Fill, emergencyVars
    <3> QED BY <3>1, ClearKept DEF InFlight
  <2> QED BY <2>1, <2>2, <2>3, <2>4, <2>5, <2>6, <2>7, <2>8, <2>9, <2>10, <2>11, <2>12
          DEF EmergencyNext, Monitor
<1> QED BY <1>1, <1>2, EmergencyTypeCorrect, FreshHolds, PTL DEF EmergencySpec

(* Nothing that was on the device when a clear began still opens, except   *)
(* what a command read before the clear and wrote back around it, however  *)
(* the clear was cut short; and where the key resisted, the trigger is     *)
(* there for the next command, unless another monitor removed it: used up  *)
(* on its own container, or taken for invalid.                             *)
THEOREM ClearedOrRetriedHolds == EmergencySpec => []ClearedOrRetried
<1>1. EmergencyTypeOK /\ TriggerInv /\ ClearInv => ClearedOrRetried
  <2> SUFFICES ASSUME EmergencyTypeOK, TriggerInv, ClearInv, NEW v \in Vessel
               PROVE  \/ (UNION {Readable(v, f) : f \in Face}) \intersect condemned \subseteq carried
                      \/ /\ resisted /\ v \notin finished
                         /\ trigger # NoFile \/ found \in {"used", "dismissed"}
    BY DEF ClearedOrRetried
  <2>1. CASE resisted /\ v \notin finished
    BY <2>1 DEF TriggerInv
  <2>2. CASE ~(resisted /\ v \notin finished)
    <3>1. \A f \in Face : Readable(v, f) \intersect condemned \subseteq carried
      BY <2>2 DEF ClearInv, WhatOpens, Cleared
    <3>2. ASSUME NEW x \in UNION {Readable(v, f) : f \in Face}, x \in condemned PROVE x \in carried
      <4>1. PICK f \in Face : x \in Readable(v, f)
        BY <3>2
      <4> QED BY <3>1, <3>2, <4>1
    <3> QED BY <3>2
  <2> QED BY <2>1, <2>2
<1> QED BY <1>1, EmergencyTypeCorrect, TriggerInvHolds, ClearInvHolds, PTL
=============================================================================
