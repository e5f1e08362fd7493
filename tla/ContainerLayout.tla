--------------------------- MODULE ContainerLayout ---------------------------
(***************************************************************************)
(* A container byte by byte (container_layout.py, record_cypher.py and the *)
(* writes of vault_core.py): where its slots lie, and what the operations  *)
(* that write it, from front to back, have left when power is lost.  It    *)
(* implements SlotStore.                                                   *)
(***************************************************************************)
EXTENDS Integers

CONSTANTS
    Size,             \* container_size
    RECORD_OVERHEAD,  \* salt, nonce and tag
    MIN_PLAINTEXT,    \* the capacity a slot must exceed
    Record,           \* encrypted records, salt and nonce included
    Length,           \* the bytes each encodes to in an open slot
    Noise             \* of a byte: random; of a slot: nothing opens it

ASSUME SizeAssumption == Size \in Nat /\ Size >= 4
ASSUME RecordAssumption ==
    /\ RECORD_OVERHEAD \in Nat /\ MIN_PLAINTEXT \in Nat
    /\ Length \in [Record -> Nat] /\ Noise \notin Record

Mode == {"dummy", "secret"}
Role == {"open", "purge"}

-----------------------------------------------------------------------------
(* The layout *)

ModeSpan(m) ==
    IF m = "secret" THEN [start |-> Size \div 2, length |-> Size - Size \div 2]
                    ELSE [start |-> 0, length |-> Size \div 2]

(* Mutant: the restricted slot starts a byte early. *)
SlotSpan_Overlap(m, r) ==
    LET first == ModeSpan(m).length \div 2
    IN  IF r = "open" THEN [start |-> ModeSpan(m).start, length |-> first]
        ELSE [start |-> ModeSpan(m).start + first - 1,
              length |-> ModeSpan(m).length - first + 1]

SlotSpan(m, r) ==
    LET first == ModeSpan(m).length \div 2
    IN  IF r = "open" THEN [start |-> ModeSpan(m).start, length |-> first]
        ELSE [start |-> ModeSpan(m).start + first, length |-> ModeSpan(m).length - first]

End(span) == span.start + span.length
Bytes(span) == span.start..(End(span) - 1)

PlaintextCapacity(m, r) == SlotSpan(m, r).length - RECORD_OVERHEAD

(* A record names its role: in a restricted slot it is one byte longer.    *)
(* The rest of the capacity is padded.                                     *)
Fits(x, m, r) ==
    /\ PlaintextCapacity(m, r) > MIN_PLAINTEXT
    /\ Length[x] + (IF r = "open" THEN 0 ELSE 1) <= PlaintextCapacity(m, r)

PayloadLength(m, r) == RECORD_OVERHEAD + PlaintextCapacity(m, r)

-----------------------------------------------------------------------------
VARIABLES
    bytes,  \* the container: each byte is noise, or one of a written record
    op      \* the write under way: what, where, and how far it got

vars == <<bytes, op>>

Blank == [rec |-> Noise, mode |-> "dummy", role |-> "open", at |-> 0]
Byte == [rec : Record, mode : Mode, role : Role, at : 0..(Size - 1)] \union {Blank}

(* A write of x is to the slot of mode and role; an erasure (x = Noise) of *)
(* the bytes from start on.                                                *)
Idle == [rec |-> Noise, mode |-> "dummy", role |-> "open", start |-> 0, at |-> 0, end |-> 0]

Init == bytes = [i \in 0..(Size - 1) |-> Blank] /\ op = Idle

Begin(x, m, r, start, end) ==
    /\ op = Idle
    /\ op' = [rec |-> x, mode |-> m, role |-> r, start |-> start, at |-> start, end |-> end]
    /\ UNCHANGED bytes

(* _write_slot; what does not fit is refused before the file is opened. *)
WriteSlot(m, r, x) ==
    /\ Fits(x, m, r)
    /\ Begin(x, m, r, SlotSpan(m, r).start, SlotSpan(m, r).start + PayloadLength(m, r))

RandomizeSlot(m, r) == Begin(Noise, m, r, SlotSpan(m, r).start, End(SlotSpan(m, r)))
PurgeMode(m) == Begin(Noise, m, "open", ModeSpan(m).start, End(ModeSpan(m)))
SilentBrick == Begin(Noise, "dummy", "open", 0, Size)

(* The file is truncated as it is opened, and filled with noise: a byte    *)
(* that is not there reads as badly as noise.                              *)
FormatContainer ==
    /\ op = Idle
    /\ bytes' = [i \in 0..(Size - 1) |-> Blank]
    /\ UNCHANGED op

(* The byte the operation puts next. *)
NextByte == IF op.rec = Noise THEN Blank
             ELSE [rec |-> op.rec, mode |-> op.mode, role |-> op.role, at |-> op.at - op.start]

PutByte ==
    /\ op # Idle /\ op.at < op.end
    /\ bytes' = [bytes EXCEPT ![op.at] = NextByte]
    /\ op' = [op EXCEPT !.at = @ + 1]

Done ==
    /\ op # Idle /\ op.at = op.end
    /\ op' = Idle
    /\ UNCHANGED bytes

PowerLoss == op # Idle /\ op' = Idle /\ UNCHANGED bytes

Next ==
    \/ \E m \in Mode, r \in Role : RandomizeSlot(m, r) \/ \E x \in Record : WriteSlot(m, r, x)
    \/ \E m \in Mode : PurgeMode(m)
    \/ SilentBrick \/ FormatContainer
    \/ PutByte \/ Done \/ PowerLoss

Spec == Init /\ [][Next]_vars

-----------------------------------------------------------------------------
(* Reading a slot back (_retrieve_slot): all its bytes must be one record's *)
(* own, written for this slot.                                              *)
Holds(x, m, r) ==
    \A i \in Bytes(SlotSpan(m, r)) :
        bytes[i] = [rec |-> x, mode |-> m, role |-> r, at |-> i - SlotSpan(m, r).start]

RetrieveSlot(m, r) ==
    LET x == bytes[SlotSpan(m, r).start].rec
    IN  IF Holds(x, m, r) THEN x ELSE Noise

Reach(m, r) == \E i \in Bytes(SlotSpan(m, r)) : op.start <= i /\ i < op.end

Store == INSTANCE SlotStore
    WITH slot <- [s \in Mode \X Role |-> RetrieveSlot(s[1], s[2])],
         doomed <- {s \in Mode \X Role : op # Idle /\ Reach(s[1], s[2])},
         wanted <- op.rec

(* Type invariant. *)
TypeOK ==
    /\ bytes \in [0..(Size - 1) -> Byte]
    /\ op \in [rec : Record \union {Noise}, mode : Mode, role : Role,
               start : 0..Size, at : 0..Size, end : 0..Size]

(* The layout keeps the promises of SlotStore: whatever is written, and    *)
(* wherever power is lost, no slot but those an operation names is ever    *)
(* disturbed, none of these holds anything but what it held, what it is to *)
(* hold, or noise, and a finished write opens, a finished erasure does not.*)
StoreSpec == Store!Spec
=============================================================================
