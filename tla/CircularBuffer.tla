--------------------------- MODULE CircularBuffer ---------------------------
(***************************************************************************)
(* CircularBuffer (common/circular_buffer.h), the container of             *)
(* PacketHistory (packet_history.h): a list of trunks addressed by key.    *)
(* Nothing sets rotate_, so elem_begin_ and key_flag stay 0 and hash is    *)
(* the key.  Values are packets [seq_no, size].  emplace inserts: it       *)
(* shifts the rest of the trunk and makes the trunk longer.                *)
(***************************************************************************)
EXTENDS Integers, SequencesExt

CONSTANT TrunkSize     \* constructor argument buffer_size, 1024
kDefaultTrunkSize == 2

ASSUME TrunkAssumption == TrunkSize \in Nat \ {0}

VARIABLE elems         \* elems_: a sequence of trunks of cells

Packet(seq_no, size) == [seq_no |-> seq_no, size |-> size]
DefaultPacket == Packet(0, 0)

EmptyTrunk(length) == [i \in 1..length |-> DefaultPacket]

BufferInit == elems = [i \in 1..kDefaultTrunkSize |-> EmptyTrunk(TrunkSize)]

FrontSize(trunks) == Len(trunks[1])

(* trunk and index: which trunk holds a position (one past the last trunk  *)
(* is elems_.end()), and where in it.                                      *)
TrunkOf(trunks, pos) ==
  IF pos < FrontSize(trunks) THEN 1
  ELSE LET n == (pos - FrontSize(trunks)) \div FrontSize(trunks) + 2
       IN  IF n > Len(trunks) THEN Len(trunks) + 1 ELSE n

IndexOf(trunks, pos) ==
  IF pos < FrontSize(trunks) THEN pos ELSE (pos - FrontSize(trunks)) % FrontSize(trunks)

(* beyond_allocated compares with >, so the first position past the last   *)
(* trunk does not count as beyond.                                         *)
BeyondAllocated(trunks, pos) == pos > Len(trunks) * FrontSize(trunks)

(* allocate_trunk until the position is not beyond.                        *)
Allocated(trunks, pos) ==
  LET short == pos - Len(trunks) * FrontSize(trunks)
      count == (short + FrontSize(trunks) - 1) \div FrontSize(trunks)
  IN  IF BeyondAllocated(trunks, pos)
        THEN trunks \o [i \in 1..count |-> EmptyTrunk(FrontSize(trunks))]
        ELSE trunks

(* A mutant: the packet lands one cell further.                            *)
EmplacedFurther(key, packet) ==
  LET trunks == Allocated(elems, key)
      n      == TrunkOf(trunks, key)
  IN  IF n > Len(trunks) THEN trunks
      ELSE [trunks EXCEPT ![n] = InsertAt(@, IndexOf(trunks, key) + 2, packet)]

(* emplace.  Writing through elems_.end() is undefined: the model takes    *)
(* the mildest outcome, that nothing is stored.                            *)
Emplaced(key, packet) ==
  LET trunks == Allocated(elems, key)
      n      == TrunkOf(trunks, key)
  IN  IF n > Len(trunks) THEN trunks
      ELSE [trunks EXCEPT ![n] = InsertAt(@, IndexOf(trunks, key) + 1, packet)]

(* get: nullptr is <<>>; a cell never filled yields the default packet.    *)
(* A trunk behind a longer first one may be shorter than the index; the    *)
(* code reads past its end, which is undefined, and the model again takes  *)
(* the mildest outcome, that nothing is found.                             *)
Get(key) ==
  LET n == TrunkOf(elems, key)
  IN  IF n > Len(elems) \/ IndexOf(elems, key) >= Len(elems[n]) THEN <<>>
      ELSE <<elems[n][IndexOf(elems, key) + 1]>>
=============================================================================
